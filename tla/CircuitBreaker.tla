---------------------------- MODULE CircuitBreaker ----------------------------
(***************************************************************************)
(* The lock-free circuit breaker of pkg/patterns/circuitbreaker, through   *)
(* which KeyRepositoryCircuitBreaker sends every repository call.  Its     *)
(* state is four atomic words; every atomic operation is a step of its     *)
(* own, so that calls interleave between a load and the operation that     *)
(* relies on it.                                                           *)
(*                                                                         *)
(* failures and successCount are only compared with their thresholds and   *)
(* set to zero, so they saturate there; of lastFailureTime it only matters *)
(* whether resetTimeout has passed since.                                  *)
(***************************************************************************)
EXTENDS Integers, FiniteSets

CONSTANTS Procs,             \* concurrent Execute calls
          MaxFailures,       \* failures that open a closed breaker
          HalfOpenRequests   \* successes that close a half-open breaker

ASSUME CircuitBreakerAssumption ==
    /\ MaxFailures \in Nat \ {0}
    /\ HalfOpenRequests \in Nat \ {0}

VARIABLES state, failures, successCount,
          expired,   \* resetTimeout has passed since lastFailureTime
          healthy,   \* repository calls return in time and without error
          call       \* call[p]: where Execute call p is

vars == <<state, failures, successCount, expired, healthy, call>>

-----------------------------------------------------------------------------

State == {"closed", "open", "halfopen"}

PC == {"idle",
       "checkReset", "casHalfOpen", "zeroHalfOpen", "checkProbe",      \* canExecute
       "fn",                                                           \* the call itself
       "addFailure", "stamp", "loadFailed", "casOpen", "zeroOpen",     \* recordResult(err)
       "loadSucceeded", "addSuccess", "casClosed",                     \* recordResult(nil)
       "zeroFailures", "zeroClosed", "resetFailures"}

Call == [pc: PC,
         from: State \ {"open"},  \* the state a recorded failure moves to open
         tripped: BOOLEAN]         \* newFailures >= maxFailures

Idle == [pc |-> "idle", from |-> "closed", tripped |-> FALSE]

\* The words of the breaker and the progress of each call.  A recorded failure never
\* opens a breaker that is open already: LoadFailed goes on to the transition from
\* closed and half-open only.
TypeOK ==
    /\ state \in State
    /\ failures \in 0..MaxFailures
    /\ successCount \in 0..HalfOpenRequests
    /\ expired \in BOOLEAN
    /\ healthy \in BOOLEAN
    /\ call \in [Procs -> Call]

Init ==
    /\ state = "closed"
    /\ failures = 0
    /\ successCount = 0
    /\ expired = TRUE
    /\ healthy \in BOOLEAN
    /\ call = [p \in Procs |-> Idle]

\* counter.Add(1), saturating at the threshold it is compared with.
Incr(n, limit) == IF n < limit THEN n + 1 ELSE limit

GoTo(p, pc) == call' = [call EXCEPT ![p].pc = pc]

Return(p) == call' = [call EXCEPT ![p] = Idle]

-----------------------------------------------------------------------------
(* canExecute *)

LoadState(p) ==
    /\ call[p].pc = "idle"
    /\ call' = [call EXCEPT ![p].pc = CASE state = "closed" -> "fn"
                                        [] state = "open" -> "checkReset"
                                        [] state = "halfopen" -> "checkProbe"]
    /\ UNCHANGED <<state, failures, successCount, expired, healthy>>

CheckReset(p) ==
    /\ call[p].pc = "checkReset"
    /\ IF expired THEN GoTo(p, "casHalfOpen") ELSE Return(p)
    /\ UNCHANGED <<state, failures, successCount, expired, healthy>>

\* transition(StateOpen, StateHalfOpen); the call proceeds whoever wins.
CasHalfOpen(p) ==
    /\ call[p].pc = "casHalfOpen"
    /\ \/ /\ state = "open"
          /\ state' = "halfopen"
          /\ GoTo(p, "zeroHalfOpen")
       \/ /\ state # "open"
          /\ GoTo(p, "fn")
          /\ UNCHANGED state
    /\ UNCHANGED <<failures, successCount, expired, healthy>>

ZeroHalfOpen(p) ==
    /\ call[p].pc = "zeroHalfOpen"
    /\ successCount' = 0
    /\ GoTo(p, "fn")
    /\ UNCHANGED <<state, failures, expired, healthy>>

\* Mutant: one probe fewer is let through than the breaker needs to close.
CheckProbeOneFewer(p) ==
    /\ call[p].pc = "checkProbe"
    /\ IF successCount + 1 < HalfOpenRequests THEN GoTo(p, "fn") ELSE Return(p)
    /\ UNCHANGED <<state, failures, successCount, expired, healthy>>

CheckProbe(p) ==
    /\ call[p].pc = "checkProbe"
    /\ IF successCount < HalfOpenRequests THEN GoTo(p, "fn") ELSE Return(p)
    /\ UNCHANGED <<state, failures, successCount, expired, healthy>>

-----------------------------------------------------------------------------
(* Execute: the function returns, fails, times out or is cancelled *)

Fn(p) ==
    /\ call[p].pc = "fn"
    /\ \/ GoTo(p, "loadSucceeded")
       \/ ~healthy /\ GoTo(p, "addFailure")
    /\ UNCHANGED <<state, failures, successCount, expired, healthy>>

-----------------------------------------------------------------------------
(* recordResult(err) *)

AddFailure(p) ==
    /\ call[p].pc = "addFailure"
    /\ failures' = Incr(failures, MaxFailures)
    /\ call' = [call EXCEPT ![p].pc = "stamp", ![p].tripped = failures' >= MaxFailures]
    /\ UNCHANGED <<state, successCount, expired, healthy>>

Stamp(p) ==
    /\ call[p].pc = "stamp"
    /\ expired' = FALSE
    /\ GoTo(p, "loadFailed")
    /\ UNCHANGED <<state, failures, successCount, healthy>>

\* Mutant: an open breaker is opened again.
LoadFailedNotClosed(p) ==
    /\ call[p].pc = "loadFailed"
    /\ IF state # "closed" \/ call[p].tripped
       THEN call' = [call EXCEPT ![p].pc = "casOpen", ![p].from = state]
       ELSE Return(p)
    /\ UNCHANGED <<state, failures, successCount, expired, healthy>>

LoadFailed(p) ==
    /\ call[p].pc = "loadFailed"
    /\ IF state = "halfopen" \/ (state = "closed" /\ call[p].tripped)
       THEN call' = [call EXCEPT ![p].pc = "casOpen", ![p].from = state]
       ELSE Return(p)
    /\ UNCHANGED <<state, failures, successCount, expired, healthy>>

\* transition(currentState, StateOpen)
CasOpen(p) ==
    /\ call[p].pc = "casOpen"
    /\ \/ /\ state = call[p].from
          /\ state' = "open"
          /\ GoTo(p, "zeroOpen")
       \/ /\ state # call[p].from
          /\ Return(p)
          /\ UNCHANGED state
    /\ UNCHANGED <<failures, successCount, expired, healthy>>

ZeroOpen(p) ==
    /\ call[p].pc = "zeroOpen"
    /\ successCount' = 0
    /\ Return(p)
    /\ UNCHANGED <<state, failures, expired, healthy>>

-----------------------------------------------------------------------------
(* recordResult(nil) *)

LoadSucceeded(p) ==
    /\ call[p].pc = "loadSucceeded"
    /\ GoTo(p, IF state = "halfopen" THEN "addSuccess" ELSE "resetFailures")
    /\ UNCHANGED <<state, failures, successCount, expired, healthy>>

\* Mutant: the breaker closes on one success too many.
AddSuccessOffByOne(p) ==
    /\ call[p].pc = "addSuccess"
    /\ successCount' = Incr(successCount, HalfOpenRequests)
    /\ IF successCount >= HalfOpenRequests THEN GoTo(p, "casClosed") ELSE Return(p)
    /\ UNCHANGED <<state, failures, expired, healthy>>

AddSuccess(p) ==
    /\ call[p].pc = "addSuccess"
    /\ successCount' = Incr(successCount, HalfOpenRequests)
    /\ IF successCount' >= HalfOpenRequests THEN GoTo(p, "casClosed") ELSE Return(p)
    /\ UNCHANGED <<state, failures, expired, healthy>>

\* transition(StateHalfOpen, StateClosed)
CasClosed(p) ==
    /\ call[p].pc = "casClosed"
    /\ \/ /\ state = "halfopen"
          /\ state' = "closed"
          /\ GoTo(p, "zeroFailures")
       \/ /\ state # "halfopen"
          /\ Return(p)
          /\ UNCHANGED state
    /\ UNCHANGED <<failures, successCount, expired, healthy>>

ZeroFailures(p) ==
    /\ call[p].pc = "zeroFailures"
    /\ failures' = 0
    /\ GoTo(p, "zeroClosed")
    /\ UNCHANGED <<state, successCount, expired, healthy>>

ZeroClosed(p) ==
    /\ call[p].pc = "zeroClosed"
    /\ successCount' = 0
    /\ Return(p)
    /\ UNCHANGED <<state, failures, expired, healthy>>

ResetFailures(p) ==
    /\ call[p].pc = "resetFailures"
    /\ failures' = 0
    /\ Return(p)
    /\ UNCHANGED <<state, successCount, expired, healthy>>

-----------------------------------------------------------------------------

\* resetTimeout passes without a failure being recorded.
Tick ==
    /\ ~expired
    /\ expired' = TRUE
    /\ UNCHANGED <<state, failures, successCount, healthy, call>>

\* The repository breaks or recovers.
Backend ==
    /\ healthy' = ~healthy
    /\ UNCHANGED <<state, failures, successCount, expired, call>>

Execute(p) ==
    \/ LoadState(p) \/ CheckReset(p) \/ CasHalfOpen(p) \/ ZeroHalfOpen(p) \/ CheckProbe(p)
    \/ Fn(p)
    \/ AddFailure(p) \/ Stamp(p) \/ LoadFailed(p) \/ CasOpen(p) \/ ZeroOpen(p)
    \/ LoadSucceeded(p) \/ AddSuccess(p) \/ CasClosed(p)
    \/ ZeroFailures(p) \/ ZeroClosed(p) \/ ResetFailures(p)

Next == (\E p \in Procs : Execute(p)) \/ Tick \/ Backend

Spec == Init /\ [][Next]_vars

\* Goroutines are scheduled, time passes, and clients keep calling (an idle
\* breaker has no timer of its own: only a call moves it).
FairSpec == Spec /\ WF_vars(Tick) /\ \A p \in Procs : WF_vars(Execute(p))

-----------------------------------------------------------------------------
(* Properties *)

\* A half-open breaker that has seen enough successes, and therefore rejects
\* every further call, is never left like that: some call is about to close it
\* or to reset the counter.  The stale success of a call from an earlier period
\* may be counted at any time, also between the transition and its reset.
HalfOpenNotStuck ==
    state = "halfopen" /\ successCount >= HalfOpenRequests =>
        \E p \in Procs : call[p].pc \in {"casClosed", "zeroHalfOpen"}

\* Once the repository stays healthy and calls keep coming, the breaker closes
\* and stays closed, whatever mixture of loads, counters and transitions the
\* outage left behind.
BreakerRecovers == <>[]healthy => <>[](state = "closed")
=============================================================================
