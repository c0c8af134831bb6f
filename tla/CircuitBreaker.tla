---------------------------- MODULE CircuitBreaker ----------------------------
(***************************************************************************)
(* The circuit breaker of infrastructure/gateway/circuit_breaker.go,       *)
(* between the worker's retry loop (payment_worker.go 108-133) and the     *)
(* gateway.  A worker process has one breaker and calls it from one        *)
(* goroutine.  The state machine of the breaker is that of                 *)
(* sony/gobreaker with a fixed window; the settings are the code's.        *)
(*                                                                         *)
(* Time is in ticks of 500 ms, the first backoff.  Nothing hurries: a call *)
(* or a wait may take any time beyond its minimum.  A timer that is due in *)
(* this tick may be seen as over or not; after the tick it is over.        *)
(***************************************************************************)
EXTENDS Integers

CONSTANTS MaxRetries,   \* attempts per payment (3)
          Threshold,    \* consecutive failures that trip the breaker (3)
          MaxRequests,  \* probes that close it again (3)
          Interval,     \* ticks after which a closed breaker clears its counts
          Timeout,      \* ticks a breaker stays open
          MaxUntried    \* bound: how far untried is counted

ASSUME BreakerAssumption ==
  /\ {MaxRetries, Threshold, MaxRequests, Interval, Timeout} \subseteq Nat \ {0}
  /\ MaxUntried \in Nat

VARIABLES breaker,  \* state, requests and results counted, time left
          phase,    \* where the worker is
          attempt,  \* the attempt it is at
          wait,     \* ticks of backoff left
          healthy,  \* the gateway answers without an error
          tried,    \* the gateway was called for the payment in hand
          untried,  \* history: payments that failed without a call, in a row
          errors    \* history: errors of the gateway since its last answer

worker  == <<phase, attempt, wait>>
history == <<tried, untried, errors>>
vars == <<breaker, worker, healthy, history>>

Over == -1  \* a timer that has run out

Fresh(state, left) ==
  [state |-> state, requests |-> 0, successes |-> 0, failures |-> 0, left |-> left]
Closed   == Fresh("closed", Interval)
Open     == Fresh("open", Timeout)
HalfOpen == Fresh("halfOpen", Over)

(* (Mutants: it trips one failure early or late; the probing has no end.)  *)
ReadyToTripEarly(b) == b.failures >= Threshold - 1
ReadyToTripLate(b) == b.failures > Threshold
ReadyToTrip(b) == b.failures >= Threshold

AllProbedOneLate(b) == b.successes > MaxRequests
AllProbed(b) == b.successes >= MaxRequests

(* currentState: a closed breaker whose interval is over starts a new      *)
(* count, an open one whose timeout is over lets probes through.  Looked   *)
(* at only when a call starts or ends.                                     *)
Lapsed(b) == CASE b.state = "closed" -> Closed
               [] b.state = "open"   -> HalfOpen
               [] OTHER              -> b
Current(b) == IF b.left = Over THEN {Lapsed(b)}
              ELSE IF b.left = 0 THEN {b, Lapsed(b)}
              ELSE {b}

(* Bound: only a half-open breaker reads the requests and successes, and   *)
(* only up to MaxRequests.                                                 *)
Count(n) == IF n > MaxRequests THEN n ELSE n + 1

(* afterRequest, on the state the call started in.                         *)
OnSuccess(b) ==
  LET c == [b EXCEPT !.successes = Count(@), !.failures = 0] IN
  IF b.state = "halfOpen" /\ AllProbed(c) THEN Closed ELSE c

OnFailure(b) ==
  LET c == [b EXCEPT !.failures = @ + 1, !.successes = 0] IN
  IF b.state = "halfOpen" \/ ReadyToTrip(c) THEN Open ELSE c

(* The result of a call is dropped when the interval ended meanwhile.      *)
After(b, result) == {IF c = b THEN result ELSE c : c \in Current(b)}

-----------------------------------------------------------------------------
(* The worker has claimed a payment and enters the loop.                   *)
Begin ==
  /\ phase = "idle"
  /\ phase' = "ready" /\ attempt' = 1 /\ tried' = FALSE
  /\ UNCHANGED <<breaker, wait, healthy, untried, errors>>

(* An attempt ends in an error: a backoff of 2^(attempt-1) ticks, or the   *)
(* last one, which fails the payment.  (The first is a mutant: no backoff.) *)
AttemptFailsAtOnce ==
  IF attempt < MaxRetries
  THEN /\ phase' = "backoff" /\ wait' = 0
       /\ UNCHANGED <<attempt, untried>>
  ELSE /\ phase' = "idle"
       /\ untried' = IF tried \/ untried = MaxUntried THEN untried ELSE untried + 1
       /\ UNCHANGED <<attempt, wait>>

AttemptFails ==
  IF attempt < MaxRetries
  THEN /\ phase' = "backoff" /\ wait' = 2^(attempt - 1)
       /\ UNCHANGED <<attempt, untried>>
  ELSE /\ phase' = "idle"
       /\ untried' = IF tried \/ untried = MaxUntried THEN untried ELSE untried + 1
       /\ UNCHANGED <<attempt, wait>>

(* beforeRequest refuses: the breaker is open, or all the probes are out.  *)
TooMany(b) == b.state = "halfOpen" /\ b.requests >= MaxRequests
Refuses(b) == b.state = "open" \/ TooMany(b)

Refuse ==
  /\ phase = "ready"
  /\ \E b \in Current(breaker) : Refuses(b) /\ breaker' = b
  /\ AttemptFails
  /\ UNCHANGED <<healthy, tried, errors>>

Call ==
  /\ phase = "ready"
  /\ \E b \in Current(breaker) :
        ~ Refuses(b) /\ breaker' = [b EXCEPT !.requests = Count(@)]
  /\ phase' = "calling" /\ tried' = TRUE /\ untried' = 0
  /\ UNCHANGED <<attempt, wait, healthy, errors>>

(* FakeGateway.Process approves or rejects: the breaker sees no error, and *)
(* the loop ends.                                                          *)
GatewayAnswers ==
  /\ phase = "calling"
  /\ breaker' \in After(breaker, OnSuccess(breaker))
  /\ phase' = "idle" /\ errors' = 0
  /\ UNCHANGED <<attempt, wait, healthy, tried, untried>>

GatewayErrs ==
  /\ phase = "calling" /\ ~ healthy
  /\ breaker' \in After(breaker, OnFailure(breaker))
  /\ AttemptFails
  /\ errors' = IF errors = Threshold THEN errors ELSE errors + 1
  /\ UNCHANGED <<healthy, tried>>

BackoffElapses ==
  /\ phase = "backoff" /\ wait = 0
  /\ phase' = "ready" /\ attempt' = attempt + 1
  /\ UNCHANGED <<breaker, wait, healthy, history>>

Tick ==
  /\ breaker' = IF breaker.left = Over THEN breaker
                ELSE [breaker EXCEPT !.left = @ - 1]
  /\ wait' = IF wait = 0 THEN 0 ELSE wait - 1
  /\ UNCHANGED <<phase, attempt, healthy, history>>

(* The gateway starts to return errors, and stops.                         *)
Degrade == healthy  /\ healthy' = FALSE /\ UNCHANGED <<breaker, worker, history>>
Recover == ~ healthy /\ healthy' = TRUE /\ UNCHANGED <<breaker, worker, history>>

-----------------------------------------------------------------------------
Init ==
  /\ breaker = Closed
  /\ phase = "idle" /\ attempt = 1 /\ wait = 0
  /\ healthy \in BOOLEAN
  /\ tried = FALSE /\ untried = 0 /\ errors = 0

Work == Begin \/ Refuse \/ Call \/ GatewayAnswers \/ GatewayErrs \/ BackoffElapses

Next == Work \/ Tick \/ Degrade \/ Recover

Spec == Init /\ [][Next]_vars

(* Time passes, payments keep coming and the worker keeps working.         *)
FairSpec == Spec /\ WF_vars(Work) /\ WF_vars(Tick)

-----------------------------------------------------------------------------
(* Every variable keeps its type; a closed breaker counts fewer failures   *)
(* than would trip it, and an open one counts nothing.                     *)
TypeOK ==
  /\ breaker.state \in {"closed", "open", "halfOpen"}
  /\ {breaker.requests, breaker.successes, breaker.failures} \subseteq Nat
  /\ breaker.left \in Over..(IF breaker.state = "open" THEN Timeout ELSE Interval)
  /\ breaker.failures < Threshold
  /\ breaker.state = "open" => breaker = [Open EXCEPT !.left = breaker.left]
  /\ phase \in {"idle", "ready", "calling", "backoff"}
  /\ attempt \in 1..MaxRetries
  /\ wait \in 0..2^(MaxRetries - 1)
  /\ {healthy, tried} \subseteq BOOLEAN
  /\ untried \in 0..MaxUntried
  /\ errors \in 0..Threshold
  /\ phase = "backoff" => attempt < MaxRetries

(* One goroutine never meets ErrTooManyRequests, which Process does not    *)
(* turn into ErrGatewayUnavailable (circuit_breaker.go 53-58): the probes  *)
(* of a half-open breaker are all answered before they run out.            *)
NeverTooMany ==
  /\ phase = "ready" => ~ TooMany(breaker)
  /\ breaker.state = "halfOpen" =>
       breaker.requests = breaker.successes + (IF phase = "calling" THEN 1 ELSE 0)

(* "Trip the breaker if we have 3 consecutive failures" (circuit_breaker.go *)
(* 27): a closed breaker opens on no fewer errors in a row.                *)
OpensForCause ==
  [][breaker.state = "closed" /\ breaker'.state = "open" => errors' >= Threshold]_vars

(* A breaker that is open fails payments the gateway never saw, since it   *)
(* outlasts the whole retry loop of a payment (1.5 s of backoff in 10 s):  *)
(* six in a row, and no more.                                              *)
AtMostSixUntried == untried <= 6

(* When the gateway has recovered for good, the breaker closes again.      *)
ClosesAgain == <>[]healthy => []<>(breaker.state = "closed")
===============================================================================
