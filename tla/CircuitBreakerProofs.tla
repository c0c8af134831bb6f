------------------------ MODULE CircuitBreakerProofs ------------------------
(***************************************************************************)
(* Proofs about CircuitBreaker, for any threshold, number of probes,       *)
(* interval and timeout: one goroutine is never refused a probe, the       *)
(* breaker opens for nothing less than its threshold of errors in a row,   *)
(* and fails no more payments untried than fit into its timeout.           *)
(***************************************************************************)
EXTENDS CircuitBreaker, TLAPS

USE BreakerAssumption DEF Over

Breaker == [state : {"closed", "open", "halfOpen"}, requests : Nat, successes : Nat,
            failures : Nat, left : Int]

Calling == IF phase = "calling" THEN 1 ELSE 0

(* What is known of the breaker: the errors it counts are errors of the    *)
(* gateway in a row, an open one counts nothing and no call is out, and    *)
(* every probe of a half-open one but the last is answered.                *)
StateInv(b) ==
  /\ b \in Breaker
  /\ b.failures < Threshold
  /\ b.state = "closed" => b.left \in Over..Interval
  /\ b.state = "open" => b.left \in Over..Timeout /\ b = [Open EXCEPT !.left = b.left]
  /\ b.state = "halfOpen" => b.left = Over /\ b.successes < MaxRequests

(* The inductive invariant.                                                *)
BreakerInv ==
  /\ StateInv(breaker)
  /\ breaker.state = "halfOpen" => breaker.requests = breaker.successes + Calling
  /\ phase = "calling" => breaker.state # "open"
  /\ phase \in {"idle", "ready", "calling", "backoff"}
  /\ attempt \in 1..MaxRetries
  /\ phase = "backoff" => attempt < MaxRetries
  /\ errors \in 0..Threshold
  /\ breaker.failures <= errors

-----------------------------------------------------------------------------
(* The breaker.                                                            *)
(* The three states a breaker starts from have nothing counted.            *)
LEMMA FreshStates ==
  /\ StateInv(Closed) /\ Closed.state = "closed"
  /\ StateInv(Open) /\ Open.state = "open"
  /\ StateInv(HalfOpen) /\ HalfOpen.state = "halfOpen"
  /\ Closed.failures = 0 /\ Open.failures = 0 /\ HalfOpen.failures = 0
  /\ HalfOpen.requests = 0 /\ HalfOpen.successes = 0
<1>1. /\ Closed \in Breaker /\ Open \in Breaker /\ HalfOpen \in Breaker
      /\ Open = [Open EXCEPT !.left = Open.left]
  BY DEF Closed, Open, HalfOpen, Fresh, Breaker
<1>2. /\ Closed.state = "closed" /\ Closed.left = Interval
      /\ Open.state = "open" /\ Open.left = Timeout
      /\ HalfOpen.state = "halfOpen" /\ HalfOpen.left = Over
      /\ Closed.failures = 0 /\ Open.failures = 0 /\ HalfOpen.failures = 0
      /\ HalfOpen.requests = 0 /\ HalfOpen.successes = 0
  BY DEF Closed, Open, HalfOpen, Fresh
<1> QED
  BY <1>1, <1>2 DEF StateInv

(* What a call finds: the breaker as it is, or the state its timer leads   *)
(* to.                                                                     *)
LEMMA CurrentState ==
  ASSUME NEW b, StateInv(b), NEW c \in Current(b)
  PROVE  /\ StateInv(c)
         /\ \/ c = b
            \/ b.state = "closed" /\ c = Closed
            \/ b.state = "open" /\ c = HalfOpen
<1>1. c = b \/ c = Lapsed(b)
  BY DEF Current
<1>2. \/ b.state = "closed" /\ Lapsed(b) = Closed
      \/ b.state = "open" /\ Lapsed(b) = HalfOpen
      \/ b.state = "halfOpen" /\ Lapsed(b) = b
  BY DEF Lapsed, StateInv, Breaker
<1> QED
  BY <1>1, <1>2, FreshStates

(* A breaker that is not open, after a success: no failures, and the last  *)
(* probe closes it.                                                        *)
LEMMA SuccessState ==
  ASSUME NEW b, StateInv(b), b.state # "open"
  PROVE  /\ StateInv(OnSuccess(b)) /\ OnSuccess(b).failures = 0
         /\ OnSuccess(b).state # "open"
         /\ OnSuccess(b).state = "halfOpen" =>
              /\ b.state = "halfOpen" /\ OnSuccess(b).requests = b.requests
              /\ OnSuccess(b).successes = b.successes + 1
<1> DEFINE c == [b EXCEPT !.successes = Count(b.successes), !.failures = 0]
<1>1. /\ b \in Breaker /\ b.state \in {"closed", "halfOpen"}
      /\ b.successes \in Nat /\ b.requests \in Nat /\ b.left \in Int
  BY DEF StateInv, Breaker
<1>2. /\ c \in Breaker /\ c.state = b.state /\ c.failures = 0 /\ c.left = b.left
      /\ c.requests = b.requests /\ c.successes = Count(b.successes)
  <2>1. Count(b.successes) \in Nat
    BY <1>1 DEF Count
  <2> QED
    BY <1>1, <2>1 DEF Breaker
<1>3. OnSuccess(b) = IF b.state = "halfOpen" /\ c.successes >= MaxRequests THEN Closed ELSE c
  BY DEF OnSuccess, AllProbed
<1> HIDE DEF c
<1>4. b.state = "halfOpen" => c.successes = b.successes + 1
  BY <1>1, <1>2 DEF StateInv, Count
<1>5. CASE b.state = "halfOpen" /\ c.successes >= MaxRequests
  BY <1>3, <1>5, FreshStates
<1>6. CASE ~ (b.state = "halfOpen" /\ c.successes >= MaxRequests)
  <2>1. OnSuccess(b) = c
    BY <1>3, <1>6
  <2>2. StateInv(c)
    BY <1>1, <1>2, <1>4, <1>6 DEF StateInv
  <2> QED
    BY <1>1, <1>2, <1>4, <2>1, <2>2
<1> QED
  BY <1>5, <1>6

(* After a failure: one more failure, or open, which a closed breaker      *)
(* becomes at the threshold only.                                          *)
LEMMA FailureState ==
  ASSUME NEW b, StateInv(b), b.state # "open"
  PROVE  /\ StateInv(OnFailure(b))
         /\ OnFailure(b).failures <= b.failures + 1
         /\ OnFailure(b).state # "halfOpen"
         /\ b.state = "closed" /\ OnFailure(b).state = "open" =>
              b.failures + 1 >= Threshold
<1> DEFINE c == [b EXCEPT !.failures = b.failures + 1, !.successes = 0]
<1>1. b \in Breaker /\ b.state \in {"closed", "halfOpen"} /\ b.failures \in Nat
  BY DEF StateInv, Breaker
<1>2. /\ c \in Breaker /\ c.state = b.state /\ c.failures = b.failures + 1
      /\ c.left = b.left
  <2>1. b.failures + 1 \in Nat
    BY <1>1
  <2> QED
    BY <1>1, <2>1 DEF Breaker
<1>3. OnFailure(b) = IF b.state = "halfOpen" \/ c.failures >= Threshold THEN Open ELSE c
  BY DEF OnFailure, ReadyToTrip
<1> HIDE DEF c
<1>4. CASE b.state = "halfOpen" \/ c.failures >= Threshold
  <2>1. OnFailure(b) = Open
    BY <1>3, <1>4
  <2> QED
    BY <1>1, <1>2, <1>4, <2>1, FreshStates
<1>5. CASE ~ (b.state = "halfOpen" \/ c.failures >= Threshold)
  <2>1. OnFailure(b) = c
    BY <1>3, <1>5
  <2>2. StateInv(c)
    BY <1>1, <1>2, <1>5 DEF StateInv
  <2> QED
    BY <1>1, <1>2, <1>5, <2>1, <2>2
<1> QED
  BY <1>4, <1>5

-----------------------------------------------------------------------------
(* One lemma per action.                                                   *)
(* Begin: an attempt, and the breaker is left alone.                       *)
LEMMA BeginInv ==
  ASSUME BreakerInv, Begin
  PROVE  BreakerInv'
  BY DEF BreakerInv, Begin, Calling

(* An attempt that failed leaves the loop or backs off.                    *)
LEMMA AttemptInv ==
  ASSUME BreakerInv, AttemptFails
  PROVE  /\ phase' \in {"idle", "backoff"} /\ attempt' = attempt
         /\ phase' = "backoff" => attempt < MaxRetries
  BY DEF AttemptFails

(* Outside a call every probe of a half-open breaker is answered.          *)
LEMMA Answered ==
  ASSUME BreakerInv, phase # "calling"
  PROVE  breaker.state = "halfOpen" => breaker.requests = breaker.successes
<1>1. Calling = 0
  BY DEF Calling
<1>2. breaker.successes \in Nat
  BY DEF BreakerInv, StateInv, Breaker
<1> QED
  BY <1>1, <1>2 DEF BreakerInv

(* An open breaker refuses, before its timeout is over; a half-open one    *)
(* has a probe left.                                                       *)
LEMMA Refused ==
  ASSUME BreakerInv, Refuse
  PROVE  breaker' = breaker /\ breaker.state = "open" /\ breaker.left \in 0..Timeout
<1>1. PICK b \in Current(breaker) : Refuses(b) /\ breaker' = b
  BY DEF Refuse
<1>2. /\ StateInv(b)
      /\ \/ b = breaker
         \/ breaker.state = "closed" /\ b = Closed
         \/ breaker.state = "open" /\ b = HalfOpen
  BY CurrentState DEF BreakerInv
<1>3. ~ TooMany(b)
  <2>1. b.state = "halfOpen" => b.requests = b.successes
    BY <1>2, FreshStates, Answered DEF Refuse
  <2> QED
    BY <1>2, <2>1 DEF TooMany, StateInv, Breaker
<1>4. b = breaker /\ b.state = "open"
  BY <1>1, <1>2, <1>3, FreshStates DEF Refuses
<1>5. breaker.left # Over
  BY <1>1, <1>4, FreshStates DEF Current, Lapsed
<1> QED
  BY <1>1, <1>2, <1>4, <1>5 DEF StateInv

(* Refuse: the breaker is left as it was.                                  *)
LEMMA RefuseInv ==
  ASSUME BreakerInv, Refuse
  PROVE  BreakerInv' /\ (breaker.state = "closed" => breaker'.state = "closed")
  BY Refused, AttemptInv DEF BreakerInv, Calling, Refuse

(* Call: one more probe is out, or one more request of a closed breaker.   *)
LEMMA CallInv ==
  ASSUME BreakerInv, Call
  PROVE  BreakerInv' /\ breaker'.state # "open"
<1>1. PICK b \in Current(breaker) : ~ Refuses(b) /\ breaker' = [b EXCEPT !.requests = Count(@)]
  BY DEF Call
<1>2. /\ StateInv(b)
      /\ \/ b = breaker
         \/ breaker.state = "closed" /\ b = Closed
         \/ breaker.state = "open" /\ b = HalfOpen
  BY CurrentState DEF BreakerInv
<1>3. /\ b \in Breaker /\ b.state \in {"closed", "halfOpen"} /\ b.requests \in Nat
      /\ b.successes \in Nat
  BY <1>1, <1>2 DEF StateInv, Breaker, Refuses
<1>4. /\ breaker' \in Breaker /\ breaker'.state = b.state /\ breaker'.left = b.left
      /\ breaker'.successes = b.successes /\ breaker'.failures = b.failures
      /\ breaker'.requests = Count(b.requests)
  BY <1>1, <1>3 DEF Breaker, Count
<1>5. b.state = "halfOpen" => b.requests = b.successes
  BY <1>2, FreshStates, Answered DEF Call
<1>6. breaker'.state = "halfOpen" => breaker'.requests = breaker'.successes + 1
  BY <1>1, <1>3, <1>4, <1>5 DEF Refuses, TooMany, Count
<1>7. b.failures <= errors
  BY <1>2, FreshStates DEF BreakerInv
<1>8. StateInv(breaker)'
  BY <1>2, <1>3, <1>4 DEF StateInv
<1> QED
  BY <1>3, <1>4, <1>6, <1>7, <1>8 DEF BreakerInv, Calling, Call

(* GatewayAnswers: the errors in a row end, and so do the probes.          *)
LEMMA AnswersInv ==
  ASSUME BreakerInv, GatewayAnswers
  PROVE  BreakerInv' /\ breaker'.state # "open"
<1>1. phase = "calling" /\ StateInv(breaker) /\ breaker.state # "open"
  BY DEF GatewayAnswers, BreakerInv
<1>2. breaker' \in {OnSuccess(breaker), Closed} \/ breaker' = OnSuccess(breaker)
  <2>1. PICK c \in Current(breaker) :
          breaker' = IF c = breaker THEN OnSuccess(breaker) ELSE c
    BY DEF GatewayAnswers, After
  <2> QED
    BY <1>1, <2>1, CurrentState
<1>3. /\ StateInv(breaker)' /\ breaker'.failures = 0 /\ breaker'.state # "open"
      /\ breaker'.state = "halfOpen" => breaker'.requests = breaker'.successes
  BY <1>1, <1>2, SuccessState, FreshStates DEF BreakerInv, Calling
<1>4. errors' = 0 /\ phase' = "idle" /\ attempt' = attempt
  BY DEF GatewayAnswers
<1>5. Calling' = 0
  BY <1>4 DEF Calling
<1>6. breaker'.state = "halfOpen" => breaker'.requests = breaker'.successes + Calling'
  BY <1>3, <1>5 DEF StateInv, Breaker
<1> QED
  BY <1>3, <1>4, <1>6 DEF BreakerInv

(* GatewayErrs: one more error in a row; a closed breaker opens at the     *)
(* threshold.                                                              *)
LEMMA ErrsInv ==
  ASSUME BreakerInv, GatewayErrs
  PROVE  /\ BreakerInv'
         /\ breaker.state = "closed" /\ breaker'.state = "open" => errors' >= Threshold
<1>1. phase = "calling" /\ StateInv(breaker) /\ breaker.state # "open"
  BY DEF GatewayErrs, BreakerInv
<1>2. breaker' \in {OnFailure(breaker), Closed}
  <2>1. PICK c \in Current(breaker) :
          breaker' = IF c = breaker THEN OnFailure(breaker) ELSE c
    BY DEF GatewayErrs, After
  <2> QED
    BY <1>1, <2>1, CurrentState
<1>3. /\ StateInv(breaker)' /\ breaker'.failures <= breaker.failures + 1
      /\ breaker'.state # "halfOpen"
      /\ breaker.state = "closed" /\ breaker'.state = "open" =>
           breaker.failures + 1 >= Threshold
  BY <1>1, <1>2, FailureState, FreshStates DEF StateInv, Breaker
<1>4. breaker'.failures < Threshold /\ breaker'.failures \in Nat /\ breaker.failures \in Nat
  BY <1>1, <1>3 DEF StateInv, Breaker
<1>5. errors' \in 0..Threshold /\ (errors' = errors + 1 \/ errors' = Threshold)
  BY DEF GatewayErrs, BreakerInv
<1>6. breaker'.failures <= errors'
  BY <1>3, <1>4, <1>5 DEF BreakerInv
<1>7. breaker.state = "closed" /\ breaker'.state = "open" => errors' >= Threshold
  BY <1>3, <1>4, <1>5 DEF BreakerInv
<1> QED
  BY <1>3, <1>5, <1>6, <1>7, AttemptInv DEF BreakerInv, Calling, GatewayErrs

(* BackoffElapses: there is an attempt left.                               *)
LEMMA BackoffInv ==
  ASSUME BreakerInv, BackoffElapses
  PROVE  BreakerInv'
  BY DEF BreakerInv, BackoffElapses, Calling, history

(* Tick: only the timer moves.                                             *)
LEMMA TickInv ==
  ASSUME BreakerInv, Tick
  PROVE  BreakerInv' /\ breaker'.state = breaker.state
<1>1. StateInv(breaker) /\ breaker \in Breaker
  BY DEF BreakerInv, StateInv
<1>2. CASE breaker' = breaker
  BY <1>2 DEF BreakerInv, Tick, Calling, history
<1>3. CASE breaker.left # Over /\ breaker' = [breaker EXCEPT !.left = @ - 1]
  <2>1. /\ breaker' \in Breaker /\ breaker'.left = breaker.left - 1
        /\ breaker'.state = breaker.state /\ breaker'.failures = breaker.failures
        /\ breaker'.requests = breaker.requests /\ breaker'.successes = breaker.successes
    BY <1>1, <1>3 DEF Breaker
  <2>2. breaker.state = "open" => breaker' = [Open EXCEPT !.left = breaker'.left]
    BY <1>1, <1>3 DEF StateInv, Open, Fresh
  <2>3. StateInv(breaker)'
    BY <1>1, <1>3, <2>1, <2>2 DEF StateInv
  <2> QED
    BY <2>1, <2>3 DEF BreakerInv, Tick, Calling, history
<1> QED
  BY <1>2, <1>3 DEF Tick

-----------------------------------------------------------------------------
(* The invariant is inductive, and a closed breaker opens for cause.       *)
LEMMA BreakerStep ==
  ASSUME BreakerInv, [Next]_vars
  PROVE  /\ BreakerInv'
         /\ breaker.state = "closed" /\ breaker'.state = "open" => errors' >= Threshold
<1>1. CASE Begin
  BY <1>1, BeginInv DEF Begin
<1>2. CASE Refuse
  BY <1>2, RefuseInv
<1>3. CASE Call
  BY <1>3, CallInv
<1>4. CASE GatewayAnswers
  BY <1>4, AnswersInv
<1>5. CASE GatewayErrs
  BY <1>5, ErrsInv
<1>6. CASE BackoffElapses
  BY <1>6, BackoffInv DEF BackoffElapses
<1>7. CASE Tick
  BY <1>7, TickInv
<1>8. CASE Degrade \/ Recover
  BY <1>8 DEF BreakerInv, Degrade, Recover, Calling, worker, history
<1>9. CASE UNCHANGED vars
  BY <1>9 DEF BreakerInv, vars, Calling, worker, history
<1> QED
  BY <1>1, <1>2, <1>3, <1>4, <1>5, <1>6, <1>7, <1>8, <1>9 DEF Next, Work

(* The breaker's counts agree with what the gateway answered.              *)
THEOREM BreakerInvariance == Spec => []BreakerInv
<1>1. Init => BreakerInv
  BY FreshStates DEF Init, BreakerInv, Calling
<1>2. BreakerInv /\ [Next]_vars => BreakerInv'
  BY BreakerStep
<1> QED
  BY <1>1, <1>2, PTL DEF Spec

(* One goroutine never meets ErrTooManyRequests (circuit_breaker.go 53-58), *)
(* whatever the number of probes.                                          *)
THEOREM ProbesSuffice == Spec => []NeverTooMany
<1>1. BreakerInv => NeverTooMany
  BY DEF BreakerInv, StateInv, Breaker, NeverTooMany, TooMany, Calling
<1> QED
  BY <1>1, BreakerInvariance, PTL

(* A closed breaker opens on Threshold errors in a row and no fewer        *)
(* (circuit_breaker.go 27).                                                *)
THEOREM TripsForCause == Spec => OpensForCause
<1>1. BreakerInv /\ [Next]_vars =>
        [breaker.state = "closed" /\ breaker'.state = "open" => errors' >= Threshold]_vars
  BY BreakerStep
<1> QED
  BY <1>1, BreakerInvariance, PTL DEF Spec, OpensForCause

-----------------------------------------------------------------------------
(* With the three attempts of the code, whose backoffs are 1 and 2 ticks.  *)
LEMMA Backoffs ==
  ASSUME MaxRetries = 3
  PROVE  \A n \in 1..MaxRetries : n < MaxRetries => 2^(n - 1) \in 0..2^(MaxRetries - 1)
<1>1. 2^(1 - 1) = 1 /\ 2^(2 - 1) = 2 /\ 2^(3 - 1) = 4
  BY SMT
<1>2. 2^(MaxRetries - 1) = 4
  BY <1>1
<1> SUFFICES ASSUME NEW n \in 1..MaxRetries, n < MaxRetries
             PROVE  2^(n - 1) \in 0..2^(MaxRetries - 1)
  BY <1>2
<1>3. CASE n = 1
  BY <1>1, <1>2, <1>3
<1>4. CASE n = 2
  BY <1>1, <1>2, <1>4
<1> QED
  BY <1>3, <1>4

(* The types that the invariant does not give.                             *)
OtherTypes ==
  /\ wait \in 0..2^(MaxRetries - 1)
  /\ untried \in 0..MaxUntried
  /\ healthy \in BOOLEAN
  /\ tried \in BOOLEAN

(* A backoff lasts no longer than the last one.                            *)
LEMMA WaitStep ==
  ASSUME MaxRetries = 3, BreakerInv, OtherTypes, [Next]_vars
  PROVE  OtherTypes'
<1>1. wait \in 0..2^(MaxRetries - 1) /\ attempt \in 1..MaxRetries
  BY DEF BreakerInv, OtherTypes
<1>2. \/ UNCHANGED wait
      \/ attempt < MaxRetries /\ wait' = 2^(attempt - 1)
      \/ wait # 0 /\ wait' = wait - 1
  BY DEF Next, Work, Begin, Refuse, Call, GatewayAnswers, GatewayErrs, AttemptFails,
         BackoffElapses, Tick, Degrade, Recover, worker, vars
<1>3. wait' \in 0..2^(MaxRetries - 1)
  <2>1. CASE attempt < MaxRetries /\ wait' = 2^(attempt - 1)
    BY <1>1, <2>1, Backoffs
  <2>2. CASE wait # 0 /\ wait' = wait - 1
    BY <1>1, <2>2
  <2> QED
    BY <1>1, <1>2, <2>1, <2>2
<1>4. untried' \in 0..MaxUntried
  BY DEF OtherTypes, Next, Work, Begin, Refuse, Call, GatewayAnswers, GatewayErrs,
         AttemptFails, BackoffElapses, Tick, Degrade, Recover, history, vars
<1>5. healthy' \in BOOLEAN /\ tried' \in BOOLEAN
  BY DEF OtherTypes, Next, Work, Begin, Refuse, Call, GatewayAnswers, GatewayErrs,
         BackoffElapses, Tick, Degrade, Recover, history, vars
<1> QED
  BY <1>3, <1>4, <1>5 DEF OtherTypes

(* Every variable keeps its type, with the three attempts of the code      *)
(* (payment_worker.go 110).                                                *)
THEOREM BreakerTypes == MaxRetries = 3 => (Spec => []TypeOK)
<1> SUFFICES ASSUME MaxRetries = 3 PROVE Spec => []TypeOK
  OBVIOUS
<1>1. Init => OtherTypes
  <2>1. 0 \in 0..2^(MaxRetries - 1)
    BY Backoffs
  <2>2. 0 \in 0..MaxUntried
    OBVIOUS
  <2> QED
    BY <2>1, <2>2, Zenon DEF Init, OtherTypes
<1>2. BreakerInv /\ OtherTypes /\ [Next]_vars => OtherTypes'
  BY WaitStep
<1>3. BreakerInv /\ OtherTypes => TypeOK
  BY DEF BreakerInv, StateInv, Breaker, OtherTypes, TypeOK
<1> QED
  BY <1>1, <1>2, <1>3, BreakerInvariance, PTL DEF Spec

-----------------------------------------------------------------------------
(* How many payments an open breaker fails.                                *)
(* The ticks that the backoffs of the payment in hand have taken.          *)
Spent ==
  IF phase = "backoff" THEN (IF attempt = 1 THEN 1 ELSE 3) - wait
  ELSE IF phase = "ready" /\ attempt > 1 THEN (IF attempt = 2 THEN 1 ELSE 3)
  ELSE 0

(* Payments fail, or the one in hand has failed attempts, without a call.  *)
Underway ==
  ~ tried /\ (untried > 0 \/ phase = "backoff" \/ (phase = "ready" /\ attempt > 1))

(* All this time the breaker has been open, and every payment has taken    *)
(* three ticks of it.                                                      *)
UntriedInv ==
  /\ OtherTypes
  /\ tried => untried = 0
  /\ phase = "calling" => tried
  /\ 3 * untried <= Timeout
  /\ Underway => /\ breaker.state = "open"
                 /\ breaker.left # Over => 3 * untried + Spent <= Timeout - breaker.left

(* A refused attempt is followed by its backoff, or fails the payment.     *)
LEMMA RefusedUntried ==
  ASSUME MaxRetries = 3, BreakerInv, UntriedInv, OtherTypes', Refuse
  PROVE  UntriedInv'
<1>1. /\ breaker' = breaker /\ breaker.state = "open" /\ breaker.left \in 0..Timeout
      /\ phase = "ready" /\ tried' = tried
  BY Refused DEF Refuse
<1>2. /\ attempt \in 1..3 /\ untried \in Nat /\ tried \in BOOLEAN
      /\ tried => untried = 0
      /\ 3 * untried <= Timeout
  BY DEF BreakerInv, UntriedInv, OtherTypes
<1>3. ~ tried => 3 * untried + Spent <= Timeout - breaker.left
  <2>1. CASE untried > 0 \/ attempt > 1
    BY <1>1, <2>1 DEF UntriedInv, Underway
  <2>2. CASE untried = 0 /\ attempt = 1
    BY <1>1, <2>2 DEF Spent
  <2> QED
    BY <1>2, <2>1, <2>2
<1>4. CASE attempt < 3
  <2>1. /\ phase' = "backoff" /\ attempt' = attempt /\ untried' = untried
        /\ wait' = 2^(attempt - 1)
    BY <1>4 DEF Refuse, AttemptFails
  <2>2. wait' = attempt
    <3>1. 2^(1 - 1) = 1 /\ 2^(2 - 1) = 2
      BY SMT
    <3>2. attempt = 1 \/ attempt = 2
      BY <1>2, <1>4
    <3> QED
      BY <2>1, <3>1, <3>2
  <2>3. Spent' = Spent
    BY <1>1, <1>2, <1>4, <2>1, <2>2 DEF Spent
  <2> QED
    BY <1>1, <1>2, <1>3, <2>1, <2>3 DEF UntriedInv, Underway
<1>5. CASE attempt = 3
  <2>1. /\ phase' = "idle"
        /\ untried' = IF tried \/ untried = MaxUntried THEN untried ELSE untried + 1
    BY <1>5 DEF Refuse, AttemptFails
  <2>2. Spent = 3 /\ Spent' = 0
    BY <1>1, <1>5, <2>1 DEF Spent
  <2>3. /\ tried => untried' = 0
        /\ ~ tried => untried' <= untried + 1
        /\ untried' \in Nat
    BY <1>2, <2>1
  <2>4. ~ tried => 3 * untried' + Spent' <= Timeout - breaker.left
    BY <1>1, <1>2, <1>3, <2>2, <2>3
  <2>5. 3 * untried' <= Timeout
    BY <1>1, <2>2, <2>3, <2>4
  <2> QED
    BY <1>1, <2>1, <2>3, <2>4, <2>5 DEF UntriedInv, Underway
<1> QED
  BY <1>2, <1>4, <1>5

(* Time passes for the breaker and for the backoff.                        *)
LEMMA TickUntried ==
  ASSUME BreakerInv, UntriedInv, OtherTypes', Tick
  PROVE  UntriedInv'
<1>1. /\ breaker \in Breaker /\ breaker.left \in Int
      /\ wait' = IF wait = 0 THEN 0 ELSE wait - 1
      /\ UNCHANGED <<phase, attempt, tried, untried>>
  BY DEF BreakerInv, StateInv, Breaker, Tick, history
<1>2. /\ breaker'.state = breaker.state
      /\ breaker'.left # Over => breaker'.left = breaker.left - 1 /\ breaker.left # Over
  BY <1>1 DEF Tick, Breaker
<1>3. wait' \in Int /\ wait \in Int /\ wait - 1 <= wait'
  BY <1>1 DEF UntriedInv, OtherTypes
<1>4. attempt \in Int /\ untried \in Nat
  BY DEF BreakerInv, UntriedInv, OtherTypes
<1>5. Spent' <= Spent + 1 /\ Spent \in Int /\ Spent' \in Int
  BY <1>1, <1>3, <1>4 DEF Spent
<1>6. breaker.left # Over /\ Underway => 3 * untried + Spent <= Timeout - breaker.left
  BY DEF UntriedInv
<1>7. breaker'.left # Over /\ Underway => 3 * untried' + Spent' <= Timeout - breaker'.left
  BY <1>1, <1>2, <1>4, <1>5, <1>6
<1>8. Underway' <=> Underway
  BY <1>1 DEF Underway
<1> QED
  BY <1>1, <1>2, <1>7, <1>8 DEF UntriedInv

(* No other step lengthens the row of untried payments.                    *)
LEMMA UntriedStep ==
  ASSUME MaxRetries = 3, BreakerInv, UntriedInv, [Next]_vars
  PROVE  UntriedInv'
<1>0. OtherTypes'
  BY WaitStep DEF UntriedInv
<1>1. CASE Begin
  <2>1. /\ breaker' = breaker /\ phase' = "ready" /\ attempt' = 1
        /\ tried' = FALSE /\ untried' = untried /\ phase = "idle"
    BY <1>1 DEF Begin
  <2>2. untried \in Nat /\ (untried > 0 => ~ tried)
    BY DEF UntriedInv, OtherTypes
  <2>3. Spent' = 0 /\ Spent = 0
    BY <2>1 DEF Spent
  <2>4. Underway' => Underway
    BY <2>1, <2>2 DEF Underway
  <2> QED
    BY <1>0, <2>1, <2>2, <2>3, <2>4 DEF UntriedInv
<1>2. CASE Refuse
  BY <1>0, <1>2, RefusedUntried
<1>3. CASE Call
  BY <1>0, <1>3 DEF Call, UntriedInv, Underway
<1>4. CASE GatewayAnswers \/ GatewayErrs
  <2>1. phase = "calling" /\ tried' = tried
    BY <1>4 DEF GatewayAnswers, GatewayErrs
  <2>2. tried /\ untried = 0 /\ 3 * untried <= Timeout
    BY <2>1 DEF UntriedInv
  <2>3. untried' = untried
    BY <1>4, <2>2 DEF GatewayAnswers, GatewayErrs, AttemptFails
  <2> QED
    BY <1>0, <2>1, <2>2, <2>3 DEF UntriedInv, Underway
<1>5. CASE BackoffElapses
  <2>1. /\ phase = "backoff" /\ wait = 0 /\ phase' = "ready" /\ attempt' = attempt + 1
        /\ UNCHANGED <<breaker, tried, untried>>
    BY <1>5 DEF BackoffElapses, history
  <2>2. attempt \in 1..2
    BY <2>1 DEF BreakerInv
  <2>3. Spent' = Spent
    BY <2>1, <2>2 DEF Spent
  <2>4. Underway' => Underway
    BY <2>1 DEF Underway
  <2> QED
    BY <1>0, <2>1, <2>3, <2>4 DEF UntriedInv
<1>6. CASE Tick
  BY <1>0, <1>6, TickUntried
<1>7. CASE Degrade \/ Recover \/ UNCHANGED vars
  <2>1. UNCHANGED <<breaker, phase, attempt, wait, tried, untried>>
    BY <1>7 DEF Degrade, Recover, worker, history, vars
  <2> QED
    BY <1>0, <2>1 DEF UntriedInv, Underway, Spent
<1> QED
  BY <1>1, <1>2, <1>3, <1>4, <1>5, <1>6, <1>7 DEF Next, Work

(* No payment has failed yet.                                              *)
LEMMA UntriedStart == MaxRetries = 3 /\ Init => UntriedInv
<1> SUFFICES ASSUME MaxRetries = 3, Init PROVE UntriedInv
  OBVIOUS
<1>1. OtherTypes
  <2>1. 0 \in 0..2^(MaxRetries - 1)
    BY Backoffs
  <2>2. 0 \in 0..MaxUntried
    OBVIOUS
  <2> QED
    BY <2>1, <2>2, Zenon DEF Init, OtherTypes
<1> QED
  BY <1>1 DEF Init, UntriedInv, Underway

(* An open breaker fails, untried, no more payments than fit into its      *)
(* timeout with their backoffs of 1 and 2 ticks.                           *)
UntriedFit == 3 * untried <= Timeout

THEOREM UntriedFitsTimeout == MaxRetries = 3 => (Spec => []UntriedFit)
<1> SUFFICES ASSUME MaxRetries = 3 PROVE Spec => []UntriedFit
  OBVIOUS
<1>1. BreakerInv /\ UntriedInv /\ [Next]_vars => UntriedInv'
  BY UntriedStep
<1>2. UntriedInv => UntriedFit
  BY DEF UntriedInv, UntriedFit
<1> QED
  BY <1>1, <1>2, UntriedStart, BreakerInvariance, PTL DEF Spec

(* That is six in a row with the ten seconds of the code                   *)
(* (circuit_breaker.go 24), in ticks of 500 ms.                            *)
THEOREM SixUntried == MaxRetries = 3 /\ Timeout = 20 => (Spec => []AtMostSixUntried)
<1> SUFFICES ASSUME MaxRetries = 3, Timeout = 20 PROVE Spec => []AtMostSixUntried
  OBVIOUS
<1>1. UntriedInv => AtMostSixUntried
  BY DEF UntriedInv, OtherTypes, AtMostSixUntried
<1>2. BreakerInv /\ UntriedInv /\ [Next]_vars => UntriedInv'
  BY UntriedStep
<1> QED
  BY <1>1, <1>2, UntriedStart, BreakerInvariance, PTL DEF Spec
=============================================================================
