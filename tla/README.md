# GoPay Processing Engine: TLA+ models and proofs

A verification project for the payment pipeline of this repository: TLA+ modules
translated from the Go source, TLC configurations that check them on small
instances, and proofs that TLAPS checks for every value of the constants.

## 1. The system

A client posts a payment to the API. The API sets an idempotency key in Redis,
stores the payment and an outbox event in one Postgres transaction, and answers.
A relay in the API process polls the outbox and publishes each event to the Kafka
topic `payments.created`. A worker process consumes the topic, claims the payment,
asks the gateway, and writes and announces the result. The payment routes ask for a
token, which a registered user gets by logging in.

| Component | State it keeps | Operations | Talks to |
|---|---|---|---|
| payment entity (`internal/domain/payment.go`) | status | `Validate`, `CanTransitionTo`, `TransitionTo` | used by service and worker |
| payment service and handlers (`payment_service.go`, `payment_handler.go`) | none of its own; one goroutine per request | create, get, list | Redis (keys, cache), Postgres (one transaction) |
| idempotency keys, payment cache (`infrastructure/redis`) | `idempotency:<key>`, `payment:<id>`, both with a TTL | SETNX, GET, SET | shared by every API process and worker |
| outbox processor and repository (`outbox_processor.go`, `outbox_repository.go`) | `outbox_events` rows: status, attempts | poll, publish, mark processed, mark failed | Postgres, Kafka |
| payment worker (`payment_worker.go`) | the message in hand, the retry count | `ProcessEvent` | Postgres, Redis, gateway, Kafka |
| Kafka consumer, producer (`infrastructure/kafka`) | position, committed offset | fetch, commit, publish | broker |
| circuit breaker, gateway (`infrastructure/gateway`) | breaker state, counts, two timers | `Process` | called by the worker |
| processes (`cmd/api`, `cmd/worker`) | contexts | start, signal, exit | own the goroutines above |
| authentication (`auth_service.go`, `user_repository.go`, `middleware/auth.go`, `pkg/security`) | `users` rows; tokens are kept by the clients | register, login, check a token | Postgres; in front of the payment routes |

What is hard in it: every call to Postgres, Redis, Kafka or the gateway may fail,
or fail after it took effect; two API processes or two workers may run at once with
no lock between them; Kafka redelivers, and so does the relay; row and cache are
two writes; a signal cancels the context in the middle of a handler; a client
repeats a request while the first is still running; two processes read two clocks.
What makes each component
correct is listed with its properties below. `PROJECT.json` lists every hazard at
its line, with the properties that watch it.

## 2. Modules

| Module | Models | Used by |
|---|---|---|
| `Payment` | statuses and transitions of `payment.go` | all of them |
| `PaymentLifecycle` | abstract: what processing promises for a payment | implemented by `PaymentWorker` and by `Pipeline` |
| `PaymentWorker` | `cmd/worker`, `consumer.go`, `payment_worker.go` | `Pipeline`, `MCPaymentWorker`, `PaymentWorkerProofs` |
| `PaymentWorkerProofs` | theorems about any group of workers | `SingleWorkerProofs` |
| `SingleWorkerProofs` | theorems about a group of one, and the refinement of `PaymentLifecycle` | `PipelineProofs` |
| `OutboxProcessor` | `outbox_processor.go`, `outbox_repository.go`, the relay in `cmd/api` | `Pipeline`, `OutboxAttempts`, `OutboxProcessorProofs` |
| `OutboxAttempts` | `OutboxProcessor` with a history: how often the publish of one event failed | `MCOutboxProcessor`, `OutboxAttemptsProofs` |
| `OutboxProcessorProofs` | theorems about `OutboxProcessor` | `OutboxAttemptsProofs`, `PipelineProofs` |
| `OutboxAttemptsProofs` | theorems about what the attempts in a row mean | |
| `CircuitBreaker` | `circuit_breaker.go`, `fake_gateway.go`, the retry loop of `payment_worker.go` | `MCCircuitBreaker`, `CircuitBreakerProofs` |
| `CircuitBreakerProofs` | theorems about `CircuitBreaker` | |
| `PaymentService` | `payment_handler.go`, `payment_service.go`, `infrastructure/redis` | `Pipeline`, `MCPaymentService`, `PaymentServiceProofs` |
| `PaymentServiceProofs` | theorems about `PaymentService` | `PipelineProofs` |
| `Pipeline` | service, relay and worker composed, `cmd/api`, `cmd/worker` | `MCPipeline`, `PipelineProofs` |
| `PipelineProofs` | theorems about the whole, from those about its parts | |
| `AuthService` | `auth_handler.go`, `auth_service.go`, `user_repository.go`, `token.go`, the middleware | `MCAuthService`, `AuthServiceProofs` |
| `AuthServiceProofs` | theorems about `AuthService` | |

In every module a call that leaves the process is one step, and what the code does
between two calls belongs to the step before. `Faults` is the set of the kinds of
failure let loose in an instance. A call that fails may have taken effect:
`RowMayHaveChanged`, `PublishFails`, the second disjunct of `TxFails`.

**PaymentWorker.** `pc` holds where a worker is between two calls: `fetch`, `load`
(GetByID), `claim` and `claimed` (row, then cache, to PROCESSING), `gateway`,
`backoff`, `settle` and `settled` (row, then cache, to the final status),
`publish`, `dlq`, `commit`. `job` is the message with the locals of `ProcessEvent`.
`owner` and `position` are the broker's assignment and the reader's place in each
partition; `committed` is the group's offset. A handler error leads back to `fetch`
with the position already moved, as in `Consumer.Start`. A cancelled context makes
every later call fail; `Exit` may come at once, because `main` does not wait. A
rebalance may take a partition from a worker that is in the middle of a message:
the code passes no context that would stop it, and its commit is still sent.
`charges` is history: the approvals each worker got.

**OutboxProcessor.** A relay's `batch` is what it polled, with the attempts it read
then; `MarkFailed` writes that number plus one, as the code does. Events are
numbered in the order of `created_at` and may become visible in another order, since
the time is taken before the commit. `Limit` is how many events each relay polls at a
time. `Holders` are the relays that still have an
event in hand: with two relays one of them may write a row that the other settled
(`MarkFailed` is an unconditional UPDATE), so what is true of a settled event is that
nobody new takes it up, and that its row is left alone once its last holder is done.

**OutboxAttempts.** The attempts in a row are what the last `MarkFailed` wrote, not the
failures there were: a failure whose mark was lost is missing, and with two relays a
mark with attempts read before the other's lowers them. `failures` counts, up to three,
the failed publishes of one event, `Watched`, whichever relay tried; the actions are
those of `OutboxProcessor`.

**PaymentService.** Each request has its `pc`, its open transaction `tx`, and its
answer. The worker is the environment: it moves a row whose event is in the outbox,
and copies the row to the cache. `earlier` is history: the requests that had been
answered when one arrived, which is how a repeat by a client that knows its answer
is told from a concurrent one.

**CircuitBreaker.** The breaker's record (state, counts, time left) and the worker's
retry loop, in ticks of 500 ms with the code's settings: 3 failures, 5 s interval,
10 s timeout, 3 probes. `sony/gobreaker` is external: its rules (a timer looked at
only when a call starts or ends, a result dropped when the interval ended meanwhile)
are modelled from the settings the code gives it. Backoffs last at least 1 and 2
ticks, everything may take longer, and a timer due in the current tick may be seen
as over or not. `untried` counts the payments in a row that failed without a call.

**PaymentLifecycle.** `Create`, `Accept`, `Authorize`, `Settle`. `PaymentWorker`
with one worker implements it, with `status <- db` and `authorized <-` the charged
payments (`LifecycleSpec`, in the runs `worker` and `pipeline`).

**Pipeline.** Instances of `PaymentService`, `OutboxProcessor` and `PaymentWorker` over
the same `rows`, `cache` and `log`; a request, its payment and its event have one
number. Each module's environment becomes another's step: `events` (what the service
has committed) are the rows of the outbox, and the commit is `O!Save` and `S!Serve` in
one step; `published` is what the topic holds, and a publish is `O!Publish` and
`W!Deliver` in one step; the environment actions `WorkerMoves`, `WorkerCaches` and the
free `Deliver` are gone. `ApiProcess` is `cmd/api/main.go`: a signal cancels the relay and
the server takes no new request, but goes on serving those it has (`srv.Shutdown`) until the
process ends, when what is still open is abandoned. `at` is the process a request
goes to, `stops` counts the exits of any process.

`S!Spec` as a property of the composition (`ServiceSpec`) is a refinement: it says that
relay and worker together do to the service's rows and cache only what the service
module lets its environment do, so that what the run `service` shows holds here too.

**AuthService.** Requests in several API processes, each with a clock that is up to
`MaxSkew` off, in whole seconds as the claims are. `ArriveRegister` is binding and
bcrypt (72 bytes at most), `Insert` the INSERT with its UNIQUE email, `Lookup` the
SELECT and the comparison, in which bcrypt reads the first 72 bytes only. `GenerateToken`
reads the clock for the expiry first and for not-before last (`token.go` 29-31), so it is
two steps, `ReadExpiry` and `Sign`, between which a second may pass. `began` is history:
when a login found its account. `ValidateToken` is the library's rule:
expired at `exp` and after, invalid before `nbf`, no leeway. Requests to the payment
routes are `ArriveWithToken`, with any token issued so far or none that parses.

## 3. Runs

| Run | Instance | Shows |
|---|---|---|
| `worker` | 1 worker, 1 payment and corrupt messages, 1 partition, 3 messages, every fault, fair | `OutcomesMatchGateway`, `CacheNeverAhead`, `TypeOK`; the worker implements `PaymentLifecycle`; `SettlesOrIsStranded` |
| `worker_group` | 2 workers, 1 payment, 1 partition, 2 messages, database failures and shutdowns | `WorkerInv` (the inductive invariant of the proofs), `ChargedOncePerWorker`, `CommittedIsHandled`, `ApprovedIsCharged` |
| `worker_overlap` | 2 workers, 2 partitions, no failure | *violation*: `ChargedOnce` |
| `worker_skips` | 1 worker, 2 payments, database failures | *violation*: `NothingSkipped` |
| `worker_rejected` | 1 worker, 1 payment, no failure | *violation*: `RejectedIsDeadLettered` |
| `outbox` | 2 relays, one polling 1 event at a time and the other 2, 2 events, every fault, fair | `ProcessedWasPublished`, `GivenUpForCause`, `SettledIsFinal`, `SettlesForGood`, `TypeOK` |
| `outbox_gives_up` | 1 relay, 1 event, broker failures | *violation*: `NeverLost` |
| `breaker` | the code's settings, a gateway that degrades and recovers, fair | `NeverTooMany`, `OpensForCause`, `AtMostSixUntried`, `ClosesAgain`, `TypeOK` |
| `service` | 3 requests, 1 key, every fault | `StoredWithEvent`, `OncePerKey`, `AnswersAreStored`, `RepeatsGetThePayment`, `CreatedIsFound`, `CacheNeverAhead`, `TypeOK` |
| `service_burnt_key` | 3 requests, 1 key, no failure | *violation*: `RepeatsGetTheAnswer` |
| `pipeline` | 1 API, 1 worker, 2 requests under 1 key, 1 event per poll, 2 messages, 1 process end, database failures and crashes | `OneChargePerKey`, `PublishedIsStored`, `OnItsWay`; the service's environment assumption (`ServiceSpec`); the composition implements `PaymentLifecycle` |
| `auth` | 3 requests, 1 email, 5 passwords, 2 APIs, database failures | `OneOwner`, `RegisteredCanLogIn`, `RepeatRegisters`, `TokenWindow`, `TypeOK` |

**Bounds.** `MaxLog` 2 lets a message be delivered twice, be redelivered after a
failed commit, and follow one that failed; an old owner can commit behind the new
one. With `MaxLog` 3, in `worker`, a payment's message is followed by a message that is
committed over it, and by the payment's second: a corrupt message plays the other one,
and payments share nothing but the topic. In `worker_group` the
crash of a worker is a shutdown followed at once by the exit, and a failed cache,
gateway or broker call comes with a cancelled context. Two events are a batch with one
behind the other, and one that is saved late; two relays are enough for stale attempts.
The relay that polls one event at a time leaves the other event behind in every poll, as
a full poll does: an event that fails must not starve it. `Watched` is the later event.
Three attempts are the code's own constant.
Three requests under one key are a first, its repeat and a reader or a third
submission; a second key would add requests that share nothing. One terminal status
stands for the three in `service`, where nothing tells them apart.

`breaker` is the code's own instance, not a small one: `MaxUntried` 8 is beyond the 6
of the property, which is tight (a bound of 5 is violated), and the breaker's counts
stop at one more than is ever read.

`pipeline`: two requests under one key are a payment and its repeat. The key does not
expire in this run, so there is one payment at most; two payments under one key that
lapsed are in the run `service` and in the theorem `ChargedOncePerKey`. Its
`MaxStops` 1 lets one process end, anywhere in the run, and start again: crash, drain
and redelivery each happen, and the second end of a process is left to the runs of the
parts, where it is unbounded. Requests that ask for bad bodies, or for a GET, are in
`service`. Broker and gateway failures are in `outbox` and `worker`.

`auth`: three requests are two registrations that race and a login or a repeat, or a
registration, a login and a use of its token. Emails do not interact: one is
enough. `MaxTime` 3 is when a token issued at once on the fastest clock (`Lifetime` 2,
`MaxSkew` 1) expires on the slowest, and lets a second pass between the two readings of
the clock for a token that expires within the run.

**Deadlock** is checked for the worker, the relay, the breaker and the pipeline. The
`service` and `auth` runs have a finite number of requests and stop when all are
answered, so it is off there.

**Fairness.** `worker`: the consumer goroutine keeps running (weak fairness of
`Run`); Postgres answers a SELECT and a claim, and the broker accepts a commit, when
they are asked again and again (strong fairness of `LoadPayment`, `ClaimRow` and
`CommitMessage`), which does not mean that anybody asks again; the coordinator gives a
partition without a running owner to one (weak fairness of `Orphaned /\ Rebalance`).
No fairness is assumed of the gateway, of the settling UPDATE and of the publishes, and
none of `Restart` (`docker-compose.yml` has no restart policy): the property supposes
that the worker is up in the end. It then says which payments are stranded:
`HalfDone` (PROCESSING, in nobody's hands) and `PassedOver` (PENDING, all its messages
read). Leaving either out of the property makes TLC find a violation. `outbox`: the
ticker ticks (weak fairness of `Run`), and Postgres accepts a mark in the end (strong
fairness of a mark); nothing is assumed of the broker. `SettlesForGood`
supposes that some relay is left running in the end. `breaker`: time passes and
payments keep coming (weak fairness of `Tick` and `Work`); `ClosesAgain` supposes
that the gateway has recovered.

`pipeline` states no fairness: its liveness is that of its parts. A stored event is
settled for good (`SettlesForGood`), a PROCESSED one is on the topic
(`ProcessedWasPublished`), and a payment on the topic settles or is stranded
(`SettlesOrIsStranded`). So an accepted payment settles, unless its event was given up
(`outbox_gives_up`) or it was stranded (`worker_skips`).

## 4. What the code does differently from what it says

Five runs end in a violation of a sentence of the repository. Each is quoted under
"findings" in `PROJECT.json`.

1. `worker_overlap`: two members of the group can charge one payment twice. Check
   and claim are a SELECT and an unconditional UPDATE.
2. `worker_skips`: a message whose handler failed is not read again when a later
   message of the partition is committed. Its payment stays PENDING.
3. `outbox_gives_up`: after three failed polls an event is FAILED and never
   published.
4. `worker_rejected`: a payment that the gateway rejects is not sent to the DLQ, though
   the README's diagram (lines 69-73) ends both branches there.
5. `service_burnt_key`: the key is set before validation and never released, so a
   repeated bad request changes from 400 to 409.

Smaller observations, with no run: an open breaker fails up to six payments in a row,
for good and with a dead letter each, without asking the gateway, since the backoffs
of a payment (1.5 s) are shorter than the timeout (10 s); the nil customer id is answered with 500, not 400; a processed event may be published
while the row, whose update failed, stays PROCESSING; the read-through fill can put
an older status in the cache until the TTL; an amount below 0.00005 is stored as 0;
with two relays a `MarkFailed` can turn a PROCESSED row back to PENDING, which ends by
itself (`SettlesForGood`) and repeats a message that the worker's PENDING check
absorbs; and with two relays a `MarkFailed` with attempts read before the other's lowers
them, though `outbox_repository.go` 112 says that it "increments the attempts", so that an
event may fail more than three times before it is given up (never fewer:
`GivenUpForCause`; with one relay the attempts never fall: `OneRelayCounts`). `cmd/worker/main.go` 140 speaks of a grace period, but waits for nothing: a
payment in hand at a shutdown stays PROCESSING, and its redelivery is skipped (the
`HalfDone` of `worker`). Login answers 401 for every error, one of the database
too, where its documentation (`auth_handler.go` 75) says "Invalid credentials error". A
token is refused as invalid by a process whose clock is behind that of the process
that signed it, since `nbf` has no leeway (`TokenWindow` allows it for `MaxSkew`), and may
expire early by the time that passes between the readings of the clock for `exp` and for
`nbf`: a second, when it rolls over there. A
registration whose INSERT reported an error, but was applied, is answered with 500, and
its repeat with 409 (`RepeatRegisters` says that the account is then the client's
own). A long password that was refused at registration still logs in to an account
whose password is its first 72 bytes.

## 5. Proofs

Eight modules hold theorems. They hold for every value of the constants that satisfies
the module's assumption (`WorkerAssumption`, `OutboxAssumption`, ...): any number of
requests, processes, partitions, messages and payments, and any kinds of failure. A
hypothesis beyond that is part of the theorem's statement. Each safety property is
proved in the same way: an inductive invariant `Inv`, the lemma that the initial
states satisfy it, one lemma per action that it is kept, and a temporal theorem
`Spec => []Inv`, from which the properties follow.

| Module | Theorem | Statement |
|---|---|---|
| `PaymentWorkerProofs` | `TypeCorrect`, `Invariance` | `Spec => []TypeOK`, `Spec => []WorkerInv` |
| | `OncePerWorker` | `Spec => []ChargedOncePerWorker` |
| | `CommitsAreHandled` | `Spec => []CommittedIsHandled` |
| | `ApprovalsAreReal` | `Spec => []ApprovedIsCharged` |
| | `SkipsOnlyOnDbFailure` | `"db" \notin Faults => (Spec => []NothingSkipped)` |
| `SingleWorkerProofs` | `OneWorkerInvariance` | `OneWorker => (Spec => []OneInv)` |
| | `OutcomesAreTrue` | `OneWorker => (Spec => []OutcomesMatchGateway)` |
| | `CacheBehindRow` | `OneWorker => (Spec => []CacheNeverAhead)` |
| | `Implements` | `OneWorker => (Spec => LifecycleSpec)` |
| `OutboxProcessorProofs` | `OutboxInvariance`, `OutboxTypes` | `Spec => []OutboxInv`, `Spec => []TypeOK` |
| | `MarkedAfterPublish` | `Spec => []ProcessedWasPublished` |
| | `SettledStays` | `Spec => SettledIsFinal` |
| | `GivesUpOnlyOnBroker` | `Faults \cap {"broker", "shutdown"} = {} => (Spec => []NoneGivenUp)` |
| `OutboxAttemptsProofs` | `NotGivenUpEarly` | `HistorySpec => []GivenUpForCause` |
| | `OneRelayCounts` | `OneRelay => (Spec => AttemptsNeverFall)` |
| `PaymentServiceProofs` | `ServiceInvariance`, `ServiceTypes` | `Spec => []ServiceInv`, `Spec => []TypeOK` |
| | `OutboxIsTransactional` | `Spec => []StoredWithEvent` |
| | `OnePaymentPerKey` | `Spec => []OncePerKey` |
| | `AnswersStored` | `Spec => []AnswersAreStored` |
| | `RepeatsAnswered` | `Spec => []RepeatsGetThePayment` |
| | `CreatedFound` | `Spec => []CreatedIsFound` |
| | `ServiceCacheBehind` | `Spec => []CacheNeverAhead` |
| `AuthServiceProofs` | `AuthInvariance`, `AuthTypes` | `Spec => []AuthInv`, `Spec => []TypeOK` |
| | `AccountHasOneOwner` | `Spec => []OneOwner` |
| | `RegisteredLogsIn` | `Spec => []RegisteredCanLogIn` |
| | `RegistrationRepeats` | `Spec => []RepeatRegisters` |
| | `TokensHaveTheirWindow` | `Spec => TokenWindow` |
| `CircuitBreakerProofs` | `BreakerInvariance` | `Spec => []BreakerInv` |
| | `ProbesSuffice` | `Spec => []NeverTooMany` |
| | `TripsForCause` | `Spec => OpensForCause` |
| | `BreakerTypes` | `MaxRetries = 3 => (Spec => []TypeOK)` |
| | `UntriedFitsTimeout` | `MaxRetries = 3 => (Spec => [](3 * untried <= Timeout))` |
| | `SixUntried` | `MaxRetries = 3 /\ Timeout = 20 => (Spec => []AtMostSixUntried)` |
| `PipelineProofs` | `PipelineInvariance` | `OneWorker => (Spec => []PipelineInv)` |
| | `ServiceImplemented` | `OneWorker => (Spec => ServiceSpec)` |
| | `PipelineImplements` | `OneWorker => (Spec => LifecycleSpec)` |
| | `TopicHasRows` | `OneWorker => (Spec => []PublishedIsStored)` |
| | `ChargedOncePerKey` | `OneWorker => (Spec => []OneChargePerKey)` |
| | `NoneLost` | `OneWorker /\ "db" \notin WorkerFaults => (Spec => []OnItsWayOrGivenUp)` |
| | `AlwaysOnItsWay` | the same without a failing broker or a signal `=> (Spec => []OnItsWay)` |

**Assumptions.** `None` differs from every value it stands in for, and `Corrupt` from
every payment. `OneWorker` says that the group has at most one member: the repository
starts one (`docker-compose.yml` 111-115 gives it a fixed container name), and with two
the properties that suppose it are false (`worker_overlap`). The three attempts of
`BreakerTypes` are the code's own; it is a hypothesis because the backoffs are powers of
two, which the provers only evaluate. A tick is 500 ms, so `Timeout = 20` is the code's
ten seconds. In a theorem a bound of the model (`MaxLog`, `NRequests`, `MaxStops`,
`MaxTime`) is any natural number.

**PaymentWorkerProofs.** None of the safety properties is inductive. That a worker is
never given a second approval depends on what it may hold when it reaches the gateway:
`JobInv` says that from the claim on, the row has left PENDING, and that before the
gateway's answer this worker has no approval of the payment. The latter holds when the
payment is loaded because of `ChargedIsClaimed`: an approved payment has left PENDING,
so the load of a PENDING row finds none. And no step writes PENDING again: every write
is of a job's status, which `JobInv` says is PROCESSING or final. That a settled status
is APPROVED only after an approval gives `ApprovedIsCharged`; that a message at `dlq` or
`commit` is handled, and that it is the log's message at its offset, give
`CommittedIsHandled` even when an old owner commits behind a new one.

The step lemmas are grouped by what they disturb: `QuietStep` and `QuietMove` for
steps that leave rows, caches, logs, offsets, approvals and outcomes alone (most of
them), `RowStep` for the steps that write a row, `CacheStep` for those that write a
cache entry, and one lemma each for an approval, an announcement, a commit and a
delivery. `JobFrame` is the frame rule for the workers a step does not touch.

`worker_skips` shows that `NothingSkipped` fails; `SkipsOnlyOnDbFailure` says what it
takes: a call to Postgres that fails. Crashes, signals, rebalances, lost commits and
every other failure are harmless, for any number of members. Its invariant `OrderInv`
is about everything a member has read and not only what is committed: behind a message
in hand all is handled, and what the owner of a partition has read is handled or in its
hands, as long as its context is live. Once the context is cancelled it may have
dropped a message, but then it reads nothing more. `HandledStays` is what a step must
do to rows and logs for this to be kept.

**SingleWorkerProofs** strengthens `WorkerInv` for a group of one. `RowInv` says what
the row in Postgres is at each label, which holds because nobody else writes it;
`SayInv` that nothing was announced or dead-lettered of a payment before it is settled,
and that a settled status is APPROVED exactly if the gateway approved; `RowsInv` keeps
this for payments that are in nobody's hands, half-done ones included. `Implements` is
the refinement: each step is one of `PaymentLifecycle`, or leaves `db` and the charged
payments alone. `OneMoves` and `OneServed` state what the worker does to rows and cache
and what it tolerates from others, for use in the composition.

**OutboxProcessorProofs.** `OutboxInv` adds to `TypeOK` and `ProcessedWasPublished` that a
relay between a publish and its mark has its event on the topic (`PublishedInHand`), and
that a FAILED row has three attempts and a PENDING one fewer (`AttemptsLeft`). `TypeOK`
and `AttemptsLeft` need each other: a poll reads fewer than three attempts because the
row is PENDING, and a mark writes at most three because the poll did. A relay with a
batch is at an event of it (`CurrentInBatch`), since a set of events has an oldest one:
that is where the well-foundedness of the naturals is used. `SettledStays` is the step
lemma `SettledStep` under that invariant. `GivesUpOnlyOnBroker` is the counterpart of
`outbox_gives_up`.

**OutboxAttemptsProofs.** `CountInv`: the attempts in the row, and those that a relay has
read, are at most the failures, and a relay about to mark its failure has read fewer. So
a row that is FAILED, with three attempts, has three failures behind it
(`NotGivenUpEarly`). The attempts may be fewer than the failures; they never fall when
there is one relay, since what it has read is then what the row has (`ReadInv`,
`OneRelayCounts`).

**PaymentServiceProofs.** `ServiceInv` has three parts. `KeysInv`: until a key expires
it names the one request that may make a payment with it, which makes `OncePerKey`
inductive. Per request, `PhaseInv` ties the label to key, transaction and row;
`LookupInv` says that what a reader holds is behind the row in the order of the
statuses (`Behind`), so that a late fill cannot put the cache ahead; and `AnswerInv`,
`RepeatInv` and `FoundInv` carry a client's history: from its arrival on, a repeat is on
its way to the payment that the first request was given. And the cache is `Behind` the
row. `RepeatsGetThePayment` needs most of them: a repeat finds the key set (`KeysInv`),
reads from it the payment that the first client was given (`RepeatInv`), and finds its
row, since an answer is given after the commit (`AnswerInv`).

**AuthServiceProofs.** `AuthInv`: an account is that of a registration that was sent,
with its password (`UsersInv`); a login that is about to sign has read its email's
account (`PhaseInv`); an answer stays true of the accounts, since none is removed
(`AnswerInv`); and a registered client's login is not denied (`LoginInv`), because the
account exists from before the login arrived. `TokenWindow` is an action property: it
follows from `TimeInv`, by which the expiry is a `Lifetime` after a moment between the
one at which the login found its account and the token's `nbf`, and from clocks that are
within `MaxSkew` of the time.

**CircuitBreakerProofs.** `BreakerInv`: the failures that the breaker counts are errors
of the gateway in a row, an open breaker counts nothing and has no call out, and every
probe of a half-open one but the last is answered. `UntriedInv` relates the breaker's
timer to the worker's loop: as long as payments fail untried the breaker has been open,
and each has spent three ticks of its timeout (`Spent` counts those of the payment in
hand); once the timer is over the next attempt is a call.

**PipelineProofs** composes the parts without proving them again. Each step of the
pipeline is a step, or none, of the service (`ServiceRefined`), of the relays
(`RelayRefined`) and, but for a request that is served, of the worker (`WorkerRefined`).
So the step lemmas of the parts, taken through `INSTANCE ... WITH`, keep the parts'
invariants, and `PipelineInv` is their conjunction, with what the parts say of each
other: the relays hold and publish only saved events (`SavedInv`), and a dead letter is
of a stored payment. It is an assume-guarantee argument: the service lets its
environment move rows along the transition table, which is what `OneMoves` says the
worker does, and the worker tolerates a row that is created, if no message names it yet
(`OneServed`), which is what `StoredWithEvent` and `SavedInv` give. The lemmas from
`ServiceSame` to `SharedVariables` say that a definition means the same in a module and
in the proof module that extends it.

`NoneLost` follows a payment through all three: its row is PENDING; its event is
PENDING, given up, or PROCESSED and therefore on the topic; and a message on the topic
that is behind the committed offset would be handled (`OrderInv`), so its row would not
be PENDING. `AlwaysOnItsWay` adds that no event is given up. The run `pipeline` checks
`OnItsWay` with a signal as well, which may cost an event one of its three attempts:
with `MaxStops` 1 and one API that is never the third. How many signals are too many is
not proved.

**Only model-checked.** The liveness properties (`SettlesOrIsStranded`,
`SettlesForGood`, `ClosesAgain`): fairness and ENABLED are out of the prover's reach. The
four violations are counterexamples. Every other property of the passing runs is
stated by a theorem above.

## 6. Not modelled

Amounts, currencies and payloads: no property depends on them (see the observation
on small amounts). `ListPayments` reads and changes nothing; `UserRepository.GetByID`
and `PaymentCache.Delete` have no caller. Metrics, logs and tracing; configuration and
connections, which are read or made once at start, or the process ends; migrations,
generated documentation, scripts and mocks. Signatures and the secret: a token is one
that the service issued, or none. Writes that a database applies only after the
connection of a dead process is gone: an UPDATE that fails takes effect at once or
never. A gateway that charges and then reports an error: the gateway in the repository
never does, and `charges` counts the approvals the worker received. The breaker inside
the pipeline: its timers are checked with the worker's loop alone (`breaker`), and
elsewhere it is one of the reasons for which a call to the gateway fails.

## 7. Plan

Every module of section 2 is written, and every safety and action property of the
passing runs is proved. What is left:

1. `AlwaysOnItsWay` with signals: an event fails at most one attempt for each signal
   that catches it in a relay's batch, so fewer than three signals give nothing up.
2. `PaymentLifecycle` for a group of several workers, with what `worker_overlap` shows
   they may do (a second charge) as an abstract action: what still holds of a payment
   when two members have it in hand.
