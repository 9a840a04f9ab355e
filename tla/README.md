# Specifications of the SLO enforcer experiment

TLA+ models of the programs of this repository, TLC runs that check them on small
instances, and theorems checked by TLAPS. Paths below are those of the repository;
`observer.go` is `src/sloobserver/observer.go`, `slodesc_controller.go` is
`faasslo/controllers/slodesc_controller.go`, `forwardsc.go` is `src/forwardsc/forwardsc.go`,
and the generators are in `src/cli/`.

    tlc -workers 2 -config MCPipeline.cfg MCPipeline
    tlapm PipelineProofs.tla

`PROJECT.json` lists the components, the runs, the source lines behind every definition,
the hazards and the theorems.

## 1. The system

A load generator posts orders to the channel `orders`. A chain of three forward functions
takes each order from one channel to the next. The observer subscribes to the first and to
the last channel, pairs the two reports of each order, and every five seconds writes the
window's latency and input rate into the status of the custom resource `SLODesc`. The
enforcer watches the `SLODesc`, and while the input rate is below the limit it gives each
Knative service of the workflow a reserved pod and more resources.

    generator --> orders --> forward-1 --> forward-2 --> forward-3
                    |                                       |
                    +------------> observer <---------------+
                                      | status.metrics, every 5 s
                                      v
                                   SLODesc --watch--> enforcer --update--> services

### Inventory

| component | state | operations | who touches it |
|---|---|---|---|
| observer, order matching (`observer.go` 47-91) | `pendingOrders` (a `sync.Map`), `inputTracking`, `latencyTracking` | `reportOrders`, `parseOrder` | goroutines of the CloudEvents client, the cron job |
| observer, latency window (`observer.go` 76-78, 139-156) | the slice `latencyTracking` and its backing array | append; swap, sort, sum, tail | `reportOrders` and the cron job, on one array |
| observer, SLODesc status (`observer.go` 123-199, `lib.go`) | `inputTracking`, the object's `status.metrics` | `updateSLOEnforcement` every five seconds | overlapping runs of the job, `kubectl`, the API server |
| observer, pods (`observer.go` 110-121, 241-285) | `runningPods`, `desiredPods`, `monitorReplicaSets` | `updateScaling`, the wait for the SLODesc at the start | informer, cron job |
| enforcer (`slodesc_controller.go`) | the cached SLODesc, the work queue, the services | `Reconcile` | controller-runtime's worker, the observer, `kubectl` |
| forward function (`src/forwardsc/forwardsc.go`) | none of its own | `receive` | channels |
| burst generator (`genburst.py`) | queue of results, three counters, `running` | sender, tracker, pool, main thread | threads of one process |
| constant-rate generator (`genorders.py`) | the same | sender, tracker, pool, main thread | threads of one process |
| rounds (`genconcurrency.py`) | the results of the round, the rounds recorded | warm-up, send, poll, record | the sender thread and the pool |
| live plots (`plot_live_metrics.py`) | the arrays behind the curves | read the logs, count, average | `burst.sh`, the observer's and the client's logs |
| command-line tools, scripts, YAML | none | print, install | a user |

### What is hard about it

* *Interleaving.* `reportOrders` does `Load`, then a decision, then `Store` or `Delete`,
  each atomic and the whole not. The job leaves `latencyTracking[:0]` and its own slice on
  one array. gocron starts a run whether or not the last one is back. The generators'
  counter is advanced in order to be read, and `inc()` takes no lock.
* *Delivery.* A channel delivers at least once and in no order across channels, so that an
  output may be reported before its input, or either twice. A function ignores the result of
  its own `Send`, so that an order may also be lost on the way. The watch of the ReplicaSets
  may break, and the events in it are lost.
* *Partial failure.* No call of an API server is retried by its caller. What was zeroed
  before a failing call is lost.
* *Crash.* Nothing is kept on disk, and four places can panic: data that does not parse, mid
  timestamps that are missing, a template without annotations, and the tombstone of a
  ReplicaSet whose deletion the watch missed. A function that ends after it has sent an order
  and before it has answered is given the order again.
* *Staleness.* The enforcer decides on a cached SLODesc and writes a service it read
  earlier; the observer writes a status it read earlier, of pods stored under a task's name by
  whichever set had the last event.
* *Rounding.* The script turns times into indices of periods and of seconds, in arrays whose
  lengths are rounded in another way, and takes differences of arrays in place. The rates of a
  burst are float sums that end its loops.

`PROJECT.json` has each of these with its line and the properties aimed at it.

### What makes each component correct

* Order matching: every report received is accounted for exactly once; an order is measured
  once, with its end-to-end latency; where the code cannot promise this, the ways in which
  it can fail are exactly the ones stated.
* Latency window: a report averages the samples of its own window; a race costs at most as
  many samples as there were races; nothing that was not measured is ever averaged.
* SLODesc status: an arrival is counted in one metric at most, metrics are in order, none
  is overwritten.
* Enforcer: a service is updated only when it lacks its reservation, and in the end each
  service gets it, although no failed update is retried.
* Workflow: what the observer measures of an order follows from what happened to it on the way;
  an order that met no failure is measured once, from the client's stamp to the last one.
* Pods: once the cluster is quiet the observer's maps are those of the cluster.
* Generators: no request is lost between the threads, the printed lines make sense, the rates
  stay near those asked for and one burst is as the other, although float sums decide when to
  stop climbing and falling, the program ends; a recorded round holds its own requests and no
  others.
* Plots: a curve counts each order where it belongs, and shows of the pods what was logged.

## 2. The modules

### OrderLedger, OrderMatcher, MCOrderMatcher

`OrderMatcher` is `reportOrders`. `pc[h]` is the place of the goroutine `h`; each access to
shared memory is an action:

| action | code (`observer.go`) |
|---|---|
| `Receive`, `Skip`, `Poison` | the event arrives, is of another type, does not parse (29-34, 47-57) |
| `LoadMiss`, `LoadHit`, `LoadPanic` | `pendingOrders.Load`, the partner's `mids[i]` (58-74) |
| `Record` | the append under `latencyTrackingLock` (76-78) |
| `Delete` | `pendingOrders.Delete` (79) |
| `Count`, `Store` | `atomic.AddInt64`, `pendingOrders.Store` (81-82) |
| `Kill` | the pod is killed |

`parseOrder` shadows its named result `err`, so that data that does not parse reaches the
handler as a nil order with a nil error: `Poison` is the dereference that follows, and it
ends the process as a panic in any goroutine does. `inputTracking` and `latencyTracking`
are kept apart by order, so that properties can speak of one order; the job's reads of them
are in the two modules below. How many goroutines run is the CloudEvents client's business
and a constant. Timestamps are natural numbers; log lines are left out.

`OrderLedger` is what this promises: per order, `Open`, then `Measure`, or, when the
two reports may overlap, `Strand`. `Pipeline` shows under which conditions it is kept.

### Pipeline, MCPipeline, PipelineProofs

The way of an order, composed with `OrderMatcher`, which it extends. `Place` is the client's
post to `orders`, whose two subscribers are the observer and the first function. `Forward` is
`receive` of a function: the mid timestamp is appended, the order sent to the next channel,
the event answered. `ForwardUnanswered` is the same when the pod ends between the two, so that
the channel keeps the event, as a later copy; `LoseSend` is the failed `Send` nobody looks at
(`forwardsc.go` 68). That the pod ends before the `Send` changes nothing the channels hold, and
has no action. `TakeReport` is `Receive` of a report that did reach the observer, and its
guard says that this happens once per report; `matcher` has the repeated ones. All stamps are of one clock and grow along the chain; `parseOrder` of the functions never fails, since
what they get are the generators' orders. `overlapped` remembers the orders two of whose
reports were in handlers at once.

### LatencyWindow, LatencyWindowProofs

The Go slice is `[array, len]` over `heap`, the arrays in the order of their allocation.
An append with room writes one element (`AppendInPlace`); one without copies element by
element into an array of twice the capacity (`BeginGrowth`, `CopyOne`, `EndGrowth`) and
holds the lock while it does. The job swaps under the lock (`Swap`), and then, without it,
runs the insertion sort that `sort.Slice` uses for small slices (up to six elements in every
version of Go, hence the bound `MaxWindow`; `Compare`,
`Exchange`, `WriteFirst`, `WriteSecond`: two reads, two writes), sums (`SumOne`), and reads
the tail (`TakeTail`). The accesses of both sides to the shared array are a data race; the
model takes each read and write of an element as one step, in the order of the program. The
mean and the deviation, which are floating-point functions of the elements `read`, are
not computed. One job runs at a time here; the runs that overlap are in `SLOStatus`.

### SLOStatus, SLOStatusProofs

`updateSLOEnforcement` as `Get`, `Read` (157), `Zero` (158), `Publish` (173-192), for each
of the runs that may overlap, with `GetFails` and `PublishFails`. `inputTracking` is the set
of the arrivals it counts, so that an arrival can be followed into a metric. The object is
its resource version and its metrics; `Current` is the API server's refusal of a status
whose version is not the object's. `Apply`, `Recreate` and `Restart` are what others do:
`kubectl apply`, delete and create, and the end of the observer's pod.

### Enforcer, MCEnforcer, EnforcerProofs

One SLODesc (its latest input rate), the cache of the manager's client, the watch event and
the work queue, which merge, and `Reconcile` with one action per outcome: `ReconcileMissing`,
`ReconcileNothing`, `ReconcileEnforce`; per task `GetReserved`, `GetUnreserved`, `GetPanics`,
`GetFails`, `Update`, `UpdateFails`. A service is its `minScale` annotation (`Missing`,
`Invalid` for one that is no number, or a number of pods), whether its template lacks the maps
the code assigns to (`bare`), whether it has the upgraded resources, and its version.
`Deploy` is `kubectl apply` of a service; `Kill` and `Restart` are the enforcer's process.

### AtomicCounter, Counter, CounterProofs

`class Counter` of the generators, the same in all three. `AtomicCounter` is what its users
expect. `Counter` has a step for each operation of `value()`; `Count` and `Result` are the
refinement mapping: what the counter would be without the advances made to read it, and
the value a reader will return although it has not yet subtracted. `next()` of an
`itertools.count` is one step, as it is in CPython.

### Floats, Tracking, LoadGenerator, MCLoadGenerator, LoadGeneratorProofs

`genorders.py` and `genburst.py`, which are the same but for the sender's plan. `Tracking`
has what they share: `Apply`, `Put`, `Inc` make a request. The tracker takes as many results
as the queue held, counts those that are ready (`TakeAnswer`), drops those that raise
(`TakeError`), keeps the others (`TakeWaiting`) and puts them back (`PutWaiting`) while the
sender appends. `Respond` is a process of the pool. `LoadGenerator` has the plans: `Steady` is
`genorders.py`'s constant rate, and `Rise`, `High`, `Fall`, `Low`, `NextPeriod` are a burst.
`float()` of the arguments gives rates in `Floats`, a set of numbers as a float type has:
counted in its smallest unit, with 0, and of two next to each other one that is even in their
distance. `Round` is the nearest of them, half way the even one: what `rate += acc` (134),
`rate -= acc` (156) and `rate * seconds` compute. So the climb of `10 11 0.1`, whose tenth sum
is 10.999999999999996, takes the step more that the program takes, and the fall of `0 0.3 0.1`
goes below zero. `Orders` truncates as `int` does, and `range` of a negative number is empty.
Beyond the largest float the nearest is the largest, where Python has infinity, which no rate
of requests comes near. The lengths of the sleeps and the content of the orders are left out.
Each counter is read and incremented at one instant, which `Counter` shows. The tests of
`running` in the sender never fail, since only its own last act writes it.

### ConcurrencyRounds, MCConcurrencyRounds, ConcurrencyRoundsProofs

`genconcurrency.py`. `Send` hands all the requests of a round to the pool; `PollAnswer`,
`PollError`, `PollUnanswered` are the passes over the results (142-148), `NextPass` and
`Record` what follows one. The pool's processes take the requests in order (`Post`). The
results of the warm-up are dropped, and the sleep of 20 seconds after it promises nothing:
its requests may be on their way in any round. The rates of `range(srate, erate, step)` go up
or down, a round of a negative rate is empty (`Made`), and a step of zero raises an exception
(`NoRange`). `running` in line 158 is a local variable.

### PodInformer, LiveMetrics, Monitoring, MCMonitoring, MonitoringProofs

`PodInformer` is `updateScaling` and the informer behind it: `Change` is an event while the
watch is established, `Break` loses the watch and the events in it, `List` lists again and
hands over a tombstone for a set that is gone, `Tick` and `Resync` are the resync of each
second. `Handle` begins a handler; `StoreRunning` and `StoreDesired` are its two stores per
task. `Tombstone` is the failed type assertion in `DeleteFunc` (267-269): the process panics,
and its container starts again with empty maps and an empty log. The informer is client-go's,
modelled from how `main` configures it.

`LiveMetrics` is `plot_live_metrics.py` up to the drawing: `Origin` (61-77), `BinOrders` for
each service (78-114), `ReadClient` (116-134), `ReadScaling` (201-265). Times are in ticks; a
period and a second are constants; a rate is the count it is made from, and an average a sum
with a count. The three numbers of pods of a line are treated alike in the code, and one is
kept. The stamps of one order are in no order: `observer.go` 60-74 pairs any two reports, so
that two outputs of an order that was given again (`Pipeline` has them) log a function's
stamp as the start, after ends that precede it; and the start is of the client's clock. So a
time may be negative: `int` truncates it towards zero (`Truncated`), a negative index counts
from the end of the array (`OutputIndex`), and one beyond either end raises an exception
(`BinFails`), as the empty log does (`NoOrders`).

`Monitoring` is their composition, as `burst.sh` has it: the log is copied at the end of the
experiment and the script reads what the observer wrote.

### Variants

Some definitions are used nowhere: `UncountedMiss` before `LoadMiss`, `Kept` before
`Deleted`, `NoLock` before `Free`, and so on. Each is a plausible bug in the definition that
follows it. `PROJECT.json` pairs each property of a run with such a variant; with the
variant in the place of the definition, that run finds the property violated.

## 3. The runs

| run | instance | question and answer |
|---|---|---|
| `matcher` | 2 goroutines, 1 order, 2 deliveries, a second output, an event of another type, one that does not parse, kills | conservation under repetition and restart; at most 2 measurements per counted input (`MeasuredPerInput`) |
| `pipeline` | 2 orders, 3 functions, 2 goroutines; the functions of one order may fail, and copy it once | no handler reads past the mid timestamps; an order that has come to rest is paired, lost or stranded exactly as what happened to it says (`SettledOutcome`); sturdy orders keep the ledger; every order comes to rest |
| `window` | 5 samples, 2 reports | what a report may miss (`DamageIsBounded`), what it never does (`NoPhantom`, `ReportSizeIsExact`), when it is exact (`CleanReportIsExact`) |
| `status_overlap` | 2 overlapping runs, 3 ticks, 2 metrics kept, 2 writes of others | which arrivals get into which metric: `CountedOnce`, `WindowsAreOrdered`, `StatusIsRecentHistory`, `RateIsBounded` |
| `enforcer` | 2 services with any annotation, rates below and at the limit, a deployment of each, a deletion, a kill | the enforcer updates a service only when due and never touches a reserved one; once the rate stays low and the enforcer up, every service gets and keeps its reservation |
| `enforcer_limit` | 2 services, a rate equal to the limit | **violated**: no service is ever reserved (finding 1) |
| `counter` | 3 readers, 8 advances | `value()` and `inc()` are atomic |
| `generator` | 2 constant rates, 6 kinds of burst, of up to 3 requests, floats with mantissas of three bits | no request is lost, lines make sense, rates stay within a step of those asked for (`RateStaysNear`), every burst makes as many requests as the first (`BurstsAreAlike`), the program ends |
| `generator_stop` | 1 burst, Ctrl + C | **violated**: more requests are made (finding 2) |
| `rounds` | 9 argument lists of up to two rounds of 3 requests, up, down beyond zero or without a step, 1 or 2 processes, 2 requests of warm-up | a recorded round is exact, rounds do not overlap, the sender ends unless a request is never answered |
| `metrics` | up to 2 orders through 3 services, with stamps that grow or in any order, or 2 ReplicaSets of a task with 2 changes and a broken watch | only an empty log or an end far from all others ends the script early (`OnlyStraysFail`); what the curves count; the pods shown are the last known and the maps converge |
| `metrics_demand` | the same 2 orders | **violated**: the demand of the third service is not its own (finding 3) |

### The bounds, and why they are enough

* *Orders.* Different orders share no entry of `pendingOrders`, and the model keeps the
  counters apart, so two orders show all of their interplay through the goroutines. Two
  goroutines are the fewest that interleave; the theorems hold for any number. Three functions
  are the deployed chain, and one copy beside the first gives the observer up to three reports.
* *Deliveries.* Two of each of three reports give six for one order: a report meets its own
  copy, a finished order is opened again, and two deletes race. Without a bound the counters
  grow for ever (`MaxDeliveries`).
* *Window.* Five samples over two reports let the array grow from 0 to 1, 2 and 4, a window
  of three be sorted while the next one overwrites it, and an append copy the array while the
  job writes it. `MaxWindow` may be at most six, where `sort.Slice` is an insertion sort.
* *Status.* Two runs are the fewest that overlap; a list of two drops its oldest; three
  ticks fill it and drop one; `Load` is one arrival per period.
* *Enforcer.* Two tasks make the loop go on after one fails; one deployment each gives an
  update a service that has changed since it was read.
  The instance has one annotation that is no number of pods, since `Missing` and `Invalid`
  reserve alike; `enforcer_limit` has the other.
* *Generators.* Three requests are enough for one to be taken, one to be put back and one to
  be added meanwhile. The bursts climb and fall by the same rates, by others, and end above or
  below the first one; they go below zero, start above the rate to reach, make no request, and
  repeat. Three bits are the fewest for which sums and products round to either side and to an
  even neighbour; what is rounded in `10 11 0.1` with 53 bits is here rounded in `1/8 7/8 5/8`.
  A step that is lost in rounding, or is not positive, makes a climb without end, which is what
  the program does too: no such burst is in the run, which has a liveness property, and the
  theorems have them all.
  A round of three requests takes several passes, and two processes leave one waiting.
* *Metrics.* Two orders differ in every way that matters: same or different second and period,
  on and off the boundaries, one at the first moment, ends before the start of their own order or
  of the other, and before the first moment of the experiment, near it and far from it.
  Three services are the fewest for which
  the demand is wrong. Two sets of one task, two changes and one break give a tombstone, a
  deleted set whose pods stay in the maps, and a list after either.

### Fairness

* `Pipeline`: weak fairness of each goroutine's step (the Go scheduler), and, per order, of its
  functions and of the observer's taking its reports (a channel delivers until it is answered).
  Nobody has to place an order.
* `LatencyWindow`: weak fairness of the growing append and of the job; none of appends, so
  that windows may stay empty.
* `SLOStatus`: none, since no property of it is about what must happen.
* `Enforcer`: weak fairness of the observer's reports, of the informer and of the worker;
  strong fairness, per task, of what follows a `Get` that succeeds and of the `Update`: a call
  that is tried again and again does not fail each time. Nothing is assumed of whoever creates
  the SLODesc or starts the enforcer again: `EveryTaskIsReserved` is about the behaviours in
  which the rate reported stays low and the enforcer stays up from some moment on.
* `LoadGenerator`: weak fairness of the two threads, none of answers. `ConcurrencyRounds`: of
  the sender and of the pool as long as a process is idle, none of answers.
* `PodInformer`: weak fairness of the handlers' goroutine, of the list, which the informer
  repeats until it succeeds, and of the timer. Nothing makes the cluster change or rest.

Deadlock is not checked, since each model may stop: deliveries, ticks or samples are used up,
or the program has ended.

## 4. Findings

1. *The limit.* `faasslo/api/v1alpha1/slodesc_types.go:57` calls `RateLimit` "The maximum
   supported input rate"; `slodesc_controller.go:74` enforces only `inputrate <
   expectedInputrate`. At a rate equal to the limit nothing is reserved (`enforcer_limit`).
2. *Ctrl + C.* `genburst.py:246` prints "press [Ctrl + C] to stop". An interrupt ends the
   main thread's `join` (255); nothing sets `running`, and the sender, which is no daemon,
   makes the rest of its plan (`generator_stop`).
3. *The demand.* `plot_live_metrics.py:288` labels a curve of each service `label= s + " -
   Demand"` and draws it beside what the service's pods can serve. Line 101 takes the
   predecessor's array away in place, so that from the third service on what is taken away has
   itself been reduced: the curve is C3 - C2 + C1 (`metrics_demand`). The first two are right
   (`FirstDemands`).

Other behaviours that the models show, and that no document of the repository denies, are
stated as what does hold: stranded orders (`SettledOutcome`), windows damaged by a race
(`DamageIsBounded`), repeated measurements (`MeasuredPerInput`), rates that stand for
several periods after a failed run (`RateIsBounded`), orders lost by a function and orders
measured twice after one was given again (`SettledOutcome`), the process that a tombstone ends
(`PodsConverge`), orders of the first moment, missing from the input rate, and ends before
it, counted in a later period or none (`RatesCountOrders`, `OnlyStraysFail`), and bursts whose
rates leave the range that was asked for (`RateStaysNear`).

## 5. What is proved

Every invariant that a run checks, and the refinements and action properties among the
properties, except those of liveness. The theorems hold for every value of the constants that
satisfies the assumptions the modules state, and use no other: any set of orders and reports,
any finite set of goroutines, any number of deliveries, copies, overlapping runs, readers,
services, requests and rates. Four assumptions are worth naming. `WorkflowAssumption`: there is
a function, and the workflow's reports are among those the observer may get. `MaxWindow` is at
most six, since the sort modelled is the insertion sort. `FloatsAssumption`:
of the numbers a float can hold two next to each other differ by a unit of which one is an even
multiple; nothing is assumed of how many there are, of the rates or of the climb's step, and
durations are not negative (`ArgsAssumption`). `ExperimentsAssumption`: stamps are not negative,
and an order logged was placed after the clock's zero; they are in no order.

### The observer alone (first section of `PipelineProofs`)

`TypeCorrect` needs that a handler holds a report while it is busy, and a partner once it has
loaded one (`HoldsReports`). `NothingLost` (`Conservation`) follows since each action moves one
report from one term of the sum to another: `Receive` adds a handler to `Undecided` and one to
`arrived`; `Count` and `Record` take the handler out and add one to a counter; a restart empties
all. The finite-set facts on cardinality are why `Handler` must be finite. `MeasurementsArePaid`
(`MeasuredPerInput`) is not inductive: a report that is pending, or about to be stored, can
still be measured. The invariant `MeasureBudget` adds to the measurements made those under way
(`Recording`), those the pending report may still give, one for each handler that has not
matched it (`Chances`), and `|Handler|` for each handler about to store, and pays for the sum
with `|Handler|` per input. These proofs cite no assumption of `Pipeline`.

### The workflow and the observer (rest of `PipelineProofs`)

`MidTimestampsSuffice`, `OrdersComeToRest` (`SettledOutcome`), and `PipelineKeepsLedger`, the
refinement of `OrderLedger` by the sturdy orders. The invariant has two halves.
`WorkflowInv` is about the copies: each event in a channel has a number of its own and a mid
timestamp for each function behind it (`EventsAreNumbered`), a report posted is of one copy that
went through (`ReportsAreOfCopies`), and the reports posted, the copies on their way and the copies
lost add up to the copies made (`CopiesAreAccounted`). `ObserverInv` is about the reports: one that was taken is in one handler,
or pending, or done (`ReportsAreTakenOnce`), and the handlers took the reports of an order that
did not overlap one after the other (`TurnsAreKept`), so that the second finds the first. The
accounts of the observer hold as well, because each step is one of the observer's or leaves it
alone. `MidsCoverTasks` follows, since a pair is an input, without mid timestamps, and an output
with all of them, or two outputs. `PipelineKeepsLedger` shows that the initial states map to
initial ones and every step to `Open`, `Measure`, `Strand` or a stutter: `Count` opens or
strands, `Record` measures, the rest leaves the ledger as it is.

### `LatencyWindowProofs`

`WindowTypeCorrect`, `ReportsHoldNoPhantom`, `ReportSizesAreExact`, `ReportsLoseLittle`
(`DamageIsBounded`) and `CleanReportsAreExact`. What a report says is not inductive: an append
may have overwritten an element between the two writes of an exchange. `OwnInv` therefore speaks
of the place each element of the job's window will have once the exchange under way is over
(`OwnAt`): the job's steps permute these, an append changes at most one, and counts it in
`raced`. `NextInv` says the same of the window being appended to, whose array the job's writes
may hit, with what a growth still has to copy. `SortInv` is the loop invariant of the insertion
sort, for windows that no append met: the places passed are in order but for the element going
down. `HeapInv` keeps the slices within the arrays, and a growth away from both.

### `SLOStatusProofs`

`StatusTypeCorrect`, `MetricsAreOrdered`, `ArrivalsCountedOnce`, `StatusKeepsHistory` and
`RatesAreBounded`. `WindowsAreOrdered` alone says nothing of the metric about to be written. The
invariant adds: what was published came before what the counter holds (`PublishedBefore`); so
did what a run has read and zeroed (`ZeroedBefore`); no run has a version of the object that does
not exist yet (`VersionsKnown`); and a run whose object is still current read the counter after
the last metric (`CurrentReadLate`). `Publish` is the step that uses them all: it makes the
version of every other run stale, so that `CurrentReadLate` holds of nobody, and the window
it adds is after the old ones by `CurrentReadLate` and before the counter by `ZeroedBefore`.
Without the API server's refusal the theorem fails, as the variant `Unchecked` shows.
`StatusIsRecentHistory` needs in addition that a run whose object is current holds the object
itself (`CurrentIsObject`): what it appends to is the history, and dropping the oldest keeps it
the recent one. `RateIsBounded` follows from an account of the ticks in which arrivals came.

### `EnforcerProofs`

`EnforcerTypeCorrect`, `EnforcerUpdatesAreDue` and `EnforcerLeavesReservedAlone`, an action
property. The service the enforcer is about to write was read earlier. `CopyIsOlder` says that
it has no reservation, is never newer than the one in the API server, and is the same if the
versions are: the API server accepts an update in the last case only, so that what is
overwritten is what was read. `UpdatesAreAnswers` counts: the updates of a service are at most
its deployments, and one more while it has its reservation.

### `CounterProofs`

`CounterTypeCorrect` and `CounterIsAtomic`, the refinement of `AtomicCounter`. The invariant: a
reader inside `value()` holds the lock (`Exclusive`), and the counter is ahead of the reads by
the one under way (`ReadsAreAdvances`). `Advance` maps to `Value`, `Inc` to `Inc`, and the other
steps stutter.

### `LoadGeneratorProofs`

`GeneratorTypeCorrect`, `NoRequestIsLost`, `LinesAreConsistent`, `RatesStayNear` and
`AllBurstsAreAlike`. The queue and the results to put back hold different requests, and neither
holds the one in the sender's hand (`Apart`, `NotYetPut`); the tracker never takes more than was
there when it looked (`NumIsThere`), since the sender only adds. From these the two accounts,
of where requests are (`Somewhere`) and of those counted (`Counts`), are inductive.

Of the floats it is proved that `Round` exists, is a nearest one (`RoundIsNearest`), leaves
floats alone (`FloatsStay`) and keeps numbers in order (`RoundGrows`). `RateStaysNear` is then
inductive: a climb's step starts below `erate`, so that what it rounds to is not above what
`erate + acc` rounds to. That one burst makes as many requests as the other cannot be had from a
formula for their number, since the rounding decides how many rates there are. Instead, the
positions of a burst, which are phase, rate and requests made, are a way that each step of the
plan makes longer, from the beginning that the arguments give (`StartIsReached`,
`NextIsReached`). Two ways from one beginning agree as long as both last (`WaysAgree`), so that
two which have come to the end of a burst are equally long, with the same requests
(`EndsAgree`). `PlanIsKept` says that the bursts done made as many requests as the first each, and
that what was made since, is under way and is left is a position of this burst.

### `ConcurrencyRoundsProofs`

`RoundsAreExact` and `RoundsAreApart`. The results still to look at in a round are all different
and of this round, and every other request of it has been answered and its success counted
(`PresentIsExact`); requests are of the present round or earlier ones, and between two rounds of
earlier ones (`MadeInTurn`); a recorded round stays exact because all of it was answered
(`RecordedAreExact`). A pass that ends with nothing to look at has thereby counted the round.

### `MonitoringProofs`

`LogsArePlotted`, `RatesAreRight`, `FirstDemandsAreRight`, `PodsAreRight`, `GenerationIsWhole`
and `TailsGrow`, for any log with stamps in any order. The invariant: the span holds every start
and every end in the last service (`OriginInv`), the arrays have their lengths and those of the
services before the present one are done (`CurvesInv`). Of the ends in the other services it
says nothing, and the theorems have to name what they need. `LogsArePlotted`: an index is beyond its
array only when an end is a span or more before the first moment, or after the last; the lemmas
on division say that one truncated towards zero, or rounded down, is then within lengths rounded
up, counted from the end if it is negative (`TruncatedWithin`, `IndicesFit`). `RatesAreRight`: an
index rounded down is that of the period the moment lies in, when no end in the service comes
before the first moment (`Since`); the input rate needs no condition. `FirstDemandsAreRight`
needs none for the first service; for the second, that no order left it before the first
(`InChain`), so that the difference of the two counts is that of the seconds between. `TailsGrow`
needs the same of each service. The pods of a second are followed back to the last line by
the smallest second for which that would fail. The client's differences telescope to its last
total (`SumOfDifferences`). The k-th element in order does not get smaller when no element does
(`SmallestGrows`): the elements up to the larger list's k-th have their places among those of the
smaller list up to it.

### Only model-checked

Liveness under fairness, which this proof system cannot do: `EveryOrderSettles`, `JobEnds`,
`EveryTaskIsReserved`, `GeneratorEnds`, `EndsUnlessUnanswered`, `PodsConverge`. The
theorems above say of the states these lead to that they are right.

## 6. What is not modelled

* The floating-point mean and deviation (`observer.go` 144-151), with their NaN: no property here
  depends on them. Infinities and NaN as arguments of `genburst.py`.
* Orders of the generators that do not parse at a forward function: there are none.
* A change of the workflow's tasks while the observer runs: it reads them once
  (`observer.go` 241), and no document says otherwise.
* That `plot_live_metrics.py` draws the client's curve by line and not by time, that
  `len(order_rate)` in line 133 is the number of services, and that its `concurrency_mapper`
  knows some pod sizes only: these are about drawing and arguments.
* Overlapping runs of the job on one latency array: the race of one run with the appends is
  modelled, that of two runs' sorts is not.
* `generate_ramp` of `genorders.py` and `rawHandle` of the observer, which nothing calls, and
  the client's `Create`, `Update` and `Delete`, which nothing calls either.
* The manager's flags and wiring, generated deep copies, the command-line tools, the
  drawing of the plots and the scripts that install the parts: input, output and layout,
  without state of their own.

## 7. Plan

Done, in this order: `OrderMatcher` with its ledger and proofs, `LatencyWindow`, `SLOStatus`
with its proofs, `Enforcer`, `Counter` with its proofs, `LoadGenerator`; then `Tracking` and
the constant rate, `ConcurrencyRounds`, `LiveMetrics`, `PodInformer` and their composition,
`Pipeline` with the forward functions, and the enforcer's safety and liveness on one instance.

Then the proofs of every invariant, of the refinements and of the action properties, as in
section 5: of the observer, the enforcer and the status; of the generators and the rounds; of the
latency window; of the workflow and its ledger; of the plots.

Of the proofs, the facts that would follow liveness by hand are left, such as a measure that each
fair step of `ConcurrencyRounds` or `Tracking` makes smaller: they are safety properties of
steps, and would say why the runs terminate for every size.

Of the system, one composition is left: `SLOStatus` and `Enforcer` together, from an arrival
to a reservation. The interface between them, the latest input rate, is an input of `Enforcer`
already, so that the composition would add states and few behaviours.
