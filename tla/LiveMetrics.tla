------------------------------ MODULE LiveMetrics ------------------------------
(***************************************************************************)
(* The script plot_live_metrics.py, which turns the logs of an experiment  *)
(* into the curves of its plots.  From the observer's log of orders it     *)
(* makes the input rate, and of each service the output rate, the tail     *)
(* latency per supporting period and the demand for concurrency; from the  *)
(* client's log the generation rate; from the observer's log of scaling    *)
(* the pods of each service, second by second.                             *)
(*                                                                         *)
(* Times are counted in ticks, of which a second has Second and a period   *)
(* Resolution.  An array is a function from 0 on; a negative index counts  *)
(* from its end, and one beyond either end is an exception that ends the   *)
(* script.  A rate stays a count: the code divides it by a constant at the *)
(* end.  Of the three numbers of pods of a line of scaling, which are      *)
(* treated alike, one is kept.                                             *)
(***************************************************************************)
EXTENDS Integers, Sequences, FiniteSets, FiniteSetsExt, SequencesExt

CONSTANTS
    Services,     \* len(services)
    Second,       \* ticks of a second: 1000 in the code
    Resolution,   \* ticks of a supporting period: 5000
    Gap           \* seconds, and array elements, left free at the start: 10

ASSUME ServicesAssumption == Services \in Nat \ {0}
ASSUME TicksAssumption ==
    /\ {Second, Resolution} \subseteq Nat \ {0}
    /\ Resolution % Second = 0
ASSUME GapAssumption == Gap \in Nat /\ Gap * Second >= Resolution

VARIABLES
    orderLog,       \* the lines of observerlog: placed, and the ends of the services
    cliLog,         \* the Sent: of the lines of clilog
    scaleLog,       \* the lines of scalelog: service, time and pods
    spc,            \* where the script is
    service,        \* the service it works on
    btime, etime,   \* the first and the last moment of the experiment
    size,           \* the periods between them, and the gap
    input_rate,     \* orders placed, by period, once for each service
    order_rate,     \* orders ended, by service and period
    landist,        \* 95th percentile of the latencies, by service and period
    concurrencies,  \* the demand, by service and second
    cli_rate,       \* requests sent, by line of clilog
    total_pods      \* the average number of pods, by service and second

logs == <<orderLog, cliLog, scaleLog>>
origin == <<btime, etime, size>>
curves == <<input_rate, order_rate, landist, concurrencies>>
vars == <<logs, spc, service, origin, curves, cli_rate, total_pods>>

Orders == DOMAIN orderLog
Service == 1 .. Services
agap == (Gap * Second) \div Resolution
Ceil(a, b) == (a + b - 1) \div b
Zeros(n) == [i \in 0 .. n - 1 |-> 0]

\* int(x / d) goes towards zero.
Truncated(x, d) == IF x < 0 THEN -((-x) \div d) ELSE x \div d

\* starttimes, endtimes and latencies, from btime on
starttime(o) == orderLog[o].placed - btime
endtime(s, o) == orderLog[o].ends[s] - btime
latency(s, o) == orderLog[o].ends[s] - orderLog[o].placed

InitScript ==
    /\ spc = "collect" /\ service = 1 /\ scaleLog = <<>>
    /\ btime = 0 /\ etime = 0 /\ size = 0
    /\ input_rate = <<>> /\ order_rate = <<>> /\ landist = <<>> /\ concurrencies = <<>>
    /\ cli_rate = <<>> /\ total_pods = <<>>

--------------------------------------------------------------------------------
(* The log of orders.                                                      *)

\* burst.sh: the log the observer has written so far is copied.
Collect(lines) ==
    /\ spc = "collect"
    /\ scaleLog' = lines
    /\ spc' = "origin"
    /\ UNCHANGED <<orderLog, cliLog, service, origin, curves, cli_rate, total_pods>>

SizeWithoutGap(span) == Ceil(span, Resolution)
Size(span) == Ceil(span, Resolution) + agap

\* An empty log leaves numpy's min nothing to reduce: an exception ends the script.
NoOrders ==
    /\ spc = "origin" /\ orderLog = <<>>
    /\ spc' = "exception"
    /\ UNCHANGED <<logs, service, origin, curves, cli_rate, total_pods>>

Origin ==
    LET placed == {orderLog[o].placed : o \in Orders}
        closed == {orderLog[o].ends[Services] : o \in Orders}
    IN  /\ spc = "origin" /\ orderLog # <<>>
        /\ btime' = Min(placed \cup closed)
        /\ etime' = Max(placed \cup closed)
        /\ size' = Size(etime' - btime')
        /\ input_rate' = Zeros(size' + agap)
        /\ spc' = "bin"
        /\ UNCHANGED <<logs, service, order_rate, landist, concurrencies, cli_rate, total_pods>>

\* The orders whose start is looked at: those placed after the first moment.
Started == {o \in Orders : starttime(o) > 0}

InputPeriod(o) == starttime(o) \div Resolution + agap
OutputPeriodUp(s, o) == Ceil(endtime(s, o), Resolution) + agap
OutputPeriod(s, o) == Truncated(endtime(s, o), Resolution) + agap

\* The element of order_rate[s] with that index.
OutputIndex(s, o) ==
    IF OutputPeriod(s, o) < 0 THEN OutputPeriod(s, o) + (size + Gap) ELSE OutputPeriod(s, o)

\* The seconds of an order from its start to its end in s, as indices of the demand.
Seconds(s, o) ==
    starttime(o) \div Second + Gap .. Truncated(endtime(s, o), Second) - 1 + Gap

\* The k-th element in order: the least with k elements up to it.
Smallest(a, k) == Min({v \in Range(a) : Cardinality({j \in DOMAIN a : a[j] <= v}) >= k})

\* np.percentile(a, 95), in hundredths: between the two elements around 0.95 * (n - 1)
Percentile95(a) ==
    LET at == 95 * (Len(a) - 1)
        below == Smallest(a, at \div 100 + 1)
        above == IF at % 100 = 0 THEN below ELSE Smallest(a, at \div 100 + 2)
    IN  100 * below + (at % 100) * (above - below)

LatenciesOf(s, orders) == [k \in 1 .. Cardinality(orders) |-> latency(s, SetToSeq(orders)[k])]
TailOf(s, orders) == IF orders = {} THEN 0 ELSE Percentile95(LatenciesOf(s, orders))

\* The latencies of a period are those of the orders placed in it.
EndedIn(s, b) == {o \in Started : OutputPeriod(s, o) = b}
PlacedIn(s, b) == {o \in Started : InputPeriod(o) = b}

\* The orders on their way in each second, and the same of the service before taken away,
\* as it stands by then.
Demand(s) ==
    [j \in 0 .. size * (Resolution \div Second) + Gap - 1 |->
        Cardinality({o \in Started : j \in Seconds(s, o)})]
LessNothing(s, demand) == demand
LessPredecessor(s, demand) ==
    IF s = 1 THEN demand ELSE [j \in DOMAIN demand |-> demand[j] - concurrencies[s - 1][j]]

\* Every index the loop over the orders uses is one of its array.
IndicesExist(s) ==
    LET last == size + Gap - 1
    IN  /\ \A o \in Started :
            /\ InputPeriod(o) \in DOMAIN input_rate
            /\ InputPeriod(o) <= last
            /\ Seconds(s, o) \subseteq DOMAIN Demand(s)
        /\ \A o \in Orders : OutputIndex(s, o) \in 0 .. last

BinFails(s) ==
    /\ spc = "bin" /\ service = s
    /\ ~IndicesExist(s)
    /\ spc' = "exception"
    /\ UNCHANGED <<logs, service, origin, curves, cli_rate, total_pods>>

BinOrders(s) ==
    /\ spc = "bin" /\ service = s
    /\ IndicesExist(s)
    /\ input_rate' = [b \in DOMAIN input_rate |->
           input_rate[b] + Cardinality({o \in Started : InputPeriod(o) = b})]
    /\ order_rate' = Append(order_rate, [b \in 0 .. size + Gap - 1 |->
           Cardinality({o \in Orders : OutputIndex(s, o) = b})])
    /\ landist' = Append(landist, [b \in 0 .. size + Gap - 1 |->
           TailOf(s, PlacedIn(s, b))])
    /\ concurrencies' = Append(concurrencies, LessPredecessor(s, Demand(s)))
    /\ spc' = IF s < Services THEN "bin" ELSE "cli"
    /\ service' = IF s < Services THEN s + 1 ELSE 1
    /\ UNCHANGED <<logs, origin, cli_rate, total_pods>>

--------------------------------------------------------------------------------
(* The log of the client.                                                  *)

\* The differences of the totals, which start from the zeros of the gap; the last element
\* is popped.  len(order_rate) is the number of services.
AllDifferences(totals) ==
    [i \in 1 .. Len(totals) |-> IF i = Len(totals) THEN totals[i] ELSE totals[i + 1] - totals[i]]
Differences(totals) == [i \in 1 .. Len(totals) - 1 |-> totals[i + 1] - totals[i]]
Padded(rates) ==
    rates \o [i \in 1 .. (IF Len(rates) < Services THEN Services - Len(rates) ELSE 0) |-> 0]

ReadClient ==
    /\ spc = "cli"
    /\ cli_rate' = Padded(Differences([i \in 1 .. Gap |-> 0] \o cliLog))
    /\ spc' = "scale"
    /\ UNCHANGED <<logs, service, origin, curves, total_pods>>

--------------------------------------------------------------------------------
(* The log of scaling.                                                     *)

ScaleSize == Ceil(etime - btime, Second) + Gap

\* The lines of a service within the experiment, and those of a second of it.
InTime(l) == btime <= scaleLog[l].time /\ scaleLog[l].time <= etime
Lines(s) == {l \in DOMAIN scaleLog : scaleLog[l].service = s /\ InTime(l)}
LinesAt(s, i) == {l \in Lines(s) : (scaleLog[l].time - btime) \div Second + Gap = i}
Total(lines) == MapThenSumSet(LAMBDA l : scaleLog[l].pods, lines)

\* An average is a sum and a count.
Average(lines) == [sum |-> Total(lines), count |-> Cardinality(lines)]
NoPods == [sum |-> 0, count |-> 1]

\* A second without a line keeps the average of the second before.
PodsOrZero(s) ==
    [i \in 0 .. ScaleSize + Gap - 1 |->
        IF i > 0 /\ LinesAt(s, i) # {} THEN Average(LinesAt(s, i)) ELSE NoPods]
Carried(s) ==
    LET pods[i \in 0 .. ScaleSize + Gap - 1] ==
            IF i = 0 THEN NoPods
            ELSE IF LinesAt(s, i) # {} THEN Average(LinesAt(s, i)) ELSE pods[i - 1]
    IN  pods

ReadScaling ==
    /\ spc = "scale"
    /\ total_pods' = [s \in Service |-> Carried(s)]
    /\ spc' = "plotted"
    /\ UNCHANGED <<logs, service, origin, curves, cli_rate>>

Script ==
    \/ NoOrders \/ Origin
    \/ \E s \in Service : BinOrders(s) \/ BinFails(s)
    \/ ReadClient \/ ReadScaling

--------------------------------------------------------------------------------
(* Properties.                                                             *)

\* The experiment, and as long a time before it.
Reach == 2 * btime - etime .. etime

\* The script plots every log with an order in it, unless an order has a stamp long before
\* all others or after them: an end beyond the arrays is the only reason to fail, whatever
\* the rounding of the span, the gap and the seconds.
OnlyStraysFail ==
    spc = "exception" =>
        orderLog = <<>> \/ \E o \in Orders, s \in Service : orderLog[o].ends[s] \notin Reach

\* The moments of period b, of which the first agap lie before the experiment.
Period(b) == btime + (b - agap) * Resolution .. btime + (b - agap + 1) * Resolution - 1

\* No order ended in s before the experiment, whose first moment is a start or an end in the
\* last service: such an end is counted in a later period, or at the end of the array.
Since(s) == \A o \in Orders : orderLog[o].ends[s] >= btime

\* The two rates count orders where they belong: an order is placed in one period, once for
\* each service, and ends in one period of each service that has none of an earlier end; the
\* orders placed at the very first moment are missing from the input.
RatesCountOrders ==
    /\ \A s \in DOMAIN order_rate, b \in DOMAIN input_rate :
        Since(s) =>
            order_rate[s][b] = Cardinality({o \in Orders : orderLog[o].ends[s] \in Period(b)})
    /\ \A b \in DOMAIN input_rate :
        input_rate[b] = Len(order_rate)
            * Cardinality({o \in Orders : orderLog[o].placed \in Period(b) \ {btime}})

\* No order left s before it left the service before.
InChain(s) == s = 1 \/ \A o \in Orders : orderLog[o].ends[s - 1] <= orderLog[o].ends[s]

\* An order is in service s in the seconds from its start, or from the end of the service
\* before if that is later, to its end in s.
Begins(s, o) == IF s = 1 THEN starttime(o) ELSE Max({starttime(o), endtime(s - 1, o)})
InService(s, j) ==
    {o \in Started : Begins(s, o) \div Second <= j /\ j < endtime(s, o) \div Second}

DemandIsInService(s) ==
    InChain(s) =>
        \A j \in DOMAIN concurrencies[s] :
            concurrencies[s][j] = Cardinality(InService(s, j - Gap))

\* The demand of the first two services is the number of orders they have in service.
FirstDemands == \A s \in DOMAIN concurrencies : s <= 2 => DemandIsInService(s)

\* "concurrencies[s], label= s + ' - Demand'" (plot_live_metrics.py 288): so is that of
\* every service, which the plot compares with what its pods can serve.
DemandOfEveryService == \A s \in DOMAIN concurrencies : DemandIsInService(s)

\* The accumulated tail latency of a period grows along the chain: each service's curve is
\* made of the same orders, in the same periods.
TailGrowsAlongTheChain ==
    \A s \in 2 .. Len(landist) : InChain(s) =>
        \A b \in DOMAIN landist[s] : landist[s - 1][b] <= landist[s][b]

\* The generation rate is that of the client: what it sums to is the last total, however
\* the zeros of the gap and the popped element fall.
GenerationIsComplete ==
    spc \in {"scale", "plotted"} /\ cliLog # <<>> =>
        MapThenSumSet(LAMBDA i : cli_rate[i], DOMAIN cli_rate) = Last(cliLog)

\* A second of the plot shows the pods of the last second with a line, up to it, that lies
\* within the experiment; before the first there are none.
PodsAreTheLastKnown ==
    spc = "plotted" => \A s \in Service, i \in 0 .. ScaleSize + Gap - 1 :
        LET known == {k \in 0 .. i : LinesAt(s, k) # {}}
        IN  total_pods[s][i] = IF known = {} THEN NoPods ELSE Average(LinesAt(s, Max(known)))
================================================================================
