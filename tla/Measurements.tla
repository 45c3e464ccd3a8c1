---------------------------- MODULE Measurements ----------------------------
(***************************************************************************)
(* What a pool measures of its workers (src/pools/utils.ts, src/utils.ts): *)
(* the statistics of the run time of tasks.  Times are whole numbers, and  *)
(* averages and medians of them are rounded down where the code divides.   *)
(* The history holds times rounded to single precision, the least and the  *)
(* greatest time are those measured.                                       *)
(***************************************************************************)
EXTENDS CircularBuffer, SequencesExt

Undefined == -1          \* of a statistic
Infinity  == 1000000000  \* Number.POSITIVE_INFINITY

Measure == Nat \union {Undefined}

Statistics == [aggregate : Measure, minimum : Measure, maximum : Measure,
               average : Measure, median : Measure, history : Buffer]

NoStatistics == [aggregate |-> Undefined, minimum |-> Undefined,
                 maximum |-> Undefined, average |-> Undefined,
                 median |-> Undefined, history |-> EmptyBuffer]

OrElse(statistic, default) == IF statistic = Undefined THEN default ELSE statistic

(* A number plus Infinity is Infinity *)
Plus(a, b) == IF Infinity \in {a, b} THEN Infinity ELSE a + b

Minimum(numbers) == IF numbers = {} THEN Infinity
                    ELSE CHOOSE n \in numbers : \A m \in numbers : n <= m

Average(dataSet) ==
    LET sum[n \in 0..Len(dataSet)] == IF n = 0 THEN 0 ELSE sum[n - 1] + dataSet[n]
    IN  IF dataSet = <<>> THEN 0 ELSE sum[Len(dataSet)] \div Len(dataSet)

(* The number at a position of the data set when it is sorted *)
Ranked(dataSet, rank) ==
    CHOOSE n \in Range(dataSet) :
        /\ Cardinality({i \in DOMAIN dataSet : dataSet[i] < n}) < rank
        /\ Cardinality({i \in DOMAIN dataSet : dataSet[i] <= n}) >= rank

Median(dataSet) ==
    IF dataSet = <<>> THEN 0
    ELSE (Ranked(dataSet, (Len(dataSet) + 1) \div 2)
          + Ranked(dataSet, Len(dataSet) \div 2 + 1)) \div 2

(* updateMeasurementStatistics.  No history is kept without a moving       *)
(* average or median to compute from it.                                   *)
Measured(statistics, required, value) ==
    IF ~required.aggregate THEN statistics
    ELSE LET moving == required.average \/ required.median
             history == IF moving THEN Put(statistics.history, value)
                        ELSE statistics.history
         IN  [aggregate |-> Plus(OrElse(statistics.aggregate, 0), value),
              minimum |-> Minimum({value, OrElse(statistics.minimum, value)}),
              maximum |-> IF value > statistics.maximum THEN value
                          ELSE statistics.maximum,
              average |-> IF required.average THEN Average(ToArray(history))
                          ELSE IF moving THEN Undefined ELSE statistics.average,
              median |-> IF required.median THEN Median(ToArray(history))
                         ELSE IF moving THEN Undefined ELSE statistics.median,
              history |-> history]

(* initWorkerNodeUsage: a new node, already in the pool, starts with the   *)
(* lowest aggregate; one that is undefined counts as infinite.             *)
Initialized(statistics, required, aggregates) ==
    IF required.aggregate
    THEN [statistics EXCEPT !.aggregate =
              Minimum({OrElse(a, Infinity) : a \in aggregates})]
    ELSE statistics
=============================================================================
