----------------------------- MODULE SplitRoute -----------------------------
(***************************************************************************)
(* The split-route optimizer of packages/router-core: an order is cut into  *)
(* chunks, each chunk goes to the venue with the highest marginal output,   *)
(* then the boundary of every pair of legs is refined by a ternary search.  *)
(*                                                                          *)
(* A curve has the fields available and out, out[x] the output for x > 0    *)
(* units or NoFill (null), which is also what it gives for more than it has *)
(* capacity for.  Venues are positions in the list of curves and the names  *)
(* that break ties sort like positions.                                     *)
(***************************************************************************)
EXTENDS Integers, FiniteSets, Sequences, SequencesExt

CONSTANTS
    Whole,       \* basis points of the whole (10_000 in the code)
    MaxSweeps    \* MAX_REFINE_SWEEPS

ASSUME SplitAssumption == Whole \in Nat \ {0} /\ MaxSweeps \in Nat \ {0}

NoFill == -1
NoVenue == 0

\* The elements of a finite set in a strict order.
InOrder(S, Before(_, _)) ==
    CHOOSE s \in [1..Cardinality(S) -> S] :
        \A i, j \in DOMAIN s : i < j => Before(s[i], s[j])

Out(curve, x) ==
    IF x = 0 THEN 0 ELSE IF x \in DOMAIN curve.out THEN curve.out[x] ELSE NoFill
Usable(curves) == {i \in DOMAIN curves : curves[i].available}

\* A later venue replaces an earlier one only if it is strictly better.
FirstBest(score) ==
    CHOOSE i \in DOMAIN score : \A j \in DOMAIN score :
        score[j] < score[i] \/ (score[j] = score[i] /\ i <= j)

\* The venue with the highest positive output for the whole order.
BestSingle(curves, amount) ==
    LET fills == {i \in Usable(curves) : Out(curves[i], amount) > 0}
    IN  IF fills = {} THEN NoVenue
        ELSE FirstBest([i \in fills |-> Out(curves[i], amount)])

\* The fixture pool of the tests and documents: x * y = k with a fee, which
\* takes no more than its own input reserve.
ConstantProduct(reserve_in, reserve_out, fee, amounts) ==
    [x \in amounts |->
        LET paid == x - (x * fee) \div Whole
            out  == (reserve_out * paid) \div (reserve_in + paid)
        IN  IF paid > reserve_in \/ out >= reserve_out THEN NoFill ELSE out]

-----------------------------------------------------------------------------
(* Phase one: marginal allocation of chunks.                                *)

Opened(at) == {i \in DOMAIN at : at[i] > 0}

\* Equal chunks, the last one takes the remainder.
Chunks(total, granularity) ==
    LET base == total \div granularity
    IN  [i \in 1..granularity |->
            IF i < granularity THEN base ELSE total - (granularity - 1) * base]

\* What each venue that may take the chunk would add.
Gains(curves, at, chunk, max_legs) ==
    [i \in {v \in Usable(curves) :
               /\ at[v] > 0 \/ Cardinality(Opened(at)) < max_legs
               /\ Out(curves[v], at[v] + chunk) # NoFill}
        |-> Out(curves[i], at[i] + chunk) - Out(curves[i], at[i])]

\* An empty chunk is left out; nothing at all if some chunk fits nowhere.
Place(curves, max_legs, at, chunk) ==
    IF at = <<>> \/ chunk = 0 THEN at
    ELSE IF DOMAIN Gains(curves, at, chunk, max_legs) = {} THEN <<>>
    ELSE [at EXCEPT ![FirstBest(Gains(curves, at, chunk, max_legs))] = @ + chunk]

PlaceAll(curves, max_legs, chunks) ==
    FoldLeft(LAMBDA at, c : Place(curves, max_legs, at, c), [i \in DOMAIN curves |-> 0], chunks)
Allocate(curves, amount, opts) ==
    PlaceAll(curves, opts.max_legs, Chunks(amount, opts.granularity))

-----------------------------------------------------------------------------
(* Phase two: the boundary between two legs.                                *)

\* What two legs return when the first takes x of their total; NoFill if
\* either cannot.
Worth(a, b, total, x) ==
    IF x = NoFill \/ Out(a, x) = NoFill \/ Out(b, total - x) = NoFill THEN NoFill
    ELSE Out(a, x) + Out(b, total - x)
Better(a, b, total, x, y) == IF Worth(a, b, total, y) > Worth(a, b, total, x) THEN y ELSE x

\* Wrong on purpose: keeps the worse side.
MutantNarrow(a, b, total, s) ==
    LET third == IF s.hi - s.lo >= 3 THEN (s.hi - s.lo) \div 3 ELSE 1
        m1    == s.lo + third
        m2    == s.hi - third
        up    == Worth(a, b, total, m1) < Worth(a, b, total, m2)
    IN  [lo |-> IF up THEN s.lo ELSE m1, hi |-> IF up THEN m2 ELSE s.hi, done |-> FALSE,
         best |-> Better(a, b, total, Better(a, b, total, s.best, m1), m2)]
\* One step of the search: the interval lo..hi and the best point seen.
Narrow(a, b, total, s) ==
    LET third == IF s.hi - s.lo >= 3 THEN (s.hi - s.lo) \div 3 ELSE 1
        m1    == s.lo + third
        m2    == s.hi - third
        f1    == Worth(a, b, total, m1)
        f2    == Worth(a, b, total, m2)
    IN  [lo   |-> IF f2 # NoFill /\ f1 < f2 THEN m1 ELSE s.lo,
         hi   |-> IF f1 # NoFill /\ f1 >= f2 THEN m2 ELSE s.hi,
         best |-> Better(a, b, total, Better(a, b, total, s.best, m1), m2),
         done |-> f1 = NoFill /\ f2 = NoFill]
\* The best amount for the first leg the search saw, NoFill if it saw none.
BestSeen(a, b, total, s) == Better(a, b, total, Better(a, b, total, s.best, s.lo), s.hi)
Boundary(a, b, total, steps) ==
    LET search[k \in 0..steps] ==
            IF k = 0 THEN [lo |-> 0, hi |-> total, best |-> NoFill, done |-> FALSE]
            ELSE LET s == search[k - 1]
                 IN  IF s.done \/ s.hi - s.lo <= 1 THEN s ELSE Narrow(a, b, total, s)
    IN  BestSeen(a, b, total, search[steps])

\* A pair moves only to a boundary x that returns strictly more.
\* Wrong on purpose: the first leg of the pair is not moved.
MutantMove(curves, s, i, j, x) ==
    LET before == Out(curves[i], s.at[i]) + Out(curves[j], s.at[j])
        after  == Worth(curves[i], curves[j], s.at[i] + s.at[j], x)
    IN  IF after <= before THEN s
        ELSE [at |-> [s.at EXCEPT ![j] = s.at[i] + @ - x], out |-> s.out - before + after]
Move(curves, s, i, j, x) ==
    LET before == Out(curves[i], s.at[i]) + Out(curves[j], s.at[j])
        after  == Worth(curves[i], curves[j], s.at[i] + s.at[j], x)
    IN  IF after <= before THEN s
        ELSE [at  |-> [s.at EXCEPT ![i] = x, ![j] = s.at[i] + @ - x],
              out |-> s.out - before + after]
RefinePair(curves, steps, s, pair) ==
    LET i == pair[1]  j == pair[2]
        total == s.at[i] + s.at[j]
    IN  IF total <= 1 THEN s
        ELSE Move(curves, s, i, j, Boundary(curves[i], curves[j], total, steps))

Pairs(legs) == {p \in legs \X legs : p[1] < p[2]}
PairOrder(legs) ==
    InOrder(Pairs(legs), LAMBDA p, q : p[1] < q[1] \/ (p[1] = q[1] /\ p[2] < q[2]))
RefineAll(curves, steps, s, pairs) ==
    FoldLeft(LAMBDA t, p : RefinePair(curves, steps, t, p), s, pairs)

\* Every pair in order, sweep after sweep; a sweep that improves nothing
\* leaves nothing for the next.
Refine(curves, at, steps) ==
    LET legs == Opened(at)
        sweep[k \in 0..MaxSweeps] ==
            IF k = 0
            THEN [at |-> at, out |-> SumFunction([i \in legs |-> Out(curves[i], at[i])])]
            ELSE RefineAll(curves, steps, sweep[k - 1], PairOrder(legs))
    IN  sweep[MaxSweeps]

-----------------------------------------------------------------------------
(* The result: none, single or split.                                       *)

NoSplit == [kind |-> "none", legs |-> <<>>, out |-> 0, gain |-> 0]
SingleResult(curves, i, amount) ==
    [kind |-> "single", out |-> Out(curves[i], amount), gain |-> 0,
     legs |-> <<[venue |-> i, in |-> amount, share |-> Whole]>>]

\* Legs by size, the last one carries what truncated shares leave.
LegOrder(at) ==
    InOrder(Opened(at), LAMBDA i, j : at[i] > at[j] \/ (at[i] = at[j] /\ i < j))
Share(at, amount, order, k) ==
    LET cut(i) == (at[order[i]] * Whole) \div amount
    IN  IF k = Len(order) THEN Whole - SumFunction([i \in 1..(k - 1) |-> cut(i)]) ELSE cut(k)
SplitResult(at, amount, out, gain) ==
    LET order == LegOrder(at)
    IN  [kind |-> "split", out |-> out, gain |-> gain,
         legs |-> [k \in DOMAIN order |-> [venue |-> order[k], in |-> at[order[k]],
                                           share |-> Share(at, amount, order, k)]]]

\* What is left of an order that cannot be placed chunk by chunk.
Unplaced(curves, amount, best) ==
    IF best = NoVenue THEN NoSplit ELSE SingleResult(curves, best, amount)

\* A split must use two venues and return strictly more than the best one;
\* gain is improvementBps in tenths of a basis point.
Placed(curves, amount, best, refined) ==
    LET whole == Out(curves[best], amount)
    IN  IF best = NoVenue
        THEN IF refined.out <= 0 THEN NoSplit
             ELSE SplitResult(refined.at, amount, refined.out, 0)
        ELSE IF Cardinality(Opened(refined.at)) <= 1 \/ refined.out <= whole
             THEN SingleResult(curves, best, amount)
             ELSE SplitResult(refined.at, amount, refined.out,
                              ((refined.out - whole) * Whole * 10) \div whole)

OptimizeSplit(curves, amount, opts) ==
    LET best == BestSingle(curves, amount)
        at   == Allocate(curves, amount, opts)
    IN  IF at = <<>> \/ amount <= 0 \/ Usable(curves) = {}
        THEN Unplaced(curves, amount, best)
        ELSE Placed(curves, amount, best, Refine(curves, at, opts.steps))
=============================================================================
