----------------------------- MODULE TraceViews -----------------------------
(***************************************************************************)
(* What is shown of stored traces: the tree of a trace's spans             *)
(* (buildSpanTree in mastra/trace-parser.ts, which no route calls: the     *)
(* console's trace page draws a flat list of its own) and the percentiles  *)
(* of a workflow step with the verdict that it is slow                     *)
(* (mastra/latency-analyzer.ts).  Spans are stored as their batches come:  *)
(* in any order, a child before its parent, some never, and those of a     *)
(* batch that was sent again twice.  A behaviour watches one of the two,   *)
(* `view`.                                                                 *)
(*                                                                         *)
(* The durations of a step are one of three, quick, middling and slow; of  *)
(* each only the number of runs is kept, as the analyzer sorts them first. *)
(***************************************************************************)
EXTENDS Integers, FiniteSets, Sequences, Functions

CONSTANTS SpanIds,     \* the spans of a trace
          NoSpan,      \* the parent of a root
          MaxStored,   \* bound: rows stored for the trace
          MaxQuick,    \* bound: quick runs of the step
          MaxOthers    \* bound: middling runs, and slow ones

ASSUME TraceAssumption ==
    /\ IsFiniteSet(SpanIds) /\ NoSpan \notin SpanIds
    /\ MaxStored \in Nat /\ MaxQuick \in Nat /\ MaxOthers \in Nat

VARIABLES
    view,     \* "tree" or "latency"
    parentOf, \* the parent of each span
    startOf,  \* its start
    spans,    \* the spans, in the order they were stored
    runs      \* how many runs of the step took how long

viewsVars == <<view, parentOf, startOf, spans, runs>>

Durations == {1, 2, 5}
\* Only the order of the starts matters: all orders of the spans, and all ties.
Starts == 1..Cardinality(SpanIds)
MaxRuns(d) == IF d = 1 THEN MaxQuick ELSE MaxOthers

\* A client's spans form a forest: a parent is opened before its children.
Forests ==
    {p \in [SpanIds -> SpanIds \cup {NoSpan}] :
        \E opened \in [SpanIds -> 1..Cardinality(SpanIds)] :
           \A s \in SpanIds : p[s] # NoSpan => opened[p[s]] < opened[s]}

ViewsInit ==
    /\ view \in {"tree", "latency"} /\ parentOf \in Forests /\ startOf \in [SpanIds -> Starts]
    /\ view = "latency" => parentOf = [s \in SpanIds |-> NoSpan] /\ startOf = [s \in SpanIds |-> 1]
    /\ spans = <<>> /\ runs = [d \in Durations |-> 0]

StoreSpan(s) ==
    /\ view = "tree" /\ Len(spans) < MaxStored
    /\ spans' = Append(spans, s)
    /\ UNCHANGED <<view, parentOf, startOf, runs>>
StoreRun(d) ==
    /\ view = "latency" /\ runs[d] < MaxRuns(d)
    /\ runs' = [runs EXCEPT ![d] = @ + 1]
    /\ UNCHANGED <<view, parentOf, startOf, spans>>

ViewsNext == (\E s \in SpanIds : StoreSpan(s)) \/ (\E d \in Durations : StoreRun(d))

ViewsSpec == ViewsInit /\ [][ViewsNext]_viewsVars
-----------------------------------------------------------------------------
StoredIn(list) == {list[i] : i \in DOMAIN list}

\* sortLevel's order: by start, and as they came among equals.
Before(list, i, j) ==
    \/ startOf[list[i]] < startOf[list[j]]
    \/ startOf[list[i]] = startOf[list[j]] /\ i < j

\* A sorted level of the tree: the k-th has k - 1 before it.
Level(list, chosen) ==
    [k \in 1..Cardinality(chosen) |->
        list[CHOOSE i \in chosen : Cardinality({j \in chosen : Before(list, j, i)}) = k - 1]]

\* A span whose parent is not there is a root, too.
Roots(list) == Level(list, {i \in DOMAIN list : parentOf[list[i]] \notin StoredIn(list)})
Children(list, s) == Level(list, {i \in DOMAIN list : parentOf[list[i]] = s})

\* The roots, and the children of each node; rows of one span share a node.
BuildSpanTree(list) ==
    [roots |-> Roots(list), children |-> [s \in StoredIn(list) |-> Children(list, s)]]

Total == runs[1] + runs[2] + runs[5]
Sorted == [i \in 1..Total |-> IF i <= runs[1] THEN 1 ELSE IF i <= runs[1] + runs[2] THEN 2 ELSE 5]
\* Math.ceil of a quotient
Ceil(a, b) == (a + b - 1) \div b
\* Defect: rounded down, which takes the next run where so many percent come out even.
PercentileDown(p) == IF Total = 0 THEN 0 ELSE Sorted[(p * Total) \div 100 + 1]
\* calcPercentiles, whose indexes start at 0
Percentile(p) == IF Total = 0 THEN 0 ELSE Sorted[Ceil(p * Total, 100)]
SlowStep == Percentile(50) > 0 /\ Percentile(99) > 2 * Percentile(50)
-----------------------------------------------------------------------------
ViewsTypeOK ==
    /\ parentOf \in [SpanIds -> SpanIds \cup {NoSpan}] /\ startOf \in [SpanIds -> Starts]
    /\ spans \in Seq(SpanIds) /\ \A d \in Durations : runs[d] \in 0..MaxRuns(d)

Once == \A i, j \in DOMAIN spans : spans[i] = spans[j] => i = j
Levels(tree) == {tree.roots} \cup {tree.children[s] : s \in DOMAIN tree.children}
Runs(longest) == Cardinality({i \in DOMAIN Sorted : Sorted[i] <= longest})

\* Whatever came in whatever order, and however often: every stored span is in the
\* tree, below its parent if that is stored, too, and can be reached from the roots;
\* each level goes by start; if none was stored twice each is there once, and the order
\* of arrival shows only among spans that started together (buildSpanTree).
TreeTrue ==
    LET tree == BuildSpanTree(spans)
        stored == StoredIn(spans)
    IN
    /\ StoredIn(tree.roots) = {s \in stored : parentOf[s] \notin stored}
    /\ \A s \in stored : StoredIn(tree.children[s]) = {t \in stored : parentOf[t] = s}
    /\ \A seen \in SUBSET stored :
          /\ StoredIn(tree.roots) \subseteq seen
          /\ \A s \in seen : StoredIn(tree.children[s]) \subseteq seen
          => seen = stored
    /\ \A level \in Levels(tree) :
          /\ \A k, l \in DOMAIN level : k < l => startOf[level[k]] <= startOf[level[l]]
          /\ Once => \A k, l \in DOMAIN level : level[k] = level[l] => k = l
    /\ Once /\ (\A s, t \in stored : startOf[s] = startOf[t] => s = t) =>
          \A other \in Bijection(DOMAIN spans, stored) : BuildSpanTree(other) = tree

\* A percentile is a duration so many percent of the runs kept to and fewer stayed
\* below, and a step is slow if more than one run in a hundred took more than double
\* the median (calcPercentiles, slowSteps).
PercentilesTrue ==
    Total > 0 =>
        /\ \A p \in {50, 95, 99} :
              /\ 100 * Runs(Percentile(p)) >= p * Total
              /\ 100 * Runs(Percentile(p) - 1) < p * Total
        /\ SlowStep <=> 100 * (Total - Runs(2 * Percentile(50))) > Total

\* What is shown of a trace is what was stored of it.
ViewsTrue == TreeTrue /\ PercentilesTrue
=============================================================================
