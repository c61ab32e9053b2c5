------------------------------ MODULE RulePass ------------------------------
(***************************************************************************)
(* A pass over the rules, run_rules_observed in core/rule.rs, and the      *)
(* passes after it, which start their rules by the times it recorded       *)
(* (cache/rule_timings.rs).  The rules run on the threads of a rayon pool: *)
(* each thread has a stack of what it is executing, since a rule that      *)
(* waits for parallel work of its own leaves its thread free to start      *)
(* another of the pool's jobs on top, and has its own parallel work done   *)
(* by other threads.  What a policy query observes is counted in a         *)
(* variable of the thread that makes it.                                   *)
(*                                                                         *)
(* A diagnostic is named after what caused it; a pass returns a set of     *)
(* them, since dedupe_diagnostics sorts them and drops repetitions.        *)
(***************************************************************************)
EXTENDS Naturals, Sequences, FiniteSets, Functions

CONSTANTS
  N,          \* the number of registered rules
  Ids,        \* rule ids; two rules may have the same
  Threads,    \* the threads of the pool
  Durations,  \* how long a rule may take, in microseconds
  Suites,     \* sets of rules to run, see SuiteOK
  None,       \* no row, no recorded time, no output
  MaxPasses   \* how many passes run, one after the other

Positions == 1..N

Fates ==
  { "meta_panics",  \* rule.meta() panics
    "off",          \* not enabled, or its capabilities or providers are blocked
    "ok",
    "fails" }       \* rule.run() returns an error or panics

\* A suite says of each rule its id, what becomes of it, how many events its queries
\* observe and whether it waits for parallel work of its own.
SuiteOK(s) ==
  /\ s.id \in [Positions -> Ids]
  /\ s.fate \in [Positions -> Fates]
  /\ s.events \in [Positions -> Nat]
  /\ s.waits \subseteq Positions
  /\ s.parallel \in BOOLEAN

ASSUME PassAssumption ==
  /\ N \in Nat
  /\ IsFiniteSet(Threads)
  /\ Durations \subseteq Nat
  /\ \A s \in Suites : SuiteOK(s)
  /\ MaxPasses \in Nat \ {0}

VARIABLES
  suite,    \* the rules, the same in all passes
  passes,   \* passes that have begun
  timings,  \* timings[x]: what the previous pass recorded for id x, None if nothing
  mode,     \* how the rules of this pass are started
  taken,    \* the rules that have been taken up: the first next of the order
  loops,    \* worker loops spawned by run_in_order that no thread has picked up
  stack,    \* stack[t]: the frames of thread t, innermost last
  count,    \* count[t]: OBSERVED_EVENTS of thread t
  slot,     \* slot[i]: the row of rule i, once it is there
  out       \* what the pass returns

vars == <<suite, passes, timings, mode, taken, loops, stack, count, slot, out>>

Modes  == {"sequential", "registration", "longest_first"}

\* A frame is a worker loop or a rule that has observed some of its events.
Loop   == [rule |-> 0, seen |-> 0]
Frames == [rule : Positions \union {0}, seen : Nat]

\* The diagnostics of a rule's row
Diagnostics(i) ==
  CASE suite.fate[i] = "meta_panics" -> {<<"unknown", None, 0>>}
    [] suite.fate[i] = "off"         -> {}
    [] suite.fate[i] = "ok"          -> {<<"report", suite.id[i], i>>}
    [] suite.fate[i] = "fails"       -> {<<"internal", suite.id[i], 0>>}

Causes == {"unknown", "report", "internal"} \X (Ids \union {None}) \X (Positions \union {0})

Row(i, ran, observed, elapsed) ==
  [diagnostics |-> Diagnostics(i), ran |-> ran, observed |-> observed, elapsed |-> elapsed]
Rows == [diagnostics : SUBSET Causes, ran : BOOLEAN, observed : Nat, elapsed : Durations \union {0}]

ASSUME NoneAssumption == None \notin Rows /\ None \notin Nat

Runs(i) == suite.fate[i] \in {"ok", "fails"}

TypeOK ==
  /\ suite \in Suites
  /\ passes \in 1..MaxPasses
  /\ timings \in [Ids -> Durations \union {None}]
  /\ mode \in Modes
  /\ taken \subseteq Positions
  /\ loops \in Nat
  /\ stack \in [Threads -> Seq(Frames)]
  /\ count \in [Threads -> Nat]
  /\ slot \in [Positions -> Rows \union {None}]

-----------------------------------------------------------------------------
(* Starting a pass *)

\* longest_first_order: the recorded time of rule i, None if there is none
Recorded(i, times) == IF suite.fate[i] = "meta_panics" THEN None ELSE times[suite.id[i]]

\* Mutant of Before: rules without a recorded time come last.
BeforeUnrecordedLast(i, j) ==
  LET ri == Recorded(i, timings)
      rj == Recorded(j, timings)
  IN  IF mode # "longest_first" \/ ri = rj THEN i < j ELSE rj = None \/ (ri # None /\ ri > rj)

\* Whether rule i is to be started before rule j: rules without a recorded time come
\* first, then the longest; ties keep registration order.
Before(i, j) ==
  LET ri == Recorded(i, timings)
      rj == Recorded(j, timings)
  IN  IF mode # "longest_first" \/ ri = rj THEN i < j ELSE ri = None \/ (rj # None /\ ri > rj)

Mode(times) ==
  IF ~suite.parallel THEN "sequential"
  ELSE IF \E i \in Positions : Recorded(i, times) # None THEN "longest_first" ELSE "registration"

\* run_in_order spawns at most one worker loop per thread; the loop over a sequential
\* pass is the caller's.
LoopsOf(m) ==
  CASE m = "sequential"    -> 1
    [] m = "registration"  -> 0
    [] m = "longest_first" -> IF Cardinality(Threads) < N THEN Cardinality(Threads) ELSE N

Begin(times) ==
  /\ timings' = times
  /\ mode' = Mode(times)
  /\ loops' = LoopsOf(mode')
  /\ taken' = {}
  /\ slot' = [i \in Positions |-> None]
  /\ out' = None

Init ==
  /\ suite \in Suites
  /\ passes = 1
  /\ timings = [x \in Ids |-> None]
  /\ mode = Mode(timings)
  /\ loops = LoopsOf(mode)
  /\ taken = {}
  /\ stack = [t \in Threads |-> <<>>]
  /\ count = [t \in Threads |-> 0]
  /\ slot = [i \in Positions |-> None]
  /\ out = None

-----------------------------------------------------------------------------
(* Running the rules *)

Top(t)  == stack[t][Len(stack[t])]
Busy(t) == stack[t] # <<>>
Push(t, frame) == stack' = [stack EXCEPT ![t] = Append(@, frame)]
Pop(t)  == stack' = [stack EXCEPT ![t] = SubSeq(@, 1, Len(@) - 1)]

\* A thread looks for a job when it has none, or when the rule it runs waits for
\* parallel work; the thread of a sequential pass is not one of the pool.
Free(t) == Busy(t) => mode # "sequential" /\ Top(t).rule \in suite.waits

\* Mutant of Take: the counter is not reset before the rule runs.
TakeNoReset(t, i) ==
  /\ i \notin taken
  /\ taken' = taken \union {i}
  /\ IF Runs(i)
     THEN Push(t, [rule |-> i, seen |-> 0]) /\ UNCHANGED slot
     ELSE slot' = [slot EXCEPT ![i] = Row(i, FALSE, 0, 0)] /\ UNCHANGED stack
  /\ UNCHANGED <<suite, passes, timings, mode, loops, out, count>>

\* run_one up to the rule's own code: a rule that does not run has its row at once,
\* for the others the counter is reset.
Take(t, i) ==
  /\ i \notin taken
  /\ taken' = taken \union {i}
  /\ IF Runs(i)
     THEN /\ Push(t, [rule |-> i, seen |-> 0])
          /\ count' = [count EXCEPT ![t] = 0]
          /\ UNCHANGED slot
     ELSE /\ slot' = [slot EXCEPT ![i] = Row(i, FALSE, 0, 0)]
          /\ UNCHANGED <<stack, count>>
  /\ UNCHANGED <<suite, passes, timings, mode, loops, out>>

\* rules.par_iter(): any thread may get hold of any rule.
Steal(t) ==
  /\ mode = "registration" /\ Free(t)
  /\ \E i \in Positions : Take(t, i)

\* Mutant of StartLoop: every free thread starts a loop.
StartLoopUncounted(t) ==
  /\ mode # "registration" /\ Free(t)
  /\ loops' = loops - 1
  /\ Push(t, Loop)
  /\ UNCHANGED <<suite, passes, timings, mode, taken, count, slot, out>>

\* run_in_order: a thread picks up one of the spawned loops ...
StartLoop(t) ==
  /\ loops > 0 /\ Free(t)
  /\ loops' = loops - 1
  /\ Push(t, Loop)
  /\ UNCHANGED <<suite, passes, timings, mode, taken, count, slot, out>>

\* Mutant of TakeNext: the place in the order is read before it is advanced, so that
\* a loop may take a rule that another has just taken.
TakeNextTwice(t) ==
  /\ Busy(t) /\ Top(t) = Loop
  /\ \/ \E i \in Positions \ taken :
          /\ \A j \in Positions \ taken : ~Before(j, i)
          /\ Take(t, i)
     \/ \E u \in Threads \ {t} :
          /\ Busy(u) /\ Top(u) # Loop /\ Top(u).seen = 0
          /\ Push(t, Top(u))
          /\ count' = [count EXCEPT ![t] = 0]
          /\ UNCHANGED <<suite, passes, timings, mode, taken, loops, slot, out>>

\* ... which takes the next rule of the order, again and again ...
TakeNext(t) ==
  /\ Busy(t) /\ Top(t) = Loop
  /\ \E i \in Positions \ taken :
       /\ \A j \in Positions \ taken : ~Before(j, i)
       /\ Take(t, i)

\* Mutant of LoopEnds: a loop stays until every row is there.
LoopEndsLate(t) ==
  /\ Busy(t) /\ Top(t) = Loop
  /\ \A i \in Positions : slot[i] # None
  /\ Pop(t)
  /\ UNCHANGED <<suite, passes, timings, mode, taken, loops, count, slot, out>>

\* ... until there is none.
LoopEnds(t) ==
  /\ Busy(t) /\ Top(t) = Loop
  /\ taken = Positions
  /\ Pop(t)
  /\ UNCHANGED <<suite, passes, timings, mode, taken, loops, count, slot, out>>

\* Whether a query of the rule in frame k of thread u may run on thread t: on the
\* rule's own thread while the rule is innermost there, or, for the parallel work the
\* rule waits for, on any thread that is free to take up a job of the pool.
MayQuery(t, u, k) ==
  \/ t = u /\ k = Len(stack[u])
  \/ stack[u][k].rule \in suite.waits /\ Free(t)

\* observe_events: a query examines an event, which is counted on the thread it runs on.
Observe(t) ==
  /\ \E u \in Threads : \E k \in 1..Len(stack[u]) :
       /\ stack[u][k] # Loop /\ MayQuery(t, u, k)
       /\ stack[u][k].seen < suite.events[stack[u][k].rule]
       /\ stack' = [stack EXCEPT ![u][k] = [rule |-> @.rule, seen |-> @.seen + 1]]
  /\ count' = [count EXCEPT ![t] = @ + 1]
  /\ UNCHANGED <<suite, passes, timings, mode, taken, loops, slot, out>>

\* Mutant of Return: the counter is read and not reset.
ReturnReadsOnly(t) ==
  /\ Busy(t) /\ Top(t) # Loop
  /\ Top(t).seen = suite.events[Top(t).rule]
  /\ \E elapsed \in Durations :
       slot' = [slot EXCEPT ![Top(t).rule] = Row(Top(t).rule, TRUE, count[t], elapsed)]
  /\ Pop(t)
  /\ UNCHANGED <<suite, passes, timings, mode, taken, loops, out, count>>

\* The rule returns or panics: take_observed_events, and the row goes to its slot.
Return(t) ==
  /\ Busy(t) /\ Top(t) # Loop
  /\ Top(t).seen = suite.events[Top(t).rule]
  /\ \E elapsed \in Durations :
       slot' = [slot EXCEPT ![Top(t).rule] = Row(Top(t).rule, TRUE, count[t], elapsed)]
  /\ count' = [count EXCEPT ![t] = 0]
  /\ Pop(t)
  /\ UNCHANGED <<suite, passes, timings, mode, taken, loops, out>>

-----------------------------------------------------------------------------
(* Ending a pass *)

\* The rules of id x that ran
Ran(x) == {i \in Positions : suite.id[i] = x /\ slot[i].ran}

\* The sum of what is counted for several rules
Total(counts) == FoldFunction(+, 0, counts)

\* The longest of the times of several rules, None if there are none
Longest(time, times) ==
  IF times = {} THEN time = None
  ELSE time \in times /\ \A other \in times : other <= time

\* Mutant of Merge: of two rules with one id, the later replaces the count.
MergeReplaces ==
  /\ out = None
  /\ taken = Positions /\ loops = 0
  /\ \A t \in Threads : ~Busy(t)
  /\ out' = [diagnostics |-> UNION {slot[i].diagnostics : i \in Positions},
             observed    |-> [x \in Ids |->
               Total([i \in {j \in Ran(x) : \A k \in Ran(x) : k <= j} |-> slot[i].observed])],
             timings     |-> [x \in Ids |-> None]]
  /\ UNCHANGED <<suite, passes, timings, mode, taken, loops, stack, count, slot>>

\* The scope is left when every job has ended; the rows are merged.
Merge ==
  /\ out = None
  /\ taken = Positions /\ loops = 0
  /\ \A t \in Threads : ~Busy(t)
  /\ \E times \in [Ids -> Durations \union {None}] :
       /\ \A x \in Ids : Longest(times[x], {slot[i].elapsed : i \in Ran(x)})
       /\ out' = [diagnostics |-> UNION {slot[i].diagnostics : i \in Positions},
                  observed    |-> [x \in Ids |-> Total([i \in Ran(x) |-> slot[i].observed])],
                  timings     |-> times]
  /\ UNCHANGED <<suite, passes, timings, mode, taken, loops, stack, count, slot>>

\* The next pass of the same plan reads what write_rule_timings left, which is the
\* older entry if no rule ran or the write failed, or finds nothing it can read.
Again ==
  /\ out # None /\ passes < MaxPasses
  /\ passes' = passes + 1
  /\ \/ Begin(out.timings)
     \/ Begin(timings)
     \/ Begin([x \in Ids |-> None])
  /\ UNCHANGED <<suite, stack, count>>

Work(t) == Steal(t) \/ StartLoop(t) \/ TakeNext(t) \/ LoopEnds(t) \/ Observe(t) \/ Return(t)

Next == (\E t \in Threads : Work(t)) \/ Merge \/ Again

Spec == Init /\ [][Next]_vars

FairSpec == Spec /\ WF_vars(Merge) /\ \A t \in Threads : WF_vars(Work(t))

-----------------------------------------------------------------------------
(* Properties *)

\* However the threads share the rules, each is run once: a rule that has been taken
\* up is in one frame of one thread or has its row, never both, and a rule that has
\* not is nowhere.  A row lost or written twice would drop or mix up diagnostics.
RunsOnce ==
  \A i \in Positions :
    /\ i \in taken <=> \/ slot[i] # None
                      \/ \E t \in Threads : \E k \in 1..Len(stack[t]) : stack[t][k].rule = i
    /\ \A t, u \in Threads : \A k \in 1..Len(stack[t]), l \in 1..Len(stack[u]) :
         stack[t][k].rule = i /\ stack[u][l].rule = i => t = u /\ k = l /\ slot[i] = None

\* What a pass returns is what a sequential pass returns, for every schedule and every
\* recorded time: the diagnostics of every rule, a failing one reported and the
\* others not disturbed, and, unless rules wait, the sums of what they observed.
SameAsSequential ==
  out # None =>
    /\ out.diagnostics = UNION {Diagnostics(i) : i \in Positions}
    /\ suite.waits = {} =>
         out.observed = [x \in Ids |->
           Total([i \in {j \in Positions : suite.id[j] = x /\ Runs(j)} |-> suite.events[i]])]

\* In a timed pass a rule that had a longer time, or none, never starts after one that
\* had a shorter time.
LongestFirst ==
  [][ mode = "longest_first" =>
        \A i \in taken' \ taken, j \in Positions \ taken' :
          LET recorded == {k \in {i, j} : Recorded(k, timings) # None}
          IN  i \in recorded => j \in recorded /\ Recorded(j, timings) <= Recorded(i, timings) ]_vars

\* No event is counted twice, for whichever rule it is counted: with rules that wait,
\* counts may be lost, and those of the parallel work of one end up in another's row,
\* but the rows never have more of them than the rules that were taken up observe.
CountsConserved ==
  Total([i \in {j \in Positions : slot[j] # None} |-> slot[i].observed])
    <= Total([i \in {j \in taken : Runs(j)} |-> suite.events[i]])

\* The count of a rule that waits for parallel work is open: others that run on its
\* thread in the meantime reset the counter, and its own work and that of other such
\* rules is counted wherever a thread was free.  It is left out of the row here.
Shown(i) ==
  IF slot[i] # None /\ i \in suite.waits THEN [slot[i] EXCEPT !.observed = 0] ELSE slot[i]

\* The rows that rule i may get, so shown
RowsOf(i) ==
  IF Runs(i)
  THEN {Row(i, TRUE, IF i \in suite.waits THEN 0 ELSE suite.events[i], elapsed) : elapsed \in Durations}
  ELSE {Row(i, FALSE, 0, 0)}

Atomic == INSTANCE AtomicPass WITH
  Rules  <- Positions,
  may    <- [i \in Positions |-> RowsOf(i)],
  row    <- [i \in Positions |-> Shown(i)],
  result <- IF out = None THEN {} ELSE {out.diagnostics}

\* The pool is as good as running the rules one after the other: threads, nested jobs,
\* shared counters and worker loops come down to one moment at which a rule runs, and
\* its row is written once and never changed.  The row of a rule that does not wait has
\* the count of its own queries, whatever the rules that wait do on the same threads.
RulesRunAtomically == Atomic!Spec

\* Every pass comes to an end, whichever rules wait for parallel work or fail.
PassEnds == []<>(out # None)

=============================================================================
