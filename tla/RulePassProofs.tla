--------------------------- MODULE RulePassProofs ---------------------------
(***************************************************************************)
(* What RulePass guarantees for any number of rules, threads and passes:   *)
(* its types, that each rule runs once, that counts stay with the rule     *)
(* that observed, that a pass returns what a sequential one would, that it *)
(* is never stuck, and that it implements AtomicPass.                      *)
(***************************************************************************)
EXTENDS RulePass, FiniteOrders, SequenceTheorems, TLAPS

-----------------------------------------------------------------------------
(* Stacks *)

LEMMA PushStack ==
  ASSUME NEW s \in Seq(Frames), NEW f \in Frames
  PROVE  /\ Append(s, f) \in Seq(Frames)
         /\ Len(Append(s, f)) = Len(s) + 1
         /\ \A k \in 1..Len(s) : Append(s, f)[k] = s[k]
         /\ Append(s, f)[Len(s) + 1] = f
OBVIOUS

LEMMA PopStack ==
  ASSUME NEW s \in Seq(Frames), s # <<>>
  PROVE  /\ SubSeq(s, 1, Len(s) - 1) \in Seq(Frames)
         /\ Len(SubSeq(s, 1, Len(s) - 1)) = Len(s) - 1
         /\ \A k \in 1..Len(s) - 1 : SubSeq(s, 1, Len(s) - 1)[k] = s[k]
<1>1. Len(s) \in Nat /\ Len(s) >= 1
  OBVIOUS
<1>2. \A k \in 1..Len(s) - 1 : s[k] \in Frames
  BY <1>1
<1> DEFINE n == Len(s) - 1
<1>3. n \in Nat /\ 1 \in Int /\ n \in Int
  BY <1>1
<1>4. /\ SubSeq(s, 1, n) \in Seq(Frames)
      /\ Len(SubSeq(s, 1, n)) = IF 1 <= n THEN n - 1 + 1 ELSE 0
      /\ \A k \in 1..n - 1 + 1 : SubSeq(s, 1, n)[k] = s[1 + k - 1]
  <2> HIDE DEF n
  <2>1. \A k \in 1..n : s[k] \in Frames
    BY <1>2 DEF n
  <2> QED
    BY <1>3, <2>1, SubSeqProperties
<1> HIDE DEF n
<1>5. Len(SubSeq(s, 1, n)) = n /\ \A k \in 1..n : SubSeq(s, 1, n)[k] = s[k]
  BY <1>3, <1>4
<1> QED
  BY <1>4, <1>5 DEF n

LEMMA TopFrame ==
  ASSUME NEW s \in Seq(Frames), s # <<>>
  PROVE  /\ Len(s) \in 1..Len(s) /\ Len(s) \in Nat /\ Len(s) >= 1
         /\ s[Len(s)] \in Frames
OBVIOUS

\* A frame observes an event.
LEMMA BumpStack ==
  ASSUME NEW s \in Seq(Frames), NEW k \in 1..Len(s),
         NEW f, f = [rule |-> s[k].rule, seen |-> s[k].seen + 1],
         NEW r, r = [s EXCEPT ![k] = f]
  PROVE  /\ f \in Frames
         /\ r \in Seq(Frames)
         /\ Len(r) = Len(s)
         /\ \A l \in 1..Len(s) : r[l] = IF l = k THEN f ELSE s[l]
<1>1. f \in Frames
  <2>1. s[k] \in Frames
    OBVIOUS
  <2>2. s[k].rule \in Positions \union {0} /\ s[k].seen \in Nat
    BY <2>1 DEF Frames
  <2> QED
    BY <2>2 DEF Frames
<1> QED
  BY <1>1, ExceptSeq

LEMMA LoopFrame == Loop \in Frames
BY DEF Loop, Frames

LEMMA RuleFrame == ASSUME NEW i \in Positions PROVE [rule |-> i, seen |-> 0] \in Frames
BY DEF Frames

LEMMA SuiteFields ==
  ASSUME TypeOK
  PROVE  /\ suite.id \in [Positions -> Ids]
         /\ suite.fate \in [Positions -> Fates]
         /\ suite.events \in [Positions -> Nat]
         /\ suite.waits \subseteq Positions
         /\ 0 \notin Positions
BY PassAssumption DEF TypeOK, SuiteOK, Positions

LEMMA RowType ==
  ASSUME TypeOK, NEW i \in Positions, NEW ran \in BOOLEAN, NEW n \in Nat,
         NEW e \in Durations \union {0}
  PROVE  Row(i, ran, n, e) \in Rows /\ Row(i, ran, n, e) # None
<1>1. suite.id[i] \in Ids /\ suite.fate[i] \in Fates
  BY SuiteFields
<1>2. Diagnostics(i) \in SUBSET Causes
  BY <1>1 DEF Diagnostics, Causes, Fates
<1>3. Row(i, ran, n, e) \in Rows
  BY <1>2 DEF Row, Rows
<1> QED
  BY <1>3, NoneAssumption

LEMMA LoopsType == ASSUME NEW m \in Modes PROVE LoopsOf(m) \in Nat
<1>1. Cardinality(Threads) \in Nat
  BY PassAssumption, FS_CardinalityType
<1> QED
  BY <1>1, PassAssumption DEF LoopsOf, Modes

LEMMA ModeType == ASSUME NEW times PROVE Mode(times) \in Modes
BY DEF Mode, Modes

-----------------------------------------------------------------------------
(* The inductive invariant *)

\* A frame that is not a loop is a rule that has been taken up and has no row.
FrameOK(f, begun, rows, s) ==
  /\ f.rule = 0 => f = Loop
  /\ f.rule # 0 => /\ f.rule \in begun /\ rows[f.rule] = None
                   /\ s.fate[f.rule] \in {"ok", "fails"}
                   /\ f.seen <= s.events[f.rule]

\* Only a rule that waits, or a loop, has other frames above it.
StackInv ==
  \A t \in Threads : \A k \in 1..Len(stack[t]) :
    /\ FrameOK(stack[t][k], taken, slot, suite)
    /\ k # Len(stack[t]) => stack[t][k].rule \in suite.waits \union {0}

\* No rule is in two frames.
UniqueInv ==
  \A t, u \in Threads : \A k \in 1..Len(stack[t]), l \in 1..Len(stack[u]) :
    stack[t][k].rule = stack[u][l].rule /\ stack[t][k].rule # 0 => t = u /\ k = l

\* A rule that was taken up has its row or is in a frame.
HeldInv ==
  \A i \in taken : slot[i] # None \/ \E t \in Threads : \E k \in 1..Len(stack[t]) : stack[t][k].rule = i

\* While a rule that does not wait has a frame, the counter of its thread has what the
\* rule has seen and nothing else.
CountInv ==
  \A t \in Threads : \A k \in 1..Len(stack[t]) :
    stack[t][k].rule \notin suite.waits \union {0} => count[t] = stack[t][k].seen

\* A row is that of its rule.
SlotInv ==
  \A i \in Positions :
    slot[i] # None =>
      /\ i \in taken
      /\ slot[i].diagnostics = Diagnostics(i)
      /\ slot[i].ran <=> Runs(i)
      /\ slot[i].ran /\ i \notin suite.waits => slot[i].observed = suite.events[i]
      /\ slot[i].ran => slot[i].elapsed \in Durations

\* A pass that has returned has nothing left to do.
OutInv ==
  out # None =>
    /\ loops = 0 /\ taken = Positions
    /\ \A t \in Threads : stack[t] = <<>>
    /\ out.timings \in [Ids -> Durations \union {None}]
    /\ SameAsSequential

PassInv == TypeOK /\ StackInv /\ UniqueInv /\ HeldInv /\ CountInv /\ SlotInv /\ OutInv

LEMMA InitInv == Init => PassInv
<1> SUFFICES ASSUME Init PROVE PassInv
  OBVIOUS
<1> USE DEF Init
<1>1. mode \in Modes /\ loops \in Nat
  BY ModeType, LoopsType
<1>2. \A t \in Threads : stack[t] = <<>> /\ Len(stack[t]) = 0
  OBVIOUS
<1>3. stack \in [Threads -> Seq(Frames)]
  OBVIOUS
<1>4. passes \in 1..MaxPasses
  BY PassAssumption
<1> QED
  BY <1>1, <1>2, <1>3, <1>4 DEF PassInv, TypeOK, StackInv, UniqueInv, HeldInv, CountInv, SlotInv, OutInv

\* A thread puts a frame on its stack: it has none, a loop, or a rule that waits below.
LEMMA PushInv ==
  ASSUME PassInv, NEW t \in Threads, NEW f \in Frames,
         Busy(t) => Top(t).rule \in suite.waits \union {0},
         Push(t, f)
  PROVE  /\ stack' \in [Threads -> Seq(Frames)]
         /\ Len(stack'[t]) = Len(stack[t]) + 1
         /\ Len(stack[t]) \in Nat
         /\ stack'[t][Len(stack[t]) + 1] = f
         /\ \A k \in 1..Len(stack[t]) :
              /\ stack'[t][k] = stack[t][k]
              /\ stack[t][k].rule # 0 => stack[t][k].rule \in suite.waits
         /\ \A u \in Threads \ {t} : stack'[u] = stack[u]
<1>1. stack[t] \in Seq(Frames) /\ Len(stack[t]) \in Nat
  BY DEF PassInv, TypeOK
<1>2. stack' = [stack EXCEPT ![t] = Append(stack[t], f)]
  BY DEF Push
<1>3. stack'[t] = Append(stack[t], f) /\ \A u \in Threads \ {t} : stack'[u] = stack[u]
  BY <1>2 DEF PassInv, TypeOK
<1>4. stack' \in [Threads -> Seq(Frames)]
  BY <1>1, <1>2, PushStack DEF PassInv, TypeOK
<1>5. ASSUME NEW k \in 1..Len(stack[t]), stack[t][k].rule # 0
      PROVE  stack[t][k].rule \in suite.waits
  <2>1. CASE k # Len(stack[t])
    BY <1>5, <2>1 DEF PassInv, StackInv
  <2>2. CASE k = Len(stack[t])
    <3>1. Busy(t)
      BY <1>1, <2>2 DEF Busy
    <3> QED
      BY <1>5, <2>2, <3>1 DEF Top
  <2> QED
    BY <2>1, <2>2
<1> QED
  BY <1>1, <1>3, <1>4, <1>5, PushStack

\* A thread takes its innermost frame off its stack.
LEMMA PopInv ==
  ASSUME PassInv, NEW t \in Threads, Busy(t), Pop(t)
  PROVE  /\ stack' \in [Threads -> Seq(Frames)]
         /\ Len(stack'[t]) = Len(stack[t]) - 1
         /\ Len(stack[t]) \in Nat /\ Len(stack[t]) >= 1
         /\ \A k \in 1..Len(stack[t]) - 1 : stack'[t][k] = stack[t][k]
         /\ \A u \in Threads \ {t} : stack'[u] = stack[u]
<1>1. stack[t] \in Seq(Frames) /\ stack[t] # <<>>
  BY DEF PassInv, TypeOK, Busy
<1>2. stack' = [stack EXCEPT ![t] = SubSeq(stack[t], 1, Len(stack[t]) - 1)]
  BY DEF Pop
<1>3. /\ stack'[t] = SubSeq(stack[t], 1, Len(stack[t]) - 1)
      /\ \A u \in Threads \ {t} : stack'[u] = stack[u]
  BY <1>2 DEF PassInv, TypeOK
<1>4. stack' \in [Threads -> Seq(Frames)]
  BY <1>1, <1>2, PopStack DEF PassInv, TypeOK
<1> QED
  BY <1>1, <1>3, <1>4, PopStack, TopFrame

-----------------------------------------------------------------------------
(* The steps *)

\* A rule that runs is taken up.
LEMMA TakeRuns ==
  ASSUME PassInv, NEW t \in Threads, NEW i \in Positions,
         Busy(t) => Top(t).rule \in suite.waits \union {0},
         Take(t, i), Runs(i)
  PROVE  PassInv'
<1> DEFINE f == [rule |-> i, seen |-> 0]
           n == Len(stack[t])
<1>1. f \in Frames /\ f.rule = i /\ f.seen = 0
  BY RuleFrame
<1>2. /\ i \notin taken /\ taken' = taken \union {i}
      /\ Push(t, f) /\ count' = [count EXCEPT ![t] = 0] /\ slot' = slot
      /\ UNCHANGED <<suite, passes, timings, mode, loops, out>>
  BY DEF Take
<1> HIDE DEF f
<1>3. /\ stack' \in [Threads -> Seq(Frames)]
      /\ Len(stack'[t]) = n + 1 /\ n \in Nat
      /\ stack'[t][n + 1] = f
      /\ \A k \in 1..n : stack'[t][k] = stack[t][k] /\ (stack[t][k].rule # 0 => stack[t][k].rule \in suite.waits)
      /\ \A u \in Threads \ {t} : stack'[u] = stack[u]
  BY <1>1, <1>2, PushInv
<1> HIDE DEF n
<1>4. i # 0 /\ suite.events[i] \in Nat /\ suite' = suite
  BY <1>2, SuiteFields DEF PassInv
<1>5. count'[t] = 0 /\ \A u \in Threads \ {t} : count'[u] = count[u]
  BY <1>2 DEF PassInv, TypeOK
<1>6. slot[i] = None
  BY <1>2 DEF PassInv, SlotInv
<1>7. TypeOK'
  BY <1>2, <1>3, <1>5 DEF PassInv, TypeOK
<1>8. \A u \in Threads : \A k \in 1..Len(stack[u]) : stack[u][k].rule # i
  BY <1>2, <1>4 DEF PassInv, StackInv, FrameOK
<1>9. StackInv'
  <2>1. \A g : FrameOK(g, taken, slot, suite) => FrameOK(g, taken', slot', suite')
    BY <1>2 DEF FrameOK
  <2>2. FrameOK(f, taken', slot', suite')
    BY <1>1, <1>2, <1>4, <1>6 DEF FrameOK, Runs
  <2>3. ASSUME NEW u \in Threads, NEW k \in 1..Len(stack'[u])
        PROVE  /\ FrameOK(stack'[u][k], taken', slot', suite')
               /\ k # Len(stack'[u]) => stack'[u][k].rule \in suite'.waits \union {0}
    <3>1. CASE u # t
      <4>1. stack'[u] = stack[u] /\ k \in 1..Len(stack[u])
        BY <1>3, <3>1
      <4>2. /\ FrameOK(stack[u][k], taken, slot, suite)
            /\ k # Len(stack[u]) => stack[u][k].rule \in suite.waits \union {0}
        BY <4>1 DEF PassInv, StackInv
      <4> QED
        BY <1>4, <2>1, <4>1, <4>2
    <3>2. CASE u = t /\ k = n + 1
      BY <1>3, <2>2, <3>2
    <3>3. CASE u = t /\ k # n + 1
      <4>1. k \in 1..n
        BY <1>3, <3>3
      <4>2. FrameOK(stack[t][k], taken, slot, suite)
        BY <4>1 DEF PassInv, StackInv, n
      <4>3. stack'[t][k] = stack[t][k] /\ stack[t][k].rule \in suite.waits \union {0}
        BY <1>3, <4>1
      <4> QED
        BY <1>4, <2>1, <3>3, <4>2, <4>3
    <3> QED
      BY <3>1, <3>2, <3>3
  <2> QED
    BY <2>3 DEF StackInv
<1>10. \A u \in Threads : \A k \in 1..Len(stack'[u]) :
         \/ u = t /\ k = n + 1 /\ stack'[u][k].rule = i
         \/ k \in 1..Len(stack[u]) /\ stack'[u][k] = stack[u][k] /\ stack[u][k].rule # i
  <2> SUFFICES ASSUME NEW u \in Threads, NEW k \in 1..Len(stack'[u]), ~(u = t /\ k = n + 1)
               PROVE  k \in 1..Len(stack[u]) /\ stack'[u][k] = stack[u][k] /\ stack[u][k].rule # i
    BY <1>1, <1>3
  <2>1. CASE u # t
    BY <1>3, <1>8, <2>1
  <2>2. CASE u = t
    <3>1. k \in 1..n
      BY <1>3, <2>2
    <3> QED
      BY <1>3, <1>8, <2>2, <3>1 DEF n
  <2> QED
    BY <2>1, <2>2
<1>11. UniqueInv'
  <2> SUFFICES ASSUME NEW u \in Threads, NEW v \in Threads,
                      NEW k \in 1..Len(stack'[u]), NEW l \in 1..Len(stack'[v]),
                      stack'[u][k].rule = stack'[v][l].rule, stack'[u][k].rule # 0
               PROVE  u = v /\ k = l
    BY DEF UniqueInv
  <2>1. CASE stack'[u][k].rule = i
    <3>1. u = t /\ k = n + 1
      BY <1>10, <2>1
    <3>2. v = t /\ l = n + 1
      <4>1. stack'[v][l].rule = i
        BY <2>1
      <4> QED
        BY <1>10, <4>1
    <3> QED
      BY <3>1, <3>2
  <2>2. CASE stack'[u][k].rule # i
    <3>1. /\ k \in 1..Len(stack[u]) /\ stack'[u][k] = stack[u][k]
          /\ l \in 1..Len(stack[v]) /\ stack'[v][l] = stack[v][l]
      BY <1>10, <2>2
    <3> QED
      BY <3>1 DEF PassInv, UniqueInv
  <2> QED
    BY <2>1, <2>2
<1>12. HeldInv'
  <2> SUFFICES ASSUME NEW j \in taken', slot'[j] = None
               PROVE  \E u \in Threads : \E k \in 1..Len(stack'[u]) : stack'[u][k].rule = j
    BY DEF HeldInv
  <2>1. CASE j = i
    <3>1. n + 1 \in 1..Len(stack'[t])
      BY <1>3
    <3> QED
      BY <1>1, <1>3, <2>1, <3>1
  <2>2. CASE j # i
    <3>0. PICK u \in Threads : \E k \in 1..Len(stack[u]) : stack[u][k].rule = j
      BY <1>2, <2>2 DEF PassInv, HeldInv
    <3>1. PICK k \in 1..Len(stack[u]) : stack[u][k].rule = j
      BY <3>0
    <3>2. CASE u # t
      BY <1>3, <3>1, <3>2
    <3>3. CASE u = t
      <4>1. k \in 1..n
        BY <3>3 DEF n
      <4>2. k \in 1..Len(stack'[t])
        BY <1>3, <4>1
      <4> QED
        BY <1>3, <3>1, <3>3, <4>1, <4>2
    <3> QED
      BY <3>2, <3>3
  <2> QED
    BY <2>1, <2>2
<1>13. CountInv'
  <2> SUFFICES ASSUME NEW u \in Threads, NEW k \in 1..Len(stack'[u]),
                      stack'[u][k].rule \notin suite.waits \union {0}
               PROVE  count'[u] = stack'[u][k].seen
    BY <1>4 DEF CountInv
  <2>1. CASE u # t
    <3>1. stack'[u] = stack[u] /\ count'[u] = count[u]
      BY <1>3, <1>5, <2>1
    <3> QED
      BY <3>1 DEF PassInv, CountInv
  <2>2. CASE u = t
    <3>1. k = n + 1
      BY <1>3, <2>2
    <3> QED
      BY <1>1, <1>3, <1>5, <2>2, <3>1
  <2> QED
    BY <2>1, <2>2
<1>14. SlotInv'
  BY <1>2 DEF PassInv, SlotInv, Diagnostics, Runs
<1>15. OutInv'
  BY <1>2 DEF PassInv, OutInv
<1> QED
  BY <1>7, <1>9, <1>11, <1>12, <1>13, <1>14, <1>15 DEF PassInv

\* A rule that does not run has its row at once.
LEMMA TakeSkips ==
  ASSUME PassInv, NEW t \in Threads, NEW i \in Positions, Take(t, i), ~Runs(i)
  PROVE  PassInv'
<1> DEFINE row == Row(i, FALSE, 0, 0)
<1>1. row \in Rows /\ row # None
  BY RowType DEF PassInv
<1>2. row.diagnostics = Diagnostics(i) /\ row.ran = FALSE
  BY DEF Row
<1>3. /\ i \notin taken /\ taken' = taken \union {i}
      /\ slot' = [slot EXCEPT ![i] = row]
      /\ UNCHANGED <<suite, passes, timings, mode, loops, out, stack, count>>
  BY DEF Take
<1> HIDE DEF row
<1>4. slot'[i] = row /\ \A j \in Positions \ {i} : slot'[j] = slot[j]
  BY <1>3 DEF PassInv, TypeOK
<1>5. TypeOK'
  BY <1>1, <1>3 DEF PassInv, TypeOK
<1>6. \A u \in Threads : \A k \in 1..Len(stack[u]) : stack[u][k].rule # 0 =>
        stack[u][k].rule # i /\ stack[u][k].rule \in Positions
  BY <1>3 DEF PassInv, StackInv, FrameOK, TypeOK
<1>7. StackInv'
  <2>1. \A u \in Threads : \A k \in 1..Len(stack[u]) : FrameOK(stack[u][k], taken', slot', suite')
    BY <1>3, <1>4, <1>6 DEF PassInv, StackInv, FrameOK, Runs
  <2> QED
    BY <1>3, <2>1 DEF PassInv, StackInv
<1>8. UniqueInv' /\ CountInv'
  BY <1>3 DEF PassInv, UniqueInv, CountInv
<1>9. HeldInv'
  <2> SUFFICES ASSUME NEW j \in taken', slot'[j] = None
               PROVE  \E u \in Threads : \E k \in 1..Len(stack[u]) : stack[u][k].rule = j
    BY <1>3 DEF HeldInv
  <2>1. j # i /\ j \in taken /\ slot[j] = None
    BY <1>1, <1>3, <1>4 DEF PassInv, TypeOK
  <2> QED
    BY <2>1 DEF PassInv, HeldInv
<1>10. SlotInv'
  <2> SUFFICES ASSUME NEW j \in Positions, slot'[j] # None
               PROVE  /\ j \in taken'
                      /\ slot'[j].diagnostics = Diagnostics(j)'
                      /\ slot'[j].ran <=> Runs(j)'
                      /\ slot'[j].ran /\ j \notin suite'.waits => slot'[j].observed = suite'.events[j]
                      /\ slot'[j].ran => slot'[j].elapsed \in Durations
    BY DEF SlotInv
  <2>1. suite' = suite /\ Diagnostics(j)' = Diagnostics(j) /\ (Runs(j)' <=> Runs(j))
    BY <1>3 DEF Diagnostics, Runs
  <2>2. CASE j = i
    BY <1>2, <1>3, <1>4, <2>1, <2>2
  <2>3. CASE j # i
    <3>1. slot'[j] = slot[j] /\ j \in taken'
      BY <1>3, <1>4, <2>3 DEF PassInv, SlotInv
    <3> QED
      BY <2>1, <3>1 DEF PassInv, SlotInv
  <2> QED
    BY <2>2, <2>3
<1>11. OutInv'
  BY <1>3 DEF PassInv, OutInv
<1> QED
  BY <1>5, <1>7, <1>8, <1>9, <1>10, <1>11 DEF PassInv

\* A thread starts a worker loop.
LEMMA StartLoopStep ==
  ASSUME PassInv, NEW t \in Threads, StartLoop(t)
  PROVE  PassInv'
<1> DEFINE n == Len(stack[t])
<1>1. /\ Push(t, Loop) /\ loops > 0 /\ loops' = loops - 1
      /\ UNCHANGED <<suite, passes, timings, mode, taken, count, slot, out>>
      /\ Busy(t) => Top(t).rule \in suite.waits \union {0}
  BY DEF StartLoop, Free
<1>2. Loop \in Frames /\ Loop.rule = 0
  BY LoopFrame DEF Loop
<1>3. /\ stack' \in [Threads -> Seq(Frames)]
      /\ Len(stack'[t]) = n + 1 /\ n \in Nat
      /\ stack'[t][n + 1] = Loop
      /\ \A k \in 1..n : stack'[t][k] = stack[t][k] /\ (stack[t][k].rule # 0 => stack[t][k].rule \in suite.waits)
      /\ \A u \in Threads \ {t} : stack'[u] = stack[u]
  BY <1>1, <1>2, PushInv
<1> HIDE DEF n
<1>4. TypeOK'
  BY <1>1, <1>3 DEF PassInv, TypeOK
<1>5. \A u \in Threads : \A k \in 1..Len(stack'[u]) :
        \/ u = t /\ k = n + 1 /\ stack'[u][k] = Loop
        \/ k \in 1..Len(stack[u]) /\ stack'[u][k] = stack[u][k]
  <2> SUFFICES ASSUME NEW u \in Threads, NEW k \in 1..Len(stack'[u]), ~(u = t /\ k = n + 1)
               PROVE  k \in 1..Len(stack[u]) /\ stack'[u][k] = stack[u][k]
    BY <1>3
  <2>1. CASE u # t
    BY <1>3, <2>1
  <2>2. CASE u = t
    <3>1. k \in 1..n
      BY <1>3, <2>2
    <3> QED
      BY <1>3, <2>2, <3>1 DEF n
  <2> QED
    BY <2>1, <2>2
<1>6. \A u \in Threads : \A k \in 1..Len(stack[u]) : k \in 1..Len(stack'[u]) /\ stack'[u][k] = stack[u][k]
  <2> SUFFICES ASSUME NEW u \in Threads, NEW k \in 1..Len(stack[u])
               PROVE  k \in 1..Len(stack'[u]) /\ stack'[u][k] = stack[u][k]
    OBVIOUS
  <2>1. CASE u # t
    BY <1>3, <2>1
  <2>2. CASE u = t
    <3>1. k \in 1..n
      BY <2>2 DEF n
    <3> QED
      BY <1>3, <2>2, <3>1
  <2> QED
    BY <2>1, <2>2
<1>7. StackInv'
  <2>1. FrameOK(Loop, taken, slot, suite)
    BY <1>2 DEF FrameOK
  <2>2. ASSUME NEW u \in Threads, NEW k \in 1..Len(stack'[u])
        PROVE  /\ FrameOK(stack'[u][k], taken, slot, suite)
               /\ k # Len(stack'[u]) => stack'[u][k].rule \in suite.waits \union {0}
    <3>1. CASE u # t
      BY <1>3, <3>1 DEF PassInv, StackInv
    <3>2. CASE u = t /\ k = n + 1
      BY <1>3, <2>1, <3>2
    <3>3. CASE u = t /\ k # n + 1
      <4>1. k \in 1..n
        BY <1>3, <3>3
      <4>2. FrameOK(stack[t][k], taken, slot, suite)
        BY <4>1 DEF PassInv, StackInv, n
      <4> QED
        BY <1>3, <3>3, <4>1, <4>2
    <3> QED
      BY <3>1, <3>2, <3>3
  <2> QED
    BY <1>1, <2>2 DEF StackInv
<1>8. UniqueInv'
  <2> SUFFICES ASSUME NEW u \in Threads, NEW v \in Threads,
                      NEW k \in 1..Len(stack'[u]), NEW l \in 1..Len(stack'[v]),
                      stack'[u][k].rule = stack'[v][l].rule, stack'[u][k].rule # 0
               PROVE  u = v /\ k = l
    BY DEF UniqueInv
  <2>1. /\ k \in 1..Len(stack[u]) /\ stack'[u][k] = stack[u][k]
        /\ l \in 1..Len(stack[v]) /\ stack'[v][l] = stack[v][l]
    BY <1>2, <1>5
  <2> QED
    BY <2>1 DEF PassInv, UniqueInv
<1>9. HeldInv'
  <2> SUFFICES ASSUME NEW j \in taken, slot[j] = None
               PROVE  \E u \in Threads : \E k \in 1..Len(stack'[u]) : stack'[u][k].rule = j
    BY <1>1 DEF HeldInv
  <2>1. PICK u \in Threads : \E k \in 1..Len(stack[u]) : stack[u][k].rule = j
    BY DEF PassInv, HeldInv
  <2>2. PICK k \in 1..Len(stack[u]) : stack[u][k].rule = j
    BY <2>1
  <2> QED
    BY <1>6, <2>2
<1>10. CountInv'
  <2> SUFFICES ASSUME NEW u \in Threads, NEW k \in 1..Len(stack'[u]),
                      stack'[u][k].rule \notin suite.waits \union {0}
               PROVE  count[u] = stack'[u][k].seen
    BY <1>1 DEF CountInv
  <2>1. k \in 1..Len(stack[u]) /\ stack'[u][k] = stack[u][k]
    BY <1>2, <1>5
  <2> QED
    BY <2>1 DEF PassInv, CountInv
<1>11. SlotInv'
  BY <1>1 DEF PassInv, SlotInv, Diagnostics, Runs
<1>12. OutInv'
  BY <1>1 DEF PassInv, OutInv
<1> QED
  BY <1>4, <1>7, <1>8, <1>9, <1>10, <1>11, <1>12 DEF PassInv

\* A worker loop that finds no rule ends.
LEMMA LoopEndsStep ==
  ASSUME PassInv, NEW t \in Threads, LoopEnds(t)
  PROVE  PassInv'
<1> DEFINE n == Len(stack[t])
<1>1. /\ Busy(t) /\ Top(t) = Loop /\ Pop(t)
      /\ UNCHANGED <<suite, passes, timings, mode, taken, loops, count, slot, out>>
  BY DEF LoopEnds
<1>2. /\ stack' \in [Threads -> Seq(Frames)]
      /\ Len(stack'[t]) = n - 1
      /\ n \in Nat /\ n >= 1
      /\ \A k \in 1..n - 1 : stack'[t][k] = stack[t][k]
      /\ \A u \in Threads \ {t} : stack'[u] = stack[u]
  BY <1>1, PopInv
<1>3. stack[t][n].rule = 0
  BY <1>1 DEF Top, Loop
<1>4. \A u \in Threads : \A k \in 1..Len(stack'[u]) :
        /\ k \in 1..Len(stack[u]) /\ stack'[u][k] = stack[u][k]
        /\ k = Len(stack[u]) => k = Len(stack'[u])
  <2> SUFFICES ASSUME NEW u \in Threads, NEW k \in 1..Len(stack'[u])
               PROVE  /\ k \in 1..Len(stack[u]) /\ stack'[u][k] = stack[u][k]
                      /\ k = Len(stack[u]) => k = Len(stack'[u])
    OBVIOUS
  <2>1. CASE u # t
    BY <1>2, <2>1
  <2>2. CASE u = t
    BY <1>2, <2>2
  <2> QED
    BY <2>1, <2>2
<1>5. \A u \in Threads : \A k \in 1..Len(stack[u]) :
        stack[u][k].rule # 0 => k \in 1..Len(stack'[u]) /\ stack'[u][k] = stack[u][k]
  <2> SUFFICES ASSUME NEW u \in Threads, NEW k \in 1..Len(stack[u]), stack[u][k].rule # 0
               PROVE  k \in 1..Len(stack'[u]) /\ stack'[u][k] = stack[u][k]
    OBVIOUS
  <2>1. CASE u # t
    BY <1>2, <2>1
  <2>2. CASE u = t
    BY <1>2, <1>3, <2>2
  <2> QED
    BY <2>1, <2>2
<1>6. TypeOK'
  BY <1>1, <1>2 DEF PassInv, TypeOK
<1>7. StackInv'
  <2>1. ASSUME NEW u \in Threads, NEW k \in 1..Len(stack'[u])
        PROVE  /\ FrameOK(stack'[u][k], taken, slot, suite)
               /\ k # Len(stack'[u]) => stack'[u][k].rule \in suite.waits \union {0}
    BY <1>4 DEF PassInv, StackInv
  <2> QED
    BY <1>1, <2>1 DEF StackInv
<1>8. UniqueInv'
  <2> SUFFICES ASSUME NEW u \in Threads, NEW v \in Threads,
                      NEW k \in 1..Len(stack'[u]), NEW l \in 1..Len(stack'[v]),
                      stack'[u][k].rule = stack'[v][l].rule, stack'[u][k].rule # 0
               PROVE  u = v /\ k = l
    BY DEF UniqueInv
  <2>1. /\ k \in 1..Len(stack[u]) /\ stack'[u][k] = stack[u][k]
        /\ l \in 1..Len(stack[v]) /\ stack'[v][l] = stack[v][l]
    BY <1>4
  <2> QED
    BY <2>1 DEF PassInv, UniqueInv
<1>9. HeldInv'
  <2> SUFFICES ASSUME NEW j \in taken, slot[j] = None
               PROVE  \E u \in Threads : \E k \in 1..Len(stack'[u]) : stack'[u][k].rule = j
    BY <1>1 DEF HeldInv
  <2>1. PICK u \in Threads : \E k \in 1..Len(stack[u]) : stack[u][k].rule = j
    BY DEF PassInv, HeldInv
  <2>2. PICK k \in 1..Len(stack[u]) : stack[u][k].rule = j
    BY <2>1
  <2>3. j # 0
    BY SuiteFields DEF PassInv, TypeOK
  <2> QED
    BY <1>5, <2>2, <2>3
<1>10. CountInv'
  <2> SUFFICES ASSUME NEW u \in Threads, NEW k \in 1..Len(stack'[u]),
                      stack'[u][k].rule \notin suite.waits \union {0}
               PROVE  count[u] = stack'[u][k].seen
    BY <1>1 DEF CountInv
  <2>1. k \in 1..Len(stack[u]) /\ stack'[u][k] = stack[u][k]
    BY <1>4
  <2> QED
    BY <2>1 DEF PassInv, CountInv
<1>11. SlotInv'
  BY <1>1 DEF PassInv, SlotInv, Diagnostics, Runs
<1>12. OutInv'
  <2>1. out = None
    BY <1>1 DEF PassInv, OutInv, Busy
  <2> QED
    BY <1>1, <2>1 DEF OutInv
<1> QED
  BY <1>6, <1>7, <1>8, <1>9, <1>10, <1>11, <1>12 DEF PassInv

\* A query observes an event: the frame of its rule has seen one more.
LEMMA ObserveFrame ==
  ASSUME PassInv, NEW t \in Threads, Observe(t)
  PROVE  \E u \in Threads : \E k \in 1..Len(stack[u]) :
           /\ MayQuery(t, u, k)
           /\ stack[u][k].rule \in Positions /\ stack[u][k].rule # 0
           /\ stack[u][k].seen \in Nat /\ suite.events[stack[u][k].rule] \in Nat
           /\ stack[u][k].seen < suite.events[stack[u][k].rule]
           /\ stack' \in [Threads -> Seq(Frames)]
           /\ stack'[u][k].seen = stack[u][k].seen + 1
           /\ \A v \in Threads :
                /\ Len(stack'[v]) = Len(stack[v])
                /\ \A l \in 1..Len(stack[v]) :
                     /\ stack'[v][l].rule = stack[v][l].rule
                     /\ ~(v = u /\ l = k) => stack'[v][l] = stack[v][l]
<1>1. PICK u \in Threads : \E k \in 1..Len(stack[u]) :
        /\ stack[u][k] # Loop /\ MayQuery(t, u, k)
        /\ stack[u][k].seen < suite.events[stack[u][k].rule]
        /\ stack' = [stack EXCEPT ![u][k] = [rule |-> @.rule, seen |-> @.seen + 1]]
  BY DEF Observe
<1>2. PICK k \in 1..Len(stack[u]) :
        /\ stack[u][k] # Loop /\ MayQuery(t, u, k)
        /\ stack[u][k].seen < suite.events[stack[u][k].rule]
        /\ stack' = [stack EXCEPT ![u][k] = [rule |-> @.rule, seen |-> @.seen + 1]]
  BY <1>1
<1> DEFINE g == stack[u][k]
           f == [rule |-> g.rule, seen |-> g.seen + 1]
           r == [stack[u] EXCEPT ![k] = f]
<1>3. stack[u] \in Seq(Frames) /\ g \in Frames
  BY DEF PassInv, TypeOK
<1>4. stack' = [stack EXCEPT ![u] = r]
  BY <1>2
<1>5. /\ r \in Seq(Frames) /\ Len(r) = Len(stack[u])
      /\ \A l \in 1..Len(stack[u]) : r[l] = IF l = k THEN f ELSE stack[u][l]
  <2>1. f = [rule |-> stack[u][k].rule, seen |-> stack[u][k].seen + 1]
    OBVIOUS
  <2>2. r = [stack[u] EXCEPT ![k] = f]
    OBVIOUS
  <2> HIDE DEF f, r, g
  <2> QED
    BY <1>3, <2>1, <2>2, BumpStack
<1>6. g.rule \in Positions \union {0} /\ g.seen \in Nat /\ f.rule = g.rule /\ f.seen = g.seen + 1
  BY <1>3 DEF Frames
<1>7. g.rule \in Positions /\ g.rule # 0 /\ suite.events[g.rule] \in Nat
  <2>1. FrameOK(g, taken, slot, suite)
    BY DEF PassInv, StackInv
  <2> QED
    BY <1>2, <1>6, <2>1, SuiteFields DEF FrameOK, PassInv
<1> HIDE DEF f, r
<1>8. /\ stack' \in [Threads -> Seq(Frames)]
      /\ stack'[u] = r
      /\ \A v \in Threads \ {u} : stack'[v] = stack[v]
  BY <1>4, <1>5 DEF PassInv, TypeOK
<1>9. ASSUME NEW v \in Threads
      PROVE  /\ Len(stack'[v]) = Len(stack[v])
             /\ \A l \in 1..Len(stack[v]) :
                  /\ stack'[v][l].rule = stack[v][l].rule
                  /\ ~(v = u /\ l = k) => stack'[v][l] = stack[v][l]
  <2>1. CASE v # u
    BY <1>8, <2>1
  <2>2. CASE v = u
    BY <1>5, <1>6, <1>8, <2>2
  <2> QED
    BY <2>1, <2>2
<1>10. stack'[u][k].seen = g.seen + 1
  BY <1>5, <1>6, <1>8
<1> WITNESS u \in Threads
<1> WITNESS k \in 1..Len(stack[u])
<1> QED
  BY <1>2, <1>6, <1>7, <1>8, <1>9, <1>10

\* A query observes an event, in the frame of its rule and in the counter of the thread
\* it runs on.
LEMMA ObserveStep ==
  ASSUME PassInv, NEW t \in Threads, Observe(t)
  PROVE  PassInv'
<1> DEFINE SeesOne(u, k) ==
      /\ MayQuery(t, u, k)
      /\ stack[u][k].rule \in Positions /\ stack[u][k].rule # 0
      /\ stack[u][k].seen \in Nat /\ suite.events[stack[u][k].rule] \in Nat
      /\ stack[u][k].seen < suite.events[stack[u][k].rule]
      /\ stack' \in [Threads -> Seq(Frames)]
      /\ stack'[u][k].seen = stack[u][k].seen + 1
      /\ \A v \in Threads :
           /\ Len(stack'[v]) = Len(stack[v])
           /\ \A l \in 1..Len(stack[v]) :
                /\ stack'[v][l].rule = stack[v][l].rule
                /\ ~(v = u /\ l = k) => stack'[v][l] = stack[v][l]
<1>1. /\ count' = [count EXCEPT ![t] = @ + 1]
      /\ UNCHANGED <<suite, passes, timings, mode, taken, loops, slot, out>>
  BY DEF Observe
<1>2. PICK u \in Threads : \E k \in 1..Len(stack[u]) : SeesOne(u, k)
  BY ObserveFrame
<1>3. PICK k \in 1..Len(stack[u]) : SeesOne(u, k)
  BY <1>2
<1>4. count[t] \in Nat /\ count'[t] = count[t] + 1 /\ \A v \in Threads \ {t} : count'[v] = count[v]
  BY <1>1 DEF PassInv, TypeOK
<1>5. TypeOK'
  <2>1. count' \in [Threads -> Nat]
    BY <1>1, <1>4 DEF PassInv, TypeOK
  <2> QED
    BY <1>1, <1>3, <2>1 DEF PassInv, TypeOK
<1>6. \A v \in Threads : \A l \in 1..Len(stack'[v]) :
        /\ l \in 1..Len(stack[v]) /\ Len(stack'[v]) = Len(stack[v])
        /\ stack'[v][l].rule = stack[v][l].rule
        /\ ~(v = u /\ l = k) => stack'[v][l] = stack[v][l]
  BY <1>3
<1>7. \A v \in Threads : \A l \in 1..Len(stack[v]) :
        l \in 1..Len(stack'[v]) /\ stack'[v][l].rule = stack[v][l].rule
  BY <1>3
<1>8. StackInv'
  <2>1. ASSUME NEW v \in Threads, NEW l \in 1..Len(stack'[v])
        PROVE  /\ FrameOK(stack'[v][l], taken, slot, suite)
               /\ l # Len(stack'[v]) => stack'[v][l].rule \in suite.waits \union {0}
    <3>1. l \in 1..Len(stack[v]) /\ Len(stack'[v]) = Len(stack[v]) /\ stack'[v][l].rule = stack[v][l].rule
      BY <1>6
    <3>2. /\ FrameOK(stack[v][l], taken, slot, suite)
          /\ l # Len(stack[v]) => stack[v][l].rule \in suite.waits \union {0}
      BY <3>1 DEF PassInv, StackInv
    <3>3. CASE v = u /\ l = k
      <4>1. stack'[v][l].rule # 0 /\ stack'[v][l].seen <= suite.events[stack[v][l].rule]
        BY <1>3, <3>1, <3>3
      <4> QED
        BY <3>1, <3>2, <4>1 DEF FrameOK
    <3>4. CASE ~(v = u /\ l = k)
      BY <1>6, <3>1, <3>2, <3>4
    <3> QED
      BY <3>3, <3>4
  <2> QED
    BY <1>1, <2>1 DEF StackInv
<1>9. UniqueInv'
  <2> SUFFICES ASSUME NEW v \in Threads, NEW w \in Threads,
                      NEW l \in 1..Len(stack'[v]), NEW m \in 1..Len(stack'[w]),
                      stack'[v][l].rule = stack'[w][m].rule, stack'[v][l].rule # 0
               PROVE  v = w /\ l = m
    BY DEF UniqueInv
  <2>1. /\ l \in 1..Len(stack[v]) /\ stack'[v][l].rule = stack[v][l].rule
        /\ m \in 1..Len(stack[w]) /\ stack'[w][m].rule = stack[w][m].rule
    BY <1>6
  <2>2. stack[v][l].rule = stack[w][m].rule /\ stack[v][l].rule # 0
    BY <2>1
  <2> HIDE DEF SeesOne
  <2> QED
    BY <2>1, <2>2 DEF PassInv, UniqueInv
<1>10. HeldInv'
  <2> SUFFICES ASSUME NEW j \in taken, slot[j] = None
               PROVE  \E v \in Threads : \E l \in 1..Len(stack'[v]) : stack'[v][l].rule = j
    BY <1>1 DEF HeldInv
  <2>1. PICK v \in Threads : \E l \in 1..Len(stack[v]) : stack[v][l].rule = j
    BY DEF PassInv, HeldInv
  <2>2. PICK l \in 1..Len(stack[v]) : stack[v][l].rule = j
    BY <2>1
  <2> QED
    BY <1>7, <2>2
<1>11. CountInv'
  <2> SUFFICES ASSUME NEW v \in Threads, NEW l \in 1..Len(stack'[v]),
                      stack'[v][l].rule \notin suite.waits \union {0}
               PROVE  count'[v] = stack'[v][l].seen
    BY <1>1 DEF CountInv
  <2>1. /\ l \in 1..Len(stack[v]) /\ stack[v][l].rule \notin suite.waits \union {0}
        /\ ~(v = u /\ l = k) => stack'[v][l] = stack[v][l]
    BY <1>6
  <2>2. count[v] = stack[v][l].seen
    BY <2>1 DEF PassInv, CountInv
  <2>3. l = Len(stack[v])
    BY <2>1 DEF PassInv, StackInv
  <2>4. ~Free(v)
    <3>1. Busy(v)
      BY <2>1 DEF Busy
    <3> QED
      BY <2>1, <2>3, <3>1 DEF Free, Top
  <2>5. CASE v = u /\ l = k
    <3>1. v = t
      BY <1>3, <2>1, <2>5 DEF MayQuery
    <3> QED
      BY <1>3, <1>4, <2>2, <2>5, <3>1
  <2>6. CASE ~(v = u /\ l = k)
    <3>1. v # t
      BY <1>3, <2>3, <2>4, <2>6 DEF MayQuery
    <3> QED
      BY <1>4, <2>1, <2>2, <2>6, <3>1
  <2> QED
    BY <2>5, <2>6
<1>12. SlotInv'
  BY <1>1 DEF PassInv, SlotInv, Diagnostics, Runs
<1>13. OutInv'
  <2>1. stack[u] # <<>>
    BY <1>3
  <2>2. out = None
    BY <2>1 DEF PassInv, OutInv
  <2> QED
    BY <1>1, <2>2 DEF OutInv
<1> QED
  BY <1>5, <1>8, <1>9, <1>10, <1>11, <1>12, <1>13 DEF PassInv

\* The innermost rule returns: its row takes the place of its frame.
LEMMA ReturnStep ==
  ASSUME PassInv, NEW t \in Threads, Return(t)
  PROVE  PassInv'
<1> DEFINE n == Len(stack[t])
           g == stack[t][n]
           i == g.rule
<1>1. /\ Busy(t) /\ g # Loop /\ g.seen = suite.events[i] /\ Pop(t)
      /\ count' = [count EXCEPT ![t] = 0]
      /\ UNCHANGED <<suite, passes, timings, mode, taken, loops, out>>
  BY DEF Return, Top
<1>2. PICK e \in Durations : slot' = [slot EXCEPT ![i] = Row(i, TRUE, count[t], e)]
  BY DEF Return, Top
<1>3. stack[t] \in Seq(Frames) /\ stack[t] # <<>>
  BY <1>1 DEF Busy, PassInv, TypeOK
<1>4. n \in 1..n /\ n \in Nat /\ g \in Frames
  BY <1>3, TopFrame
<1>5. FrameOK(g, taken, slot, suite)
  BY <1>4 DEF PassInv, StackInv
<1>6. /\ i \in Positions /\ i # 0 /\ i \in taken /\ slot[i] = None
      /\ Runs(i) /\ suite.events[i] \in Nat
  BY <1>1, <1>4, <1>5, SuiteFields DEF FrameOK, PassInv, Frames, Runs
<1>7. /\ stack' \in [Threads -> Seq(Frames)]
      /\ Len(stack'[t]) = n - 1
      /\ n \in Nat /\ n >= 1
      /\ \A k \in 1..n - 1 : stack'[t][k] = stack[t][k]
      /\ \A u \in Threads \ {t} : stack'[u] = stack[u]
  BY <1>1, PopInv
<1>8. count[t] \in Nat /\ count'[t] = 0 /\ \A u \in Threads \ {t} : count'[u] = count[u]
  BY <1>1 DEF PassInv, TypeOK
<1>9. i \notin suite.waits => count[t] = suite.events[i]
  BY <1>1, <1>4, <1>6 DEF PassInv, CountInv
<1> DEFINE row == Row(i, TRUE, count[t], e)
<1>10. /\ row \in Rows /\ row # None
  BY <1>6, <1>8, RowType DEF PassInv
<1>11. row.diagnostics = Diagnostics(i) /\ row.ran = TRUE /\ row.observed = count[t] /\ row.elapsed = e
  BY DEF Row
<1> HIDE DEF row
<1>12. slot'[i] = row /\ \A j \in Positions \ {i} : slot'[j] = slot[j]
  BY <1>2, <1>6 DEF PassInv, TypeOK, row
<1>13. TypeOK'
  <2>1. slot' \in [Positions -> Rows \union {None}]
    BY <1>2, <1>10 DEF PassInv, TypeOK, row
  <2>2. count' \in [Threads -> Nat]
    BY <1>1 DEF PassInv, TypeOK
  <2> QED
    BY <1>1, <1>7, <2>1, <2>2 DEF PassInv, TypeOK
<1>14. \A u \in Threads : \A k \in 1..Len(stack'[u]) :
        /\ k \in 1..Len(stack[u]) /\ stack'[u][k] = stack[u][k]
        /\ k = Len(stack[u]) => k = Len(stack'[u])
        /\ ~(u = t /\ k = n)
  <2> SUFFICES ASSUME NEW u \in Threads, NEW k \in 1..Len(stack'[u])
               PROVE  /\ k \in 1..Len(stack[u]) /\ stack'[u][k] = stack[u][k]
                      /\ k = Len(stack[u]) => k = Len(stack'[u])
                      /\ ~(u = t /\ k = n)
    OBVIOUS
  <2>1. CASE u # t
    BY <1>7, <2>1
  <2>2. CASE u = t
    BY <1>7, <2>2
  <2> QED
    BY <2>1, <2>2
<1>15. \A u \in Threads : \A k \in 1..Len(stack[u]) :
        ~(u = t /\ k = n) => k \in 1..Len(stack'[u]) /\ stack'[u][k] = stack[u][k]
  <2> SUFFICES ASSUME NEW u \in Threads, NEW k \in 1..Len(stack[u]), ~(u = t /\ k = n)
               PROVE  k \in 1..Len(stack'[u]) /\ stack'[u][k] = stack[u][k]
    OBVIOUS
  <2>1. CASE u # t
    BY <1>7, <2>1
  <2>2. CASE u = t
    BY <1>7, <2>2
  <2> QED
    BY <2>1, <2>2
<1>16. \A u \in Threads : \A k \in 1..Len(stack'[u]) : stack'[u][k].rule # i
  <2> SUFFICES ASSUME NEW u \in Threads, NEW k \in 1..Len(stack'[u]), stack[u][k].rule = i
               PROVE  FALSE
    BY <1>14
  <2>1. k \in 1..Len(stack[u]) /\ ~(u = t /\ k = n)
    BY <1>14
  <2> QED
    BY <1>4, <1>6, <2>1 DEF PassInv, UniqueInv
<1>17. StackInv'
  <2>1. ASSUME NEW u \in Threads, NEW k \in 1..Len(stack'[u])
        PROVE  /\ FrameOK(stack'[u][k], taken, slot', suite)
               /\ k # Len(stack'[u]) => stack'[u][k].rule \in suite.waits \union {0}
    <3> DEFINE h == stack'[u][k]
    <3>1. h.rule # i /\ FrameOK(h, taken, slot, suite)
      BY <1>14, <1>16 DEF PassInv, StackInv
    <3>2. h.rule # 0 => h.rule \in Positions /\ slot'[h.rule] = slot[h.rule]
      BY <1>12, <3>1 DEF FrameOK, PassInv, TypeOK
    <3>3. FrameOK(h, taken, slot', suite)
      BY <3>1, <3>2 DEF FrameOK
    <3> QED
      BY <1>14, <3>3 DEF PassInv, StackInv
  <2> QED
    BY <1>1, <2>1 DEF StackInv
<1>18. UniqueInv'
  <2> SUFFICES ASSUME NEW u \in Threads, NEW v \in Threads,
                      NEW k \in 1..Len(stack'[u]), NEW l \in 1..Len(stack'[v]),
                      stack'[u][k].rule = stack'[v][l].rule, stack'[u][k].rule # 0
               PROVE  u = v /\ k = l
    BY DEF UniqueInv
  <2>1. /\ k \in 1..Len(stack[u]) /\ stack'[u][k] = stack[u][k]
        /\ l \in 1..Len(stack[v]) /\ stack'[v][l] = stack[v][l]
    BY <1>14
  <2>2. stack[u][k].rule = stack[v][l].rule /\ stack[u][k].rule # 0
    BY <2>1
  <2>3. UniqueInv
    BY DEF PassInv
  <2> QED
    BY <2>1, <2>2, <2>3 DEF UniqueInv
<1>19. HeldInv'
  <2> SUFFICES ASSUME NEW j \in taken, slot'[j] = None
               PROVE  \E u \in Threads : \E k \in 1..Len(stack'[u]) : stack'[u][k].rule = j
    BY <1>1 DEF HeldInv
  <2>1. j # i /\ slot[j] = None
    BY <1>10, <1>12 DEF PassInv, TypeOK
  <2>2. PICK u \in Threads : \E k \in 1..Len(stack[u]) : stack[u][k].rule = j
    BY <2>1 DEF PassInv, HeldInv
  <2>3. PICK k \in 1..Len(stack[u]) : stack[u][k].rule = j
    BY <2>2
  <2>4. ~(u = t /\ k = n)
    BY <2>1, <2>3
  <2> QED
    BY <1>15, <2>3, <2>4
<1>20. CountInv'
  <2> SUFFICES ASSUME NEW u \in Threads, NEW k \in 1..Len(stack'[u]),
                      stack'[u][k].rule \notin suite.waits \union {0}
               PROVE  count'[u] = stack'[u][k].seen
    BY <1>1 DEF CountInv
  <2>1. k \in 1..Len(stack[u]) /\ stack'[u][k] = stack[u][k] /\ ~(u = t /\ k = n)
    BY <1>14
  <2>2. u # t
    BY <2>1 DEF PassInv, StackInv
  <2> QED
    BY <1>8, <2>1, <2>2 DEF PassInv, CountInv
<1>21. SlotInv'
  <2>1. ASSUME NEW j \in Positions, slot'[j] # None
        PROVE  /\ j \in taken
               /\ slot'[j].diagnostics = Diagnostics(j)
               /\ slot'[j].ran <=> Runs(j)
               /\ slot'[j].ran /\ j \notin suite.waits => slot'[j].observed = suite.events[j]
               /\ slot'[j].ran => slot'[j].elapsed \in Durations
    <3>1. CASE j = i
      BY <1>6, <1>9, <1>11, <1>12, <3>1
    <3>2. CASE j # i
      BY <1>12, <2>1, <3>2 DEF PassInv, SlotInv
    <3> QED
      BY <3>1, <3>2
  <2>2. \A j : Diagnostics(j)' = Diagnostics(j) /\ Runs(j)' = Runs(j)
    BY <1>1 DEF Diagnostics, Runs
  <2> QED
    BY <1>1, <2>1, <2>2 DEF SlotInv
<1>22. OutInv'
  <2>1. out = None
    BY <1>1 DEF PassInv, OutInv, Busy
  <2> QED
    BY <1>1, <2>1 DEF OutInv
<1> QED
  BY <1>13, <1>17, <1>18, <1>19, <1>20, <1>21, <1>22 DEF PassInv

\* When no thread has anything left to do, every rule has its row.
LEMMA AllRows ==
  ASSUME PassInv, taken = Positions, \A t \in Threads : ~Busy(t)
  PROVE  \A i \in Positions :
           /\ slot[i].diagnostics = Diagnostics(i)
           /\ slot[i].ran <=> Runs(i)
           /\ slot[i].ran /\ i \notin suite.waits => slot[i].observed = suite.events[i]
<1>1. \A t \in Threads : Len(stack[t]) = 0
  BY DEF Busy
<1>2. \A i \in Positions : slot[i] # None
  BY <1>1 DEF PassInv, HeldInv
<1> QED
  BY <1>2 DEF PassInv, SlotInv

LEMMA MergeStep ==
  ASSUME PassInv, Merge
  PROVE  PassInv'
<1> DEFINE observed == [x \in Ids |-> Total([i \in Ran(x) |-> slot[i].observed])]
           found    == UNION {slot[i].diagnostics : i \in Positions}
<1>1. /\ taken = Positions /\ loops = 0
      /\ \A t \in Threads : ~Busy(t)
      /\ UNCHANGED <<suite, passes, timings, mode, taken, loops, stack, count, slot>>
  BY DEF Merge
<1>2. PICK times \in [Ids -> Durations \union {None}] :
        out' = [diagnostics |-> found, observed |-> observed, timings |-> times]
  BY DEF Merge
<1>3. \A i \in Positions :
        /\ slot[i].diagnostics = Diagnostics(i)
        /\ slot[i].ran <=> Runs(i)
        /\ slot[i].ran /\ i \notin suite.waits => slot[i].observed = suite.events[i]
  BY <1>1, AllRows
<1>4. found = UNION {Diagnostics(i) : i \in Positions}
  BY <1>3
<1>5. ASSUME suite.waits = {}
      PROVE  observed = [x \in Ids |->
               Total([i \in {j \in Positions : suite.id[j] = x /\ Runs(j)} |-> suite.events[i]])]
  <2>1. ASSUME NEW x \in Ids
        PROVE  [i \in Ran(x) |-> slot[i].observed]
                 = [i \in {j \in Positions : suite.id[j] = x /\ Runs(j)} |-> suite.events[i]]
    <3>1. Ran(x) = {j \in Positions : suite.id[j] = x /\ Runs(j)}
      BY <1>3 DEF Ran
    <3>2. \A i \in Ran(x) : slot[i].observed = suite.events[i]
      BY <1>3, <1>5 DEF Ran
    <3> QED
      BY <3>1, <3>2
  <2> QED
    BY <2>1
<1> HIDE DEF observed, found
<1>6. out'.diagnostics = found /\ out'.observed = observed /\ out'.timings = times
  BY <1>2
<1>7. \A j : Diagnostics(j)' = Diagnostics(j) /\ Runs(j)' = Runs(j)
  BY <1>1 DEF Diagnostics, Runs
<1>8. SameAsSequential'
  <2>1. (UNION {Diagnostics(i) : i \in Positions})' = UNION {Diagnostics(i) : i \in Positions}
    BY <1>7
  <2>2. ([x \in Ids |-> Total([i \in {j \in Positions : suite.id[j] = x /\ Runs(j)} |-> suite.events[i]])])'
          = [x \in Ids |-> Total([i \in {j \in Positions : suite.id[j] = x /\ Runs(j)} |-> suite.events[i]])]
    BY <1>1 DEF Runs
  <2> QED
    BY <1>1, <1>4, <1>5, <1>6, <2>1, <2>2 DEF SameAsSequential
<1>9. TypeOK' /\ StackInv' /\ UniqueInv' /\ HeldInv' /\ CountInv'
  <2>1. TypeOK'
    BY <1>1 DEF PassInv, TypeOK
  <2>2. StackInv'
    BY <1>1 DEF PassInv, StackInv
  <2>3. UniqueInv'
    BY <1>1 DEF PassInv, UniqueInv
  <2>4. HeldInv'
    BY <1>1 DEF PassInv, HeldInv
  <2>5. CountInv'
    BY <1>1 DEF PassInv, CountInv
  <2> QED
    BY <2>1, <2>2, <2>3, <2>4, <2>5
<1>10. SlotInv'
  BY <1>1, <1>7 DEF PassInv, SlotInv
<1>11. OutInv'
  BY <1>1, <1>6, <1>8 DEF OutInv, Busy
<1> QED
  BY <1>9, <1>10, <1>11 DEF PassInv

LEMMA AgainStep ==
  ASSUME PassInv, Again
  PROVE  PassInv'
<1>1. /\ \A t \in Threads : stack[t] = <<>>
      /\ out.timings \in [Ids -> Durations \union {None}]
      /\ suite' = suite /\ stack' = stack /\ count' = count
      /\ passes' \in 1..MaxPasses
  BY PassAssumption DEF Again, PassInv, OutInv, TypeOK
<1>2. PICK times \in [Ids -> Durations \union {None}] : Begin(times)
  <2>1. /\ timings \in [Ids -> Durations \union {None}]
        /\ [x \in Ids |-> None] \in [Ids -> Durations \union {None}]
    BY DEF PassInv, TypeOK
  <2>2. \E times \in {out.timings, timings, [x \in Ids |-> None]} : Begin(times)
    BY DEF Again
  <2> QED
    BY <1>1, <2>1, <2>2
<1>3. /\ timings' = times /\ mode' \in Modes /\ loops' \in Nat /\ taken' = {}
      /\ slot' = [i \in Positions |-> None] /\ out' = None
  BY <1>2, ModeType, LoopsType DEF Begin
<1>4. \A t \in Threads : Len(stack[t]) = 0
  BY <1>1
<1>5. TypeOK'
  BY <1>1, <1>3 DEF PassInv, TypeOK
<1>6. StackInv' /\ UniqueInv' /\ CountInv'
  BY <1>1, <1>4 DEF StackInv, UniqueInv, CountInv
<1>7. HeldInv' /\ SlotInv' /\ OutInv'
  BY <1>3 DEF HeldInv, SlotInv, OutInv
<1> QED
  BY <1>5, <1>6, <1>7 DEF PassInv

LEMMA StutterInv == PassInv /\ UNCHANGED vars => PassInv'
<1> SUFFICES ASSUME PassInv, UNCHANGED vars PROVE PassInv'
  OBVIOUS
<1> USE DEF vars, PassInv
<1>1. TypeOK' /\ StackInv'
  BY DEF TypeOK, StackInv
<1>2. UniqueInv' /\ HeldInv' /\ CountInv'
  BY DEF UniqueInv, HeldInv, CountInv
<1>3. SlotInv'
  BY DEF SlotInv, Diagnostics, Runs
<1>4. OutInv'
  <2>1. SameAsSequential' <=> SameAsSequential
    BY DEF SameAsSequential, Diagnostics, Runs
  <2> QED
    BY <2>1 DEF OutInv
<1> QED
  BY <1>1, <1>2, <1>3, <1>4

LEMMA NextInv == PassInv /\ [Next]_vars => PassInv'
<1> SUFFICES ASSUME PassInv, [Next]_vars PROVE PassInv'
  OBVIOUS
<1>1. ASSUME NEW t \in Threads, Steal(t) PROVE PassInv'
  <2>1. PICK i \in Positions : Take(t, i)
    BY <1>1 DEF Steal
  <2>2. Busy(t) => Top(t).rule \in suite.waits \union {0}
    BY <1>1 DEF Steal, Free
  <2> QED
    BY <2>1, <2>2, TakeRuns, TakeSkips
<1>2. ASSUME NEW t \in Threads, TakeNext(t) PROVE PassInv'
  <2>1. PICK i \in Positions : Take(t, i)
    BY <1>2 DEF TakeNext
  <2>2. Top(t).rule \in suite.waits \union {0}
    BY <1>2 DEF TakeNext, Loop
  <2> QED
    BY <2>1, <2>2, TakeRuns, TakeSkips
<1>3. CASE \E t \in Threads : Work(t)
  BY <1>1, <1>2, <1>3, StartLoopStep, LoopEndsStep, ObserveStep, ReturnStep DEF Work
<1>4. CASE Merge
  BY <1>4, MergeStep
<1>5. CASE Again
  BY <1>5, AgainStep
<1>6. CASE UNCHANGED vars
  BY <1>6, StutterInv
<1> QED
  BY <1>3, <1>4, <1>5, <1>6 DEF Next

LEMMA Invariance == Spec => []PassInv
BY InitInv, NextInv, PTL DEF Spec

-----------------------------------------------------------------------------
(* The theorems, for any number of rules, threads and passes *)

\* The types of a pass are kept by every interleaving of its threads.
THEOREM PassTypes == Spec => []TypeOK
BY Invariance, PTL DEF PassInv

\* run_in_order's counter and rayon's par_iter alike hand out each rule once: whatever
\* the number of threads and however rules nest on them, a rule that was taken up is in
\* one frame or has its row.
THEOREM EachRunsOnce == Spec => []RunsOnce
<1>1. PassInv => RunsOnce
  <2> SUFFICES ASSUME PassInv, NEW i \in Positions
               PROVE  /\ i \in taken <=> \/ slot[i] # None
                                        \/ \E t \in Threads : \E k \in 1..Len(stack[t]) : stack[t][k].rule = i
                      /\ \A t, u \in Threads : \A k \in 1..Len(stack[t]), l \in 1..Len(stack[u]) :
                           stack[t][k].rule = i /\ stack[u][l].rule = i => t = u /\ k = l /\ slot[i] = None
    BY DEF RunsOnce
  <2>1. i # 0
    BY SuiteFields DEF PassInv
  <2>2. i \in taken => \/ slot[i] # None
                       \/ \E t \in Threads : \E k \in 1..Len(stack[t]) : stack[t][k].rule = i
    BY DEF PassInv, HeldInv
  <2>3. slot[i] # None => i \in taken
    BY DEF PassInv, SlotInv
  <2>4. ASSUME NEW t \in Threads, NEW k \in 1..Len(stack[t]), stack[t][k].rule = i
        PROVE  i \in taken /\ slot[i] = None
    BY <2>1, <2>4 DEF PassInv, StackInv, FrameOK
  <2>5. ASSUME NEW t \in Threads, NEW u \in Threads,
               NEW k \in 1..Len(stack[t]), NEW l \in 1..Len(stack[u]),
               stack[t][k].rule = i, stack[u][l].rule = i
        PROVE  t = u /\ k = l
    BY <2>1, <2>5 DEF PassInv, UniqueInv
  <2> QED
    BY <2>2, <2>3, <2>4, <2>5
<1> QED
  BY <1>1, Invariance, PTL

\* The count in the row of a rule that does not wait is what its own queries observed:
\* all of it, and nothing that another rule observed.
ObservedOwn ==
  \A i \in Positions :
    slot[i] # None /\ slot[i].ran /\ i \notin suite.waits => slot[i].observed = suite.events[i]

\* take_observed_events gives a rule that does not wait for parallel work the count of
\* its own queries, on any stack of rules a thread can build up, and although the
\* parallel work of the rules that do wait is counted on whatever thread is free.
THEOREM CountsOwn == Spec => []ObservedOwn
<1>1. PassInv => ObservedOwn
  BY DEF PassInv, SlotInv, ObservedOwn
<1> QED
  BY <1>1, Invariance, PTL

\* The result of run_rules_observed depends on the rules alone: not on the threads, on
\* the times recorded before, nor on which rules fail or panic on the way.
THEOREM SequentialResult == Spec => []SameAsSequential
<1>1. PassInv => SameAsSequential
  BY DEF PassInv, OutInv, SameAsSequential
<1> QED
  BY <1>1, Invariance, PTL

\* The recorded times are numbers, where there is one.
LEMMA RecordedType == ASSUME TypeOK PROVE \A k \in Positions : Recorded(k, timings) \in Nat \union {None}
<1>1. suite.id \in [Positions -> Ids] /\ timings \in [Ids -> Durations \union {None}]
  BY SuiteFields DEF TypeOK
<1>2. Durations \union {None} \subseteq Nat \union {None}
  BY PassAssumption
<1>3. \A k \in Positions : timings[suite.id[k]] \in Nat \union {None}
  BY <1>1, <1>2
<1> QED
  BY <1>3 DEF Recorded

\* run_in_order starts the rules in the order of longest_first_order: whichever loop
\* takes the next rule, no rule with a longer recorded time, or none, is left behind it.
THEOREM StartedLongestFirst == Spec => LongestFirst
<1> DEFINE Started ==
      mode = "longest_first" =>
        \A i \in taken' \ taken, j \in Positions \ taken' :
          LET recorded == {k \in {i, j} : Recorded(k, timings) # None}
          IN  i \in recorded => j \in recorded /\ Recorded(j, timings) <= Recorded(i, timings)
<1>1. PassInv /\ [Next]_vars => [Started]_vars
  <2> SUFFICES ASSUME PassInv, [Next]_vars, mode = "longest_first",
                      NEW i \in taken' \ taken, NEW j \in Positions \ taken', Recorded(i, timings) # None
               PROVE  Recorded(j, timings) # None /\ Recorded(j, timings) <= Recorded(i, timings)
    OBVIOUS
  <2>1. PICK t \in Threads : TakeNext(t)
    BY DEF Next, Work, Steal, StartLoop, LoopEnds, Observe, Return, Merge, Again, Begin, vars
  <2>2. PICK h \in Positions \ taken : (\A k \in Positions \ taken : ~Before(k, h)) /\ Take(t, h)
    BY <2>1 DEF TakeNext
  <2>3. h = i /\ j \in Positions \ taken
    BY <2>2 DEF Take
  <2>4. ~Before(j, i)
    BY <2>2, <2>3
  <2>5. \A k \in Positions : Recorded(k, timings) \in Nat \union {None}
    BY RecordedType DEF PassInv
  <2>6. i \in Positions
    BY <2>3
  <2> QED
    BY <2>3, <2>4, <2>5, <2>6 DEF Before
<1>2. [][Started]_vars <=> LongestFirst
  BY DEF LongestFirst
<1> HIDE DEF Started
<1> QED
  BY <1>1, <1>2, Invariance, PTL DEF Spec

-----------------------------------------------------------------------------
(* Every pass ends: the part of it that is safety *)

LEMMA PositionsFinite == IsFiniteSet(Positions) /\ \A S \in SUBSET Positions : IsFiniteSet(S)
<1>1. IsFiniteSet(Positions)
  BY PassAssumption, FS_Interval DEF Positions
<1> QED
  BY <1>1, FS_Subset

\* longest_first_order and registration order both have a next rule as long as one is left.
LEMMA NextOfOrder ==
  ASSUME TypeOK, taken # Positions
  PROVE  \E i \in Positions \ taken : \A j \in Positions \ taken : ~Before(j, i)
<1> DEFINE S == Positions \ taken
           R == {r \in S \X S : Before(r[1], r[2])}
<1>1. IsFiniteSet(S) /\ S # {}
  BY PositionsFinite DEF TypeOK
<1>2. \A i, j \in S : <<i, j>> \in R <=> Before(i, j)
  OBVIOUS
<1>3. \A k \in S : k \in Nat /\ Recorded(k, timings) \in Nat \union {None}
  BY RecordedType, PassAssumption DEF Positions
<1>4. \A i \in S : ~Before(i, i)
  BY <1>3 DEF Before
<1>5. \A i, j, k \in S : Before(i, j) /\ Before(j, k) => Before(i, k)
  BY <1>3 DEF Before
<1>6. \A i \in S : <<i, i>> \notin R
  BY <1>2, <1>4
<1>7. \A i, j, k \in S : <<i, j>> \in R /\ <<j, k>> \in R => <<i, k>> \in R
  BY <1>2, <1>5
<1>8. \E i \in S : \A j \in S : <<j, i>> \notin R
  <2> HIDE DEF S, R
  <2> QED BY <1>1, <1>6, <1>7, FirstOfAll
<1> QED BY <1>2, <1>8

\* Of finitely many rules there is a longest time.
LEMMA LongestExists ==
  ASSUME NEW S \in SUBSET Positions, NEW f, \A i \in S : f[i] \in Durations
  PROVE  \E time \in Durations \union {None} : Longest(time, {f[i] : i \in S})
<1>1. CASE S = {}
  BY <1>1 DEF Longest
<1>2. CASE S # {}
  <2> DEFINE R == {r \in S \X S : f[r[1]] > f[r[2]]}
  <2>1. IsFiniteSet(S)
    BY PositionsFinite
  <2>2. \A i, j \in S : <<i, j>> \in R <=> f[i] > f[j]
    OBVIOUS
  <2>3. \A i \in S : f[i] \in Nat
    BY PassAssumption
  <2>4. /\ \A i \in S : <<i, i>> \notin R
        /\ \A i, j, k \in S : <<i, j>> \in R /\ <<j, k>> \in R => <<i, k>> \in R
    BY <2>2, <2>3
  <2>5. \E i \in S : \A j \in S : <<j, i>> \notin R
    <3> HIDE DEF R
    <3> QED BY <1>2, <2>1, <2>4, FirstOfAll
  <2>6. PICK i \in S : \A j \in S : ~(f[j] > f[i])
    BY <2>2, <2>5
  <2>7. Longest(f[i], {f[j] : j \in S})
    BY <2>3, <2>6 DEF Longest
  <2> QED BY <2>7
<1> QED BY <1>1, <1>2

\* As long as rules are left to the worker loops, there is a loop.
LoopInv ==
  mode # "registration" /\ taken # Positions =>
    loops > 0 \/ \E t \in Threads : \E k \in 1..Len(stack[t]) : stack[t][k].rule = 0

\* A pass begins with a loop, if it is to have one and there is a rule at all.
LEMMA LoopsAtBegin ==
  ASSUME Threads # {}, NEW m \in Modes, m # "registration", N # 0
  PROVE  LoopsOf(m) > 0
<1>1. Cardinality(Threads) \in Nat /\ Cardinality(Threads) # 0
  BY PassAssumption, FS_CardinalityType, FS_EmptySet
<1> QED
  BY <1>1, PassAssumption DEF LoopsOf, Modes

\* A frame stays where it is until it is the innermost one and is taken off.
LEMMA LoopStays ==
  ASSUME PassInv, LoopInv, NEW t \in Threads, Work(t), taken # Positions, mode # "registration"
  PROVE  loops' > 0 \/ \E u \in Threads : \E k \in 1..Len(stack'[u]) : stack'[u][k].rule = 0
<1> DEFINE Held == \E u \in Threads : \E k \in 1..Len(stack[u]) : stack[u][k].rule = 0
<1>1. CASE StartLoop(t)
  <2>1. stack'[t][Len(stack[t]) + 1] = Loop /\ Len(stack[t]) + 1 \in 1..Len(stack'[t])
    <3>1. Busy(t) => Top(t).rule \in suite.waits \union {0}
      BY <1>1 DEF StartLoop, Free
    <3> QED BY <1>1, <3>1, PushInv, LoopFrame DEF StartLoop
  <2> QED BY <2>1 DEF Loop
<1>2. CASE TakeNext(t)
  <2>1. PICK i \in Positions : Take(t, i)
    BY <1>2 DEF TakeNext
  <2>2. CASE Runs(i)
    <3>1. /\ Push(t, [rule |-> i, seen |-> 0]) /\ loops' = loops
          /\ Busy(t) => Top(t).rule \in suite.waits \union {0}
      BY <1>2, <2>1, <2>2 DEF Take, TakeNext, Loop
    <3>2. /\ Len(stack'[t]) = Len(stack[t]) + 1 /\ Len(stack[t]) \in Nat
          /\ \A k \in 1..Len(stack[t]) : stack'[t][k] = stack[t][k]
          /\ \A u \in Threads \ {t} : stack'[u] = stack[u]
      BY <3>1, PushInv, RuleFrame
    <3>3. \A u \in Threads : \A k \in 1..Len(stack[u]) : k \in 1..Len(stack'[u]) /\ stack'[u][k] = stack[u][k]
      BY <3>2
    <3> QED BY <3>1, <3>3 DEF LoopInv
  <2>3. CASE ~Runs(i)
    BY <2>1, <2>3 DEF Take, LoopInv
  <2> QED BY <2>2, <2>3
<1>3. CASE Observe(t)
  <2>1. \A u \in Threads : \A k \in 1..Len(stack[u]) :
          k \in 1..Len(stack'[u]) /\ stack'[u][k].rule = stack[u][k].rule
    BY <1>3, ObserveFrame
  <2>2. loops' = loops
    BY <1>3 DEF Observe
  <2> QED BY <2>1, <2>2 DEF LoopInv
<1>4. CASE Return(t)
  <2>1. Busy(t) /\ Pop(t) /\ Top(t) # Loop /\ loops' = loops
    BY <1>4 DEF Return
  <2>2. /\ Len(stack'[t]) = Len(stack[t]) - 1
        /\ Len(stack[t]) \in Nat /\ Len(stack[t]) >= 1
        /\ \A k \in 1..Len(stack[t]) - 1 : stack'[t][k] = stack[t][k]
        /\ \A u \in Threads \ {t} : stack'[u] = stack[u]
    BY <2>1, PopInv
  <2>3. stack[t][Len(stack[t])].rule # 0
    BY <2>1, <2>2 DEF PassInv, StackInv, FrameOK, Top
  <2>4. \A u \in Threads : \A k \in 1..Len(stack[u]) :
          stack[u][k].rule = 0 => k \in 1..Len(stack'[u]) /\ stack'[u][k] = stack[u][k]
    BY <2>2, <2>3
  <2> QED BY <2>1, <2>4 DEF LoopInv
<1>5. ~Steal(t) /\ ~LoopEnds(t)
  BY DEF Steal, LoopEnds
<1> QED BY <1>1, <1>2, <1>3, <1>4, <1>5 DEF Work

LEMMA LoopInvariant == ASSUME Threads # {} PROVE Spec => []LoopInv
<1>1. Init => LoopInv
  BY LoopsAtBegin, ModeType, PassAssumption DEF Init, LoopInv, Positions
<1>2. PassInv /\ LoopInv /\ [Next]_vars => LoopInv'
  <2> SUFFICES ASSUME PassInv, LoopInv, [Next]_vars, mode' # "registration", taken' # Positions
               PROVE  loops' > 0 \/ \E t \in Threads : \E k \in 1..Len(stack'[t]) : stack'[t][k].rule = 0
    BY DEF LoopInv
  <2>1. ASSUME NEW t \in Threads, Work(t)
        PROVE  loops' > 0 \/ \E u \in Threads : \E k \in 1..Len(stack'[u]) : stack'[u][k].rule = 0
    <3>1. mode' = mode
      BY <2>1 DEF Work, Steal, StartLoop, TakeNext, LoopEnds, Observe, Return, Take
    <3>2. taken # Positions
      BY <2>1 DEF Work, Steal, StartLoop, TakeNext, LoopEnds, Observe, Return, Take
    <3> QED BY <2>1, <3>1, <3>2, LoopStays
  <2>2. CASE Merge
    BY <2>2 DEF Merge, LoopInv
  <2>3. CASE Again
    <3>1. PICK times : Begin(times)
      BY <2>3 DEF Again
    <3>2. mode' \in Modes /\ loops' = LoopsOf(mode') /\ taken' = {}
      BY <3>1, ModeType DEF Begin
    <3>3. N # 0
      BY <3>2, PassAssumption DEF Positions
    <3> QED BY <3>2, <3>3, LoopsAtBegin
  <2>4. CASE UNCHANGED vars
    BY <2>4 DEF vars, LoopInv
  <2> QED BY <2>1, <2>2, <2>3, <2>4 DEF Next
<1> QED BY <1>1, <1>2, Invariance, PTL DEF Spec

\* A thread has a job to start, a loop that goes on or ends, or a rule that observes
\* its next event or returns.
CanWork(t) ==
  \/ mode = "registration" /\ Free(t) /\ taken # Positions
  \/ loops > 0 /\ Free(t)
  \/ /\ Busy(t) /\ Top(t) = Loop
     /\ \/ taken = Positions
        \/ \E i \in Positions \ taken : \A j \in Positions \ taken : ~Before(j, i)
  \/ /\ Busy(t) /\ Top(t) # Loop
     /\ \/ Top(t).seen < suite.events[Top(t).rule]
        \/ Top(t).seen = suite.events[Top(t).rule] /\ Durations # {}

\* The scope can be left and the rows merged.
CanMerge ==
  /\ taken = Positions /\ loops = 0
  /\ \A t \in Threads : ~Busy(t)
  /\ \E times \in [Ids -> Durations \union {None}] :
       \A x \in Ids : Longest(times[x], {slot[i].elapsed : i \in Ran(x)})

NeverStuck ==
  out = None =>
    /\ \A t \in Threads : Busy(t) => CanWork(t)
    /\ (\E t \in Threads : CanWork(t)) \/ CanMerge

\* No pass gets stuck: a thread that is in the middle of something can always go on,
\* however rules that wait have nested others on their threads, and when no thread has
\* anything to do the pass returns.  No rule is left behind by the worker loops
\* (run_in_order), and none waits for a thread that waits.
THEOREM PassNeverStuck == ASSUME Threads # {}, Durations # {} PROVE Spec => []NeverStuck
<1>1. PassInv /\ LoopInv => NeverStuck
  <2> SUFFICES ASSUME PassInv, LoopInv, out = None
               PROVE  /\ \A t \in Threads : Busy(t) => CanWork(t)
                      /\ (\E t \in Threads : CanWork(t)) \/ CanMerge
    BY DEF NeverStuck
  <2>1. ASSUME NEW t \in Threads, Busy(t) PROVE CanWork(t)
    <3>1. stack[t] \in Seq(Frames) /\ stack[t] # <<>>
      BY <2>1 DEF Busy, PassInv, TypeOK
    <3>2. Len(stack[t]) \in 1..Len(stack[t])
      BY <3>1, TopFrame
    <3>3. FrameOK(Top(t), taken, slot, suite)
      BY <3>2 DEF PassInv, StackInv, Top
    <3>4. CASE Top(t) = Loop
      BY <2>1, <3>4, NextOfOrder DEF CanWork, PassInv
    <3>5. CASE Top(t) # Loop
      <4>1. Top(t).rule \in Positions /\ Top(t).seen <= suite.events[Top(t).rule]
        BY <3>1, <3>3, <3>5, TopFrame DEF FrameOK, Frames, Top
      <4>2. Top(t).seen \in Nat /\ suite.events[Top(t).rule] \in Nat
        BY <3>1, <4>1, TopFrame, SuiteFields DEF Frames, Top, PassInv
      <4> QED BY <2>1, <3>5, <4>1, <4>2 DEF CanWork
    <3> QED BY <3>4, <3>5
  <2>2. CASE \E t \in Threads : Busy(t)
    BY <2>1, <2>2
  <2>3. CASE \A t \in Threads : ~Busy(t)
    <3>1. \A t \in Threads : Free(t) /\ Len(stack[t]) = 0
      BY <2>3 DEF Free, Busy
    <3>2. CASE loops > 0 \/ (mode = "registration" /\ taken # Positions)
      BY <3>1, <3>2 DEF CanWork
    <3>3. CASE ~(loops > 0) /\ (mode # "registration" \/ taken = Positions)
      <4>1. loops = 0 /\ taken = Positions
        BY <3>1, <3>3 DEF LoopInv, PassInv, TypeOK
      <4>2. \A i \in Positions : slot[i] # None
        BY <2>3, <3>1, <4>1 DEF PassInv, HeldInv
      <4> DEFINE elapsed == [i \in Positions |-> slot[i].elapsed]
      <4>3. \A i \in Positions : slot[i].ran => elapsed[i] \in Durations
        BY <4>2 DEF PassInv, SlotInv
      <4>4. ASSUME NEW x \in Ids
            PROVE  \E time \in Durations \union {None} : Longest(time, {slot[i].elapsed : i \in Ran(x)})
        <5>1. Ran(x) \in SUBSET Positions /\ \A i \in Ran(x) : slot[i].ran
          BY DEF Ran
        <5>2. {slot[i].elapsed : i \in Ran(x)} = {elapsed[i] : i \in Ran(x)}
          BY <5>1
        <5> HIDE DEF elapsed
        <5> QED BY <4>3, <5>1, <5>2, LongestExists
      <4> DEFINE times == [x \in Ids |->
                   CHOOSE time \in Durations \union {None} : Longest(time, {slot[i].elapsed : i \in Ran(x)})]
      <4>5. /\ times \in [Ids -> Durations \union {None}]
            /\ \A x \in Ids : Longest(times[x], {slot[i].elapsed : i \in Ran(x)})
        BY <4>4
      <4> HIDE DEF times
      <4>6. CanMerge
        BY <2>3, <4>1, <4>5 DEF CanMerge
      <4> QED BY <2>1, <4>6
    <3> QED BY <3>2, <3>3
  <2> QED BY <2>1, <2>2, <2>3
<1> QED BY <1>1, LoopInvariant, Invariance, PTL

-----------------------------------------------------------------------------
(* A pass implements AtomicPass *)

\* The row a rule gets when it returns is its first, and has its own count unless it waits.
LEMMA ReturnRow ==
  ASSUME PassInv, NEW t \in Threads, Return(t)
  PROVE  \E i \in Positions : \E n \in Nat : \E e \in Durations :
           /\ slot[i] = None /\ Runs(i)
           /\ i \notin suite.waits => n = suite.events[i]
           /\ slot' = [slot EXCEPT ![i] = Row(i, TRUE, n, e)]
<1> DEFINE n == Len(stack[t])
           g == stack[t][n]
           i == g.rule
<1>1. Busy(t) /\ g # Loop /\ g.seen = suite.events[i]
  BY DEF Return, Top
<1>2. PICK e \in Durations : slot' = [slot EXCEPT ![i] = Row(i, TRUE, count[t], e)]
  BY DEF Return, Top
<1>3. stack[t] \in Seq(Frames) /\ stack[t] # <<>>
  BY <1>1 DEF Busy, PassInv, TypeOK
<1>4. n \in 1..n /\ n \in Nat /\ g \in Frames
  BY <1>3, TopFrame
<1>5. FrameOK(g, taken, slot, suite)
  BY <1>4 DEF PassInv, StackInv
<1>6. i \in Positions /\ i # 0 /\ slot[i] = None /\ Runs(i)
  BY <1>1, <1>4, <1>5, SuiteFields DEF FrameOK, PassInv, Frames, Runs
<1>7. count[t] \in Nat /\ (i \notin suite.waits => count[t] = suite.events[i])
  BY <1>1, <1>4, <1>6 DEF PassInv, CountInv, TypeOK
<1> HIDE DEF i
<1> QED
  BY <1>2, <1>6, <1>7

\* The row of a rule without its count
LEMMA Uncounted ==
  ASSUME NEW i, NEW ran, NEW n, NEW e
  PROVE  [Row(i, ran, n, e) EXCEPT !.observed = 0] = Row(i, ran, 0, e)
<1> DEFINE q == [diagnostics |-> Diagnostics(i), ran |-> ran, observed |-> n, elapsed |-> e]
           r == [diagnostics |-> Diagnostics(i), ran |-> ran, observed |-> 0, elapsed |-> e]
<1>1. DOMAIN [q EXCEPT !["observed"] = 0] = DOMAIN r
  OBVIOUS
<1>2. \A x \in DOMAIN r : [q EXCEPT !["observed"] = 0][x] = r[x]
  OBVIOUS
<1> QED
  BY <1>1, <1>2 DEF Row

\* A row that is written is written as it is shown.
LEMMA ShownRow ==
  ASSUME PassInv, suite' = suite, NEW i \in Positions, slot[i] = None,
         NEW q, q # None, slot' = [slot EXCEPT ![i] = q]
  PROVE  /\ Shown(i) = None
         /\ [j \in Positions |-> Shown(j)]'
              = [[j \in Positions |-> Shown(j)] EXCEPT ![i] =
                   IF i \in suite.waits THEN [q EXCEPT !.observed = 0] ELSE q]
<1>1. slot'[i] = q /\ \A j \in Positions \ {i} : slot'[j] = slot[j]
  BY DEF PassInv, TypeOK
<1>2. Shown(i)' = IF i \in suite.waits THEN [q EXCEPT !.observed = 0] ELSE q
  BY <1>1 DEF Shown
<1>3. \A j \in Positions \ {i} : Shown(j)' = Shown(j)
  BY <1>1 DEF Shown
<1>4. Shown(i) = None
  BY DEF Shown
<1> QED
  BY <1>2, <1>3, <1>4

\* One step of the pool is one step of the atomic pass, or none that it shows.
LEMMA AtomicStep ==
  ASSUME PassInv, [Next]_vars
  PROVE  [Atomic!Next]_<<[i \in Positions |-> RowsOf(i)], [i \in Positions |-> Shown(i)],
                        IF out = None THEN {} ELSE {out.diagnostics}>>
<1> DEFINE may    == [i \in Positions |-> RowsOf(i)]
           shown  == [i \in Positions |-> Shown(i)]
           result == IF out = None THEN {} ELSE {out.diagnostics}
<1>1. suite' = suite
  BY DEF Next, Work, Steal, StartLoop, TakeNext, Take, LoopEnds, Observe, Return, Merge, Again, vars
<1>2. may' = may
  BY <1>1 DEF RowsOf, Runs, Row, Diagnostics
<1>3. UNCHANGED slot => shown' = shown
  BY <1>1 DEF Shown
<1>4. ASSUME NEW i \in Positions, slot[i] = None, NEW q, q # None, slot' = [slot EXCEPT ![i] = q], out' = out,
             (IF i \in suite.waits THEN [q EXCEPT !.observed = 0] ELSE q) \in RowsOf(i)
      PROVE  Atomic!Next
  <2> DEFINE r == IF i \in suite.waits THEN [q EXCEPT !.observed = 0] ELSE q
  <2>1. shown[i] = None /\ shown' = [shown EXCEPT ![i] = r]
    BY <1>1, <1>4, ShownRow
  <2>2. r \in may[i]
    BY <1>4
  <2>3. may' = may /\ result' = result
    BY <1>2, <1>4
  <2> HIDE DEF r, may, shown, result
  <2>4. shown[i] = None /\ (\E x \in may[i] : shown' = [shown EXCEPT ![i] = x]) /\ UNCHANGED <<may, result>>
    BY <2>1, <2>2, <2>3
  <2>5. Atomic!Run(i)
    BY <2>4 DEF Atomic!Run, may, shown, result
  <2> QED BY <2>5 DEF Atomic!Next
<1>5. ASSUME NEW t \in Threads, NEW i \in Positions, Take(t, i)
      PROVE  UNCHANGED <<slot, out>> \/ Atomic!Next
  <2>1. CASE Runs(i)
    BY <1>5, <2>1 DEF Take
  <2>2. CASE ~Runs(i)
    <3> DEFINE q == Row(i, FALSE, 0, 0)
    <3>1. slot[i] = None /\ slot' = [slot EXCEPT ![i] = q] /\ out' = out
      BY <1>5, <2>2 DEF Take, PassInv, SlotInv
    <3>2. q # None
      BY RowType DEF PassInv
    <3>3. q \in RowsOf(i)
      BY <2>2 DEF RowsOf
    <3>4. [q EXCEPT !.observed = 0] = q
      BY Uncounted
    <3> HIDE DEF q
    <3> QED BY <1>4, <3>1, <3>2, <3>3, <3>4
  <2> QED BY <2>1, <2>2
<1>6. ASSUME NEW t \in Threads, Return(t) PROVE Atomic!Next
  <2>1. PICK i \in Positions : \E n \in Nat : \E e \in Durations :
          /\ slot[i] = None /\ Runs(i)
          /\ i \notin suite.waits => n = suite.events[i]
          /\ slot' = [slot EXCEPT ![i] = Row(i, TRUE, n, e)]
    BY <1>6, ReturnRow
  <2>2. PICK n \in Nat : \E e \in Durations :
          /\ slot[i] = None /\ Runs(i)
          /\ i \notin suite.waits => n = suite.events[i]
          /\ slot' = [slot EXCEPT ![i] = Row(i, TRUE, n, e)]
    BY <2>1
  <2>3. PICK e \in Durations :
          /\ slot[i] = None /\ Runs(i)
          /\ i \notin suite.waits => n = suite.events[i]
          /\ slot' = [slot EXCEPT ![i] = Row(i, TRUE, n, e)]
    BY <2>2
  <2> DEFINE q == Row(i, TRUE, n, e)
  <2>4. q # None
    BY RowType DEF PassInv
  <2>5. [q EXCEPT !.observed = 0] = Row(i, TRUE, 0, e)
    BY Uncounted
  <2>6. Row(i, TRUE, IF i \in suite.waits THEN 0 ELSE suite.events[i], e) \in RowsOf(i)
    BY <2>3 DEF RowsOf
  <2>7. (IF i \in suite.waits THEN [q EXCEPT !.observed = 0] ELSE q) \in RowsOf(i)
    <3>1. CASE i \in suite.waits
      BY <2>5, <2>6, <3>1
    <3>2. CASE i \notin suite.waits
      BY <2>3, <2>6, <3>2
    <3> QED BY <3>1, <3>2
  <2>8. out' = out /\ slot' = [slot EXCEPT ![i] = q]
    BY <1>6, <2>3 DEF Return
  <2> HIDE DEF q
  <2> QED BY <1>4, <2>3, <2>4, <2>7, <2>8
<1>7. ASSUME NEW t \in Threads, Work(t) PROVE UNCHANGED <<slot, out>> \/ Atomic!Next
  <2>1. CASE StartLoop(t) \/ LoopEnds(t) \/ Observe(t)
    BY <2>1 DEF StartLoop, LoopEnds, Observe
  <2>2. CASE Steal(t) \/ TakeNext(t)
    BY <1>5, <2>2 DEF Steal, TakeNext
  <2> QED BY <1>6, <1>7, <2>1, <2>2 DEF Work
<1>8. CASE Merge /\ out' # None
  <2>1. /\ out = None /\ slot' = slot
        /\ out'.diagnostics = UNION {slot[i].diagnostics : i \in Positions}
    BY <1>8 DEF Merge
  <2>2. \A i \in Positions : slot[i] # None
    <3>1. taken = Positions /\ \A t \in Threads : Len(stack[t]) = 0
      BY <1>8 DEF Merge, Busy
    <3> QED BY <3>1 DEF PassInv, HeldInv
  <2>3. \A i \in Positions : shown[i].diagnostics = slot[i].diagnostics /\ shown[i] # None
    <3> SUFFICES ASSUME NEW i \in Positions
                 PROVE  shown[i].diagnostics = slot[i].diagnostics /\ shown[i] # None
      OBVIOUS
    <3>1. slot[i] \in Rows /\ [slot[i] EXCEPT !.observed = 0] \in Rows
      BY <2>2 DEF PassInv, TypeOK, Rows
    <3>2. [slot[i] EXCEPT !.observed = 0].diagnostics = slot[i].diagnostics
      BY <3>1 DEF Rows
    <3> QED BY <2>2, <3>1, <3>2, NoneAssumption DEF Shown
  <2>4. shown' = shown /\ may' = may
    BY <1>2, <1>3, <2>1
  <2>5. result = {} /\ result' = {UNION {shown[i].diagnostics : i \in Positions}}
    BY <1>8, <2>1, <2>3
  <2> HIDE DEF shown, may, result
  <2>6. Atomic!Return
    BY <2>3, <2>4, <2>5 DEF Atomic!Return, shown, may, result
  <2> QED BY <2>6 DEF Atomic!Next
<1>9. UNCHANGED <<slot, out>> => UNCHANGED <<may, shown, result>>
  BY <1>2, <1>3
<1>10. CASE Merge /\ out' = None
  BY <1>9, <1>10 DEF Merge
<1>11. CASE Again
  <2>1. out # None /\ out' = None /\ slot' = [i \in Positions |-> None]
    BY <1>11 DEF Again, Begin
  <2>2. shown' = [i \in Positions |-> None]
    BY <2>1 DEF Shown
  <2>3. Atomic!Again
    BY <1>2, <2>1, <2>2 DEF Atomic!Again
  <2> QED BY <2>3 DEF Atomic!Next
<1> QED
  BY <1>7, <1>8, <1>9, <1>10, <1>11 DEF Next, vars

\* run_rules_observed, with its pool of threads, implements AtomicPass: for any rules,
\* threads and recorded times, and however rules that wait are nested, each rule has its
\* row from one moment of the pass on, the row it has when run alone.  The count of a
\* rule that waits is not part of the claim.
THEOREM PassIsAtomic == Spec => RulesRunAtomically
<1>1. Init => Atomic!Init
  BY DEF Init, Atomic!Init, Shown
<1>2. PassInv /\ [Next]_vars =>
        [Atomic!Next]_<<[i \in Positions |-> RowsOf(i)], [i \in Positions |-> Shown(i)],
                        IF out = None THEN {} ELSE {out.diagnostics}>>
  BY AtomicStep
<1> QED
  BY <1>1, <1>2, Invariance, PTL DEF Spec, RulesRunAtomically, Atomic!Spec

=============================================================================
