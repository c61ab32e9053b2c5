----------------------- MODULE SubprocessRunnerProofs -----------------------
(***************************************************************************)
(* Proofs about SubprocessRunner, for any streams, pipe capacity, timeout, *)
(* cleanup grace and amount of output.                                     *)
(***************************************************************************)
EXTENDS SubprocessRunner, TLAPS

\* Nothing the child wrote is lost: it is collected or still in the pipe.
Conserved == \A s \in Streams : bytes[s] + pipe[s] = sent[s]

\* Once the tree was killed nothing of it runs, and the readers are cancelled only then.
AfterKill == pc \in {"cancel", "reap", "join", "returned"} => child # "running" /\ kin # "running"
CancelledLate == cancel => pc \in {"reap", "join", "returned"}

\* A reader that has observed the cancellation and is not about to read, has read
\* since, or stalled: the pipe holds nothing more of the child's.
Observed ==
  \A s \in Streams :
    /\ age[s] # None => cancel /\ reader[s] # "wait"
    /\ age[s] # None /\ reader[s] = "top" => pipe[s] = 0
    /\ age[s] = "old" /\ reader[s] = "elapsed" => pipe[s] = 0 \/ s \in stalled

\* A reader ends by itself only with the child dead and, unless it stalled, its pipe
\* drained.
Drained ==
  \A s \in Streams : reader[s] = "done" => (pipe[s] = 0 \/ s \in stalled) /\ child # "running"

\* A reader that was joined, and leaves the run successful, has ended.
JoinedEnded ==
  /\ pc \notin {"join", "returned"} => unread = Streams
  /\ verdict = "ok" => \A s \in Streams \ unread : reader[s] = "done"
  /\ pc = "returned" => unread = {}

\* The inductive invariant: what the runner keeps, and what the readers have drained.
Inv == TypeOK /\ Conserved /\ AfterKill /\ CancelledLate
DrainInv == Observed /\ Drained /\ JoinedEnded

\* The initial states.
LEMMA InitHolds == Init => Inv /\ DrainInv
<1> SUFFICES ASSUME Init PROVE Inv /\ DrainInv
  OBVIOUS
<1>1. TypeOK
  <2>1. Capacity \in Nat /\ Timeout \in Nat /\ Grace \in Nat /\ MaxOutput \in Nat
    BY RunnerAssumption
  <2>2. /\ pipe \in [Streams -> 0..Capacity] /\ noise \in [Streams -> 0..Capacity]
        /\ bytes \in [Streams -> 0..MaxOutput] /\ sent \in [Streams -> 0..MaxOutput]
        /\ rest \in [Streams -> 0..1]
    BY <2>1 DEF Init
  <2>3. left \in 0..Timeout /\ grace \in 0..Grace /\ late \in 0..(Grace + 1) /\ nap \in 0..1
    BY <2>1 DEF Init
  <2> QED BY <2>2, <2>3 DEF Init, TypeOK, None
<1>2. Conserved /\ AfterKill /\ CancelledLate
  BY DEF Init, Conserved, AfterKill, CancelledLate, None
<1>3. Observed /\ Drained /\ JoinedEnded
  BY DEF Init, Observed, Drained, JoinedEnded, None
<1> QED BY <1>1, <1>2, <1>3 DEF Inv, DrainInv

\* The runner's own steps keep what it knows of the tree and of its own fields.
LEMMA RunnerKeeps == ASSUME Inv, RunnerStep PROVE Inv'
<1> USE RunnerAssumption DEF Inv, TypeOK, Conserved, AfterKill, CancelledLate, None, readers, world,
        pipes, clock, Least
<1>1. CASE TryWait
  BY <1>1 DEF TryWait
<1>2. CASE Decide
  BY <1>2 DEF Decide, Sleep
<1>3. CASE Kill
  BY <1>3 DEF Kill
<1>4. CASE Cancel
  BY <1>4 DEF Cancel
<1>5. CASE Reap
  BY <1>5 DEF Reap, Sleep
<1>6. ASSUME NEW s \in Streams, Join(s) PROVE Inv'
  BY <1>6 DEF Join, JoinOne, Sleep
<1>7. CASE Return
  BY <1>7 DEF Return
<1> QED BY <1>1, <1>2, <1>3, <1>4, <1>5, <1>6, <1>7 DEF RunnerStep

\* The readers move the child's output from the pipe and leave the rest alone.
LEMMA ReaderKeeps == ASSUME Inv, NEW s \in Streams, ReaderStep(s) PROVE Inv'
<1> USE RunnerAssumption DEF Inv, TypeOK, Conserved, AfterKill, CancelledLate, None, runner, world,
        pipes, clock, Goto
<1>1. CASE SeeCancel(s)
  BY <1>1 DEF SeeCancel
<1>2. CASE Elapsed(s)
  BY <1>2 DEF Elapsed
<1>3. CASE Read(s)
  <2>1. CASE /\ bytes' = [bytes EXCEPT ![s] = @ + pipe[s]]
             /\ pipe' = [pipe EXCEPT ![s] = 0]
             /\ noise' = [noise EXCEPT ![s] = 0]
             /\ Goto(s, "top") /\ UNCHANGED rest
    <3>1. bytes[s] + pipe[s] \in 0..MaxOutput
      OBVIOUS
    <3>2. TypeOK'
      BY <1>3, <2>1, <3>1 DEF Read
    <3>3. Conserved'
      BY <1>3, <2>1 DEF Read
    <3> QED BY <1>3, <2>1, <3>2, <3>3 DEF Read
  <2>2. CASE UNCHANGED <<bytes, pipes>>
    BY <1>3, <2>2 DEF Read
  <2> QED BY <1>3, <2>1, <2>2 DEF Read
<1>4. CASE Wake(s)
  BY <1>4 DEF Wake
<1> QED BY <1>1, <1>2, <1>3, <1>4 DEF ReaderStep

\* The processes and the clock.
Outside ==
  \/ \E s \in Streams : ChildWrites(s) \/ DescendantWrites(s)
  \/ ChildForks \/ ProcessEnds \/ PidReused \/ Tick

LEMMA OutsideKeeps == ASSUME Inv, Outside PROVE Inv'
<1> USE RunnerAssumption DEF Inv, TypeOK, Conserved, AfterKill, CancelledLate, None, runner, readers,
        world, pipes, clock
<1>1. ASSUME NEW s \in Streams, ChildWrites(s) PROVE Inv'
  BY <1>1 DEF ChildWrites
<1>2. ASSUME NEW s \in Streams, DescendantWrites(s) PROVE Inv'
  BY <1>2 DEF DescendantWrites
<1>3. CASE ChildForks
  BY <1>3 DEF ChildForks
<1>4. CASE ProcessEnds
  BY <1>4 DEF ProcessEnds
<1>5. CASE PidReused
  BY <1>5 DEF PidReused
<1>6. CASE Tick
  BY <1>6 DEF Tick, Down, Least
<1> QED BY <1>1, <1>2, <1>3, <1>4, <1>5, <1>6 DEF Outside

\* What the drained output needs: the runner's steps.
LEMMA RunnerDrains == ASSUME Inv, DrainInv, RunnerStep PROVE DrainInv'
<1> USE DEF Inv, DrainInv, TypeOK, AfterKill, Observed, Drained, JoinedEnded, None, readers, world,
        pipes, clock
<1>1. CASE TryWait
  BY <1>1 DEF TryWait
<1>2. CASE Decide
  BY <1>2 DEF Decide, Sleep
<1>3. CASE Kill
  BY <1>3 DEF Kill
<1>4. CASE Cancel
  BY <1>4 DEF Cancel
<1>5. CASE Reap
  BY <1>5 DEF Reap, Sleep
<1>6. ASSUME NEW s \in Streams, Join(s) PROVE DrainInv'
  BY <1>6 DEF Join, JoinOne, Finished, Sleep
<1>7. CASE Return
  BY <1>7 DEF Return
<1> QED BY <1>1, <1>2, <1>3, <1>4, <1>5, <1>6, <1>7 DEF RunnerStep

\* The readers' steps.
LEMMA ReaderDrains == ASSUME Inv, DrainInv, NEW s \in Streams, ReaderStep(s) PROVE DrainInv'
<1> USE DEF Inv, DrainInv, TypeOK, AfterKill, CancelledLate, Observed, Drained, JoinedEnded, None,
        runner, world, pipes, clock, Goto
<1>1. CASE SeeCancel(s)
  BY <1>1 DEF SeeCancel
<1>2. CASE Elapsed(s)
  BY <1>2 DEF Elapsed
<1>3. CASE Read(s)
  BY <1>3 DEF Read, Empty, Held
<1>4. CASE Wake(s)
  BY <1>4 DEF Wake
<1> QED BY <1>1, <1>2, <1>3, <1>4 DEF ReaderStep

\* The processes and the clock.
LEMMA OutsideDrains == ASSUME Inv, DrainInv, Outside PROVE DrainInv'
<1> USE RunnerAssumption DEF Inv, DrainInv, TypeOK, AfterKill, CancelledLate, Observed, Drained,
        JoinedEnded, None, runner, readers, world, pipes, clock
<1>1. ASSUME NEW s \in Streams, ChildWrites(s) PROVE DrainInv'
  BY <1>1 DEF ChildWrites
<1>2. ASSUME NEW s \in Streams, DescendantWrites(s) PROVE DrainInv'
  BY <1>2 DEF DescendantWrites
<1>3. CASE ChildForks
  BY <1>3 DEF ChildForks
<1>4. CASE ProcessEnds
  BY <1>4 DEF ProcessEnds
<1>5. CASE PidReused
  BY <1>5 DEF PidReused
<1>6. CASE Tick
  BY <1>6 DEF Tick
<1> QED BY <1>1, <1>2, <1>3, <1>4, <1>5, <1>6 DEF Outside

\* Inv is inductive.
LEMMA InvStep == Inv /\ [Next]_vars => Inv'
<1> SUFFICES ASSUME Inv, [Next]_vars PROVE Inv'
  OBVIOUS
<1>1. CASE UNCHANGED vars
  BY <1>1 DEF vars, Inv, TypeOK, Conserved, AfterKill, CancelledLate
<1>2. CASE Next
  BY <1>2, RunnerKeeps, ReaderKeeps, OutsideKeeps DEF Next, Outside
<1> QED BY <1>1, <1>2

\* DrainInv is inductive relative to Inv.
LEMMA DrainStep == Inv /\ DrainInv /\ [Next]_vars => DrainInv'
<1> SUFFICES ASSUME Inv, DrainInv, [Next]_vars PROVE DrainInv'
  OBVIOUS
<1>1. CASE UNCHANGED vars
  BY <1>1 DEF vars, DrainInv, Observed, Drained, JoinedEnded
<1>2. CASE Next
  BY <1>2, RunnerDrains, ReaderDrains, OutsideDrains DEF Next, Outside
<1> QED BY <1>1, <1>2

\* Every variable of run_bounded keeps its type: nothing is counted twice, no
\* sleep is longer than a poll interval and no collected output exceeds what was written.
THEOREM RunnerTypeCorrect == Spec => []TypeOK
<1>1. Init => Inv
  BY InitHolds
<1>2. Inv => TypeOK
  BY DEF Inv
<1> QED BY <1>1, <1>2, InvStep, PTL DEF Spec

\* Whatever the program does and however long polling and joining take, run_bounded
\* returns only after the child's whole process group was sent SIGKILL.
THEOREM WholeTreeKilled == Spec => []TreeKilled
<1>1. Init => Inv
  BY InitHolds
<1>2. Inv => TreeKilled
  BY DEF Inv, AfterKill, TreeKilled
<1> QED BY <1>1, <1>2, InvStep, PTL DEF Spec

\* A successful run_bounded returns all of the child's output, but for a stream whose
\* reader was kept off the processor for a poll interval between its two looks at the clock.
THEOREM NoOutputLost == Spec => []CompleteOutput
<1>1. Init => Inv /\ DrainInv
  BY InitHolds
<1>2. Inv /\ DrainInv /\ [Next]_vars => Inv' /\ DrainInv'
  BY InvStep, DrainStep
<1>3. Inv /\ DrainInv => CompleteOutput
  <2> SUFFICES ASSUME Inv, DrainInv, pc = "returned", verdict = "ok", NEW s \in Streams
               PROVE  bytes[s] = sent[s] \/ s \in stalled
    BY DEF CompleteOutput
  <2>1. reader[s] = "done"
    BY DEF DrainInv, JoinedEnded
  <2>2. pipe[s] = 0 \/ s \in stalled
    BY <2>1 DEF DrainInv, Drained
  <2>3. bytes[s] \in Nat /\ bytes[s] + pipe[s] = sent[s]
    BY RunnerAssumption DEF Inv, TypeOK, Conserved
  <2> QED BY <2>2, <2>3
<1> QED BY <1>1, <1>2, <1>3, PTL DEF Spec

-----------------------------------------------------------------------------
\* The run ends in time.

\* Until the deadline nothing is late; the runner never sleeps past the deadline or
\* past the cleanup deadline; and what is left of the grace shrinks as it gets late.
InTimeInv ==
  /\ left > 0 => late = 0
  /\ pc \in {"poll", "decide"} => late = 0 /\ grace = 0
  /\ pc = "poll" => nap <= left
  /\ pc \in {"decide", "kill", "cancel"} => nap = 0
  /\ pc \in {"reap", "join"} => nap <= grace
  /\ pc # "returned" => late + grace <= Grace

LEMMA InTimeRunner == ASSUME TypeOK, InTimeInv, RunnerStep PROVE InTimeInv'
<1> USE RunnerAssumption DEF TypeOK, InTimeInv, None, readers, world, pipes, clock, Least
<1>1. CASE TryWait
  BY <1>1 DEF TryWait
<1>2. CASE Decide
  BY <1>2 DEF Decide, Sleep
<1>3. CASE Kill
  BY <1>3 DEF Kill
<1>4. CASE Cancel
  BY <1>4 DEF Cancel
<1>5. CASE Reap
  BY <1>5 DEF Reap, Sleep
<1>6. ASSUME NEW s \in Streams, Join(s) PROVE InTimeInv'
  BY <1>6 DEF Join, JoinOne, Sleep
<1>7. CASE Return
  BY <1>7 DEF Return
<1> QED BY <1>1, <1>2, <1>3, <1>4, <1>5, <1>6, <1>7 DEF RunnerStep

\* Only the intervals in which the runner sleeps make it later.
LEMMA InTimeTick == ASSUME TypeOK, InTimeInv, Tick PROVE InTimeInv'
<1> USE RunnerAssumption DEF TypeOK, InTimeInv
<1>1. pc' = pc /\ left' = Down(left) /\ grace' = Down(grace) /\ nap' = Down(nap)
  BY DEF Tick
<1>2. late' = IF left > 0 THEN 0
             ELSE IF RunnerWaits THEN Least(late + 1, Grace + 1) ELSE late
  BY DEF Tick
<1>3. CASE pc = "returned"
  BY <1>1, <1>2, <1>3 DEF Down, Least
<1>4. CASE pc \in {"poll", "reap", "join"} /\ nap > 0
  BY <1>1, <1>2, <1>4 DEF Down, Least
<1>5. CASE ~RunnerWaits
  BY <1>1, <1>2, <1>5 DEF Down, RunnerWaits
<1> QED BY <1>3, <1>4, <1>5 DEF RunnerWaits

\* run_bounded returns at most the cleanup grace after its deadline, whatever the
\* child, its descendants and the readers do; intervals in which its own thread had
\* something to do and was kept off the processor are not counted.
THEOREM ReturnsWithinGrace == Spec => []ReturnsInTime
<1>1. Init => InTimeInv
  BY RunnerAssumption DEF Init, InTimeInv
<1>2. TypeOK /\ InTimeInv /\ [Next]_vars => InTimeInv'
  <2> SUFFICES ASSUME TypeOK, InTimeInv, [Next]_vars PROVE InTimeInv'
    OBVIOUS
  <2>1. ASSUME UNCHANGED <<pc, left, grace, nap, late>> PROVE InTimeInv'
    BY <2>1 DEF InTimeInv
  <2>2. ASSUME NEW s \in Streams, ReaderStep(s) \/ ChildWrites(s) \/ DescendantWrites(s) PROVE InTimeInv'
    BY <2>1, <2>2 DEF ReaderStep, SeeCancel, Elapsed, Read, Wake, ChildWrites, DescendantWrites, runner, clock
  <2>3. CASE ChildForks \/ ProcessEnds \/ PidReused
    BY <2>1, <2>3 DEF ChildForks, ProcessEnds, PidReused, runner, clock
  <2>4. CASE UNCHANGED vars
    BY <2>1, <2>4 DEF vars
  <2> QED BY <2>2, <2>3, <2>4, InTimeRunner, InTimeTick DEF Next
<1>3. TypeOK /\ InTimeInv => ReturnsInTime
  BY RunnerAssumption DEF TypeOK, InTimeInv, ReturnsInTime
<1> QED BY <1>1, <1>2, <1>3, RunnerTypeCorrect, PTL DEF Spec

-----------------------------------------------------------------------------
\* Whom the kill reaches.

\* Until the tree is killed the child can only have been reaped by the poll that the
\* runner is about to act on, and nobody else has its process id before that.
PidInv ==
  /\ pc = "poll" => child \in {"running", "zombie"}
  /\ pc \in {"decide", "kill"} => (child = "reaped" <=> polled = "exited")
  /\ pc \in {"decide", "kill"} => child # "killed"
  /\ stranger # None => child = "reaped"
  /\ stranger = "hit" => polled = "exited"
  /\ stranger = "hit" => pc \in {"cancel", "reap", "join", "returned"}

\* Every step keeps it; ids are given away only by the system, and only after a reap.
LEMMA PidStep == TypeOK /\ PidInv /\ [Next]_vars => PidInv'
<1> SUFFICES ASSUME TypeOK, PidInv, [Next]_vars PROVE PidInv'
  OBVIOUS
<1> USE DEF TypeOK, PidInv, None
<1>1. CASE UNCHANGED vars
  BY <1>1 DEF vars
<1>2. CASE TryWait
  BY <1>2 DEF TryWait
<1>3. CASE Decide
  BY <1>3 DEF Decide, Sleep, world
<1>4. CASE Kill
  BY <1>4 DEF Kill
<1>5. CASE Cancel \/ Return
  BY <1>5 DEF Cancel, Return, world
<1>6. CASE Reap
  BY <1>6 DEF Reap
<1>7. ASSUME NEW s \in Streams, Join(s) PROVE PidInv'
  BY <1>7 DEF Join, world
<1>8. ASSUME NEW s \in Streams, ReaderStep(s) \/ ChildWrites(s) \/ DescendantWrites(s) PROVE PidInv'
  BY <1>8 DEF ReaderStep, SeeCancel, Elapsed, Read, Wake, ChildWrites, DescendantWrites, runner, world
<1>9. CASE ChildForks \/ ProcessEnds \/ PidReused
  BY <1>9 DEF ChildForks, ProcessEnds, PidReused, runner
<1>10. CASE Tick
  BY <1>10 DEF Tick, world
<1> QED
  BY <1>1, <1>2, <1>3, <1>4, <1>5, <1>6, <1>7, <1>8, <1>9, <1>10 DEF Next, RunnerStep

\* A process that was given the child's id is reached only after the child was reaped.
StrangersSpared == stranger = "hit" => polled = "exited"

\* The kill names the process group after the child's process id.  It can reach
\* another process that was given that id only when the poll before it had reaped the
\* child: never because of a timeout with the child still there, or a failed poll.
THEOREM OnlyAReapedIdIsReused == Spec => []StrangersSpared
<1>1. Init => PidInv
  BY DEF Init, PidInv, None
<1>2. PidInv => StrangersSpared
  BY DEF PidInv, StrangersSpared
<1> QED BY <1>1, <1>2, PidStep, RunnerTypeCorrect, PTL DEF Spec

\* The guard of the runner's next step, sleeping apart: poll and reap know what to do
\* with the child they find, a decision is always possible, and there is a reader to
\* join or none left.
RunnerOpen ==
  /\ pc = "poll" => child \in {"running", "zombie"}
  /\ pc = "decide" => polled \in {None, "exited", "error"}
  /\ pc = "reap" => child \in {"killed", "zombie", "reaped"}
  /\ pc = "join" => unread = {} \/ \E s \in Streams : First(s)

\* The thread that runs run_bounded is never stuck: until it has returned it is asleep
\* for at most one poll interval or has a step to take, whatever the child, its
\* descendants, the readers and the system do.
THEOREM RunnerNeverStuck == Spec => [](RunnerOpen /\ nap <= 1)
<1>1. Init => PidInv /\ Inv
  BY InitHolds DEF Init, PidInv, None
<1>2. Inv => TypeOK
  BY DEF Inv
<1>3. PidInv /\ Inv => RunnerOpen /\ nap <= 1
  BY DEF PidInv, Inv, TypeOK, AfterKill, RunnerOpen, First
<1> QED BY <1>1, <1>2, <1>3, PidStep, InvStep, PTL DEF Spec

-----------------------------------------------------------------------------
\* The readers end.

\* The steps a cancelled reader has left.
ReaderRank == [read |-> 3, top |-> 2, elapsed |-> 1, done |-> 0, error |-> 0, wait |-> 4]

\* A reader that has seen the cancellation never waits for its pipe again.
NoWait == \A s \in Streams : age[s] # None => cancel /\ reader[s] # "wait"

\* Only a reader with no cancellation seen goes to wait, and none is unseen again.
LEMMA NoWaitStep == TypeOK /\ NoWait /\ [Next]_vars => NoWait'
<1> SUFFICES ASSUME TypeOK, NoWait, [Next]_vars PROVE NoWait'
  OBVIOUS
<1> USE DEF TypeOK, NoWait, None
<1>1. ASSUME UNCHANGED readers, cancel' = cancel \/ cancel' = TRUE PROVE NoWait'
  BY <1>1 DEF readers
<1>2. CASE RunnerStep
  BY <1>1, <1>2 DEF RunnerStep, TryWait, Decide, Kill, Cancel, Reap, Join, Return
<1>3. ASSUME NEW s \in Streams, ReaderStep(s) PROVE NoWait'
  BY <1>3 DEF ReaderStep, SeeCancel, Elapsed, Read, Wake, Goto, runner
<1>4. ASSUME NEW s \in Streams, ChildWrites(s) \/ DescendantWrites(s) PROVE NoWait'
  BY <1>1, <1>4 DEF ChildWrites, DescendantWrites, runner
<1>5. CASE ChildForks \/ ProcessEnds \/ PidReused
  BY <1>1, <1>5 DEF ChildForks, ProcessEnds, PidReused, runner
<1>6. CASE Tick
  BY <1>6 DEF Tick
<1>7. CASE UNCHANGED vars
  BY <1>1, <1>7 DEF vars, readers
<1> QED BY <1>2, <1>3, <1>4, <1>5, <1>6, <1>7 DEF Next

\* Once a poll interval has passed since it saw the cancellation, every step of a
\* reader is one towards its end, and nothing is undone.
WindsDown ==
  \A s \in Streams : age[s] = "old" =>
    /\ age'[s] = "old"
    /\ reader'[s] = reader[s] \/ ReaderRank[reader'[s]] < ReaderRank[reader[s]]

\* A reader outlives the cancellation by one poll interval and three steps at most,
\* also when a descendant that escaped the kill never stops writing (read_all).
THEOREM CancelledReadersStop == Spec => [][WindsDown]_vars
<1>1. Init => NoWait
  BY DEF Init, NoWait
<1>2. TypeOK /\ NoWait /\ [Next]_vars => [WindsDown]_vars
  <2> SUFFICES ASSUME TypeOK, NoWait, Next, NEW s \in Streams, age[s] = "old"
               PROVE  /\ age'[s] = "old"
                      /\ reader'[s] = reader[s] \/ ReaderRank[reader'[s]] < ReaderRank[reader[s]]
    BY DEF WindsDown
  <2> USE DEF TypeOK, NoWait, None
  <2>1. CASE UNCHANGED <<reader, age>>
    BY <2>1
  <2>2. ASSUME NEW t \in Streams, ReaderStep(t)
        PROVE  /\ age'[s] = "old"
               /\ reader'[s] = reader[s] \/ ReaderRank[reader'[s]] < ReaderRank[reader[s]]
    <3>1. CASE t # s
      BY <2>2, <3>1 DEF ReaderStep, SeeCancel, Elapsed, Read, Wake, Goto
    <3>2. CASE t = s
      BY <2>2, <3>2 DEF ReaderStep, SeeCancel, Elapsed, Read, Wake, Goto, ReaderRank
    <3> QED BY <3>1, <3>2
  <2>3. CASE Tick
    BY <2>3 DEF Tick
  <2> QED
    BY <2>1, <2>2, <2>3 DEF Next, RunnerStep, TryWait, Decide, Kill, Cancel, Reap, Join, Return,
       ChildWrites, DescendantWrites, ChildForks, ProcessEnds, PidReused, readers
<1> QED BY <1>1, <1>2, NoWaitStep, RunnerTypeCorrect, PTL DEF Spec

=============================================================================
