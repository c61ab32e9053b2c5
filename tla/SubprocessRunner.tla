-------------------------- MODULE SubprocessRunner --------------------------
(***************************************************************************)
(* run_bounded (crates/polint/src/subprocess/runner.rs), the Unix build:   *)
(* one external program run to completion or to a timeout.  The runner     *)
(* polls the child, two reader threads drain its pipes, and the child may  *)
(* fork descendants: one that stays in its process group (kin) and one     *)
(* that left it for a session of its own (runaway).                        *)
(*                                                                         *)
(* Time is counted in poll intervals (PROCESS_POLL_INTERVAL); every clock  *)
(* is a countdown.  Output is counted in units of which a pipe holds       *)
(* Capacity.  One read takes all a pipe holds: the readers' buffer is as   *)
(* large as a pipe (64 KiB).  Any thread may be kept off the processor for *)
(* any number of intervals, between any two of its steps.                  *)
(***************************************************************************)
EXTENDS Naturals

CONSTANTS
  Streams,    \* the pipes: stdout and stderr, or stderr alone (run_bounded_to_file)
  Capacity,   \* units a pipe holds
  Timeout,    \* the caller's budget
  Grace,      \* PROCESS_CLEANUP_GRACE
  MaxOutput,  \* bound: units the child writes to one stream
  Hazards     \* what the surroundings may do, of:

HazardKinds ==
  { "reuse",   \* the system gives the child's process id to someone else
    "error" }  \* polling the child or reading a pipe fails

ASSUME RunnerAssumption ==
  /\ Capacity \in Nat \ {0}
  /\ Timeout \in Nat
  /\ Grace \in Nat
  /\ MaxOutput \in Nat
  /\ Hazards \subseteq HazardKinds

None == "none"

VARIABLES
  pc,       \* the runner's step
  polled,   \* what try_wait answered
  verdict,  \* what the runner is about to return
  left,     \* until the deadline
  grace,    \* until cleanup_deadline
  nap,      \* until the runner wakes up
  unread,   \* streams whose reader is still to be joined
  cancel,   \* cancel_readers
  reader,   \* reader[s]: the step of the reader thread of s
  age,      \* age[s]: of cancellation_observed, "old" after a poll interval
  rest,     \* rest[s]: until the reader's wait for readiness times out
  bytes,    \* bytes[s]: units of the child's own output collected
  child,    \* the child process
  kin,      \* the descendant in its process group
  runaway,  \* the descendant outside it
  sent,     \* sent[s]: units the child wrote
  pipe,     \* pipe[s]: those of them still in the pipe
  noise,    \* noise[s]: units its descendants wrote, in the pipe
  stranger, \* who has the child's process id after it was given back
  late,     \* since the deadline, up to Grace + 1, without the intervals in which
            \* the runner's thread was kept off the processor
  stalled   \* history: the readers kept off it for an interval between seeing
            \* the cancellation and reading the clock again

runner  == <<pc, polled, verdict, grace, nap, unread, cancel>>
readers == <<reader, age, rest, bytes>>
world   == <<child, kin, runaway, sent, stranger>>
pipes   == <<pipe, noise>>
clock   == <<left, late, stalled>>
vars    == <<pc, polled, verdict, left, grace, nap, unread, cancel, reader, age, rest, bytes,
             child, kin, runaway, sent, pipe, noise, stranger, late, stalled>>

TypeOK ==
  /\ pc \in {"poll", "decide", "kill", "cancel", "reap", "join", "returned"}
  /\ polled \in {None, "exited", "error"}
  /\ verdict \in {None, "ok", "timeout", "failed"}
  /\ left \in 0..Timeout
  /\ grace \in 0..Grace
  /\ nap \in 0..1
  /\ unread \subseteq Streams
  /\ cancel \in BOOLEAN
  /\ reader \in [Streams -> {"top", "elapsed", "read", "wait", "done", "error"}]
  /\ age \in [Streams -> {None, "fresh", "old"}]
  /\ rest \in [Streams -> 0..1]
  /\ bytes \in [Streams -> 0..MaxOutput]
  /\ child \in {"running", "killed", "zombie", "reaped"}
  /\ kin \in {None, "running", "killed", "dead"}
  /\ runaway \in {None, "running", "dead"}
  /\ sent \in [Streams -> 0..MaxOutput]
  /\ pipe \in [Streams -> 0..Capacity]
  /\ noise \in [Streams -> 0..Capacity]
  /\ stranger \in {None, "running", "hit"}
  /\ late \in 0..(Grace + 1)
  /\ stalled \subseteq Streams

\* The child has been spawned in a fresh process group, and the readers started.
Init ==
  /\ pc = "poll"
  /\ polled = None
  /\ verdict = None
  /\ left = Timeout
  /\ grace = 0
  /\ nap = 0
  /\ unread = Streams
  /\ cancel = FALSE
  /\ reader = [s \in Streams |-> "top"]
  /\ age = [s \in Streams |-> None]
  /\ rest = [s \in Streams |-> 0]
  /\ bytes = [s \in Streams |-> 0]
  /\ child = "running"
  /\ kin = None
  /\ runaway = None
  /\ sent = [s \in Streams |-> 0]
  /\ pipe = [s \in Streams |-> 0]
  /\ noise = [s \in Streams |-> 0]
  /\ stranger = None
  /\ late = 0
  /\ stalled = {}

Least(a, b) == IF a < b THEN a ELSE b

-----------------------------------------------------------------------------
\* The runner's thread.

\* Child::try_wait, which gives the process id back when the child has exited.
TryWait ==
  /\ pc = "poll"
  /\ nap = 0
  /\ pc' = "decide"
  /\ \/ child = "zombie" /\ child' = "reaped" /\ polled' = "exited"
     \/ child = "running" /\ polled' = None /\ UNCHANGED child
     \/ "error" \in Hazards /\ polled' = "error" /\ UNCHANGED child
  /\ UNCHANGED <<verdict, grace, nap, unread, cancel, readers, kin, runaway, sent, stranger, pipes, clock>>

\* Mutant of Sleep: the thread sleeps until the deadline.
SleepThrough(until) == nap' = until

\* sleep_until_next_poll.
Sleep(until) == nap' = Least(until, 1)

\* The clock is read after the child was polled.
Decide ==
  /\ pc = "decide"
  /\ \/ /\ polled = "exited" /\ left > 0
        /\ pc' = "kill" /\ verdict' = "ok" /\ grace' = Least(Grace, left)
        /\ UNCHANGED nap
     \/ /\ polled # "error" /\ left = 0
        /\ pc' = "kill" /\ verdict' = "timeout" /\ grace' = Grace
        /\ UNCHANGED nap
     \/ /\ polled = None /\ left > 0
        /\ pc' = "poll" /\ Sleep(left)
        /\ UNCHANGED <<verdict, grace>>
     \/ /\ polled = "error"
        /\ pc' = "kill" /\ verdict' = "failed" /\ grace' = Grace
        /\ UNCHANGED nap
  /\ UNCHANGED <<polled, unread, cancel, readers, world, pipes, clock>>

\* Mutant of Kill: the direct child alone is killed.
KillChildOnly ==
  /\ pc = "kill"
  /\ pc' = "cancel"
  /\ child' = IF child = "running" THEN "killed" ELSE child
  /\ UNCHANGED <<polled, verdict, grace, nap, unread, cancel, readers, kin, runaway, sent,
                 stranger, pipes, clock>>

\* terminate_child_process_tree: SIGKILL to the process group named after the
\* child, whether or not the child has been reaped, and to the child.
Kill ==
  /\ pc = "kill"
  /\ pc' = "cancel"
  /\ child' = IF child = "running" THEN "killed" ELSE child
  /\ kin' = IF kin = "running" THEN "killed" ELSE kin
  /\ stranger' = IF stranger = "running" THEN "hit" ELSE stranger
  /\ UNCHANGED <<polled, verdict, grace, nap, unread, cancel, readers, runaway, sent, pipes, clock>>

Cancel ==
  /\ pc = "cancel"
  /\ pc' = "reap"
  /\ cancel' = TRUE
  /\ UNCHANGED <<polled, verdict, grace, nap, unread, readers, world, pipes, clock>>

\* wait_for_exit_until.
Reap ==
  /\ pc = "reap"
  /\ nap = 0
  /\ \/ child \in {"zombie", "reaped"} /\ child' = "reaped" /\ pc' = "join" /\ UNCHANGED nap
     \/ child = "killed" /\ grace = 0 /\ pc' = "join" /\ UNCHANGED <<child, nap>>
     \/ child = "killed" /\ grace > 0 /\ Sleep(grace) /\ UNCHANGED <<child, pc>>
     \/ "error" \in Hazards /\ pc' = "join" /\ UNCHANGED <<child, nap>>
  /\ UNCHANGED <<polled, verdict, grace, unread, cancel, readers, kin, runaway, sent, stranger, pipes, clock>>

Finished(s) == reader[s] \in {"done", "error"}

\* Mutant of JoinOne: the reader is joined however long it takes.
JoinWithoutDeadline(s) ==
  \/ /\ Finished(s)
     /\ unread' = unread \ {s}
     /\ verdict' = IF verdict = "ok" /\ reader[s] = "error" THEN "failed" ELSE verdict
     /\ UNCHANGED nap
  \/ /\ ~Finished(s)
     /\ Sleep(1)
     /\ UNCHANGED <<unread, verdict>>

\* join_reader_until; discard_reader_until, which does not mind what it finds,
\* when the child did not exit in time.
JoinOne(s) ==
  \/ /\ Finished(s)
     /\ unread' = unread \ {s}
     /\ verdict' = IF verdict = "ok" /\ reader[s] = "error" THEN "failed" ELSE verdict
     /\ UNCHANGED nap
  \/ /\ ~Finished(s) /\ grace = 0
     /\ unread' = unread \ {s}
     /\ verdict' = IF verdict = "ok" THEN "failed" ELSE verdict
     /\ UNCHANGED nap
  \/ /\ ~Finished(s) /\ grace > 0
     /\ Sleep(grace)
     /\ UNCHANGED <<unread, verdict>>

\* stdout is joined before stderr, also when it failed.
First(s) == s \in unread /\ ("stdout" \in unread => s = "stdout")

Join(s) ==
  /\ pc = "join"
  /\ nap = 0
  /\ First(s)
  /\ JoinOne(s)
  /\ UNCHANGED <<pc, polled, grace, cancel, readers, world, pipes, clock>>

Return ==
  /\ pc = "join"
  /\ unread = {}
  /\ pc' = "returned"
  /\ UNCHANGED <<polled, verdict, grace, nap, unread, cancel, readers, world, pipes, clock>>

-----------------------------------------------------------------------------
\* read_all, the thread of stream s.

Goto(s, step) == reader' = [reader EXCEPT ![s] = step]

\* The flag is looked at and, the first time it is up, the clock is read.
SeeCancel(s) ==
  /\ reader[s] = "top"
  /\ \/ ~cancel /\ Goto(s, "read") /\ UNCHANGED age
     \/ cancel /\ Goto(s, "elapsed") /\ age' = [age EXCEPT ![s] = IF @ = None THEN "fresh" ELSE @]
  /\ UNCHANGED <<runner, rest, bytes, world, pipes, clock>>

\* Mutant of Elapsed: the reader stops only once the pipe is empty.
ElapsedNever(s) ==
  /\ reader[s] = "elapsed"
  /\ Goto(s, "read")
  /\ UNCHANGED <<runner, age, rest, bytes, world, pipes, clock>>

\* The clock is read again: a whole poll interval ends the reading.
Elapsed(s) ==
  /\ reader[s] = "elapsed"
  /\ Goto(s, IF age[s] = "old" THEN "done" ELSE "read")
  /\ UNCHANGED <<runner, age, rest, bytes, world, pipes, clock>>

\* Somebody has the write end of the pipes open.
Held == child \in {"running", "killed"} \/ kin \in {"running", "killed"} \/ runaway = "running"

Empty(s) == pipe[s] + noise[s] = 0

\* Mutant of Read: an empty pipe ends the reading, cancelled or not.
ReadGivesUp(s) ==
  /\ reader[s] = "read"
  /\ \/ /\ ~Empty(s)
        /\ Goto(s, "top")
        /\ bytes' = [bytes EXCEPT ![s] = @ + pipe[s]]
        /\ pipe' = [pipe EXCEPT ![s] = 0]
        /\ noise' = [noise EXCEPT ![s] = 0]
        /\ UNCHANGED rest
     \/ /\ Empty(s)
        /\ Goto(s, "done")
        /\ UNCHANGED <<bytes, pipes, rest>>
  /\ UNCHANGED <<runner, age, world, clock>>

\* One read of the nonblocking pipe.
Read(s) ==
  /\ reader[s] = "read"
  /\ \/ /\ ~Empty(s)
        /\ Goto(s, "top")
        /\ bytes' = [bytes EXCEPT ![s] = @ + pipe[s]]
        /\ pipe' = [pipe EXCEPT ![s] = 0]
        /\ noise' = [noise EXCEPT ![s] = 0]
        /\ UNCHANGED rest
     \/ /\ Empty(s) /\ (~Held \/ age[s] # None)
        /\ Goto(s, "done")
        /\ UNCHANGED <<bytes, pipes, rest>>
     \/ /\ Empty(s) /\ Held /\ age[s] = None
        /\ Goto(s, "wait")
        /\ rest' = [rest EXCEPT ![s] = 1]
        /\ UNCHANGED <<bytes, pipes>>
     \/ /\ "error" \in Hazards
        /\ Goto(s, "error")
        /\ UNCHANGED <<bytes, pipes, rest>>
  /\ UNCHANGED <<runner, age, world, clock>>

\* wait_until_readable: data, no writer left, or one poll interval.
Wake(s) ==
  /\ reader[s] = "wait"
  /\ ~Empty(s) \/ ~Held \/ rest[s] = 0
  /\ Goto(s, "top")
  /\ UNCHANGED <<runner, age, rest, bytes, world, pipes, clock>>

ReaderStep(s) == SeeCancel(s) \/ Elapsed(s) \/ Read(s) \/ Wake(s)

-----------------------------------------------------------------------------
\* The child, its descendants and the system (external).

ChildWrites(s) ==
  /\ child = "running"
  /\ sent[s] < MaxOutput
  /\ pipe[s] + noise[s] < Capacity
  /\ sent' = [sent EXCEPT ![s] = @ + 1]
  /\ pipe' = [pipe EXCEPT ![s] = @ + 1]
  /\ UNCHANGED <<runner, readers, child, kin, runaway, stranger, noise, clock>>

ChildForks ==
  /\ child = "running"
  /\ \/ kin = None /\ kin' = "running" /\ UNCHANGED runaway
     \/ runaway = None /\ runaway' = "running" /\ UNCHANGED kin
  /\ UNCHANGED <<runner, readers, child, sent, stranger, pipes, clock>>

DescendantWrites(s) ==
  /\ kin = "running" \/ runaway = "running"
  /\ pipe[s] + noise[s] < Capacity
  /\ noise' = [noise EXCEPT ![s] = @ + 1]
  /\ UNCHANGED <<runner, readers, world, pipe, clock>>

\* A process ends by itself or of the SIGKILL it was sent.
ProcessEnds ==
  /\ \/ child \in {"running", "killed"} /\ child' = "zombie" /\ UNCHANGED <<kin, runaway>>
     \/ kin \in {"running", "killed"} /\ kin' = "dead" /\ UNCHANGED <<child, runaway>>
     \/ runaway = "running" /\ runaway' = "dead" /\ UNCHANGED <<child, kin>>
  /\ UNCHANGED <<runner, readers, sent, stranger, pipes, clock>>

\* A process id is free once its process is reaped and its group empty.
PidReused ==
  /\ "reuse" \in Hazards
  /\ child = "reaped"
  /\ kin \in {None, "dead"}
  /\ stranger = None
  /\ stranger' = "running"
  /\ UNCHANGED <<runner, readers, child, kin, runaway, sent, pipes, clock>>

Down(n) == IF n = 0 THEN 0 ELSE n - 1

\* The runner's thread has nothing to do until its sleep is over.
RunnerWaits == pc = "returned" \/ (pc \in {"poll", "reap", "join"} /\ nap > 0)

\* One poll interval passes.
Tick ==
  /\ left' = Down(left)
  /\ grace' = Down(grace)
  /\ nap' = Down(nap)
  /\ age' = [s \in Streams |-> IF age[s] = None THEN None ELSE "old"]
  /\ rest' = [s \in Streams |-> Down(rest[s])]
  /\ late' = IF left > 0 THEN 0
             ELSE IF RunnerWaits THEN Least(late + 1, Grace + 1) ELSE late
  /\ stalled' = stalled \union {s \in Streams : reader[s] = "elapsed" /\ age[s] = "fresh"}
  /\ UNCHANGED <<pc, polled, verdict, unread, cancel, reader, bytes, world, pipes>>

-----------------------------------------------------------------------------

RunnerStep == TryWait \/ Decide \/ Kill \/ Cancel \/ Reap \/ (\E s \in Streams : Join(s)) \/ Return

Next ==
  \/ RunnerStep
  \/ \E s \in Streams : ReaderStep(s) \/ ChildWrites(s) \/ DescendantWrites(s)
  \/ ChildForks
  \/ ProcessEnds
  \/ PidReused
  \/ Tick

Spec == Init /\ [][Next]_vars

\* Threads are scheduled and time passes; no process ever has to end.
FairSpec ==
  /\ Spec
  /\ WF_vars(RunnerStep)
  /\ \A s \in Streams : WF_vars(ReaderStep(s))
  /\ WF_vars(Tick)

-----------------------------------------------------------------------------

\* A successful run returns everything the child wrote before it exited, whatever
\* its descendants write into the same pipes and however the threads are scheduled,
\* but for one schedule: a reader that is kept off the processor for a whole poll
\* interval between seeing the cancellation and reading the clock again stops
\* before its last read (read_all).
CompleteOutput ==
  pc = "returned" /\ verdict = "ok" =>
    \A s \in Streams : bytes[s] = sent[s] \/ s \in stalled

\* No run leaves a process of the child's group behind that was not at least
\* sent SIGKILL: the runner bounds the whole tree rather than the direct child.
TreeKilled ==
  pc = "returned" => child # "running" /\ kin # "running"

\* The run is over at most the cleanup grace after its deadline, the time its own
\* thread was kept off the processor apart, however slow the readers are and even if
\* the child does not die of SIGKILL.
ReturnsInTime == late > Grace => pc = "returned"

\* The run ends and so do both readers: a descendant that escaped the kill and
\* writes on forever keeps no thread.
EveryThreadEnds == <>(pc = "returned" /\ \A s \in Streams : Finished(s))

=============================================================================
