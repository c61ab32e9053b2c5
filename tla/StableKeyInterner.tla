------------------------- MODULE StableKeyInterner -------------------------
(***************************************************************************)
(* The stable-key interner (crates/polint/src/internal_core/stable_key.rs) *)
(* as the parallel lowering stages use it (analysis_neutral/cfg/lower.rs,  *)
(* analysis_neutral/cfg/derived.rs, go/mir/lower.rs): every task of a      *)
(* stage interns into a private overlay of the shared interner, and once   *)
(* all tasks have ended their overlays are absorbed in task order.  Other  *)
(* threads intern into the shared interner meanwhile.                      *)
(*                                                                         *)
(* An id is the index of its text counted from 0: id i is keys[i + 1].     *)
(***************************************************************************)
EXTENDS Naturals, Sequences

CONSTANTS
  Keys,        \* the key texts
  NoId,        \* the answer of a map that does not hold a key
  NumTasks,    \* tasks of the parallel stage, in the order they are joined
  Others,      \* other threads that use the shared interner
  Main,        \* the thread that runs the stage and absorbs the overlays
  Existing,    \* the keys the shared interner holds when the stage begins
  MaxAsks      \* bound: keys a task or another thread interns

Tasks   == 1..NumTasks
Threads == Others \union {Main}
Ids     == Nat \union {NoId}

ASSUME InternerAssumption ==
  /\ NumTasks \in Nat
  /\ MaxAsks \in Nat
  /\ Existing \in Seq(Keys)
  /\ \A i, j \in 1..Len(Existing) : Existing[i] = Existing[j] => i = j
  /\ NoId \notin Nat
  /\ NoId \notin Keys
  /\ Main \notin Others

VARIABLES
  keys,      \* the shared StableKeyInternerState.keys
  ids,       \* the shared StableKeyInternerState.ids, NoId where absent
  want,      \* want[th]: the key th is about to insert under the write lock
  phase,     \* phase[t]: "new" task, "running" against its overlay, or "done"
  base,      \* base[t]: OverlayParent.base of task t's overlay
  okeys,     \* okeys[t]: the overlay's own keys
  oids,      \* oids[t]: the overlay's own ids
  asked,     \* asked[t]: the keys task t interned so far
  handed,    \* handed[t]: the ids it was given for them
  turn,      \* the task whose overlay the stage absorbs next
  absorbed,  \* absorbed[t]: StableKeyRemap.absorbed of task t
  got        \* got[o]: the keys thread o interned, with the ids it was given

shared == <<keys, ids>>
tasks  == <<phase, base, okeys, oids, asked, handed>>
vars   == <<keys, ids, want, phase, base, okeys, oids, asked, handed, turn, absorbed, got>>

TypeOK ==
  /\ keys \in Seq(Keys)
  /\ ids \in [Keys -> Ids]
  /\ want \in [Threads -> Keys \union {NoId}]
  /\ phase \in [Tasks -> {"new", "running", "done"}]
  /\ base \in [Tasks -> Nat]
  /\ okeys \in [Tasks -> Seq(Keys)]
  /\ oids \in [Tasks -> [Keys -> Ids]]
  /\ asked \in [Tasks -> Seq(Keys)]
  /\ handed \in [Tasks -> Seq(Nat)]
  /\ turn \in 1..(NumTasks + 1)
  /\ absorbed \in [Tasks -> Seq(Nat)]
  /\ got \in [Others -> Seq([key : Keys, id : Nat])]

Init ==
  /\ keys = Existing
  /\ ids = [k \in Keys |->
             IF \E i \in 1..Len(Existing) : Existing[i] = k
             THEN (CHOOSE i \in 1..Len(Existing) : Existing[i] = k) - 1
             ELSE NoId]
  /\ want = [th \in Threads |-> NoId]
  /\ phase = [t \in Tasks |-> "new"]
  /\ base = [t \in Tasks |-> 0]
  /\ okeys = [t \in Tasks |-> <<>>]
  /\ oids = [t \in Tasks |-> [k \in Keys |-> NoId]]
  /\ asked = [t \in Tasks |-> <<>>]
  /\ handed = [t \in Tasks |-> <<>>]
  /\ turn = 1
  /\ absorbed = [t \in Tasks |-> <<>>]
  /\ got = [o \in Others |-> <<>>]

-----------------------------------------------------------------------------
\* One task against its overlay.  Everything an overlay reads of its parent is
\* below its base and never changes, and the overlay is the task's own, so an
\* intern is one step here although it takes the two locks one after the other.

TakeOverlay(t) ==
  /\ phase[t] = "new"
  /\ phase' = [phase EXCEPT ![t] = "running"]
  /\ base' = [base EXCEPT ![t] = Len(keys)]
  /\ UNCHANGED <<shared, want, okeys, oids, asked, handed, turn, absorbed, got>>

\* Mutant of ParentHas: keys the parent gained since are answered too.
ParentHasNow(t, k) == ids[k] # NoId

\* The parent had the key when the overlay was taken.
ParentHas(t, k) == ids[k] # NoId /\ ids[k] < base[t]

\* push_from(base, key).
OverlayPush(t, k) ==
  /\ okeys' = [okeys EXCEPT ![t] = Append(@, k)]
  /\ oids' = [oids EXCEPT ![t][k] = base[t] + Len(okeys[t])]
  /\ handed' = [handed EXCEPT ![t] = Append(@, base[t] + Len(okeys[t]))]

OverlayIntern(t, k) ==
  /\ phase[t] = "running"
  /\ Len(asked[t]) < MaxAsks
  /\ asked' = [asked EXCEPT ![t] = Append(@, k)]
  /\ \/ /\ ParentHas(t, k)
        /\ handed' = [handed EXCEPT ![t] = Append(@, ids[k])]
        /\ UNCHANGED <<okeys, oids>>
     \/ /\ ~ParentHas(t, k)
        /\ oids[t][k] # NoId
        /\ handed' = [handed EXCEPT ![t] = Append(@, oids[t][k])]
        /\ UNCHANGED <<okeys, oids>>
     \/ /\ ~ParentHas(t, k)
        /\ oids[t][k] = NoId
        /\ OverlayPush(t, k)
  /\ UNCHANGED <<shared, want, phase, base, turn, absorbed, got>>

TaskEnds(t) ==
  /\ phase[t] = "running"
  /\ phase' = [phase EXCEPT ![t] = "done"]
  /\ UNCHANGED <<shared, want, base, okeys, oids, asked, handed, turn, absorbed, got>>

-----------------------------------------------------------------------------
\* Interning into the shared interner: by other threads, and by the stage's own
\* thread while it absorbs.

\* The stage has collected every task's part; task `turn` is the one to absorb.
Joined == turn \in Tasks /\ \A t \in Tasks : phase[t] = "done"

\* Mutant of Asks: an overlay's keys are absorbed last to first.
AsksBackwards(th, k) ==
  IF th = Main
  THEN /\ Joined
       /\ Len(absorbed[turn]) < Len(okeys[turn])
       /\ k = okeys[turn][Len(okeys[turn]) - Len(absorbed[turn])]
  ELSE Len(got[th]) < MaxAsks

\* The next key that thread th passes to intern may be k.
Asks(th, k) ==
  IF th = Main
  THEN /\ Joined
       /\ Len(absorbed[turn]) < Len(okeys[turn])
       /\ k = okeys[turn][Len(absorbed[turn]) + 1]
  ELSE Len(got[th]) < MaxAsks

Answer(th, k, id) ==
  IF th = Main
  THEN absorbed' = [absorbed EXCEPT ![turn] = Append(@, id)] /\ UNCHANGED got
  ELSE got' = [got EXCEPT ![th] = Append(@, [key |-> k, id |-> id])] /\ UNCHANGED absorbed

\* Mutant of Lookup: the answer of the map is taken without looking at it.
LookupUnchecked(th, k) ==
  /\ want[th] = NoId
  /\ Asks(th, k)
  /\ Answer(th, k, ids[k])
  /\ UNCHANGED <<shared, want, tasks, turn>>

\* intern, under the read lock: a key already there is answered at once.
Lookup(th, k) ==
  /\ want[th] = NoId
  /\ Asks(th, k)
  /\ \/ /\ ids[k] # NoId
        /\ Answer(th, k, ids[k])
        /\ UNCHANGED want
     \/ /\ ids[k] = NoId
        /\ want' = [want EXCEPT ![th] = k]
        /\ UNCHANGED <<absorbed, got>>
  /\ UNCHANGED <<shared, tasks, turn>>

\* intern_and_resolve goes for the write lock straight away (absorb does not use it).
GoStraightToWrite(th, k) ==
  /\ th # Main
  /\ want[th] = NoId
  /\ Asks(th, k)
  /\ want' = [want EXCEPT ![th] = k]
  /\ UNCHANGED <<shared, tasks, turn, absorbed, got>>

\* push_from(0, key).
Push(k) ==
  /\ keys' = Append(keys, k)
  /\ ids' = [ids EXCEPT ![k] = Len(keys)]

\* Mutant of Insert: the map is not asked again under the write lock.
InsertBlindly(th) ==
  LET k == want[th] IN
  /\ k # NoId
  /\ want' = [want EXCEPT ![th] = NoId]
  /\ Push(k)
  /\ Answer(th, k, Len(keys))
  /\ UNCHANGED <<tasks, turn>>

\* Mutant of Insert: the id is read off the length after the push.
InsertOffByOne(th) ==
  LET k == want[th] IN
  /\ k # NoId
  /\ want' = [want EXCEPT ![th] = NoId]
  /\ \/ ids[k] # NoId /\ Answer(th, k, ids[k]) /\ UNCHANGED shared
     \/ ids[k] = NoId /\ Push(k) /\ Answer(th, k, Len(keys) + 1)
  /\ UNCHANGED <<tasks, turn>>

\* Under the write lock the map is asked again: another thread may have
\* inserted the key since the read lock was given back.
Insert(th) ==
  LET k == want[th] IN
  /\ k # NoId
  /\ want' = [want EXCEPT ![th] = NoId]
  /\ \/ ids[k] # NoId /\ Answer(th, k, ids[k]) /\ UNCHANGED shared
     \/ ids[k] = NoId /\ Push(k) /\ Answer(th, k, Len(keys))
  /\ UNCHANGED <<tasks, turn>>

\* Mutant of Absorbed: the last key of the overlay is left out.
AbsorbedShort ==
  /\ Joined
  /\ Len(absorbed[turn]) + 1 >= Len(okeys[turn])
  /\ turn' = turn + 1
  /\ UNCHANGED <<shared, want, tasks, absorbed, got>>

\* The overlay of `turn` is absorbed and its part's rows are moved onto the
\* shared interner's ids with remap.apply.
Absorbed ==
  /\ Joined
  /\ Len(absorbed[turn]) = Len(okeys[turn])
  /\ turn' = turn + 1
  /\ UNCHANGED <<shared, want, tasks, absorbed, got>>

-----------------------------------------------------------------------------

TaskStep(t) == TakeOverlay(t) \/ (\E k \in Keys : OverlayIntern(t, k)) \/ TaskEnds(t)

ThreadStep(th) ==
  (\E k \in Keys : Lookup(th, k) \/ GoStraightToWrite(th, k)) \/ Insert(th)

Done ==
  /\ turn = NumTasks + 1
  /\ \A o \in Others : Len(got[o]) = MaxAsks
  /\ UNCHANGED vars

Next ==
  \/ \E t \in Tasks : TaskStep(t)
  \/ \E th \in Threads : ThreadStep(th)
  \/ Absorbed
  \/ Done

Spec == Init /\ [][Next]_vars

-----------------------------------------------------------------------------
\* StableKeyInterner::resolve on the shared interner and on an overlay, and
\* StableKeyRemap::apply.

Resolve(id) == keys[id + 1]

OverlayResolve(t, id) == IF id < base[t] THEN Resolve(id) ELSE okeys[t][id - base[t] + 1]

Apply(t, id) == IF id >= base[t] THEN absorbed[t][id - base[t] + 1] ELSE id

\* `keys` is densely packed and `ids` is exactly its inverse, whichever threads
\* raced to insert a key: an id indexes its text and no text has two ids.
IdsIndexTheirText ==
  /\ \A k \in Keys : ids[k] # NoId => ids[k] < Len(keys) /\ keys[ids[k] + 1] = k
  /\ \A i \in 1..Len(keys) : ids[keys[i]] = i - 1

\* An id an overlay handed out resolves, in the overlay, to the key it was handed
\* out for, however much the parent has grown since (also past the overlay's
\* own ids).
OverlaysResolve ==
  \A t \in Tasks : \A i \in 1..Len(handed[t]) :
    /\ handed[t][i] < base[t] + Len(okeys[t])
    /\ OverlayResolve(t, handed[t][i]) = asked[t][i]

\* Once a task's overlay is absorbed, remap.apply takes every id the task holds to
\* the shared interner's id of the same key; apply never finds an id it does not know.
RemapKeepsText ==
  \A t \in Tasks : t < turn =>
    \A i \in 1..Len(handed[t]) :
      /\ handed[t][i] - base[t] < Len(absorbed[t])
      /\ Apply(t, handed[t][i]) < Len(keys)
      /\ Resolve(Apply(t, handed[t][i])) = asked[t][i]

\* Whether one of the first n texts of s is k.
HeldBelow(s, n, k) == \E i \in 1..n : s[i] = k

\* Table s holds the known keys and then, each once, keys in the order in which one
\* thread that runs task after task asks for them first: whatever is asked for ahead
\* of a key stands ahead of it.
NumberedInOrder(s, known, asks) ==
  /\ Len(known) <= Len(s)
  /\ \A i \in 1..Len(known) : s[i] = known[i]
  /\ \A i, j \in 1..Len(s) : s[i] = s[j] => i = j
  /\ \A j \in (Len(known) + 1)..Len(s) :
       \E t \in DOMAIN asks : \E n \in 1..Len(asks[t]) :
         /\ asks[t][n] = s[j]
         /\ \A u \in DOMAIN asks : \A m \in 1..Len(asks[u]) :
              u < t \/ (u = t /\ m < n) => HeldBelow(s, j - 1, asks[u][m])

\* Other threads have interned nothing that was not there before the stage.
Undisturbed ==
  \A o \in Others : \A i \in 1..Len(got[o]) :
    HeldBelow(Existing, Len(Existing), got[o][i].key)

\* However the tasks were scheduled, absorbing their overlays in task order
\* numbers every key as one sequential run over the tasks would have (the doc
\* comment of overlay(), and cfg/lower.rs on why the parts are joined in order).
SameAsSequential ==
  Undisturbed =>
    /\ NumberedInOrder(keys, Existing, asked)
    /\ turn = NumTasks + 1 =>
         \A t \in Tasks : \A n \in 1..Len(asked[t]) : HeldBelow(keys, Len(keys), asked[t][n])

\* What other threads were given stays true.
AnswersStand ==
  \A o \in Others : \A i \in 1..Len(got[o]) :
    got[o][i].id < Len(keys) /\ Resolve(got[o][i].id) = got[o][i].key

\* Every answer the shared interner gave: to other threads, and to the stage for
\* the keys of its tasks' overlays.
GivenToOthers == UNION {{got[o][i] : i \in 1..Len(got[o])} : o \in Others}
GivenToStage  ==
  UNION {{[key |-> okeys[t][i], id |-> absorbed[t][i]] : i \in 1..Len(absorbed[t])} : t \in Tasks}
Given == GivenToOthers \union GivenToStage

Table == INSTANCE InternTable WITH table <- keys, given <- Given

\* Although it looks under the read lock and inserts under the write lock, intern
\* takes effect at once: the shared interner implements InternTable.
InternIsAtomic == Table!Spec

=============================================================================
