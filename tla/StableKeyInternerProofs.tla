---------------------- MODULE StableKeyInternerProofs ----------------------
(***************************************************************************)
(* Proofs about StableKeyInterner, for any keys, any number of tasks, other *)
(* threads and interned keys.                                              *)
(***************************************************************************)
EXTENDS StableKeyInterner, TLAPS

\* What is known of task t's overlay: it numbers its own keys densely from its
\* base, and every id it handed out stands for the key it was asked for.
OverlayInv(t) ==
  /\ base[t] <= Len(keys)
  /\ phase[t] = "new" => okeys[t] = <<>> /\ handed[t] = <<>> /\ oids[t] = [k \in Keys |-> NoId]
  /\ Len(handed[t]) = Len(asked[t])
  /\ \A k \in Keys : oids[t][k] # NoId =>
       /\ base[t] <= oids[t][k]
       /\ oids[t][k] < base[t] + Len(okeys[t])
       /\ okeys[t][oids[t][k] - base[t] + 1] = k
  /\ \A i \in 1..Len(handed[t]) :
       /\ handed[t][i] < base[t] + Len(okeys[t])
       /\ OverlayResolve(t, handed[t][i]) = asked[t][i]

\* What is known of its remap: the ids found so far are those of its first keys.
RemapInv(t) ==
  /\ Len(absorbed[t]) <= Len(okeys[t])
  /\ t < turn => phase[t] = "done" /\ Len(absorbed[t]) = Len(okeys[t])
  /\ absorbed[t] # <<>> => phase[t] = "done"
  /\ \A i \in 1..Len(absorbed[t]) :
       /\ absorbed[t][i] < Len(keys)
       /\ keys[absorbed[t][i] + 1] = okeys[t][i]

\* The stage's thread inserts the very key its remap is waiting for.
MainWants ==
  want[Main] # NoId =>
    /\ Joined
    /\ Len(absorbed[turn]) < Len(okeys[turn])
    /\ want[Main] = okeys[turn][Len(absorbed[turn]) + 1]

IInv ==
  /\ TypeOK
  /\ IdsIndexTheirText
  /\ \A t \in Tasks : OverlayInv(t) /\ RemapInv(t)
  /\ MainWants
  /\ AnswersStand

-----------------------------------------------------------------------------

\* Appending leaves a sequence's elements where they are.
LEMMA AppendFacts ==
  ASSUME NEW S, NEW s \in Seq(S), NEW x \in S
  PROVE  /\ Append(s, x) \in Seq(S)
         /\ Len(Append(s, x)) = Len(s) + 1
         /\ \A i \in 1..Len(s) : Append(s, x)[i] = s[i]
         /\ Append(s, x)[Len(s) + 1] = x
  OBVIOUS

\* An element of a sequence over S is in S.
LEMMA ElementIn ==
  ASSUME NEW S, NEW s \in Seq(S), NEW i \in 1..Len(s)
  PROVE  s[i] \in S
  OBVIOUS

\* The interner holds the existing keys and every task is yet to begin.
LEMMA IInvInit == Init => IInv
<1> SUFFICES ASSUME Init PROVE IInv
  OBVIOUS
<1> DEFINE At(k) == CHOOSE i \in 1..Len(Existing) : Existing[i] = k
<1>1. ASSUME NEW k \in Keys, NEW i \in 1..Len(Existing), Existing[i] = k
      PROVE  At(k) \in 1..Len(Existing) /\ Existing[At(k)] = k
  BY <1>1
<1>2. ASSUME NEW k \in Keys
      PROVE  \/ ids[k] = NoId /\ \A i \in 1..Len(keys) : keys[i] # k
             \/ ids[k] \in Nat /\ ids[k] < Len(keys) /\ keys[ids[k] + 1] = k
  <2>1. CASE \E i \in 1..Len(Existing) : Existing[i] = k
    <3>1. At(k) \in 1..Len(Existing) /\ Existing[At(k)] = k
      BY <1>1, <2>1
    <3>2. ids[k] = At(k) - 1 /\ keys = Existing
      BY <2>1 DEF Init
    <3> HIDE DEF At
    <3> QED BY <3>1, <3>2, InternerAssumption
  <2>2. CASE ~\E i \in 1..Len(Existing) : Existing[i] = k
    BY <2>2 DEF Init
  <2> QED BY <2>1, <2>2
<1> HIDE DEF At
<1>3. keys \in Seq(Keys) /\ \A i, j \in 1..Len(keys) : keys[i] = keys[j] => i = j
  BY InternerAssumption DEF Init
<1>4. ids \in [Keys -> Ids]
  <2>1. ids = [k \in Keys |-> ids[k]]
    BY Zenon DEF Init
  <2> QED BY <1>2, <2>1 DEF Ids
<1>5. TypeOK
  <2>1. turn \in 1..(NumTasks + 1)
    BY InternerAssumption DEF Init
  <2>2. want \in [Threads -> Keys \union {NoId}] /\ phase \in [Tasks -> {"new", "running", "done"}]
    BY DEF Init
  <2>3. base \in [Tasks -> Nat] /\ oids \in [Tasks -> [Keys -> Ids]]
    BY DEF Init, Ids
  <2>4. /\ okeys \in [Tasks -> Seq(Keys)] /\ asked \in [Tasks -> Seq(Keys)]
        /\ handed \in [Tasks -> Seq(Nat)] /\ absorbed \in [Tasks -> Seq(Nat)]
    BY DEF Init
  <2>5. got \in [Others -> Seq([key : Keys, id : Nat])]
    BY DEF Init
  <2> QED BY <1>3, <1>4, <2>1, <2>2, <2>3, <2>4, <2>5 DEF TypeOK
<1>6. IdsIndexTheirText
  <2>1. ASSUME NEW i \in 1..Len(keys) PROVE ids[keys[i]] = i - 1
    <3>1. keys[i] \in Keys
      BY <1>3
    <3> QED BY <1>2, <1>3, <3>1
  <2> QED BY <1>2, <2>1 DEF IdsIndexTheirText
<1> USE InternerAssumption DEF Init, Tasks, Threads, Ids
<1>7. ASSUME NEW t \in Tasks PROVE OverlayInv(t) /\ RemapInv(t)
  BY <1>7 DEF OverlayInv, RemapInv
<1>8. MainWants /\ AnswersStand
  BY DEF MainWants, AnswersStand
<1> QED BY <1>5, <1>6, <1>7, <1>8 DEF IInv

-----------------------------------------------------------------------------
\* The shared keys only ever grow at their end.

\* What is below a table's length is an index of it, counted from one, and of a longer one.
LEMMA IndexBelow ==
  ASSUME NEW i \in Nat, NEW m \in Nat, NEW n \in Nat, i < m, m <= n
  PROVE  i + 1 \in 1..m /\ i < n
OBVIOUS

KeysGrow ==
  /\ keys' \in Seq(Keys)
  /\ Len(keys) <= Len(keys')
  /\ \A i \in 1..Len(keys) : keys'[i] = keys[i]

\* An overlay that takes no step keeps what is known of it while the shared
\* interner grows: it reads only below its base.
LEMMA OverlayKeeps ==
  ASSUME TypeOK, KeysGrow, NEW t \in Tasks, OverlayInv(t),
         base'[t] = base[t], phase'[t] = phase[t], okeys'[t] = okeys[t],
         oids'[t] = oids[t], asked'[t] = asked[t], handed'[t] = handed[t]
  PROVE  OverlayInv(t)'
<1>1. base[t] \in Nat /\ handed[t] \in Seq(Nat) /\ keys \in Seq(Keys)
  BY DEF TypeOK
<1>2. ASSUME NEW i \in 1..Len(handed[t])
      PROVE  OverlayResolve(t, handed[t][i])' = OverlayResolve(t, handed[t][i])
  <2>1. handed[t][i] \in Nat /\ base[t] <= Len(keys) /\ Len(keys) \in Nat
    BY <1>1, ElementIn DEF OverlayInv
  <2>2. CASE handed[t][i] < base[t]
    <3>1. handed[t][i] + 1 \in 1..Len(keys)
      BY <1>1, <2>1, <2>2
    <3> QED BY <2>2, <3>1 DEF OverlayResolve, Resolve, KeysGrow
  <2>3. CASE ~(handed[t][i] < base[t])
    BY <2>3 DEF OverlayResolve
  <2> QED BY <2>2, <2>3
<1>3. base[t] <= Len(keys')
  BY <1>1 DEF OverlayInv, KeysGrow
<1> QED BY <1>2, <1>3 DEF OverlayInv

\* So does a remap to which nothing is added.
LEMMA RemapKeeps ==
  ASSUME TypeOK, KeysGrow, NEW t \in Tasks, RemapInv(t), turn' = turn,
         phase'[t] = phase[t], okeys'[t] = okeys[t], absorbed'[t] = absorbed[t]
  PROVE  RemapInv(t)'
<1>1. absorbed[t] \in Seq(Nat) /\ keys \in Seq(Keys)
  BY DEF TypeOK
<1>2. ASSUME NEW i \in 1..Len(absorbed[t])
      PROVE  absorbed[t][i] < Len(keys') /\ keys'[absorbed[t][i] + 1] = okeys[t][i]
  <2>1. absorbed[t][i] \in Nat /\ absorbed[t][i] < Len(keys) /\ keys[absorbed[t][i] + 1] = okeys[t][i]
    BY <1>1, ElementIn DEF RemapInv
  <2>2. absorbed[t][i] + 1 \in 1..Len(keys)
    BY <1>1, <2>1
  <2> QED BY <1>1, <2>1, <2>2 DEF KeysGrow
<1> QED BY <1>2 DEF RemapInv

\* What other threads were told stays true.
LEMMA AnswersKeep ==
  ASSUME TypeOK, KeysGrow, AnswersStand, got' = got
  PROVE  AnswersStand'
<1>1. ASSUME NEW o \in Others, NEW i \in 1..Len(got[o])
      PROVE  got[o][i].id < Len(keys') /\ keys'[got[o][i].id + 1] = got[o][i].key
  <2>1. got[o] \in Seq([key : Keys, id : Nat]) /\ keys \in Seq(Keys)
    BY DEF TypeOK
  <2>2. got[o][i] \in [key : Keys, id : Nat]
    BY <2>1, ElementIn
  <2>3. got[o][i].id < Len(keys) /\ keys[got[o][i].id + 1] = got[o][i].key
    BY DEF AnswersStand, Resolve
  <2>4. got[o][i].id + 1 \in 1..Len(keys)
    BY <2>1, <2>2, <2>3
  <2> QED BY <2>1, <2>2, <2>3, <2>4 DEF KeysGrow
<1> QED BY <1>1 DEF AnswersStand, Resolve

-----------------------------------------------------------------------------
\* The tasks of the stage.

\* overlay() fixes the base; the overlay has handed nothing out yet.
LEMMA TakeOverlayStep ==
  ASSUME IInv, NEW t \in Tasks, TakeOverlay(t)
  PROVE  IInv'
<1> USE DEF IInv, TakeOverlay, shared
<1>1. KeysGrow
  BY DEF TypeOK, KeysGrow
<1>2. TypeOK'
  <2>1. base' \in [Tasks -> Nat] /\ phase' \in [Tasks -> {"new", "running", "done"}]
    BY DEF TypeOK
  <2> QED BY <2>1 DEF TypeOK
<1>3. ASSUME NEW u \in Tasks PROVE OverlayInv(u)' /\ RemapInv(u)'
  <2>1. CASE u = t
    BY <2>1 DEF TypeOK, OverlayInv, RemapInv
  <2>2. CASE u # t
    BY <1>1, <2>2, OverlayKeeps, RemapKeeps DEF TypeOK
  <2> QED BY <2>1, <2>2
<1>4. IdsIndexTheirText' /\ MainWants' /\ AnswersStand'
  <2>1. MainWants'
    BY DEF MainWants, Joined, TypeOK
  <2> QED BY <1>1, <2>1, AnswersKeep DEF IdsIndexTheirText
<1> QED BY <1>2, <1>3, <1>4

\* TaskEnds only marks the task done.
LEMMA TaskEndsStep ==
  ASSUME IInv, NEW t \in Tasks, TaskEnds(t)
  PROVE  IInv'
<1> USE DEF IInv, TaskEnds, shared
<1>1. KeysGrow
  BY DEF TypeOK, KeysGrow
<1>2. TypeOK'
  BY DEF TypeOK
<1>3. ASSUME NEW u \in Tasks PROVE OverlayInv(u)' /\ RemapInv(u)'
  <2>1. CASE u = t
    BY <2>1 DEF TypeOK, OverlayInv, RemapInv, OverlayResolve, Resolve
  <2>2. CASE u # t
    BY <1>1, <2>2, OverlayKeeps, RemapKeeps DEF TypeOK
  <2> QED BY <2>1, <2>2
<1>4. IdsIndexTheirText' /\ MainWants' /\ AnswersStand'
  <2>1. MainWants'
    BY DEF MainWants, Joined, TypeOK
  <2> QED BY <1>1, <2>1, AnswersKeep DEF IdsIndexTheirText
<1> QED BY <1>2, <1>3, <1>4

\* An id at or above the base is an index into the overlay's own keys.
LEMMA OwnIndex ==
  ASSUME NEW x \in Nat, NEW b \in Nat, NEW n \in Nat, x < b + n, ~(x < b)
  PROVE  x - b + 1 \in 1..n /\ x >= b
  OBVIOUS

\* An id within the overlay's keys stays within them as they grow.
LEMMA BelowLonger ==
  ASSUME NEW x \in Nat, NEW b \in Nat, NEW n \in Nat, NEW m \in Nat, x < b + n, n <= m
  PROVE  x < b + m
  OBVIOUS

\* A step of the stage or of one task changes at most that task's overlay.
SharedUnchanged == UNCHANGED <<keys, ids, want, phase, base, turn, absorbed, got>>

\* What the overlay answers with: the parent's id below the base, the overlay's
\* own id, or the next one.
LEMMA OverlayAnswers ==
  ASSUME TypeOK, IdsIndexTheirText, NEW t \in Tasks, OverlayInv(t),
         NEW k \in Keys, OverlayIntern(t, k)
  PROVE  \E id \in Nat :
           /\ handed' = [handed EXCEPT ![t] = Append(handed[t], id)]
           /\ \/ /\ UNCHANGED <<okeys, oids>>
                 /\ id < base[t] + Len(okeys[t])
                 /\ (IF id < base[t] THEN keys[id + 1] ELSE okeys[t][id - base[t] + 1]) = k
              \/ /\ id = base[t] + Len(okeys[t])
                 /\ okeys' = [okeys EXCEPT ![t] = Append(okeys[t], k)]
                 /\ oids' = [oids EXCEPT ![t][k] = id]
<1>1. base[t] \in Nat /\ Len(okeys[t]) \in Nat
  BY DEF TypeOK
<1>2. CASE ParentHas(t, k) /\ handed' = [handed EXCEPT ![t] = Append(handed[t], ids[k])]
           /\ UNCHANGED <<okeys, oids>>
  <2>1. ids[k] \in Nat /\ ids[k] < base[t] /\ keys[ids[k] + 1] = k
    BY <1>2 DEF TypeOK, Ids, ParentHas, IdsIndexTheirText
  <2>2. ids[k] < base[t] + Len(okeys[t])
    BY <1>1, <2>1
  <2> QED BY <1>2, <2>1, <2>2
<1>3. CASE oids[t][k] # NoId /\ handed' = [handed EXCEPT ![t] = Append(handed[t], oids[t][k])]
           /\ UNCHANGED <<okeys, oids>>
  <2>1. /\ oids[t][k] \in Nat /\ base[t] <= oids[t][k] /\ oids[t][k] < base[t] + Len(okeys[t])
        /\ okeys[t][oids[t][k] - base[t] + 1] = k
    BY <1>3 DEF TypeOK, Ids, OverlayInv
  <2>2. ~(oids[t][k] < base[t])
    BY <1>1, <2>1
  <2> QED BY <1>3, <2>1, <2>2
<1>4. CASE OverlayPush(t, k)
  <2>1. base[t] + Len(okeys[t]) \in Nat
    BY <1>1
  <2> QED BY <1>4, <2>1 DEF OverlayPush
<1> QED BY <1>2, <1>3, <1>4 DEF OverlayIntern

\* An intern into the overlay.
LEMMA OverlayInternStep ==
  ASSUME IInv, NEW t \in Tasks, NEW k \in Keys, OverlayIntern(t, k)
  PROVE  IInv'
<1>1. TypeOK /\ IdsIndexTheirText /\ MainWants /\ AnswersStand /\ OverlayInv(t) /\ RemapInv(t)
  BY DEF IInv
<1>2. /\ okeys[t] \in Seq(Keys) /\ handed[t] \in Seq(Nat) /\ asked[t] \in Seq(Keys)
      /\ base[t] \in Nat /\ keys \in Seq(Keys) /\ oids[t] \in [Keys -> Ids]
  BY <1>1 DEF TypeOK
<1>3. PICK id \in Nat :
        /\ handed' = [handed EXCEPT ![t] = Append(handed[t], id)]
        /\ \/ /\ UNCHANGED <<okeys, oids>>
              /\ id < base[t] + Len(okeys[t])
              /\ (IF id < base[t] THEN keys[id + 1] ELSE okeys[t][id - base[t] + 1]) = k
           \/ /\ id = base[t] + Len(okeys[t])
              /\ okeys' = [okeys EXCEPT ![t] = Append(okeys[t], k)]
              /\ oids' = [oids EXCEPT ![t][k] = id]
  BY <1>1, OverlayAnswers
<1>4. /\ asked' = [asked EXCEPT ![t] = Append(asked[t], k)]
      /\ SharedUnchanged /\ phase[t] = "running"
  BY DEF OverlayIntern, shared, SharedUnchanged
<1>5. KeysGrow
  BY <1>2, <1>4 DEF KeysGrow, SharedUnchanged
<1>6. /\ handed'[t] \in Seq(Nat) /\ Len(handed'[t]) = Len(handed[t]) + 1
      /\ \A i \in 1..Len(handed[t]) : handed'[t][i] = handed[t][i]
      /\ handed'[t][Len(handed[t]) + 1] = id
  <2>1. handed'[t] = Append(handed[t], id)
    BY <1>1, <1>3 DEF TypeOK
  <2> QED BY <1>2, <2>1, AppendFacts
<1>7. /\ asked'[t] \in Seq(Keys) /\ Len(asked'[t]) = Len(asked[t]) + 1
      /\ \A i \in 1..Len(asked[t]) : asked'[t][i] = asked[t][i]
      /\ asked'[t][Len(asked[t]) + 1] = k
  <2>1. asked'[t] = Append(asked[t], k)
    BY <1>1, <1>4 DEF TypeOK
  <2> QED BY <1>2, <2>1, AppendFacts
\* The overlay's own keys stay where they are, and the answer resolves to k.
<1>8. /\ okeys'[t] \in Seq(Keys) /\ Len(okeys[t]) <= Len(okeys'[t])
      /\ \A i \in 1..Len(okeys[t]) : okeys'[t][i] = okeys[t][i]
      /\ id < base[t] + Len(okeys'[t])
      /\ (IF id < base[t] THEN keys[id + 1] ELSE okeys'[t][id - base[t] + 1]) = k
  <2>1. CASE /\ UNCHANGED <<okeys, oids>>
             /\ id < base[t] + Len(okeys[t])
             /\ (IF id < base[t] THEN keys[id + 1] ELSE okeys[t][id - base[t] + 1]) = k
    BY <1>2, <2>1
  <2>2. CASE id = base[t] + Len(okeys[t]) /\ okeys' = [okeys EXCEPT ![t] = Append(okeys[t], k)]
    <3>1. okeys'[t] = Append(okeys[t], k)
      BY <1>1, <2>2 DEF TypeOK
    <3>2. /\ okeys'[t] \in Seq(Keys) /\ Len(okeys'[t]) = Len(okeys[t]) + 1
          /\ \A i \in 1..Len(okeys[t]) : okeys'[t][i] = okeys[t][i]
          /\ okeys'[t][Len(okeys[t]) + 1] = k
      BY <1>2, <3>1, AppendFacts
    <3>3. Len(okeys[t]) \in Nat /\ base[t] \in Nat /\ id = base[t] + Len(okeys[t])
      BY <1>2, <2>2
    <3>4. id - base[t] + 1 = Len(okeys[t]) + 1 /\ ~(id < base[t]) /\ id < base[t] + Len(okeys[t]) + 1
      BY <3>3
    <3>5. id < base[t] + Len(okeys'[t]) /\ Len(okeys[t]) <= Len(okeys'[t])
      BY <3>2, <3>3, <3>4
    <3> QED BY <3>2, <3>4, <3>5
  <2> QED BY <1>3, <2>1, <2>2
<1>9. TypeOK'
  <2>1. handed' \in [Tasks -> Seq(Nat)] /\ asked' \in [Tasks -> Seq(Keys)]
    <3>1. Append(handed[t], id) \in Seq(Nat) /\ Append(asked[t], k) \in Seq(Keys)
      BY <1>2, AppendFacts
    <3> QED BY <1>1, <1>3, <1>4, <3>1 DEF TypeOK
  <2>2. okeys' \in [Tasks -> Seq(Keys)]
    <3>1. Append(okeys[t], k) \in Seq(Keys)
      BY <1>2, AppendFacts
    <3> QED BY <1>1, <1>3, <3>1 DEF TypeOK
  <2>3. oids' \in [Tasks -> [Keys -> Ids]]
    <3>1. [oids[t] EXCEPT ![k] = id] \in [Keys -> Ids]
      BY <1>2 DEF Ids
    <3>2. oids' = oids \/ oids' = [oids EXCEPT ![t] = [oids[t] EXCEPT ![k] = id]]
      BY <1>3
    <3> QED BY <1>1, <3>1, <3>2 DEF TypeOK
  <2> QED BY <1>1, <1>4, <2>1, <2>2, <2>3 DEF TypeOK, SharedUnchanged
<1>10. OverlayInv(t)'
  <2>1. \A i \in 1..Len(handed'[t]) :
          /\ handed'[t][i] < base[t] + Len(okeys'[t])
          /\ (IF handed'[t][i] < base[t] THEN keys[handed'[t][i] + 1]
              ELSE okeys'[t][handed'[t][i] - base[t] + 1]) = asked'[t][i]
    <3> SUFFICES ASSUME NEW i \in 1..Len(handed'[t])
                 PROVE  /\ handed'[t][i] < base[t] + Len(okeys'[t])
                        /\ (IF handed'[t][i] < base[t] THEN keys[handed'[t][i] + 1]
                            ELSE okeys'[t][handed'[t][i] - base[t] + 1]) = asked'[t][i]
      OBVIOUS
    <3>1. Len(handed[t]) = Len(asked[t])
      BY <1>1 DEF OverlayInv
    <3>2. CASE i = Len(handed[t]) + 1
      BY <1>6, <1>7, <1>8, <3>1, <3>2
    <3>3. CASE i \in 1..Len(handed[t])
      <4>1. handed'[t][i] = handed[t][i] /\ asked'[t][i] = asked[t][i]
        BY <1>6, <1>7, <3>1, <3>3
      <4>2. /\ handed[t][i] < base[t] + Len(okeys[t])
            /\ (IF handed[t][i] < base[t] THEN keys[handed[t][i] + 1]
                ELSE okeys[t][handed[t][i] - base[t] + 1]) = asked[t][i]
        BY <1>1, <3>3 DEF OverlayInv, OverlayResolve, Resolve
      <4>3. handed[t][i] \in Nat
        BY <1>2, <3>3, ElementIn
      <4>4. Len(okeys[t]) \in Nat /\ Len(okeys'[t]) \in Nat
        BY <1>2, <1>8
      <4>5. handed[t][i] < base[t] + Len(okeys'[t])
        BY <1>2, <1>8, <4>2, <4>3, <4>4, BelowLonger
      <4>6. CASE handed[t][i] < base[t]
        BY <4>1, <4>2, <4>5, <4>6
      <4>7. CASE ~(handed[t][i] < base[t])
        <5>1. handed[t][i] - base[t] + 1 \in 1..Len(okeys[t])
          BY <1>2, <4>2, <4>3, <4>4, <4>7, OwnIndex
        <5>2. okeys'[t][handed[t][i] - base[t] + 1] = okeys[t][handed[t][i] - base[t] + 1]
          BY <1>8, <5>1
        <5> QED BY <4>1, <4>2, <4>5, <4>7, <5>2
      <4> QED BY <4>6, <4>7
    <3>4. Len(handed[t]) \in Nat
      BY <1>2
    <3> QED BY <1>6, <3>2, <3>3, <3>4
  <2>2. ASSUME NEW j \in Keys, oids'[t][j] # NoId
        PROVE  /\ base[t] <= oids'[t][j]
               /\ oids'[t][j] < base[t] + Len(okeys'[t])
               /\ okeys'[t][oids'[t][j] - base[t] + 1] = j
    <3>1. CASE oids'[t][j] = oids[t][j]
      <4>1. /\ oids[t][j] \in Nat /\ base[t] <= oids[t][j] /\ oids[t][j] < base[t] + Len(okeys[t])
            /\ okeys[t][oids[t][j] - base[t] + 1] = j
        BY <1>1, <1>2, <2>2, <3>1 DEF Ids, OverlayInv
      <4>2. Len(okeys[t]) \in Nat /\ Len(okeys'[t]) \in Nat
        BY <1>2, <1>8
      <4>3. ~(oids[t][j] < base[t]) /\ oids[t][j] < base[t] + Len(okeys'[t])
        <5>1. base[t] \in Nat /\ Len(okeys[t]) <= Len(okeys'[t])
          BY <1>2, <1>8
        <5> QED BY <4>1, <4>2, <5>1
      <4>4. oids[t][j] - base[t] + 1 \in 1..Len(okeys[t])
        BY <1>2, <4>1, <4>2, <4>3, OwnIndex
      <4> QED BY <1>8, <3>1, <4>1, <4>3, <4>4
    <3>2. CASE j = k /\ oids'[t][j] = id /\ id = base[t] + Len(okeys[t])
      <4>1. ~(id < base[t]) /\ base[t] <= id
        BY <1>2, <3>2
      <4> QED BY <1>8, <3>2, <4>1
    <3> QED BY <1>1, <1>2, <1>3, <3>1, <3>2 DEF TypeOK
  <2>3. Len(handed'[t]) = Len(asked'[t]) /\ base[t] <= Len(keys)
    BY <1>1, <1>6, <1>7 DEF OverlayInv
  <2> QED BY <1>4, <2>1, <2>2, <2>3 DEF OverlayInv, OverlayResolve, Resolve, SharedUnchanged
<1>11. RemapInv(t)'
  <2>1. absorbed[t] = <<>> /\ ~(t < turn)
    BY <1>1, <1>4 DEF RemapInv
  <2> QED BY <1>4, <1>8, <2>1 DEF RemapInv, SharedUnchanged
<1>12. ASSUME NEW u \in Tasks, u # t PROVE OverlayInv(u)' /\ RemapInv(u)'
  <2>1. OverlayInv(u) /\ RemapInv(u)
    BY DEF IInv
  <2>2. okeys'[u] = okeys[u] /\ oids'[u] = oids[u] /\ asked'[u] = asked[u] /\ handed'[u] = handed[u]
    BY <1>1, <1>3, <1>4, <1>12 DEF TypeOK
  <2> QED BY <1>1, <1>4, <1>5, <2>1, <2>2, OverlayKeeps, RemapKeeps DEF SharedUnchanged
<1>13. IdsIndexTheirText' /\ AnswersStand'
  BY <1>1, <1>4, <1>5, AnswersKeep DEF IdsIndexTheirText, SharedUnchanged
<1>14. MainWants'
  BY <1>1, <1>4 DEF MainWants, Joined, SharedUnchanged
<1> QED BY <1>9, <1>10, <1>11, <1>12, <1>13, <1>14 DEF IInv

-----------------------------------------------------------------------------
\* The shared interner.

\* The key a thread asks for next is the one its remap waits for, when that
\* thread is the stage's.
Due(th, k) ==
  th = Main => /\ Joined
               /\ Len(absorbed[turn]) < Len(okeys[turn])
               /\ k = okeys[turn][Len(absorbed[turn]) + 1]

\* An answer that indexes its text is added where it belongs.
LEMMA AnswerStep ==
  ASSUME TypeOK, \A t \in Tasks : OverlayInv(t) /\ RemapInv(t), AnswersStand, KeysGrow,
         NEW th \in Threads, NEW k \in Keys, NEW id \in Nat, Due(th, k), Answer(th, k, id),
         UNCHANGED <<tasks, turn>>, id < Len(keys'), keys'[id + 1] = k
  PROVE  /\ absorbed' \in [Tasks -> Seq(Nat)]
         /\ got' \in [Others -> Seq([key : Keys, id : Nat])]
         /\ \A t \in Tasks : OverlayInv(t)' /\ RemapInv(t)'
         /\ AnswersStand'
<1>1. UNCHANGED <<phase, base, okeys, oids, asked, handed, turn>>
  BY DEF tasks
<1>2. ASSUME NEW t \in Tasks PROVE OverlayInv(t)'
  BY <1>1, OverlayKeeps
<1>3. ASSUME NEW t \in Tasks, absorbed'[t] = absorbed[t] PROVE RemapInv(t)'
  BY <1>1, <1>3, RemapKeeps
<1>4. CASE th = Main
  <2>1. absorbed' = [absorbed EXCEPT ![turn] = Append(absorbed[turn], id)] /\ got' = got
    BY <1>4 DEF Answer
  <2>2. turn \in Tasks /\ phase[turn] = "done" /\ absorbed[turn] \in Seq(Nat)
    BY <1>4 DEF Due, Joined, TypeOK
  <2>3. /\ Append(absorbed[turn], id) \in Seq(Nat)
        /\ Len(Append(absorbed[turn], id)) = Len(absorbed[turn]) + 1
        /\ \A i \in 1..Len(absorbed[turn]) : Append(absorbed[turn], id)[i] = absorbed[turn][i]
        /\ Append(absorbed[turn], id)[Len(absorbed[turn]) + 1] = id
    BY <2>2, AppendFacts
  <2>4. absorbed' \in [Tasks -> Seq(Nat)] /\ absorbed'[turn] = Append(absorbed[turn], id)
    BY <2>1, <2>2, <2>3 DEF TypeOK
  <2>5. RemapInv(turn)'
    <3>1. Len(absorbed[turn]) \in Nat /\ Len(okeys[turn]) \in Nat /\ turn \in Nat
      BY <2>2 DEF TypeOK, Tasks
    <3>2. Len(absorbed'[turn]) <= Len(okeys[turn])
      BY <1>4, <2>3, <2>4, <3>1 DEF Due
    <3>3. ~(turn < turn)
      BY <3>1
    <3>4. ASSUME NEW i \in 1..Len(absorbed'[turn])
          PROVE  absorbed'[turn][i] < Len(keys') /\ keys'[absorbed'[turn][i] + 1] = okeys[turn][i]
      <4>1. CASE i = Len(absorbed[turn]) + 1
        BY <1>4, <2>3, <2>4, <4>1 DEF Due
      <4>2. CASE i \in 1..Len(absorbed[turn])
        <5>1. absorbed[turn][i] \in Nat /\ absorbed'[turn][i] = absorbed[turn][i]
          BY <2>2, <2>3, <2>4, <4>2, ElementIn
        <5>2. absorbed[turn][i] < Len(keys) /\ keys[absorbed[turn][i] + 1] = okeys[turn][i]
          BY <2>2, <4>2 DEF RemapInv
        <5>3. Len(keys) \in Nat /\ Len(keys') \in Nat
          BY DEF TypeOK, KeysGrow
        <5>4. absorbed[turn][i] + 1 \in 1..Len(keys) /\ absorbed[turn][i] < Len(keys')
          BY <5>1, <5>2, <5>3 DEF KeysGrow
        <5> QED BY <5>1, <5>2, <5>4 DEF KeysGrow
      <4> QED BY <2>3, <2>4, <3>1, <4>1, <4>2
    <3> QED BY <1>1, <2>2, <3>2, <3>3, <3>4 DEF RemapInv
  <2>6. ASSUME NEW t \in Tasks, t # turn PROVE absorbed'[t] = absorbed[t]
    BY <2>1, <2>2, <2>6 DEF TypeOK
  <2>7. got' \in [Others -> Seq([key : Keys, id : Nat])] /\ AnswersStand'
    BY <2>1, AnswersKeep DEF TypeOK
  <2> QED BY <1>2, <1>3, <2>4, <2>5, <2>6, <2>7
<1>5. CASE th # Main
  <2>1. /\ got' = [got EXCEPT ![th] = Append(got[th], [key |-> k, id |-> id])]
        /\ absorbed' = absorbed /\ th \in Others
    BY <1>5 DEF Answer, Threads
  <2>2. got[th] \in Seq([key : Keys, id : Nat]) /\ [key |-> k, id |-> id] \in [key : Keys, id : Nat]
    BY <2>1 DEF TypeOK
  <2>3. /\ Append(got[th], [key |-> k, id |-> id]) \in Seq([key : Keys, id : Nat])
        /\ Len(Append(got[th], [key |-> k, id |-> id])) = Len(got[th]) + 1
        /\ \A i \in 1..Len(got[th]) : Append(got[th], [key |-> k, id |-> id])[i] = got[th][i]
        /\ Append(got[th], [key |-> k, id |-> id])[Len(got[th]) + 1] = [key |-> k, id |-> id]
    BY <2>2, AppendFacts
  <2>4. /\ got' \in [Others -> Seq([key : Keys, id : Nat])]
        /\ got'[th] = Append(got[th], [key |-> k, id |-> id])
        /\ \A o \in Others \ {th} : got'[o] = got[o]
    BY <2>1, <2>3 DEF TypeOK
  <2>5. ASSUME NEW o \in Others, NEW i \in 1..Len(got'[o])
        PROVE  got'[o][i].id < Len(keys') /\ keys'[got'[o][i].id + 1] = got'[o][i].key
    <3>1. CASE o = th /\ i = Len(got[th]) + 1
      BY <2>3, <2>4, <3>1
    <3>2. CASE i \in 1..Len(got[o]) /\ got'[o][i] = got[o][i]
      <4>1. got[o] \in Seq([key : Keys, id : Nat])
        BY DEF TypeOK
      <4>2. got[o][i] \in [key : Keys, id : Nat]
        BY <3>2, <4>1, ElementIn
      <4>3. got[o][i].id \in Nat /\ got[o][i].id < Len(keys) /\ keys[got[o][i].id + 1] = got[o][i].key
        BY <3>2, <4>2 DEF AnswersStand, Resolve
      <4>4. Len(keys) \in Nat /\ Len(keys') \in Nat
        BY DEF TypeOK, KeysGrow
      <4>5. got[o][i].id + 1 \in 1..Len(keys) /\ got[o][i].id < Len(keys')
        <5>1. Len(keys) <= Len(keys')
          BY DEF KeysGrow
        <5> QED BY <4>3, <4>4, <5>1, IndexBelow
      <4> QED BY <3>2, <4>3, <4>5 DEF KeysGrow
    <3>3. CASE o # th
      BY <2>4, <3>2, <3>3
    <3>4. CASE o = th /\ i # Len(got[th]) + 1
      <4>1. Len(got[th]) \in Nat
        BY <2>2
      <4>2. i \in 1..Len(got[th])
        BY <2>3, <2>4, <3>4, <4>1
      <4> QED BY <2>3, <2>4, <3>2, <3>4, <4>2
    <3> QED BY <3>1, <3>3, <3>4
  <2>6. AnswersStand'
    BY <2>5 DEF AnswersStand, Resolve
  <2> QED BY <1>2, <1>3, <2>1, <2>4, <2>6 DEF TypeOK
<1> QED BY <1>4, <1>5

\* Under the read lock nothing is written; a key that is there is answered.
LEMMA LookupStep ==
  ASSUME IInv, NEW th \in Threads, NEW k \in Keys, Lookup(th, k)
  PROVE  IInv'
<1>1. /\ TypeOK /\ IdsIndexTheirText /\ MainWants /\ AnswersStand
      /\ \A t \in Tasks : OverlayInv(t) /\ RemapInv(t)
  BY DEF IInv
<1>2. UNCHANGED <<keys, ids, turn, phase, base, okeys, oids, asked, handed>>
  BY DEF Lookup, shared, tasks
<1>3. KeysGrow /\ Due(th, k) /\ want[th] = NoId
  BY <1>1, <1>2 DEF TypeOK, KeysGrow, Lookup, Asks, Due
<1>4. CASE ids[k] # NoId /\ Answer(th, k, ids[k]) /\ UNCHANGED want
  <2>1. ids[k] \in Nat /\ ids[k] < Len(keys') /\ keys'[ids[k] + 1] = k
    BY <1>1, <1>2, <1>4 DEF TypeOK, Ids, IdsIndexTheirText
  <2>2. UNCHANGED <<tasks, turn>>
    BY DEF Lookup
  <2>3. /\ absorbed' \in [Tasks -> Seq(Nat)] /\ got' \in [Others -> Seq([key : Keys, id : Nat])]
        /\ \A t \in Tasks : OverlayInv(t)' /\ RemapInv(t)'
        /\ AnswersStand'
    BY <1>1, <1>3, <1>4, <2>1, <2>2, AnswerStep
  <2>4. TypeOK' /\ IdsIndexTheirText'
    BY <1>1, <1>2, <1>4, <2>3 DEF TypeOK, IdsIndexTheirText
  <2>5. MainWants'
    BY <1>1, <1>2, <1>3, <1>4 DEF MainWants, Joined, Answer
  <2> QED BY <2>3, <2>4, <2>5 DEF IInv
<1>5. CASE want' = [want EXCEPT ![th] = k] /\ UNCHANGED <<absorbed, got>>
  <2>1. TypeOK' /\ IdsIndexTheirText'
    BY <1>1, <1>2, <1>5 DEF TypeOK, IdsIndexTheirText
  <2>2. MainWants'
    BY <1>1, <1>2, <1>3, <1>5 DEF MainWants, Joined, Due, TypeOK
  <2>3. ASSUME NEW t \in Tasks PROVE OverlayInv(t)' /\ RemapInv(t)'
    BY <1>1, <1>2, <1>3, <1>5, OverlayKeeps, RemapKeeps
  <2>4. AnswersStand'
    BY <1>1, <1>3, <1>5, AnswersKeep
  <2> QED BY <2>1, <2>2, <2>3, <2>4 DEF IInv
<1> QED BY <1>4, <1>5 DEF Lookup

\* Going for the write lock writes nothing yet.
LEMMA GoStraightStep ==
  ASSUME IInv, NEW th \in Threads, NEW k \in Keys, GoStraightToWrite(th, k)
  PROVE  IInv'
<1>1. /\ TypeOK /\ IdsIndexTheirText /\ MainWants /\ AnswersStand
      /\ \A t \in Tasks : OverlayInv(t) /\ RemapInv(t)
  BY DEF IInv
<1>2. /\ UNCHANGED <<keys, ids, turn, phase, base, okeys, oids, asked, handed, absorbed, got>>
      /\ want' = [want EXCEPT ![th] = k] /\ th # Main
  BY DEF GoStraightToWrite, shared, tasks
<1>3. KeysGrow
  BY <1>1, <1>2 DEF TypeOK, KeysGrow
<1>4. TypeOK' /\ IdsIndexTheirText'
  BY <1>1, <1>2 DEF TypeOK, IdsIndexTheirText
<1>5. MainWants'
  BY <1>1, <1>2 DEF MainWants, Joined, TypeOK
<1>6. ASSUME NEW t \in Tasks PROVE OverlayInv(t)' /\ RemapInv(t)'
  BY <1>1, <1>2, <1>3, OverlayKeeps, RemapKeeps
<1>7. AnswersStand'
  BY <1>1, <1>2, <1>3, AnswersKeep
<1> QED BY <1>4, <1>5, <1>6, <1>7 DEF IInv

\* A key the map does not hold is appended with the next id.
LEMMA PushFacts ==
  ASSUME TypeOK, IdsIndexTheirText, NEW k \in Keys, ids[k] = NoId, Push(k)
  PROVE  /\ KeysGrow /\ IdsIndexTheirText' /\ ids' \in [Keys -> Ids]
         /\ Len(keys) \in Nat /\ Len(keys) < Len(keys') /\ keys'[Len(keys) + 1] = k
<1>1. keys \in Seq(Keys) /\ ids \in [Keys -> Ids] /\ Len(keys) \in Nat
  BY DEF TypeOK
<1>2. /\ keys' \in Seq(Keys) /\ Len(keys') = Len(keys) + 1
      /\ \A i \in 1..Len(keys) : keys'[i] = keys[i]
      /\ keys'[Len(keys) + 1] = k
  BY <1>1, AppendFacts DEF Push
<1>3. ids' \in [Keys -> Ids] /\ ids'[k] = Len(keys) /\ \A j \in Keys \ {k} : ids'[j] = ids[j]
  BY <1>1 DEF Push, Ids
<1>4. Len(keys) <= Len(keys') /\ Len(keys) < Len(keys')
  BY <1>1, <1>2
<1>5. ASSUME NEW j \in Keys, ids'[j] # NoId
      PROVE  ids'[j] < Len(keys') /\ keys'[ids'[j] + 1] = j
  <2>1. CASE j = k
    BY <1>2, <1>3, <1>4, <2>1
  <2>2. CASE j # k
    <3>1. ids'[j] = ids[j] /\ ids[j] \in Nat /\ ids[j] < Len(keys) /\ keys[ids[j] + 1] = j
      BY <1>1, <1>3, <1>5, <2>2 DEF IdsIndexTheirText, Ids
    <3>2. ids[j] + 1 \in 1..Len(keys) /\ ids[j] < Len(keys')
      BY <1>1, <1>2, <3>1
    <3> QED BY <1>2, <3>1, <3>2
  <2> QED BY <2>1, <2>2
<1>6. ASSUME NEW i \in 1..Len(keys') PROVE ids'[keys'[i]] = i - 1
  <2>1. CASE i = Len(keys) + 1
    BY <1>1, <1>2, <1>3, <2>1
  <2>2. CASE i \in 1..Len(keys)
    <3>1. keys'[i] = keys[i] /\ ids[keys[i]] = i - 1 /\ keys[i] \in Keys
      BY <1>1, <1>2, <2>2, ElementIn DEF IdsIndexTheirText
    <3>2. keys[i] # k
      BY <2>2, <3>1, InternerAssumption
    <3> QED BY <1>3, <3>1, <3>2
  <2> QED BY <1>1, <1>2, <2>1, <2>2
<1> QED BY <1>1, <1>2, <1>3, <1>4, <1>5, <1>6 DEF KeysGrow, IdsIndexTheirText

\* Under the write lock the key is found after all, or pushed.
LEMMA InsertStep ==
  ASSUME IInv, NEW th \in Threads, Insert(th)
  PROVE  IInv'
<1> DEFINE k == want[th]
<1>1. /\ TypeOK /\ IdsIndexTheirText /\ MainWants /\ AnswersStand
      /\ \A t \in Tasks : OverlayInv(t) /\ RemapInv(t)
  BY DEF IInv
<1>2. /\ UNCHANGED <<turn, phase, base, okeys, oids, asked, handed>> /\ UNCHANGED <<tasks, turn>>
      /\ want' = [want EXCEPT ![th] = NoId] /\ k # NoId
  BY DEF Insert, tasks
<1>3. k \in Keys /\ Due(th, k)
  BY <1>1, <1>2 DEF TypeOK, MainWants, Due
<1>4. PICK id \in Nat :
        /\ KeysGrow /\ IdsIndexTheirText' /\ ids' \in [Keys -> Ids]
        /\ id < Len(keys') /\ keys'[id + 1] = k
        /\ Answer(th, k, id)
  <2>1. CASE ids[k] # NoId /\ Answer(th, k, ids[k]) /\ UNCHANGED shared
    <3>1. KeysGrow /\ IdsIndexTheirText' /\ ids' \in [Keys -> Ids]
      BY <1>1, <2>1 DEF TypeOK, KeysGrow, IdsIndexTheirText, shared
    <3>2. ids[k] \in Nat /\ ids[k] < Len(keys') /\ keys'[ids[k] + 1] = k
      BY <1>1, <1>3, <2>1 DEF TypeOK, Ids, IdsIndexTheirText, shared
    <3> QED BY <2>1, <3>1, <3>2
  <2>2. CASE ids[k] = NoId /\ Push(k) /\ Answer(th, k, Len(keys))
    BY <1>1, <1>3, <2>2, PushFacts
  <2> QED BY <2>1, <2>2 DEF Insert
<1>5. /\ absorbed' \in [Tasks -> Seq(Nat)] /\ got' \in [Others -> Seq([key : Keys, id : Nat])]
      /\ \A t \in Tasks : OverlayInv(t)' /\ RemapInv(t)'
      /\ AnswersStand'
  BY <1>1, <1>2, <1>3, <1>4, AnswerStep
<1>6. TypeOK'
  <2>1. keys' \in Seq(Keys) /\ ids' \in [Keys -> Ids]
    BY <1>4 DEF KeysGrow
  <2>2. want' \in [Threads -> Keys \union {NoId}]
    BY <1>1, <1>2 DEF TypeOK
  <2> QED BY <1>1, <1>2, <1>5, <2>1, <2>2 DEF TypeOK
<1>7. MainWants'
  <2>1. CASE th = Main
    BY <1>1, <1>2, <2>1 DEF MainWants, TypeOK
  <2>2. CASE th # Main
    <3>1. want'[Main] = want[Main] /\ absorbed' = absorbed
      BY <1>1, <1>2, <1>4, <2>2 DEF Answer, TypeOK, Threads
    <3> QED BY <1>1, <1>2, <3>1 DEF MainWants, Joined
  <2> QED BY <2>1, <2>2
<1> QED BY <1>4, <1>5, <1>6, <1>7 DEF IInv

\* The stage goes on once the whole overlay is absorbed.
LEMMA AbsorbedStep ==
  ASSUME IInv, Absorbed
  PROVE  IInv'
<1>1. /\ TypeOK /\ IdsIndexTheirText /\ MainWants /\ AnswersStand
      /\ \A t \in Tasks : OverlayInv(t) /\ RemapInv(t)
  BY DEF IInv
<1>2. /\ UNCHANGED <<keys, ids, want, phase, base, okeys, oids, asked, handed, absorbed, got>>
      /\ turn' = turn + 1 /\ turn \in Tasks
      /\ Len(absorbed[turn]) = Len(okeys[turn]) /\ \A t \in Tasks : phase[t] = "done"
  BY DEF Absorbed, Joined, shared, tasks
<1>3. KeysGrow
  BY <1>1, <1>2 DEF TypeOK, KeysGrow
<1>4. turn' \in 1..(NumTasks + 1)
  BY <1>2, InternerAssumption DEF Tasks
<1>5. TypeOK' /\ IdsIndexTheirText'
  BY <1>1, <1>2, <1>4 DEF TypeOK, IdsIndexTheirText
<1>6. want[Main] = NoId
  <2>1. Len(okeys[turn]) \in Nat
    BY <1>1, <1>2 DEF TypeOK
  <2> QED BY <1>1, <1>2, <2>1 DEF MainWants
<1>7. ASSUME NEW t \in Tasks PROVE OverlayInv(t)' /\ RemapInv(t)'
  <2>1. OverlayInv(t)'
    BY <1>1, <1>2, <1>3, OverlayKeeps
  <2>2. t < turn' => t = turn \/ t < turn
    BY <1>2 DEF Tasks
  <2>3. RemapInv(t)'
    BY <1>1, <1>2, <2>2 DEF RemapInv
  <2> QED BY <2>1, <2>3
<1>8. AnswersStand'
  BY <1>1, <1>2, <1>3, AnswersKeep
<1> QED BY <1>2, <1>5, <1>6, <1>7, <1>8 DEF IInv, MainWants

\* The inductive invariant holds in every behaviour.
LEMMA Invariance == Spec => []IInv
<1>1. IInv /\ [Next]_vars => IInv'
  <2> SUFFICES ASSUME IInv, [Next]_vars PROVE IInv'
    OBVIOUS
  <2>1. CASE UNCHANGED vars
    <3>1. TypeOK' /\ IdsIndexTheirText' /\ MainWants' /\ AnswersStand'
      BY <2>1 DEF vars, IInv, TypeOK, IdsIndexTheirText, MainWants, Joined, AnswersStand, Resolve
    <3>2. ASSUME NEW t \in Tasks PROVE OverlayInv(t)' /\ RemapInv(t)'
      BY <2>1 DEF vars, IInv, OverlayInv, RemapInv, OverlayResolve, Resolve
    <3> QED BY <3>1, <3>2 DEF IInv
  <2>2. CASE Done
    BY <2>1, <2>2 DEF Done
  <2> QED
    BY <2>1, <2>2, TakeOverlayStep, OverlayInternStep, TaskEndsStep, LookupStep,
       GoStraightStep, InsertStep, AbsorbedStep
    DEF Next, TaskStep, ThreadStep
<1> QED
  BY <1>1, IInvInit, PTL DEF Spec

-----------------------------------------------------------------------------
\* What the interner guarantees.

\* Every variable keeps its type: no map is ever read where it has no answer.
THEOREM InternerTypeCorrect == Spec => []TypeOK
<1>1. IInv => TypeOK
  BY DEF IInv
<1> QED BY <1>1, Invariance, PTL

\* Whatever threads race in intern and intern_and_resolve, the shared map stays
\* the inverse of the densely packed keys, and no answer given out ever changes.
THEOREM SharedInternerSound == Spec => [](IdsIndexTheirText /\ AnswersStand)
<1>1. IInv => IdsIndexTheirText /\ AnswersStand
  BY DEF IInv
<1> QED BY <1>1, Invariance, PTL

\* For any number of tasks and threads: the ids an overlay handed out resolve to
\* their keys, and after absorb remap.apply takes each of them to the shared
\* interner's id of the same key, without ever panicking.
THEOREM OverlayRoundTrip == Spec => [](OverlaysResolve /\ RemapKeepsText)
<1>1. IInv => OverlaysResolve
  BY DEF IInv, OverlayInv, OverlaysResolve
<1>2. IInv => RemapKeepsText
  <2> SUFFICES ASSUME IInv, NEW t \in Tasks, t < turn, NEW i \in 1..Len(handed[t])
               PROVE  /\ handed[t][i] - base[t] < Len(absorbed[t])
                      /\ Apply(t, handed[t][i]) < Len(keys)
                      /\ Resolve(Apply(t, handed[t][i])) = asked[t][i]
    BY DEF RemapKeepsText
  <2>1. TypeOK /\ OverlayInv(t) /\ RemapInv(t)
    BY DEF IInv
  <2>2. /\ base[t] \in Nat /\ handed[t] \in Seq(Nat) /\ Len(okeys[t]) \in Nat
        /\ Len(keys) \in Nat /\ absorbed[t] \in Seq(Nat)
    BY <2>1 DEF TypeOK
  <2>3. handed[t][i] \in Nat
    BY <2>2, ElementIn
  <2>4. Len(absorbed[t]) = Len(okeys[t]) /\ base[t] <= Len(keys)
    BY <2>1 DEF RemapInv, OverlayInv
  <2>5. handed[t][i] < base[t] + Len(okeys[t]) /\ OverlayResolve(t, handed[t][i]) = asked[t][i]
    BY <2>1 DEF OverlayInv
  <2>6. handed[t][i] - base[t] < Len(absorbed[t])
    BY <2>2, <2>3, <2>4, <2>5
  <2>7. CASE handed[t][i] < base[t]
    <3>1. ~(handed[t][i] >= base[t]) /\ handed[t][i] < Len(keys)
      BY <2>2, <2>3, <2>4, <2>7
    <3> QED BY <2>5, <2>6, <2>7, <3>1 DEF Apply, Resolve, OverlayResolve
  <2>8. CASE ~(handed[t][i] < base[t])
    <3>1. handed[t][i] - base[t] + 1 \in 1..Len(okeys[t]) /\ handed[t][i] >= base[t]
      <4> DEFINE x == handed[t][i]  b == base[t]  n == Len(okeys[t])
      <4>1. x \in Nat /\ b \in Nat /\ n \in Nat /\ x < b + n /\ ~(x < b)
        BY <2>2, <2>3, <2>5, <2>8
      <4> HIDE DEF x, b, n
      <4>2. x - b + 1 \in 1..n /\ x >= b
        BY <4>1, OwnIndex
      <4> QED BY <4>2 DEF x, b, n
    <3>2. /\ absorbed[t][handed[t][i] - base[t] + 1] < Len(keys)
          /\ keys[absorbed[t][handed[t][i] - base[t] + 1] + 1] = okeys[t][handed[t][i] - base[t] + 1]
      BY <2>1, <2>4, <3>1 DEF RemapInv
    <3> QED BY <2>5, <2>6, <2>8, <3>1, <3>2 DEF Apply, Resolve, OverlayResolve
  <2> QED BY <2>7, <2>8
<1> QED BY <1>1, <1>2, Invariance, PTL

\* Stated apart: an id of an overlay resolves to its key while the overlay is in use,
\* whatever is interned behind it.
THEOREM OverlayIdsResolve == Spec => []OverlaysResolve
<1>1. OverlaysResolve /\ RemapKeepsText => OverlaysResolve
  OBVIOUS
<1> QED BY <1>1, OverlayRoundTrip, PTL


-----------------------------------------------------------------------------
\* Overlays absorbed in task order number keys as one sequential run would.

Known(k) == HeldBelow(Existing, Len(Existing), k)

\* The existing keys keep their place at the front of the table.
PrefixInv ==
  /\ Len(Existing) <= Len(keys)
  /\ \A i \in 1..Len(Existing) : keys[i] = Existing[i]

\* Nothing is absorbed before every task has ended.
JoinedFirst == \A t, u \in Tasks : absorbed[t] # <<>> => phase[u] = "done"

\* An overlay is taken of the existing keys, and its own keys are in the order in
\* which the task asked for them first.
OwnOrder(t) ==
  /\ phase[t] # "new" => base[t] = Len(Existing)
  /\ \A m \in 1..Len(okeys[t]) : \E n \in 1..Len(asked[t]) :
       /\ asked[t][n] = okeys[t][m]
       /\ \A l \in 1..(n - 1) : Known(asked[t][l]) \/ HeldBelow(okeys[t], m - 1, asked[t][l])

\* Every further key of the table is one that was absorbed, and stands behind all that
\* the overlays have ahead of it.
SharedOrder ==
  \A j \in (Len(Existing) + 1)..Len(keys) : \E t \in Tasks : \E m \in 1..Len(absorbed[t]) :
    /\ okeys[t][m] = keys[j]
    /\ \A u \in Tasks : \A l \in 1..Len(okeys[u]) :
         u < t \/ (u = t /\ l < m) => HeldBelow(keys, j - 1, okeys[u][l])

OrderInv ==
  /\ PrefixInv
  /\ JoinedFirst
  /\ Undisturbed => SharedOrder /\ \A t \in Tasks : OwnOrder(t)

\* What a task asked for was known before or is one of its overlay's keys.
LEMMA AskedHeld ==
  ASSUME TypeOK, PrefixInv, NEW t \in Tasks, OverlayInv(t), OwnOrder(t), NEW n \in 1..Len(asked[t])
  PROVE  Known(asked[t][n]) \/ HeldBelow(okeys[t], Len(okeys[t]), asked[t][n])
<1>1. /\ base[t] \in Nat /\ handed[t] \in Seq(Nat) /\ Len(okeys[t]) \in Nat /\ Len(keys) \in Nat
      /\ Len(Existing) \in Nat
  BY InternerAssumption DEF TypeOK
<1>2. Len(handed[t]) = Len(asked[t]) /\ phase[t] # "new"
  <2>1. Len(handed[t]) = Len(asked[t])
    BY DEF OverlayInv
  <2>2. handed[t] # <<>>
    BY <1>1, <2>1
  <2> QED BY <2>1, <2>2 DEF OverlayInv
<1>3. base[t] = Len(Existing)
  BY <1>2 DEF OwnOrder
<1>4. /\ handed[t][n] \in Nat /\ handed[t][n] < base[t] + Len(okeys[t])
      /\ OverlayResolve(t, handed[t][n]) = asked[t][n]
  BY <1>1, <1>2, ElementIn DEF OverlayInv
<1>5. CASE handed[t][n] < base[t]
  <2>1. handed[t][n] + 1 \in 1..Len(Existing)
    BY <1>1, <1>3, <1>4, <1>5
  <2>2. Existing[handed[t][n] + 1] = asked[t][n]
    BY <1>4, <1>5, <2>1 DEF OverlayResolve, Resolve, PrefixInv
  <2> QED BY <2>1, <2>2 DEF Known, HeldBelow
<1>6. CASE ~(handed[t][n] < base[t])
  <2>1. handed[t][n] - base[t] + 1 \in 1..Len(okeys[t])
    BY <1>1, <1>4, <1>6, OwnIndex
  <2>2. okeys[t][handed[t][n] - base[t] + 1] = asked[t][n]
    BY <1>4, <1>6 DEF OverlayResolve
  <2> QED BY <2>1, <2>2 DEF HeldBelow
<1> QED BY <1>5, <1>6

\* What was absorbed is in the table.
LEMMA AbsorbedHeld ==
  ASSUME TypeOK, NEW t \in Tasks, RemapInv(t), NEW i \in 1..Len(absorbed[t])
  PROVE  HeldBelow(keys, Len(keys), okeys[t][i])
<1>1. absorbed[t] \in Seq(Nat) /\ keys \in Seq(Keys)
  BY DEF TypeOK
<1>2. absorbed[t][i] \in Nat /\ absorbed[t][i] < Len(keys) /\ keys[absorbed[t][i] + 1] = okeys[t][i]
  BY <1>1, ElementIn DEF RemapInv
<1>3. absorbed[t][i] + 1 \in 1..Len(keys)
  BY <1>1, <1>2
<1> QED BY <1>2, <1>3 DEF HeldBelow

\* The order gives the numbering of a sequential run.
LEMMA OrderSuffices ==
  ASSUME IInv, OrderInv
  PROVE  SameAsSequential
<1> SUFFICES ASSUME Undisturbed
             PROVE  /\ NumberedInOrder(keys, Existing, asked)
                    /\ turn = NumTasks + 1 =>
                         \A t \in Tasks : \A n \in 1..Len(asked[t]) :
                           HeldBelow(keys, Len(keys), asked[t][n])
  BY DEF SameAsSequential
<1>1. /\ TypeOK /\ IdsIndexTheirText /\ PrefixInv /\ SharedOrder
      /\ \A t \in Tasks : OverlayInv(t) /\ RemapInv(t) /\ OwnOrder(t)
  BY DEF IInv, OrderInv
<1>2. /\ DOMAIN asked = Tasks /\ Len(Existing) \in Nat /\ Len(keys) \in Nat
      /\ \A t \in Tasks : Len(asked[t]) \in Nat /\ Len(okeys[t]) \in Nat /\ t \in Nat
  BY <1>1, InternerAssumption DEF TypeOK, Tasks
<1>3. ASSUME NEW k, Known(k), NEW j \in Nat, Len(Existing) <= j
      PROVE  HeldBelow(keys, j, k)
  <2>1. PICK i \in 1..Len(Existing) : Existing[i] = k
    BY <1>3 DEF Known, HeldBelow
  <2>2. i \in 1..j /\ keys[i] = k
    BY <1>1, <1>2, <1>3, <2>1 DEF PrefixInv
  <2> QED BY <2>2 DEF HeldBelow
<1>4. ASSUME NEW i \in 1..Len(keys), NEW j \in 1..Len(keys), keys[i] = keys[j] PROVE i = j
  <2>1. i - 1 = j - 1
    BY <1>1, <1>4 DEF IdsIndexTheirText
  <2> QED BY <1>2, <2>1
<1>5. ASSUME NEW j \in (Len(Existing) + 1)..Len(keys)
      PROVE  \E t \in DOMAIN asked : \E n \in 1..Len(asked[t]) :
               /\ asked[t][n] = keys[j]
               /\ \A u \in DOMAIN asked : \A m \in 1..Len(asked[u]) :
                    u < t \/ (u = t /\ m < n) => HeldBelow(keys, j - 1, asked[u][m])
  <2>1. PICK t \in Tasks : \E m \in 1..Len(absorbed[t]) :
          /\ okeys[t][m] = keys[j]
          /\ \A u \in Tasks : \A l \in 1..Len(okeys[u]) :
               u < t \/ (u = t /\ l < m) => HeldBelow(keys, j - 1, okeys[u][l])
    BY <1>1 DEF SharedOrder
  <2>2. PICK m \in 1..Len(absorbed[t]) :
          /\ okeys[t][m] = keys[j]
          /\ \A u \in Tasks : \A l \in 1..Len(okeys[u]) :
               u < t \/ (u = t /\ l < m) => HeldBelow(keys, j - 1, okeys[u][l])
    BY <2>1
  <2>3. m \in 1..Len(okeys[t])
    <3>1. Len(absorbed[t]) \in Nat /\ Len(absorbed[t]) <= Len(okeys[t])
      BY <1>1 DEF TypeOK, RemapInv
    <3> QED BY <1>2, <3>1
  <2>4. PICK n \in 1..Len(asked[t]) :
          /\ asked[t][n] = okeys[t][m]
          /\ \A l \in 1..(n - 1) : Known(asked[t][l]) \/ HeldBelow(okeys[t], m - 1, asked[t][l])
    BY <1>1, <2>3 DEF OwnOrder
  <2>5. j - 1 \in Nat /\ Len(Existing) <= j - 1
    BY <1>2
  <2>6. ASSUME NEW u \in Tasks, NEW l \in 1..Len(asked[u]), u < t \/ (u = t /\ l < n)
        PROVE  HeldBelow(keys, j - 1, asked[u][l])
    <3>1. CASE Known(asked[u][l])
      BY <1>3, <2>5, <3>1
    <3>2. CASE u < t /\ HeldBelow(okeys[u], Len(okeys[u]), asked[u][l])
      <4>1. PICK i \in 1..Len(okeys[u]) : okeys[u][i] = asked[u][l]
        BY <3>2 DEF HeldBelow
      <4> QED BY <2>2, <3>2, <4>1
    <3>3. CASE u = t /\ HeldBelow(okeys[t], m - 1, asked[t][l])
      <4>1. PICK i \in 1..(m - 1) : okeys[t][i] = asked[t][l]
        BY <3>3 DEF HeldBelow
      <4>2. i \in 1..Len(okeys[t]) /\ i < m
        BY <1>2, <2>3
      <4> QED BY <2>2, <3>3, <4>1, <4>2
    <3>4. CASE u < t
      BY <1>1, <3>1, <3>2, <3>4, AskedHeld
    <3>5. CASE u = t /\ l < n
      <4>1. l \in 1..(n - 1)
        BY <1>2, <3>5
      <4> QED BY <2>4, <3>1, <3>3, <3>5, <4>1
    <3> QED BY <2>6, <3>4, <3>5
  <2> QED BY <1>2, <2>2, <2>4, <2>6
<1>6. NumberedInOrder(keys, Existing, asked)
  BY <1>1, <1>4, <1>5 DEF NumberedInOrder, PrefixInv
<1>7. ASSUME turn = NumTasks + 1, NEW t \in Tasks, NEW n \in 1..Len(asked[t])
      PROVE  HeldBelow(keys, Len(keys), asked[t][n])
  <2>1. CASE Known(asked[t][n])
    BY <1>1, <1>2, <1>3, <2>1 DEF PrefixInv
  <2>2. CASE HeldBelow(okeys[t], Len(okeys[t]), asked[t][n])
    <3>1. PICK i \in 1..Len(okeys[t]) : okeys[t][i] = asked[t][n]
      BY <2>2 DEF HeldBelow
    <3>2. t < turn
      BY <1>7, InternerAssumption DEF Tasks
    <3>3. i \in 1..Len(absorbed[t])
      BY <1>1, <3>2 DEF RemapInv
    <3> QED BY <1>1, <3>1, <3>3, AbsorbedHeld
  <2> QED BY <1>1, <2>1, <2>2, AskedHeld
<1> QED BY <1>6, <1>7

\* The shared order outlives a step that leaves table and overlays alone.
LEMMA SharedOrderKeeps ==
  ASSUME SharedOrder, UNCHANGED <<keys, okeys>>,
         \A t \in Tasks : 1..Len(absorbed[t]) \subseteq 1..Len(absorbed'[t])
  PROVE  SharedOrder'
<1> SUFFICES ASSUME NEW j \in (Len(Existing) + 1)..Len(keys')
             PROVE  \E t \in Tasks : \E m \in 1..Len(absorbed'[t]) :
                      /\ okeys'[t][m] = keys'[j]
                      /\ \A u \in Tasks : \A l \in 1..Len(okeys'[u]) :
                           u < t \/ (u = t /\ l < m) => HeldBelow(keys', j - 1, okeys'[u][l])
  BY DEF SharedOrder, HeldBelow
<1>1. keys' = keys /\ okeys' = okeys
  OBVIOUS
<1>2. PICK t \in Tasks : \E m \in 1..Len(absorbed[t]) :
        /\ okeys[t][m] = keys[j]
        /\ \A u \in Tasks : \A l \in 1..Len(okeys[u]) :
             u < t \/ (u = t /\ l < m) => HeldBelow(keys, j - 1, okeys[u][l])
  BY <1>1 DEF SharedOrder
<1>3. PICK m \in 1..Len(absorbed[t]) :
        /\ okeys[t][m] = keys[j]
        /\ \A u \in Tasks : \A l \in 1..Len(okeys[u]) :
             u < t \/ (u = t /\ l < m) => HeldBelow(keys, j - 1, okeys[u][l])
  BY <1>2
<1>4. m \in 1..Len(absorbed'[t])
  OBVIOUS
<1> QED BY <1>1, <1>3, <1>4

\* A task's own order is kept as long as its overlay and what it asked for are.
LEMMA OwnOrderKeeps ==
  ASSUME NEW t \in Tasks, OwnOrder(t), okeys'[t] = okeys[t], asked'[t] = asked[t],
         phase'[t] # "new" => base'[t] = Len(Existing)
  PROVE  OwnOrder(t)'
<1>1. ASSUME NEW m \in 1..Len(okeys'[t])
      PROVE  \E n \in 1..Len(asked'[t]) :
               /\ asked'[t][n] = okeys'[t][m]
               /\ \A l \in 1..(n - 1) : Known(asked'[t][l]) \/ HeldBelow(okeys'[t], m - 1, asked'[t][l])
  <2>1. PICK n \in 1..Len(asked[t]) :
          /\ asked[t][n] = okeys[t][m]
          /\ \A l \in 1..(n - 1) : Known(asked[t][l]) \/ HeldBelow(okeys[t], m - 1, asked[t][l])
    BY DEF OwnOrder
  <2> QED BY <2>1
<1> QED BY <1>1 DEF OwnOrder, Known, HeldBelow

\* The order is kept by a step that adds nothing to the table and takes no answer away,
\* and changes no overlay once one was absorbed.
LEMMA OrderKeeps ==
  ASSUME IInv, OrderInv, UNCHANGED <<keys, base, okeys, asked>>, absorbed' \in [Tasks -> Seq(Nat)],
         \A t \in Tasks : phase'[t] = phase[t] \/ phase'[t] = "done",
         \A t \in Tasks : phase[t] = "new" => phase'[t] = "new",
         \A t \in Tasks : 1..Len(absorbed[t]) \subseteq 1..Len(absorbed'[t]),
         JoinedFirst', Undisturbed' => Undisturbed
  PROVE  OrderInv'
<1>1. PrefixInv'
  BY DEF OrderInv, PrefixInv
<1>2. ASSUME Undisturbed' PROVE SharedOrder'
  <2>1. SharedOrder
    BY <1>2 DEF OrderInv
  <2> QED BY <2>1, SharedOrderKeeps
<1>3. ASSUME Undisturbed', NEW t \in Tasks PROVE OwnOrder(t)'
  <2>1. OwnOrder(t)
    BY <1>3 DEF OrderInv
  <2>2. phase'[t] # "new" => phase[t] # "new"
    OBVIOUS
  <2>3. okeys'[t] = okeys[t] /\ asked'[t] = asked[t] /\ base'[t] = base[t]
    OBVIOUS
  <2>4. phase'[t] # "new" => base'[t] = Len(Existing)
    BY <2>1, <2>2, <2>3 DEF OwnOrder
  <2> QED BY <2>1, <2>3, <2>4, OwnOrderKeeps
<1> QED BY <1>1, <1>2, <1>3 DEF OrderInv

\* While a task has not ended, an undisturbed table is the existing one.
LEMMA NothingAbsorbedYet ==
  ASSUME IInv, OrderInv, Undisturbed, NEW t \in Tasks, phase[t] # "done"
  PROVE  Len(keys) = Len(Existing)
<1>1. Len(keys) \in Nat /\ Len(Existing) \in Nat
  BY InternerAssumption DEF IInv, TypeOK
<1>2. CASE Len(Existing) + 1 \in (Len(Existing) + 1)..Len(keys)
  <2>1. PICK u \in Tasks : \E m \in 1..Len(absorbed[u]) : okeys[u][m] = keys[Len(Existing) + 1]
    BY <1>2 DEF OrderInv, SharedOrder
  <2>2. absorbed[u] # <<>>
    BY <2>1
  <2> QED BY <2>2 DEF OrderInv, JoinedFirst
<1>3. CASE Len(Existing) + 1 \notin (Len(Existing) + 1)..Len(keys)
  BY <1>1, <1>3 DEF OrderInv, PrefixInv
<1> QED BY <1>2, <1>3

\* An overlay is taken of the existing keys.
LEMMA TakeOverlayOrder ==
  ASSUME IInv, OrderInv, NEW t \in Tasks, TakeOverlay(t)
  PROVE  OrderInv'
<1>1. /\ UNCHANGED <<keys, okeys, asked, absorbed, got>> /\ phase[t] = "new"
      /\ phase' = [phase EXCEPT ![t] = "running"] /\ base' = [base EXCEPT ![t] = Len(keys)]
  BY DEF TakeOverlay, shared
<1>2. PrefixInv' /\ (Undisturbed' <=> Undisturbed)
  BY <1>1 DEF OrderInv, PrefixInv, Undisturbed
<1>3. JoinedFirst'
  BY <1>1 DEF OrderInv, JoinedFirst, IInv, TypeOK
<1>4. ASSUME Undisturbed PROVE SharedOrder' /\ \A u \in Tasks : OwnOrder(u)'
  <2>1. SharedOrder'
    <3>1. SharedOrder /\ \A u \in Tasks : 1..Len(absorbed[u]) \subseteq 1..Len(absorbed'[u])
      BY <1>1, <1>4 DEF OrderInv
    <3> QED BY <1>1, <3>1, SharedOrderKeeps
  <2>2. ASSUME NEW u \in Tasks PROVE OwnOrder(u)'
    <3>1. OwnOrder(u) /\ phase \in [Tasks -> {"new", "running", "done"}] /\ base \in [Tasks -> Nat]
      BY <1>4 DEF OrderInv, IInv, TypeOK
    <3>2. Len(keys) = Len(Existing)
      BY <1>1, <1>4, NothingAbsorbedYet
    <3>3. phase'[u] # "new" => base'[u] = Len(Existing)
      BY <1>1, <3>1, <3>2 DEF OwnOrder
    <3>4. okeys'[u] = okeys[u] /\ asked'[u] = asked[u]
      BY <1>1
    <3> QED BY <3>1, <3>3, <3>4, OwnOrderKeeps
  <2> QED BY <2>1, <2>2
<1> QED BY <1>2, <1>3, <1>4 DEF OrderInv

\* A key the overlay gains is asked for now, and everything asked for before is held.
LEMMA OverlayInternOrder ==
  ASSUME IInv, OrderInv, NEW t \in Tasks, NEW k \in Keys, OverlayIntern(t, k)
  PROVE  OrderInv'
<1>1. /\ UNCHANGED <<keys, absorbed, got, phase, base>> /\ phase[t] = "running"
      /\ asked' = [asked EXCEPT ![t] = Append(asked[t], k)]
      /\ okeys' = okeys \/ okeys' = [okeys EXCEPT ![t] = Append(okeys[t], k)]
  BY DEF OverlayIntern, OverlayPush, shared
<1>2. /\ PrefixInv' /\ JoinedFirst' /\ (Undisturbed' <=> Undisturbed)
  BY <1>1 DEF OrderInv, PrefixInv, JoinedFirst, Undisturbed
<1> SUFFICES ASSUME Undisturbed PROVE SharedOrder' /\ \A u \in Tasks : OwnOrder(u)'
  BY <1>2 DEF OrderInv
<1>3. TypeOK /\ OverlayInv(t) /\ OwnOrder(t) /\ PrefixInv /\ \A u \in Tasks : OwnOrder(u)
  BY DEF IInv, OrderInv
<1>4. okeys[t] \in Seq(Keys) /\ asked[t] \in Seq(Keys)
  BY <1>3 DEF TypeOK
<1>5. SharedOrder'
  <2>1. Len(keys') = Len(Existing)
    BY <1>1, NothingAbsorbedYet
  <2>2. (Len(Existing) + 1)..Len(keys') = {}
    <3>1. Len(Existing) \in Nat
      BY InternerAssumption
    <3> QED BY <2>1, <3>1
  <2> QED BY <2>2 DEF SharedOrder
<1>6. ASSUME NEW u \in Tasks, u # t PROVE OwnOrder(u)'
  <2>1. okeys'[u] = okeys[u] /\ asked'[u] = asked[u] /\ base'[u] = base[u] /\ phase'[u] = phase[u]
    BY <1>1, <1>3, <1>6 DEF TypeOK
  <2>2. OwnOrder(u)
    BY <1>3
  <2>3. phase'[u] # "new" => base'[u] = Len(Existing)
    BY <2>1, <2>2 DEF OwnOrder
  <2> QED BY <2>1, <2>2, <2>3, OwnOrderKeeps
<1>7. OwnOrder(t)'
  <2>1. /\ Len(asked'[t]) = Len(asked[t]) + 1
        /\ \A i \in 1..Len(asked[t]) : asked'[t][i] = asked[t][i]
        /\ asked'[t][Len(asked[t]) + 1] = k
    <3>1. asked'[t] = Append(asked[t], k)
      BY <1>1, <1>3 DEF TypeOK
    <3> QED BY <1>4, <3>1, AppendFacts
  <2>2. /\ \A i \in 1..Len(okeys[t]) : okeys'[t][i] = okeys[t][i]
        /\ \/ Len(okeys'[t]) = Len(okeys[t])
           \/ Len(okeys'[t]) = Len(okeys[t]) + 1 /\ okeys'[t][Len(okeys[t]) + 1] = k
    <3>1. okeys'[t] = okeys[t] \/ okeys'[t] = Append(okeys[t], k)
      BY <1>1, <1>3 DEF TypeOK
    <3> QED BY <1>4, <3>1, AppendFacts
  <2>3. Len(okeys[t]) \in Nat /\ Len(asked[t]) \in Nat
    BY <1>4
  <2> SUFFICES ASSUME NEW m \in 1..Len(okeys'[t])
               PROVE  \E n \in 1..Len(asked'[t]) :
                        /\ asked'[t][n] = okeys'[t][m]
                        /\ \A l \in 1..(n - 1) :
                             Known(asked'[t][l]) \/ HeldBelow(okeys'[t], m - 1, asked'[t][l])
    BY <1>1, <1>3 DEF OwnOrder, Known, HeldBelow
  <2>4. CASE m \in 1..Len(okeys[t])
    <3>1. PICK n \in 1..Len(asked[t]) :
            /\ asked[t][n] = okeys[t][m]
            /\ \A l \in 1..(n - 1) : Known(asked[t][l]) \/ HeldBelow(okeys[t], m - 1, asked[t][l])
      BY <1>3, <2>4 DEF OwnOrder
    <3>2. n \in 1..Len(asked'[t]) /\ asked'[t][n] = okeys'[t][m]
      BY <2>1, <2>2, <2>3, <2>4, <3>1
    <3>3. ASSUME NEW l \in 1..(n - 1)
          PROVE  Known(asked'[t][l]) \/ HeldBelow(okeys'[t], m - 1, asked'[t][l])
      <4>1. l \in 1..Len(asked[t]) /\ asked'[t][l] = asked[t][l]
        BY <2>1, <2>3
      <4>2. CASE HeldBelow(okeys[t], m - 1, asked[t][l])
        <5>1. PICK i \in 1..(m - 1) : okeys[t][i] = asked[t][l]
          BY <4>2 DEF HeldBelow
        <5>2. i \in 1..Len(okeys[t])
          BY <2>3, <2>4
        <5> QED BY <2>2, <4>1, <5>1, <5>2 DEF HeldBelow
      <4> QED BY <3>1, <4>1, <4>2
    <3> QED BY <3>2, <3>3
  <2>5. CASE m = Len(okeys[t]) + 1 /\ okeys'[t][m] = k
    <3>1. Len(asked[t]) + 1 \in 1..Len(asked'[t])
      BY <2>1, <2>3
    <3>2. ASSUME NEW l \in 1..(Len(asked[t]) + 1 - 1)
          PROVE  Known(asked'[t][l]) \/ HeldBelow(okeys'[t], m - 1, asked'[t][l])
      <4>1. l \in 1..Len(asked[t]) /\ asked'[t][l] = asked[t][l] /\ m - 1 = Len(okeys[t])
        BY <2>1, <2>3, <2>5
      <4>2. Known(asked[t][l]) \/ HeldBelow(okeys[t], Len(okeys[t]), asked[t][l])
        BY <1>3, <4>1, AskedHeld
      <4>3. ASSUME HeldBelow(okeys[t], Len(okeys[t]), asked[t][l])
            PROVE  HeldBelow(okeys'[t], m - 1, asked'[t][l])
        <5>1. PICK i \in 1..Len(okeys[t]) : okeys[t][i] = asked[t][l]
          BY <4>3 DEF HeldBelow
        <5>2. okeys'[t][i] = asked'[t][l] /\ i \in 1..(m - 1)
          BY <2>2, <4>1, <5>1
        <5> QED BY <5>2 DEF HeldBelow
      <4> QED BY <4>1, <4>2, <4>3
    <3> QED BY <2>1, <2>5, <3>1, <3>2
  <2>6. m \in 1..Len(okeys[t]) \/ (m = Len(okeys[t]) + 1 /\ okeys'[t][m] = k)
    <3>1. CASE Len(okeys'[t]) = Len(okeys[t])
      BY <3>1
    <3>2. CASE Len(okeys'[t]) = Len(okeys[t]) + 1 /\ okeys'[t][Len(okeys[t]) + 1] = k
      BY <2>3, <3>2
    <3> QED BY <2>2, <3>1, <3>2
  <2> QED BY <2>4, <2>5, <2>6
<1> QED BY <1>5, <1>6, <1>7

\* An answer is added to what its thread was given; nothing is taken back.
LEMMA AnswerAdds ==
  ASSUME TypeOK, NEW th \in Threads, NEW k \in Keys, NEW id \in Nat, Due(th, k), Answer(th, k, id)
  PROVE  /\ absorbed' \in [Tasks -> Seq(Nat)]
         /\ \A t \in Tasks : 1..Len(absorbed[t]) \subseteq 1..Len(absorbed'[t])
         /\ \A t \in Tasks : absorbed'[t] # <<>> => absorbed[t] # <<>> \/ th = Main
         /\ Undisturbed' => Undisturbed /\ (th # Main => Known(k))
         /\ th = Main => /\ Len(absorbed'[turn]) = Len(absorbed[turn]) + 1
                         /\ got' = got
<1>1. CASE th = Main
  <2>1. absorbed' = [absorbed EXCEPT ![turn] = Append(absorbed[turn], id)] /\ got' = got
    BY <1>1 DEF Answer
  <2>2. turn \in Tasks /\ absorbed[turn] \in Seq(Nat) /\ Len(absorbed[turn]) \in Nat
    BY <1>1 DEF Due, Joined, TypeOK
  <2>3. Append(absorbed[turn], id) \in Seq(Nat) /\ Len(Append(absorbed[turn], id)) = Len(absorbed[turn]) + 1
    BY <2>2, AppendFacts
  <2>4. /\ absorbed' \in [Tasks -> Seq(Nat)] /\ absorbed'[turn] = Append(absorbed[turn], id)
        /\ \A t \in Tasks \ {turn} : absorbed'[t] = absorbed[t]
    BY <2>1, <2>2, <2>3 DEF TypeOK
  <2>5. 1..Len(absorbed[turn]) \subseteq 1..Len(absorbed'[turn])
    BY <2>2, <2>3, <2>4
  <2>6. Undisturbed' => Undisturbed
    BY <2>1 DEF Undisturbed
  <2> QED BY <1>1, <2>1, <2>3, <2>4, <2>5, <2>6
<1>2. CASE th # Main
  <2> DEFINE x == [key |-> k, id |-> id]
  <2>1. got' = [got EXCEPT ![th] = Append(got[th], x)] /\ absorbed' = absorbed /\ th \in Others
    BY <1>2 DEF Answer, Threads
  <2>2. got[th] \in Seq([key : Keys, id : Nat]) /\ x \in [key : Keys, id : Nat] /\ x.key = k
    BY <2>1 DEF TypeOK
  <2> HIDE DEF x
  <2>3. /\ Len(Append(got[th], x)) = Len(got[th]) + 1
        /\ \A i \in 1..Len(got[th]) : Append(got[th], x)[i] = got[th][i]
        /\ Append(got[th], x)[Len(got[th]) + 1] = x
    BY <2>2, AppendFacts
  <2>4. got'[th] = Append(got[th], x) /\ \A o \in Others \ {th} : got'[o] = got[o]
    BY <2>1 DEF TypeOK
  <2>5. Len(got[th]) \in Nat
    BY <2>2
  <2>6. ASSUME Undisturbed' PROVE Undisturbed /\ Known(k)
    <3>1. ASSUME NEW o \in Others, NEW i \in 1..Len(got[o])
          PROVE  HeldBelow(Existing, Len(Existing), got[o][i].key)
      <4>1. i \in 1..Len(got'[o]) /\ got'[o][i] = got[o][i]
        BY <2>3, <2>4, <2>5
      <4> QED BY <2>6, <4>1 DEF Undisturbed, HeldBelow
    <3>2. Known(k)
      <4>1. Len(got[th]) + 1 \in 1..Len(got'[th]) /\ got'[th][Len(got[th]) + 1].key = k
        BY <2>2, <2>3, <2>4, <2>5
      <4> QED BY <2>1, <2>6, <4>1 DEF Undisturbed, HeldBelow, Known
    <3> QED BY <3>1, <3>2 DEF Undisturbed
  <2>7. absorbed' \in [Tasks -> Seq(Nat)]
    BY <2>1 DEF TypeOK
  <2> QED BY <1>2, <2>1, <2>6, <2>7
<1> QED BY <1>1, <1>2

\* An answer that leaves the table alone.
LEMMA AnswerOrder ==
  ASSUME IInv, OrderInv, NEW th \in Threads, NEW k \in Keys, NEW id \in Nat, Due(th, k),
         Answer(th, k, id), UNCHANGED <<keys, tasks, turn>>
  PROVE  OrderInv'
<1>1. UNCHANGED <<phase, base, okeys, asked>>
  BY DEF tasks
<1>2. /\ absorbed' \in [Tasks -> Seq(Nat)]
      /\ \A t \in Tasks : 1..Len(absorbed[t]) \subseteq 1..Len(absorbed'[t])
      /\ \A t \in Tasks : absorbed'[t] # <<>> => absorbed[t] # <<>> \/ th = Main
      /\ Undisturbed' => Undisturbed
  BY AnswerAdds DEF IInv
<1>3. JoinedFirst'
  BY <1>1, <1>2 DEF OrderInv, JoinedFirst, Due, Joined
<1> QED BY <1>1, <1>2, <1>3, OrderKeeps

\* A key that is pushed: by the stage, it is the next one of the overlay in turn, and all
\* that is ahead of it was absorbed; by another thread, it is a disturbance.
LEMMA PushOrder ==
  ASSUME IInv, IInv', OrderInv, NEW th \in Threads, NEW k \in Keys, Due(th, k), ids[k] = NoId,
         Push(k), Answer(th, k, Len(keys)), UNCHANGED <<tasks, turn>>
  PROVE  OrderInv'
<1>1. UNCHANGED <<phase, base, okeys, asked>> /\ Len(keys) \in Nat /\ keys \in Seq(Keys)
  BY DEF tasks, IInv, TypeOK
<1>2. /\ absorbed' \in [Tasks -> Seq(Nat)]
      /\ \A t \in Tasks : 1..Len(absorbed[t]) \subseteq 1..Len(absorbed'[t])
      /\ \A t \in Tasks : absorbed'[t] # <<>> => absorbed[t] # <<>> \/ th = Main
      /\ Undisturbed' => Undisturbed /\ (th # Main => Known(k))
      /\ th = Main => Len(absorbed'[turn]) = Len(absorbed[turn]) + 1
  BY <1>1, AnswerAdds DEF IInv
<1>3. /\ Len(keys') = Len(keys) + 1 /\ keys'[Len(keys) + 1] = k
      /\ \A i \in 1..Len(keys) : keys'[i] = keys[i]
  BY <1>1, AppendFacts DEF Push
<1>4. /\ Len(Existing) \in Nat /\ Len(Existing) <= Len(keys)
      /\ \A i \in 1..Len(Existing) : i \in 1..Len(keys) /\ keys[i] = Existing[i]
  BY <1>1, InternerAssumption DEF OrderInv, PrefixInv
<1>5. PrefixInv'
  BY <1>1, <1>3, <1>4 DEF PrefixInv
<1>6. JoinedFirst'
  BY <1>1, <1>2 DEF OrderInv, JoinedFirst, Due, Joined
<1> SUFFICES ASSUME Undisturbed' PROVE SharedOrder' /\ \A t \in Tasks : OwnOrder(t)'
  BY <1>5, <1>6 DEF OrderInv
<1>7. SharedOrder /\ \A t \in Tasks : OwnOrder(t)
  BY <1>2 DEF OrderInv
<1>8. ASSUME NEW t \in Tasks PROVE OwnOrder(t)'
  <2>1. OwnOrder(t)
    BY <1>7
  <2> QED BY <1>1, <2>1 DEF OwnOrder, Known, HeldBelow
<1>9. th = Main
  <2>1. ~Known(k)
    <3> SUFFICES ASSUME NEW i \in 1..Len(Existing), Existing[i] = k PROVE FALSE
      BY DEF Known, HeldBelow
    <3>1. ids[k] = i - 1 /\ i - 1 \in Nat
      BY <1>4 DEF IInv, IdsIndexTheirText
    <3> QED BY <3>1, InternerAssumption
  <2> QED BY <1>2, <2>1
<1>10. /\ turn \in Tasks /\ k = okeys[turn][Len(absorbed[turn]) + 1]
       /\ Len(absorbed'[turn]) = Len(absorbed[turn]) + 1 /\ Len(absorbed[turn]) \in Nat
  BY <1>2, <1>9 DEF Due, Joined, IInv, TypeOK
<1>11. ASSUME NEW n \in Nat, n <= Len(keys), NEW x, HeldBelow(keys, n, x) PROVE HeldBelow(keys', n, x)
  <2>1. PICK i \in 1..n : keys[i] = x
    BY <1>11 DEF HeldBelow
  <2>2. i \in 1..Len(keys)
    BY <1>1, <1>11
  <2> QED BY <1>3, <2>1, <2>2 DEF HeldBelow
<1>12. ASSUME NEW j \in (Len(Existing) + 1)..Len(keys')
       PROVE  \E t \in Tasks : \E m \in 1..Len(absorbed'[t]) :
                /\ okeys'[t][m] = keys'[j]
                /\ \A u \in Tasks : \A l \in 1..Len(okeys'[u]) :
                     u < t \/ (u = t /\ l < m) => HeldBelow(keys', j - 1, okeys'[u][l])
  <2>1. CASE j \in (Len(Existing) + 1)..Len(keys)
    <3>1. PICK t \in Tasks : \E m \in 1..Len(absorbed[t]) :
            /\ okeys[t][m] = keys[j]
            /\ \A u \in Tasks : \A l \in 1..Len(okeys[u]) :
                 u < t \/ (u = t /\ l < m) => HeldBelow(keys, j - 1, okeys[u][l])
      BY <1>7, <2>1 DEF SharedOrder
    <3>2. PICK m \in 1..Len(absorbed[t]) :
            /\ okeys[t][m] = keys[j]
            /\ \A u \in Tasks : \A l \in 1..Len(okeys[u]) :
                 u < t \/ (u = t /\ l < m) => HeldBelow(keys, j - 1, okeys[u][l])
      BY <3>1
    <3>3. j \in 1..Len(keys) /\ j - 1 \in Nat /\ j - 1 <= Len(keys)
      BY <1>1, <1>4, <2>1
    <3>4. m \in 1..Len(absorbed'[t]) /\ okeys'[t][m] = keys'[j]
      BY <1>1, <1>2, <1>3, <3>2, <3>3
    <3>5. ASSUME NEW u \in Tasks, NEW l \in 1..Len(okeys'[u]), u < t \/ (u = t /\ l < m)
          PROVE  HeldBelow(keys', j - 1, okeys'[u][l])
      BY <1>1, <1>11, <3>2, <3>3, <3>5
    <3> QED BY <3>4, <3>5
  <2>2. CASE j = Len(keys) + 1
    <3> DEFINE m == Len(absorbed[turn]) + 1
    <3>1. m \in 1..Len(absorbed'[turn]) /\ okeys'[turn][m] = keys'[j] /\ j - 1 = Len(keys)
      BY <1>1, <1>3, <1>10, <2>2
    <3>2. ASSUME NEW u \in Tasks, NEW l \in 1..Len(okeys'[u]), u < turn \/ (u = turn /\ l < m)
          PROVE  HeldBelow(keys', j - 1, okeys'[u][l])
      <4>1. TypeOK /\ RemapInv(u) /\ Len(okeys[u]) \in Nat /\ Len(absorbed[u]) \in Nat
        <5>1. TypeOK /\ RemapInv(u)
          BY DEF IInv
        <5>2. okeys[u] \in Seq(Keys) /\ absorbed[u] \in Seq(Nat)
          BY <5>1 DEF TypeOK
        <5> QED BY <5>1, <5>2
      <4>2. l \in 1..Len(absorbed[u])
        BY <1>1, <3>2, <4>1 DEF RemapInv
      <4>3. HeldBelow(keys, Len(keys), okeys[u][l])
        BY <4>1, <4>2, AbsorbedHeld
      <4> QED BY <1>1, <1>11, <3>1, <4>3
    <3> HIDE DEF m
    <3> QED BY <1>10, <3>1, <3>2
  <2> QED BY <1>1, <1>3, <1>4, <2>1, <2>2
<1>13. SharedOrder'
  BY <1>12 DEF SharedOrder, HeldBelow
<1> QED BY <1>8, <1>13

\* The order is kept by every step.
LEMMA OrderInvariance == Spec => []OrderInv
<1>1. Init => OrderInv
  <2> SUFFICES ASSUME Init PROVE OrderInv
    OBVIOUS
  <2>1. keys = Existing /\ Len(Existing) \in Nat
    BY InternerAssumption DEF Init
  <2>2. PrefixInv
    BY <2>1 DEF PrefixInv
  <2>3. \A t \in Tasks : absorbed[t] = <<>> /\ okeys[t] = <<>> /\ phase[t] = "new"
    BY DEF Init
  <2>4. JoinedFirst
    BY <2>3 DEF JoinedFirst
  <2>5. SharedOrder
    <3>1. (Len(Existing) + 1)..Len(keys) = {}
      BY <2>1
    <3> QED BY <3>1 DEF SharedOrder
  <2>6. ASSUME NEW t \in Tasks PROVE OwnOrder(t)
    <3>1. 1..Len(okeys[t]) = {}
      BY <2>3
    <3> QED BY <2>3, <3>1 DEF OwnOrder
  <2> QED BY <2>2, <2>4, <2>5, <2>6 DEF OrderInv
<1>2. IInv /\ IInv' /\ OrderInv /\ [Next]_vars => OrderInv'
  <2> SUFFICES ASSUME IInv, IInv', OrderInv, [Next]_vars PROVE OrderInv'
    OBVIOUS
  <2>1. ASSUME UNCHANGED <<keys, base, okeys, asked, absorbed, got>>,
               phase' = phase \/ \E t \in Tasks : phase[t] = "running" /\ phase' = [phase EXCEPT ![t] = "done"]
        PROVE  OrderInv'
    <3>1. absorbed' \in [Tasks -> Seq(Nat)] /\ \A t \in Tasks : phase'[t] = phase[t] \/ phase'[t] = "done"
      BY <2>1 DEF IInv, TypeOK
    <3>2. \A t \in Tasks : phase[t] = "new" => phase'[t] = "new"
      BY <2>1 DEF IInv, TypeOK
    <3>3. JoinedFirst'
      BY <2>1, <3>1 DEF OrderInv, JoinedFirst
    <3>4. Undisturbed' => Undisturbed
      BY <2>1 DEF Undisturbed
    <3>5. \A t \in Tasks : 1..Len(absorbed[t]) \subseteq 1..Len(absorbed'[t])
      BY <2>1
    <3> QED BY <2>1, <3>1, <3>2, <3>3, <3>4, <3>5, OrderKeeps
  <2>2. CASE UNCHANGED vars \/ Done \/ Absorbed
    BY <2>1, <2>2 DEF vars, Done, Absorbed, shared, tasks
  <2>3. ASSUME NEW t \in Tasks, TaskEnds(t) PROVE OrderInv'
    BY <2>1, <2>3 DEF TaskEnds, shared
  <2>4. ASSUME NEW th \in Threads, NEW k \in Keys, GoStraightToWrite(th, k) PROVE OrderInv'
    BY <2>1, <2>4 DEF GoStraightToWrite, shared, tasks
  <2>5. ASSUME NEW th \in Threads, NEW k \in Keys, Lookup(th, k) PROVE OrderInv'
    <3>1. CASE ids[k] # NoId /\ Answer(th, k, ids[k])
      <4>1. Due(th, k) /\ UNCHANGED <<keys, tasks, turn>> /\ ids[k] \in Nat
        BY <2>5, <3>1 DEF Lookup, Asks, Due, shared, IInv, TypeOK, Ids
      <4> QED BY <3>1, <4>1, AnswerOrder
    <3>2. CASE UNCHANGED <<absorbed, got>>
      BY <2>1, <2>5, <3>2 DEF Lookup, shared, tasks
    <3> QED BY <2>5, <3>1, <3>2 DEF Lookup
  <2>6. ASSUME NEW th \in Threads, Insert(th) PROVE OrderInv'
    <3> DEFINE k == want[th]
    <3>1. k \in Keys /\ Due(th, k) /\ UNCHANGED <<tasks, turn>>
      BY <2>6 DEF Insert, IInv, TypeOK, MainWants, Due
    <3>2. CASE ids[k] # NoId /\ Answer(th, k, ids[k]) /\ UNCHANGED shared
      <4>1. UNCHANGED <<keys, tasks, turn>> /\ ids[k] \in Nat
        BY <3>1, <3>2 DEF shared, IInv, TypeOK, Ids
      <4> QED BY <3>1, <3>2, <4>1, AnswerOrder
    <3>3. CASE ids[k] = NoId /\ Push(k) /\ Answer(th, k, Len(keys))
      BY <3>1, <3>3, PushOrder
    <3> QED BY <2>6, <3>2, <3>3 DEF Insert
  <2> QED
    BY <2>2, <2>3, <2>4, <2>5, <2>6, TakeOverlayOrder, OverlayInternOrder
    DEF Next, TaskStep, ThreadStep
<1> QED BY <1>1, <1>2, Invariance, PTL DEF Spec

\* For any number of tasks, in whatever order they ran and however the stage's interns
\* interleave with those of threads that bring no new key: absorbing the overlays in
\* task order numbers every key as a single thread would have, so what a parallel
\* stage returns does not depend on the schedule.
THEOREM SequentialNumbering == Spec => []SameAsSequential
<1>1. IInv /\ OrderInv => SameAsSequential
  BY OrderSuffices
<1> QED BY <1>1, Invariance, OrderInvariance, PTL

-----------------------------------------------------------------------------
\* The shared interner implements InternTable.

\* The position of a text that occurs once is the one CHOOSE finds.
LEMMA IdOfOnce ==
  ASSUME NEW s \in Seq(Keys), NEW k \in Keys, NEW id \in Nat, id < Len(s), s[id + 1] = k,
         \A i \in 1..Len(s) : s[i] = k => i = id + 1
  PROVE  Table!IdOf(s, k) = id /\ Table!Holds(s, k)
<1>1. id + 1 \in 1..Len(s)
  OBVIOUS
<1>2. (CHOOSE i \in 1..Len(s) : s[i] = k) = id + 1
  BY <1>1
<1> QED BY <1>1, <1>2 DEF Table!IdOf, Table!Holds

\* An answer is added to the answers given.
LEMMA AnswerGiven ==
  ASSUME TypeOK, NEW th \in Threads, NEW k \in Keys, NEW id \in Nat, Due(th, k),
         Answer(th, k, id), UNCHANGED <<tasks, turn>>
  PROVE  Given' = Given \union {[key |-> k, id |-> id]}
<1>1. okeys' = okeys
  BY DEF tasks
<1>2. CASE th = Main
  <2>1. absorbed' = [absorbed EXCEPT ![turn] = Append(absorbed[turn], id)] /\ got' = got
    BY <1>2 DEF Answer
  <2>2. turn \in Tasks /\ absorbed[turn] \in Seq(Nat) /\ Len(absorbed[turn]) \in Nat
    BY <1>2 DEF Due, Joined, TypeOK
  <2>3. absorbed'[turn] = Append(absorbed[turn], id) /\ \A t \in Tasks \ {turn} : absorbed'[t] = absorbed[t]
    BY <2>1, <2>2 DEF TypeOK
  <2>4. /\ Len(absorbed'[turn]) = Len(absorbed[turn]) + 1
        /\ \A i \in 1..Len(absorbed[turn]) : absorbed'[turn][i] = absorbed[turn][i]
        /\ absorbed'[turn][Len(absorbed[turn]) + 1] = id
    BY <2>2, <2>3, AppendFacts
  <2> DEFINE Row(t) == {[key |-> okeys[t][i], id |-> absorbed[t][i]] : i \in 1..Len(absorbed[t])}
             Row2(t) == {[key |-> okeys[t][i], id |-> absorbed'[t][i]] : i \in 1..Len(absorbed'[t])}
  <2>5. Row2(turn) = Row(turn) \union {[key |-> k, id |-> id]}
    <3>1. 1..Len(absorbed'[turn]) = (1..Len(absorbed[turn])) \union {Len(absorbed[turn]) + 1}
      BY <2>2, <2>4
    <3>2. okeys[turn][Len(absorbed[turn]) + 1] = k
      BY <1>2 DEF Due
    <3>3. {[key |-> okeys[turn][i], id |-> absorbed'[turn][i]] : i \in 1..Len(absorbed[turn])} = Row(turn)
      BY <2>4
    <3>4. [key |-> okeys[turn][Len(absorbed[turn]) + 1], id |-> absorbed'[turn][Len(absorbed[turn]) + 1]]
            = [key |-> k, id |-> id]
      BY <2>4, <3>2
    <3> QED BY <3>1, <3>3, <3>4
  <2>6. \A t \in Tasks \ {turn} : Row2(t) = Row(t)
    BY <2>3
  <2>7. UNION {Row2(t) : t \in Tasks} = (UNION {Row(t) : t \in Tasks}) \union {[key |-> k, id |-> id]}
    <3> HIDE DEF Row, Row2
    <3> QED BY <2>2, <2>5, <2>6
  <2> QED BY <1>1, <2>1, <2>7 DEF Given, GivenToOthers, GivenToStage
<1>3. CASE th # Main
  <2> DEFINE x == [key |-> k, id |-> id]
  <2>1. /\ got' = [got EXCEPT ![th] = Append(got[th], x)]
        /\ absorbed' = absorbed /\ th \in Others
    BY <1>3 DEF Answer, Threads
  <2>2. got[th] \in Seq([key : Keys, id : Nat])
    BY <2>1 DEF TypeOK
  <2>3. got'[th] = Append(got[th], x) /\ \A o \in Others \ {th} : got'[o] = got[o]
    BY <2>1 DEF TypeOK
  <2>4. /\ Len(got'[th]) = Len(got[th]) + 1
        /\ \A i \in 1..Len(got[th]) : got'[th][i] = got[th][i]
        /\ got'[th][Len(got[th]) + 1] = x
    <3>1. x \in [key : Keys, id : Nat]
      OBVIOUS
    <3> HIDE DEF x
    <3> QED BY <2>2, <2>3, <3>1, AppendFacts
  <2> DEFINE Row(o) == {got[o][i] : i \in 1..Len(got[o])}
             Row2(o) == {got'[o][i] : i \in 1..Len(got'[o])}
  <2> HIDE DEF x
  <2>5. Row2(th) = Row(th) \union {x}
    <3>1. 1..Len(got'[th]) = (1..Len(got[th])) \union {Len(got[th]) + 1}
      <4>1. Len(got[th]) \in Nat
        BY <2>2
      <4> QED BY <2>4, <4>1
    <3>2. ASSUME NEW y \in Row2(th) PROVE y \in Row(th) \union {x}
      <4>1. PICK i \in 1..Len(got'[th]) : y = got'[th][i]
        OBVIOUS
      <4>2. CASE i \in 1..Len(got[th])
        BY <2>4, <4>1, <4>2
      <4>3. CASE i = Len(got[th]) + 1
        BY <2>4, <4>1, <4>3
      <4> QED BY <3>1, <4>2, <4>3
    <3>3. ASSUME NEW y \in Row(th) PROVE y \in Row2(th)
      <4>1. PICK i \in 1..Len(got[th]) : y = got[th][i]
        OBVIOUS
      <4> QED BY <2>4, <3>1, <4>1
    <3>4. x \in Row2(th)
      <4>1. Len(got[th]) + 1 \in 1..Len(got'[th])
        BY <3>1
      <4> QED BY <2>4, <4>1
    <3> HIDE DEF Row, Row2
    <3> QED BY <3>2, <3>3, <3>4
  <2>6. \A o \in Others \ {th} : Row2(o) = Row(o)
    BY <2>3
  <2>7. UNION {Row2(o) : o \in Others} = (UNION {Row(o) : o \in Others}) \union {x}
    <3> HIDE DEF Row, Row2
    <3> QED BY <2>1, <2>5, <2>6
  <2> USE DEF x
  <2> QED BY <1>1, <2>1, <2>7 DEF Given, GivenToOthers, GivenToStage
<1> QED BY <1>2, <1>3

\* Every answer is one atomic Intern.
LEMMA AnswerIsIntern ==
  ASSUME IInv, IInv', NEW th \in Threads, NEW k \in Keys, NEW id \in Nat, Due(th, k),
         Answer(th, k, id), UNCHANGED <<tasks, turn>>, id < Len(keys'), keys'[id + 1] = k,
         \/ UNCHANGED keys
         \/ ids[k] = NoId /\ keys' = Append(keys, k)
  PROVE  Table!Intern(k)
<1>1. Given' = Given \union {[key |-> k, id |-> id]}
  BY AnswerGiven DEF IInv
<1>2. Table!IdOf(keys', k) = id /\ Table!Holds(keys', k)
  <2>1. keys' \in Seq(Keys) /\ \A i \in 1..Len(keys') : ids'[keys'[i]] = i - 1
    BY DEF IInv, TypeOK, IdsIndexTheirText
  <2>2. id + 1 \in 1..Len(keys')
    BY <2>1
  <2>3. ASSUME NEW i \in 1..Len(keys'), keys'[i] = k PROVE i = id + 1
    <3>1. ids'[k] = i - 1 /\ ids'[k] = (id + 1) - 1
      BY <2>1, <2>2, <2>3
    <3> QED BY <3>1
  <2> QED BY <2>1, <2>3, IdOfOnce
<1>3. keys' = IF Table!Holds(keys, k) THEN keys ELSE Append(keys, k)
  <2>1. CASE UNCHANGED keys
    BY <1>2, <2>1
  <2>2. CASE ids[k] = NoId /\ keys' = Append(keys, k)
    <3>1. ~Table!Holds(keys, k)
      <4> SUFFICES ASSUME NEW i \in 1..Len(keys), keys[i] = k PROVE FALSE
        BY DEF Table!Holds
      <4>1. ids[k] = i - 1 /\ i - 1 \in Nat
        BY DEF IInv, IdsIndexTheirText
      <4> QED BY <2>2, <4>1, InternerAssumption
    <3> QED BY <2>2, <3>1
  <2> QED BY <2>1, <2>2
<1> QED BY <1>1, <1>2, <1>3 DEF Table!Intern

\* A step that gives no answer is a stutter of the table.
LEMMA SilentStep ==
  ASSUME UNCHANGED <<keys, got, absorbed>>,
         \A t \in Tasks : okeys'[t] = okeys[t] \/ absorbed[t] = <<>>
  PROVE  UNCHANGED <<keys, Given>>
<1>1. ASSUME NEW t \in Tasks
      PROVE  {[key |-> okeys'[t][i], id |-> absorbed[t][i]] : i \in 1..Len(absorbed[t])}
               = {[key |-> okeys[t][i], id |-> absorbed[t][i]] : i \in 1..Len(absorbed[t])}
  <2>1. CASE okeys'[t] = okeys[t]
    BY <2>1
  <2>2. CASE absorbed[t] = <<>>
    <3>1. 1..Len(absorbed[t]) = {}
      BY <2>2
    <3> QED BY <3>1
  <2> QED BY <2>1, <2>2
<1> QED BY <1>1 DEF Given, GivenToOthers, GivenToStage

\* intern and intern_and_resolve, called by any number of threads while stages
\* take and absorb overlays, behave as one atomic look-up-or-append: double-
\* checked locking loses no key and numbers none twice.
THEOREM InternAtomic == Spec => InternIsAtomic
<1>1. Init => Table!Init
  <2> SUFFICES ASSUME Init PROVE Table!Init
    OBVIOUS
  <2>1. Given = {}
    <3>1. \A o \in Others : got[o] = <<>>
      BY DEF Init
    <3>2. \A t \in Tasks : absorbed[t] = <<>>
      BY DEF Init
    <3>3. \A n \in {Len(<<>>)} : 1..n = {}
      OBVIOUS
    <3> QED BY <3>1, <3>2, <3>3 DEF Given, GivenToOthers, GivenToStage
  <2> QED BY <2>1 DEF Init, Table!Init
<1>2. IInv /\ IInv' /\ [Next]_vars => [Table!Next]_<<keys, Given>>
  <2> SUFFICES ASSUME IInv, IInv', [Next]_vars
               PROVE  Table!Next \/ UNCHANGED <<keys, Given>>
    OBVIOUS
  <2>1. ASSUME NEW t \in Tasks, NEW k \in Keys, OverlayIntern(t, k)
        PROVE  UNCHANGED <<keys, Given>>
    <3>1. phase[t] = "running" /\ UNCHANGED <<keys, got, absorbed>>
      BY <2>1 DEF OverlayIntern, shared
    <3>2. absorbed[t] = <<>>
      BY <3>1 DEF IInv, RemapInv
    <3>3. ASSUME NEW u \in Tasks PROVE okeys'[u] = okeys[u] \/ absorbed[u] = <<>>
      BY <2>1, <3>2 DEF OverlayIntern, OverlayPush, IInv, TypeOK
    <3> QED BY <3>1, <3>3, SilentStep
  <2>2. ASSUME NEW t \in Tasks, TakeOverlay(t) \/ TaskEnds(t)
        PROVE  UNCHANGED <<keys, Given>>
    BY <2>2, SilentStep DEF TakeOverlay, TaskEnds, shared
  <2>3. CASE Absorbed \/ Done \/ UNCHANGED vars
    BY <2>3, SilentStep DEF Absorbed, Done, vars, shared, tasks
  <2>4. ASSUME NEW th \in Threads, NEW k \in Keys, GoStraightToWrite(th, k)
        PROVE  UNCHANGED <<keys, Given>>
    BY <2>4, SilentStep DEF GoStraightToWrite, shared, tasks
  <2>5. ASSUME NEW th \in Threads, NEW k \in Keys, Lookup(th, k)
        PROVE  Table!Next \/ UNCHANGED <<keys, Given>>
    <3>1. CASE ids[k] # NoId /\ Answer(th, k, ids[k])
      <4>1. Due(th, k) /\ UNCHANGED <<tasks, turn>> /\ UNCHANGED keys
        BY <2>5 DEF Lookup, Asks, Due, shared
      <4>2. ids[k] \in Nat /\ ids[k] < Len(keys) /\ keys[ids[k] + 1] = k
        BY <3>1 DEF IInv, TypeOK, Ids, IdsIndexTheirText
      <4>3. Table!Intern(k)
        BY <3>1, <4>1, <4>2, AnswerIsIntern
      <4> QED BY <4>3 DEF Table!Next
    <3>2. CASE UNCHANGED <<absorbed, got>>
      BY <2>5, <3>2, SilentStep DEF Lookup, shared, tasks
    <3> QED BY <2>5, <3>1, <3>2 DEF Lookup
  <2>6. ASSUME NEW th \in Threads, Insert(th)
        PROVE  Table!Next
    <3> DEFINE k == want[th]
    <3>1. k \in Keys /\ Due(th, k) /\ UNCHANGED <<tasks, turn>>
      BY <2>6 DEF Insert, IInv, TypeOK, MainWants, Due
    <3>2. CASE ids[k] # NoId /\ Answer(th, k, ids[k]) /\ UNCHANGED shared
      <4>1. ids[k] \in Nat /\ ids[k] < Len(keys) /\ keys[ids[k] + 1] = k /\ UNCHANGED keys
        BY <3>1, <3>2 DEF IInv, TypeOK, Ids, IdsIndexTheirText, shared
      <4>2. Table!Intern(k)
        BY <3>1, <3>2, <4>1, AnswerIsIntern
      <4> QED BY <3>1, <4>2 DEF Table!Next
    <3>3. CASE ids[k] = NoId /\ Push(k) /\ Answer(th, k, Len(keys))
      <4>1. Len(keys) \in Nat /\ Len(keys) < Len(keys') /\ keys'[Len(keys) + 1] = k
        BY <3>1, <3>3, PushFacts DEF IInv
      <4>2. keys' = Append(keys, k)
        BY <3>3 DEF Push
      <4>3. Table!Intern(k)
        BY <3>1, <3>3, <4>1, <4>2, AnswerIsIntern
      <4> QED BY <3>1, <4>3 DEF Table!Next
    <3> QED BY <2>6, <3>2, <3>3 DEF Insert
  <2> QED
    BY <2>1, <2>2, <2>3, <2>4, <2>5, <2>6 DEF Next, TaskStep, ThreadStep
<1> QED
  BY <1>1, <1>2, Invariance, PTL DEF Spec, InternIsAtomic, Table!Spec

=============================================================================
