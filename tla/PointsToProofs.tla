--------------------------- MODULE PointsToProofs ---------------------------
(***************************************************************************)
(* The solver of PointsTo returns the least solution of the constraints,   *)
(* whatever the program and the order it is visited in, unless its budget  *)
(* is exceeded.                                                            *)
(***************************************************************************)
EXTENDS PointsTo, FiniteOrders, TLAPS

AllReasons == {"steps", "objects", "slots"}
EntryLoops == {"copy"} \union Loads \union Stores

\* The loops that an entry still has to go through
Ahead ==
  [ copy |-> {"load", "store", "field_load", "field_store"},
    load |-> {"store", "field_load", "field_store"},
    store |-> {"field_load", "field_store"},
    field_load |-> {"field_store"}, field_store |-> {} ]

\* Whether object o is on the queue for variable v
Pending(q, v, o) == \E k \in 1..Len(q) : q[k].var = v /\ o \in q[k].delta

\* Where the solver is
ShapeInv ==
  /\ constraints = Derived(program)
  /\ phase # "read" => todo = {}
  /\ todo \subseteq {c \in constraints : c.kind \in {"address_of", "copy"}}
  /\ IF phase \in EntryLoops THEN current \in Entries ELSE current = None
  /\ phase \in Loads => \A e \in agenda : e[1] \in Objects \X SlotNames
  /\ phase \in Stores => \A e \in agenda : e[2] \in Objects \X SlotNames
  /\ phase = "copy" => \A e \in agenda : e[1] = current.var
  /\ phase \in {"read", "pop", "answer", "stop"} => agenda = {}
  /\ phase \in {"answer", "stop"} /\ reasons = {} => queue = <<>>

\* What has been found so far is so in every solution.
SoundInv ==
  /\ \A v \in AllVars : sets[v] \subseteq Reference[program][v]
  /\ \A e \in edges \union agenda : Reference[program][e[1]] \subseteq Reference[program][e[2]]
  /\ \A k \in 1..Len(queue) : queue[k].delta \subseteq Reference[program][queue[k].var]
  /\ phase \in EntryLoops => current.delta \subseteq Reference[program][current.var]

\* An edge has passed on the objects of its source, but for those that are on the
\* queue or that the loop over the edges is about to pass on.
DeliveredInv ==
  reasons = {} =>
    \A e \in edges : \A o \in sets[e[1]] :
      \/ o \in sets[e[2]]
      \/ Pending(queue, e[1], o)
      \/ phase = "copy" /\ e \in agenda /\ e[1] = current.var /\ o \in current.delta

\* A load or a store has an edge for each object of its base, but for those on the queue
\* and those that the loops over the current entry have not come to.
ProjectedInv ==
  reasons = {} =>
    \A c \in constraints : c.kind \in Loads \union Stores =>
      \A o \in sets[Base(c)] :
        \/ Flow(c, o) \in edges
        \/ Pending(queue, Base(c), o)
        \/ /\ phase \in EntryLoops /\ Base(c) = current.var /\ o \in current.delta
           /\ c.kind \in Ahead[phase] \/ (c.kind = phase /\ Flow(c, o) \in agenda)

\* The constraints that were read are in the sets and the edges.
ReadInv ==
  reasons = {} =>
    \A c \in constraints \ todo :
      /\ c.kind = "address_of" => c.object \in sets[c.dst]
      /\ c.kind = "copy" => <<c.src, c.dst>> \in edges

\* The answers are those of a complete solution.
AnswerInv ==
  /\ answers # {} => phase \in {"answer", "stop"}
  /\ \A a \in answers : a.status \in {"no", "may"} =>
       /\ reasons = {}
       /\ a.status = "no" => \A l, r \in a.pair : l # r => sets[l] \intersect sets[r] = {}
  /\ phase = "stop" =>
       \/ \E a \in answers : a.status = "truncated"
       \/ \A l, r \in Operands : ~Unanswered(l, r)

SolverInv == TypeOK /\ ShapeInv /\ SoundInv /\ DeliveredInv /\ ProjectedInv /\ ReadInv /\ AnswerInv

-----------------------------------------------------------------------------
(* Facts about the constraints *)

LEMMA ConstraintFields ==
  ASSUME NEW c \in Constraints
  PROVE  /\ c.dst \in AllVars /\ c.src \in AllVars /\ c.dst \in Vars /\ c.src \in Vars
         /\ c.slot \in SlotNames /\ Base(c) \in AllVars
         /\ c.object \in Objects \union {None}
         /\ c.kind \in {"address_of", "copy"} \union Loads \union Stores
BY DEF Constraints, AllVars, Base

LEMMA FlowType ==
  ASSUME NEW c \in Constraints, NEW o \in Objects
  PROVE  /\ Flow(c, o) \in Edges
         /\ Flow(c, o)[1] \in AllVars /\ Flow(c, o)[2] \in AllVars
         /\ c.kind \in Loads => Flow(c, o)[1] \in Objects \X SlotNames
         /\ c.kind \in Stores => Flow(c, o)[2] \in Objects \X SlotNames
<1>1. <<o, c.slot>> \in Objects \X SlotNames /\ c.dst \in AllVars /\ c.src \in AllVars
  BY ConstraintFields
<1>2. <<o, c.slot>> \in AllVars
  BY <1>1 DEF AllVars
<1> QED
  BY <1>1, <1>2 DEF Flow, Edges, Loads, Stores

LEMMA GivenConstraints ==
  ASSUME NEW p \in Programs
  PROVE  /\ Derived(p) \subseteq Constraints
         /\ Reference[p] \in Assignments
         /\ \A c \in Derived(p) : Satisfied(c, Reference[p])
BY PointsToAssumption DEF Solves

-----------------------------------------------------------------------------
(* What add_all and add_copy_edge do *)

LEMMA AddAllFacts ==
  ASSUME TypeOK, NEW dst \in AllVars, NEW objects \in SUBSET Objects, NEW because \in SUBSET AllReasons,
         reasons \subseteq because, AddAll(dst, objects, because)
  PROVE  /\ sets' \in Assignments /\ queue' \in Seq(Entries) /\ reasons' \in SUBSET AllReasons
         /\ because \subseteq reasons'
         /\ \A v \in AllVars : sets[v] \subseteq sets'[v]
         /\ \A v \in AllVars : \A o \in sets'[v] : o \in sets[v] \/ (v = dst /\ o \in objects)
         /\ \A k \in 1..Len(queue') : \/ k \in 1..Len(queue) /\ queue'[k] = queue[k]
                                      \/ queue'[k].var = dst /\ queue'[k].delta \subseteq objects
         /\ reasons' = {} =>
              /\ objects \subseteq sets'[dst]
              /\ \A v \in AllVars : \A o \in Objects : Pending(queue, v, o) => Pending(queue', v, o)
              /\ \A v \in AllVars : \A o \in sets'[v] : o \in sets[v] \/ Pending(queue', v, o)
<1> DEFINE new == objects \ sets[dst]
           all == objects \union sets[dst]
           entry == [var |-> dst, delta |-> new]
<1>0. sets \in [AllVars -> SUBSET Objects] /\ queue \in Seq(Entries) /\ reasons \subseteq AllReasons
  BY DEF TypeOK, Assignments, AllReasons
<1>1. CASE because # {}
  <2>1. reasons' = because /\ sets' = sets /\ queue' = queue
    BY <1>1 DEF AddAll
  <2> QED
    BY <1>0, <1>1, <2>1 DEF Assignments
<1>2. CASE because = {}
  <2>1. sets' = [sets EXCEPT ![dst] = all]
    BY <1>2 DEF AddAll
  <2>2. all \in SUBSET Objects /\ new \in SUBSET Objects
    BY <1>0
  <2>3. sets' \in [AllVars -> SUBSET Objects] /\ sets'[dst] = all /\ \A v \in AllVars \ {dst} : sets'[v] = sets[v]
    BY <1>0, <2>1, <2>2
  <2>4. \/ reasons' = {"objects"} /\ queue' = queue
        \/ reasons' = reasons /\ new = {} /\ queue' = queue
        \/ reasons' = reasons /\ new # {} /\ queue' = Append(queue, entry)
    BY <1>2 DEF AddAll
  <2>5. reasons = {}
    BY <1>2
  <2>6. /\ sets' \in Assignments
        /\ \A v \in AllVars : sets[v] \subseteq sets'[v]
        /\ \A v \in AllVars : \A o \in sets'[v] : o \in sets[v] \/ (v = dst /\ o \in new)
        /\ objects \subseteq sets'[dst]
    BY <2>3 DEF Assignments
  <2>7. CASE queue' = queue
    BY <1>0, <1>2, <2>4, <2>5, <2>6, <2>7 DEF AllReasons
  <2>8. CASE reasons' = reasons /\ new # {} /\ queue' = Append(queue, entry)
    <3>1. entry \in Entries /\ entry.var = dst /\ entry.delta = new
      BY <2>2, <2>8 DEF Entries
    <3> HIDE DEF entry, new
    <3>2. /\ queue' \in Seq(Entries) /\ Len(queue') = Len(queue) + 1 /\ Len(queue) \in Nat
          /\ queue'[Len(queue) + 1] = entry
          /\ \A k \in 1..Len(queue) : queue'[k] = queue[k]
      BY <1>0, <2>8, <3>1
    <3>3. \A k \in 1..Len(queue') : (k \in 1..Len(queue) /\ queue'[k] = queue[k]) \/ queue'[k] = entry
      BY <3>2
    <3>4. \A k \in 1..Len(queue) : k \in 1..Len(queue')
      BY <3>2
    <3>5. \A v \in AllVars : \A o \in Objects : Pending(queue, v, o) => Pending(queue', v, o)
      BY <3>2, <3>4 DEF Pending
    <3>6. \A o \in new : Pending(queue', dst, o)
      <4>1. Len(queue) + 1 \in 1..Len(queue')
        BY <3>2
      <4> QED
        BY <3>1, <3>2, <4>1 DEF Pending
    <3>7. new \subseteq objects
      BY DEF new
    <3> QED
      BY <1>2, <2>5, <2>6, <2>8, <3>1, <3>2, <3>3, <3>5, <3>6, <3>7
  <2> QED
    BY <2>4, <2>7, <2>8
<1> QED
  BY <1>1, <1>2

LEMMA AddCopyEdgeFacts ==
  ASSUME TypeOK, NEW e \in Edges, NEW because \in SUBSET AllReasons,
         reasons \subseteq because, AddCopyEdge(e, because)
  PROVE  /\ sets' \in Assignments /\ queue' \in Seq(Entries) /\ reasons' \in SUBSET AllReasons
         /\ because \subseteq reasons'
         /\ edges' = edges \union {e}
         /\ \A v \in AllVars : sets[v] \subseteq sets'[v]
         /\ \A v \in AllVars : \A o \in sets'[v] : o \in sets[v] \/ (v = e[2] /\ o \in sets[e[1]])
         /\ \A k \in 1..Len(queue') : \/ k \in 1..Len(queue) /\ queue'[k] = queue[k]
                                      \/ queue'[k].var = e[2] /\ queue'[k].delta \subseteq sets[e[1]]
         /\ reasons' = {} =>
              /\ e \in edges \/ sets[e[1]] \subseteq sets'[e[2]]
              /\ \A v \in AllVars : \A o \in Objects : Pending(queue, v, o) => Pending(queue', v, o)
              /\ \A v \in AllVars : \A o \in sets'[v] : o \in sets[v] \/ Pending(queue', v, o)
<1>1. e[1] \in AllVars /\ e[2] \in AllVars
  BY DEF Edges
<1>2. CASE e \in edges
  <2>1. reasons' = because /\ edges' = edges /\ sets' = sets /\ queue' = queue
    BY <1>2 DEF AddCopyEdge
  <2> QED
    BY <1>2, <2>1 DEF TypeOK
<1>3. CASE e \notin edges
  <2>1. edges' = edges \union {e} /\ AddAll(e[2], sets[e[1]], because)
    BY <1>3 DEF AddCopyEdge
  <2>2. sets[e[1]] \in SUBSET Objects
    BY <1>1 DEF TypeOK, Assignments
  <2> DEFINE source == sets[e[1]]
             target == e[2]
  <2>3. source \in SUBSET Objects /\ target \in AllVars /\ AddAll(target, source, because)
    BY <1>1, <2>1, <2>2
  <2> HIDE DEF source, target
  <2>4. /\ sets' \in Assignments /\ queue' \in Seq(Entries) /\ reasons' \in SUBSET AllReasons
        /\ because \subseteq reasons'
        /\ \A v \in AllVars : sets[v] \subseteq sets'[v]
        /\ \A v \in AllVars : \A o \in sets'[v] : o \in sets[v] \/ (v = target /\ o \in source)
        /\ \A k \in 1..Len(queue') : \/ k \in 1..Len(queue) /\ queue'[k] = queue[k]
                                     \/ queue'[k].var = target /\ queue'[k].delta \subseteq source
        /\ reasons' = {} =>
              /\ source \subseteq sets'[target]
              /\ \A v \in AllVars : \A o \in Objects : Pending(queue, v, o) => Pending(queue', v, o)
              /\ \A v \in AllVars : \A o \in sets'[v] : o \in sets[v] \/ Pending(queue', v, o)
    BY <2>3, AddAllFacts
  <2> QED
    BY <2>1, <2>4 DEF source, target
<1> QED
  BY <1>2, <1>3

-----------------------------------------------------------------------------
(* The steps that add objects *)

\* A step that adds objects and edges within a loop loses none: what is new is on the
\* queue, a new edge has carried over its source, and what leaves the agenda is done.
LEMMA FlowStep ==
  ASSUME TypeOK, DeliveredInv, ProjectedInv,
         constraints' = constraints, phase' = phase, current' = current,
         reasons \subseteq reasons', sets' \in Assignments,
         edges \subseteq edges', edges' \subseteq Edges, agenda' \subseteq agenda,
         \A v \in AllVars : sets[v] \subseteq sets'[v],
         reasons' = {} =>
           /\ \A v \in AllVars : \A o \in Objects : Pending(queue, v, o) => Pending(queue', v, o)
           /\ \A v \in AllVars : \A o \in sets'[v] : o \in sets[v] \/ Pending(queue', v, o)
           /\ \A f \in edges' \ edges : sets[f[1]] \subseteq sets'[f[2]]
           /\ \A f \in agenda \ agenda' : phase = "copy" => current.delta \subseteq sets'[f[2]]
           /\ \A f \in agenda \ agenda' : phase \in Loads \union Stores => f \in edges'
  PROVE  DeliveredInv' /\ ProjectedInv'
<1>1. \A f \in Edges : f[1] \in AllVars /\ f[2] \in AllVars
  BY DEF Edges
<1>2. \A v \in AllVars : sets[v] \subseteq Objects /\ sets'[v] \subseteq Objects
  BY DEF TypeOK, Assignments
<1>3. DeliveredInv'
  <2> SUFFICES ASSUME reasons' = {}, NEW f \in edges', NEW o \in sets'[f[1]],
                      o \notin sets'[f[2]], ~Pending(queue', f[1], o)
               PROVE  phase = "copy" /\ f \in agenda' /\ f[1] = current.var /\ o \in current.delta
    BY DEF DeliveredInv
  <2>1. f[1] \in AllVars /\ f[2] \in AllVars
    BY <1>1
  <2>2. o \in sets[f[1]] /\ o \in Objects
    BY <1>2, <2>1
  <2>3. f \in edges
    BY <2>2
  <2>4. o \notin sets[f[2]] /\ ~Pending(queue, f[1], o) /\ reasons = {}
    BY <2>1, <2>2
  <2>5. phase = "copy" /\ f \in agenda /\ f[1] = current.var /\ o \in current.delta
    BY <2>2, <2>3, <2>4 DEF DeliveredInv
  <2> QED
    BY <2>5
<1>4. ProjectedInv'
  <2> SUFFICES ASSUME reasons' = {}, NEW c \in constraints, c.kind \in Loads \union Stores,
                      NEW o \in sets'[Base(c)],
                      Flow(c, o) \notin edges', ~Pending(queue', Base(c), o)
               PROVE  /\ phase \in EntryLoops /\ Base(c) = current.var /\ o \in current.delta
                      /\ c.kind \in Ahead[phase] \/ (c.kind = phase /\ Flow(c, o) \in agenda')
    BY DEF ProjectedInv
  <2>1. Base(c) \in AllVars
    BY ConstraintFields DEF TypeOK
  <2>2. o \in sets[Base(c)] /\ o \in Objects
    BY <1>2, <2>1
  <2>3. Flow(c, o) \notin edges /\ ~Pending(queue, Base(c), o) /\ reasons = {}
    BY <2>1, <2>2
  <2>4. /\ phase \in EntryLoops /\ Base(c) = current.var /\ o \in current.delta
        /\ c.kind \in Ahead[phase] \/ (c.kind = phase /\ Flow(c, o) \in agenda)
    BY <2>2, <2>3 DEF ProjectedInv
  <2> QED
    BY <2>4
<1> QED
  BY <1>3, <1>4

\* A step that adds only objects and edges that are there in every solution
LEMMA SoundStep ==
  ASSUME SoundInv, program' = program, phase' = phase, current' = current,
         NEW dst \in AllVars, NEW objects, objects \subseteq Reference[program][dst],
         \A v \in AllVars : \A o \in sets'[v] : o \in sets[v] \/ (v = dst /\ o \in objects),
         \A k \in 1..Len(queue') : \/ k \in 1..Len(queue) /\ queue'[k] = queue[k]
                                   \/ queue'[k].var = dst /\ queue'[k].delta \subseteq objects,
         \A f \in edges' \union agenda' : Reference[program][f[1]] \subseteq Reference[program][f[2]]
  PROVE  SoundInv'
<1> DEFINE R == Reference[program]
<1>1. \A v \in AllVars : sets'[v] \subseteq R[v]
  BY DEF SoundInv
<1>2. \A k \in 1..Len(queue') : queue'[k].delta \subseteq R[queue'[k].var]
  BY DEF SoundInv
<1>3. phase \in EntryLoops => current.delta \subseteq R[current.var]
  BY DEF SoundInv
<1> QED
  BY <1>1, <1>2, <1>3 DEF SoundInv

\* Nothing is answered before the solver has ended.
LEMMA NoAnswers ==
  ASSUME SolverInv, phase \notin {"answer", "stop"}, answers' = answers, phase' # "stop"
  PROVE  AnswerInv'
<1>1. answers = {}
  BY DEF SolverInv, AnswerInv
<1> QED
  BY <1>1 DEF AnswerInv

LEMMA ReadStep ==
  ASSUME SolverInv, NEW c \in todo, Read(c)
  PROVE  SolverInv'
<1> DEFINE R == Reference[program]
<1>1. /\ phase = "read" /\ todo' = todo \ {c}
      /\ UNCHANGED <<program, constraints, budget, phase, agenda, current, slots, steps, answers>>
  BY DEF Read
<1>2. c \in constraints /\ c \in Constraints /\ c.kind \in {"address_of", "copy"}
  BY DEF SolverInv, TypeOK, ShapeInv
<1>3. c.dst \in AllVars /\ c.src \in AllVars /\ <<c.src, c.dst>> \in Edges
  BY <1>2, ConstraintFields DEF Edges
<1>4. TypeOK /\ reasons \in SUBSET AllReasons /\ agenda = {} /\ edges \subseteq Edges
  BY <1>1 DEF SolverInv, TypeOK, AllReasons, ShapeInv
<1>5. Satisfied(c, R)
  BY <1>2, GivenConstraints DEF SolverInv, TypeOK, ShapeInv
<1>6. ShapeInv'
  BY <1>1 DEF SolverInv, ShapeInv
<1>7. AnswerInv'
  BY <1>1, NoAnswers
<1>8. ASSUME edges' \subseteq Edges, sets' \in Assignments, queue' \in Seq(Entries), reasons' \in SUBSET AllReasons
      PROVE  TypeOK'
  BY <1>1, <1>8 DEF SolverInv, TypeOK, AllReasons
<1>9. CASE c.kind = "address_of"
  <2>1. AddAll(c.dst, {c.object}, reasons) /\ edges' = edges
    BY <1>9 DEF Read
  <2>2. c.object \in R[c.dst] /\ R \in Assignments
    BY <1>5, <1>9, GivenConstraints DEF Satisfied, SolverInv, TypeOK
  <2>3. {c.object} \in SUBSET Objects /\ {c.object} \subseteq R[c.dst]
    BY <1>3, <2>2 DEF Assignments
  <2> DEFINE objects == {c.object}
             dst == c.dst
  <2>4. /\ objects \in SUBSET Objects /\ objects \subseteq R[dst] /\ dst \in AllVars
        /\ AddAll(dst, objects, reasons)
    BY <1>3, <2>1, <2>3
  <2> HIDE DEF objects, dst, R
  <2>5. /\ sets' \in Assignments /\ queue' \in Seq(Entries) /\ reasons' \in SUBSET AllReasons
        /\ reasons \subseteq reasons'
        /\ \A v \in AllVars : sets[v] \subseteq sets'[v]
        /\ \A v \in AllVars : \A o \in sets'[v] : o \in sets[v] \/ (v = dst /\ o \in objects)
        /\ \A k \in 1..Len(queue') : \/ k \in 1..Len(queue) /\ queue'[k] = queue[k]
                                     \/ queue'[k].var = dst /\ queue'[k].delta \subseteq objects
        /\ reasons' = {} =>
             /\ objects \subseteq sets'[dst]
             /\ \A v \in AllVars : \A o \in Objects : Pending(queue, v, o) => Pending(queue', v, o)
             /\ \A v \in AllVars : \A o \in sets'[v] : o \in sets[v] \/ Pending(queue', v, o)
    BY <1>4, <2>4, AddAllFacts
  <2>6. TypeOK'
    BY <1>4, <1>8, <2>1, <2>5
  <2>7. DeliveredInv' /\ ProjectedInv'
    BY <1>1, <1>4, <2>1, <2>5, FlowStep DEF SolverInv
  <2>8. SoundInv'
    <3>1. \A f \in edges' \union agenda' : R[f[1]] \subseteq R[f[2]]
      BY <1>1, <2>1 DEF SolverInv, SoundInv, R
    <3>2. SoundInv /\ objects \subseteq Reference[program][dst]
      BY <2>4 DEF SolverInv, R
    <3>3. \A f \in edges' \union agenda' : Reference[program][f[1]] \subseteq Reference[program][f[2]]
      BY <3>1 DEF R
    <3> QED
      BY <1>1, <2>4, <2>5, <3>2, <3>3, SoundStep
  <2>9. ReadInv'
    <3> SUFFICES ASSUME reasons' = {}, NEW d \in constraints, d \notin todo'
                 PROVE  /\ d.kind = "address_of" => d.object \in sets'[d.dst]
                        /\ d.kind = "copy" => <<d.src, d.dst>> \in edges'
      BY <1>1 DEF ReadInv
    <3>1. CASE d = c
      BY <1>9, <2>5, <3>1 DEF objects, dst
    <3>2. CASE d # c
      <4>1. d.dst \in AllVars
        BY ConstraintFields DEF SolverInv, TypeOK
      <4>2. d \notin todo /\ reasons = {}
        BY <1>1, <2>5, <3>2
      <4> QED
        BY <2>1, <2>5, <4>1, <4>2 DEF SolverInv, ReadInv
    <3> QED
      BY <3>1, <3>2
  <2> QED
    BY <1>6, <1>7, <2>6, <2>7, <2>8, <2>9 DEF SolverInv
<1>10. CASE c.kind = "copy"
  <2> DEFINE e == <<c.src, c.dst>>
  <2>1. AddCopyEdge(e, reasons) /\ e \in Edges /\ e[1] \in AllVars /\ e[2] \in AllVars
    BY <1>3, <1>10 DEF Read
  <2>2. R[e[1]] \subseteq R[e[2]]
    BY <1>5, <1>10 DEF Satisfied
  <2> HIDE DEF e, R
  <2>3. /\ sets' \in Assignments /\ queue' \in Seq(Entries) /\ reasons' \in SUBSET AllReasons
        /\ reasons \subseteq reasons'
        /\ edges' = edges \union {e}
        /\ \A v \in AllVars : sets[v] \subseteq sets'[v]
        /\ \A v \in AllVars : \A o \in sets'[v] : o \in sets[v] \/ (v = e[2] /\ o \in sets[e[1]])
        /\ \A k \in 1..Len(queue') : \/ k \in 1..Len(queue) /\ queue'[k] = queue[k]
                                     \/ queue'[k].var = e[2] /\ queue'[k].delta \subseteq sets[e[1]]
        /\ reasons' = {} =>
             /\ e \in edges \/ sets[e[1]] \subseteq sets'[e[2]]
             /\ \A v \in AllVars : \A o \in Objects : Pending(queue, v, o) => Pending(queue', v, o)
             /\ \A v \in AllVars : \A o \in sets'[v] : o \in sets[v] \/ Pending(queue', v, o)
    BY <1>4, <2>1, AddCopyEdgeFacts
  <2>4. TypeOK'
    BY <1>4, <1>8, <2>1, <2>3
  <2>5. DeliveredInv' /\ ProjectedInv'
    <3>1. edges' \subseteq Edges /\ edges \subseteq edges'
      BY <1>4, <2>1, <2>3
    <3>2. reasons' = {} => \A f \in edges' \ edges : sets[f[1]] \subseteq sets'[f[2]]
      BY <2>3
    <3> QED
      BY <1>1, <1>4, <2>3, <3>1, <3>2, FlowStep DEF SolverInv
  <2>6. SoundInv'
    <3>1. \A f \in edges' \union agenda' : R[f[1]] \subseteq R[f[2]]
      BY <1>1, <2>2, <2>3 DEF SolverInv, SoundInv, R
    <3>2. sets[e[1]] \subseteq R[e[2]]
      BY <2>1, <2>2 DEF SolverInv, SoundInv, R
    <3> DEFINE objects == sets[e[1]]
               dst == e[2]
    <3>3. /\ dst \in AllVars /\ objects \subseteq R[dst]
          /\ \A v \in AllVars : \A o \in sets'[v] : o \in sets[v] \/ (v = dst /\ o \in objects)
          /\ \A k \in 1..Len(queue') : \/ k \in 1..Len(queue) /\ queue'[k] = queue[k]
                                       \/ queue'[k].var = dst /\ queue'[k].delta \subseteq objects
      BY <2>1, <2>3, <3>2
    <3> HIDE DEF objects, dst
    <3>4. SoundInv /\ objects \subseteq Reference[program][dst]
      BY <3>3 DEF SolverInv, R
    <3>5. \A f \in edges' \union agenda' : Reference[program][f[1]] \subseteq Reference[program][f[2]]
      BY <3>1 DEF R
    <3> QED
      BY <1>1, <3>3, <3>4, <3>5, SoundStep
  <2>7. ReadInv'
    <3> SUFFICES ASSUME reasons' = {}, NEW d \in constraints, d \notin todo'
                 PROVE  /\ d.kind = "address_of" => d.object \in sets'[d.dst]
                        /\ d.kind = "copy" => <<d.src, d.dst>> \in edges'
      BY <1>1 DEF ReadInv
    <3>1. CASE d = c
      BY <1>10, <2>3, <3>1 DEF e
    <3>2. CASE d # c
      <4>1. d.dst \in AllVars
        BY ConstraintFields DEF SolverInv, TypeOK
      <4>2. d \notin todo /\ reasons = {}
        BY <1>1, <2>3, <3>2
      <4> QED
        BY <2>3, <4>1, <4>2 DEF SolverInv, ReadInv
    <3> QED
      BY <3>1, <3>2
  <2> QED
    BY <1>6, <1>7, <2>4, <2>5, <2>6, <2>7 DEF SolverInv
<1> QED
  BY <1>2, <1>9, <1>10

LEMMA CloseStep ==
  ASSUME SolverInv, Close
  PROVE  SolverInv'
<1>1. /\ phase = "read" /\ todo = {} /\ phase' = "close" /\ agenda' = edges
      /\ UNCHANGED <<program, constraints, budget, todo, current, edges, sets, slots, queue, steps, reasons, answers>>
  BY DEF Close
<1>2. TypeOK'
  BY <1>1 DEF SolverInv, TypeOK, Phases, After
<1>3. ShapeInv'
  BY <1>1 DEF SolverInv, ShapeInv, EntryLoops, Loads, Stores
<1>4. SoundInv'
  BY <1>1 DEF SolverInv, SoundInv, EntryLoops, Loads, Stores
<1>5. DeliveredInv'
  BY <1>1 DEF SolverInv, DeliveredInv
<1>6. ProjectedInv'
  BY <1>1 DEF SolverInv, ProjectedInv, EntryLoops, Loads, Stores
<1>7. ReadInv'
  BY <1>1 DEF SolverInv, ReadInv
<1>8. AnswerInv'
  BY <1>1, NoAnswers
<1> QED
  BY <1>2, <1>3, <1>4, <1>5, <1>6, <1>7, <1>8 DEF SolverInv

\* Taking off the first entry of a queue
LEMMA TailFacts ==
  ASSUME NEW q \in Seq(Entries), q # <<>>
  PROVE  /\ Head(q) \in Entries /\ Tail(q) \in Seq(Entries)
         /\ Head(q) = q[1] /\ 1 \in 1..Len(q)
         /\ \A k \in 1..Len(Tail(q)) : k + 1 \in 1..Len(q) /\ Tail(q)[k] = q[k + 1]
         /\ \A v, o : Pending(q, v, o) =>
              Pending(Tail(q), v, o) \/ (v = Head(q).var /\ o \in Head(q).delta)
<1>1. /\ Len(q) \in Nat /\ Len(q) >= 1 /\ Len(Tail(q)) = Len(q) - 1
      /\ Head(q) \in Entries /\ Tail(q) \in Seq(Entries) /\ Head(q) = q[1]
      /\ \A k \in 1..Len(Tail(q)) : Tail(q)[k] = q[k + 1]
  OBVIOUS
<1>2. \A k \in 1..Len(q) : k = 1 \/ (k - 1 \in 1..Len(Tail(q)) /\ Tail(q)[k - 1] = q[k])
  BY <1>1
<1>3. ASSUME NEW v, NEW o, Pending(q, v, o)
      PROVE  Pending(Tail(q), v, o) \/ (v = Head(q).var /\ o \in Head(q).delta)
  <2>1. PICK k \in 1..Len(q) : q[k].var = v /\ o \in q[k].delta
    BY <1>3 DEF Pending
  <2> QED
    BY <1>1, <1>2, <2>1 DEF Pending
<1> QED
  BY <1>1, <1>3

LEMMA PopStep ==
  ASSUME SolverInv, Pop
  PROVE  SolverInv'
<1>1. /\ phase = "pop" /\ queue # <<>> /\ queue' = Tail(queue) /\ steps' = steps + 1
      /\ UNCHANGED <<program, constraints, budget, todo, edges, sets, slots, answers>>
      /\ \/ /\ reasons' = reasons \union {"steps"} /\ phase' = "answer"
            /\ agenda' = agenda /\ current' = current
         \/ /\ reasons' = reasons /\ phase' = "copy"
            /\ current' = Head(queue) /\ agenda' = Agenda("copy", Head(queue))
  BY DEF Pop
<1> DEFINE head == Head(queue)
           rest == Tail(queue)
<1>2. /\ head \in Entries /\ rest \in Seq(Entries) /\ head = queue[1] /\ 1 \in 1..Len(queue)
      /\ \A k \in 1..Len(rest) : k + 1 \in 1..Len(queue) /\ rest[k] = queue[k + 1]
      /\ \A v, o : Pending(queue, v, o) => Pending(rest, v, o) \/ (v = head.var /\ o \in head.delta)
  BY <1>1, TailFacts DEF SolverInv, TypeOK
<1>3. \A k \in 1..Len(rest) : rest[k].delta \subseteq Reference[program][rest[k].var]
  BY <1>2 DEF SolverInv, SoundInv
<1>4. head.delta \subseteq Reference[program][head.var]
  BY <1>2 DEF SolverInv, SoundInv
<1>5. AnswerInv'
  BY <1>1, NoAnswers
<1> HIDE DEF head, rest
<1>6. queue' = rest /\ agenda = {} /\ todo = {} /\ current = None
  BY <1>1 DEF rest, SolverInv, ShapeInv, EntryLoops, Loads, Stores
<1>7. CASE reasons' = reasons \union {"steps"} /\ phase' = "answer" /\ agenda' = agenda /\ current' = current
  <2>1. TypeOK'
    BY <1>1, <1>2, <1>6, <1>7 DEF SolverInv, TypeOK, Phases
  <2>2. reasons' # {}
    BY <1>7
  <2>3. ShapeInv'
    BY <1>1, <1>6, <1>7, <2>2 DEF SolverInv, ShapeInv, EntryLoops, Loads, Stores
  <2>4. SoundInv'
    BY <1>1, <1>3, <1>6, <1>7 DEF SolverInv, SoundInv, EntryLoops, Loads, Stores
  <2>5. DeliveredInv' /\ ProjectedInv' /\ ReadInv'
    BY <2>2 DEF DeliveredInv, ProjectedInv, ReadInv
  <2> QED
    BY <1>5, <2>1, <2>3, <2>4, <2>5 DEF SolverInv
<1>8. CASE reasons' = reasons /\ phase' = "copy" /\ current' = head /\ agenda' = Agenda("copy", head)
  <2>1. agenda' = {e \in edges : e[1] = head.var}
    BY <1>8 DEF Agenda
  <2>2. TypeOK'
    BY <1>1, <1>2, <1>6, <1>8, <2>1 DEF SolverInv, TypeOK, Phases, After
  <2>3. ShapeInv'
    BY <1>1, <1>2, <1>6, <1>8, <2>1 DEF SolverInv, ShapeInv, EntryLoops, Loads, Stores
  <2>4. SoundInv'
    BY <1>1, <1>3, <1>4, <1>6, <1>8, <2>1 DEF SolverInv, SoundInv
  <2>5. DeliveredInv'
    <3> SUFFICES ASSUME reasons = {}, NEW e \in edges, NEW o \in sets[e[1]],
                        o \notin sets[e[2]], ~Pending(rest, e[1], o)
                 PROVE  e[1] = head.var /\ o \in head.delta
      BY <1>1, <1>6, <1>8, <2>1 DEF DeliveredInv
    <3>1. Pending(queue, e[1], o)
      BY <1>1 DEF SolverInv, DeliveredInv
    <3> QED
      BY <1>2, <3>1
  <2>6. ProjectedInv'
    <3> SUFFICES ASSUME reasons = {}, NEW c \in constraints, c.kind \in Loads \union Stores,
                        NEW o \in sets[Base(c)], Flow(c, o) \notin edges, ~Pending(rest, Base(c), o)
                 PROVE  Base(c) = head.var /\ o \in head.delta /\ c.kind \in Ahead["copy"] /\ "copy" \in EntryLoops
      BY <1>1, <1>6, <1>8 DEF ProjectedInv
    <3>1. Pending(queue, Base(c), o)
      BY <1>1 DEF SolverInv, ProjectedInv, EntryLoops, Loads, Stores
    <3>2. c.kind \in Ahead["copy"] /\ "copy" \in EntryLoops
      BY DEF Ahead, EntryLoops, Loads, Stores
    <3> QED
      BY <1>2, <3>1, <3>2
  <2>7. ReadInv'
    BY <1>1, <1>8 DEF SolverInv, ReadInv
  <2> QED
    BY <1>5, <2>2, <2>3, <2>4, <2>5, <2>6, <2>7 DEF SolverInv
<1> QED
  BY <1>1, <1>7, <1>8 DEF head

\* An edge of the loops over the edges passes on objects.
LEMMA PassStep ==
  ASSUME SolverInv, NEW e \in agenda, Pass(e)
  PROVE  SolverInv'
<1> DEFINE objects == IF phase = "close" THEN sets[e[1]] ELSE current.delta
           dst == e[2]
<1>1. /\ phase \in {"close", "copy"} /\ agenda' = agenda \ {e}
      /\ AddAll(dst, objects, reasons)
      /\ UNCHANGED <<program, constraints, budget, todo, phase, current, edges, slots, steps, answers>>
  BY DEF Pass
<1>2. e \in Edges /\ e[1] \in AllVars /\ dst \in AllVars
  BY DEF SolverInv, TypeOK, Edges
<1>3. TypeOK /\ reasons \in SUBSET AllReasons /\ edges \subseteq Edges
  BY DEF SolverInv, TypeOK, AllReasons
<1>4. Reference[program][e[1]] \subseteq Reference[program][dst]
  BY DEF SolverInv, SoundInv
<1>5. phase = "copy" => current \in Entries
  BY DEF SolverInv, ShapeInv, EntryLoops
<1>6. objects \in SUBSET Objects
  BY <1>1, <1>2, <1>3, <1>5 DEF TypeOK, Assignments, Entries
<1>7. phase = "copy" => objects = current.delta
  BY <1>1
<1>8. phase = "close" => objects = sets[e[1]]
  BY <1>1
<1> HIDE DEF objects, dst
<1>9. /\ sets' \in Assignments /\ queue' \in Seq(Entries) /\ reasons' \in SUBSET AllReasons
      /\ reasons \subseteq reasons'
      /\ \A v \in AllVars : sets[v] \subseteq sets'[v]
      /\ \A v \in AllVars : \A o \in sets'[v] : o \in sets[v] \/ (v = dst /\ o \in objects)
      /\ \A k \in 1..Len(queue') : \/ k \in 1..Len(queue) /\ queue'[k] = queue[k]
                                   \/ queue'[k].var = dst /\ queue'[k].delta \subseteq objects
      /\ reasons' = {} =>
           /\ objects \subseteq sets'[dst]
           /\ \A v \in AllVars : \A o \in Objects : Pending(queue, v, o) => Pending(queue', v, o)
           /\ \A v \in AllVars : \A o \in sets'[v] : o \in sets[v] \/ Pending(queue', v, o)
  BY <1>1, <1>2, <1>3, <1>6, AddAllFacts
<1>10. TypeOK'
  BY <1>1, <1>3, <1>9 DEF TypeOK, AllReasons
<1>11. ShapeInv'
  BY <1>1 DEF SolverInv, ShapeInv
<1>12. AnswerInv'
  BY <1>1, NoAnswers
<1>13. DeliveredInv' /\ ProjectedInv'
  <2>1. agenda' \subseteq agenda /\ agenda \ agenda' \subseteq {e}
    BY <1>1
  <2>2. reasons' = {} /\ phase = "copy" => current.delta \subseteq sets'[e[2]]
    BY <1>7, <1>9 DEF dst
  <2>3. phase \notin Loads \union Stores
    BY <1>1 DEF Loads, Stores
  <2> QED
    BY <1>1, <1>3, <1>9, <2>1, <2>2, <2>3, FlowStep DEF SolverInv
<1>14. SoundInv'
  <2>1. SoundInv
    BY DEF SolverInv
  <2>2. objects \subseteq Reference[program][dst]
    <3>1. CASE phase = "close"
      BY <1>2, <1>4, <1>8, <2>1, <3>1 DEF SoundInv
    <3>2. CASE phase = "copy"
      <4>1. objects \subseteq Reference[program][current.var]
        BY <1>7, <2>1, <3>2 DEF SoundInv, EntryLoops
      <4>2. current.var = e[1]
        BY <3>2 DEF SolverInv, ShapeInv
      <4> QED
        BY <1>4, <4>1, <4>2
    <3> QED
      BY <1>1, <3>1, <3>2
  <2>3. \A f \in edges' \union agenda' : Reference[program][f[1]] \subseteq Reference[program][f[2]]
    BY <1>1, <2>1 DEF SoundInv
  <2> QED
    BY <1>1, <1>2, <1>9, <2>1, <2>2, <2>3, SoundStep
<1>15. ReadInv'
  <2> SUFFICES ASSUME reasons' = {}, NEW c \in constraints, c \notin todo
               PROVE  /\ c.kind = "address_of" => c.object \in sets'[c.dst]
                      /\ c.kind = "copy" => <<c.src, c.dst>> \in edges
    BY <1>1 DEF ReadInv
  <2>1. c.dst \in AllVars
    BY <1>3, ConstraintFields DEF TypeOK
  <2>2. reasons = {}
    BY <1>9
  <2> QED
    BY <1>9, <2>1, <2>2 DEF SolverInv, ReadInv
<1> QED
  BY <1>10, <1>11, <1>12, <1>13, <1>14, <1>15 DEF SolverInv

\* A load or a store gets the edge of one object of its base.
LEMMA ProjectStep ==
  ASSUME SolverInv, NEW e \in agenda, Project(e)
  PROVE  SolverInv'
<1> DEFINE slot == IF phase \in Loads THEN e[1] ELSE e[2]
           because == IF slot \notin slots /\ Cardinality(slots) + 1 > budget.slots
                      THEN reasons \union {"slots"} ELSE reasons
<1>1. /\ phase \in Loads \union Stores /\ agenda' = agenda \ {e}
      /\ slots' = slots \union {slot}
      /\ AddCopyEdge(e, because)
      /\ UNCHANGED <<program, constraints, budget, todo, phase, current, steps, answers>>
  BY DEF Project
<1>2. e \in Edges /\ e[1] \in AllVars /\ e[2] \in AllVars
  BY DEF SolverInv, TypeOK, Edges
<1>3. TypeOK /\ reasons \in SUBSET AllReasons /\ edges \subseteq Edges
  BY DEF SolverInv, TypeOK, AllReasons
<1>4. slot \in Objects \X SlotNames
  BY <1>1 DEF SolverInv, ShapeInv
<1>5. because \in SUBSET AllReasons /\ reasons \subseteq because
  BY <1>3 DEF AllReasons
<1>6. Reference[program][e[1]] \subseteq Reference[program][e[2]]
  BY DEF SolverInv, SoundInv
<1> HIDE DEF slot, because
<1>7. /\ sets' \in Assignments /\ queue' \in Seq(Entries) /\ reasons' \in SUBSET AllReasons
      /\ because \subseteq reasons'
      /\ edges' = edges \union {e}
      /\ \A v \in AllVars : sets[v] \subseteq sets'[v]
      /\ \A v \in AllVars : \A o \in sets'[v] : o \in sets[v] \/ (v = e[2] /\ o \in sets[e[1]])
      /\ \A k \in 1..Len(queue') : \/ k \in 1..Len(queue) /\ queue'[k] = queue[k]
                                   \/ queue'[k].var = e[2] /\ queue'[k].delta \subseteq sets[e[1]]
      /\ reasons' = {} =>
           /\ e \in edges \/ sets[e[1]] \subseteq sets'[e[2]]
           /\ \A v \in AllVars : \A o \in Objects : Pending(queue, v, o) => Pending(queue', v, o)
           /\ \A v \in AllVars : \A o \in sets'[v] : o \in sets[v] \/ Pending(queue', v, o)
  BY <1>1, <1>2, <1>3, <1>5, AddCopyEdgeFacts
<1>8. reasons \subseteq reasons' /\ edges \subseteq edges' /\ edges' \subseteq Edges
  BY <1>2, <1>3, <1>5, <1>7
<1>9. TypeOK'
  BY <1>1, <1>3, <1>4, <1>7, <1>8 DEF TypeOK, AllReasons
<1>10. phase \notin {"read", "pop", "answer", "stop", "copy"}
  BY <1>1 DEF Loads, Stores
<1>11. ShapeInv'
  BY <1>1, <1>10 DEF SolverInv, ShapeInv
<1>12. AnswerInv'
  BY <1>1, <1>10, NoAnswers
<1>13. DeliveredInv' /\ ProjectedInv'
  <2>1. agenda' \subseteq agenda /\ agenda \ agenda' \subseteq {e}
    BY <1>1
  <2>2. reasons' = {} => \A f \in edges' \ edges : sets[f[1]] \subseteq sets'[f[2]]
    BY <1>7
  <2>3. \A f \in agenda \ agenda' : f \in edges'
    BY <1>7, <2>1
  <2> QED
    BY <1>1, <1>3, <1>7, <1>8, <1>10, <2>1, <2>2, <2>3, FlowStep DEF SolverInv
<1>14. SoundInv'
  <2> DEFINE objects == sets[e[1]]
             dst == e[2]
  <2>1. SoundInv
    BY DEF SolverInv
  <2>2. /\ dst \in AllVars /\ objects \subseteq Reference[program][dst]
        /\ \A v \in AllVars : \A o \in sets'[v] : o \in sets[v] \/ (v = dst /\ o \in objects)
        /\ \A k \in 1..Len(queue') : \/ k \in 1..Len(queue) /\ queue'[k] = queue[k]
                                     \/ queue'[k].var = dst /\ queue'[k].delta \subseteq objects
    BY <1>2, <1>6, <1>7, <2>1 DEF SoundInv
  <2>3. \A f \in edges' \union agenda' : Reference[program][f[1]] \subseteq Reference[program][f[2]]
    BY <1>1, <1>6, <1>7, <2>1 DEF SoundInv
  <2> HIDE DEF objects, dst
  <2> QED
    BY <1>1, <2>1, <2>2, <2>3, SoundStep
<1>15. ReadInv'
  <2> SUFFICES ASSUME reasons' = {}, NEW c \in constraints, c \notin todo
               PROVE  /\ c.kind = "address_of" => c.object \in sets'[c.dst]
                      /\ c.kind = "copy" => <<c.src, c.dst>> \in edges'
    BY <1>1 DEF ReadInv
  <2>1. c.dst \in AllVars
    BY <1>3, ConstraintFields DEF TypeOK
  <2>2. reasons = {}
    BY <1>8
  <2> QED
    BY <1>7, <1>8, <2>1, <2>2 DEF SolverInv, ReadInv
<1> QED
  BY <1>9, <1>11, <1>12, <1>13, <1>14, <1>15 DEF SolverInv

\* The order of the loops over an entry
LEMMA LoopOrder ==
  ASSUME NEW loop \in EntryLoops
  PROVE  /\ After[loop] \in Loads \union Stores \union {"pop"}
         /\ After[loop] = "pop" => Ahead[loop] = {}
         /\ After[loop] # "pop" => Ahead[loop] = {After[loop]} \union Ahead[After[loop]]
<1>1. CASE loop = "copy"
  BY <1>1 DEF After, Ahead, Loads, Stores
<1>2. CASE loop = "load"
  BY <1>2 DEF After, Ahead, Loads, Stores
<1>3. CASE loop = "store"
  BY <1>3 DEF After, Ahead, Loads, Stores
<1>4. CASE loop = "field_load"
  BY <1>4 DEF After, Ahead, Loads, Stores
<1>5. CASE loop = "field_store"
  BY <1>5 DEF After, Ahead, Loads, Stores
<1> QED
  BY <1>1, <1>2, <1>3, <1>4, <1>5 DEF EntryLoops, Loads, Stores

\* What a loop over the loads or the stores has to do
LEMMA AgendaFacts ==
  ASSUME SolverInv, phase \in EntryLoops, NEW loop \in Loads \union Stores
  PROVE  /\ Agenda(loop, current) \subseteq Edges
         /\ \A e \in Agenda(loop, current) : Reference[program][e[1]] \subseteq Reference[program][e[2]]
         /\ loop \in Loads => \A e \in Agenda(loop, current) : e[1] \in Objects \X SlotNames
         /\ loop \in Stores => \A e \in Agenda(loop, current) : e[2] \in Objects \X SlotNames
         /\ \A c \in constraints : \A o \in current.delta :
              c.kind = loop /\ Base(c) = current.var => Flow(c, o) \in Agenda(loop, current)
<1>1. loop # "copy"
  BY DEF Loads, Stores
<1>2. current \in Entries /\ current.delta \subseteq Objects
  BY DEF SolverInv, ShapeInv, Entries
<1>3. Agenda(loop, current) =
        UNION { {Flow(c, o) : o \in current.delta} :
                  c \in {d \in constraints : d.kind = loop /\ Base(d) = current.var} }
  BY <1>1 DEF Agenda
<1>4. \A e \in Agenda(loop, current) : \E c \in constraints : \E o \in current.delta :
        c.kind = loop /\ Base(c) = current.var /\ e = Flow(c, o)
  BY <1>3
<1>5. \A c \in constraints : \A o \in current.delta :
        c.kind = loop /\ Base(c) = current.var => Flow(c, o) \in Agenda(loop, current)
  BY <1>3
<1>6. ASSUME NEW e \in Agenda(loop, current)
      PROVE  /\ e \in Edges /\ Reference[program][e[1]] \subseteq Reference[program][e[2]]
             /\ loop \in Loads => e[1] \in Objects \X SlotNames
             /\ loop \in Stores => e[2] \in Objects \X SlotNames
  <2>1. PICK c \in constraints : \E o \in current.delta :
          c.kind = loop /\ Base(c) = current.var /\ e = Flow(c, o)
    BY <1>4
  <2>2. PICK o \in current.delta : c.kind = loop /\ Base(c) = current.var /\ e = Flow(c, o)
    BY <2>1
  <2>3. c \in Constraints /\ o \in Objects
    BY <1>2 DEF SolverInv, TypeOK
  <2>4. /\ Flow(c, o) \in Edges
        /\ c.kind \in Loads => Flow(c, o)[1] \in Objects \X SlotNames
        /\ c.kind \in Stores => Flow(c, o)[2] \in Objects \X SlotNames
    BY <2>3, FlowType
  <2>5. Satisfied(c, Reference[program])
    BY GivenConstraints DEF SolverInv, TypeOK, ShapeInv
  <2>6. o \in Reference[program][Base(c)]
    BY <2>2 DEF SolverInv, SoundInv
  <2>7. Reference[program][Flow(c, o)[1]] \subseteq Reference[program][Flow(c, o)[2]]
    BY <2>2, <2>5, <2>6 DEF Satisfied
  <2> QED
    BY <2>2, <2>4, <2>7
<1> QED
  BY <1>5, <1>6

LEMMA NextLoopStep ==
  ASSUME SolverInv, NextLoop
  PROVE  SolverInv'
<1>1. /\ phase \in DOMAIN After /\ agenda = {} /\ phase' = After[phase]
      /\ agenda' = IF phase' = "pop" THEN {} ELSE Agenda(phase', current)
      /\ current' = IF phase' = "pop" THEN None ELSE current
      /\ UNCHANGED <<program, constraints, budget, todo, edges, sets, slots, queue, steps, reasons, answers>>
  BY DEF NextLoop
<1>2. phase = "close" \/ phase \in EntryLoops
  BY <1>1 DEF After, EntryLoops, Loads, Stores
<1>3. phase = "close" => phase' = "pop"
  BY <1>1 DEF After
<1>4. phase \in EntryLoops =>
        /\ phase' \in Loads \union Stores \union {"pop"}
        /\ phase' = "pop" => Ahead[phase] = {}
        /\ phase' # "pop" => Ahead[phase] = {phase'} \union Ahead[phase']
  BY <1>1, LoopOrder
<1>5. phase \notin {"read", "answer", "stop"} /\ phase' \notin {"read", "answer", "stop", "copy"}
  BY <1>2, <1>3, <1>4 DEF EntryLoops, Loads, Stores
<1>6. ReadInv'
  BY <1>1 DEF SolverInv, ReadInv
<1>7. AnswerInv'
  BY <1>1, <1>5, NoAnswers
<1>8. DeliveredInv'
  BY <1>1, <1>5 DEF SolverInv, DeliveredInv
<1>9. CASE phase' = "pop"
  <2>1. agenda' = {} /\ current' = None /\ "pop" \notin EntryLoops /\ "pop" \notin Loads /\ "pop" \notin Stores
    BY <1>1, <1>9 DEF EntryLoops, Loads, Stores
  <2>2. TypeOK'
    BY <1>1, <1>9, <2>1 DEF SolverInv, TypeOK, Phases
  <2>3. ShapeInv'
    BY <1>1, <1>5, <1>9, <2>1 DEF SolverInv, ShapeInv
  <2>4. SoundInv'
    BY <1>1, <1>9, <2>1 DEF SolverInv, SoundInv
  <2>5. ProjectedInv'
    BY <1>1, <1>2, <1>4, <1>9 DEF SolverInv, ProjectedInv, EntryLoops, Loads, Stores
  <2> QED
    BY <1>6, <1>7, <1>8, <2>2, <2>3, <2>4, <2>5 DEF SolverInv
<1>10. CASE phase' # "pop"
  <2>1. phase \in EntryLoops /\ phase' \in Loads \union Stores /\ phase' \in EntryLoops
    BY <1>2, <1>3, <1>4, <1>10 DEF EntryLoops
  <2>2. agenda' = Agenda(phase', current) /\ current' = current
    BY <1>1, <1>10
  <2> DEFINE loop == phase'
  <2>3. loop \in Loads \union Stores /\ agenda' = Agenda(loop, current)
    BY <2>1, <2>2
  <2> HIDE DEF loop
  <2>4. /\ agenda' \subseteq Edges
        /\ \A e \in agenda' : Reference[program][e[1]] \subseteq Reference[program][e[2]]
        /\ loop \in Loads => \A e \in agenda' : e[1] \in Objects \X SlotNames
        /\ loop \in Stores => \A e \in agenda' : e[2] \in Objects \X SlotNames
        /\ \A c \in constraints : \A o \in current.delta :
             c.kind = loop /\ Base(c) = current.var => Flow(c, o) \in agenda'
    BY <2>1, <2>3, AgendaFacts
  <2>5. loop = phase' /\ loop \in Phases /\ loop \in EntryLoops
    BY <2>1 DEF loop, Phases, After, Loads, Stores
  <2>6. TypeOK'
    BY <1>1, <2>2, <2>4, <2>5 DEF SolverInv, TypeOK
  <2>7. current \in Entries
    BY <2>1 DEF SolverInv, ShapeInv
  <2>8. ShapeInv'
    BY <1>1, <1>5, <1>10, <2>2, <2>4, <2>5, <2>7 DEF SolverInv, ShapeInv
  <2>9. SoundInv'
    BY <1>1, <2>1, <2>2, <2>4 DEF SolverInv, SoundInv
  <2>10. ProjectedInv'
    <3> SUFFICES ASSUME reasons = {}, NEW c \in constraints, c.kind \in Loads \union Stores,
                        NEW o \in sets[Base(c)], Flow(c, o) \notin edges, ~Pending(queue, Base(c), o)
                 PROVE  /\ loop \in EntryLoops /\ Base(c) = current.var /\ o \in current.delta
                        /\ c.kind \in Ahead[loop] \/ (c.kind = loop /\ Flow(c, o) \in agenda')
      BY <1>1, <2>2, <2>5 DEF ProjectedInv
    <3>1. Base(c) = current.var /\ o \in current.delta /\ c.kind \in Ahead[phase]
      BY <1>1 DEF SolverInv, ProjectedInv
    <3>2. c.kind = loop \/ c.kind \in Ahead[loop]
      BY <1>4, <1>10, <2>1, <2>5, <3>1
    <3> QED
      BY <2>4, <2>5, <3>1, <3>2
  <2> QED
    BY <1>6, <1>7, <1>8, <2>6, <2>8, <2>9, <2>10 DEF SolverInv
<1> QED
  BY <1>9, <1>10

LEMMA SolvedStep ==
  ASSUME SolverInv, Solved
  PROVE  SolverInv'
<1>1. /\ phase = "pop" /\ queue = <<>> /\ phase' = "answer"
      /\ UNCHANGED <<program, constraints, budget, todo, agenda, current, edges, sets, slots, queue, steps, reasons, answers>>
  BY DEF Solved
<1>2. TypeOK'
  BY <1>1 DEF SolverInv, TypeOK, Phases
<1>3. ShapeInv'
  BY <1>1 DEF SolverInv, ShapeInv, EntryLoops, Loads, Stores
<1>4. SoundInv'
  BY <1>1 DEF SolverInv, SoundInv, EntryLoops, Loads, Stores
<1>5. DeliveredInv'
  BY <1>1 DEF SolverInv, DeliveredInv
<1>6. ProjectedInv'
  BY <1>1 DEF SolverInv, ProjectedInv, EntryLoops, Loads, Stores
<1>7. ReadInv'
  BY <1>1 DEF SolverInv, ReadInv
<1>8. AnswerInv'
  BY <1>1, NoAnswers
<1> QED
  BY <1>2, <1>3, <1>4, <1>5, <1>6, <1>7, <1>8 DEF SolverInv

-----------------------------------------------------------------------------
(* The answers *)

\* A step that only answers leaves the solution alone.
LEMMA AnswerFrame ==
  ASSUME SolverInv, phase = "answer", phase' \in {"answer", "stop"}, answers' \in SUBSET Answers, AnswerInv',
         UNCHANGED <<program, constraints, budget, todo, agenda, current, edges, sets, slots, queue, steps, reasons>>
  PROVE  SolverInv'
<1>1. TypeOK'
  BY DEF SolverInv, TypeOK, Phases
<1>2. ShapeInv'
  BY DEF SolverInv, ShapeInv, EntryLoops, Loads, Stores
<1>3. SoundInv'
  BY DEF SolverInv, SoundInv, EntryLoops, Loads, Stores
<1>4. DeliveredInv'
  BY DEF SolverInv, DeliveredInv
<1>5. ProjectedInv'
  BY DEF SolverInv, ProjectedInv, EntryLoops, Loads, Stores
<1>6. ReadInv'
  BY DEF SolverInv, ReadInv
<1> QED
  BY <1>1, <1>2, <1>3, <1>4, <1>5, <1>6 DEF SolverInv

LEMMA OperandType ==
  ASSUME SolverInv
  PROVE  Operands \subseteq Vars
<1>1. ProgramOK(program)
  BY PointsToAssumption DEF SolverInv, TypeOK
<1> QED
  BY <1>1 DEF ProgramOK, Operands, Vars

\* What the answers say of the solution
LEMMA ClassifyFacts ==
  ASSUME SolverInv, NEW l \in Vars, NEW r \in Vars
  PROVE  /\ Classify(l, r) \in {"no", "may", "must", "partial", "unknown"}
         /\ Classify(l, r) \in {"no", "may"} => reasons = {}
         /\ Classify(l, r) = "no" => sets[l] \intersect sets[r] = {}
<1> DEFINE found == IF BudgetExceeded \/ sets[l] = {} \/ sets[r] = {} THEN "unknown"
                    ELSE IF sets[l] \intersect sets[r] = {} THEN "no"
                    ELSE IF Cardinality(sets[l]) = 1 /\ sets[l] = sets[r] THEN "must" ELSE "may"
<1>1. Classify(l, r) \in {"must", "partial"} \/ Classify(l, r) = found
  BY DEF Classify
<1>2. found \in {"no", "may"} => ~BudgetExceeded /\ sets[l] # {}
  OBVIOUS
<1>3. l \in AllVars
  BY DEF AllVars
<1>4. found \in {"no", "may"} => reasons = {}
  BY <1>2, <1>3 DEF BudgetExceeded
<1>5. found = "no" => sets[l] \intersect sets[r] = {}
  OBVIOUS
<1>6. found \in {"no", "may", "must", "unknown"}
  OBVIOUS
<1> QED
  BY <1>1, <1>4, <1>5, <1>6

LEMMA AnswerStep ==
  ASSUME SolverInv, NEW l \in Operands, NEW r \in Operands, Answer(l, r)
  PROVE  SolverInv'
<1>1. /\ phase = "answer"
      /\ UNCHANGED <<program, constraints, budget, todo, agenda, current, edges, sets, slots, queue, steps, reasons>>
      /\ \/ /\ answers' = answers \union {[pair |-> {l, r}, status |-> Classify(l, r)]}
            /\ phase' = phase
         \/ /\ answers' = answers \union {[pair |-> {l, r}, status |-> "truncated"]}
            /\ phase' = "stop"
  BY DEF Answer
<1>2. l \in Vars /\ r \in Vars /\ answers \subseteq Answers
  BY OperandType DEF SolverInv, TypeOK
<1>3. ASSUME NEW a \in answers, a.status \in {"no", "may"}
      PROVE  reasons = {} /\ (a.status = "no" => \A m, n \in a.pair : m # n => sets[m] \intersect sets[n] = {})
  BY <1>3 DEF SolverInv, AnswerInv
<1>4. CASE answers' = answers \union {[pair |-> {l, r}, status |-> Classify(l, r)]} /\ phase' = phase
  <2> DEFINE answer == [pair |-> {l, r}, status |-> Classify(l, r)]
  <2>1. /\ Classify(l, r) \in {"no", "may", "must", "partial", "unknown"}
        /\ Classify(l, r) \in {"no", "may"} => reasons = {}
        /\ Classify(l, r) = "no" => sets[l] \intersect sets[r] = {}
    BY <1>2, ClassifyFacts
  <2>2. answer \in Answers /\ answer.pair = {l, r} /\ answer.status = Classify(l, r)
    BY <1>2, <2>1 DEF Answers
  <2> HIDE DEF answer
  <2>3. answers' = answers \union {answer}
    BY <1>4 DEF answer
  <2>4. answer.status \in {"no", "may"} =>
          reasons = {} /\ (answer.status = "no" => \A m, n \in answer.pair : m # n => sets[m] \intersect sets[n] = {})
    BY <2>1, <2>2
  <2>5. AnswerInv'
    BY <1>1, <1>3, <1>4, <2>3, <2>4 DEF AnswerInv
  <2> QED
    BY <1>1, <1>2, <1>4, <2>2, <2>3, <2>5, AnswerFrame
<1>5. CASE answers' = answers \union {[pair |-> {l, r}, status |-> "truncated"]} /\ phase' = "stop"
  <2> DEFINE answer == [pair |-> {l, r}, status |-> "truncated"]
  <2>1. answer \in Answers /\ answer.status = "truncated"
    BY <1>2 DEF Answers
  <2> HIDE DEF answer
  <2>2. answers' = answers \union {answer}
    BY <1>5 DEF answer
  <2>3. AnswerInv'
    BY <1>1, <1>3, <1>5, <2>1, <2>2 DEF AnswerInv
  <2> QED
    BY <1>1, <1>2, <1>5, <2>1, <2>2, <2>3, AnswerFrame
<1> QED
  BY <1>1, <1>4, <1>5

LEMMA AnsweredStep ==
  ASSUME SolverInv, Answered
  PROVE  SolverInv'
<1>1. /\ phase = "answer" /\ phase' = "stop"
      /\ \A l, r \in Operands : ~Unanswered(l, r)
      /\ UNCHANGED <<program, constraints, budget, todo, agenda, current, edges, sets, slots, queue, steps, reasons, answers>>
  BY DEF Answered
<1>2. AnswerInv'
  BY <1>1 DEF SolverInv, AnswerInv, Operands, Unanswered
<1>3. answers' \in SUBSET Answers
  BY <1>1 DEF SolverInv, TypeOK
<1> QED
  BY <1>1, <1>2, <1>3, AnswerFrame

-----------------------------------------------------------------------------
(* The theorems *)

LEMMA InitSolver ==
  ASSUME Init
  PROVE  SolverInv
<1>1. program \in Programs /\ constraints = Derived(program) /\ Derived(program) \subseteq Constraints
  BY GivenConstraints DEF Init
<1>2. sets \in Assignments /\ \A v \in AllVars : sets[v] = {}
  BY DEF Init, Assignments
<1>3. queue \in Seq(Entries) /\ Len(queue) = 0
  BY DEF Init
<1>4. TypeOK
  BY <1>1, <1>2, <1>3 DEF Init, TypeOK, Phases
<1>5. ShapeInv
  BY DEF Init, ShapeInv, EntryLoops, Loads, Stores
<1>6. SoundInv
  BY <1>2, <1>3 DEF Init, SoundInv, EntryLoops, Loads, Stores
<1>7. DeliveredInv
  BY DEF Init, DeliveredInv
<1>8. ProjectedInv
  <2>1. \A c \in constraints : Base(c) \in AllVars
    BY <1>1, ConstraintFields
  <2> QED
    BY <1>2, <2>1 DEF ProjectedInv
<1>9. ReadInv
  BY DEF Init, ReadInv
<1>10. AnswerInv
  BY DEF Init, AnswerInv
<1> QED
  BY <1>4, <1>5, <1>6, <1>7, <1>8, <1>9, <1>10 DEF SolverInv

LEMMA NextSolver ==
  ASSUME SolverInv, [Next]_vars
  PROVE  SolverInv'
<1>1. CASE \E c \in todo : Read(c)
  BY <1>1, ReadStep
<1>2. CASE Close
  BY <1>2, CloseStep
<1>3. CASE Pop
  BY <1>3, PopStep
<1>4. CASE \E e \in agenda : Pass(e)
  BY <1>4, PassStep
<1>5. CASE \E e \in agenda : Project(e)
  BY <1>5, ProjectStep
<1>6. CASE NextLoop
  BY <1>6, NextLoopStep
<1>7. CASE Solved
  BY <1>7, SolvedStep
<1>8. CASE \E l, r \in Operands : Answer(l, r)
  BY <1>8, AnswerStep
<1>9. CASE Answered
  BY <1>9, AnsweredStep
<1>10. CASE UNCHANGED vars
  <2> USE <1>10 DEF vars
  <2>1. TypeOK'
    BY DEF SolverInv, TypeOK
  <2>2. ShapeInv'
    BY DEF SolverInv, ShapeInv
  <2>3. SoundInv'
    BY DEF SolverInv, SoundInv
  <2>4. DeliveredInv'
    BY DEF SolverInv, DeliveredInv
  <2>5. ProjectedInv'
    BY DEF SolverInv, ProjectedInv
  <2>6. ReadInv'
    BY DEF SolverInv, ReadInv
  <2>7. AnswerInv'
    BY DEF SolverInv, AnswerInv, Operands, Unanswered
  <2> QED
    BY <2>1, <2>2, <2>3, <2>4, <2>5, <2>6, <2>7 DEF SolverInv
<1> QED
  BY <1>1, <1>2, <1>3, <1>4, <1>5, <1>6, <1>7, <1>8, <1>9, <1>10 DEF Next

LEMMA SolverInvariant == Spec => []SolverInv
<1>1. Init => SolverInv
  BY InitSolver
<1>2. SolverInv /\ [Next]_vars => SolverInv'
  BY NextSolver
<1> QED
  BY <1>1, <1>2, PTL DEF Spec

\* Once the queue is empty, every edge has passed on its source and every load and store
\* has its edges: the sets solve the constraints.
LEMMA SolvedWithinBudget ==
  ASSUME SolverInv
  PROVE  CompleteWithinBudget
<1> SUFFICES ASSUME phase \in {"answer", "stop"}, reasons = {}
             PROVE  Solves(sets, constraints)
  BY DEF CompleteWithinBudget
<1>1. queue = <<>> /\ todo = {} /\ phase \notin EntryLoops /\ phase # "copy"
  BY DEF SolverInv, ShapeInv, EntryLoops, Loads, Stores
<1>2. \A v, o : ~Pending(queue, v, o)
  BY <1>1 DEF Pending
<1>3. \A e \in edges : sets[e[1]] \subseteq sets[e[2]]
  BY <1>1, <1>2 DEF SolverInv, DeliveredInv
<1>4. ASSUME NEW c \in constraints
      PROVE  Satisfied(c, sets)
  <2>1. c.kind = "address_of" => c.object \in sets[c.dst]
    BY <1>1 DEF SolverInv, ReadInv
  <2>2. c.kind = "copy" => sets[c.src] \subseteq sets[c.dst]
    <3>1. c.kind = "copy" => <<c.src, c.dst>> \in edges
      BY <1>1 DEF SolverInv, ReadInv
    <3>2. <<c.src, c.dst>>[1] = c.src /\ <<c.src, c.dst>>[2] = c.dst
      OBVIOUS
    <3> QED
      BY <1>3, <3>1, <3>2
  <2>3. c.kind \in Loads \union Stores =>
          \A o \in sets[Base(c)] : sets[Flow(c, o)[1]] \subseteq sets[Flow(c, o)[2]]
    <3>1. c.kind \in Loads \union Stores => \A o \in sets[Base(c)] : Flow(c, o) \in edges
      BY <1>1, <1>2 DEF SolverInv, ProjectedInv
    <3> QED
      BY <1>3, <3>1
  <2> QED
    BY <2>1, <2>2, <2>3 DEF Satisfied
<1> QED
  BY <1>4 DEF Solves

\* The state of the solver keeps its types, whatever the program and the budget.
THEOREM SolverTypes == Spec => []TypeOK
<1>1. SolverInv => TypeOK
  BY DEF SolverInv
<1> QED
  BY <1>1, SolverInvariant, PTL

\* Difference propagation is complete: a solution that solver.rs does not mark as cut
\* short satisfies every constraint, in whatever order the queue, the edges and the
\* slots were visited.
THEOREM CompleteSolution == Spec => []CompleteWithinBudget
<1>1. SolverInv => CompleteWithinBudget
  BY SolvedWithinBudget
<1> QED
  BY <1>1, SolverInvariant, PTL

\* The solver finds nothing that another solution of the constraints is without, also
\* when the budget cuts it short: Reference is any solution.
THEOREM NothingBeyondLeast == Spec => []NothingInvented
<1>1. SolverInv => NothingInvented
  BY DEF SolverInv, SoundInv, NothingInvented
<1> QED
  BY <1>1, SolverInvariant, PTL

\* aliases/query.rs says that two operands are not, or may be, the same only from a
\* complete solution, although it sees whether the budget was exceeded only by the sets.
THEOREM JustifiedAnswers == Spec => []AnswersJustified
<1>1. SolverInv => AnswersJustified
  <2> SUFFICES ASSUME SolverInv PROVE AnswersJustified
    OBVIOUS
  <2>1. CompleteWithinBudget
    BY SolvedWithinBudget
  <2>2. \A a \in answers : a.status \in {"no", "may"} => reasons = {} /\ Solves(sets, constraints)
    BY <2>1 DEF SolverInv, AnswerInv, CompleteWithinBudget
  <2> QED
    BY <2>2 DEF SolverInv, AnswerInv, AnswersJustified
<1> QED
  BY <1>1, SolverInvariant, PTL

-----------------------------------------------------------------------------
(* Every object is propagated once *)

LEMMA FoundFinite ==
  ASSUME NEW s
  PROVE  IsFiniteSet(Found(s)) /\ Cardinality(Found(s)) \in Nat
<1>1. IsFiniteSet(AllVars \X Objects)
  BY PointsToAssumption, FS_Product
<1>2. Found(s) \in SUBSET (AllVars \X Objects)
  BY DEF Found
<1>3. IsFiniteSet(Found(s))
  BY <1>1, <1>2, FS_Subset
<1> QED
  BY <1>3, FS_CardinalityType

\* What add_all queues is new in the sets.
LEMMA AddAllCount ==
  ASSUME TypeOK, NEW dst \in AllVars, NEW objects \in SUBSET Objects, NEW because,
         AddAll(dst, objects, because), steps' = steps, PropagatedOnce
  PROVE  PropagatedOnce'
<1> DEFINE new == objects \ sets[dst]
           all == objects \union sets[dst]
           entry == [var |-> dst, delta |-> new]
           before == Found(sets)
           after == Found(sets')
<1>1. sets \in [AllVars -> SUBSET Objects] /\ queue \in Seq(Entries) /\ steps \in Nat
  BY DEF TypeOK, Assignments
<1>2. sets' = sets \/ sets' = [sets EXCEPT ![dst] = all]
  BY DEF AddAll
<1>3. \A v \in AllVars : sets[v] \subseteq sets'[v]
  BY <1>1, <1>2
<1>4. before \subseteq after
  BY <1>3 DEF Found
<1>5. IsFiniteSet(before) /\ IsFiniteSet(after) /\ Cardinality(before) \in Nat /\ Cardinality(after) \in Nat
  BY FoundFinite
<1>6. Cardinality(before) <= Cardinality(after)
  BY <1>4, <1>5, FS_Subset
<1>7. steps + Len(queue) <= Cardinality(before) /\ Len(queue) \in Nat
  BY <1>1 DEF PropagatedOnce
<1>8. queue' = queue \/ (new # {} /\ queue' = Append(queue, entry) /\ sets' = [sets EXCEPT ![dst] = all])
  BY DEF AddAll
<1>9. CASE queue' = queue
  <2>1. steps' + Len(queue') <= Cardinality(after)
    BY <1>1, <1>5, <1>6, <1>7, <1>9
  <2> QED
    BY <2>1 DEF PropagatedOnce
<1>10. CASE new # {} /\ queue' = Append(queue, entry) /\ sets' = [sets EXCEPT ![dst] = all]
  <2>1. PICK o \in new : TRUE
    BY <1>10
  <2>2. <<dst, o>> \notin before
    BY DEF Found
  <2>3. sets'[dst] = all
    BY <1>1, <1>10
  <2>4. <<dst, o>> \in after
    BY <2>3 DEF Found
  <2> DEFINE more == before \union {<<dst, o>>}
  <2>5. IsFiniteSet(more) /\ Cardinality(more) = Cardinality(before) + 1
    BY <1>5, <2>2, FS_AddElement
  <2>6. more \in SUBSET after
    BY <1>4, <2>4
  <2>7. Cardinality(more) <= Cardinality(after)
    BY <1>5, <2>6, FS_Subset
  <2>8. Len(queue') = Len(queue) + 1
    BY <1>1, <1>10
  <2>9. steps' + Len(queue') <= Cardinality(after)
    <3> HIDE DEF before, after, more
    <3> QED
      BY <1>1, <1>5, <1>7, <2>5, <2>7, <2>8
  <2> QED
    BY <2>9 DEF PropagatedOnce
<1> QED
  BY <1>8, <1>9, <1>10

LEMMA AddCopyEdgeCount ==
  ASSUME TypeOK, NEW e \in Edges, NEW because, AddCopyEdge(e, because), steps' = steps, PropagatedOnce
  PROVE  PropagatedOnce'
<1>1. CASE e \in edges
  BY <1>1 DEF AddCopyEdge, PropagatedOnce
<1>2. CASE e \notin edges
  <2> DEFINE source == sets[e[1]]
             target == e[2]
  <2>1. source \in SUBSET Objects /\ target \in AllVars /\ AddAll(target, source, because)
    BY <1>2 DEF AddCopyEdge, TypeOK, Assignments, Edges
  <2> HIDE DEF source, target
  <2> QED
    BY <2>1, AddAllCount
<1> QED
  BY <1>1, <1>2

\* However the copies of a program are entangled, the solver takes no more entries off
\* its queue than there are objects in the sets: cycles end by themselves.
THEOREM EachObjectOnce == Spec => []PropagatedOnce
<1>1. Init => PropagatedOnce
  <2> SUFFICES ASSUME Init PROVE PropagatedOnce
    OBVIOUS
  <2>1. steps = 0 /\ Len(queue) = 0 /\ Cardinality(Found(sets)) \in Nat
    BY FoundFinite DEF Init
  <2> QED
    BY <2>1 DEF PropagatedOnce
<1>2. SolverInv /\ PropagatedOnce /\ [Next]_vars => PropagatedOnce'
  <2> SUFFICES ASSUME SolverInv, PropagatedOnce, [Next]_vars PROVE PropagatedOnce'
    OBVIOUS
  <2>0. TypeOK
    BY DEF SolverInv
  <2>1. ASSUME NEW c \in todo, Read(c) PROVE PropagatedOnce'
    <3>1. c \in Constraints /\ steps' = steps /\ c.kind \in {"address_of", "copy"}
      BY <2>1 DEF Read, SolverInv, TypeOK, ShapeInv
    <3>2. c.dst \in AllVars /\ <<c.src, c.dst>> \in Edges
      BY <3>1, ConstraintFields DEF Edges
    <3>3. CASE c.kind = "address_of"
      <4>1. AddAll(c.dst, {c.object}, reasons)
        BY <2>1, <3>3 DEF Read
      <4>2. Satisfied(c, Reference[program]) /\ Reference[program] \in Assignments
        BY GivenConstraints DEF SolverInv, TypeOK, ShapeInv
      <4>3. {c.object} \in SUBSET Objects
        BY <3>2, <3>3, <4>2 DEF Satisfied, Assignments
      <4> QED
        BY <2>0, <3>1, <3>2, <4>1, <4>3, AddAllCount
    <3>4. CASE c.kind = "copy"
      <4>1. AddCopyEdge(<<c.src, c.dst>>, reasons)
        BY <2>1, <3>4 DEF Read
      <4> QED
        BY <2>0, <3>1, <3>2, <4>1, AddCopyEdgeCount
    <3> QED
      BY <3>1, <3>3, <3>4
  <2>2. CASE Pop
    <3>1. queue # <<>> /\ queue' = Tail(queue) /\ steps' = steps + 1 /\ sets' = sets
      BY <2>2 DEF Pop
    <3>2. queue \in Seq(Entries) /\ steps \in Nat /\ Cardinality(Found(sets)) \in Nat
      BY <2>0, FoundFinite DEF TypeOK
    <3>3. Len(queue') = Len(queue) - 1 /\ Len(queue) \in Nat
      BY <3>1, <3>2
    <3>4. steps' + Len(queue') = steps + Len(queue)
      BY <3>1, <3>2, <3>3
    <3> QED
      BY <3>1, <3>4 DEF PropagatedOnce
  <2>3. ASSUME NEW e \in agenda, Pass(e) PROVE PropagatedOnce'
    <3> DEFINE objects == IF phase = "close" THEN sets[e[1]] ELSE current.delta
               dst == e[2]
    <3>1. AddAll(dst, objects, reasons) /\ steps' = steps /\ phase \in {"close", "copy"}
      BY <2>3 DEF Pass
    <3>2. dst \in AllVars /\ e[1] \in AllVars
      BY <2>0 DEF TypeOK, Edges
    <3>3. phase = "copy" => current \in Entries
      BY DEF SolverInv, ShapeInv, EntryLoops
    <3>4. objects \in SUBSET Objects
      BY <2>0, <3>1, <3>2, <3>3 DEF TypeOK, Assignments, Entries
    <3> HIDE DEF objects, dst
    <3> QED
      BY <2>0, <3>1, <3>2, <3>4, AddAllCount
  <2>4. ASSUME NEW e \in agenda, Project(e) PROVE PropagatedOnce'
    <3>1. steps' = steps /\ e \in Edges /\ \E because : AddCopyEdge(e, because)
      BY <2>0, <2>4 DEF Project, TypeOK
    <3> QED
      BY <2>0, <3>1, AddCopyEdgeCount
  <2>5. CASE Close \/ NextLoop \/ Solved \/ Answered \/ UNCHANGED vars
    BY <2>5 DEF Close, NextLoop, Solved, Answered, vars, PropagatedOnce
  <2>6. ASSUME NEW l \in Operands, NEW r \in Operands, Answer(l, r) PROVE PropagatedOnce'
    BY <2>6 DEF Answer, PropagatedOnce
  <2> QED
    BY <2>1, <2>2, <2>3, <2>4, <2>5, <2>6 DEF Next
<1> QED
  BY <1>1, <1>2, SolverInvariant, PTL DEF Spec

-----------------------------------------------------------------------------
(* The order of visits does not matter *)

\* Reference is contained in every solution.
Least == \A p \in Programs : \A s \in Assignments :
           Solves(s, Derived(p)) => \A v \in AllVars : Reference[p][v] \subseteq s[v]

\* What is found within the budget, and what is answered from it, is said by the
\* program alone.
SaidByProgram ==
  /\ phase \in {"answer", "stop"} /\ reasons = {} => sets = Reference[program]
  /\ \A a \in answers : a.status = "no" =>
       \A l, r \in a.pair : l # r => Reference[program][l] \intersect Reference[program][r] = {}

\* Within its budget the solver returns the least solution of the constraints, so the
\* ids and keys by which solver.rs orders constraints, variables and objects have no
\* part in it, and two operands are told apart only where the program itself keeps
\* their objects apart.
THEOREM OrderDoesNotMatter == ASSUME Least PROVE Spec => []SaidByProgram
<1>1. SolverInv => SaidByProgram
  <2> SUFFICES ASSUME SolverInv PROVE SaidByProgram
    OBVIOUS
  <2>1. program \in Programs /\ sets \in Assignments /\ Reference[program] \in Assignments
    BY GivenConstraints DEF SolverInv, TypeOK
  <2>2. ASSUME phase \in {"answer", "stop"}, reasons = {}
        PROVE  sets = Reference[program]
    <3>1. Solves(sets, Derived(program))
      BY <2>2, SolvedWithinBudget DEF CompleteWithinBudget, SolverInv, ShapeInv
    <3>2. \A v \in AllVars : Reference[program][v] \subseteq sets[v]
      BY <2>1, <3>1 DEF Least
    <3>3. \A v \in AllVars : sets[v] \subseteq Reference[program][v]
      BY DEF SolverInv, SoundInv
    <3>4. \A v \in AllVars : sets[v] = Reference[program][v]
      BY <3>2, <3>3
    <3> QED BY <2>1, <3>4 DEF Assignments
  <2>3. ASSUME NEW a \in answers, a.status = "no", NEW l \in a.pair, NEW r \in a.pair, l # r
        PROVE  Reference[program][l] \intersect Reference[program][r] = {}
    <3>1. reasons = {} /\ sets[l] \intersect sets[r] = {} /\ phase \in {"answer", "stop"}
      BY <2>3 DEF SolverInv, AnswerInv
    <3> QED BY <2>2, <3>1
  <2> QED BY <2>2, <2>3 DEF SaidByProgram
<1> QED BY <1>1, SolverInvariant, PTL

-----------------------------------------------------------------------------
(* The solver ends: the part of it that is safety *)

\* The solver takes no more entries off its queue than there are variables and objects.
StepsBounded == steps <= Cardinality(AllVars) * Cardinality(Objects)

\* What is left of the loops of initialize, of an entry, and of the answers
PhasesLeft ==
  [read |-> 9, close |-> 8, copy |-> 7, load |-> 6, store |-> 5, field_load |-> 4, field_store |-> 3,
   pop |-> 2, answer |-> 1, stop |-> 0]

\* A step takes an entry off the queue, leaves a loop, or leaves less for the loop it is in.
GoesOn ==
  \/ steps' = steps + 1
  \/ steps' = steps /\ PhasesLeft[phase'] < PhasesLeft[phase]
  \/ /\ steps' = steps /\ phase' = phase
     /\ \/ \E c \in todo : todo' = todo \ {c}
        \/ todo' = todo /\ \E e \in agenda : agenda' = agenda \ {e}
        \/ /\ UNCHANGED <<todo, agenda>>
           /\ \E l, r \in Operands : Unanswered(l, r) /\ \E a \in answers' : a.pair = {l, r}

\* Whatever cycles the copies, loads and stores of a program make, and whatever the
\* budget: the solver's work is bounded by the variables and the objects, and every
\* step uses some of it up.
THEOREM SolverWorkBounded == Spec => []StepsBounded /\ [][GoesOn]_vars
<1>1. TypeOK /\ PropagatedOnce => StepsBounded
  <2> SUFFICES ASSUME TypeOK, PropagatedOnce PROVE StepsBounded
    OBVIOUS
  <2>1. IsFiniteSet(AllVars) /\ IsFiniteSet(Objects)
    BY PointsToAssumption
  <2>2. IsFiniteSet(AllVars \X Objects)
        /\ Cardinality(AllVars \X Objects) = Cardinality(AllVars) * Cardinality(Objects)
    BY <2>1, FS_Product
  <2>3. Cardinality(Found(sets)) <= Cardinality(AllVars \X Objects) /\ Cardinality(AllVars \X Objects) \in Nat
    <3>1. Found(sets) \in SUBSET (AllVars \X Objects)
      BY DEF Found
    <3> QED BY <2>2, <3>1, FS_Subset, FS_CardinalityType
  <2>4. Cardinality(Found(sets)) \in Nat /\ Len(queue) \in Nat /\ steps \in Nat
    BY FoundFinite DEF TypeOK
  <2>5. steps <= Cardinality(AllVars \X Objects)
    BY <2>3, <2>4 DEF PropagatedOnce
  <2> QED BY <2>2, <2>5 DEF StepsBounded
<1>2. SolverInv /\ [Next]_vars => [GoesOn]_vars
  <2> SUFFICES ASSUME SolverInv, Next PROVE GoesOn
    OBVIOUS
  <2>1. ASSUME NEW c \in todo, Read(c) PROVE GoesOn
    BY <2>1 DEF Read, GoesOn
  <2>2. CASE Pop
    BY <2>2 DEF Pop, GoesOn
  <2>3. ASSUME NEW e \in agenda, Pass(e) \/ Project(e) PROVE GoesOn
    BY <2>3 DEF Pass, Project, GoesOn
  <2>4. CASE Close \/ Solved \/ Answered
    BY <2>4 DEF Close, Solved, Answered, GoesOn, PhasesLeft
  <2>5. CASE NextLoop
    BY <2>5 DEF NextLoop, GoesOn, PhasesLeft, After
  <2>6. ASSUME NEW l \in Operands, NEW r \in Operands, Answer(l, r) PROVE GoesOn
    <3>0. ASSUME NEW status, answers' = answers \union {[pair |-> {l, r}, status |-> status]}
          PROVE  \E a \in answers' : a.pair = {l, r}
      <4>1. [pair |-> {l, r}, status |-> status] \in answers' /\ [pair |-> {l, r}, status |-> status].pair = {l, r}
        BY <3>0
      <4> QED BY <4>1
    <3>1. /\ Unanswered(l, r) /\ \E a \in answers' : a.pair = {l, r}
          /\ UNCHANGED <<steps, todo, agenda>>
      BY <2>6, <3>0 DEF Answer
    <3>2. phase' = phase \/ (phase = "answer" /\ phase' = "stop")
      BY <2>6 DEF Answer
    <3>3. CASE phase' = phase
      BY <3>1, <3>3 DEF GoesOn
    <3>4. CASE phase = "answer" /\ phase' = "stop"
      BY <3>1, <3>4 DEF GoesOn, PhasesLeft
    <3> QED BY <3>2, <3>3, <3>4
  <2> QED BY <2>1, <2>2, <2>3, <2>4, <2>5, <2>6 DEF Next
<1>3. SolverInv => TypeOK
  BY DEF SolverInv
<1> QED BY <1>1, <1>2, <1>3, SolverInvariant, EachObjectOnce, PTL DEF Spec

\* The loop the solver is in has something left to do, or can be left.
CanGoOn ==
  \/ phase = "read" /\ (todo = {} \/ \E c \in todo : c.kind \in {"address_of", "copy"})
  \/ phase = "pop"
  \/ phase \in {"close", "copy"} \union Loads \union Stores
  \/ /\ phase = "answer"
     /\ \/ \A l, r \in Operands : ~Unanswered(l, r)
        \/ \E l, r \in Operands :
             /\ Unanswered(l, r)
             /\ \A pair \in Earlier(l, r) : ~Unanswered(pair[1], pair[2])

\* Of the pairs that have no answer, one comes first in the order of derive_alias_answers.
LEMMA FirstPair ==
  ASSUME SolverInv, NEW l0 \in Operands, NEW r0 \in Operands, Unanswered(l0, r0)
  PROVE  \E l, r \in Operands :
           /\ Unanswered(l, r)
           /\ \A pair \in Earlier(l, r) : ~Unanswered(pair[1], pair[2])
<1> DEFINE S == {pair \in Operands \X Operands : Unanswered(pair[1], pair[2])}
           Sooner(a, b) == Rank[a[1]] < Rank[b[1]] \/ (a[1] = b[1] /\ Rank[a[2]] < Rank[b[2]])
           R == {x \in S \X S : Sooner(x[1], x[2])}
<1>1. IsFiniteSet(S)
  <2>1. IsFiniteSet(AllVars) /\ Operands \in SUBSET AllVars
    BY PointsToAssumption, OperandType DEF AllVars
  <2>2. IsFiniteSet(Operands)
    BY <2>1, FS_Subset
  <2>3. IsFiniteSet(Operands \X Operands)
    BY <2>2, FS_Product
  <2>4. S \in SUBSET (Operands \X Operands)
    OBVIOUS
  <2> QED BY <2>3, <2>4, FS_Subset
<1>2. \A v \in Operands : Rank[v] \in Nat
  <2>1. ProgramOK(program)
    BY PointsToAssumption DEF SolverInv, TypeOK
  <2>2. Operands \subseteq Places \union PathIds
    BY <2>1 DEF ProgramOK, Operands
  <2> QED BY <2>2, PointsToAssumption
<1>3. \A a \in S : a[1] \in Operands /\ a[2] \in Operands /\ a = <<a[1], a[2]>>
  OBVIOUS
<1>4. \A a, b \in S : <<a, b>> \in R <=> Sooner(a, b)
  <2> HIDE DEF S, Sooner
  <2> QED OBVIOUS
<1>5. \A a \in S : ~Sooner(a, a)
  BY <1>2, <1>3
<1>6. \A a, b, c \in S : Sooner(a, b) /\ Sooner(b, c) => Sooner(a, c)
  BY <1>2, <1>3
<1>7. <<l0, r0>> \in S
  OBVIOUS
<1>8. PICK m \in S : \A a \in S : ~Sooner(a, m)
  <2>1. /\ \A a \in S : <<a, a>> \notin R
        /\ \A a, b, c \in S : <<a, b>> \in R /\ <<b, c>> \in R => <<a, c>> \in R
    <3> HIDE DEF S, R, Sooner
    <3> QED BY <1>4, <1>5, <1>6
  <2>2. \E m \in S : \A a \in S : <<a, m>> \notin R
    <3> HIDE DEF S, R
    <3> QED BY <1>1, <1>7, <2>1, FirstOfAll
  <2> HIDE DEF S, R, Sooner
  <2> QED BY <1>4, <2>2
<1>9. ASSUME NEW pair \in Earlier(m[1], m[2]), Unanswered(pair[1], pair[2]) PROVE FALSE
  <2>1. pair \in S /\ Sooner(pair, m)
    BY <1>9 DEF Earlier
  <2> QED BY <1>8, <2>1
<1> QED BY <1>3, <1>8, <1>9

\* Until all is answered or the answers stop, the solver and derive_alias_answers always
\* have a step to take: each loop can be left, and of the pairs that are left one comes
\* first.
THEOREM SolverNeverStuck == Spec => [](phase # "stop" => CanGoOn)
<1>1. SolverInv => (phase # "stop" => CanGoOn)
  <2> SUFFICES ASSUME SolverInv, phase # "stop" PROVE CanGoOn
    OBVIOUS
  <2>1. phase \in {"read", "pop", "answer", "close", "copy"} \union Loads \union Stores
    BY DEF SolverInv, TypeOK, Phases, After, Loads, Stores
  <2>2. CASE phase = "read"
    BY <2>2 DEF CanGoOn, SolverInv, ShapeInv
  <2>3. CASE phase = "answer"
    BY <2>3, FirstPair DEF CanGoOn
  <2> QED BY <2>1, <2>2, <2>3 DEF CanGoOn
<1> QED BY <1>1, SolverInvariant, PTL

=============================================================================
