------------------------------ MODULE PointsTo ------------------------------
(***************************************************************************)
(* Which objects may a variable of the analysed program refer to, and may  *)
(* two of its places be the same?  points_to/constraints.rs turns what is  *)
(* known of values and access paths into constraints, points_to/solver.rs  *)
(* solves them by propagating differences within a budget, and             *)
(* aliases/query.rs answers from the solution.                             *)
(*                                                                         *)
(* The solver is sequential.  What is left open is the order in which it   *)
(* visits constraints, variables and objects: the code orders them by ids  *)
(* and keys that say nothing about the program analysed.                   *)
(***************************************************************************)
EXTENDS Naturals, Sequences, FiniteSets

CONSTANTS
  Places,       \* places of the analysed program
  PathIds,      \* ids of access paths
  MaxDepth,     \* bound on the projections of an access path
  Objects,      \* object tokens
  Names,        \* names of fields and texts of indices
  SlotNames,    \* names of the slots of an object
  Contents,     \* the slot a pointer is dereferenced to, "$contents"
  Bracket,      \* Bracket[x]: the slot of an element with index x, "[x]"
  None,         \* no object
  Programs,     \* what may be known of a program, see ProgramOK
  Budgets,      \* budgets of the solver
  MaxPairs,     \* MAX_PROVIDER_STACK_PAIRS
  Rank,         \* Rank[v]: where the operand v comes once they are sorted by their keys, those
                \* with one key in the order they had
  Reference     \* Reference[p]: a solution of the constraints of p

\* vars.rs: the variables of the solver are tagged by where they come from, so that
\* those of places, paths, prefixes of paths and slots of objects are different.
Vars    == Places \union PathIds \union (PathIds \X (1..MaxDepth))
AllVars == Vars \union (Objects \X SlotNames)
Edges   == AllVars \X AllVars

\* dst := an object, dst := src, dst := src.slot, dst.slot := src
Loads       == {"load", "field_load"}
Stores      == {"store", "field_store"}
Constraints == [ kind   : {"address_of", "copy"} \union Loads \union Stores,
                 dst    : Vars,
                 src    : Vars,
                 object : Objects \union {None},
                 slot   : SlotNames ]

Projections == [via : {"field", "index", "deref", "call", "opaque"}, name : Names]

\* A program: what is known of the values of places, its access paths, constraints that
\* extensions add, and those that are dropped because an earlier one has the same stable
\* key.
Values == [kind : {"object", "place", "call"}, at : Vars, of : Vars, object : Objects]
ProgramOK(p) ==
  /\ p.values \subseteq Values
  /\ \A q \in p.paths :
       /\ q.id \in PathIds /\ q.base \in Places
       /\ q.projections \in Seq(Projections) /\ Len(q.projections) <= MaxDepth
  /\ p.extra \subseteq Constraints /\ p.dropped \subseteq Constraints

-----------------------------------------------------------------------------
(* The constraints *)

Constraint(kind, dst, src, object, slot) ==
  [kind |-> kind, dst |-> dst, src |-> src, object |-> object, slot |-> slot]

AddressOf(dst, object) == Constraint("address_of", dst, dst, object, Contents)
Copy(dst, src)         == Constraint("copy", dst, src, None, Contents)

\* collect_values: a call whose result is known has an object of its own besides what
\* the returned place refers to.
ValueConstraints(v) ==
  CASE v.kind = "object" -> {AddressOf(v.at, v.object)}
    [] v.kind = "place"  -> {Copy(v.at, v.of)}
    [] v.kind = "call"   -> {AddressOf(v.at, v.object), Copy(v.at, v.of)}

\* The variable of the first k projections of a path
Node(q, k) ==
  IF k = 0 THEN q.base ELSE IF k = Len(q.projections) THEN q.id ELSE <<q.id, k>>

\* collect_access_paths: a path may be read and written.
StepConstraints(base, dst, p) ==
  CASE p.via = "deref"  -> { Constraint("load", dst, base, None, Contents),
                             Constraint("store", base, dst, None, Contents) }
    [] p.via = "field"  -> { Constraint("field_load", dst, base, None, p.name),
                             Constraint("field_store", base, dst, None, p.name) }
    [] p.via = "index"  -> { Constraint("field_load", dst, base, None, Bracket[p.name]),
                             Constraint("field_store", base, dst, None, Bracket[p.name]) }
    [] p.via = "call"   -> { Copy(dst, base) }
    [] p.via = "opaque" -> {}

Collected(p) ==
  UNION {ValueConstraints(v) : v \in p.values}
    \union UNION { UNION { StepConstraints(Node(q, k - 1), Node(q, k), q.projections[k]) :
                             k \in 1..Len(q.projections) } : q \in p.paths }

\* finish: of the constraints with one key, which are of one kind, the first stays.
Derived(p) == (Collected(p) \ p.dropped) \union p.extra

\* The side of a load or a store whose objects have the slot, and the flow that one of
\* those objects gives rise to
Base(c)    == IF c.kind \in Loads THEN c.src ELSE c.dst
Flow(c, o) == IF c.kind \in Loads THEN << <<o, c.slot>>, c.dst >> ELSE << c.src, <<o, c.slot>> >>

\* What the constraints mean
Satisfied(c, s) ==
  /\ c.kind = "address_of" => c.object \in s[c.dst]
  /\ c.kind = "copy" => s[c.src] \subseteq s[c.dst]
  /\ c.kind \in Loads \union Stores =>
       \A o \in s[Base(c)] : s[Flow(c, o)[1]] \subseteq s[Flow(c, o)[2]]

Solves(s, cs) == \A c \in cs : Satisfied(c, s)

Assignments == [AllVars -> SUBSET Objects]

ASSUME PointsToAssumption ==
  /\ Places \intersect PathIds = {}
  /\ Names \subseteq SlotNames /\ Contents \in SlotNames
  /\ Bracket \in [Names -> SlotNames]
  /\ \A p \in Programs : ProgramOK(p) /\ Derived(p) \subseteq Constraints
  /\ Budgets \subseteq [steps : Nat, objects : Nat, slots : Nat]
  /\ MaxPairs \in Nat
  /\ Rank \in [Places \union PathIds -> Nat]
  /\ \A v, w \in Places \union PathIds : Rank[v] = Rank[w] => v = w
  /\ \A p \in Programs : Reference[p] \in Assignments /\ Solves(Reference[p], Derived(p))
  /\ IsFiniteSet(AllVars) /\ IsFiniteSet(Objects)

-----------------------------------------------------------------------------
VARIABLES
  program,      \* what is known of the program, and
  constraints,  \* the constraints it gives rise to
  budget,
  todo,         \* constraints, other than loads and stores, that initialize has not read
  phase,        \* the loop the solver is in
  agenda,       \* what is left for that loop, as flows between variables
  current,      \* the entry of the queue that is being propagated
  edges,        \* copy_edges
  sets,         \* sets[v]: what v may refer to; none is the empty set
  slots,        \* object_slots
  queue,        \* variables with the objects they have newly got
  steps,
  reasons,      \* budget_reasons, empty as long as the budget is not exceeded
  answers       \* the answers on pairs of operands

vars == <<program, constraints, budget, todo, phase, agenda, current, edges, sets, slots, queue,
          steps, reasons, answers>>

Entries == [var : AllVars, delta : (SUBSET Objects) \ {{}}]

\* The loops that propagate an entry, in the order of the code
After ==
  [ close |-> "pop", copy |-> "load", load |-> "store", store |-> "field_load",
    field_load |-> "field_store", field_store |-> "pop" ]
Phases == {"read", "pop", "answer", "stop"} \union DOMAIN After

Answers == [pair : SUBSET Vars, status : {"no", "may", "must", "partial", "unknown", "truncated"}]

TypeOK ==
  /\ program \in Programs
  /\ constraints \subseteq Constraints
  /\ budget \in Budgets
  /\ todo \subseteq constraints
  /\ phase \in Phases
  /\ agenda \subseteq Edges
  /\ current \in Entries \union {None}
  /\ edges \subseteq Edges
  /\ sets \in Assignments
  /\ slots \subseteq Objects \X SlotNames
  /\ queue \in Seq(Entries)
  /\ steps \in Nat
  /\ reasons \subseteq {"steps", "objects", "slots"}
  /\ answers \subseteq Answers

Init ==
  /\ program \in Programs
  /\ constraints = Derived(program)
  /\ budget \in Budgets
  /\ todo = {c \in constraints : c.kind \in {"address_of", "copy"}}
  /\ phase = "read"
  /\ agenda = {}
  /\ current = None
  /\ edges = {}
  /\ sets = [v \in AllVars |-> {}]
  /\ slots = {}
  /\ queue = <<>>
  /\ steps = 0
  /\ reasons = {}
  /\ answers = {}

-----------------------------------------------------------------------------
(* Solving *)

\* Mutant of AddAll: what was there already is queued again.
AddAllAgain(dst, objects, because) ==
  LET all == objects \union sets[dst]
  IN  IF because # {}
      THEN reasons' = because /\ UNCHANGED <<sets, queue>>
      ELSE /\ sets' = [sets EXCEPT ![dst] = all]
           /\ IF Cardinality(all) > budget.objects
              THEN reasons' = {"objects"} /\ UNCHANGED queue
              ELSE /\ queue' = IF objects = {} THEN queue ELSE Append(queue, [var |-> dst, delta |-> objects])
                   /\ UNCHANGED reasons

\* add_all: nothing is added once the budget is exceeded; what is new is queued.
\* because: the reasons there are by then
AddAll(dst, objects, because) ==
  LET new == objects \ sets[dst]
      all == objects \union sets[dst]
  IN  IF because # {}
      THEN reasons' = because /\ UNCHANGED <<sets, queue>>
      ELSE /\ sets' = [sets EXCEPT ![dst] = all]
           /\ IF Cardinality(all) > budget.objects
              THEN reasons' = {"objects"} /\ UNCHANGED queue
              ELSE /\ queue' = IF new = {} THEN queue ELSE Append(queue, [var |-> dst, delta |-> new])
                   /\ UNCHANGED reasons

\* Mutant of AddCopyEdge: a new edge waits for what its source gets from now on.
AddCopyEdgeEmpty(e, because) ==
  /\ edges' = edges \union {e}
  /\ reasons' = because
  /\ UNCHANGED <<sets, queue>>

\* add_copy_edge: a new edge carries over what its source has so far.
AddCopyEdge(e, because) ==
  IF e \in edges
  THEN reasons' = because /\ UNCHANGED <<edges, sets, queue>>
  ELSE edges' = edges \union {e} /\ AddAll(e[2], sets[e[1]], because)

\* initialize reads a constraint; loads and stores it only indexes by their base.
Read(c) ==
  /\ phase = "read" /\ c \in todo
  /\ todo' = todo \ {c}
  /\ \/ /\ c.kind = "address_of"
        /\ AddAll(c.dst, {c.object}, reasons)
        /\ UNCHANGED edges
     \/ /\ c.kind = "copy"
        /\ AddCopyEdge(<<c.src, c.dst>>, reasons)
  /\ UNCHANGED <<program, constraints, budget, phase, agenda, current, slots, steps, answers>>

\* The second loop of initialize, over the edges there are
Close ==
  /\ phase = "read" /\ todo = {}
  /\ phase' = "close"
  /\ agenda' = edges
  /\ UNCHANGED <<program, constraints, budget, todo, current, edges, sets, slots, queue, steps, reasons, answers>>

\* Mutant of Agenda: the loads and stores are not looked up by their base.
AgendaOfAll(loop, entry) ==
  IF loop = "copy" THEN {e \in edges : e[1] = entry.var}
  ELSE UNION { {Flow(c, o) : o \in entry.delta} : c \in {d \in constraints : d.kind = loop} }

\* What one of the loops over an entry has to do
Agenda(loop, entry) ==
  IF loop = "copy" THEN {e \in edges : e[1] = entry.var}
  ELSE UNION { {Flow(c, o) : o \in entry.delta} :
                 c \in {d \in constraints : d.kind = loop /\ Base(d) = entry.var} }

\* The next entry is taken off the queue, within the budget of steps.
Pop ==
  /\ phase = "pop" /\ queue # <<>>
  /\ queue' = Tail(queue)
  /\ steps' = steps + 1
  /\ IF steps' > budget.steps
     THEN /\ reasons' = reasons \union {"steps"}
          /\ phase' = "answer"
          /\ UNCHANGED <<agenda, current>>
     ELSE /\ current' = Head(queue)
          /\ phase' = "copy"
          /\ agenda' = Agenda("copy", current')
          /\ UNCHANGED reasons
  /\ UNCHANGED <<program, constraints, budget, todo, edges, sets, slots, answers>>

\* An edge passes on what its source has, in initialize, or has newly got.
Pass(e) ==
  /\ phase \in {"close", "copy"} /\ e \in agenda
  /\ agenda' = agenda \ {e}
  /\ AddAll(e[2], IF phase = "close" THEN sets[e[1]] ELSE current.delta, reasons)
  /\ UNCHANGED <<program, constraints, budget, todo, phase, current, edges, slots, steps, answers>>

\* Mutant of Project: a load takes the variable it loads into for the slot.
ProjectInto(e) ==
  /\ phase \in Loads \union Stores /\ e \in agenda
  /\ agenda' = agenda \ {e}
  /\ slots' = slots \union {e[2]}
  /\ AddCopyEdge(e, reasons)
  /\ UNCHANGED <<program, constraints, budget, todo, phase, current, steps, answers>>

\* object_slot: a slot gets its variable when it is first met, and add_copy_edge
Project(e) ==
  /\ phase \in Loads \union Stores /\ e \in agenda
  /\ agenda' = agenda \ {e}
  /\ LET slot == IF phase \in Loads THEN e[1] ELSE e[2]
         full == slot \notin slots /\ Cardinality(slots) + 1 > budget.slots
     IN  /\ slots' = slots \union {slot}
         /\ AddCopyEdge(e, IF full THEN reasons \union {"slots"} ELSE reasons)
  /\ UNCHANGED <<program, constraints, budget, todo, phase, current, steps, answers>>

\* Mutant of NextLoop: once the budget is exceeded the loop is not left.
NextLoopWithin ==
  /\ phase \in DOMAIN After /\ agenda = {} /\ reasons = {}
  /\ phase' = After[phase]
  /\ agenda' = IF phase' = "pop" THEN {} ELSE Agenda(phase', current)
  /\ current' = IF phase' = "pop" THEN None ELSE current
  /\ UNCHANGED <<program, constraints, budget, todo, edges, sets, slots, queue, steps, reasons, answers>>

\* A loop has ended and the next one of the entry begins, on the edges there are now.
NextLoop ==
  /\ phase \in DOMAIN After /\ agenda = {}
  /\ phase' = After[phase]
  /\ agenda' = IF phase' = "pop" THEN {} ELSE Agenda(phase', current)
  /\ current' = IF phase' = "pop" THEN None ELSE current
  /\ UNCHANGED <<program, constraints, budget, todo, edges, sets, slots, queue, steps, reasons, answers>>

Solved ==
  /\ phase = "pop" /\ queue = <<>>
  /\ phase' = "answer"
  /\ UNCHANGED <<program, constraints, budget, todo, agenda, current, edges, sets, slots, queue, steps, reasons, answers>>

-----------------------------------------------------------------------------
(* Answering *)

\* The operands of derive_alias_answers, and the path an operand stands for
Operands == {q.base : q \in program.paths} \union {q.id : q \in program.paths}
IsPath(v) == \E q \in program.paths : q.id = v
Path(v)   == CHOOSE q \in program.paths : q.id = v

SamePath(l, r) ==
  IF IsPath(l) /\ IsPath(r)
  THEN Path(l).base = Path(r).base /\ Path(l).projections = Path(r).projections
  ELSE \E p \in {l, r}, b \in {l, r} : IsPath(p) /\ ~IsPath(b) /\ Path(p).base = b /\ Path(p).projections = <<>>

CommonBase(l, r) ==
  /\ IsPath(l) /\ IsPath(r)
  /\ Path(l).base = Path(r).base /\ Path(l).projections # Path(r).projections

\* AliasQueryIndex::new sees that the budget was exceeded by the sets it is given.
BudgetExceeded == reasons # {} /\ \E v \in AllVars : sets[v] # {}

\* Mutant of Classify: sets that were cut short are taken as they are.
ClassifyCut(l, r) ==
  CASE l = r \/ SamePath(l, r) -> "must"
    [] ~(l = r \/ SamePath(l, r)) /\ CommonBase(l, r) -> "partial"
    [] OTHER ->
         IF sets[l] = {} \/ sets[r] = {} THEN "unknown"
         ELSE IF sets[l] \intersect sets[r] = {} THEN "no"
         ELSE IF Cardinality(sets[l]) = 1 /\ sets[l] = sets[r] THEN "must" ELSE "may"

\* classify
Classify(l, r) ==
  CASE l = r \/ SamePath(l, r) -> "must"
    [] ~(l = r \/ SamePath(l, r)) /\ CommonBase(l, r) -> "partial"
    [] OTHER ->
         IF BudgetExceeded \/ sets[l] = {} \/ sets[r] = {} THEN "unknown"
         ELSE IF sets[l] \intersect sets[r] = {} THEN "no"
         ELSE IF Cardinality(sets[l]) = 1 /\ sets[l] = sets[r] THEN "must" ELSE "may"

Unanswered(l, r) == Rank[l] <= Rank[r] /\ \A a \in answers : a.pair # {l, r}

\* The pairs that are to be answered before the pair of l and r
Earlier(l, r) ==
  {pair \in Operands \X Operands :
     Rank[pair[1]] < Rank[l] \/ (pair[1] = l /\ Rank[pair[2]] < Rank[r])}

\* derive_alias_answers: the pair is answered, or the first that is one too many is
\* reported instead of it and all that follow.
Answer(l, r) ==
  /\ phase = "answer" /\ Unanswered(l, r)
  /\ \A pair \in Earlier(l, r) : ~Unanswered(pair[1], pair[2])
  /\ IF Cardinality(answers) < MaxPairs
     THEN /\ answers' = answers \union {[pair |-> {l, r}, status |-> Classify(l, r)]}
          /\ UNCHANGED phase
     ELSE /\ answers' = answers \union {[pair |-> {l, r}, status |-> "truncated"]}
          /\ phase' = "stop"
  /\ UNCHANGED <<program, constraints, budget, todo, agenda, current, edges, sets, slots, queue, steps, reasons>>

Answered ==
  /\ phase = "answer"
  /\ \A l, r \in Operands : ~Unanswered(l, r)
  /\ phase' = "stop"
  /\ UNCHANGED <<program, constraints, budget, todo, agenda, current, edges, sets, slots, queue, steps, reasons, answers>>

Next ==
  \/ \E c \in todo : Read(c)
  \/ Close
  \/ Pop
  \/ \E e \in agenda : Pass(e) \/ Project(e)
  \/ NextLoop
  \/ Solved
  \/ \E l, r \in Operands : Answer(l, r)
  \/ Answered

Spec == Init /\ [][Next]_vars

FairSpec == Spec /\ WF_vars(Next)

-----------------------------------------------------------------------------
(* Properties *)

\* A solution that is not marked as cut short by the budget satisfies every constraint:
\* no object is lost on an edge that was added while the object was on its way, in the
\* queue or in the loops over another entry.
CompleteWithinBudget ==
  phase \in {"answer", "stop"} /\ reasons = {} => Solves(sets, constraints)

\* At every moment, cut short or not, a variable has only objects that it has in every
\* solution of the constraints.
NothingInvented == \A v \in AllVars : sets[v] \subseteq Reference[program][v]

Found(s) == {x \in AllVars \X Objects : x[2] \in s[x[1]]}

\* An object is propagated from a variable at most once, however many cycles the
\* edges have: what was taken off the queue and what is on it together are never
\* more than the objects the variables have.
PropagatedOnce == steps + Len(queue) <= Cardinality(Found(sets))

\* Two operands are said not to be the same only on a complete solution, and unless
\* the answers stop at a reported one, every pair is answered.
AnswersJustified ==
  /\ \A a \in answers : a.status \in {"no", "may"} =>
       /\ reasons = {} /\ Solves(sets, constraints)
       /\ a.status = "no" => \A l, r \in a.pair : l # r => sets[l] \intersect sets[r] = {}
  /\ phase = "stop" =>
       \/ \E a \in answers : a.status = "truncated"
       \/ \A l, r \in Operands : ~Unanswered(l, r)

\* The solver and the answers come to an end.
Ends == <>(phase = "stop")

=============================================================================
