----------------------------- MODULE PointsToMC -----------------------------
(* Instances of PointsTo for TLC. *)
EXTENDS PointsTo

CONSTANTS x, y, p, q, a, b

MCBracket == [n \in Names |-> "[f]"]

Object(at, o)   == [kind |-> "object", at |-> at, of |-> at, object |-> o]
PlaceRef(at, v) == [kind |-> "place", at |-> at, of |-> v, object |-> a]
Call(at, v, o)  == [kind |-> "call", at |-> at, of |-> v, object |-> o]
Step(via)       == [via |-> via, name |-> "f"]
AccessPath(id, base, steps_) == [id |-> id, base |-> base, projections |-> steps_]

\* x holds a and y holds b, one may be the other, and both have paths.
Basics == { {Object(x, a), Object(y, b)},
            {Object(x, a), Object(x, b), PlaceRef(y, x), PlaceRef(x, y)},
            {Object(x, a), Object(y, b), PlaceRef(y, x)},
            {Object(x, a), Call(y, x, b)} }

Shapes == { {AccessPath(p, x, <<Step("field")>>), AccessPath(q, y, <<Step("field")>>)},
            {AccessPath(p, x, <<Step("field")>>), AccessPath(q, x, <<Step("index")>>)},
            {AccessPath(p, x, <<Step("field"), Step("field")>>), AccessPath(q, y, <<Step("index")>>)},
            {AccessPath(p, x, <<Step("deref"), Step("deref")>>), AccessPath(q, x, <<Step("call")>>)},
            {AccessPath(p, x, <<>>), AccessPath(q, y, <<Step("opaque")>>)} }

\* An object put into its own slot, and a slot read from another variable
Extras == { {},
            {Constraint("store", x, x, None, Contents), Constraint("load", y, x, None, Contents)},
            {Constraint("field_store", x, y, None, "f"), Copy(p, q)},
            {Constraint("load", x, y, None, Contents), Constraint("field_load", y, p, None, "f")} }

\* In some programs the facts about x and y have one key, and the one about y is lost.
MCPrograms ==
  [values : Basics, paths : Shapes, extra : Extras, dropped : {{}}]
    \union [values : {{Object(x, a), Object(y, b)}}, paths : Shapes, extra : Extras,
             dropped : {{AddressOf(y, b)}}]

\* The least solution, by adding whatever a constraint still asks for
Missing(s, cs) ==
  { <<c.dst, c.object>> : c \in {d \in cs : d.kind = "address_of"} }
    \union UNION { {<<c.dst, o>> : o \in s[c.src]} : c \in {d \in cs : d.kind = "copy"} }
    \union UNION { UNION { {<<Flow(c, o)[2], t>> : t \in s[Flow(c, o)[1]]} : o \in s[Base(c)] } :
                     c \in {d \in cs : d.kind \in Loads \union Stores} }

LeastSolution(cs) ==
  LET Round[n \in Nat] ==
        IF n = 0 THEN [v \in AllVars |-> {}]
        ELSE LET s == Round[n - 1]
                 m == Missing(s, cs)
             IN  [v \in AllVars |-> s[v] \union {o \in Objects : <<v, o>> \in m}]
  IN  Round[12]

Table       == {<<r, LeastSolution(Derived(r))>> : r \in MCPrograms}
MCReference == [r \in MCPrograms |-> (CHOOSE t \in Table : t[1] = r)[2]]

MCRank == [v \in {x, y, p, q} |-> CASE v = x -> 1 [] v = p -> 2 [] v = y -> 3 [] v = q -> 4]

MCBudgets == { [steps |-> 50, objects |-> 2, slots |-> 6],
               [steps |-> 3,  objects |-> 2, slots |-> 6],
               [steps |-> 50, objects |-> 1, slots |-> 6],
               [steps |-> 50, objects |-> 2, slots |-> 1] }
=============================================================================
