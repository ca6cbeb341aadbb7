------------------------------ MODULE Expressions ------------------------------
(***************************************************************************)
(* The typed syntax trees that the semantic analysis hands to the code     *)
(* generator, one statement at a time: the kinds of expressions            *)
(* (tree/expr.h), the types of their operands and what Sema and            *)
(* NameResolution demand of the form of an operand.                        *)
(*                                                                         *)
(* A tree is a sequence of nodes, the first of them the statement.  A node *)
(* is a hole until the generator comes to it; then a rule of the grammar   *)
(* fills it and makes holes of its operands.                               *)
(***************************************************************************)
EXTENDS Integers, Sequences, FiniteSets

CONSTANT Grammars   \* what is tried: [kinds, roots, careful, funs, max]

ASSUME GrammarsAssumption ==
    \A g \in Grammars : g.max \in Nat /\ g.careful \in BOOLEAN

\* "num" is any arithmetic type, "ptr" a pointer to one; S and T are structures,
\* T with a field of type S; "arr" is an array of two.
Aggregates == {"S", "T", "arr"}
Types      == {"num", "ptr", "ptrS"} \cup Aggregates
Scalar(ty) == ty \in {"num", "ptr", "ptrS"}
Fields     == [S |-> <<"num", "num">>, T |-> <<"S", "num">>, arr |-> <<"num", "num">>]

-----------------------------------------------------------------------------
(* The rules: a kind, the type of the expression, those of its operands.   *)

Rule(k, ty, kids) == [k |-> k, ty |-> ty, kids |-> kids]

Leaves == {Rule("lit", ty, <<>>) : ty \in {"num", "ptr"}}
          \cup {Rule("ref", ty, <<>>) : ty \in Types}
          \cup {Rule("field", "num", <<>>)}

Inits == {Rule("init", ty, Fields[ty]) : ty \in Aggregates}

Parens == {Rule("paren", ty, <<ty>>) : ty \in Types}

Unaries == {Rule("cast", "num", <<"num">>), Rule("un", "num", <<"num">>),
            Rule("inc", "num", <<"num">>), Rule("inc", "ptr", <<"ptr">>),
            Rule("addr", "ptr", <<"num">>), Rule("addr", "ptrS", <<"S">>),
            Rule("deref", "num", <<"ptr">>), Rule("deref", "S", <<"ptrS">>)}

Postfixes == {Rule("access", "num", <<b>>) : b \in {"S", "T", "ptrS"}}
             \cup {Rule("access", "S", <<"T">>)}
             \cup {Rule("index", "num", <<b, "num">>) : b \in {"arr", "ptr"}}

Binaries == {Rule("bin", ty, <<ty, "num">>) : ty \in {"num", "ptr"}}
            \cup {Rule("asnop", ty, <<ty, "num">>) : ty \in {"num", "ptr"}}
            \cup {Rule("logic", "num", <<"num", "num">>)}
            \cup {Rule("assign", ty, <<ty, ty>>) : ty \in {"num", "S", "T", "arr"}}

\* Calls with the parameters of their callee; a method has its base before them.
Calls == {Rule("call", ty, ps) : ty \in {"num", "S"}, ps \in {<<"S">>, <<"num", "arr">>}}
         \cup {Rule("mcall", ty, <<b>> \o ps) : ty \in {"num", "S"}, b \in {"S", "ptrS"},
                                                ps \in {<<>>, <<"num">>, <<"S">>}}
         \cup {Rule("syscall", "num", <<"num", "num">>)}

Statements == {Rule("var", "", <<ty>>) : ty \in Types} \cup {Rule("ret", "", <<ty>>) : ty \in Types}
              \cup {Rule("expr", "", <<ty>>) : ty \in {"num", "ptr", "S", "arr"}}
              \cup {Rule("global", "", <<ty>>) : ty \in {"num", "arr"}}
              \cup {Rule("cond", "", <<"num">>), Rule("match", "", <<"num", "num", "num", "num">>)}

Rules == Leaves \cup Inits \cup Parens \cup Unaries \cup Postfixes \cup Binaries \cup Calls

IsCall(r) == r.k \in {"call", "mcall"}

\* The operands of a call that are arguments passed by a copy.
ByCopy(r) == {i \in 1..Len(r.kids) : IsCall(r) /\ ~Scalar(r.kids[i]) /\ (r.k = "mcall" => i > 1)}

-----------------------------------------------------------------------------
(* What is demanded of an operand.  The first group is what the semantic   *)
(* analysis rejects, or what NameResolution has no type for.               *)

\* The left side of an assignment; it is made of variables only.
Assignable(o, r) == "assignable" \in o => r.k \in {"ref", "deref", "index", "access"}
Variable(o, r)   == "variable" \in o => r.k = "ref"
Referable(o, r)  == "lvalue" \in o => r.k \in {"ref", "deref", "index", "access"}
Based(o, r)      == "base" \in o => r.k \in {"ref", "access", "call", "mcall"}
NoInit(o, r)     == "noinit" \in o => r.k # "init"
Static(o, r)     == "static" \in o => r.k \in {"lit", "init"}
Bare(o, r)       == "bare" \in o => r.k # "paren"

(* The second group is asked of the careful grammars only: programs in     *)
(* which no handler relies on what another one left in m_VC or m_Place.    *)

\* Leaves m_VC an RValue, if it and its operands are entered as one.
Calm(o, r) == "calm" \in o =>
    \/ r.k \in {"lit", "ref", "field", "paren", "init", "cast", "un", "deref", "index",
                "bin", "logic", "syscall"}
    \/ r.k = "assign" /\ Scalar(r.ty)
    \/ r.k = "access" /\ r.kids[1] = "ptrS"
    \/ IsCall(r) /\ Scalar(r.kids[Len(r.kids)])

\* Does not look at the m_VC it is entered with.
Plain(o, r) == "plain" \in o => r.k \notin {"ref", "field", "access", "index", "deref"}

\* Neither reads nor clears m_Place.
Still(o, r) == "still" \in o /\ IsCall(r) => Scalar(r.ty) /\ ByCopy(r) = {}

\* Has no effect, so that it may be lowered twice.
Pure(o, r) == "pure" \in o => r.k \in {"ref", "lit", "deref", "index", "access", "bin", "un", "cast"}

\* An aggregate assignment has no value.
Whole(o, r) == "whole" \in o => ~(r.k = "assign" /\ ~Scalar(r.ty))

\* An aggregate within an initializer is an initializer.
Nested(o, r) == "nested" \in o /\ ~Scalar(r.ty) => r.k = "init"

Admits(o, r) ==
    /\ Assignable(o, r) /\ Variable(o, r) /\ Referable(o, r) /\ Based(o, r)
    /\ NoInit(o, r) /\ Static(o, r) /\ Bare(o, r)
    /\ Calm(o, r) /\ Plain(o, r) /\ Still(o, r) /\ Pure(o, r) /\ Whole(o, r) /\ Nested(o, r)

When(c, o) == IF c THEN {o} ELSE {}

\* What rule r, of which o is demanded, demands of its i-th operand.
Demanded(o, r, i) ==
    LET left == i = 1 /\ r.k \in {"assign", "asnop"} IN
    When(left, "assignable")
    \cup When(r.k = "inc" \/ (i = 1 /\ "assignable" \in o), "variable")
    \cup When(r.k = "addr", "lvalue")
    \cup When(i = 1 /\ r.k \in {"access", "mcall"} /\ "assignable" \notin o, "base")
    \cup When(r.k \in {"cast", "index"}, "noinit")
    \cup When(r.k = "global" \/ "static" \in o, "static")
    \cup When(r.k = "paren", "bare")
    \cup When("again" \in o \/ (left /\ r.k = "asnop"), "again")

Cared(o, r, i) ==
    LET paren    == r.k = "paren"
        argument == i \in ByCopy(r) IN
    When("calm" \in o \/ (i = 1 /\ r.k \in {"bin", "asnop"}) \/ (r.k = "init" /\ "shaky" \notin o), "calm")
    \cup When(\/ r.k = "init" /\ "shaky" \in o
              \/ r.k = "match" /\ i \in {2, 4}
              \/ paren /\ "plain" \in o, "plain")
    \cup When(argument \/ ((paren \/ r.k = "init") /\ "shaky" \in o), "shaky")
    \cup When(argument \/ r.k = "var" \/ (paren /\ "given" \in o), "given")
    \cup When(\/ r.k = "init" \/ "still" \in o
              \/ "given" \in o /\ ~paren /\ ~argument, "still")
    \cup When("pure" \in o \/ (i = 1 /\ r.k = "asnop"), "pure")
    \cup When(r.k # "expr", "whole")
    \cup When(r.k = "init", "nested")
    \cup When(r.k \in {"paren", "expr", "global"}, "noinit")

Obligations(g, o, r, i) == Demanded(o, r, i) \cup (IF g.careful THEN Cared(o, r, i) ELSE {})

-----------------------------------------------------------------------------
(* Trees.  A place is a sequence of numbers: <<n>> is what node n refers   *)
(* to, <<n, 0>> and <<n, i>> what n makes room for (the result, and the    *)
(* argument i); what follows are parts of an aggregate.                    *)

Hole(ty, up, above, ix, must, dest) ==
    [k |-> "?", ty |-> ty, kids |-> <<>>, sub |-> <<>>, up |-> up, above |-> above,
     ix |-> ix, must |-> must, dest |-> dest]

\* Where the value of the i-th operand is to be, if its context has a place for it.
Destination(tree, n, r, i) ==
    CASE r.k = "var" \/ (r.k = "ret" /\ ~Scalar(r.kids[1])) -> <<n, 0>>
      [] r.k = "assign" /\ i = 2 -> <<Len(tree) + 1>>
      [] r.k = "init"            -> Append(tree[n].dest, i)
      [] r.k = "paren"           -> tree[n].dest
      [] i \in ByCopy(r)         -> <<n, i>>
      [] OTHER                   -> <<>>

Filled(g, tree, n, r) ==
    [tree EXCEPT ![n] = [@ EXCEPT !.k = r.k, !.sub = r.kids,
                                  !.kids = [i \in 1..Len(r.kids) |-> Len(tree) + i]]]
    \o [i \in 1..Len(r.kids) |->
            Hole(r.kids[i], n, tree[n].above \cup {n}, i, Obligations(g, tree[n].must, r, i),
                 Destination(tree, n, r, i))]

\* The rules that may fill hole n in function f.
Fillers(g, f, tree, n) ==
    {r \in Rules : /\ r.k \in g.kinds /\ r.ty = tree[n].ty
                   /\ Len(tree) + Len(r.kids) <= g.max
                   /\ Admits(tree[n].must, r)
                   /\ r.k = "field" => f.method /\ (g.careful => ~f.aret)}

\* The trees to begin with: a statement that the function may contain.
Planted(g, f) ==
    {Filled(g, <<Hole("", 0, {}, 0, {}, <<>>)>>, 1, r) :
        r \in {s \in Statements : /\ s.k \in g.roots
                                  /\ s.k = "ret" => f.aret = ~Scalar(s.kids[1])}}

Holes(tree) == {n \in 1..Len(tree) : tree[n].k = "?"}

=============================================================================
