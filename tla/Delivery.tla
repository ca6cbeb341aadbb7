------------------------------- MODULE Delivery --------------------------------
(***************************************************************************)
(* What the code generator promises of a statement, whatever it keeps in   *)
(* its registers: every expression is lowered after its operands and after *)
(* everything that stands before it, once, in the form that its context    *)
(* needs, and what is written goes where the program says.                 *)
(***************************************************************************)
EXTENDS Expressions

VARIABLES
    grammar, fun,   \* what is tried, and the function that contains the statement
    tree,           \* the statement
    out             \* what has been produced: forms of nodes, and copies of them

vars == <<grammar, fun, tree, out>>

-----------------------------------------------------------------------------
Event(n, form, to) == [n |-> n, form |-> form, to |-> to]

Up(n)       == tree[tree[n].up]
Under(n)    == {m \in 1..Len(tree) : m = n \/ n \in tree[m].above}
Elders(n)   == {m \in 1..Len(tree) : tree[m].up = tree[n].up /\ tree[m].ix < tree[n].ix}
Produced(n) == {out[j].form : j \in {k \in 1..Len(out) : out[k].n = n}} \ {"copy"}
Reached(n)  == {out[j].to : j \in {k \in 1..Len(out) : out[k].n = n}}

\* Parentheses are no expression of their own: what is in them has their context.
Outer(n) == IF Up(n).k = "paren" THEN tree[n].up ELSE n
Context(n) == Up(Outer(n)).k

\* An expression whose value nobody uses: a statement, or the body of a case.
Unused(n) == Context(n) = "expr" \/ (Context(n) = "match" /\ tree[Outer(n)].ix = 3)

\* An address is needed where something is written, taken or part of; a scalar
\* is a value anywhere else.  Compound assignments need both of their left side.
Needed(n) ==
    IF tree[Outer(n)].ix = 1 /\ Context(n) \in {"assign", "asnop", "inc", "addr"}
    THEN IF Context(n) = "asnop" THEN {"val", "addr"} ELSE {"addr"}
    ELSE IF Scalar(tree[n].ty) THEN {"val"} ELSE {"addr"}

Produces(n) == tree[n].k \notin {"?", "init", "paren"}
HasPlace(n) == tree[n].dest # <<>> /\ Context(n) # "assign"
Arrived(n)  == HasPlace(n) => tree[n].dest \in Reached(n)

Settled(n) == tree[n].k # "?" /\ (Produces(n) => Produced(n) # {} /\ Arrived(n))
Complete(n) ==
    Settled(n) /\ (Produces(n) /\ ~Unused(n) => Needed(n) \subseteq Produced(n))

\* All of what n is made of, and all that stands before n, has been lowered.
Due(n) ==
    /\ \A m \in Under(n) \ {n} : Complete(m)
    /\ \A a \in tree[n].above \cup {n} : \A e \in Elders(a) : \A m \in Under(e) : Settled(m)

\* Where the evaluation of n writes.
Written(n) ==
    CASE tree[n].k \in {"assign", "asnop", "inc"} -> {<<tree[n].kids[1]>>}
      [] IsCall(tree[n]) /\ ~Scalar(tree[n].ty) ->
             {<<n, 0>>} \cup (IF HasPlace(n) THEN {tree[n].dest} ELSE {})
      [] OTHER -> {<<>>}

-----------------------------------------------------------------------------
Init ==
    /\ grammar \in Grammars
    /\ fun \in grammar.funs
    /\ tree \in Planted(grammar, fun)
    /\ out = <<>>

Fill ==
    /\ \E n \in Holes(tree) : \E r \in Fillers(grammar, fun, tree, n) :
           tree' = Filled(grammar, tree, n, r)
    /\ UNCHANGED <<grammar, fun, out>>

Deliver ==
    /\ \E n \in 2..Len(tree) : \E form \in {"val", "addr", "none"} : \E to \in Written(n) :
           /\ Produces(n)
           /\ form \in Needed(n) \/ Unused(n)
           /\ form \notin Produced(n) \/ "again" \in tree[n].must
           /\ Due(n)
           /\ out' = Append(out, Event(n, form, to))
    /\ UNCHANGED <<grammar, fun, tree>>

Copy ==
    /\ \E n \in 2..Len(tree) :
           /\ Produces(n)
           /\ HasPlace(n) /\ ~Arrived(n)
           /\ Produced(n) # {}
           /\ out' = Append(out, Event(n, "copy", tree[n].dest))
    /\ UNCHANGED <<grammar, fun, tree>>

Spec == Init /\ [][Fill \/ Deliver \/ Copy]_vars

=============================================================================
