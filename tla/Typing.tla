-------------------------------- MODULE Typing --------------------------------
(***************************************************************************)
(* What becomes of the type of an expression: parser/parse_expr.cpp gives  *)
(* each node one when it is made, tree/nameres.cpp and tree/sema.cpp       *)
(* overwrite some of them, each in a visit of the whole tree, sema puts    *)
(* casts in, and cgn chooses instructions by what is recorded then.  A     *)
(* type that is not known yet is a nullptr, here None.                     *)
(*                                                                         *)
(* The tree is in postfix order: a node comes after its operands, which is *)
(* the order in which every visit ends.  The statement around it is its    *)
(* last node: an initializer, a result or an argument (init), an           *)
(* initializer without a declared type (infer), a condition, a match with  *)
(* one case, or the expression alone (eval).                               *)
(***************************************************************************)
EXTENDS Scalars

CONSTANT Families   \* what may be written, each about one matter

VARIABLES
    family, arg,    \* what is written; the type that T stands for
    nodes,          \* the tree
    open,           \* nodes that are no operand yet
    ty,             \* m_Type of each node
    wraps,          \* the cast put around a node's last operand, or None
    pass, at,       \* the visit that is under way, and its node
    vals, ill,      \* the values lowered, the nodes with an ill-typed instruction
    verdict

vars == <<family, arg, nodes, open, ty, wraps, pass, at, vals, ill, verdict>>

Comparisons == {"eq", "ne", "lt", "le", "gt", "ge"}
PtrArith    == {"add", "sub"}

Precedence == [mul |-> 11, div |-> 11, mod |-> 11, add |-> 10, sub |-> 10, shl |-> 9, shr |-> 9,
               lt |-> 8, le |-> 8, gt |-> 8, ge |-> 8, eq |-> 7, ne |-> 7,
               and |-> 6, xor |-> 5, or |-> 4, land |-> 3, lor |-> 2]

BinOps   == DOMAIN Precedence
UnOps    == {"bnot", "lnot", "neg", "inc", "dec"}
Roots    == {"init", "infer", "cond", "eval", "case"}
Kinds    == {"lit", "ref", "paren", "cast", "un", "bin", "asn"} \cup Roots
Types    == ScalarTypes \cup {None}
Verdicts == {"", "rejected", "crash", "refused", "asserted", "lowered"}

ASSUME FamiliesAssumption ==
    \A f \in Families :
        /\ f.leaves \subseteq [kind : {"lit", "ref"}, t : ScalarTypes, bits : Nat]
        /\ f.uns \subseteq UnOps /\ f.bins \subseteq BinOps
        /\ f.asns \subseteq {""} \cup (BinOps \ (Comparisons \cup {"land", "lor"}))
        /\ f.casts \subseteq ScalarTypes
        /\ \A r \in f.roots : r.kind \in Roots /\ r.t \in Types /\ (r.kind = "init" => r.t # None)

\* Nodes with two operands, of which the second is checked against the first;
\* and those with one, checked against a declared type.
Pairs   == {"bin", "asn", "case"}
Targets == {"init", "infer"}

-----------------------------------------------------------------------------
(* Writing a statement.                                                    *)

Init ==
    /\ family \in Families
    /\ arg \in family.args
    /\ nodes = <<>> /\ open = <<>> /\ ty = <<>> /\ wraps = <<>>
    /\ pass = "parse" /\ at = 1
    /\ vals = <<>> /\ ill = {} /\ verdict = ""

Top    == open[Len(open)]
Second == open[Len(open) - 1]

\* Nodes that are wanted still: a root, and what joins the open ones.
Room(extra) == Len(nodes) + Len(open) + extra <= family.max

\* A node of type t on the last n open ones.  `written` is the type it names;
\* lo its first node; bare says that it ends in a cast, which has taken all
\* that follows.
Make(n, kind, op, written, bits, t, bare) ==
    LET k == Len(nodes) + 1
        l == IF n = 0 THEN 0 ELSE open[Len(open) - n + 1]
        r == IF n = 2 THEN Top ELSE 0
    IN  /\ nodes' = Append(nodes, [kind |-> kind, op |-> op, t |-> written, bits |-> bits, l |-> l, r |-> r,
                                   lo |-> IF n = 0 THEN k ELSE nodes[l].lo, bare |-> bare, born |-> t])
        /\ open' = Append(SubSeq(open, 1, Len(open) - n), k)
        /\ ty' = Append(ty, t)
        /\ wraps' = Append(wraps, None)
        /\ UNCHANGED <<family, arg, at, vals, ill, verdict>>

\* What parse_unary_prefix() returns, and which may be on the left and on the
\* right of op (module Parser has the trees that parse_binary() groups otherwise).
Unary(k)   == nodes[k].kind \in {"lit", "ref", "paren", "un", "cast"}
LeftOf(k, op) ==
    /\ ~nodes[k].bare
    /\ ~Unary(k) => Precedence[nodes[k].op] >= Precedence[op] /\ Unary(nodes[k].r)
RightOf(k, op) == ~Unary(k) => Precedence[nodes[k].op] > Precedence[op]

Writing == pass = "parse" /\ (open # <<>> => nodes[Top].kind \notin Roots)

\* parse_bool(), parse_int(), parse_char(), parse_fp(), parse_nil(): typed at
\* once; parse_ref() is not.
Leaf == \E f \in family.leaves :
    /\ Writing /\ Room(2)
    /\ open # <<>> => nodes[Top].kind # "asn"
    /\ Make(0, f.kind, "", f.t, f.bits, IF f.kind = "lit" THEN f.t ELSE None, FALSE)
    /\ UNCHANGED pass

\* parse_paren(): the type its expression has by then.
Paren ==
    /\ Writing /\ open # <<>> /\ Room(1) /\ family.parens
    /\ nodes[Top].kind \notin {"paren", "asn"}
    /\ Make(1, "paren", "", None, 0, ty[Top], FALSE)
    /\ UNCHANGED pass

\* parse_cast()
Cast == \E t \in family.casts :
    /\ Writing /\ open # <<>> /\ Room(1)
    /\ nodes[Top].kind # "asn"
    /\ Make(1, "cast", "", t, 0, t, TRUE)
    /\ UNCHANGED pass

\* parse_unary_prefix() and parse_unary_postfix()
Operator == \E op \in family.uns :
    /\ Writing /\ open # <<>> /\ Room(1)
    /\ Unary(Top)
    /\ op \in {"inc", "dec"} => nodes[Top].kind = "ref"
    /\ Make(1, "un", op, None, 0, None, nodes[Top].bare)
    /\ UNCHANGED pass

\* parse_binary(): the type of its left operand.
Binary == \E op \in family.bins :
    /\ Writing /\ Len(open) > 1
    /\ nodes[Top].kind # "asn"
    /\ LeftOf(Second, op) /\ RightOf(Top, op)
    /\ Make(2, "bin", op, None, 0, ty[Second], nodes[Top].bare)
    /\ UNCHANGED pass

\* An assignment to a variable; op is "" for = and the operator of a compound one.
Assignment == \E op \in family.asns :
    /\ Writing /\ Len(open) = 2
    /\ nodes[Second].kind = "ref" /\ nodes[Top].kind # "asn"
    /\ Make(2, "asn", op, None, 0, ty[Second], FALSE)
    /\ UNCHANGED pass

\* The statement is complete.
Statement == \E root \in family.roots :
    /\ Writing
    /\ Len(open) = IF root.kind = "case" THEN 2 ELSE 1
    /\ nodes[Top].kind = "asn" => root.kind = "eval"
    /\ Make(Len(open), root.kind, "", root.t, 0, IF root.kind = "init" THEN root.t ELSE None, FALSE)
    /\ pass' = "resolve"

-----------------------------------------------------------------------------
(* The visits.                                                             *)

N  == nodes[at]
L  == N.l
R  == N.r

Step(nextpass) ==
    /\ at' = IF at = Len(nodes) THEN 1 ELSE at + 1
    /\ pass' = IF at = Len(nodes) THEN nextpass ELSE pass

Fails(how) ==
    /\ verdict' = how /\ pass' = "done"
    /\ UNCHANGED <<family, arg, nodes, open, ty, wraps, at, vals, ill>>

\* Faulty: a parenthesis keeps the type it was made with.
StaleParen(n, tys) ==
    CASE n.kind = "ref" -> n.t
      [] n.kind = "paren" -> n.born
      [] n.kind \in {"un", "infer"} -> tys[n.l]
      [] OTHER -> None

\* NameResolution: the type of a name is that of its variable, a parenthesis
\* and a unary operator take their operand's, and so does a variable without
\* a type.
ResolvedType(n, tys) ==
    CASE n.kind = "ref" -> n.t
      [] n.kind \in {"paren", "un", "infer"} -> tys[n.l]
      [] OTHER -> None

Resolve ==
    /\ pass = "resolve"
    /\ ty' = IF N.kind \in {"ref", "paren", "un", "infer"}
             THEN [ty EXCEPT ![at] = ResolvedType(N, ty)] ELSE ty
    /\ Step("analyse")
    /\ UNCHANGED <<family, arg, nodes, open, wraps, vals, ill, verdict>>

\* Sema does not go into the expression of a cast.
UnderCast(k) == \E c \in k + 1..Len(nodes) : nodes[c].kind = "cast" /\ nodes[c].lo <= k

\* typeCheck() of the operand that node k takes last, against the left operand
\* or the declared type.
LastOf(n)     == IF n.kind \in Pairs THEN n.r ELSE n.l
Expected(k)   == IF nodes[k].kind \in Pairs THEN ty[nodes[k].l] ELSE ty[k]
Loose(n)      == n.kind \in {"bin", "asn"} /\ n.op \in PtrArith
Check(k)      == TypeCheck(ty[LastOf(nodes[k])], Expected(k), Loose(nodes[k]))

\* Faulty: a comparison is given the type of its instruction.
MirComparison(n, tys, own) ==
    CASE n.kind = "bin" -> IF n.op \in Comparisons THEN "i1" ELSE tys[n.l]
      [] n.kind = "asn" -> tys[n.l]
      [] OTHER -> own

\* Faulty: a comparison keeps the type it was made with.
StaleComparison(n, tys, own) ==
    CASE n.kind \in {"bin", "asn"} -> tys[n.l]
      [] n.kind = "un" /\ n.op = "lnot" -> "bool"
      [] OTHER -> own

\* The type that is recorded after the operands are checked.
AnalysedType(n, tys, own) ==
    CASE n.kind = "bin" -> IF n.op \in Comparisons THEN "bool" ELSE tys[n.l]
      [] n.kind = "asn" -> tys[n.l]
      [] n.kind = "un" /\ n.op = "lnot" -> "bool"
      [] n.kind = "un" /\ n.op \in {"neg", "bnot"} -> tys[n.l]
      [] OTHER -> own

Analyse ==
    /\ pass = "analyse" /\ ~UnderCast(at)
    /\ N.kind \in Pairs \cup Targets => Check(at) \in {"same", "cast"}
    /\ N.kind = "cast" => ty[L] # None /\ CanCastTo(ty[L], N.t)
    /\ ty' = [ty EXCEPT ![at] = AnalysedType(N, ty, ty[at])]
    /\ wraps' = IF N.kind \in Pairs \cup Targets /\ Check(at) = "cast"
                THEN [wraps EXCEPT ![at] = Expected(at)] ELSE wraps
    /\ Step("lower")
    /\ UNCHANGED <<family, arg, nodes, open, vals, ill, verdict>>

Skip ==
    /\ pass = "analyse" /\ UnderCast(at)
    /\ Step("lower")
    /\ UNCHANGED <<family, arg, nodes, open, ty, wraps, vals, ill, verdict>>

Reject ==
    /\ pass = "analyse" /\ ~UnderCast(at)
    /\ \/ N.kind \in Pairs \cup Targets /\ Check(at) = "fatal"
       \/ N.kind = "cast" /\ ty[L] # None /\ ~CanCastTo(ty[L], N.t)
    /\ Fails("rejected")

Crash ==
    /\ pass = "analyse" /\ ~UnderCast(at)
    /\ \/ N.kind \in Pairs \cup Targets /\ Check(at) = "crash"
       \/ N.kind = "cast" /\ ty[L] = None
    /\ Fails("crash")

-----------------------------------------------------------------------------
(* Lowering.                                                               *)

Constant(t, bits) == IF CgnType(t, arg) \in MirInts THEN Fitted(CgnType(t, arg), bits) ELSE Unknown(CgnType(t, arg))

\* The last operand, through the cast that was put around it.
Operand(k) ==
    LET o == LastOf(nodes[k])
    IN  IF wraps[k] = None THEN Gives(vals[o], FALSE) ELSE Convert(vals[o], ty[o], wraps[k], arg)

\* build_store() of v to a slot for a t, of which cgn makes a type.
Stored(v, t) == IF t = None THEN Stops("asserted") ELSE Gives(v, v.ty # CgnType(t, arg))

\* What the visit of node k comes to, its operands being lowered.
Lowering(k) ==
    LET n == nodes[k]
        o == Operand(k)
    IN  CASE n.kind \in {"lit", "ref"} -> Gives(Constant(n.t, n.bits), FALSE)
          [] n.kind \in {"paren", "eval"} -> Gives(vals[n.l], FALSE)
          [] n.kind = "cast" -> Convert(vals[n.l], ty[n.l], n.t, arg)
          [] n.kind = "un" -> LowerUnary(n.op, vals[n.l], ty[n.l])
          [] n.kind = "cond" -> InjectCmp(vals[n.l])
          [] n.kind \in Pairs \cup Targets /\ o.out # "value" -> o
          [] n.kind \in Targets /\ o.out = "value" -> Stored(o.v, ty[k])
          [] n.kind = "case" /\ o.out = "value" -> LowerCase(ty[n.l], vals[n.l], o.v)
          [] n.kind = "bin" /\ o.out = "value" -> LowerBinary(n.op, vals[n.l], o.v, ty[n.l], ty[k])
          [] n.kind = "asn" /\ n.op = "" /\ o.out = "value" -> Stored(o.v, ty[k])
          [] n.kind = "asn" /\ n.op # "" /\ o.out = "value" ->
                LET sum == LowerBinary(n.op, vals[n.l], o.v, ty[n.l], ty[k])
                IN  IF sum.out = "value" THEN [Stored(sum.v, ty[k]) EXCEPT !.ill = @ \/ sum.ill] ELSE sum

Lower ==
    /\ pass = "lower"
    /\ LET o == Lowering(at)
           of == Operand(at)
       IN  /\ o.out = "value"
           /\ vals' = Append(vals, o.v)
           /\ ill' = IF o.ill \/ (N.kind \in Pairs \cup Targets /\ of.ill) THEN ill \cup {at} ELSE ill
    /\ Step("done")
    /\ verdict' = IF at = Len(nodes) THEN "lowered" ELSE ""
    /\ UNCHANGED <<family, arg, nodes, open, ty, wraps>>

Stop ==
    /\ pass = "lower"
    /\ Lowering(at).out # "value"
    /\ Fails(Lowering(at).out)

\* The end, or a statement that is left unwritten; no visit stops before it.
Over == pass \in {"parse", "done"} /\ UNCHANGED vars

Next ==
    \/ Leaf \/ Paren \/ Cast \/ Operator \/ Binary \/ Assignment \/ Statement
    \/ Resolve
    \/ Analyse \/ Skip \/ Reject \/ Crash
    \/ Lower \/ Stop \/ Over

Spec == Init /\ [][Next]_vars

-----------------------------------------------------------------------------
(* Properties.                                                             *)

TypeOK ==
    /\ family \in Families /\ arg \in family.args
    /\ \A k \in 1..Len(nodes) :
          /\ nodes[k].kind \in Kinds
          /\ nodes[k].l \in 0..k - 1 /\ nodes[k].r \in 0..k - 1 /\ nodes[k].lo \in 1..k
    /\ ty \in [1..Len(nodes) -> Types] /\ wraps \in [1..Len(nodes) -> Types]
    /\ at \in 1..Len(nodes) + 1 /\ Len(vals) <= Len(nodes) /\ ill \subseteq 1..Len(nodes)
    /\ verdict \in Verdicts

Tree(k)     == nodes[k].lo..k
IsOp(k, ops) == nodes[k].kind = "bin" /\ nodes[k].op \in ops
Enclosed(k) == \E c \in k + 1..Len(nodes) : nodes[c].kind \in {"paren", "cast"} /\ nodes[c].lo <= k

\* An operation that is made without a type, as it begins with a name or a
\* unary operator, where its type is read before it is analysed: in a
\* parenthesis or a cast, or as the initializer that a variable's type is of.
ReadTooEarly(k) ==
    IsOp(k, BinOps) /\ nodes[k].born = None
    /\ (Enclosed(k) \/ \E c \in 1..Len(nodes) : nodes[c].kind = "infer" /\ nodes[c].l = k)

CountsNonNumber(k) == nodes[k].kind = "un" /\ nodes[k].op \in {"inc", "dec"} /\ TypeClass(ty[nodes[k].l]) = "Unknown"

\* The nullptr that is the type of an untyped node is followed only where an
\* operation is read too early; ++ and -- of what is no number or pointer store
\* a nullptr.  Everything else has a type by the time it is read.
NullDeref ==
    verdict = "crash" => \E k \in 1..Len(nodes) : ReadTooEarly(k) \/ CountsNonNumber(k)

Dependent(k) == IsParamDependent(nodes[k].t)

\* A node whose record may differ from its value: && and || are recorded as
\* their left operand, a comparison and a ! in a parenthesis or a cast as theirs.
Mislabels(k) ==
    \/ IsOp(k, {"land", "lor"}) /\ ty[nodes[k].l] # "bool"
    \/ (IsOp(k, Comparisons) \/ (nodes[k].kind = "un" /\ nodes[k].op = "lnot")) /\ Enclosed(k)

\* The type in the tree, by which cgn chooses instructions, is that of the value,
\* but for those and for what is assigned to or from a template's parameter.
LabelsTrue ==
    \A k \in 1..Len(vals) :
        nodes[k].kind \notin Roots /\ ty[k] # None /\ CgnType(ty[k], arg) # vals[k].ty
        => \E j \in Tree(k) : \/ Mislabels(j)
                              \/ nodes[k].kind = "asn" /\ Dependent(j)

Unanalysed(k) == IsOp(k, BinOps) /\ UnderCast(k)
Causes(k)     == Mislabels(k) \/ Unanalysed(k) \/ Dependent(k)

\* ~ is built on a float or a pointer too, and may not know of what it is.
Complements(k) == nodes[k].kind = "un" /\ nodes[k].op = "bnot" /\ vals[nodes[k].l].ty \in Floats \cup Pointers

\* The builder takes integers of any width together, so the analysis is to see
\* that they agree: an instruction has operands of its type.
WellTyped == \A k \in ill : \E j \in Tree(k) : Causes(j) \/ Complements(j)

-----------------------------------------------------------------------------
(* The reference: what an expression means by the types that are written.  *)

Meant(t, v) == [t |-> t, v |-> v]
Number(m)   == IF TypeClass(m.t) = "SInt" THEN Signed(m.v) ELSE m.v.bits
Truthy(m)   == m.v.bits # 0

\* An integer as a `t`: its number, modulo the width of t.
As(m, t) ==
    IF m.t = t THEN m
    ELSE IF m.v.known /\ CgnType(t, arg) \in MirInts THEN Meant(t, Fitted(CgnType(t, arg), Number(m)))
    ELSE Meant(t, Unknown(CgnType(t, arg)))

\* Known only if both sides are, or the left one decides.
MeantLogic(op, a, b) ==
    LET stop == op = "lor"
    IN  IF a.v.known /\ Truthy(a) = stop THEN Truth(stop)
        ELSE IF a.v.known /\ b.v.known THEN Truth(Truthy(b))
        ELSE Unknown("i1")

\* A right operand is converted to the type of the left one, whose sign decides.
MeantBinary(op, a, b) ==
    LET c == As(b, a.t)
    IN  IF op \in {"land", "lor"} THEN Meant("bool", MeantLogic(op, a, b))
        ELSE IF ~(a.v.known /\ c.v.known)
        THEN Meant(IF op \in Comparisons THEN "bool" ELSE a.t, Unknown(a.v.ty))
        ELSE IF op \in Comparisons THEN Meant("bool", Truth(Compared(op, Number(a), Number(c))))
        ELSE Meant(a.t, Computed(op, a.v.ty, Number(a), IF op \in {"shl", "shr"} THEN c.v.bits ELSE Number(c)))

MeantUnary(op, a) ==
    IF op = "lnot" THEN Meant("bool", IF a.v.known THEN Truth(~Truthy(a)) ELSE Unknown("i1"))
    ELSE IF ~a.v.known THEN a
    ELSE Meant(a.t, Fitted(a.v.ty, CASE op = "neg"  -> -Number(a)
                                     [] op = "bnot" -> -1 - Number(a)
                                     [] op = "inc"  -> Number(a) + 1
                                     [] op = "dec"  -> Number(a)))

Meaning[k \in 1..Len(nodes)] ==
    LET n == nodes[k]
        a == Meaning[n.l]
    IN  CASE n.kind \in {"lit", "ref"} -> Meant(n.t, Constant(n.t, n.bits))
          [] n.kind \in {"paren", "eval", "infer"} -> a
          [] n.kind \in {"cast", "init"} -> As(a, n.t)
          [] n.kind = "un"   -> MeantUnary(n.op, a)
          [] n.kind = "cond" -> MeantUnary("lnot", MeantUnary("lnot", a))
          [] n.kind = "bin" \/ (n.kind = "asn" /\ n.op # "") -> MeantBinary(n.op, a, Meaning[n.r])
          [] n.kind = "asn" /\ n.op = "" -> As(Meaning[n.r], a.t)
          [] n.kind = "case" -> MeantBinary("eq", a, Meaning[n.r])

\* Through two visits that record types and one that reads them, the value of
\* every expression is the one that its types as written mean, but for a
\* template's parameter and for what a visit mislabels or leaves out.
ComputesAsWritten ==
    verdict = "lowered" =>
        \A k \in 1..Len(nodes) :
            vals[k].known /\ Meaning[k].v.known /\ (\A j \in Tree(k) : ~Causes(j))
            => vals[k] = Meaning[k].v

-----------------------------------------------------------------------------
(* What the analysis accepts and cgn does not.                             *)

\* Conversions: bool and char are no integers to cgn; nil converts to anything.
ConversionGap(a, b) ==
    \/ TypeClass(a) = "Unknown" \/ TypeClass(b) = "Unknown"
    \/ a = "nil" /\ b \in Floats

\* Operators: only integers have % and the operators on bits; only integers and
\* floats * and /; bool and char no order and no sign; a pointer may be added
\* to but not be added, and a difference of pointers is none.
OperatorGap(op, a, b) ==
    \/ op \in {"mod", "shr"} /\ TypeClass(a) \notin IntClasses
    \/ op \in {"and", "or", "xor", "shl"} /\ TypeClass(a) \in {"Float", "Pointer"}
    \/ op \in {"mul", "div"} /\ TypeClass(a) \notin IntClasses \cup {"Float"}
    \/ op \in Comparisons \ {"eq", "ne"} /\ TypeClass(a) = "Unknown"
    \/ op \in PtrArith /\ IsPointer(b)

\* The node at which cgn stopped has one of these, is a conversion within a
\* cast that the analysis has not seen, or rests on a record that differs from
\* its value: everything else that passes the analysis is lowered.
Gap(k) ==
    LET n == nodes[k]
    IN  CASE n.kind = "cast" -> \/ ConversionGap(ty[n.l], n.t)
                                \/ UnderCast(k) /\ ~CanCastTo(ty[n.l], n.t)
          [] n.kind = "un"   -> n.op = "neg" /\ TypeClass(ty[n.l]) \in {"Unknown", "Pointer"}
          [] n.kind = "case" -> TypeClass(ty[n.l]) = "Unknown"
          [] n.kind \in {"bin", "asn"} -> OperatorGap(n.op, ty[n.l], ty[n.r])
          [] OTHER -> FALSE

AcceptedIsLowered ==
    verdict \in {"refused", "asserted"} =>
        \/ wraps[at] # None /\ ConversionGap(ty[LastOf(N)], wraps[at])
        \/ Gap(at)
        \/ \E j \in Tree(at) : Causes(j)
=============================================================================
