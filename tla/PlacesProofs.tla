----------------------------- MODULE PlacesProofs ------------------------------
(***************************************************************************)
(* Proofs about module Places, for all grammars: its type correctness, and *)
(* that a statement leaves no place behind (PlaceTakenBack).  The handlers *)
(* of the generator are on its stack, so a place that m_Place holds has an *)
(* owner there: the one that has set it and will clear it.                 *)
(***************************************************************************)
EXTENDS Places, SequenceTheorems, FiniteSetTheorems, TLAPS

-----------------------------------------------------------------------------
(* The tree.                                                               *)

Nil == ""

Exprs == {"lit", "ref", "field", "init", "paren", "cast", "un", "inc", "addr", "deref", "access",
          "index", "bin", "asnop", "logic", "assign", "call", "mcall", "syscall"}
Stmts == {"var", "ret", "expr", "global", "cond", "match"}

Demands == {"assignable", "variable", "lvalue", "base", "noinit", "static", "bare", "again",
            "calm", "plain", "shaky", "given", "still", "pure", "whole", "nested"}

NodeType == [k : Exprs \cup Stmts \cup {"?"}, ty : Types \cup {Nil}, kids : Seq(Nat), sub : Seq(Types),
             up : Nat, above : SUBSET Nat, ix : Nat, must : SUBSET Demands, dest : Seq(Nat)]

RuleOf(t, n) == Rule(t[n].k, t[n].ty, t[n].sub)

\* Where the i-th operand of a node is to be, once the node has operands.
DestOf(t, n, i) ==
    LET r == RuleOf(t, n) IN
    IF r.k = "var" \/ (r.k = "ret" /\ ~Scalar(r.kids[1])) THEN <<n, 0>>
    ELSE IF r.k = "assign" /\ i = 2 THEN <<t[n].kids[1]>>
    ELSE IF r.k = "init" THEN Append(t[n].dest, i)
    ELSE IF r.k = "paren" THEN t[n].dest
    ELSE IF i \in ByCopy(r) THEN <<n, i>>
    ELSE <<>>

\* What the i-th operand of node n takes from it.
KidOK(g, t, n, i) ==
    /\ t[n].kids[i] \in n + 1..Len(t)
    /\ t[t[n].kids[i]].up = n /\ t[t[n].kids[i]].ix = i /\ t[t[n].kids[i]].ty = t[n].sub[i]
    /\ t[t[n].kids[i]].above = t[n].above \cup {n}
    /\ t[t[n].kids[i]].must = Obligations(g, t[n].must, RuleOf(t, n), i)
    /\ t[t[n].kids[i]].dest = DestOf(t, n, i)

\* A node that is no hole was made by a rule.
Grown(g, t, n) ==
    /\ RuleOf(t, n) \in IF n = 1 THEN Statements ELSE Rules
    /\ Admits(t[n].must, RuleOf(t, n))
    /\ Len(t[n].kids) = Len(t[n].sub)
    /\ \A i \in 1..Len(t[n].sub) : KidOK(g, t, n, i)

\* A node is an operand of another one.
Placed(t, n) ==
    /\ t[n].up \in 1..n - 1 /\ t[t[n].up].k # "?"
    /\ t[n].ix \in 1..Len(t[t[n].up].sub)
    /\ t[t[n].up].kids[t[n].ix] = n

\* What is true of the statement alone.
Root(t) ==
    /\ t[1].up = 0 /\ t[1].ix = 0 /\ t[1].above = {}
    /\ t[1].must = {} /\ t[1].dest = <<>> /\ t[1].ty = Nil

IsTree(g, t) ==
    /\ t \in Seq(NodeType) /\ Len(t) > 0
    /\ Root(t)
    /\ \A n \in 1..Len(t) : t[n].k = "?" => t[n].kids = <<>> /\ t[n].sub = <<>>
    /\ \A n \in 1..Len(t) : t[n].k # "?" => Grown(g, t, n)
    /\ \A n \in 2..Len(t) : Placed(t, n)

TreeOK == IsTree(grammar, tree) /\ tree[1].k # "?"

-----------------------------------------------------------------------------
(* The stack.                                                              *)

FrameType == [n : Nat, i : Nat, vc : {"L", "R", "nested"}, base : Seq(Nat),
              vals : Seq([form : {"null", "val", "addr"}, ty : Types \cup {Nil}, of : Seq(Nat)]),
              st : {"visit", "copy", "store"}]

KindOf(t, f) == t[f.n].k

\* The operand that a visit waits for, or has got the value of last.
Current(t, f) == IF f.st # "visit" THEN f.i ELSE IF KindOf(t, f) = "asnop" /\ f.i = 4 THEN 1 ELSE f.i - 1

Operand(t, f) == t[f.n].kids[Current(t, f)]

\* It has come to its first operand.
Begun(f) == f.i > 1 \/ f.st # "visit"

FrameOK(t, f) ==
    /\ f.n \in 1..Len(t) /\ KindOf(t, f) # "?"
    /\ f.i \in 1..(IF KindOf(t, f) = "asnop" THEN 3 ELSE Len(t[f.n].sub)) + 1
    /\ f.base # <<>> => f.base[1] \in 1..Len(t)
    /\ f.vc = "nested" => KindOf(t, f) = "init" /\ f.base # <<>>
    /\ f.st = "copy" => KindOf(t, f) \in {"call", "mcall"} /\ f.i \in ByCopy(RuleOf(t, f.n))
    /\ f.st = "store" => KindOf(t, f) = "init" /\ f.i \in 1..Len(t[f.n].sub) /\ Scalar(t[f.n].sub[f.i])
    /\ Begun(f) => t[Operand(t, f)].k # "?"
    /\ KindOf(t, f) = "assign" /\ f.i < 3 => f.vals = <<>>
    /\ KindOf(t, f) = "assign" /\ f.i = 3 => Len(f.vals) = 1 /\ f.vals[1].of = <<t[f.n].kids[1]>>

\* Frame g is of the operand that f waits for.
Waits(t, f, g) ==
    /\ Begun(f) /\ g.n = Operand(t, f)
    /\ g.vc = "nested" => KindOf(t, f) = "init" /\ f.st = "visit"
    /\ KindOf(t, f) = "init" /\ f.st = "visit" => g.vc = "nested"
    /\ g.vc = "nested" => g.base = Append(f.base, Current(t, f))

StackOK ==
    /\ stack \in Seq(FrameType)
    /\ status \in {"lowering", "done"}
    /\ status = "done" => stack = <<>>
    /\ status = "lowering" => stack # <<>> /\ stack[Len(stack)].n = 1
    /\ \A j \in 1..Len(stack) : FrameOK(tree, stack[j])
    /\ \A j \in 2..Len(stack) : Waits(tree, stack[j], stack[j - 1])

-----------------------------------------------------------------------------
(* The registers.                                                          *)

ValueOK(t, v) ==
    \/ v = Null
    \/ /\ v \in [form : {"val", "addr"}, ty : Types \cup {Nil}, of : Seq(Nat)]
       /\ v.of # <<>> /\ v.of[1] \in 1..Len(t)

\* Expressions that refer to what has a place.
Parts == {"ref", "deref", "index", "access"}

\* The handlers that have set m_Place and will clear it.
Owns(t, f) ==
    \/ f.st = "copy"
    \/ f.i = 2 /\ KindOf(t, f) = "var" /\ ~Scalar(t[f.n].sub[1])
    \/ f.i = 2 /\ KindOf(t, f) = "ret" /\ t[t[f.n].kids[1]].k = "init"
    \/ f.i = 3 /\ KindOf(t, f) = "assign" /\ t[t[f.n].kids[2]].k = "init"

Registers ==
    /\ vc \in {"L", "R"} /\ self \in BOOLEAN
    /\ ValueOK(tree, value)
    /\ stack # <<>> /\ Begun(Top) /\ tree[Operand(tree, Top)].k \in Parts => value.of = <<Operand(tree, Top)>>
    /\ place \in Seq(Nat)
    /\ place # <<>> => \E j \in 1..Len(stack) : Owns(tree, stack[j]) /\ place = tree[Operand(tree, stack[j])].dest

IInv == TreeOK /\ StackOK /\ Registers

-----------------------------------------------------------------------------
(* The rules.                                                              *)

\* What the rules of each kind look like.
LeafLike(r)  == r.k \in {"lit", "ref", "field"} /\ r.ty \in Types /\ r.kids = <<>>
InitLike(r)  == r.k = "init" /\ r.ty \in Aggregates /\ r.kids = Fields[r.ty]
ParenLike(r) == r.k = "paren" /\ r.ty \in Types /\ r.kids = <<r.ty>>
UnaryLike(r) ==
    \/ r.k \in {"cast", "un"} /\ r.ty = "num" /\ r.kids = <<"num">>
    \/ r.k = "inc" /\ r.ty \in {"num", "ptr"} /\ r.kids = <<r.ty>>
    \/ r.k = "addr" /\ r.ty = "ptr" /\ r.kids = <<"num">>
    \/ r.k = "addr" /\ r.ty = "ptrS" /\ r.kids = <<"S">>
    \/ r.k = "deref" /\ r.ty = "num" /\ r.kids = <<"ptr">>
    \/ r.k = "deref" /\ r.ty = "S" /\ r.kids = <<"ptrS">>
PostfixLike(r) ==
    \/ r.k = "access" /\ r.ty \in {"num", "S"} /\ \E b \in {"S", "T", "ptrS"} : r.kids = <<b>>
    \/ r.k = "index" /\ r.ty = "num" /\ \E b \in {"arr", "ptr"} : r.kids = <<b, "num">>
BinaryLike(r) ==
    \/ r.k \in {"bin", "asnop"} /\ r.ty \in {"num", "ptr"} /\ r.kids = <<r.ty, "num">>
    \/ r.k \in {"logic", "syscall"} /\ r.ty = "num" /\ r.kids = <<"num", "num">>
    \/ r.k = "assign" /\ r.ty \in {"num", "S", "T", "arr"} /\ r.kids = <<r.ty, r.ty>>
CallLike(r) ==
    \/ r.k = "call" /\ r.ty \in {"num", "S"} /\ r.kids \in {<<"S">>, <<"num", "arr">>}
    \/ r.k = "mcall" /\ r.ty \in {"num", "S"}
       /\ \E b \in {"S", "ptrS"} : r.kids \in {<<b>>, <<b, "num">>, <<b, "S">>}
StmtLike(r) ==
    \/ r.k \in {"var", "ret"} /\ \E t \in Types : r.kids = <<t>>
    \/ r.k = "expr" /\ \E t \in {"num", "ptr", "S", "arr"} : r.kids = <<t>>
    \/ r.k = "global" /\ \E t \in {"num", "arr"} : r.kids = <<t>>
    \/ r.k = "cond" /\ r.kids = <<"num">>
    \/ r.k = "match" /\ r.kids = <<"num", "num", "num", "num">>

\* Short sequences.
LEMMA Tuples ==
    ASSUME NEW S
    PROVE  /\ <<>> \in Seq(S)
           /\ \A a \in S : <<a>> \in Seq(S)
           /\ \A a, b \in S : <<a, b>> \in Seq(S)
           /\ \A a, b, c, d \in S : <<a, b, c, d>> \in Seq(S)
OBVIOUS

\* And of two.
LEMMA Pairs ==
    ASSUME NEW a, NEW b
    PROVE  <<a>> \o <<>> = <<a>> /\ <<a>> \o <<b>> = <<a, b>>
<1> DEFINE S == {a, b}
<1>1. <<a>> \in Seq(S) /\ <<b>> \in Seq(S) /\ <<a, b>> \in Seq(S) /\ <<>> \in Seq(S)
  BY Tuples
<1>2. <<a>> \o <<>> = <<a>>
  BY <1>1, ConcatEmptySeq
<1>3. <<a>> \o <<b>> = <<a, b>>
  <2>1. /\ <<a>> \o <<b>> \in Seq(S)
        /\ Len(<<a>> \o <<b>>) = Len(<<a>>) + Len(<<b>>)
        /\ \A i \in 1..Len(<<a>>) + Len(<<b>>) :
              (<<a>> \o <<b>>)[i] = IF i <= Len(<<a>>) THEN <<a>>[i] ELSE <<b>>[i - Len(<<a>>)]
    BY <1>1, ConcatProperties
  <2>2. Len(<<a>>) = 1 /\ Len(<<b>>) = 1 /\ Len(<<a, b>>) = 2
    OBVIOUS
  <2>3. (<<a>> \o <<b>>)[1] = a /\ (<<a>> \o <<b>>)[2] = b
    <3>1. 1 \in 1..2 /\ 2 \in 1..2 /\ 1 <= 1 /\ ~(2 <= 1) /\ 2 - 1 = 1 /\ 1 + 1 = 2
      OBVIOUS
    <3>2. <<a>>[1] = a /\ <<b>>[1] = b
      OBVIOUS
    <3> QED BY <2>1, <2>2, <3>1, <3>2
  <2>4. \A i \in 1..2 : i = 1 \/ i = 2
    OBVIOUS
  <2>5. <<a, b>>[1] = a /\ <<a, b>>[2] = b
    OBVIOUS
  <2>6. \A i \in 1..2 : (<<a>> \o <<b>>)[i] = <<a, b>>[i]
    BY <2>3, <2>4, <2>5, Zenon
  <2>7. Len(<<a>> \o <<b>>) = Len(<<a, b>>)
    BY <2>1, <2>2
  <2> HIDE DEF S
  <2> QED BY <1>1, <2>1, <2>2, <2>6, <2>7, SeqEqual
<1> QED BY <1>2, <1>3

\* A rule is of one of them.
LEMMA RuleLike ==
    ASSUME NEW r \in Rules
    PROVE  LeafLike(r) \/ InitLike(r) \/ ParenLike(r) \/ UnaryLike(r) \/ PostfixLike(r) \/ BinaryLike(r)
           \/ CallLike(r)
<1>1. r \in Leaves => LeafLike(r)
  BY DEF Leaves, LeafLike, Rule, Types
<1>2. r \in Inits => InitLike(r)
  BY DEF Inits, InitLike, Rule
<1>3. r \in Parens => ParenLike(r)
  BY DEF Parens, ParenLike, Rule
<1>4. r \in Unaries => UnaryLike(r)
  BY DEF Unaries, UnaryLike, Rule
<1>5. r \in Postfixes => PostfixLike(r)
  BY DEF Postfixes, PostfixLike, Rule
<1>6. r \in Binaries => BinaryLike(r)
  BY DEF Binaries, BinaryLike, Rule
<1>7. r \in Calls => CallLike(r) \/ BinaryLike(r)
  <2> SUFFICES ASSUME r \in Calls
               PROVE  CallLike(r) \/ BinaryLike(r)
    OBVIOUS
  <2>1. CASE r \in {Rule("call", ty, ps) : ty \in {"num", "S"}, ps \in {<<"S">>, <<"num", "arr">>}}
    BY <2>1 DEF CallLike, Rule
  <2>2. CASE r \in {Rule("mcall", ty, <<b>> \o ps) : ty \in {"num", "S"}, b \in {"S", "ptrS"},
                                                     ps \in {<<>>, <<"num">>, <<"S">>}}
    <3>1. PICK ty \in {"num", "S"}, b \in {"S", "ptrS"}, ps \in {<<>>, <<"num">>, <<"S">>} :
             r = Rule("mcall", ty, <<b>> \o ps)
      BY <2>2
    <3>2. <<b>> \o ps \in {<<b>>, <<b, "num">>, <<b, "S">>}
      BY Pairs, Zenon
    <3> QED BY <3>1, <3>2 DEF CallLike, Rule
  <2>3. CASE r \in {Rule("syscall", "num", <<"num", "num">>)}
    BY <2>3 DEF BinaryLike, Rule
  <2> QED BY <2>1, <2>2, <2>3 DEF Calls
<1> QED BY <1>1, <1>2, <1>3, <1>4, <1>5, <1>6, <1>7 DEF Rules

\* So is a statement.
LEMMA StatementLike ==
    ASSUME NEW r \in Statements
    PROVE  StmtLike(r) /\ r.ty = Nil
<1>1. Statements = {Rule("var", Nil, <<ty>>) : ty \in Types} \cup {Rule("ret", Nil, <<ty>>) : ty \in Types}
                   \cup {Rule("expr", Nil, <<ty>>) : ty \in {"num", "ptr", "S", "arr"}}
                   \cup {Rule("global", Nil, <<ty>>) : ty \in {"num", "arr"}}
                   \cup {Rule("cond", Nil, <<"num">>), Rule("match", Nil, <<"num", "num", "num", "num">>)}
  BY Zenon DEF Statements, Nil
<1>2. StmtLike(r) /\ r.ty = Nil
  BY <1>1 DEF StmtLike, Rule
<1> QED BY <1>2

\* Rules are of types that there are, and are made of their parts.
LEMMA RuleType ==
    ASSUME NEW r, r \in Rules \cup Statements
    PROVE  /\ r = Rule(r.k, r.ty, r.kids)
           /\ r.k \in Exprs \cup Stmts /\ r.ty \in Types \cup {Nil} /\ r.kids \in Seq(Types)
           /\ r \in Rules <=> r.k \in Exprs
           /\ r \in Statements <=> r.k \in Stmts
           /\ r \in Rules => r.ty \in Types
           /\ r \in Statements => r.kids # <<>>
<1>1. r \in Rules => r.k \in Exprs /\ r.ty \in Types /\ r.kids \in Seq(Types)
  <2> SUFFICES ASSUME r \in Rules
               PROVE  r.k \in Exprs /\ r.ty \in Types /\ r.kids \in Seq(Types)
    OBVIOUS
  <2>1. CASE LeafLike(r) \/ ParenLike(r) \/ UnaryLike(r)
    BY <2>1, Tuples DEF LeafLike, ParenLike, UnaryLike, Exprs, Types, Aggregates
  <2>0. "num" \in Types /\ "S" \in Types /\ "T" \in Types /\ "arr" \in Types /\ "ptr" \in Types /\ "ptrS" \in Types
    BY DEF Types, Aggregates
  <2>2. CASE InitLike(r)
    <3>1. r.kids \in {<<"num", "num">>, <<"S", "num">>}
      BY <2>2 DEF InitLike, Aggregates, Fields
    <3>2. <<"num", "num">> \in Seq(Types) /\ <<"S", "num">> \in Seq(Types)
      BY <2>0, Tuples
    <3> QED BY <2>2, <3>1, <3>2 DEF InitLike, Exprs, Types
  <2>3. CASE PostfixLike(r)
    <3>1. CASE r.k = "access" /\ r.ty \in {"num", "S"} /\ \E b \in {"S", "T", "ptrS"} : r.kids = <<b>>
      BY <2>0, <3>1, Tuples DEF Exprs
    <3>2. CASE r.k = "index" /\ r.ty = "num" /\ \E b \in {"arr", "ptr"} : r.kids = <<b, "num">>
      BY <2>0, <3>2, Tuples DEF Exprs
    <3> QED BY <2>3, <3>1, <3>2 DEF PostfixLike
  <2>4. CASE BinaryLike(r)
    <3>1. \E t, u \in Types : r.kids = <<t, u>> /\ r.ty \in Types
      BY <2>0, <2>4 DEF BinaryLike
    <3>2. r.k \in Exprs
      BY <2>4 DEF BinaryLike, Exprs
    <3> QED BY <3>1, <3>2, Tuples
  <2>5. CASE CallLike(r)
    <3>1. (\E t \in Types : r.kids = <<t>>) \/ \E t, u \in Types : r.kids = <<t, u>>
      BY <2>0, <2>5 DEF CallLike
    <3>2. r.k \in Exprs /\ r.ty \in Types
      BY <2>0, <2>5 DEF CallLike, Exprs
    <3> QED BY <3>1, <3>2, Tuples
  <2> QED BY <2>1, <2>2, <2>3, <2>4, <2>5, RuleLike
<1>2. r \in Statements => r.k \in Stmts /\ r.kids \in Seq(Types) /\ r.kids # <<>> /\ r.ty = Nil
  <2> SUFFICES ASSUME StmtLike(r)
               PROVE  r.k \in Stmts /\ r.kids \in Seq(Types) /\ r.kids # <<>>
    BY StatementLike
  <2>1. "num" \in Types
    BY DEF Types
  <2>2. (\E t \in Types : r.kids = <<t>>) \/ r.kids = <<"num", "num", "num", "num">>
    BY <2>1 DEF StmtLike, Types, Aggregates
  <2>3. r.k \in Stmts
    BY DEF StmtLike, Stmts
  <2>4. r.kids \in Seq(Types)
    BY <2>1, <2>2, Tuples
  <2>5. r.kids # <<>>
    <3>1. CASE \E t \in Types : r.kids = <<t>>
      <4>1. Len(r.kids) = 1
        BY <3>1
      <4> QED BY <4>1
    <3>2. CASE r.kids = <<"num", "num", "num", "num">>
      <4>1. Len(r.kids) = 4
        BY <3>2
      <4> QED BY <4>1
    <3> QED BY <2>2, <3>1, <3>2
  <2> QED BY <2>3, <2>4, <2>5
<1>3. Exprs \cap Stmts = {}
  BY DEF Exprs, Stmts
<1>4. r = Rule(r.k, r.ty, r.kids)
  <2>1. r \in Rules => \E k, ty, kids : r = Rule(k, ty, kids)
    <3>1. r \in Leaves \cup Inits \cup Parens => \E k, ty, kids : r = Rule(k, ty, kids)
      BY Zenon DEF Leaves, Inits, Parens
    <3>2. r \in Unaries => \E k, ty, kids : r = Rule(k, ty, kids)
      BY Zenon DEF Unaries
    <3>3. r \in Postfixes => \E k, ty, kids : r = Rule(k, ty, kids)
      BY Zenon DEF Postfixes
    <3>4. r \in Binaries => \E k, ty, kids : r = Rule(k, ty, kids)
      BY Zenon DEF Binaries
    <3>5. r \in Calls => \E k, ty, kids : r = Rule(k, ty, kids)
      <4>1. ASSUME NEW A, NEW B, NEW C,
                   r \in {Rule("mcall", ty, <<b>> \o ps) : ty \in A, b \in B, ps \in C}
            PROVE  \E k, ty, kids : r = Rule(k, ty, kids)
        <5>1. PICK ty \in A, b \in B, ps \in C : r = Rule("mcall", ty, <<b>> \o ps)
          BY <4>1
        <5> QED BY <5>1, Zenon
      <4>2. ASSUME NEW A, NEW C, r \in {Rule("call", ty, ps) : ty \in A, ps \in C}
            PROVE  \E k, ty, kids : r = Rule(k, ty, kids)
        <5>1. PICK ty \in A, ps \in C : r = Rule("call", ty, ps)
          BY <4>2
        <5> QED BY <5>1, Zenon
      <4> QED BY <4>1, <4>2 DEF Calls
    <3> QED BY <3>1, <3>2, <3>3, <3>4, <3>5 DEF Rules
  <2>2. r \in Statements => \E k, ty, kids : r = Rule(k, ty, kids)
    BY Zenon DEF Statements
  <2> QED BY <2>1, <2>2 DEF Rule
<1> QED BY <1>1, <1>2, <1>3, <1>4

\* How many operands an expression has.
LEMMA Arity ==
    ASSUME NEW r \in Rules \cup Statements
    PROVE  /\ r.k \in {"lit", "ref", "field"} => Len(r.kids) = 0
           /\ r.k \in {"paren", "cast", "un", "inc", "addr", "deref", "access", "var", "ret", "expr",
                       "global", "cond"} => Len(r.kids) = 1
           /\ r.k \in {"index", "bin", "asnop", "logic", "assign", "syscall", "init"} => Len(r.kids) = 2
           /\ r.k = "match" => Len(r.kids) = 4
           /\ r.k \in {"call", "mcall"} => Len(r.kids) \in 1..2
<1>1. CASE LeafLike(r) \/ ParenLike(r) \/ UnaryLike(r)
  BY <1>1 DEF LeafLike, ParenLike, UnaryLike
<1>2. CASE InitLike(r)
  BY <1>2 DEF InitLike, Fields, Aggregates
<1>3. CASE PostfixLike(r)
  BY <1>3 DEF PostfixLike
<1>4. CASE BinaryLike(r)
  BY <1>4 DEF BinaryLike
<1>5. CASE CallLike(r)
  BY <1>5 DEF CallLike
<1>6. CASE StmtLike(r)
  BY <1>6 DEF StmtLike
<1> QED BY <1>1, <1>2, <1>3, <1>4, <1>5, <1>6, RuleLike, StatementLike

\* What is demanded of operands is what there is to be demanded.
LEMMA ObligationsType ==
    ASSUME NEW g, NEW o, NEW r, NEW i
    PROVE  Obligations(g, o, r, i) \subseteq Demands
<1>1. ASSUME NEW c, NEW d \in Demands
      PROVE  When(c, d) \subseteq Demands
  BY <1>1 DEF When
<1>2. Demanded(o, r, i) \subseteq Demands
  BY DEF Demanded, When, Demands
<1>3. Cared(o, r, i) \subseteq Demands
  BY DEF Cared, When, Demands
<1> QED BY <1>2, <1>3 DEF Obligations

\* What becomes of tree t when its hole n is filled by r.
Grafted(u, g, t, n, r) ==
    /\ u \in Seq(NodeType)
    /\ Len(u) = Len(t) + Len(r.kids)
    /\ \A m \in 1..Len(t) : m # n => u[m] = t[m]
    /\ u[n].k = r.k /\ u[n].sub = r.kids /\ Len(u[n].kids) = Len(r.kids)
    /\ \A i \in 1..Len(r.kids) : u[n].kids[i] = Len(t) + i
    /\ u[n].ty = t[n].ty /\ u[n].up = t[n].up /\ u[n].above = t[n].above /\ u[n].ix = t[n].ix
    /\ u[n].must = t[n].must /\ u[n].dest = t[n].dest
    /\ \A m \in Len(t) + 1..Len(u) :
          /\ u[m].k = "?" /\ u[m].kids = <<>> /\ u[m].sub = <<>>
          /\ u[m].ty = r.kids[m - Len(t)] /\ u[m].up = n /\ u[m].ix = m - Len(t)
          /\ u[m].above = t[n].above \cup {n}
          /\ u[m].must = Obligations(g, t[n].must, r, m - Len(t))
          /\ u[m].dest = Destination(t, n, r, m - Len(t))

\* That is what Filled() makes of it.
LEMMA FilledShape ==
    ASSUME NEW g, NEW t \in Seq(NodeType), NEW n \in 1..Len(t), NEW r \in Rules \cup Statements
    PROVE  Grafted(Filled(g, t, n, r), g, t, n, r)
<1> DEFINE L    == Len(r.kids)
           node == [t[n] EXCEPT !.k = r.k, !.sub = r.kids, !.kids = [i \in 1..L |-> Len(t) + i]]
           old  == [t EXCEPT ![n] = node]
           hole(i) == Hole(r.kids[i], n, t[n].above \cup {n}, i, Obligations(g, t[n].must, r, i),
                           Destination(t, n, r, i))
           new  == [i \in 1..L |-> hole(i)]
<1>1. r.k \in Exprs \cup Stmts /\ r.kids \in Seq(Types) /\ L \in Nat
  BY RuleType
<1>2. Len(t) \in Nat /\ t[n] \in NodeType /\ n \in Nat
  OBVIOUS
<1>3. node \in NodeType
  <2>1. [i \in 1..L |-> Len(t) + i] \in Seq(Nat)
    BY <1>1, <1>2
  <2> QED BY <1>1, <1>2, <2>1 DEF NodeType
<1>4. ASSUME NEW i \in 1..L
      PROVE  hole(i) \in NodeType
  <2>1. Destination(t, n, r, i) \in Seq(Nat)
    <3> HIDE DEF node, old, hole, new
    <3>0. t[n].dest \in Seq(Nat)
      BY <1>2 DEF NodeType
    <3>1. t[n].dest \in Seq(Nat) /\ i \in Nat
      BY <3>0
    <3>2. /\ <<n, 0>> \in Seq(Nat) /\ <<Len(t) + 1>> \in Seq(Nat) /\ Append(t[n].dest, i) \in Seq(Nat)
          /\ <<n, i>> \in Seq(Nat) /\ <<>> \in Seq(Nat)
      BY <1>2, <3>1, Tuples
    <3> QED BY <3>1, <3>2, Zenon DEF Destination
  <2>2. r.kids[i] \in Types
    BY <1>1
  <2>3. t[n].above \cup {n} \in SUBSET Nat
    BY <1>2 DEF NodeType
  <2>4. Obligations(g, t[n].must, r, i) \in SUBSET Demands
    BY ObligationsType
  <2>5. <<>> \in Seq(Nat) /\ <<>> \in Seq(Types) /\ i \in Nat
    BY Tuples
  <2> HIDE DEF node, old
  <2> QED BY <1>2, <2>1, <2>2, <2>3, <2>4, <2>5 DEF Hole, NodeType
<1> HIDE DEF node, hole
<1>5. old \in Seq(NodeType) /\ Len(old) = Len(t) /\ \A m \in 1..Len(t) : old[m] = IF m = n THEN node ELSE t[m]
  BY <1>3, ExceptSeq
<1>6. new \in Seq(NodeType) /\ Len(new) = L /\ \A i \in 1..L : new[i] = hole(i)
  BY <1>1, <1>4
<1> HIDE DEF old, new
<1>7. /\ old \o new \in Seq(NodeType)
      /\ Len(old \o new) = Len(old) + Len(new)
      /\ \A i \in 1..Len(old) + Len(new) : (old \o new)[i] = IF i <= Len(old) THEN old[i] ELSE new[i - Len(old)]
  <2>1. old \in Seq(NodeType) /\ new \in Seq(NodeType)
    BY <1>5, <1>6
  <2> QED BY <2>1, ConcatProperties
<1>8. \A m \in 1..Len(t) : (old \o new)[m] = old[m]
  BY <1>1, <1>2, <1>5, <1>6, <1>7
<1>9. ASSUME NEW i \in 1..L
      PROVE  (old \o new)[Len(t) + i] = new[i]
  <2>1. Len(t) + i \in 1..Len(old) + Len(new) /\ ~(Len(t) + i <= Len(old)) /\ Len(t) + i - Len(old) = i
    BY <1>1, <1>2, <1>5, <1>6
  <2> QED BY <1>7, <2>1
<1>10. Filled(g, t, n, r) = old \o new
  BY DEF Filled, old, new, node, hole
<1>11. \A m \in 1..Len(t) : m # n => (old \o new)[m] = t[m]
  BY <1>5, <1>8
<1>12. (old \o new)[n] = node
  BY <1>5, <1>8
<1>13. \A i \in 1..L : (old \o new)[Len(t) + i] = hole(i)
  BY <1>6, <1>9
<1>14. Len(old \o new) = Len(t) + L
  BY <1>5, <1>6, <1>7
<1>15. /\ node.k = r.k /\ node.sub = r.kids /\ Len(node.kids) = L
       /\ \A i \in 1..L : node.kids[i] = Len(t) + i
       /\ node.ty = t[n].ty /\ node.up = t[n].up /\ node.above = t[n].above /\ node.ix = t[n].ix
       /\ node.must = t[n].must /\ node.dest = t[n].dest
  <2>1. t[n] \in [k : Exprs \cup Stmts \cup {"?"}, ty : Types \cup {Nil}, kids : Seq(Nat), sub : Seq(Types),
                  up : Nat, above : SUBSET Nat, ix : Nat, must : SUBSET Demands, dest : Seq(Nat)]
    BY <1>2 DEF NodeType
  <2> QED BY <1>1, <1>2, <2>1 DEF node
<1>16. \A i \in 1..L :
          /\ hole(i).k = "?" /\ hole(i).kids = <<>> /\ hole(i).sub = <<>>
          /\ hole(i).ty = r.kids[i] /\ hole(i).up = n /\ hole(i).ix = i
          /\ hole(i).above = t[n].above \cup {n}
          /\ hole(i).must = Obligations(g, t[n].must, r, i) /\ hole(i).dest = Destination(t, n, r, i)
  BY DEF hole, Hole
<1> DEFINE u == Filled(g, t, n, r)
<1>17. u = old \o new
  BY <1>10
<1> HIDE DEF u
<1> HIDE DEF L
<1>18. u \in Seq(NodeType) /\ Len(u) = Len(t) + L /\ u[n] = node
       /\ (\A m \in 1..Len(t) : m # n => u[m] = t[m]) /\ \A i \in 1..L : u[Len(t) + i] = hole(i)
  BY <1>7, <1>11, <1>12, <1>13, <1>14, <1>17
<1>19. ASSUME NEW m \in Len(t) + 1..Len(u)
       PROVE  /\ u[m].k = "?" /\ u[m].kids = <<>> /\ u[m].sub = <<>>
              /\ u[m].ty = r.kids[m - Len(t)] /\ u[m].up = n /\ u[m].ix = m - Len(t)
              /\ u[m].above = t[n].above \cup {n}
              /\ u[m].must = Obligations(g, t[n].must, r, m - Len(t))
              /\ u[m].dest = Destination(t, n, r, m - Len(t))
  <2>1. PICK i \in 1..L : m = Len(t) + i /\ m - Len(t) = i
    <3>1. m - Len(t) \in 1..L /\ m = Len(t) + (m - Len(t))
      BY <1>1, <1>2, <1>18 DEF L
    <3> QED BY <3>1
  <2>2. u[m] = hole(i)
    BY <1>18, <2>1
  <2> QED BY <1>16, <2>1, <2>2
<1>20. Grafted(u, g, t, n, r)
  BY <1>15, <1>18, <1>19 DEF L, Grafted
<1> QED BY <1>20 DEF u

-----------------------------------------------------------------------------
(* The tree grows.                                                         *)

\* A node that is no hole is of a rule, and its operands follow it.
NodeShape(t, n) ==
    /\ RuleOf(t, n) \in Rules \cup Statements
    /\ n = 1 <=> t[n].k \in Stmts
    /\ n # 1 => RuleOf(t, n) \in Rules /\ t[n].k \in Exprs /\ t[n].ty \in Types
    /\ RuleOf(t, n).k = t[n].k /\ RuleOf(t, n).ty = t[n].ty /\ RuleOf(t, n).kids = t[n].sub
    /\ t[n] \in NodeType
    /\ Len(t[n].kids) = Len(t[n].sub) /\ Len(t[n].sub) \in Nat
    /\ \A i \in 1..Len(t[n].sub) :
          /\ t[n].kids[i] \in n + 1..Len(t) /\ t[n].kids[i] \in 2..Len(t)
          /\ t[n].sub[i] \in Types
          /\ t[t[n].kids[i]].up = n /\ t[t[n].kids[i]].ix = i /\ t[t[n].kids[i]].ty = t[n].sub[i]
          /\ t[t[n].kids[i]].dest = DestOf(t, n, i)

\* What a node says of its i-th operand.
KidShape(t, n, i) ==
    /\ t[n].kids[i] \in n + 1..Len(t) /\ t[n].kids[i] \in 2..Len(t) /\ t[n].kids[i] \in 1..Len(t)
    /\ t[n].kids[i] \in Nat /\ t[n].sub[i] \in Types
    /\ t[t[n].kids[i]].up = n /\ t[t[n].kids[i]].ix = i /\ t[t[n].kids[i]].ty = t[n].sub[i]
    /\ t[t[n].kids[i]].dest = DestOf(t, n, i)

\* In a tree that is well formed it is so of every operand of every node.
LEMMA KidOf ==
    ASSUME NEW t, NEW n, NodeShape(t, n), NEW i \in 1..Len(t[n].sub)
    PROVE  KidShape(t, n, i)
<1>1. t[n].kids[i] \in 2..Len(t)
  BY DEF NodeShape
<1>2. t[n].kids[i] \in 1..Len(t) /\ t[n].kids[i] \in Nat
  BY <1>1
<1> QED BY <1>2 DEF NodeShape, KidShape

\* That is so of every node of a tree.
LEMMA NodeIn ==
    ASSUME NEW g, NEW t, IsTree(g, t), NEW n \in 1..Len(t), t[n].k # "?"
    PROVE  NodeShape(t, n)
<1>1. Grown(g, t, n)
  BY DEF IsTree
<1>2. RuleOf(t, n).k = t[n].k /\ RuleOf(t, n).ty = t[n].ty /\ RuleOf(t, n).kids = t[n].sub
  BY DEF RuleOf, Rule
<1>3. RuleOf(t, n) \in Rules \cup Statements
  BY <1>1 DEF Grown
<1>4. n = 1 <=> t[n].k \in Stmts
  BY <1>1, <1>2, <1>3, RuleType DEF Grown, Exprs, Stmts
<1>5. n # 1 => RuleOf(t, n) \in Rules /\ t[n].k \in Exprs /\ t[n].ty \in Types
  BY <1>1, <1>2, RuleType DEF Grown
<1>6. t[n] \in NodeType /\ Len(t) \in Nat
  BY DEF IsTree
<1>7. \A i \in 1..Len(t[n].sub) : t[n].sub[i] \in Types
  BY <1>6 DEF NodeType
<1>8. ASSUME NEW i \in 1..Len(t[n].sub)
      PROVE  /\ t[n].kids[i] \in n + 1..Len(t) /\ t[n].kids[i] \in 2..Len(t)
             /\ t[t[n].kids[i]].up = n /\ t[t[n].kids[i]].ix = i /\ t[t[n].kids[i]].ty = t[n].sub[i]
             /\ t[t[n].kids[i]].dest = DestOf(t, n, i)
  BY <1>1, <1>6 DEF Grown, KidOK
<1>9. Len(t[n].sub) \in Nat
  BY <1>6 DEF NodeType
<1>10. Len(t[n].kids) = Len(t[n].sub)
  BY <1>1 DEF Grown
<1> QED BY <1>2, <1>3, <1>4, <1>5, <1>6, <1>7, <1>8, <1>9, <1>10 DEF NodeShape

\* Where an operand is to be, seen from the rule that makes it.
LEMMA FilledDest ==
    ASSUME NEW g, NEW t \in Seq(NodeType), NEW n \in 1..Len(t), NEW r \in Rules \cup Statements,
           NEW i \in 1..Len(r.kids), NEW u, Grafted(u, g, t, n, r), t[n].ty = r.ty
    PROVE  DestOf(u, n, i) = Destination(t, n, r, i) /\ RuleOf(u, n) = r
<1>3. /\ u[n].k = r.k /\ u[n].sub = r.kids /\ u[n].ty = r.ty /\ u[n].dest = t[n].dest
      /\ \A j \in 1..Len(r.kids) : u[n].kids[j] = Len(t) + j
  BY DEF Grafted
<1>4. RuleOf(u, n) = r
  BY <1>3, RuleType, Zenon DEF RuleOf
<1>5. u[n].kids[1] = Len(t) + 1
  <2>1. 1 \in 1..Len(r.kids)
    BY RuleType
  <2> QED BY <1>3, <2>1
<1>6. DestOf(u, n, i) = IF r.k = "var" \/ (r.k = "ret" /\ ~Scalar(r.kids[1])) THEN <<n, 0>>
                      ELSE IF r.k = "assign" /\ i = 2 THEN <<Len(t) + 1>>
                      ELSE IF r.k = "init" THEN Append(t[n].dest, i)
                      ELSE IF r.k = "paren" THEN t[n].dest
                      ELSE IF i \in ByCopy(r) THEN <<n, i>>
                      ELSE <<>>
  BY <1>3, <1>4, <1>5, Zenon DEF DestOf
<1>8. DestOf(u, n, i) = Destination(t, n, r, i)
  BY <1>6 DEF Destination, ByCopy, IsCall
<1> QED BY <1>4, <1>8

\* A tree remains one when a hole of it is filled.
LEMMA FilledTree ==
    ASSUME NEW g, NEW t, IsTree(g, t), NEW n \in 1..Len(t), t[n].k = "?",
           NEW r \in IF n = 1 THEN Statements ELSE Rules, Admits(t[n].must, r), r.ty = t[n].ty,
           NEW u, Grafted(u, g, t, n, r)
    PROVE  IsTree(g, u) /\ u[n].k # "?"
<1> DEFINE L == Len(t)
           M == Len(r.kids)
<1>0. /\ t \in Seq(NodeType) /\ L \in Nat /\ M \in Nat /\ n \in Nat /\ r \in Rules \cup Statements
      /\ \A m \in 1..L : t[m] \in NodeType
  BY RuleType DEF IsTree
<1>1. /\ u \in Seq(NodeType) /\ Len(u) = L + M
      /\ \A m \in 1..L : m # n => u[m] = t[m]
  BY DEF Grafted
<1>2. /\ u[n].k = r.k /\ u[n].sub = r.kids /\ Len(u[n].kids) = M
      /\ \A i \in 1..M : u[n].kids[i] = L + i
      /\ u[n].ty = t[n].ty /\ u[n].up = t[n].up /\ u[n].above = t[n].above /\ u[n].ix = t[n].ix
      /\ u[n].must = t[n].must /\ u[n].dest = t[n].dest
  BY DEF Grafted
<1>3. \A m \in L + 1..Len(u) :
          /\ u[m].k = "?" /\ u[m].kids = <<>> /\ u[m].sub = <<>>
          /\ u[m].ty = r.kids[m - L] /\ u[m].up = n /\ u[m].ix = m - L
          /\ u[m].above = t[n].above \cup {n}
          /\ u[m].must = Obligations(g, t[n].must, r, m - L)
          /\ u[m].dest = Destination(t, n, r, m - L)
  BY DEF Grafted
<1>4. r.k # "?"
  BY <1>0, RuleType DEF Exprs, Stmts
<1>5. \A m \in L + 1..Len(u) : m - L \in 1..M /\ m = L + (m - L)
  BY <1>0, <1>1
<1>6. Root(u)
  <2>1. 1 \in 1..L
    BY <1>0 DEF IsTree
  <2>2. /\ u[1].up = t[1].up /\ u[1].ix = t[1].ix /\ u[1].above = t[1].above /\ u[1].must = t[1].must
        /\ u[1].dest = t[1].dest /\ u[1].ty = t[1].ty
    BY <1>1, <1>2, <2>1
  <2> QED BY <2>2 DEF Root, IsTree
<1>7. ASSUME NEW m \in 1..Len(u), u[m].k = "?"
      PROVE  u[m].kids = <<>> /\ u[m].sub = <<>>
  <2>1. CASE m \in 1..L
    BY <1>1, <1>2, <1>4, <1>7, <2>1 DEF IsTree
  <2>2. CASE m \in L + 1..Len(u)
    BY <1>3, <1>5, <2>2
  <2> QED BY <1>0, <1>1, <2>1, <2>2
<1>8. ASSUME NEW m \in 1..Len(u), u[m].k # "?"
      PROVE  Grown(g, u, m)
  <2>1. m \in 1..L
    BY <1>0, <1>1, <1>3, <1>5, <1>8
  <2>2. CASE m = n
    <3>1. RuleOf(u, n) = r
      BY <1>0, <1>2, RuleType, Zenon DEF RuleOf
    <3>2. ASSUME NEW i \in 1..M
          PROVE  KidOK(g, u, n, i)
      <4>1. DestOf(u, n, i) = Destination(t, n, r, i)
        BY <1>0, FilledDest
      <4>2. u[n].kids[i] = L + i /\ L + i \in n + 1..Len(u)
        <5>1. u[n].kids[i] = L + i
          BY <1>2
        <5>2. n \in Nat /\ n <= L /\ L \in Nat /\ i \in Nat /\ i > 0 /\ i <= M /\ M \in Nat /\ Len(u) = L + M
          BY <1>0, <1>1
        <5> HIDE DEF L, M
        <5>3. L + i \in n + 1..Len(u)
          BY <5>2
        <5> QED BY <5>1, <5>3
      <4>3. L + i \in L + 1..Len(u) /\ (L + i) - L = i
        BY <1>0, <1>1
      <4> QED BY <1>2, <1>3, <3>1, <4>1, <4>2, <4>3 DEF KidOK
    <3> QED BY <1>2, <2>2, <3>1, <3>2 DEF Grown
  <2>3. CASE m # n
    <3>1. u[m] = t[m] /\ Grown(g, t, m)
      BY <1>1, <1>8, <2>1, <2>3 DEF IsTree
    <3>2. RuleOf(u, m) = RuleOf(t, m)
      BY <3>1 DEF RuleOf
    <3>3. ASSUME NEW i \in 1..Len(t[m].sub)
          PROVE  KidOK(g, u, m, i)
      <4>1. KidOK(g, t, m, i)
        BY <3>1 DEF Grown
      <4>2. DestOf(u, m, i) = DestOf(t, m, i)
        BY <3>1, <3>2 DEF DestOf
      <4>3. t[m].kids[i] \in 1..L /\ t[m].kids[i] \in m + 1..Len(u)
        BY <1>0, <1>1, <2>1, <4>1 DEF KidOK
      <4> DEFINE c == t[m].kids[i]
      <4>4. /\ u[c].up = t[c].up /\ u[c].ix = t[c].ix /\ u[c].ty = t[c].ty /\ u[c].above = t[c].above
            /\ u[c].must = t[c].must /\ u[c].dest = t[c].dest
        BY <1>1, <1>2, <4>3
      <4> QED BY <3>1, <3>2, <4>1, <4>2, <4>3, <4>4 DEF KidOK
    <3> QED BY <3>1, <3>2, <3>3 DEF Grown
  <2> QED BY <2>2, <2>3
<1>9. ASSUME NEW m \in 2..Len(u)
      PROVE  Placed(u, m)
  <2>1. CASE m \in 2..L
    <3>1. Placed(t, m)
      BY <2>1 DEF IsTree
    <3>2. u[m].up = t[m].up /\ u[m].ix = t[m].ix
      BY <1>1, <1>2, <2>1
    <3>3. t[m].up \in 1..L /\ t[m].up # n
      BY <1>0, <2>1, <3>1 DEF Placed
    <3>4. u[t[m].up] = t[t[m].up]
      BY <1>1, <3>3
    <3> QED BY <3>1, <3>2, <3>4 DEF Placed
  <2>2. CASE m \in L + 1..Len(u)
    <3>1. m - L \in 1..M /\ u[m].up = n /\ u[m].ix = m - L /\ u[n].kids[m - L] = m
      BY <1>2, <1>3, <1>5, <2>2
    <3>2. n \in 1..m - 1
      BY <1>0, <2>2
    <3> QED BY <1>2, <1>4, <3>1, <3>2 DEF Placed
  <2> QED BY <1>0, <1>1, <2>1, <2>2
<1>10. Len(u) > 0
  BY <1>0, <1>1 DEF IsTree
<1> QED BY <1>1, <1>2, <1>4, <1>6, <1>7, <1>8, <1>9, <1>10 DEF IsTree

\* Nothing is demanded of a statement.
LEMMA AdmitsAll ==
    ASSUME NEW r
    PROVE  Admits({}, r)
BY DEF Admits, Assignable, Variable, Referable, Based, NoInit, Static, Bare, Calm, Plain, Still, Pure, Whole, Nested

\* A statement is a tree.
LEMMA InitTree == Init => TreeOK
<1> SUFFICES ASSUME Init
             PROVE  TreeOK
  OBVIOUS
<1> DEFINE t == <<Hole(Nil, 0, {}, 0, {}, <<>>)>>
<1>1. PICK r \in Statements : tree = Filled(grammar, t, 1, r)
  <2>1. Planted(grammar, fun) =
            {Filled(grammar, t, 1, r) :
                r \in {s \in Statements : /\ s.k \in grammar.roots
                                          /\ s.k = "ret" => fun.aret = ~Scalar(s.kids[1])}}
    BY Zenon DEF Planted, Nil
  <2>2. tree \in Planted(grammar, fun)
    BY Zenon DEF Init
  <2> QED BY <2>1, <2>2, Zenon
<1>2. IsTree(grammar, t) /\ t[1].k = "?" /\ t[1].ty = Nil /\ t[1].must = {} /\ Len(t) = 1 /\ t \in Seq(NodeType)
  <2>1. Hole(Nil, 0, {}, 0, {}, <<>>) \in NodeType
    <3>1. <<>> \in Seq(Nat) /\ <<>> \in Seq(Types)
      OBVIOUS
    <3> QED BY <3>1 DEF Hole, NodeType
  <2>2. t \in Seq(NodeType) /\ Len(t) = 1 /\ t[1] = Hole(Nil, 0, {}, 0, {}, <<>>)
    BY <2>1
  <2>3. t[1].k = "?" /\ t[1].kids = <<>> /\ t[1].sub = <<>> /\ Root(t) /\ t[1].ty = Nil /\ t[1].must = {}
    BY <2>2 DEF Hole, Root
  <2> HIDE DEF t
  <2>4. \A n \in 1..Len(t) : n = 1
    BY <2>2
  <2>5. \A n \in 2..Len(t) : FALSE
    BY <2>2
  <2> QED BY <2>2, <2>3, <2>4, <2>5 DEF IsTree
<1> HIDE DEF t
<1>3. Admits(t[1].must, r) /\ r.ty = t[1].ty
  BY <1>2, AdmitsAll, StatementLike
<1>4. Grafted(tree, grammar, t, 1, r)
  BY <1>1, <1>2, FilledShape
<1>5. 1 \in 1..Len(t)
  BY <1>2
<1> QED BY <1>2, <1>3, <1>4, <1>5, FilledTree DEF TreeOK

\* So the invariant holds at the start of a statement.
LEMMA InitInv == Init => IInv
<1> SUFFICES ASSUME Init
             PROVE  IInv
  OBVIOUS
<1>1. TreeOK
  BY InitTree
<1>2. /\ vc \in {"L", "R"} /\ place = <<>> /\ value = Null /\ stack = <<Frame(1, vc, <<>>)>>
      /\ self = DefineSelf(fun) /\ status = "lowering"
  BY Zenon DEF Init
<1> DEFINE f == Frame(1, vc, <<>>)
<1>3. f \in FrameType /\ f.n = 1 /\ f.i = 1 /\ f.vc = vc /\ f.st = "visit" /\ f.vals = <<>> /\ f.base = <<>>
  <2>1. <<>> \in Seq(Nat) /\ <<>> \in Seq([form : {"null", "val", "addr"}, ty : Types \cup {Nil}, of : Seq(Nat)])
    OBVIOUS
  <2> QED BY <1>2, <2>1 DEF Frame, FrameType
<1> HIDE DEF f
<1>4. stack = <<f>>
  BY <1>2 DEF f
<1>5. stack \in Seq(FrameType) /\ Len(stack) = 1 /\ stack[1] = f /\ stack # <<>> /\ Head(stack) = f
  BY <1>3, <1>4
<1>6. FrameOK(tree, f)
  <2>1. /\ Len(tree) \in Nat /\ Len(tree) > 0 /\ tree[1].k # "?" /\ 1 \in 1..Len(tree)
        /\ tree[1].k \in Stmts /\ Len(tree[1].sub) \in Nat
    <3>1. IsTree(grammar, tree) /\ tree[1].k # "?" /\ Len(tree) \in Nat /\ Len(tree) > 0
      BY <1>1 DEF TreeOK, IsTree
    <3>2. NodeShape(tree, 1)
      BY <3>1, NodeIn
    <3> QED BY <3>1, <3>2 DEF NodeShape
  <2> QED BY <1>2, <1>3, <2>1 DEF FrameOK, KindOf, Begun, Stmts
<1>7. StackOK
  <2>1. \A j \in 1..Len(stack) : stack[j] = f
    BY <1>5
  <2>2. \A j \in 2..Len(stack) : FALSE
    BY <1>5
  <2> QED BY <1>2, <1>3, <1>5, <1>6, <2>1, <2>2 DEF StackOK
<1>8. Registers
  <2>1. self \in BOOLEAN
    BY <1>2 DEF DefineSelf
  <2>2. ~Begun(Top)
    BY <1>3, <1>5 DEF Begun, Top
  <2>3. place \in Seq(Nat)
    BY <1>2
  <2> QED BY <1>2, <2>1, <2>2, <2>3 DEF Registers, ValueOK
<1> QED BY <1>1, <1>7, <1>8 DEF IInv

\* The stack, and the visit that is running.
LEMMA TopFacts ==
    ASSUME IInv, status = "lowering"
    PROVE  /\ stack \in Seq(FrameType) /\ stack # <<>> /\ Len(stack) \in Nat \ {0}
           /\ Top = stack[1] /\ Top \in FrameType /\ FrameOK(tree, Top)
           /\ Rest \in Seq(FrameType) /\ Len(Rest) = Len(stack) - 1
           /\ \A j \in 1..Len(Rest) : Rest[j] = stack[j + 1]
           /\ Top.n \in 1..Len(tree) /\ Node = tree[Top.n] /\ Node.k # "?"
<1>1. stack \in Seq(FrameType) /\ stack # <<>>
  BY DEF IInv, StackOK
<1>2. Len(stack) \in Nat \ {0} /\ Top = stack[1] /\ Top \in FrameType
  BY <1>1 DEF Top
<1>3. FrameOK(tree, Top)
  BY <1>1, <1>2 DEF IInv, StackOK
<1>4. Rest \in Seq(FrameType) /\ Len(Rest) = Len(stack) - 1 /\ \A j \in 1..Len(Rest) : Rest[j] = stack[j + 1]
  BY <1>1, HeadTailProperties DEF Rest
<1> QED BY <1>1, <1>2, <1>3, <1>4 DEF FrameOK, KindOf, Node

\* A visit is of a node, and what it waits for is an operand of that.
LEMMA FrameIn ==
    ASSUME NEW g, NEW t, IsTree(g, t), NEW f \in FrameType, FrameOK(t, f)
    PROVE  /\ NodeShape(t, f.n)
           /\ Begun(f) => /\ Current(t, f) \in 1..Len(t[f.n].sub)
                          /\ Operand(t, f) \in 2..Len(t) /\ Operand(t, f) \in f.n + 1..Len(t)
                          /\ t[Operand(t, f)].k # "?" /\ t[Operand(t, f)].up = f.n
                          /\ t[Operand(t, f)].dest = DestOf(t, f.n, Current(t, f))
<1>1. f.n \in 1..Len(t) /\ t[f.n].k # "?"
  BY DEF FrameOK, KindOf
<1>2. NodeShape(t, f.n)
  BY <1>1, NodeIn
<1>3. ASSUME Begun(f)
      PROVE  Current(t, f) \in 1..Len(t[f.n].sub)
  <2>1. t[f.n].k = "asnop" => Len(t[f.n].sub) = 2
    BY <1>2, Arity DEF NodeShape
  <2>2. f.i \in Nat /\ Len(t[f.n].sub) \in Nat /\ f.st \in {"visit", "copy", "store"}
    BY <1>2 DEF FrameType, NodeShape
  <2>3. f.st = "copy" => f.i \in 1..Len(t[f.n].sub)
    BY <1>2 DEF FrameOK, ByCopy, NodeShape
  <2>4. f.st = "store" => f.i \in 1..Len(t[f.n].sub)
    BY DEF FrameOK
  <2>5. f.i \in 1..(IF t[f.n].k = "asnop" THEN 3 ELSE Len(t[f.n].sub)) + 1
    BY DEF FrameOK, KindOf
  <2>6. CASE f.st # "visit"
    BY <2>2, <2>3, <2>4, <2>6 DEF Current
  <2>7. CASE f.st = "visit"
    <3>1. CASE t[f.n].k = "asnop"
      <4>1. Len(t[f.n].sub) = 2 /\ f.i \in 1..4 /\ f.i > 1
        BY <1>3, <2>1, <2>5, <2>7, <3>1 DEF Begun
      <4> QED BY <2>7, <4>1, <3>1 DEF Current, KindOf
    <3>2. CASE t[f.n].k # "asnop"
      <4>1. f.i \in 1..Len(t[f.n].sub) + 1 /\ f.i > 1
        BY <1>3, <2>5, <2>7, <3>2 DEF Begun
      <4> QED BY <2>2, <2>7, <4>1, <3>2 DEF Current, KindOf
    <3> QED BY <3>1, <3>2
  <2> QED BY <2>6, <2>7
<1>4. ASSUME Begun(f)
      PROVE  t[Operand(t, f)].k # "?"
  BY <1>4 DEF FrameOK
<1> QED BY <1>2, <1>3, <1>4 DEF Operand, NodeShape

\* Nothing of a node that is no hole changes when another node is filled, and
\* neither does what a visit of it looks at.
LEMMA FillStep == IInv /\ Fill => IInv'
<1> SUFFICES ASSUME IInv, Fill
             PROVE  IInv'
  OBVIOUS
<1> DEFINE n == Kid(Which)
<1>1. /\ status = "lowering" /\ Top.i <= Last /\ tree[n].k = "?"
      /\ UNCHANGED <<grammar, fun, out, stack, vc, place, value, self, status>>
  BY DEF Fill
<1>2. PICK r \in Fillers(grammar, fun, tree, n) : tree' = Filled(grammar, tree, n, r)
  BY DEF Fill
<1>3. /\ Top.n \in 1..Len(tree) /\ Node = tree[Top.n] /\ Node.k # "?" /\ FrameOK(tree, Top) /\ Top \in FrameType
  BY <1>1, TopFacts
<1>4. IsTree(grammar, tree) /\ tree \in Seq(NodeType) /\ Len(tree) \in Nat /\ tree[1].k # "?" /\ 1 \in 1..Len(tree)
  BY DEF IInv, TreeOK, IsTree
<1>5. n \in 2..Len(tree)
  <2>1. NodeShape(tree, Top.n)
    BY <1>3, <1>4, FrameIn
  <2>2. Which \in 1..Len(Node.sub)
    <3>1. Node.k = "asnop" => Len(Node.sub) = 2
      BY <1>3, <2>1, Arity DEF NodeShape
    <3>2. Top.i \in Nat /\ Top.i > 0
      <4>1. Top.i \in 1..(IF Node.k = "asnop" THEN 3 ELSE Len(Node.sub)) + 1
        BY <1>3 DEF FrameOK, KindOf
      <4>2. Top.i \in Nat
        BY <1>3 DEF FrameType
      <4> QED BY <4>1, <4>2
    <3>3. Len(Node.kids) = Len(Node.sub) /\ Len(Node.sub) \in Nat
      BY <1>3, <2>1 DEF NodeShape
    <3>4. CASE Node.k = "asnop"
      <4>1. Top.i <= 3 /\ Top.i > 0 /\ Len(Node.sub) = 2 /\ Top.i \in Nat
        BY <1>1, <3>1, <3>2, <3>4 DEF Last
      <4>2. Top.i = 1 \/ Top.i = 2 \/ Top.i = 3
        BY <4>1
      <4> QED BY <3>4, <4>1, <4>2 DEF Which
    <3>5. CASE Node.k # "asnop"
      BY <1>1, <3>2, <3>3, <3>5 DEF Which, Last
    <3> QED BY <3>4, <3>5
  <2> QED BY <1>3, <2>1, <2>2 DEF Kid, NodeShape
<1> HIDE DEF n
<1>6. r \in Rules /\ r.ty = tree[n].ty /\ Admits(tree[n].must, r) /\ n \in 1..Len(tree) /\ n # 1
  BY <1>2, <1>4, <1>5 DEF Fillers
<1>7. Grafted(tree', grammar, tree, n, r)
  BY <1>2, <1>4, <1>6, FilledShape
<1>8. IsTree(grammar, tree')
  BY <1>1, <1>4, <1>6, <1>7, FilledTree
<1>9. /\ \A m \in 1..Len(tree) : m # n => tree'[m] = tree[m]
      /\ Len(tree') >= Len(tree) /\ Len(tree') \in Nat
      /\ tree'[n].dest = tree[n].dest
  <2>1. Len(r.kids) \in Nat
    BY <1>6, RuleType
  <2> QED BY <1>4, <2>1, <1>7 DEF Grafted
<1>10. TreeOK'
  BY <1>1, <1>4, <1>6, <1>8, <1>9 DEF TreeOK
<1>11. ASSUME NEW f \in FrameType, FrameOK(tree, f)
       PROVE  /\ FrameOK(tree', f) /\ KindOf(tree', f) = KindOf(tree, f) /\ tree'[f.n] = tree[f.n]
              /\ Current(tree', f) = Current(tree, f) /\ Operand(tree', f) = Operand(tree, f)
              /\ Begun(f) => /\ Operand(tree, f) \in 1..Len(tree)
                             /\ tree'[Operand(tree, f)] = tree[Operand(tree, f)]
  <2>1. f.n \in 1..Len(tree) /\ f.n # n /\ tree[f.n].k # "?"
    BY <1>1, <1>11 DEF FrameOK, KindOf, n
  <2>2. /\ tree'[f.n] = tree[f.n] /\ KindOf(tree', f) = KindOf(tree, f)
        /\ Current(tree', f) = Current(tree, f) /\ Operand(tree', f) = Operand(tree, f)
    BY <1>9, <2>1 DEF KindOf, Current, Operand
  <2>3. RuleOf(tree', f.n) = RuleOf(tree, f.n)
    BY <2>2 DEF RuleOf
  <2>4. Begun(f) => /\ Operand(tree, f) \in 1..Len(tree)
                    /\ tree'[Operand(tree, f)] = tree[Operand(tree, f)]
    <3>1. Begun(f) => Operand(tree, f) \in 2..Len(tree) /\ tree[Operand(tree, f)].k # "?"
      BY <1>4, <1>11, FrameIn
    <3> QED BY <1>1, <1>4, <1>9, <3>1 DEF n
  <2>6. f.n \in 1..Len(tree')
    BY <1>4, <1>9, <2>1
  <2>7. f.base # <<>> => f.base[1] \in 1..Len(tree')
    BY <1>4, <1>9, <1>11 DEF FrameOK
  <2>8. FrameOK(tree', f)
    BY <1>11, <2>2, <2>3, <2>4, <2>6, <2>7 DEF FrameOK
  <2> QED BY <2>2, <2>4, <2>8
<1>12. \A j \in 1..Len(stack) : stack[j] \in FrameType /\ FrameOK(tree, stack[j])
  BY DEF IInv, StackOK
<1>13. StackOK'
  <2>1. \A j \in 1..Len(stack) : FrameOK(tree', stack[j])
    BY <1>11, <1>12
  <2>2. ASSUME NEW j \in 2..Len(stack)
        PROVE  Waits(tree', stack[j], stack[j - 1])
    <3>1. j \in 1..Len(stack) /\ stack[j] \in FrameType /\ FrameOK(tree, stack[j])
      BY <1>12
    <3>2. Waits(tree, stack[j], stack[j - 1])
      BY DEF IInv, StackOK
    <3>3. /\ KindOf(tree', stack[j]) = KindOf(tree, stack[j])
          /\ Current(tree', stack[j]) = Current(tree, stack[j])
          /\ Operand(tree', stack[j]) = Operand(tree, stack[j])
      BY <1>11, <3>1
    <3> QED BY <3>2, <3>3 DEF Waits
  <2> QED BY <1>1, <2>1, <2>2 DEF IInv, StackOK
<1>14. Registers'
  <2>1. ValueOK(tree', value)
    BY <1>1, <1>4, <1>9 DEF IInv, Registers, ValueOK
  <2>2. Begun(Top) => /\ Operand(tree', Top) = Operand(tree, Top)
                      /\ tree'[Operand(tree, Top)] = tree[Operand(tree, Top)]
    BY <1>3, <1>11
  <2>3. (stack # <<>> /\ Begun(Top) /\ tree[Operand(tree, Top)].k \in Parts => value.of = <<Operand(tree, Top)>>)'
    BY <1>1, <2>2 DEF IInv, Registers, Top, Begun
  <2>4. ASSUME place # <<>>
        PROVE  \E j \in 1..Len(stack) : Owns(tree', stack[j]) /\ place = tree'[Operand(tree', stack[j])].dest
    <3>1. PICK j \in 1..Len(stack) : Owns(tree, stack[j]) /\ place = tree[Operand(tree, stack[j])].dest
      BY <2>4 DEF IInv, Registers
    <3> DEFINE f == stack[j]
    <3>2. f \in FrameType /\ FrameOK(tree, f)
      BY <1>12
    <3>3. Owns(tree, f) /\ place = tree[Operand(tree, f)].dest
      BY <3>1
    <3> HIDE DEF f
    <3>4. Begun(f) /\ f.st \in {"visit", "copy", "store"} /\ (f.st = "store" => KindOf(tree, f) = "init")
      BY <3>2, <3>3 DEF Owns, Begun, FrameType, FrameOK
    <3>5. /\ KindOf(tree', f) = KindOf(tree, f) /\ Operand(tree', f) = Operand(tree, f) /\ tree'[f.n] = tree[f.n]
          /\ tree'[Operand(tree, f)] = tree[Operand(tree, f)]
      BY <1>11, <3>2, <3>4
    <3>6. /\ f.i = 2 /\ KindOf(tree, f) = "ret" /\ f.st = "visit" => Operand(tree, f) = tree[f.n].kids[1]
          /\ f.i = 3 /\ KindOf(tree, f) = "assign" /\ f.st = "visit" => Operand(tree, f) = tree[f.n].kids[2]
      BY DEF Operand, Current
    <3>7. Owns(tree', f)
      BY <3>3, <3>4, <3>5, <3>6 DEF Owns
    <3> QED BY <3>3, <3>5, <3>7 DEF f
  <2> QED BY <1>1, <2>1, <2>3, <2>4 DEF IInv, Registers
<1> QED BY <1>10, <1>13, <1>14 DEF IInv

-----------------------------------------------------------------------------
(* The stack grows and shrinks.                                            *)

\* The running visit has become f, and begun another one, g.
Pushed(u, s, f, g) ==
    /\ u \in Seq(FrameType) /\ Len(u) = Len(s) + 1
    /\ u # <<>> /\ Head(u) = g /\ u[1] = g /\ u[2] = f
    /\ \A j \in 3..Len(u) : u[j] = s[j - 1]

\* The running visit has become f.
Moved(u, s, f) ==
    /\ u \in Seq(FrameType) /\ Len(u) = Len(s)
    /\ u # <<>> /\ Head(u) = f /\ u[1] = f
    /\ \A j \in 2..Len(u) : u[j] = s[j]

\* What is put before the rest of a stack is on top of it.
LEMMA PushedStack ==
    ASSUME NEW s \in Seq(FrameType), s # <<>>, NEW f \in FrameType, NEW g \in FrameType
    PROVE  Pushed(<<g, f>> \o Tail(s), s, f, g)
<1> DEFINE u == <<g, f>> \o Tail(s)
<1>1. /\ Tail(s) \in Seq(FrameType) /\ Len(Tail(s)) = Len(s) - 1 /\ Len(s) \in Nat /\ Len(s) > 0
      /\ \A i \in 1..Len(Tail(s)) : Tail(s)[i] = s[i + 1]
  BY HeadTailProperties, LenProperties
<1>2. <<g, f>> \in Seq(FrameType) /\ Len(<<g, f>>) = 2 /\ <<g, f>>[1] = g /\ <<g, f>>[2] = f
  OBVIOUS
<1>3. /\ u \in Seq(FrameType) /\ Len(u) = Len(<<g, f>>) + Len(Tail(s))
      /\ \A i \in 1..Len(<<g, f>>) + Len(Tail(s)) :
            u[i] = IF i <= Len(<<g, f>>) THEN <<g, f>>[i] ELSE Tail(s)[i - Len(<<g, f>>)]
  BY <1>1, <1>2, ConcatProperties
<1> HIDE DEF u
<1>4. Len(u) = Len(s) + 1 /\ u # <<>>
  BY <1>1, <1>2, <1>3
<1>5. u[1] = g /\ u[2] = f
  <2>1. 1 \in 1..2 + Len(Tail(s)) /\ 2 \in 1..2 + Len(Tail(s)) /\ 1 <= 2 /\ 2 <= 2
    BY <1>1
  <2> QED BY <1>2, <1>3, <2>1
<1>6. ASSUME NEW j \in 3..Len(u)
      PROVE  u[j] = s[j - 1]
  <2>1. j \in 1..2 + Len(Tail(s)) /\ ~(j <= 2) /\ j - 2 \in 1..Len(Tail(s)) /\ (j - 2) + 1 = j - 1
    BY <1>1, <1>4
  <2>2. u[j] = Tail(s)[j - 2]
    BY <1>2, <1>3, <2>1
  <2> QED BY <1>1, <2>1, <2>2
<1>7. Head(u) = u[1]
  BY <1>3, <1>4
<1> QED BY <1>3, <1>4, <1>5, <1>6, <1>7 DEF Pushed, u

\* So is a single visit.
LEMMA MovedStack ==
    ASSUME NEW s \in Seq(FrameType), s # <<>>, NEW f \in FrameType
    PROVE  Moved(<<f>> \o Tail(s), s, f)
<1> DEFINE u == <<f>> \o Tail(s)
<1>1. /\ Tail(s) \in Seq(FrameType) /\ Len(Tail(s)) = Len(s) - 1 /\ Len(s) \in Nat /\ Len(s) > 0
      /\ \A i \in 1..Len(Tail(s)) : Tail(s)[i] = s[i + 1]
  BY HeadTailProperties, LenProperties
<1>2. <<f>> \in Seq(FrameType) /\ Len(<<f>>) = 1 /\ <<f>>[1] = f
  OBVIOUS
<1>3. /\ u \in Seq(FrameType) /\ Len(u) = Len(<<f>>) + Len(Tail(s))
      /\ \A i \in 1..Len(<<f>>) + Len(Tail(s)) :
            u[i] = IF i <= Len(<<f>>) THEN <<f>>[i] ELSE Tail(s)[i - Len(<<f>>)]
  BY <1>1, <1>2, ConcatProperties
<1> HIDE DEF u
<1>4. Len(u) = Len(s) /\ u # <<>>
  BY <1>1, <1>2, <1>3
<1>5. u[1] = f
  <2>1. 1 \in 1..1 + Len(Tail(s)) /\ 1 <= 1
    BY <1>1
  <2> QED BY <1>2, <1>3, <2>1
<1>6. ASSUME NEW j \in 2..Len(u)
      PROVE  u[j] = s[j]
  <2>1. j \in 1..1 + Len(Tail(s)) /\ ~(j <= 1) /\ j - 1 \in 1..Len(Tail(s)) /\ (j - 1) + 1 = j
    BY <1>1, <1>4
  <2>2. u[j] = Tail(s)[j - 1]
    BY <1>2, <1>3, <2>1
  <2> QED BY <1>1, <2>1, <2>2
<1>7. Head(u) = u[1]
  BY <1>3, <1>4
<1> QED BY <1>3, <1>4, <1>5, <1>6, <1>7 DEF Moved, u

\* Above the statement are expressions; the statement is at the bottom.
LEMMA Bottom ==
    ASSUME IInv, status = "lowering"
    PROVE  Top.n = 1 <=> Len(stack) = 1
<1>1. /\ Top = stack[1] /\ Top \in FrameType /\ FrameOK(tree, Top) /\ Len(stack) \in Nat \ {0}
      /\ IsTree(grammar, tree)
  BY TopFacts DEF IInv, TreeOK
<1>2. CASE Len(stack) = 1
  BY <1>1, <1>2 DEF IInv, StackOK
<1>3. CASE Len(stack) # 1
  <2>1. 2 \in 2..Len(stack) /\ 2 \in 1..Len(stack) /\ 2 - 1 = 1
    BY <1>1, <1>3
  <2>2. Waits(tree, stack[2], Top) /\ stack[2] \in FrameType /\ FrameOK(tree, stack[2])
    BY <1>1, <2>1 DEF IInv, StackOK
  <2>3. Top.n \in 2..Len(tree)
    BY <1>1, <2>2, FrameIn DEF Waits
  <2> QED BY <1>3, <2>3
<1> QED BY <1>2, <1>3

\* A visit is begun.
LEMMA PushStep ==
    ASSUME IInv, status = "lowering", UNCHANGED <<grammar, tree, status, self, value>>, vc' \in {"L", "R"},
           NEW f \in FrameType, NEW g \in FrameType, stack' = <<g, f>> \o Rest,
           FrameOK(tree, f), FrameOK(tree, g), ~Begun(g), Waits(tree, f, g),
           f.n = Top.n, f.vc = Top.vc, f.base = Top.base, ~Owns(tree, Top),
           place' = place \/ (Owns(tree, f) /\ place' = tree[Operand(tree, f)].dest)
    PROVE  IInv'
<1>1. /\ stack \in Seq(FrameType) /\ stack # <<>> /\ Len(stack) \in Nat \ {0} /\ Top = stack[1]
  BY TopFacts
<1>2. Pushed(stack', stack, f, g)
  BY <1>1, PushedStack DEF Rest
<1>3. /\ stack' \in Seq(FrameType) /\ Len(stack') = Len(stack) + 1
      /\ stack' # <<>> /\ Head(stack') = g /\ stack'[1] = g /\ stack'[2] = f
      /\ \A j \in 3..Len(stack') : stack'[j] = stack[j - 1]
  BY <1>2 DEF Pushed
<1>4. TreeOK'
  BY DEF IInv, TreeOK
<1>5. StackOK'
  <2>1. ASSUME NEW j \in 1..Len(stack')
        PROVE  FrameOK(tree, stack'[j])
    <3>1. CASE j = 1 \/ j = 2
      BY <1>3, <3>1
    <3>2. CASE j \in 3..Len(stack')
      <4>1. j - 1 \in 1..Len(stack) /\ stack'[j] = stack[j - 1]
        BY <1>1, <1>3, <3>2
      <4> QED BY <4>1 DEF IInv, StackOK
    <3> QED BY <1>1, <1>3, <3>1, <3>2
  <2>2. ASSUME NEW j \in 2..Len(stack')
        PROVE  Waits(tree, stack'[j], stack'[j - 1])
    <3>1. CASE j = 2
      BY <1>3, <3>1
    <3>2. CASE j = 3
      <4>1. 2 \in 2..Len(stack) /\ stack'[3] = stack[2] /\ 3 - 1 = 2 /\ 2 - 1 = 1 /\ 3 \in 3..Len(stack')
        BY <1>1, <1>3, <3>2
      <4>2. Waits(tree, stack[2], Top)
        BY <1>1, <4>1 DEF IInv, StackOK
      <4>3. Waits(tree, stack[2], f)
        BY <4>2 DEF Waits
      <4> QED BY <1>3, <3>2, <4>1, <4>3
    <3>3. CASE j > 3
      <4>1. j - 1 \in 2..Len(stack) /\ j - 1 \in 3..Len(stack') /\ j \in 3..Len(stack')
        BY <1>1, <1>3, <3>3
      <4>2. stack'[j] = stack[j - 1] /\ stack'[j - 1] = stack[(j - 1) - 1]
        BY <1>3, <4>1
      <4> QED BY <4>1, <4>2 DEF IInv, StackOK
    <3> QED BY <3>1, <3>2, <3>3
  <2>3. stack'[Len(stack')].n = 1
    <3>1. stack[Len(stack)].n = 1
      BY DEF IInv, StackOK
    <3>2. CASE Len(stack) = 1
      BY <1>1, <1>3, <3>1, <3>2
    <3>3. CASE Len(stack) # 1
      <4>1. Len(stack) \in Nat /\ Len(stack) >= 2
        <5> DEFINE l == Len(stack)
        <5>1. l \in Nat /\ l # 0 /\ l # 1
          BY <1>1, <3>3
        <5> HIDE DEF l
        <5>2. l \in Nat /\ l >= 2
          BY <5>1
        <5> QED BY <5>2 DEF l
      <4> DEFINE l == Len(stack')
      <4>2. l = Len(stack) + 1
        BY <1>3
      <4> HIDE DEF l
      <4>3. l \in 3..l /\ l - 1 = Len(stack)
        BY <4>1, <4>2
      <4> QED BY <1>3, <3>1, <4>3 DEF l
    <3> QED BY <3>2, <3>3
  <2> QED BY <1>3, <2>1, <2>2, <2>3 DEF IInv, StackOK
<1>6. Registers'
  <2>1. ~Begun(Top')
    BY <1>3 DEF Top
  <2>2. place' \in Seq(Nat)
    <3>1. tree[Operand(tree, f)].dest \in Seq(Nat)
      <4>1. IsTree(grammar, tree)
        BY DEF IInv, TreeOK
      <4>2. Begun(f)
        BY DEF Waits
      <4>3. Operand(tree, f) \in 2..Len(tree)
        BY <4>1, <4>2, FrameIn
      <4>4. tree \in Seq(NodeType)
        BY <4>1 DEF IsTree
      <4>5. tree[Operand(tree, f)] \in NodeType
        BY <4>3, <4>4, ElementOfSeq
      <4> QED BY <4>5 DEF NodeType
    <3> QED BY <3>1 DEF IInv, Registers
  <2>3. ASSUME place' # <<>>
        PROVE  \E j \in 1..Len(stack') : Owns(tree, stack'[j]) /\ place' = tree[Operand(tree, stack'[j])].dest
    <3>1. CASE Owns(tree, f) /\ place' = tree[Operand(tree, f)].dest
      <4>1. 2 \in 1..Len(stack')
        BY <1>1, <1>3
      <4> QED BY <1>3, <3>1, <4>1
    <3>2. CASE place' = place
      <4>1. PICK j \in 1..Len(stack) : Owns(tree, stack[j]) /\ place = tree[Operand(tree, stack[j])].dest
        BY <2>3, <3>2 DEF IInv, Registers
      <4>2. j # 1
        BY <1>1, <4>1
      <4>3. j + 1 \in 3..Len(stack') /\ j + 1 \in 1..Len(stack') /\ (j + 1) - 1 = j
        BY <1>1, <1>3, <4>2
      <4>4. stack'[j + 1] = stack[j]
        BY <1>3, <4>3
      <4> QED BY <3>2, <4>1, <4>3, <4>4
    <3> QED BY <3>1, <3>2
  <2> QED BY <2>1, <2>2, <2>3 DEF IInv, Registers
<1> QED BY <1>4, <1>5, <1>6 DEF IInv

\* A visit goes on.
LEMMA StayStep ==
    ASSUME IInv, status = "lowering", UNCHANGED <<grammar, tree, status, self, value, vc>>,
           NEW f \in FrameType, stack' = <<f>> \o Rest, FrameOK(tree, f),
           Begun(Top), Operand(tree, f) = Operand(tree, Top), f.n = Top.n, f.vc = Top.vc, f.base = Top.base,
           place' = <<>> \/ (place' = place /\ ~Owns(tree, Top))
    PROVE  IInv'
<1>1. /\ stack \in Seq(FrameType) /\ stack # <<>> /\ Len(stack) \in Nat \ {0} /\ Top = stack[1]
  BY TopFacts
<1>2. Moved(stack', stack, f)
  BY <1>1, MovedStack DEF Rest
<1>3. /\ stack' \in Seq(FrameType) /\ Len(stack') = Len(stack)
      /\ stack' # <<>> /\ Head(stack') = f /\ stack'[1] = f
      /\ \A j \in 2..Len(stack') : stack'[j] = stack[j]
  BY <1>2 DEF Moved
<1>4. TreeOK'
  BY DEF IInv, TreeOK
<1>5. StackOK'
  <2>1. ASSUME NEW j \in 1..Len(stack')
        PROVE  FrameOK(tree, stack'[j])
    <3>1. CASE j = 1
      BY <1>3, <3>1
    <3>2. CASE j \in 2..Len(stack')
      BY <1>3, <3>2 DEF IInv, StackOK
    <3> QED BY <1>1, <1>3, <3>1, <3>2
  <2>2. ASSUME NEW j \in 2..Len(stack')
        PROVE  Waits(tree, stack'[j], stack'[j - 1])
    <3>1. Waits(tree, stack[j], stack[j - 1])
      BY <1>3 DEF IInv, StackOK
    <3>2. CASE j = 2
      <4>1. 2 - 1 = 1
        OBVIOUS
      <4>2. Waits(tree, stack[2], Top)
        BY <1>1, <3>1, <3>2, <4>1
      <4>3. Waits(tree, stack[2], f)
        BY <4>2 DEF Waits
      <4> QED BY <1>3, <3>2, <4>1, <4>3
    <3>3. CASE j > 2
      <4>1. j - 1 \in 2..Len(stack')
        BY <1>1, <1>3, <3>3
      <4> QED BY <1>3, <3>1, <4>1
    <3> QED BY <3>2, <3>3
  <2>3. stack'[Len(stack')].n = 1
    <3>1. stack[Len(stack)].n = 1
      BY DEF IInv, StackOK
    <3> QED BY <1>1, <1>3, <3>1
  <2> QED BY <1>3, <2>1, <2>2, <2>3 DEF IInv, StackOK
<1>6. Registers'
  <2>1. Top' = f
    BY <1>3 DEF Top
  <2>2. ASSUME place' # <<>>
        PROVE  \E j \in 1..Len(stack') : Owns(tree, stack'[j]) /\ place' = tree[Operand(tree, stack'[j])].dest
    <3>1. PICK j \in 1..Len(stack) : Owns(tree, stack[j]) /\ place = tree[Operand(tree, stack[j])].dest
      BY <2>2 DEF IInv, Registers
    <3>2. j # 1
      BY <1>1, <2>2, <3>1
    <3>3. j \in 2..Len(stack') /\ j \in 1..Len(stack')
      BY <1>1, <1>3, <3>2
    <3> QED BY <1>3, <2>2, <3>1, <3>3
  <2>3. place' \in Seq(Nat)
    <3>1. <<>> \in Seq(Nat) /\ place \in Seq(Nat)
      BY DEF IInv, Registers
    <3> QED BY <3>1
  <2> QED BY <1>1, <2>1, <2>2, <2>3 DEF IInv, Registers
<1> QED BY <1>4, <1>5, <1>6 DEF IInv

\* A visit ends.
LEMMA PopStep ==
    ASSUME IInv, status = "lowering", UNCHANGED <<grammar, tree, status, self, vc>>,
           stack' = Rest, Node.k \in Exprs, ValueOK(tree, value'), Node.k \in Parts => value'.of = <<Top.n>>,
           place' = <<>> \/ (place' = place /\ ~Owns(tree, Top))
    PROVE  IInv'
<1>1. /\ stack \in Seq(FrameType) /\ stack # <<>> /\ Len(stack) \in Nat \ {0} /\ Top = stack[1]
      /\ Rest \in Seq(FrameType) /\ Len(Rest) = Len(stack) - 1 /\ \A j \in 1..Len(Rest) : Rest[j] = stack[j + 1]
      /\ Top.n \in 1..Len(tree) /\ Node = tree[Top.n] /\ Node.k # "?"
  BY TopFacts
<1>2. Len(stack) > 1
  <2>1. NodeShape(tree, Top.n)
    BY <1>1, NodeIn DEF IInv, TreeOK
  <2>2. Top.n # 1
    BY <1>1, <2>1 DEF NodeShape, Exprs, Stmts
  <2> QED BY <1>1, <2>2, Bottom
<1>3. TreeOK'
  BY DEF IInv, TreeOK
<1>4. StackOK'
  <2>1. ASSUME NEW j \in 1..Len(stack')
        PROVE  FrameOK(tree, stack'[j])
    <3>1. j + 1 \in 1..Len(stack) /\ stack'[j] = stack[j + 1]
      BY <1>1
    <3> QED BY <3>1 DEF IInv, StackOK
  <2>2. ASSUME NEW j \in 2..Len(stack')
        PROVE  Waits(tree, stack'[j], stack'[j - 1])
    <3>1. j + 1 \in 2..Len(stack) /\ stack'[j] = stack[j + 1] /\ stack'[j - 1] = stack[(j + 1) - 1]
      BY <1>1
    <3> QED BY <3>1 DEF IInv, StackOK
  <2>3. stack'[Len(stack')].n = 1
    <3>1. stack[Len(stack)].n = 1
      BY DEF IInv, StackOK
    <3>2. Len(stack') \in 1..Len(Rest) /\ Len(stack') + 1 = Len(stack)
      BY <1>1, <1>2
    <3> QED BY <1>1, <3>1, <3>2
  <2>4. stack' # <<>>
    BY <1>1, <1>2
  <2> QED BY <1>1, <2>1, <2>2, <2>3, <2>4 DEF IInv, StackOK
<1>5. Registers'
  <2>1. Operand(tree, Top') = Top.n
    <3>1. Top' = stack[2]
      <4>1. 1 \in 1..Len(Rest) /\ 1 + 1 = 2
        BY <1>1, <1>2
      <4>2. Head(Rest) = Rest[1]
        BY <1>1, <1>2
      <4> QED BY <1>1, <4>1, <4>2 DEF Top
    <3>2. 2 \in 2..Len(stack) /\ 2 - 1 = 1
      BY <1>1, <1>2
    <3>3. Waits(tree, stack[2], stack[1])
      BY <3>2 DEF IInv, StackOK
    <3> QED BY <1>1, <3>1, <3>3 DEF Waits
  <2>2. ASSUME place' # <<>>
        PROVE  \E j \in 1..Len(stack') : Owns(tree, stack'[j]) /\ place' = tree[Operand(tree, stack'[j])].dest
    <3>1. PICK j \in 1..Len(stack) : Owns(tree, stack[j]) /\ place = tree[Operand(tree, stack[j])].dest
      BY <2>2 DEF IInv, Registers
    <3>2. j # 1
      BY <1>1, <2>2, <3>1
    <3>3. j - 1 \in 1..Len(Rest) /\ (j - 1) + 1 = j
      BY <1>1, <3>2
    <3>4. stack'[j - 1] = stack[j]
      BY <1>1, <3>3
    <3> QED BY <2>2, <3>1, <3>3, <3>4
  <2>3. place' \in Seq(Nat)
    <3>1. <<>> \in Seq(Nat) /\ place \in Seq(Nat)
      BY DEF IInv, Registers
    <3> QED BY <3>1
  <2>4. tree[Operand(tree, Top')].k \in Parts => value'.of = <<Operand(tree, Top')>>
    BY <1>1, <2>1
  <2> QED BY <2>2, <2>3, <2>4 DEF IInv, Registers
<1> QED BY <1>3, <1>4, <1>5 DEF IInv

\* The statement ends, and m_Place is nullptr.
LEMMA FinishStep ==
    ASSUME IInv, status = "lowering", Finish, Node.k \in Stmts, UNCHANGED grammar, ValueOK(tree, value'),
           place' = <<>> \/ (place' = place /\ ~Owns(tree, Top))
    PROVE  IInv' /\ place' = <<>>
<1>1. /\ stack \in Seq(FrameType) /\ stack # <<>> /\ Len(stack) \in Nat \ {0} /\ Top = stack[1]
      /\ Top.n \in 1..Len(tree) /\ Node = tree[Top.n] /\ Node.k # "?"
  BY TopFacts
<1>2. stack' = <<>> /\ status' = "done" /\ UNCHANGED <<grammar, fun, tree, vc, self>>
  BY DEF Finish
<1>3. Len(stack) = 1
  <2>1. NodeShape(tree, Top.n)
    BY <1>1, NodeIn DEF IInv, TreeOK
  <2>2. Top.n = 1
    BY <1>1, <2>1 DEF NodeShape
  <2> QED BY <2>2, Bottom
<1>4. place' = <<>>
  <2> SUFFICES ASSUME place' # <<>>
               PROVE  FALSE
    OBVIOUS
  <2>1. place # <<>> /\ ~Owns(tree, Top)
    OBVIOUS
  <2>2. PICK j \in 1..Len(stack) : Owns(tree, stack[j])
    BY <2>1 DEF IInv, Registers
  <2>3. j = 1
    BY <1>3
  <2> QED BY <1>1, <2>1, <2>2, <2>3
<1>5. TreeOK'
  BY <1>2 DEF IInv, TreeOK
<1>6. StackOK'
  BY <1>2 DEF StackOK
<1>7. Registers'
  BY <1>2, <1>4 DEF IInv, Registers
<1> QED BY <1>4, <1>5, <1>6, <1>7 DEF IInv

-----------------------------------------------------------------------------
(* Places and values.                                                      *)

\* Kinds of expressions by what they are made of.
LEMMA KindFacts ==
    ASSUME NEW r \in Rules \cup Statements
    PROVE  /\ r.k = "init" => r.ty \in Aggregates /\ ~Scalar(r.ty) /\ r.kids = Fields[r.ty]
           /\ r.k = "paren" => r.kids = <<r.ty>>
           /\ r.k = "assign" => r.kids = <<r.ty, r.ty>> /\ r.ty \in {"num", "S", "T", "arr"}
           /\ r.k = "asnop" => r.kids = <<r.ty, "num">> /\ r.ty \in {"num", "ptr"}
<1>1. CASE LeafLike(r) \/ UnaryLike(r) \/ PostfixLike(r) \/ CallLike(r)
  BY <1>1 DEF LeafLike, UnaryLike, PostfixLike, CallLike
<1>2. CASE InitLike(r)
  BY <1>2 DEF InitLike, Aggregates, Scalar
<1>3. CASE ParenLike(r)
  BY <1>3 DEF ParenLike
<1>4. CASE BinaryLike(r)
  BY <1>4 DEF BinaryLike
<1>5. CASE StmtLike(r)
  BY <1>5 DEF StmtLike
<1> QED BY <1>1, <1>2, <1>3, <1>4, <1>5, RuleLike, StatementLike

\* The place that a handler has set is one of a node.
LEMMA OwnedPlace ==
    ASSUME NEW g, NEW t, IsTree(g, t), NEW f \in FrameType, FrameOK(t, f), Owns(t, f)
    PROVE  /\ Begun(f) /\ t[Operand(t, f)].dest \in Seq(Nat)
           /\ t[Operand(t, f)].dest # <<>> /\ t[Operand(t, f)].dest[1] \in 1..Len(t)
<1>1. Begun(f) /\ f.st \in {"visit", "copy", "store"} /\ (f.st = "store" => KindOf(t, f) = "init")
      /\ (f.st = "copy" => KindOf(t, f) \in {"call", "mcall"} /\ f.i \in ByCopy(RuleOf(t, f.n)))
      /\ f.n \in 1..Len(t) /\ f.n \in Nat /\ f.i \in Nat
  BY DEF Owns, Begun, FrameType, FrameOK
<1>2. /\ NodeShape(t, f.n) /\ Current(t, f) \in 1..Len(t[f.n].sub) /\ t[Operand(t, f)].k # "?"
      /\ Operand(t, f) \in 1..Len(t) /\ t[Operand(t, f)].dest = DestOf(t, f.n, Current(t, f))
  BY <1>1, FrameIn
<1> DEFINE d == DestOf(t, f.n, Current(t, f))
<1>3. RuleOf(t, f.n).k = KindOf(t, f) /\ RuleOf(t, f.n).kids = t[f.n].sub
  BY <1>2 DEF NodeShape, KindOf
<1>4. CASE f.st = "copy"
  <2>1. d = <<f.n, f.i>>
    BY <1>1, <1>3, <1>4 DEF DestOf, Current
  <2> QED BY <1>1, <1>2, <2>1
<1>5. CASE f.i = 2 /\ KindOf(t, f) = "var" /\ ~Scalar(t[f.n].sub[1])
  <2>1. d = <<f.n, 0>>
    BY <1>3, <1>5 DEF DestOf
  <2> QED BY <1>1, <1>2, <2>1
<1>6. CASE f.i = 2 /\ KindOf(t, f) = "ret" /\ t[t[f.n].kids[1]].k = "init" /\ f.st = "visit"
  <2>1. Current(t, f) = 1 /\ Operand(t, f) = t[f.n].kids[1]
    BY <1>6 DEF Current, Operand
  <2>2. NodeShape(t, t[f.n].kids[1])
    BY <1>2, <2>1, NodeIn
  <2>3. ~Scalar(t[t[f.n].kids[1]].ty)
    BY <1>6, <2>2, KindFacts DEF NodeShape
  <2>4. t[t[f.n].kids[1]].ty = t[f.n].sub[1]
    BY <1>2, <2>1 DEF NodeShape
  <2>5. d = <<f.n, 0>>
    BY <1>3, <1>6, <2>3, <2>4 DEF DestOf
  <2> QED BY <1>1, <1>2, <2>5
<1>7. CASE f.i = 3 /\ KindOf(t, f) = "assign" /\ f.st = "visit"
  <2>1. Current(t, f) = 2
    BY <1>7 DEF Current
  <2>2. d = <<t[f.n].kids[1]>>
    BY <1>3, <1>7, <2>1 DEF DestOf
  <2>3. t[f.n].kids[1] \in 1..Len(t) /\ t[f.n].kids[1] \in Nat
    <3>1. 1 \in 1..Len(t[f.n].sub)
      BY <1>2, <2>1 DEF NodeShape
    <3> QED BY <1>2, <3>1, KidOf DEF KidShape
  <2> QED BY <1>1, <1>2, <2>2, <2>3
<1> QED BY <1>1, <1>4, <1>5, <1>6, <1>7 DEF Owns

\* So is m_Place.
LEMMA PlaceIn ==
    ASSUME IInv
    PROVE  place \in Seq(Nat) /\ (place # <<>> => place[1] \in 1..Len(tree))
<1>1. place \in Seq(Nat) /\ IsTree(grammar, tree)
  BY DEF IInv, Registers, TreeOK
<1>2. ASSUME place # <<>>
      PROVE  place[1] \in 1..Len(tree)
  <2>1. PICK j \in 1..Len(stack) : Owns(tree, stack[j]) /\ place = tree[Operand(tree, stack[j])].dest
    BY <1>2 DEF IInv, Registers
  <2>2. stack[j] \in FrameType /\ FrameOK(tree, stack[j])
    BY DEF IInv, StackOK
  <2> QED BY <1>1, <2>1, <2>2, OwnedPlace
<1> QED BY <1>1, <1>2

\* The null value.
LEMMA NullType == Null = [form |-> "null", ty |-> Nil, of |-> <<>>]
BY Zenon DEF Null, Nil

\* m_Value is kept as what it is.
LEMMA ValueType ==
    ASSUME IInv
    PROVE  value \in [form : {"null", "val", "addr"}, ty : Types \cup {Nil}, of : Seq(Nat)]
<1>1. value = Null \/ value \in [form : {"val", "addr"}, ty : Types \cup {Nil}, of : Seq(Nat)]
  BY DEF IInv, Registers, ValueOK
<1>2. Null \in [form : {"null", "val", "addr"}, ty : Types \cup {Nil}, of : Seq(Nat)]
  BY NullType
<1> QED BY <1>1, <1>2

\* The left side of an assignment is a part.
LEMMA LeftSide ==
    ASSUME IInv, NEW n \in 1..Len(tree), tree[n].k \in {"assign", "asnop"}, tree[tree[n].kids[1]].k # "?"
    PROVE  tree[tree[n].kids[1]].k \in Parts
<1>1. IsTree(grammar, tree) /\ tree[n].k # "?"
  BY DEF IInv, TreeOK
<1>2. NodeShape(tree, n)
  BY <1>1, NodeIn
<1>3. Len(tree[n].sub) = 2 /\ 1 \in 1..Len(tree[n].sub)
  BY <1>2, Arity DEF NodeShape
<1> DEFINE c == tree[n].kids[1]
<1>4. c \in 1..Len(tree) /\ c # 1
  BY <1>2, <1>3 DEF NodeShape
<1>5. KidOK(grammar, tree, n, 1)
  BY <1>1, <1>3 DEF IsTree, Grown
<1>6. tree[c].must = Obligations(grammar, tree[n].must, RuleOf(tree, n), 1)
  BY <1>5 DEF KidOK
<1> HIDE DEF c
<1>7. "assignable" \in tree[c].must
  <2>1. RuleOf(tree, n).k \in {"assign", "asnop"}
    BY <1>2 DEF NodeShape
  <2> QED BY <1>6, <2>1 DEF Obligations, Demanded, When
<1>8. Admits(tree[c].must, RuleOf(tree, c)) /\ RuleOf(tree, c).k = tree[c].k
  <2>1. tree[c].k # "?"
    BY DEF c
  <2> QED BY <1>1, <1>4, <2>1, NodeIn DEF IsTree, Grown, NodeShape
<1> QED BY <1>7, <1>8 DEF Admits, Assignable, Parts, c

\* The handlers that set m_Place for the operand they visit next.
Takes(t, f) ==
    \/ KindOf(t, f) = "var" /\ ~Scalar(t[f.n].sub[1])
    \/ KindOf(t, f) = "ret" /\ t[t[f.n].kids[1]].k = "init"
    \/ KindOf(t, f) = "assign" /\ f.i = 2 /\ t[t[f.n].kids[2]].k = "init"

\* What Visit() does.
LEMMA VisitStep ==
    ASSUME IInv, status = "lowering", NEW c \in {"L", "R"}, NEW p, Visit(Which, c, p),
           Top.i <= Last, Top.st = "visit", Node.k # "init",
           p = place \/ (Takes(tree, Top) /\ p = tree[Kid(Which)].dest)
    PROVE  IInv'
<1> DEFINE w == Which
           f == [Top EXCEPT !.i = @ + 1, !.vals = IF Top.i = 1 THEN @ ELSE Append(@, value)]
           g == Frame(Kid(w), c, p)
           V == [form : {"null", "val", "addr"}, ty : Types \cup {Nil}, of : Seq(Nat)]
<1>1. /\ IsTree(grammar, tree) /\ tree \in Seq(NodeType) /\ Len(tree) \in Nat
      /\ Top \in FrameType /\ FrameOK(tree, Top) /\ Top.n \in 1..Len(tree) /\ Node = tree[Top.n] /\ Node.k # "?"
  BY TopFacts DEF IInv, TreeOK, IsTree
<1>2. NodeShape(tree, Top.n)
  BY <1>1, NodeIn
<1>3. /\ Top.i \in Nat /\ Top.n \in Nat /\ Top.base \in Seq(Nat) /\ Top.vals \in Seq(V)
      /\ Top.vc \in {"L", "R", "nested"} /\ Top.st \in {"visit", "copy", "store"}
  BY <1>1 DEF FrameType
<1>4. Top.i > 0 /\ (Node.k = "asnop" => Top.i <= 3) /\ (Node.k # "asnop" => Top.i <= Len(Node.sub))
  <2>1. Top.i \in 1..(IF Node.k = "asnop" THEN 3 ELSE Len(Node.sub)) + 1
    BY <1>1 DEF FrameOK, KindOf
  <2>2. Top.i > 0
    BY <1>3, <2>1
  <2> QED BY <1>1, <1>2, <2>2 DEF Last, NodeShape
<1>5. w \in 1..Len(Node.sub)
  <2>1. CASE Node.k = "asnop"
    <3>1. Len(Node.sub) = 2
      BY <1>1, <1>2, <2>1, Arity DEF NodeShape
    <3>2. Top.i = 1 \/ Top.i = 2 \/ Top.i = 3
      BY <1>3, <1>4, <2>1
    <3> QED BY <2>1, <3>1, <3>2 DEF Which
  <2>2. CASE Node.k # "asnop"
    <3>1. w = Top.i
      BY <2>2 DEF Which
    <3>2. Len(Node.sub) \in Nat
      BY <1>1, <1>2 DEF NodeShape
    <3> QED BY <1>3, <1>4, <2>2, <3>1, <3>2
  <2> QED BY <2>1, <2>2
<1>6. /\ Kid(w) = Node.kids[w] /\ Kid(w) \in 2..Len(tree) /\ Kid(w) \in 1..Len(tree) /\ Kid(w) \in Nat
      /\ tree[Kid(w)].k # "?" /\ tree[Kid(w)] \in NodeType
  <2>1. Kid(w) = Node.kids[w] /\ Kid(w) \in 2..Len(tree)
    BY <1>1, <1>2, <1>5 DEF Kid, NodeShape
  <2>2. tree[Kid(w)].k # "?"
    BY DEF Visit
  <2> HIDE DEF w
  <2>3. Kid(w) \in 1..Len(tree) /\ Kid(w) \in Nat
    BY <1>1, <2>1
  <2> QED BY <1>1, <2>1, <2>2, <2>3, ElementOfSeq
<1>7. /\ f.n = Top.n /\ f.i = Top.i + 1 /\ f.vc = Top.vc /\ f.base = Top.base /\ f.st = "visit"
      /\ f.vals = IF Top.i = 1 THEN Top.vals ELSE Append(Top.vals, value)
  BY <1>1 DEF FrameType
<1>8. f.vals \in Seq(V)
  <2>1. value \in V
    BY ValueType
  <2>2. Append(Top.vals, value) \in Seq(V)
    BY <1>3, <2>1, AppendProperties
  <2> QED BY <1>3, <1>7, <2>2
<1>9. f \in FrameType
  <2> DEFINE vs == IF Top.i = 1 THEN Top.vals ELSE Append(Top.vals, value)
  <2>1. vs \in Seq(V) /\ Top.i + 1 \in Nat
    BY <1>3, <1>7, <1>8
  <2> HIDE DEF vs
  <2>2. [Top EXCEPT !.i = Top.i + 1, !.vals = vs] \in FrameType
    BY <1>1, <2>1 DEF FrameType
  <2> QED BY <2>2 DEF vs
<1>10. p \in Seq(Nat) /\ (p # <<>> => p[1] \in 1..Len(tree))
  <2>1. CASE p = place
    BY <2>1, PlaceIn
  <2>2. CASE Takes(tree, Top) /\ p = tree[Kid(w)].dest
    <3>1. p \in Seq(Nat)
      BY <1>6, <2>2 DEF NodeType
    <3>2. p = DestOf(tree, Top.n, w)
      BY <1>1, <1>2, <1>5, <1>6, <2>2 DEF NodeShape
    <3>3. RuleOf(tree, Top.n).k = Node.k /\ RuleOf(tree, Top.n).kids = Node.sub /\ KindOf(tree, Top) = Node.k
      BY <1>1, <1>2 DEF NodeShape, KindOf
    <3>4. CASE Node.k = "var"
      <4>1. p = <<Top.n, 0>>
        BY <3>2, <3>3, <3>4 DEF DestOf
      <4> QED BY <1>1, <1>3, <3>1, <4>1
    <3>5. CASE Node.k = "ret"
      <4>1. Len(Node.sub) = 1 /\ w = 1
        BY <1>1, <1>2, <1>5, <3>5, Arity DEF NodeShape
      <4>2. tree[Kid(1)].k = "init" /\ Kid(1) \in 1..Len(tree) /\ 1 \in 1..Len(Node.sub)
        BY <1>1, <1>5, <1>6, <2>2, <3>3, <3>5, <4>1 DEF Takes, Kid
      <4>2a. NodeShape(tree, Kid(1))
        BY <1>1, <4>2, NodeIn
      <4>2b. tree[Kid(1)].ty = Node.sub[1]
        BY <1>1, <1>2, <4>2 DEF NodeShape, Kid
      <4>3. ~Scalar(Node.sub[1])
        BY <4>2, <4>2a, <4>2b, KindFacts DEF NodeShape
      <4>4. p = <<Top.n, 0>>
        BY <3>2, <3>3, <3>5, <4>3 DEF DestOf
      <4> QED BY <1>1, <1>3, <3>1, <4>4
    <3>6. CASE Node.k = "assign" /\ Top.i = 2
      <4>1. w = 2
        BY <3>6 DEF Which
      <4>2. p = <<Node.kids[1]>>
        BY <1>1, <3>2, <3>3, <3>6, <4>1 DEF DestOf
      <4>3. Node.kids[1] \in 1..Len(tree)
        <5>1. 1 \in 1..Len(Node.sub)
          BY <1>5
        <5> QED BY <1>1, <1>2, <5>1 DEF NodeShape
      <4> QED BY <3>1, <4>2, <4>3
    <3> QED BY <2>2, <3>3, <3>4, <3>5, <3>6 DEF Takes
  <2> QED BY <2>1, <2>2
<1>11. /\ g.n = Kid(w) /\ g.i = 1 /\ g.vc = c /\ g.base = p /\ g.vals = <<>> /\ g.st = "visit" /\ g \in FrameType
  BY <1>6, <1>10 DEF Frame, FrameType
<1>12. Operand(tree, f) = Kid(w) /\ Current(tree, f) = w /\ KindOf(tree, f) = Node.k
  <2>1. KindOf(tree, f) = Node.k
    BY <1>1, <1>7 DEF KindOf
  <2>2. Current(tree, f) = w
    <3> HIDE DEF f
    <3> QED BY <1>3, <1>4, <1>7, <2>1 DEF Current, Which
  <2> QED BY <1>1, <1>6, <1>7, <2>1, <2>2 DEF Operand
<1>13. stack' = <<g, f>> \o Rest /\ vc' = c /\ place' = p /\ UNCHANGED <<grammar, tree, status, self, value>>
  BY DEF Visit
<1> HIDE DEF f, g, w
<1>14. FrameOK(tree, f)
  <2>1. f.i \in 1..(IF Node.k = "asnop" THEN 3 ELSE Len(Node.sub)) + 1
    <3>1. Len(Node.sub) \in Nat
      BY <1>1, <1>2 DEF NodeShape
    <3> QED BY <1>3, <1>4, <1>7, <3>1
  <2>2. Node.k = "assign" /\ f.i < 3 => f.vals = <<>>
    <3>1. Node.k = "assign" /\ f.i < 3 => Top.i = 1
      BY <1>3, <1>4, <1>7
    <3>2. Node.k = "assign" /\ Top.i = 1 => Top.vals = <<>>
      BY <1>1 DEF FrameOK, KindOf
    <3> QED BY <1>7, <3>1, <3>2
  <2>3. ASSUME Node.k = "assign", f.i = 3
        PROVE  Len(f.vals) = 1 /\ f.vals[1].of = <<Node.kids[1]>>
    <3>1. Top.i = 2 /\ Top.vals = <<>>
      BY <1>1, <1>3, <1>7, <2>3 DEF FrameOK, KindOf
    <3>2. f.vals = Append(<<>>, value)
      BY <1>7, <3>1
    <3>3. Current(tree, Top) = 1 /\ Operand(tree, Top) = Node.kids[1] /\ Begun(Top)
      BY <1>1, <2>3, <3>1 DEF Current, Operand, KindOf, Begun
    <3>4. tree[Node.kids[1]].k # "?"
      BY <1>1, <3>3 DEF FrameOK
    <3>5. tree[Node.kids[1]].k \in Parts
      BY <1>1, <2>3, <3>4, LeftSide
    <3>6. stack # <<>>
      BY TopFacts
    <3>7. value.of = <<Node.kids[1]>>
      BY <3>3, <3>5, <3>6 DEF IInv, Registers
    <3> QED BY <3>2, <3>7
  <2>4. f.base # <<>> => f.base[1] \in 1..Len(tree)
    BY <1>1, <1>7 DEF FrameOK
  <2>5. f.vc # "nested"
    BY <1>1, <1>7 DEF FrameOK, KindOf
  <2>6. tree[f.n] = Node /\ f.n \in 1..Len(tree)
    BY <1>1, <1>7
  <2> QED BY <1>1, <1>6, <1>7, <1>12, <2>1, <2>2, <2>3, <2>4, <2>5, <2>6 DEF FrameOK
<1>15. FrameOK(tree, g) /\ ~Begun(g)
  <2>1. NodeShape(tree, Kid(w))
    BY <1>1, <1>6, NodeIn
  <2>2. 1 \in 1..(IF tree[Kid(w)].k = "asnop" THEN 3 ELSE Len(tree[Kid(w)].sub)) + 1
    BY <2>1 DEF NodeShape
  <2>3. ~Begun(g)
    BY <1>11 DEF Begun
  <2> QED BY <1>6, <1>10, <1>11, <2>2, <2>3 DEF FrameOK, KindOf
<1>16. Waits(tree, f, g)
  BY <1>3, <1>4, <1>7, <1>11, <1>12 DEF Waits, Begun
<1>17a. Node.k = "var" \/ Node.k = "ret" => Top.i = 1
  <2> SUFFICES ASSUME Node.k = "var" \/ Node.k = "ret"
               PROVE  Top.i = 1
    OBVIOUS
  <2>1. Len(Node.sub) = 1
    BY <1>1, <1>2, Arity DEF NodeShape
  <2>2. Top.i <= Len(Node.sub)
    BY <1>4
  <2> QED BY <1>3, <1>4, <2>1, <2>2
<1>17b. Node.k = "assign" => Top.i # 3
  <2> SUFFICES ASSUME Node.k = "assign"
               PROVE  Top.i # 3
    OBVIOUS
  <2>1. Len(Node.sub) = 2
    BY <1>1, <1>2, Arity DEF NodeShape
  <2>2. Top.i <= Len(Node.sub)
    BY <1>4
  <2> QED BY <2>1, <2>2
<1>17. ~Owns(tree, Top)
  <2>1. KindOf(tree, Top) = Node.k
    BY <1>1 DEF KindOf
  <2> QED BY <1>17a, <1>17b, <2>1 DEF Owns
<1>18. ASSUME Takes(tree, Top)
       PROVE  Owns(tree, f)
  <2>2. KindOf(tree, Top) = Node.k /\ tree[Top.n] = Node
    BY <1>1 DEF KindOf
  <2> QED BY <1>7, <1>12, <1>17a, <1>18, <2>2 DEF Takes, Owns
<1>19. place' = place \/ (Owns(tree, f) /\ place' = tree[Operand(tree, f)].dest)
  BY <1>12, <1>13, <1>18 DEF w
<1> QED BY <1>7, <1>9, <1>11, <1>13, <1>14, <1>15, <1>16, <1>17, <1>19, PushStep

-----------------------------------------------------------------------------
(* The handlers.                                                           *)

\* How many operands a handler visits.
LEMMA LastIs ==
    ASSUME IInv, status = "lowering"
    PROVE  /\ Node.k \in {"lit", "ref", "field"} => Last = 0
           /\ Node.k \in {"paren", "cast", "un", "inc", "addr", "deref", "access", "var", "ret", "expr",
                          "global", "cond"} => Last = 1
           /\ Node.k \in {"index", "bin", "logic", "assign", "syscall", "init"} => Last = 2
           /\ Node.k = "asnop" => Last = 3
           /\ Node.k = "match" => Last = 4
           /\ Node.k \in {"call", "mcall"} => Last \in 1..2
           /\ Node.k # "asnop" => Last = Len(Node.sub) /\ Which = Top.i
           /\ Len(Node.kids) = Len(Node.sub) /\ Len(Node.sub) \in Nat
           /\ NodeShape(tree, Top.n) /\ Node = tree[Top.n] /\ Top.n \in 1..Len(tree) /\ Top.n \in Nat
           /\ Node.ty \in Types \cup {Nil} /\ Top.i \in Nat
           /\ RuleOf(tree, Top.n) \in Rules \cup Statements
           /\ RuleOf(tree, Top.n).k = Node.k /\ RuleOf(tree, Top.n).kids = Node.sub
<1>1. /\ Top.n \in 1..Len(tree) /\ Node = tree[Top.n] /\ Node.k # "?" /\ Top \in FrameType
      /\ IsTree(grammar, tree)
  BY TopFacts DEF IInv, TreeOK
<1>2. NodeShape(tree, Top.n)
  BY <1>1, NodeIn
<1>3. /\ RuleOf(tree, Top.n) \in Rules \cup Statements
      /\ RuleOf(tree, Top.n).k = Node.k /\ RuleOf(tree, Top.n).kids = Node.sub
      /\ Len(Node.kids) = Len(Node.sub) /\ Len(Node.sub) \in Nat /\ Node.ty \in Types \cup {Nil}
  BY <1>1, <1>2 DEF NodeShape, NodeType
<1>4. Node.k = "asnop" => Last = 3
  BY DEF Last
<1>5. Node.k # "asnop" => Last = Len(Node.sub) /\ Which = Top.i
  BY <1>3 DEF Last, Which
<1>6. Top.n \in Nat /\ Top.i \in Nat
  BY <1>1 DEF FrameType
<1> QED BY <1>1, <1>2, <1>3, <1>4, <1>5, <1>6, Arity

\* A handler that is not one of these has set no place, and is where it visits.
LEMMA Idle ==
    ASSUME IInv, status = "lowering", Node.k \notin {"var", "ret", "assign"},
           Node.k \in {"call", "mcall"} => Top.st # "copy"
    PROVE  ~Owns(tree, Top) /\ (Node.k # "init" => Top.st = "visit")
<1>1. Top \in FrameType /\ FrameOK(tree, Top) /\ KindOf(tree, Top) = Node.k
  BY TopFacts DEF KindOf
<1> QED BY <1>1 DEF Owns, FrameOK, FrameType

\* What these handlers do when they come to an operand.
LEMMA VisitHere ==
    ASSUME IInv, status = "lowering", NEW c \in {"L", "R"}, NEW w, Visit(w, c, place), w = Which, Top.i <= Last,
           Node.k # "init", Top.st = "visit"
    PROVE  IInv'
BY VisitStep

\* What they leave as the value of an expression.
LEMMA Made ==
    ASSUME IInv, status = "lowering"
    PROVE  /\ ValueOK(tree, Result(Node.ty, Top.n)) /\ Result(Node.ty, Top.n).of = <<Top.n>>
           /\ ValueOK(tree, Address(Node.ty, <<Top.n>>)) /\ Address(Node.ty, <<Top.n>>).of = <<Top.n>>
           /\ ValueOK(tree, Null)
<1>1. Top.n \in 1..Len(tree) /\ Top.n \in Nat /\ Node.ty \in Types \cup {Nil}
  BY LastIs
<1>2. <<Top.n>> \in Seq(Nat) /\ <<Top.n>> # <<>> /\ <<Top.n>>[1] = Top.n
  BY <1>1
<1> QED BY <1>1, <1>2 DEF ValueOK, Result, Address

\* How they end.
LEMMA GiveStep ==
    ASSUME IInv, status = "lowering", NEW v, NEW to, Give(v, to), Node.k \in Exprs, ValueOK(tree, v),
           Node.k \in Parts => v.of = <<Top.n>>,
           place' = <<>> \/ (place' = place /\ ~Owns(tree, Top))
    PROVE  IInv'
<1>1. value' = v /\ stack' = Rest /\ UNCHANGED <<grammar, tree, status, self, vc>>
  BY DEF Give
<1> QED BY <1>1, PopStep

\* m_VC is one or the other.
LEMMA Contexts ==
    ASSUME IInv
    PROVE  vc \in {"L", "R"} /\ \A ty : BaseContext(ty) \in {"L", "R"}
BY DEF IInv, Registers, BaseContext

\* A literal is its own value.
LEMMA LiteralStep == IInv /\ Literal => IInv'
BY Idle, Made, GiveStep DEF Literal, Lowering, Keep, Exprs, Parts

\* A name is a value or an address, by m_VC.
LEMMA ReferenceStep == IInv /\ Reference => IInv'
<1> SUFFICES ASSUME IInv, Reference
             PROVE  IInv'
  OBVIOUS
<1>1. status = "lowering" /\ Node.k \in {"ref", "field"} /\ place' = place /\ Node.k \in Exprs /\ ~Owns(tree, Top)
  BY Idle DEF Reference, Lowering, Keep, Exprs
<1>2. CASE vc = "L"
  BY <1>1, <1>2, Made, GiveStep DEF Reference
<1>3. CASE vc # "L"
  BY <1>1, <1>3, Made, GiveStep DEF Reference
<1> QED BY <1>2, <1>3

\* Parentheses leave everything as it is.
LEMMA ParenStep == IInv /\ Paren => IInv'
<1> SUFFICES ASSUME IInv, Paren
             PROVE  IInv'
  OBVIOUS
<1>1. /\ status = "lowering" /\ Node.k = "paren" /\ Node.k \in Exprs /\ ~Owns(tree, Top) /\ Top.st = "visit"
      /\ Node.k \notin Parts
  BY Idle DEF Paren, Lowering, Exprs, Parts
<1>2. CASE Top.i = 1 /\ Visit(1, vc, place)
  BY <1>1, <1>2, LastIs, Contexts, VisitHere
<1>3. CASE Top.i = 2 /\ stack' = Rest /\ UNCHANGED <<grammar, fun, tree, out, vc, place, value, self, status>>
  BY <1>1, <1>3, PopStep DEF IInv, Registers
<1> QED BY <1>2, <1>3 DEF Paren

\* An operator or a cast makes a value of one.
LEMMA UnaryStep == IInv /\ Unary => IInv'
<1> SUFFICES ASSUME IInv, Unary
             PROVE  IInv'
  OBVIOUS
<1>1. /\ status = "lowering" /\ Node.k \in {"un", "cast"} /\ Node.k \in Exprs /\ ~Owns(tree, Top)
      /\ Top.st = "visit" /\ Node.k \notin Parts
  BY Idle DEF Unary, Lowering, Exprs, Parts
<1>2. CASE Top.i = 1 /\ Visit(1, "R", place)
  BY <1>1, <1>2, LastIs, VisitHere
<1>3. CASE Give(Result(Node.ty, Top.n), <<>>) /\ place' = place
  BY <1>1, <1>3, Made, GiveStep
<1> QED BY <1>2, <1>3 DEF Unary, Keep

\* An address is made a value.
LEMMA AddressOfStep == IInv /\ AddressOf => IInv'
<1> SUFFICES ASSUME IInv, AddressOf
             PROVE  IInv'
  OBVIOUS
<1>1. /\ status = "lowering" /\ Node.k = "addr" /\ Node.k \in Exprs /\ ~Owns(tree, Top)
      /\ Top.st = "visit" /\ Node.k \notin Parts
  BY Idle DEF AddressOf, Lowering, Exprs, Parts
<1>2. CASE Top.i = 1 /\ Visit(1, "L", place)
  BY <1>1, <1>2, LastIs, VisitHere
<1>3. CASE Give([value EXCEPT !.form = "val", !.ty = Node.ty, !.of = <<Top.n>>], <<>>) /\ place' = place
  <2> DEFINE v == [value EXCEPT !.form = "val", !.ty = Node.ty, !.of = <<Top.n>>]
  <2>1. v \in [form : {"val", "addr"}, ty : Types \cup {Nil}, of : Seq(Nat)] /\ v.of = <<Top.n>>
    <3>1. value \in [form : {"null", "val", "addr"}, ty : Types \cup {Nil}, of : Seq(Nat)]
      BY ValueType
    <3>2. Node.ty \in Types \cup {Nil} /\ <<Top.n>> \in Seq(Nat)
      BY <1>1, LastIs
    <3> QED BY <3>1, <3>2
  <2>2. ValueOK(tree, v)
    <3>1. Top.n \in 1..Len(tree) /\ <<Top.n>> # <<>> /\ <<Top.n>>[1] = Top.n
      BY <1>1, LastIs
    <3> QED BY <2>1, <3>1 DEF ValueOK
  <2> HIDE DEF v
  <2>3. Give(v, <<>>)
    BY <1>3 DEF v
  <2> QED BY <1>1, <1>3, <2>2, <2>3, GiveStep
<1> QED BY <1>2, <1>3 DEF AddressOf, Keep

\* A pointer is followed.
LEMMA DereferenceStep == IInv /\ Dereference => IInv'
<1> SUFFICES ASSUME IInv, Dereference
             PROVE  IInv'
  OBVIOUS
<1>1. /\ status = "lowering" /\ Node.k = "deref" /\ Node.k \in Exprs /\ ~Owns(tree, Top) /\ Top.st = "visit"
  BY Idle DEF Dereference, Lowering, Exprs, Parts
<1>2. CASE Top.i = 1 /\ Visit(1, "R", place)
  BY <1>1, <1>2, LastIs, VisitHere
<1>3. CASE Give(Result(Node.ty, Top.n), <<>>) /\ place' = place
  BY <1>1, <1>3, Made, GiveStep
<1>4. CASE Give(Address(Node.ty, <<Top.n>>), <<>>) /\ place' = place
  BY <1>1, <1>4, Made, GiveStep
<1> QED BY <1>2, <1>3, <1>4 DEF Dereference, Keep

\* An increment writes where its operand is.
LEMMA IncrementStep == IInv /\ Increment => IInv'
<1> SUFFICES ASSUME IInv, Increment
             PROVE  IInv'
  OBVIOUS
<1>1. /\ status = "lowering" /\ Node.k = "inc" /\ Node.k \in Exprs /\ ~Owns(tree, Top)
      /\ Top.st = "visit" /\ Node.k \notin Parts
  BY Idle DEF Increment, Lowering, Exprs, Parts
<1>2. CASE Top.i = 1 /\ Visit(1, "L", place)
  BY <1>1, <1>2, LastIs, VisitHere
<1>3. CASE Give(Result(Node.ty, Top.n), value.of) /\ place' = place
  BY <1>1, <1>3, Made, GiveStep
<1> QED BY <1>2, <1>3 DEF Increment, Keep

\* A member of a structure.
LEMMA AccessStep == IInv /\ Access => IInv'
<1> SUFFICES ASSUME IInv, Access
             PROVE  IInv'
  OBVIOUS
<1>1. /\ status = "lowering" /\ Node.k = "access" /\ Node.k \in Exprs /\ ~Owns(tree, Top) /\ Top.st = "visit"
  BY Idle DEF Access, Lowering, Exprs, Parts
<1>2. CASE Top.i = 1 /\ Visit(1, BaseContext(KidType(1)), place)
  BY <1>1, <1>2, LastIs, Contexts, VisitHere
<1>3. CASE Give(Result(Node.ty, Top.n), <<>>) /\ place' = place
  BY <1>1, <1>3, Made, GiveStep
<1>4. CASE Give(Address(Node.ty, <<Top.n>>), <<>>) /\ place' = place
  BY <1>1, <1>4, Made, GiveStep
<1> QED BY <1>2, <1>3, <1>4 DEF Access, Keep, Part

\* An element of an array.
LEMMA SubscriptStep == IInv /\ Subscript => IInv'
<1> SUFFICES ASSUME IInv, Subscript
             PROVE  IInv'
  OBVIOUS
<1>1. /\ status = "lowering" /\ Node.k = "index" /\ Node.k \in Exprs /\ ~Owns(tree, Top) /\ Top.st = "visit"
  BY Idle DEF Subscript, Lowering, Exprs, Parts
<1>2. CASE Top.i = 1 /\ Visit(1, BaseContext(KidType(1)), place)
  BY <1>1, <1>2, LastIs, Contexts, VisitHere
<1>3. CASE Top.i = 2 /\ Visit(2, "R", place)
  BY <1>1, <1>3, LastIs, VisitHere
<1>4. CASE Give(Result(Node.ty, Top.n), <<>>) /\ place' = place
  BY <1>1, <1>4, Made, GiveStep
<1>5. CASE Give(Address(Node.ty, <<Top.n>>), <<>>) /\ place' = place
  BY <1>1, <1>5, Made, GiveStep
<1> QED BY <1>2, <1>3, <1>4, <1>5 DEF Subscript, Keep, Part

\* An operator makes a value of two.
LEMMA BinaryStep == IInv /\ Binary => IInv'
<1> SUFFICES ASSUME IInv, Binary
             PROVE  IInv'
  OBVIOUS
<1>1. /\ status = "lowering" /\ Node.k = "bin" /\ Node.k \in Exprs /\ ~Owns(tree, Top)
      /\ Top.st = "visit" /\ Node.k \notin Parts
  BY Idle DEF Binary, Lowering, Exprs, Parts
<1>2. CASE Top.i = 1 /\ Visit(1, "R", place)
  BY <1>1, <1>2, LastIs, VisitHere
<1>3. CASE Top.i = 2 /\ Visit(2, vc, place)
  BY <1>1, <1>3, LastIs, Contexts, VisitHere
<1>4. CASE Give(Result(Node.ty, Top.n), <<>>) /\ place' = place
  BY <1>1, <1>4, Made, GiveStep
<1> QED BY <1>2, <1>3, <1>4 DEF Binary, Keep

\* So do && and ||.
LEMMA LogicStep == IInv /\ Logic => IInv'
<1> SUFFICES ASSUME IInv, Logic
             PROVE  IInv'
  OBVIOUS
<1>1. /\ status = "lowering" /\ Node.k = "logic" /\ Node.k \in Exprs /\ ~Owns(tree, Top)
      /\ Top.st = "visit" /\ Node.k \notin Parts
  BY Idle DEF Logic, Lowering, Exprs, Parts
<1>2. CASE Top.i \in {1, 2} /\ Visit(Top.i, "R", place)
  BY <1>1, <1>2, LastIs, VisitHere
<1>3. CASE Give(Result(Node.ty, Top.n), <<>>) /\ place' = place
  BY <1>1, <1>3, Made, GiveStep
<1> QED BY <1>2, <1>3 DEF Logic, Keep

\* A rune for a system call.
LEMMA SyscallStep == IInv /\ Syscall => IInv'
<1> SUFFICES ASSUME IInv, Syscall
             PROVE  IInv'
  OBVIOUS
<1>1. /\ status = "lowering" /\ Node.k = "syscall" /\ Node.k \in Exprs /\ ~Owns(tree, Top)
      /\ Top.st = "visit" /\ Node.k \notin Parts
  BY Idle DEF Syscall, Lowering, Exprs, Parts
<1>2. CASE Top.i \in {1, 2} /\ Visit(Top.i, "R", place)
  BY <1>1, <1>2, LastIs, VisitHere
<1>3. CASE Give(Result(Node.ty, Top.n), <<>>) /\ place' = place
  BY <1>1, <1>3, Made, GiveStep
<1> QED BY <1>2, <1>3 DEF Syscall, Keep

\* A compound assignment comes to its left side twice.
LEMMA CompoundAssignStep == IInv /\ CompoundAssign => IInv'
<1> SUFFICES ASSUME IInv, CompoundAssign
             PROVE  IInv'
  OBVIOUS
<1>1. /\ status = "lowering" /\ Node.k = "asnop" /\ Node.k \in Exprs /\ ~Owns(tree, Top)
      /\ Top.st = "visit" /\ Node.k \notin Parts
  BY Idle DEF CompoundAssign, Lowering, Exprs, Parts
<1>2. CASE Top.i = 1 /\ Visit(1, "R", place)
  BY <1>1, <1>2, LastIs, VisitHere DEF Which
<1>3. CASE Top.i = 2 /\ Visit(2, vc, place)
  BY <1>1, <1>3, LastIs, Contexts, VisitHere DEF Which
<1>4. CASE Top.i = 3 /\ Visit(1, "L", place)
  BY <1>1, <1>4, LastIs, VisitHere DEF Which
<1>5. CASE Give(Result(Node.ty, Top.n), value.of) /\ place' = place
  BY <1>1, <1>5, Made, GiveStep
<1> QED BY <1>2, <1>3, <1>4, <1>5 DEF CompoundAssign, Keep

\* An assignment gives an initializer its left side as the place.
LEMMA AssignOperandsStep == IInv /\ AssignOperands => IInv'
<1> SUFFICES ASSUME IInv, AssignOperands
             PROVE  IInv'
  OBVIOUS
<1>1. /\ status = "lowering" /\ Node.k = "assign" /\ Top.i <= 2 /\ Last = 2 /\ Which = Top.i
      /\ Top.n \in 1..Len(tree) /\ Node = tree[Top.n] /\ NodeShape(tree, Top.n) /\ Top.i \in Nat
      /\ RuleOf(tree, Top.n).k = "assign" /\ RuleOf(tree, Top.n).kids = Node.sub /\ Len(Node.sub) = 2
  <2>1. status = "lowering" /\ Node.k = "assign" /\ Top.i <= 2
    BY DEF AssignOperands, Lowering
  <2> QED BY <2>1, LastIs
<1>2. Top \in FrameType /\ FrameOK(tree, Top) /\ KindOf(tree, Top) = "assign" /\ stack # <<>>
  BY <1>1, TopFacts DEF KindOf
<1>3. Top.st = "visit"
  BY <1>2 DEF FrameOK, FrameType
<1>4. CASE Top.i = 1
  BY <1>1, <1>3, <1>4, VisitHere DEF AssignOperands
<1>5. CASE Top.i # 1
  <2>1. Top.i = 2
    <3>1. Top.i > 0
      BY <1>2 DEF FrameOK
    <3> QED BY <1>1, <1>5, <3>1
  <2>2. CASE IsInit(2)
    <3>1. Visit(2, "R", value.of)
      BY <1>5, <2>2 DEF AssignOperands
    <3>2. Takes(tree, Top)
      BY <1>1, <1>2, <2>1, <2>2 DEF Takes, IsInit, Kid
    <3>3. value.of = <<Node.kids[1]>>
      <4>1. Begun(Top) /\ Operand(tree, Top) = Node.kids[1]
        BY <1>1, <1>2, <1>3, <2>1 DEF Begun, Operand, Current
      <4>2. tree[Node.kids[1]].k # "?"
        BY <1>2, <4>1 DEF FrameOK
      <4>3. tree[Node.kids[1]].k \in Parts
        BY <1>1, <4>2, LeftSide
      <4> QED BY <1>2, <4>1, <4>3 DEF IInv, Registers
    <3>4. tree[Kid(2)].dest = <<Node.kids[1]>>
      <4>1. 2 \in 1..Len(Node.sub)
        BY <1>1
      <4>2. tree[Kid(2)].dest = DestOf(tree, Top.n, 2)
        BY <1>1, <4>1 DEF NodeShape, Kid
      <4> QED BY <1>1, <4>2 DEF DestOf
    <3> QED BY <1>1, <1>3, <2>1, <3>1, <3>2, <3>3, <3>4, VisitStep
  <2>3. CASE ~IsInit(2)
    <3>1. CASE Scalar(Node.ty)
      BY <1>1, <1>3, <1>5, <2>1, <2>3, <3>1, VisitHere DEF AssignOperands
    <3>2. CASE ~Scalar(Node.ty)
      BY <1>1, <1>3, <1>5, <2>1, <2>3, <3>2, VisitHere DEF AssignOperands
    <3> QED BY <3>1, <3>2
  <2> QED BY <2>2, <2>3
<1> QED BY <1>4, <1>5

\* It takes that place back.
LEMMA AssignEndStep == IInv /\ AssignEnd => IInv'
<1> SUFFICES ASSUME IInv, AssignEnd
             PROVE  IInv'
  OBVIOUS
<1>1. status = "lowering" /\ Node.k = "assign" /\ Node.k \in Exprs /\ Node.k \notin Parts
  BY DEF AssignEnd, Ended, Lowering, Exprs, Parts
<1>2. Top \in FrameType /\ FrameOK(tree, Top) /\ KindOf(tree, Top) = "assign" /\ Node = tree[Top.n]
  BY <1>1, TopFacts DEF KindOf
<1>3. Top.st = "visit"
  BY <1>2 DEF FrameOK, FrameType
<1>4. CASE IsInit(2)
  <2>1. Give(value, Top.vals[1].of) /\ place' = <<>>
    BY <1>4 DEF AssignEnd
  <2>2. ValueOK(tree, value)
    BY DEF IInv, Registers
  <2> QED BY <1>1, <2>1, <2>2, GiveStep
<1>5. CASE ~IsInit(2)
  <2>1. Give(IF Scalar(Node.ty) THEN Result(Node.ty, Top.n) ELSE Null, Top.vals[1].of) /\ place' = place
    BY <1>5 DEF AssignEnd, Keep
  <2>2. ~Owns(tree, Top)
    BY <1>2, <1>3, <1>5 DEF Owns, IsInit, Kid
  <2>3. ValueOK(tree, IF Scalar(Node.ty) THEN Result(Node.ty, Top.n) ELSE Null)
    BY <1>1, Made
  <2> QED BY <1>1, <2>1, <2>2, <2>3, GiveStep
<1> QED BY <1>4, <1>5

\* The structure of a method.
LEMMA MethodBaseStep == IInv /\ MethodBase => IInv'
<1> SUFFICES ASSUME IInv, MethodBase
             PROVE  IInv'
  OBVIOUS
<1>1. /\ status = "lowering" /\ Node.k = "mcall" /\ Top.st = "visit" /\ Top.i = 1
      /\ Visit(1, BaseContext(KidType(1)), place)
  BY DEF MethodBase, At, Lowering
<1> QED BY <1>1, LastIs, Contexts, VisitHere

\* The arguments that follow the one for the result, and self.
LEMMA ArgumentCount ==
    ASSUME NEW r \in Rules, IsCall(r)
    PROVE  /\ Cardinality({i \in 1..Len(r.kids) : r.k = "call" \/ i > 1}) =
                  IF r.k = "call" THEN Len(r.kids) ELSE Len(r.kids) - 1
           /\ Len(r.kids) \in 1..2
<1>1. Len(r.kids) \in 1..2
  BY Arity DEF IsCall
<1>2. CASE r.k = "call"
  <2>1. {i \in 1..Len(r.kids) : r.k = "call" \/ i > 1} = 1..Len(r.kids)
    BY <1>2
  <2>2. Cardinality(1..Len(r.kids)) = Len(r.kids)
    BY <1>1, FS_Interval
  <2> QED BY <1>1, <1>2, <2>1, <2>2
<1>3. CASE r.k # "call"
  <2>1. {i \in 1..Len(r.kids) : r.k = "call" \/ i > 1} = 2..Len(r.kids)
    BY <1>1, <1>3
  <2>2. Cardinality(2..Len(r.kids)) = Len(r.kids) - 1
    <3>1. Len(r.kids) \in Int /\ 2 \in Int /\ (Len(r.kids) = 1 \/ Len(r.kids) = 2)
      BY <1>1
    <3>2. Cardinality(2..Len(r.kids)) = IF 2 > Len(r.kids) THEN 0 ELSE Len(r.kids) - 2 + 1
      BY <3>1, FS_Interval
    <3>3. Len(r.kids) \in {1, 2} /\ (2 > 1) /\ ~(2 > 2) /\ 1 - 1 = 0 /\ 2 - 2 + 1 = 1 /\ 2 - 1 = 1
      BY <3>1
    <3> QED BY <3>2, <3>3
  <2> QED BY <1>1, <1>3, <2>1, <2>2
<1> QED BY <1>2, <1>3

\* An argument is passed by its address if it is passed by a copy.
LEMMA PassedByCopy ==
    ASSUME IInv, status = "lowering", Node.k \in {"call", "mcall"}, NEW i \in 1..Len(Node.sub),
           Node.k = "mcall" => i > 1
    PROVE  ByAddress(i) <=> i \in ByCopy(RuleOf(tree, Top.n))
<1> DEFINE r == RuleOf(tree, Top.n)
           s == Node.sub
           n == IF r.k = "call" THEN Len(s) ELSE Len(s) - 1
           a == IF Scalar(Node.ty) THEN <<>> ELSE <<"ARet">>
           b == IF Node.k = "mcall" THEN <<Nil>> ELSE <<>>
           c == [j \in 1..n |-> IF Scalar(s[IF Node.k = "mcall" THEN j + 1 ELSE j]) THEN Nil ELSE "AArg"]
           S == {Nil, "ARet", "AArg"}
<1>1. /\ r \in Rules /\ r.k = Node.k /\ r.kids = s /\ Len(s) \in Nat /\ IsCall(r)
  <2>1. r \in Rules \cup Statements /\ r.k = Node.k /\ r.kids = s /\ Len(s) \in Nat
    BY LastIs
  <2> QED BY <2>1, RuleType DEF Exprs, Stmts, IsCall
<1>2. Len(s) \in 1..2 /\ n \in Nat
  <2>1. Len(s) \in 1..2
    BY <1>1, ArgumentCount
  <2> HIDE DEF r, s
  <2> QED BY <2>1
<1>3. Cardinality({k \in 1..Len(s) : Node.k = "call" \/ k > 1}) = n
  BY <1>1, ArgumentCount
<1>4. Arguments(Node) = a \o b \o c
  BY <1>1, <1>3, Zenon DEF Arguments, Nil
<1>5. Nil # "AArg" /\ Nil # "ARet"
  BY Zenon DEF Nil
<1> DEFINE p == IF Scalar(Node.ty) THEN 0 ELSE 1
           q == IF Node.k = "mcall" THEN 1 ELSE 0
<1>6. a \in Seq(S) /\ Len(a) = p /\ (p = 1 => a[1] = "ARet")
  <2>1. <<>> \in Seq(S) /\ <<"ARet">> \in Seq(S) /\ Len(<<"ARet">>) = 1 /\ <<"ARet">>[1] = "ARet" /\ Len(<<>>) = 0
    BY Tuples
  <2>2. CASE Scalar(Node.ty)
    <3>1. a = <<>> /\ p = 0
      BY <2>2, Zenon
    <3> HIDE DEF a, p, S
    <3> QED BY <2>1, <3>1
  <2>3. CASE ~Scalar(Node.ty)
    <3>1. a = <<"ARet">> /\ p = 1
      BY <2>3, Zenon
    <3> HIDE DEF a, p, S
    <3> QED BY <2>1, <3>1
  <2> QED BY <2>2, <2>3
<1>7. b \in Seq(S) /\ Len(b) = q /\ (q = 1 => b[1] = Nil)
  <2>1. <<>> \in Seq(S) /\ <<Nil>> \in Seq(S) /\ Len(<<Nil>>) = 1 /\ <<Nil>>[1] = Nil /\ Len(<<>>) = 0
    BY Tuples
  <2>2. CASE Node.k = "mcall"
    <3>1. b = <<Nil>> /\ q = 1
      BY <2>2, Zenon
    <3> HIDE DEF b, q, S
    <3> QED BY <2>1, <3>1
  <2>3. CASE Node.k # "mcall"
    <3>1. b = <<>> /\ q = 0
      BY <2>3, Zenon
    <3> HIDE DEF b, q, S
    <3> QED BY <2>1, <3>1
  <2> QED BY <2>2, <2>3
<1>8. c \in Seq(S) /\ Len(c) = n /\ \A j \in 1..n : c[j] = IF Scalar(s[j + q]) THEN Nil ELSE "AArg"
  <2>1. \A j \in 1..n : c[j] = IF Scalar(s[j + q]) THEN Nil ELSE "AArg"
    <3>1. ASSUME NEW j \in 1..n
          PROVE  (IF Node.k = "mcall" THEN j + 1 ELSE j) = j + q
      BY <1>2
    <3> HIDE DEF q, n, r, s
    <3> QED BY <3>1
  <2>2. c \in Seq(S) /\ Len(c) = n
    <3> HIDE DEF n, s, r
    <3> QED BY <1>2
  <2> QED BY <2>1, <2>2
<1> HIDE DEF a, b, c, p, q, n, S
<1>9. /\ a \o b \in Seq(S) /\ Len(a \o b) = p + q
      /\ \A k \in 1..p + q : (a \o b)[k] = IF k <= p THEN a[k] ELSE b[k - p]
  BY <1>6, <1>7, ConcatProperties
<1>10. /\ a \o b \o c \in Seq(S) /\ Len(a \o b \o c) = p + q + n
       /\ \A k \in 1..p + q + n : (a \o b \o c)[k] = IF k <= p + q THEN (a \o b)[k] ELSE c[k - (p + q)]
  <2>1. a \o b \in Seq(S) /\ c \in Seq(S)
    BY <1>8, <1>9
  <2> DEFINE e == a \o b
  <2>2. /\ e \o c \in Seq(S) /\ Len(e \o c) = Len(e) + Len(c)
        /\ \A k \in 1..Len(e) + Len(c) : (e \o c)[k] = IF k <= Len(e) THEN e[k] ELSE c[k - Len(e)]
    <3> HIDE DEF e
    <3> QED BY <2>1, ConcatProperties DEF e
  <2>3. Len(e) = p + q /\ Len(c) = n
    BY <1>8, <1>9
  <2> QED BY <2>2, <2>3
<1>11. p \in {0, 1} /\ q \in {0, 1} /\ (p = 1 <=> ~Scalar(Node.ty)) /\ (q = 1 <=> Node.k = "mcall")
  BY DEF p, q
<1> DEFINE args == Arguments(Node)
<1>12. HasARet(args) <=> p = 1
  <2>1. CASE p = 1
    <3>1. 1 \in 1..p + q + n /\ 1 <= p + q /\ 1 \in 1..p + q /\ 1 <= p /\ p + q + n # 0
      BY <1>2, <1>11, <2>1
    <3>2. (a \o b \o c)[1] = "ARet"
      BY <1>6, <1>9, <1>10, <2>1, <3>1
    <3>3. a \o b \o c # <<>>
      BY <1>10, <3>1
    <3> QED BY <1>4, <2>1, <3>2, <3>3 DEF HasARet
  <2>2. CASE p = 0
    <3>1. ASSUME args # <<>>
          PROVE  args[1] # "ARet"
      <4>1. q + n > 0
        BY <1>2, <1>4, <1>10, <1>11, <2>2, <3>1
      <4>2. CASE q = 1
        <5>1. 1 \in 1..p + q + n /\ 1 <= p + q /\ 1 \in 1..p + q /\ ~(1 <= p) /\ 1 - p = 1
          BY <1>2, <2>2, <4>2
        <5>2. (a \o b \o c)[1] = Nil
          BY <1>7, <1>9, <1>10, <4>2, <5>1
        <5> QED BY <1>4, <1>5, <5>2
      <4>3. CASE q = 0
        <5>1. 1 \in 1..p + q + n /\ ~(1 <= p + q) /\ 1 - (p + q) = 1 /\ 1 \in 1..n
          BY <1>2, <2>2, <4>1, <4>3
        <5>2. (a \o b \o c)[1] \in {Nil, "AArg"}
          BY <1>8, <1>10, <5>1
        <5> QED BY <1>4, <1>5, <5>2
      <4> QED BY <1>11, <4>2, <4>3
    <3> QED BY <2>2, <3>1 DEF HasARet
  <2> QED BY <1>11, <2>1, <2>2
<1>13. ArgumentIndex(i) = p + i
  <2>1. i \in Nat
    BY <1>1
  <2> QED BY <1>11, <1>12, <2>1 DEF ArgumentIndex
<1>14. i - q \in 1..n /\ p + i \in 1..p + q + n /\ ~(p + i <= p + q) /\ (p + i) - (p + q) = i - q /\ (i - q) + q = i
  <2>1. i \in Nat /\ i > 0 /\ i <= Len(s)
    BY <1>1
  <2>2. n = Len(s) - q
    <3>1. r.k = "call" <=> q = 0
      BY <1>1, <1>11
    <3> QED BY <1>2, <1>11, <3>1 DEF n
  <2>3. q = 1 => i > 1
    BY <1>11
  <2> HIDE DEF r, s
  <2> QED BY <1>2, <1>11, <2>1, <2>2, <2>3
<1>15. (a \o b \o c)[p + i] = IF Scalar(s[i]) THEN Nil ELSE "AArg"
  BY <1>8, <1>10, <1>14
<1>16. ByAddress(i) <=> ~Scalar(s[i])
  <2>1. p + i <= Len(Arguments(Node))
    BY <1>4, <1>10, <1>14
  <2> QED BY <1>4, <1>5, <1>13, <1>15, <2>1 DEF ByAddress
<1>17. i \in ByCopy(r) <=> ~Scalar(s[i])
  BY <1>1 DEF ByCopy
<1> QED BY <1>16, <1>17

\* What a visit begins with.
Beginning(t, n, c, p) ==
    /\ n \in 1..Len(t) /\ t[n].k # "?" /\ c \in {"L", "R", "nested"} /\ p \in Seq(Nat)
    /\ p # <<>> => p[1] \in 1..Len(t)
    /\ c = "nested" => t[n].k = "init" /\ p # <<>>

\* A visit that begins.
LEMMA Begins ==
    ASSUME IInv, NEW n, NEW c, NEW p, Beginning(tree, n, c, p), NEW g, g = Frame(n, c, p)
    PROVE  g \in FrameType /\ FrameOK(tree, g) /\ ~Begun(g) /\ g.n = n /\ g.vc = c /\ g.base = p
<1>0. Beginning(tree, n, c, p)
  OBVIOUS
<1>1. /\ g.n = n /\ g.i = 1 /\ g.vc = c /\ g.base = p /\ g.vals = <<>> /\ g.st = "visit" /\ g \in FrameType
  <2>1. n \in Nat
    BY <1>0 DEF Beginning
  <2> QED BY <1>0, <2>1 DEF Beginning, Frame, FrameType
<1>2. IsTree(grammar, tree)
  BY DEF IInv, TreeOK
<1>3. NodeShape(tree, n)
  BY <1>0, <1>2, NodeIn DEF Beginning
<1>4. 1 \in 1..(IF tree[n].k = "asnop" THEN 3 ELSE Len(tree[n].sub)) + 1
  BY <1>3 DEF NodeShape
<1>5. ~Begun(g)
  BY <1>1 DEF Begun
<1>6. FrameOK(tree, g)
  BY <1>0, <1>1, <1>4, <1>5 DEF Beginning, FrameOK, KindOf
<1> QED BY <1>1, <1>5, <1>6

\* An operand that is passed as it is, or whose address is passed.
LEMMA ArgumentStep == IInv /\ Argument => IInv'
<1> SUFFICES ASSUME IInv, Argument
             PROVE  IInv'
  OBVIOUS
<1>1. /\ status = "lowering" /\ Node.k \in {"call", "mcall"} /\ Top.st = "visit"
      /\ Top.i <= Len(Node.kids) /\ (Node.k = "mcall" => Top.i > 1)
  BY DEF Argument, Lowering
<1>2. /\ Last = Len(Node.sub) /\ Which = Top.i /\ Top.i <= Last /\ Len(Node.sub) \in Nat /\ Top.i \in Nat
      /\ NodeShape(tree, Top.n) /\ Node = tree[Top.n] /\ Top.n \in 1..Len(tree) /\ Top.n \in Nat
      /\ RuleOf(tree, Top.n).k = Node.k /\ RuleOf(tree, Top.n).kids = Node.sub
  BY <1>1, LastIs
<1>3. Top \in FrameType /\ FrameOK(tree, Top) /\ KindOf(tree, Top) = Node.k /\ ~Owns(tree, Top)
  BY <1>1, Idle, TopFacts DEF KindOf
<1>4. Top.i \in 1..Len(Node.sub)
  <2>1. Top.i \in 1..(IF Node.k = "asnop" THEN 3 ELSE Len(Node.sub)) + 1
    BY <1>2, <1>3 DEF FrameOK
  <2> QED BY <1>1, <1>2, <2>1
<1>5. CASE ~ByAddress(Top.i)
  BY <1>1, <1>2, <1>5, VisitHere DEF Argument
<1>6. CASE ByAddress(Top.i)
  <2> DEFINE f == [Top EXCEPT !.st = "copy"]
             g == Frame(Kid(Top.i), "L", <<Top.n, Top.i>>)
  <2>1. /\ tree[Kid(Top.i)].k # "?" /\ vc' = "L" /\ place' = <<Top.n, Top.i>>
        /\ stack' = <<g, f>> \o Rest /\ UNCHANGED <<grammar, fun, tree, out, value, self, status>>
    BY <1>6 DEF Argument
  <2>2. /\ Kid(Top.i) = Node.kids[Top.i] /\ Kid(Top.i) \in 1..Len(tree)
        /\ tree[Kid(Top.i)].dest = DestOf(tree, Top.n, Top.i)
    BY <1>2, <1>4, KidOf DEF Kid, KidShape
  <2>3. Top.i \in ByCopy(RuleOf(tree, Top.n))
    BY <1>1, <1>4, <1>6, PassedByCopy
  <2>4. tree[Kid(Top.i)].dest = <<Top.n, Top.i>>
    BY <1>1, <1>2, <2>2, <2>3 DEF DestOf
  <2>5. <<Top.n, Top.i>> \in Seq(Nat) /\ <<Top.n, Top.i>>[1] \in 1..Len(tree)
    BY <1>2
  <2>6. g \in FrameType /\ FrameOK(tree, g) /\ ~Begun(g) /\ g.n = Kid(Top.i) /\ g.vc = "L"
    <3>1. g = Frame(Kid(Top.i), "L", <<Top.n, Top.i>>)
      OBVIOUS
    <3> HIDE DEF g
    <3>2. Beginning(tree, Kid(Top.i), "L", <<Top.n, Top.i>>)
      BY <2>1, <2>2, <2>5 DEF Beginning
    <3> QED BY <3>1, <3>2, Begins
  <2>7. /\ f \in FrameType /\ f.n = Top.n /\ f.i = Top.i /\ f.vc = Top.vc /\ f.base = Top.base
        /\ f.vals = Top.vals /\ f.st = "copy"
    BY <1>3 DEF FrameType
  <2> HIDE DEF f, g
  <2>8. KindOf(tree, f) = Node.k /\ Current(tree, f) = Top.i /\ Operand(tree, f) = Kid(Top.i) /\ Begun(f)
    BY <1>2, <2>2, <2>7 DEF KindOf, Current, Operand, Begun
  <2>9. FrameOK(tree, f)
    BY <1>1, <1>2, <1>3, <2>1, <2>3, <2>7, <2>8 DEF FrameOK
  <2>10. Waits(tree, f, g) /\ Owns(tree, f)
    BY <1>1, <2>6, <2>7, <2>8 DEF Waits, Owns
  <2> QED BY <1>1, <1>3, <2>1, <2>4, <2>6, <2>7, <2>8, <2>9, <2>10, PushStep
<1> QED BY <1>5, <1>6

\* The slot of an argument is left behind.
LEMMA CopyArgumentStep == IInv /\ CopyArgument => IInv'
<1> SUFFICES ASSUME IInv, CopyArgument
             PROVE  IInv'
  OBVIOUS
<1> DEFINE f == [Top EXCEPT !.st = "visit", !.i = @ + 1, !.vals = Append(@, value)]
<1>1. /\ status = "lowering" /\ Node.k \in {"call", "mcall"} /\ Top.st = "copy" /\ place' = <<>>
      /\ stack' = <<f>> \o Rest /\ UNCHANGED <<grammar, fun, tree, vc, value, self, status>>
  BY DEF CopyArgument, Lowering
<1>2. /\ Len(Node.sub) \in Nat /\ Top.i \in Nat
      /\ NodeShape(tree, Top.n) /\ Node = tree[Top.n] /\ Top.n \in 1..Len(tree) /\ Top.n \in Nat
      /\ RuleOf(tree, Top.n).k = Node.k /\ RuleOf(tree, Top.n).kids = Node.sub
  BY <1>1, LastIs
<1>3. Top \in FrameType /\ FrameOK(tree, Top) /\ KindOf(tree, Top) = Node.k
  BY <1>1, TopFacts DEF KindOf
<1>4. Top.i \in 1..Len(Node.sub)
  BY <1>1, <1>2, <1>3 DEF FrameOK, ByCopy
<1>5. /\ f \in FrameType /\ f.n = Top.n /\ f.i = Top.i + 1 /\ f.vc = Top.vc /\ f.base = Top.base
      /\ f.st = "visit"
  <2> DEFINE V == [form : {"null", "val", "addr"}, ty : Types \cup {Nil}, of : Seq(Nat)]
  <2>1. Top.vals \in Seq(V) /\ value \in V /\ Top.i + 1 \in Nat
    BY <1>3, ValueType DEF FrameType
  <2>2. Append(Top.vals, value) \in Seq(V)
    BY <2>1, AppendProperties
  <2> DEFINE s == Append(Top.vals, value)
  <2>3. s \in Seq(V)
    BY <2>2
  <2> HIDE DEF s
  <2>4. [Top EXCEPT !.st = "visit", !.i = Top.i + 1, !.vals = s] \in FrameType
    BY <1>3, <2>1, <2>3 DEF FrameType
  <2>5. f \in FrameType
    BY <2>4 DEF s
  <2> QED BY <1>3, <2>5 DEF FrameType
<1> HIDE DEF f
<1>6. /\ KindOf(tree, f) = Node.k /\ Current(tree, f) = Top.i /\ Current(tree, Top) = Top.i
      /\ Operand(tree, f) = Operand(tree, Top) /\ Begun(Top)
  <2>1. KindOf(tree, f) = Node.k /\ Begun(Top) /\ Current(tree, Top) = Top.i
    BY <1>1, <1>2, <1>5 DEF KindOf, Current, Begun
  <2>2. Current(tree, f) = Top.i
    <3>1. Node.k # "asnop" /\ (Top.i + 1) - 1 = Top.i
      BY <1>1, <1>2
    <3> QED BY <1>5, <2>1, <3>1 DEF Current
  <2> QED BY <1>1, <1>5, <2>1, <2>2 DEF Operand
<1>7. FrameOK(tree, f)
  <2>1. f.i \in 1..(IF Node.k = "asnop" THEN 3 ELSE Len(Node.sub)) + 1
    BY <1>1, <1>2, <1>4, <1>5
  <2>2. tree[Operand(tree, f)].k # "?"
    BY <1>3, <1>6 DEF FrameOK
  <2> QED BY <1>1, <1>2, <1>3, <1>5, <1>6, <2>1, <2>2 DEF FrameOK
<1> QED BY <1>1, <1>5, <1>6, <1>7, StayStep

\* The result of a call.
LEMMA CallEndStep == IInv /\ CallEnd => IInv'
<1> SUFFICES ASSUME IInv, CallEnd
             PROVE  IInv'
  OBVIOUS
<1>1. /\ status = "lowering" /\ Node.k \in {"call", "mcall"} /\ Top.st = "visit" /\ place' = place
      /\ Node.k \in Exprs /\ Node.k \notin Parts /\ ~Owns(tree, Top)
  BY Idle DEF CallEnd, Ended, Lowering, Keep, Exprs, Parts
<1>2. CASE HasARet(Arguments(Node))
  <2>1. Give(Address(Node.ty, ResultPlace), ResultPlace)
    BY <1>2 DEF CallEnd
  <2>2. Top \in FrameType /\ FrameOK(tree, Top) /\ Top.n \in 1..Len(tree) /\ Node.ty \in Types \cup {Nil}
    BY <1>1, TopFacts, LastIs
  <2>3. ResultPlace \in Seq(Nat) /\ ResultPlace # <<>> /\ ResultPlace[1] \in 1..Len(tree)
    <3>1. CASE Top.base # <<>>
      BY <2>2, <3>1 DEF ResultPlace, FrameType, FrameOK
    <3>2. CASE Top.base = <<>>
      <4>1. ResultPlace = <<Top.n, 0>> /\ Top.n \in Nat
        BY <2>2, <3>2 DEF ResultPlace
      <4> QED BY <2>2, <4>1
    <3> QED BY <3>1, <3>2
  <2>4. ValueOK(tree, Address(Node.ty, ResultPlace))
    BY <2>2, <2>3 DEF ValueOK, Address
  <2> QED BY <1>1, <2>1, <2>4, GiveStep
<1>3. CASE ~HasARet(Arguments(Node))
  BY <1>1, <1>3, Made, GiveStep DEF CallEnd
<1> QED BY <1>2, <1>3

\* What is true where an initializer comes to a field.
LEMMA FieldHere ==
    ASSUME IInv, InField, Top.i <= Len(Node.kids)
    PROVE  /\ status = "lowering" /\ Node.k = "init" /\ Top.st = "visit" /\ ~Owns(tree, Top)
           /\ Top \in FrameType /\ FrameOK(tree, Top) /\ KindOf(tree, Top) = "init" /\ Node = tree[Top.n]
           /\ Top.base # <<>> /\ Top.base \in Seq(Nat) /\ Top.base[1] \in 1..Len(tree)
           /\ Top.i \in 1..Len(Node.sub) /\ Top.i \in Nat /\ Len(Node.sub) \in Nat
           /\ Kid(Top.i) = Node.kids[Top.i] /\ Kid(Top.i) \in 1..Len(tree)
<1>1. status = "lowering" /\ Node.k = "init" /\ Top.st = "visit" /\ Top.base # <<>>
  BY DEF InField, Lowering
<1>2. /\ Len(Node.kids) = Len(Node.sub) /\ Len(Node.sub) \in Nat /\ Top.i \in Nat
      /\ NodeShape(tree, Top.n) /\ Node = tree[Top.n]
  BY <1>1, LastIs
<1>3. Top \in FrameType /\ FrameOK(tree, Top) /\ KindOf(tree, Top) = "init" /\ ~Owns(tree, Top)
  BY <1>1, Idle, TopFacts DEF KindOf
<1>4. Top.i \in 1..Len(Node.sub)
  <2>1. Top.i \in 1..(IF Node.k = "asnop" THEN 3 ELSE Len(Node.sub)) + 1
    BY <1>2, <1>3 DEF FrameOK, KindOf
  <2> QED BY <1>1, <1>2, <2>1
<1>5. Kid(Top.i) = Node.kids[Top.i] /\ Kid(Top.i) \in 1..Len(tree)
  BY <1>2, <1>4, KidOf DEF Kid, KidShape
<1>6. Top.base \in Seq(Nat) /\ Top.base[1] \in 1..Len(tree)
  BY <1>1, <1>3 DEF FrameType, FrameOK
<1> QED BY <1>1, <1>2, <1>3, <1>4, <1>5, <1>6

\* An initializer within one is walked with the field as its base.
LEMMA InitNestedStep == IInv /\ InitNested => IInv'
<1> SUFFICES ASSUME IInv, InitNested
             PROVE  IInv'
  OBVIOUS
<1> DEFINE f == [Top EXCEPT !.i = @ + 1]
           b == Append(Top.base, Top.i)
           g == Frame(Kid(Top.i), "nested", b)
<1>1. /\ InField /\ Top.i <= Len(Node.kids) /\ IsInit(Top.i) /\ stack' = <<g, f>> \o Rest
      /\ UNCHANGED <<grammar, fun, tree, out, vc, place, value, self, status>>
  BY DEF InitNested
<1>2. /\ status = "lowering" /\ Node.k = "init" /\ Top.st = "visit" /\ ~Owns(tree, Top)
      /\ Top \in FrameType /\ FrameOK(tree, Top) /\ KindOf(tree, Top) = "init" /\ Node = tree[Top.n]
      /\ Top.base # <<>> /\ Top.base \in Seq(Nat) /\ Top.base[1] \in 1..Len(tree)
      /\ Top.i \in 1..Len(Node.sub) /\ Top.i \in Nat /\ Len(Node.sub) \in Nat
      /\ Kid(Top.i) = Node.kids[Top.i] /\ Kid(Top.i) \in 1..Len(tree)
  BY <1>1, FieldHere
<1>3. b \in Seq(Nat) /\ b # <<>> /\ b[1] \in 1..Len(tree)
  <2>1. b \in Seq(Nat) /\ Len(b) = Len(Top.base) + 1
        /\ \A j \in 1..Len(Top.base) : b[j] = Top.base[j]
    BY <1>2, AppendProperties
  <2>2. Len(Top.base) \in Nat /\ Len(Top.base) > 0
    BY <1>2
  <2> HIDE DEF b
  <2>3. 1 \in 1..Len(Top.base)
    BY <2>2
  <2>4. b[1] = Top.base[1]
    BY <2>1, <2>3
  <2> QED BY <1>2, <2>1, <2>2, <2>4
<1> HIDE DEF b
<1>4. tree[Kid(Top.i)].k = "init"
  BY <1>1 DEF IsInit
<1>5. /\ g \in FrameType /\ FrameOK(tree, g) /\ ~Begun(g) /\ g.n = Kid(Top.i) /\ g.vc = "nested" /\ g.base = b
  <2>1. g = Frame(Kid(Top.i), "nested", b)
    OBVIOUS
  <2> HIDE DEF g
  <2>2. Beginning(tree, Kid(Top.i), "nested", b)
    BY <1>2, <1>3, <1>4 DEF Beginning
  <2> QED BY <2>1, <2>2, Begins
<1>6. /\ f \in FrameType /\ f.n = Top.n /\ f.i = Top.i + 1 /\ f.vc = Top.vc /\ f.base = Top.base
      /\ f.st = "visit"
  <2>1. Top.i + 1 \in Nat
    BY <1>2
  <2>2. f \in FrameType
    BY <1>2, <2>1 DEF FrameType
  <2> QED BY <1>2, <2>2 DEF FrameType
<1> HIDE DEF f, g
<1>7. KindOf(tree, f) = "init" /\ Current(tree, f) = Top.i /\ Operand(tree, f) = Kid(Top.i) /\ Begun(f)
  <2>1. KindOf(tree, f) = "init" /\ Begun(f)
    BY <1>2, <1>6 DEF KindOf, Begun
  <2>2. Current(tree, f) = Top.i
    <3>1. (Top.i + 1) - 1 = Top.i
      BY <1>2
    <3> QED BY <1>6, <2>1, <3>1 DEF Current
  <2> QED BY <1>2, <1>6, <2>1, <2>2 DEF Operand
<1>8. FrameOK(tree, f)
  <2>1. f.i \in 1..(IF Node.k = "asnop" THEN 3 ELSE Len(Node.sub)) + 1
    BY <1>2, <1>6
  <2> QED BY <1>2, <1>4, <1>6, <1>7, <2>1 DEF FrameOK
<1>9. Waits(tree, f, g)
  BY <1>5, <1>6, <1>7 DEF Waits, b
<1>10. vc \in {"L", "R"}
  BY Contexts
<1> QED BY <1>1, <1>2, <1>5, <1>6, <1>8, <1>9, <1>10, PushStep

\* The value of a field.
LEMMA InitScalarStep == IInv /\ InitScalar => IInv'
<1> SUFFICES ASSUME IInv, InitScalar
             PROVE  IInv'
  OBVIOUS
<1> DEFINE f == [Top EXCEPT !.st = "store"]
           g == Frame(Kid(Top.i), vc, place)
<1>1. /\ InField /\ Top.i <= Len(Node.kids) /\ Scalar(KidType(Top.i)) /\ tree[Kid(Top.i)].k # "?"
      /\ stack' = <<g, f>> \o Rest
      /\ UNCHANGED <<grammar, fun, tree, out, vc, place, value, self, status>>
  BY DEF InitScalar
<1>2. /\ status = "lowering" /\ Node.k = "init" /\ Top.st = "visit" /\ ~Owns(tree, Top)
      /\ Top \in FrameType /\ FrameOK(tree, Top) /\ KindOf(tree, Top) = "init" /\ Node = tree[Top.n]
      /\ Top.i \in 1..Len(Node.sub) /\ Top.i \in Nat /\ Len(Node.sub) \in Nat
      /\ Kid(Top.i) = Node.kids[Top.i] /\ Kid(Top.i) \in 1..Len(tree)
  BY <1>1, FieldHere
<1>3. place \in Seq(Nat) /\ (place # <<>> => place[1] \in 1..Len(tree)) /\ vc \in {"L", "R"}
  BY PlaceIn, Contexts
<1>4. g \in FrameType /\ FrameOK(tree, g) /\ ~Begun(g) /\ g.n = Kid(Top.i) /\ g.vc = vc
  <2>1. g = Frame(Kid(Top.i), vc, place)
    OBVIOUS
  <2> HIDE DEF g
  <2>2. Beginning(tree, Kid(Top.i), vc, place)
    BY <1>1, <1>2, <1>3 DEF Beginning
  <2> QED BY <2>1, <2>2, Begins
<1>5. /\ f \in FrameType /\ f.n = Top.n /\ f.i = Top.i /\ f.vc = Top.vc /\ f.base = Top.base
      /\ f.st = "store"
  BY <1>2 DEF FrameType
<1> HIDE DEF f, g
<1>6. KindOf(tree, f) = "init" /\ Current(tree, f) = Top.i /\ Operand(tree, f) = Kid(Top.i) /\ Begun(f)
  BY <1>2, <1>5 DEF KindOf, Current, Operand, Begun
<1>7. Scalar(tree[f.n].sub[f.i])
  BY <1>1, <1>2, <1>5 DEF KidType
<1>8. FrameOK(tree, f)
  <2>1. f.i \in 1..(IF Node.k = "asnop" THEN 3 ELSE Len(Node.sub)) + 1
    BY <1>2, <1>5
  <2> QED BY <1>1, <1>2, <1>5, <1>6, <1>7, <2>1 DEF FrameOK
<1>9. Waits(tree, f, g)
  BY <1>3, <1>4, <1>5, <1>6 DEF Waits
<1> QED BY <1>1, <1>2, <1>3, <1>4, <1>5, <1>8, <1>9, PushStep

\* It is stored.
LEMMA StoreFieldStep == IInv /\ StoreField => IInv'
<1> SUFFICES ASSUME IInv, StoreField
             PROVE  IInv'
  OBVIOUS
<1> DEFINE f == [Top EXCEPT !.st = "visit", !.i = @ + 1]
<1>1. /\ status = "lowering" /\ Node.k = "init" /\ Top.st = "store" /\ stack' = <<f>> \o Rest
      /\ UNCHANGED <<grammar, fun, tree, vc, place, value, self, status>>
  BY DEF StoreField, Lowering
<1>2. /\ Len(Node.sub) \in Nat /\ Top.i \in Nat /\ Node = tree[Top.n]
  BY <1>1, LastIs
<1>3. Top \in FrameType /\ FrameOK(tree, Top) /\ KindOf(tree, Top) = "init" /\ ~Owns(tree, Top)
  BY <1>1, Idle, TopFacts DEF KindOf
<1>4. Top.i \in 1..Len(Node.sub)
  BY <1>1, <1>2, <1>3 DEF FrameOK
<1>5. /\ f \in FrameType /\ f.n = Top.n /\ f.i = Top.i + 1 /\ f.vc = Top.vc /\ f.base = Top.base
      /\ f.st = "visit"
  <2>1. Top.i + 1 \in Nat
    BY <1>2
  <2>2. f \in FrameType
    BY <1>3, <2>1 DEF FrameType
  <2> QED BY <1>3, <2>2 DEF FrameType
<1> HIDE DEF f
<1>6. /\ KindOf(tree, f) = "init" /\ Current(tree, f) = Top.i /\ Current(tree, Top) = Top.i
      /\ Operand(tree, f) = Operand(tree, Top) /\ Begun(Top)
  <2>1. KindOf(tree, f) = Node.k /\ Begun(Top) /\ Current(tree, Top) = Top.i
    BY <1>1, <1>2, <1>5 DEF KindOf, Current, Begun
  <2>2. Current(tree, f) = Top.i
    <3>1. Node.k # "asnop" /\ (Top.i + 1) - 1 = Top.i
      BY <1>1, <1>2
    <3> QED BY <1>5, <2>1, <3>1 DEF Current
  <2> QED BY <1>1, <1>5, <2>1, <2>2 DEF Operand
<1>7. FrameOK(tree, f)
  <2>1. f.i \in 1..(IF Node.k = "asnop" THEN 3 ELSE Len(Node.sub)) + 1
    BY <1>1, <1>2, <1>4, <1>5
  <2>2. tree[Operand(tree, f)].k # "?"
    BY <1>3, <1>6 DEF FrameOK
  <2> QED BY <1>1, <1>2, <1>3, <1>5, <1>6, <2>1, <2>2 DEF FrameOK
<1> QED BY <1>1, <1>3, <1>5, <1>6, <1>7, StayStep

\* An initializer leaves the address of where it has been put.
LEMMA InitEndStep == IInv /\ InitEnd => IInv'
<1> SUFFICES ASSUME IInv, InitEnd
             PROVE  IInv'
  OBVIOUS
<1>1. /\ status = "lowering" /\ Node.k = "init" /\ Node.k \in Exprs /\ Node.k \notin Parts /\ ~Owns(tree, Top)
      /\ stack' = Rest /\ UNCHANGED <<grammar, fun, tree, out, vc, place, self, status>>
      /\ value' = IF Top.vc = "nested" THEN value
                  ELSE IF place = <<>> THEN Null ELSE Address(Node.ty, place)
  BY Idle DEF InitEnd, InField, Lowering, Exprs, Parts
<1>2. ValueOK(tree, value) /\ ValueOK(tree, Null)
  BY DEF IInv, Registers, ValueOK
<1>3. place # <<>> => ValueOK(tree, Address(Node.ty, place))
  <2>1. Node.ty \in Types \cup {Nil}
    BY <1>1, LastIs
  <2> QED BY <2>1, PlaceIn DEF ValueOK, Address
<1>4. ValueOK(tree, value')
  BY <1>1, <1>2, <1>3
<1> QED BY <1>1, <1>4, PopStep

-----------------------------------------------------------------------------
(* The statements.                                                         *)

\* The place of the statement itself.
LEMMA SlotPlace ==
    ASSUME IInv, status = "lowering", Node.k \in {"var", "ret"}, Top.i = 1
    PROVE  /\ Top.n = 1 /\ Len(Node.sub) = 1 /\ Last = 1 /\ Which = 1 /\ Top.st = "visit"
           /\ Node.k = "var" \/ IsInit(1) => (~Scalar(KidType(1)) => tree[Kid(1)].dest = Slot)
           /\ IsInit(1) => ~Scalar(KidType(1))
           /\ Node = tree[Top.n] /\ KindOf(tree, Top) = Node.k
<1>1. /\ NodeShape(tree, Top.n) /\ Node = tree[Top.n] /\ Top.n \in 1..Len(tree) /\ Last = Len(Node.sub)
      /\ Which = Top.i /\ RuleOf(tree, Top.n).k = Node.k /\ RuleOf(tree, Top.n).kids = Node.sub
      /\ RuleOf(tree, Top.n) \in Rules \cup Statements
  BY LastIs
<1>2. Len(Node.sub) = 1
  BY <1>1, Arity
<1>3. Top \in FrameType /\ FrameOK(tree, Top) /\ KindOf(tree, Top) = Node.k /\ IsTree(grammar, tree)
  BY TopFacts DEF KindOf, IInv, TreeOK
<1>4. Top.st = "visit"
  BY <1>3 DEF FrameOK, FrameType
<1>5. Top.n = 1
  BY <1>1 DEF NodeShape, Stmts
<1>6. 1 \in 1..Len(Node.sub)
  BY <1>2
<1>7. /\ Kid(1) = Node.kids[1] /\ Kid(1) \in 1..Len(tree) /\ tree[Kid(1)].ty = Node.sub[1]
      /\ tree[Kid(1)].dest = DestOf(tree, Top.n, 1)
  <2>1. KidShape(tree, Top.n, 1)
    BY <1>1, <1>6, KidOf
  <2> QED BY <1>1, <2>1 DEF Kid, KidShape
<1>8. IsInit(1) => ~Scalar(Node.sub[1])
  <2> SUFFICES ASSUME IsInit(1)
               PROVE  ~Scalar(Node.sub[1])
    OBVIOUS
  <2>1. NodeShape(tree, Kid(1)) /\ tree[Kid(1)].k = "init"
    BY <1>3, <1>7, NodeIn DEF IsInit
  <2> QED BY <1>7, <2>1, KindFacts DEF NodeShape
<1>9. ~Scalar(Node.sub[1]) => DestOf(tree, Top.n, 1) = <<Top.n, 0>>
  BY <1>1 DEF DestOf
<1> QED BY <1>1, <1>2, <1>3, <1>4, <1>5, <1>7, <1>8, <1>9 DEF KidType, Slot

\* A variable is where its initializer goes.
LEMMA VarInitStep == IInv /\ VarInit => IInv'
<1> SUFFICES ASSUME IInv, VarInit
             PROVE  IInv'
  OBVIOUS
<1>1. status = "lowering" /\ Node.k = "var" /\ Top.i = 1 /\ Node.k # "init"
  BY DEF VarInit, At, Lowering
<1>2. /\ Top.n = 1 /\ Last = 1 /\ Which = 1 /\ Top.st = "visit" /\ Node = tree[Top.n] /\ KindOf(tree, Top) = Node.k
      /\ ~Scalar(KidType(1)) => tree[Kid(1)].dest = Slot
      /\ IsInit(1) => ~Scalar(KidType(1))
  BY <1>1, SlotPlace
<1>3. ~Scalar(KidType(1)) => Takes(tree, Top)
  BY <1>1, <1>2 DEF Takes, KidType
<1>4. CASE Scalar(KidType(1))
  <2>1. Visit(1, "R", place)
    BY <1>2, <1>4 DEF VarInit
  <2> QED BY <1>1, <1>2, <2>1, VisitHere
<1>5. CASE ~Scalar(KidType(1)) /\ IsInit(1)
  <2>1. Visit(1, "R", Slot)
    BY <1>5 DEF VarInit
  <2> QED BY <1>1, <1>2, <1>3, <1>5, <2>1, VisitStep
<1>6. CASE ~Scalar(KidType(1)) /\ ~IsInit(1)
  <2>1. Visit(1, "L", Slot)
    BY <1>6 DEF VarInit
  <2> QED BY <1>1, <1>2, <1>3, <1>6, <2>1, VisitStep
<1> QED BY <1>4, <1>5, <1>6

\* The result of the function is where an initializer of it goes.
LEMMA RetInitStep == IInv /\ RetInit => IInv'
<1> SUFFICES ASSUME IInv, RetInit
             PROVE  IInv'
  OBVIOUS
<1>1. status = "lowering" /\ Node.k = "ret" /\ Top.i = 1 /\ Node.k # "init"
  BY DEF RetInit, At, Lowering
<1>2. /\ Top.n = 1 /\ Last = 1 /\ Which = 1 /\ Top.st = "visit" /\ Node = tree[Top.n] /\ KindOf(tree, Top) = Node.k
      /\ IsInit(1) => tree[Kid(1)].dest = Slot
  BY <1>1, SlotPlace
<1>3. CASE IsInit(1)
  <2>1. Visit(1, "R", Slot)
    BY <1>3 DEF RetInit
  <2>2. Takes(tree, Top)
    BY <1>1, <1>2, <1>3 DEF Takes, IsInit, Kid
  <2> QED BY <1>1, <1>2, <1>3, <2>1, <2>2, VisitStep
<1>4. CASE ~IsInit(1)
  <2>1. Visit(1, IF Scalar(KidType(1)) THEN "R" ELSE "L", place)
    BY <1>4 DEF RetInit
  <2>2. CASE Scalar(KidType(1))
    BY <1>1, <1>2, <2>1, <2>2, VisitHere
  <2>3. CASE ~Scalar(KidType(1))
    BY <1>1, <1>2, <2>1, <2>3, VisitHere
  <2> QED BY <2>2, <2>3
<1> QED BY <1>3, <1>4

\* What is true where a statement ends.
LEMMA EndHere ==
    ASSUME IInv, status = "lowering", Node.k \in {"var", "ret"}
    PROVE  /\ Node.k \in Stmts /\ Top.st = "visit" /\ KindOf(tree, Top) = Node.k /\ Node = tree[Top.n]
           /\ Node.k = "var" /\ Scalar(KidType(1)) => ~Owns(tree, Top)
           /\ Node.k = "ret" /\ ~IsInit(1) => ~Owns(tree, Top)
           /\ ValueOK(tree, value) /\ ValueOK(tree, Null)
<1>1. Top \in FrameType /\ FrameOK(tree, Top) /\ KindOf(tree, Top) = Node.k /\ Node = tree[Top.n]
  BY TopFacts DEF KindOf
<1>2. Top.st = "visit"
  BY <1>1 DEF FrameOK, FrameType
<1>3. ValueOK(tree, value) /\ ValueOK(tree, Null)
  BY DEF IInv, Registers, ValueOK
<1> QED BY <1>1, <1>2, <1>3 DEF Owns, Stmts, KidType, IsInit, Kid

\* A declaration takes its place back.
LEMMA VarEndStep == IInv /\ VarEnd => IInv' /\ place' = <<>>
<1> SUFFICES ASSUME IInv, VarEnd
             PROVE  IInv' /\ place' = <<>>
  OBVIOUS
<1>1. /\ status = "lowering" /\ Node.k = "var" /\ Finish /\ UNCHANGED grammar
      /\ place' = IF Scalar(KidType(1)) THEN place ELSE <<>>
      /\ value' = value \/ value' = Null
  BY DEF VarEnd, Ended, Lowering, Finish
<1>2. place' = <<>> \/ (place' = place /\ ~Owns(tree, Top))
  BY <1>1, EndHere
<1>3. Node.k \in Stmts /\ ValueOK(tree, value')
  BY <1>1, EndHere
<1> QED BY <1>1, <1>2, <1>3, FinishStep

\* So does a return.
LEMMA RetEndStep == IInv /\ RetEnd => IInv' /\ place' = <<>>
<1> SUFFICES ASSUME IInv, RetEnd
             PROVE  IInv' /\ place' = <<>>
  OBVIOUS
<1>1. /\ status = "lowering" /\ Node.k = "ret" /\ Finish /\ UNCHANGED grammar
      /\ place' = IF IsInit(1) THEN <<>> ELSE place
      /\ value' = value \/ value' = Null
  BY DEF RetEnd, Ended, Lowering, Finish
<1>2. place' = <<>> \/ (place' = place /\ ~Owns(tree, Top))
  BY <1>1, EndHere
<1>3. Node.k \in Stmts /\ ValueOK(tree, value')
  BY <1>1, EndHere
<1> QED BY <1>1, <1>2, <1>3, FinishStep

\* The other statements set no place.
LEMMA PlainEnd ==
    ASSUME IInv, status = "lowering", Node.k \in {"global", "expr", "cond", "match"}, Finish,
           UNCHANGED <<out, place, value>>
    PROVE  IInv'
<1>1. ~Owns(tree, Top) /\ Node.k \in Stmts
  BY Idle DEF Stmts
<1>2. ValueOK(tree, value') /\ UNCHANGED grammar
  BY DEF IInv, Registers, Finish
<1> QED BY <1>1, <1>2, FinishStep

\* The initializer of a global variable.
LEMMA GlobalStep == IInv /\ Global => IInv'
<1> SUFFICES ASSUME IInv, Global
             PROVE  IInv'
  OBVIOUS
<1>1. status = "lowering" /\ Node.k = "global" /\ Top.st = "visit"
  BY Idle DEF Global, Lowering
<1>2. CASE Top.i = 1 /\ Visit(1, "R", place)
  BY <1>1, <1>2, LastIs, VisitHere
<1>3. CASE Finish /\ UNCHANGED <<out, place, value>>
  BY <1>1, <1>3, PlainEnd
<1> QED BY <1>2, <1>3 DEF Global

\* An expression as a statement.
LEMMA ExprStmtStep == IInv /\ ExprStmt => IInv'
<1> SUFFICES ASSUME IInv, ExprStmt
             PROVE  IInv'
  OBVIOUS
<1>1. status = "lowering" /\ Node.k = "expr" /\ Top.st = "visit"
  BY Idle DEF ExprStmt, Lowering
<1>2. CASE Top.i = 1 /\ Visit(1, vc, place)
  BY <1>1, <1>2, LastIs, Contexts, VisitHere
<1>3. CASE Finish /\ UNCHANGED <<out, place, value>>
  BY <1>1, <1>3, PlainEnd
<1> QED BY <1>2, <1>3 DEF ExprStmt

\* A condition.
LEMMA ConditionStep == IInv /\ Condition => IInv'
<1> SUFFICES ASSUME IInv, Condition
             PROVE  IInv'
  OBVIOUS
<1>1. status = "lowering" /\ Node.k = "cond" /\ Top.st = "visit"
  BY Idle DEF Condition, Lowering
<1>2. CASE Top.i = 1 /\ Visit(1, "R", place)
  BY <1>1, <1>2, LastIs, VisitHere
<1>3. CASE Finish /\ UNCHANGED <<out, place, value>>
  BY <1>1, <1>3, PlainEnd
<1> QED BY <1>2, <1>3 DEF Condition

\* A match.
LEMMA MatchStep == IInv /\ Match => IInv'
<1> SUFFICES ASSUME IInv, Match
             PROVE  IInv'
  OBVIOUS
<1>1. status = "lowering" /\ Node.k = "match" /\ Top.st = "visit"
  BY Idle DEF Match, Lowering
<1>2. CASE Top.i = 1 /\ Visit(1, "R", place)
  BY <1>1, <1>2, LastIs, VisitHere
<1>3. CASE Top.i = 2 /\ Visit(2, vc, place)
  BY <1>1, <1>3, LastIs, Contexts, VisitHere
<1>4. CASE Top.i = 3 /\ Visit(3, vc, place)
  BY <1>1, <1>4, LastIs, Contexts, VisitHere
<1>5. CASE Top.i = 4 /\ Visit(4, vc, place)
  BY <1>1, <1>5, LastIs, Contexts, VisitHere
<1>6. CASE Finish /\ UNCHANGED <<out, place, value>>
  BY <1>1, <1>6, PlainEnd
<1> QED BY <1>2, <1>3, <1>4, <1>5, <1>6 DEF Match

-----------------------------------------------------------------------------
(* The theorems.                                                           *)

\* Every step of the generator preserves the invariant.
LEMMA NextStep == IInv /\ [Next]_vars => IInv'
<1> SUFFICES ASSUME IInv, [Next]_vars
             PROVE  IInv'
  OBVIOUS
<1>1. CASE UNCHANGED vars
  BY <1>1 DEF vars, IInv, TreeOK, StackOK, Registers, Top
<1>2. ASSUME Bounded \/ Stopped
      PROVE  IInv'
  BY <1>1, <1>2 DEF Bounded, Stopped
<1> QED
  BY <1>1, <1>2, FillStep, LiteralStep, ReferenceStep, ParenStep, UnaryStep, AddressOfStep, DereferenceStep,
     IncrementStep, AccessStep, SubscriptStep, BinaryStep, LogicStep, AssignOperandsStep, AssignEndStep,
     CompoundAssignStep, MethodBaseStep, ArgumentStep, CopyArgumentStep, CallEndStep, SyscallStep,
     InitNestedStep, InitScalarStep, StoreFieldStep, InitEndStep, VarInitStep, VarEndStep, GlobalStep,
     RetInitStep, RetEndStep, ExprStmtStep, ConditionStep, MatchStep DEF Next

\* The invariant implies type correctness.
LEMMA TypeOfIInv == IInv => TypeOK
<1> SUFFICES ASSUME IInv
             PROVE  TypeOK
  OBVIOUS
<1>1. status \in {"lowering", "done"} /\ vc \in {"L", "R"} /\ self \in BOOLEAN
  BY DEF IInv, StackOK, Registers
<1>2. /\ value.form \in {"null", "val", "addr"} /\ (value.form = "null") = (value.of = <<>>)
      /\ value.of # <<>> => value.of[1] \in 1..Len(tree)
  <2>1. CASE value = Null
    BY <2>1, NullType
  <2>2. CASE /\ value \in [form : {"val", "addr"}, ty : Types \cup {Nil}, of : Seq(Nat)]
             /\ value.of # <<>> /\ value.of[1] \in 1..Len(tree)
    BY <2>2
  <2> QED BY <2>1, <2>2 DEF IInv, Registers, ValueOK
<1>3. place # <<>> => place[1] \in 1..Len(tree)
  BY PlaceIn
<1>4. ASSUME NEW j \in 2..Len(stack)
      PROVE  stack[j - 1].n \in 1..Len(tree) /\ tree[stack[j - 1].n].up = stack[j].n
  <2>1. stack \in Seq(FrameType) /\ IsTree(grammar, tree) /\ Waits(tree, stack[j], stack[j - 1])
    BY DEF IInv, StackOK, TreeOK
  <2>2. j \in 1..Len(stack)
    BY <2>1
  <2>3. stack[j] \in FrameType /\ FrameOK(tree, stack[j])
    BY <2>1, <2>2 DEF IInv, StackOK
  <2>4. Begun(stack[j]) /\ stack[j - 1].n = Operand(tree, stack[j])
    BY <2>1 DEF Waits
  <2>5. Operand(tree, stack[j]) \in 2..Len(tree) /\ tree[Operand(tree, stack[j])].up = stack[j].n
    BY <2>1, <2>3, <2>4, FrameIn
  <2>6. Operand(tree, stack[j]) \in 1..Len(tree)
    BY <2>5
  <2> QED BY <2>4, <2>5, <2>6
<1> QED BY <1>1, <1>2, <1>3, <1>4 DEF TypeOK

\* The invariant implies that a place is taken back.
LEMMA PlaceOfIInv == IInv => PlaceTakenBack
<1> SUFFICES ASSUME IInv
             PROVE  PlaceTakenBack
  OBVIOUS
<1>1. ASSUME place # <<>>
      PROVE  \E j \in 1..Len(stack) : \E i \in {stack[j].i - 1, stack[j].i} :
                i \in DOMAIN tree[stack[j].n].kids /\ tree[tree[stack[j].n].kids[i]].dest = place
  <2>1. PICK j \in 1..Len(stack) : Owns(tree, stack[j]) /\ place = tree[Operand(tree, stack[j])].dest
    BY <1>1 DEF IInv, Registers
  <2> DEFINE f == stack[j]
             c == Current(tree, f)
  <2>2. f \in FrameType /\ FrameOK(tree, f) /\ IsTree(grammar, tree)
    BY DEF IInv, StackOK, TreeOK
  <2>3. Begun(f)
    BY <2>1, <2>2, OwnedPlace
  <2>4. NodeShape(tree, f.n) /\ c \in 1..Len(tree[f.n].sub)
    BY <2>2, <2>3, FrameIn
  <2>5. c \in DOMAIN tree[f.n].kids
    <3> DEFINE s == tree[f.n].kids
    <3>1. tree[f.n] \in NodeType /\ Len(s) = Len(tree[f.n].sub)
      BY <2>4 DEF NodeShape
    <3>2. s \in Seq(Nat)
      BY <3>1 DEF NodeType
    <3> HIDE DEF s, c
    <3>3. c \in DOMAIN s
      BY <2>4, <3>1, <3>2
    <3> QED BY <3>3 DEF s
  <2>6. c \in {f.i - 1, f.i}
    BY <2>1, <2>2 DEF Owns, Current, FrameOK, FrameType
  <2>7. tree[tree[f.n].kids[c]].dest = place
    BY <2>1 DEF Operand
  <2> HIDE DEF c
  <2> QED BY <2>5, <2>6, <2>7
<1>2. ASSUME status = "done"
      PROVE  place = <<>>
  <2>1. stack = <<>>
    BY <1>2 DEF IInv, StackOK
  <2>2. ~\E j \in 1..Len(stack) : TRUE
    BY <2>1
  <2> QED BY <1>1, <2>2
<1> QED BY <1>1, <1>2 DEF PlaceTakenBack

\* The invariant holds in every reachable state, for all grammars.
THEOREM Invariance == Spec => []IInv
BY InitInv, NextStep, PTL DEF Spec

\* Values are of nodes that have been lowered, and the visits that are under
\* way are each of an operand of the next (cgn/codegen.cpp).
THEOREM TypeCorrect == Spec => []TypeOK
BY Invariance, TypeOfIInv, PTL

\* A statement leaves m_Place as it found it; within one a place is seen only
\* while its operand is being lowered (cgn/codegen.cpp, visit(VarDecl *)).
THEOREM PlacesTakenBack == Spec => []PlaceTakenBack
BY Invariance, PlaceOfIInv, PTL

=============================================================================
