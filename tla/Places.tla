-------------------------------- MODULE Places ---------------------------------
(***************************************************************************)
(* How the code generator lowers the expressions of one statement          *)
(* (cgn/codegen.cpp, codegen_unary.cpp, codegen_binary.cpp and             *)
(* codegen_rune.cpp): the registers m_VC, m_Place, m_Value and m_Self by   *)
(* which its handlers tell each other whether a value or its address is    *)
(* wanted and where an aggregate goes.                                     *)
(*                                                                         *)
(* An assertion, of these files or of mir/builder.cpp, is a guard: a       *)
(* statement that fails one is stuck, and NoFault says that none is.        *)
(*                                                                         *)
(* The C++ call stack is `stack`, the running handler first.  A value of   *)
(* the MIR is what matters of it: whether it is an address, its type, and  *)
(* the place, or the node, that it is the address or the value of.  The    *)
(* blocks that && and || or a statement make are in module Codegen.        *)
(***************************************************************************)
EXTENDS Expressions

VARIABLES
    grammar, fun,   \* what is tried; the function: [method, aret]
    tree,           \* the statement
    out,            \* forms delivered and copies made so far, in order
    stack,          \* the visits that are under way
    vc,             \* m_VC: "L" or "R"
    place,          \* m_Place: a place, or <<>> for nullptr
    value,          \* m_Value: a value or Null
    self,           \* m_Self is set
    status          \* "lowering" or "done"

vars == <<grammar, fun, tree, out, stack, vc, place, value, self, status>>

-----------------------------------------------------------------------------
(* Values.                                                                 *)

Null           == [form |-> "null", ty |-> "", of |-> <<>>]
Address(ty, p) == [form |-> "addr", ty |-> ty, of |-> p]
Result(ty, n)  == [form |-> "val", ty |-> ty, of |-> <<n>>]

\* The types of the MIR that the builder's assertions tell apart.
IsPointer(v) == v.form = "addr" \/ v.ty \in {"ptr", "ptrS"}
IsInteger(v) == v.form = "val" /\ v.ty = "num"

-----------------------------------------------------------------------------
(* Signatures: the attributes of the arguments that a function declares.   *)

\* The argument for an aggregate result comes first, then `self` if the
\* function is a method; an aggregate parameter is passed by its address.
Arguments(r) ==
    (IF Scalar(r.ty) THEN <<>> ELSE <<"ARet">>)
    \o (IF r.k = "mcall" THEN <<"">> ELSE <<>>)
    \o [j \in 1..Cardinality({i \in 1..Len(r.sub) : r.k = "call" \/ i > 1}) |->
            IF Scalar(r.sub[IF r.k = "mcall" THEN j + 1 ELSE j]) THEN "" ELSE "AArg"]

HasARet(args) == args # <<>> /\ args[1] = "ARet"

\* define_function() takes m_Self from the slot of the first argument; the
\* argument for the result has none.
DefineSelf(f) == f.method /\ ~f.aret

-----------------------------------------------------------------------------
(* Visits.                                                                 *)

Frame(n, c, p) == [n |-> n, i |-> 1, vc |-> c, base |-> p, vals |-> <<>>, st |-> "visit"]

Top  == Head(stack)
Rest == Tail(stack)
Node == tree[Top.n]
Kid(i)    == Node.kids[i]
KidType(i) == Node.sub[i]
IsInit(i)  == tree[Kid(i)].k = "init"

\* Compound assignments come to their left side again, after the right one.
Last  == IF Node.k = "asnop" THEN 3 ELSE Len(Node.kids)
Which == IF Node.k = "asnop" /\ Top.i = 3 THEN 1 ELSE Top.i

\* The running visit, of an expression of one of these kinds, is at step i.
Lowering(kinds) == status = "lowering" /\ stack # <<>> /\ Node.k \in kinds
At(kinds, i)    == Lowering(kinds) /\ Top.i = i
Ended(kinds)    == Lowering(kinds) /\ Top.i = Len(Node.kids) + 1

\* The statement handlers and those of the operators assert that a visit left
\* a value; an initializer in a place of its own need not, nor the body of a
\* case, which is operand 3 of a match.
Missing ==
    /\ Top.i > 1 /\ value = Null
    /\ Node.k \notin {"paren", "expr"}
    /\ Node.k \in {"var", "ret", "assign"} => ~IsInit(Top.i - 1)
    /\ ~(Node.k = "match" /\ Top.i = 4)

Present == ~Missing

\* Visit operand w next with m_VC as c and m_Place as p; the value of the
\* operand before it is kept in a local variable.
Visit(w, c, p) ==
    /\ tree[Kid(w)].k # "?"
    /\ Present
    /\ vc' = c /\ place' = p
    /\ stack' = << Frame(Kid(w), c, p),
                   [Top EXCEPT !.i = @ + 1,
                               !.vals = IF Top.i = 1 THEN @ ELSE Append(@, value)] >> \o Rest
    /\ UNCHANGED <<grammar, fun, tree, out, value, self, status>>

Event(n, form, to) == [n |-> n, form |-> form, to |-> to]

\* The visit ends with v as m_Value, having written to place `to`.
Give(v, to) ==
    /\ value' = v
    /\ out' = Append(out, Event(Top.n, IF v = Null THEN "none" ELSE v.form, to))
    /\ stack' = Rest
    /\ UNCHANGED <<grammar, fun, tree, vc, self, status>>

Keep == UNCHANGED place

\* The node whose value v is.
Source(v) == v.of[1]

\* A store or a copy of m_Value to p; nothing else changes but the frame.
CopyTo(p) == out' = Append(out, Event(Source(value), "copy", p))

Fill ==
    /\ status = "lowering" /\ stack # <<>>
    /\ Node.k # "?" /\ Top.i <= Last
    /\ tree[Kid(Which)].k = "?"
    /\ \E r \in Fillers(grammar, fun, tree, Kid(Which)) : tree' = Filled(grammar, tree, Kid(Which), r)
    /\ UNCHANGED <<grammar, fun, out, stack, vc, place, value, self, status>>

-----------------------------------------------------------------------------
(* Leaves and parentheses.                                                 *)

\* Literals, sizeof, and the variants of enumerations.
Literal ==
    /\ Lowering({"lit"})
    /\ Give(Result(Node.ty, Top.n), <<>>)
    /\ Keep

\* A variable, or a field of the structure that m_Self points to.
Reference ==
    /\ Lowering({"ref", "field"})
    /\ Node.k = "field" => self
    /\ Give(IF vc = "L" THEN Address(Node.ty, <<Top.n>>) ELSE Result(Node.ty, Top.n), <<>>)
    /\ Keep

Paren ==
    /\ Lowering({"paren"})
    /\ \/ Top.i = 1 /\ Visit(1, vc, place)
       \/ Top.i = 2 /\ stack' = Rest /\ UNCHANGED <<grammar, fun, tree, out, vc, place, value, self, status>>

-----------------------------------------------------------------------------
(* Unary operators and casts.                                              *)

\* cgn_not(), cgn_logic_not(), cgn_neg() and visit(CastExpr *).
Unary ==
    /\ Lowering({"un", "cast"}) /\ Present
    /\ \/ Top.i = 1 /\ Visit(1, "R", place)
       \/ Top.i = 2 /\ IsInteger(value) /\ Give(Result(Node.ty, Top.n), <<>>) /\ Keep

AddressOf ==
    /\ Lowering({"addr"}) /\ Present
    /\ \/ Top.i = 1 /\ Visit(1, "L", place)
       \/ /\ Top.i = 2
          /\ Give([value EXCEPT !.form = "val", !.ty = Node.ty, !.of = <<Top.n>>], <<>>)
          /\ Keep

\* The pointer is the address of what it points to.
Dereference ==
    /\ Lowering({"deref"}) /\ Present
    /\ \/ Top.i = 1 /\ Visit(1, "R", place)
       \/ /\ Top.i = 2
          /\ Give(IF Top.vc = "R" THEN Result(Node.ty, Top.n)
                                       ELSE Address(Node.ty, <<Top.n>>), <<>>)
          /\ Keep

\* Increment and decrement, before and after the operand.
Increment ==
    /\ Lowering({"inc"}) /\ Present
    /\ \/ Top.i = 1 /\ Visit(1, "L", place)
       \/ /\ Top.i = 2 /\ IsPointer(value)
          /\ Give(Result(Node.ty, Top.n), value.of)
          /\ Keep

-----------------------------------------------------------------------------
(* Members and elements.                                                   *)

\* The base of a member or a method: a pointer is loaded, a structure is not.
BaseContext(ty) == IF ty \in {"ptr", "ptrS"} THEN "R" ELSE "L"

\* Faulty: the m_VC at the end of the visit decides.
PartByPresent == IF vc = "R" THEN Result(Node.ty, Top.n) ELSE Address(Node.ty, <<Top.n>>)

\* What a member or element is left as, by the m_VC at the start of the visit.
Part == IF Top.vc = "R" THEN Result(Node.ty, Top.n) ELSE Address(Node.ty, <<Top.n>>)

Access ==
    /\ Lowering({"access"}) /\ Present
    /\ \/ Top.i = 1 /\ Visit(1, BaseContext(KidType(1)), place)
       \/ Top.i = 2 /\ IsPointer(value) /\ Give(Part, <<>>) /\ Keep

Subscript ==
    /\ Lowering({"index"}) /\ Present
    /\ \/ Top.i = 1 /\ Visit(1, BaseContext(KidType(1)), place)
       \/ Top.i = 2 /\ Visit(2, "R", place)
       \/ /\ Top.i = 3 /\ IsPointer(Top.vals[1]) /\ IsInteger(value)
          /\ Give(Part, <<>>) /\ Keep

-----------------------------------------------------------------------------
(* Binary operators.                                                       *)

\* The builder asserts integers, or takes a step from a pointer.
Combine(l, r) == (IsInteger(l) \/ IsPointer(l)) /\ IsInteger(r)

\* cgn_add() and the other operators: m_VC is set before the left operand only.
Binary ==
    /\ Lowering({"bin"}) /\ Present
    /\ \/ Top.i = 1 /\ Visit(1, "R", place)
       \/ Top.i = 2 /\ Visit(2, vc, place)
       \/ /\ Top.i = 3 /\ Combine(Top.vals[1], value)
          /\ Give(Result(Node.ty, Top.n), <<>>) /\ Keep

\* cgn_logic_and() and cgn_logic_or().
Logic ==
    /\ Lowering({"logic"}) /\ Present
    /\ \/ Top.i \in {1, 2} /\ Visit(Top.i, "R", place)
       \/ Top.i = 3 /\ Give(Result(Node.ty, Top.n), <<>>) /\ Keep

\* cgn_assign(): an initializer is given the left side as its place.
AssignOperands ==
    /\ Lowering({"assign"}) /\ Top.i <= 2
    /\ IF Top.i = 1 THEN Visit(1, "L", place)
       ELSE /\ tree[Kid(2)].k # "?"
            /\ IF IsInit(2) THEN Visit(2, "R", value.of)
               ELSE Visit(2, IF Scalar(Node.ty) THEN "R" ELSE "L", place)

AssignEnd ==
    /\ Ended({"assign"}) /\ Present
    /\ IF IsInit(2) THEN Give(value, Top.vals[1].of) /\ place' = <<>>
       ELSE /\ IsPointer(Top.vals[1])
            /\ Scalar(Node.ty) \/ IsPointer(value)
            /\ Give(IF Scalar(Node.ty) THEN Result(Node.ty, Top.n) ELSE Null, Top.vals[1].of)
            /\ Keep

\* cgn_add_assign() and the others: the left side as a value, the right side
\* with m_VC as it is, and the left side again as an address.
CompoundAssign ==
    /\ Lowering({"asnop"}) /\ Present
    /\ \/ Top.i = 1 /\ Visit(1, "R", place)
       \/ Top.i = 2 /\ Visit(2, vc, place)
       \/ Top.i = 3 /\ Combine(Top.vals[1], value) /\ Visit(1, "L", place)
       \/ /\ Top.i = 4 /\ IsPointer(value)
          /\ Give(Result(Node.ty, Top.n), value.of) /\ Keep

-----------------------------------------------------------------------------
(* Calls.                                                                  *)

\* Faulty: m_Place is taken even if it is nullptr.
UncheckedResultPlace == Top.base

\* The result of a call that returns an aggregate: m_Place, if there is one.
ResultPlace == IF Top.base # <<>> THEN Top.base ELSE <<Top.n, 0>>

\* Where operand i is among the arguments of the callee.
ArgumentIndex(i) == IF HasARet(Arguments(Node)) THEN i + 1 ELSE i

ByAddress(i) ==
    /\ ArgumentIndex(i) <= Len(Arguments(Node))
    /\ Arguments(Node)[ArgumentIndex(i)] = "AArg"

MethodBase ==
    /\ At({"mcall"}, 1) /\ Top.st = "visit"
    /\ Visit(1, BaseContext(KidType(1)), place)

Argument ==
    /\ Lowering({"call", "mcall"}) /\ Top.st = "visit"
    /\ Top.i <= Len(Node.kids) /\ (Node.k = "mcall" => Top.i > 1)
    /\ LET i == Top.i IN
       IF ~ByAddress(i) THEN Visit(i, "R", place)
       ELSE /\ tree[Kid(i)].k # "?" /\ Present
            /\ vc' = "L" /\ place' = <<Top.n, i>>
            /\ stack' = << Frame(Kid(i), "L", <<Top.n, i>>), [Top EXCEPT !.st = "copy"] >> \o Rest
            /\ UNCHANGED <<grammar, fun, tree, out, value, self, status>>

\* Faulty: the argument is passed where it is.
ForgetfulCopyArgument ==
    /\ Lowering({"call", "mcall"}) /\ Top.st = "copy"
    /\ value # Null
    /\ value.of # <<Top.n, Top.i>> => IsPointer(value)
    /\ UNCHANGED out
    /\ place' = <<>>
    /\ stack' = <<[Top EXCEPT !.st = "visit", !.i = @ + 1, !.vals = Append(@, value)]>> \o Rest
    /\ UNCHANGED <<grammar, fun, tree, vc, value, self, status>>

\* The copy of an argument, unless it has been made in its slot.
CopyArgument ==
    /\ Lowering({"call", "mcall"}) /\ Top.st = "copy"
    /\ value # Null
    /\ IF value.of = <<Top.n, Top.i>> THEN UNCHANGED out
                                      ELSE IsPointer(value) /\ CopyTo(<<Top.n, Top.i>>)
    /\ place' = <<>>
    /\ stack' = <<[Top EXCEPT !.st = "visit", !.i = @ + 1, !.vals = Append(@, value)]>> \o Rest
    /\ UNCHANGED <<grammar, fun, tree, vc, value, self, status>>

CallEnd ==
    /\ Ended({"call", "mcall"}) /\ Top.st = "visit" /\ Present
    /\ IF HasARet(Arguments(Node)) THEN Give(Address(Node.ty, ResultPlace), ResultPlace)
                                   ELSE Give(Result(Node.ty, Top.n), <<>>)
    /\ Keep

Syscall ==
    /\ Lowering({"syscall"}) /\ Present
    /\ \/ Top.i \in {1, 2} /\ Visit(Top.i, "R", place)
       \/ Top.i = 3 /\ Give(Result(Node.ty, Top.n), <<>>) /\ Keep

-----------------------------------------------------------------------------
(* Initializers, of structures and arrays: cgn_aggregate_init() walks the  *)
(* nested ones itself.                                                     *)

InField == Lowering({"init"}) /\ Top.st = "visit" /\ Top.base # <<>>

\* An aggregate field is taken for an initializer.
InitNested ==
    /\ InField /\ Top.i <= Len(Node.kids) /\ ~Scalar(KidType(Top.i))
    /\ IsInit(Top.i)
    /\ stack' = << Frame(Kid(Top.i), "nested", Append(Top.base, Top.i)),
                   [Top EXCEPT !.i = @ + 1] >> \o Rest
    /\ UNCHANGED <<grammar, fun, tree, out, vc, place, value, self, status>>

\* m_VC and m_Place are what they were at the start, or what the last field left.
InitScalar ==
    /\ InField /\ Top.i <= Len(Node.kids) /\ Scalar(KidType(Top.i))
    /\ tree[Kid(Top.i)].k # "?"
    /\ stack' = <<Frame(Kid(Top.i), vc, place), [Top EXCEPT !.st = "store"]>> \o Rest
    /\ UNCHANGED <<grammar, fun, tree, out, vc, place, value, self, status>>

StoreField ==
    /\ Lowering({"init"}) /\ Top.st = "store" /\ value # Null
    /\ CopyTo(Append(Top.base, Top.i))
    /\ stack' = <<[Top EXCEPT !.st = "visit", !.i = @ + 1]>> \o Rest
    /\ UNCHANGED <<grammar, fun, tree, vc, place, value, self, status>>

InitEnd ==
    /\ InField /\ Top.i = Len(Node.kids) + 1
    /\ value' = IF Top.vc = "nested" THEN value
                ELSE IF place = <<>> THEN Null ELSE Address(Node.ty, place)
    /\ stack' = Rest
    /\ UNCHANGED <<grammar, fun, tree, out, vc, place, self, status>>

-----------------------------------------------------------------------------
(* Statements.                                                             *)

Slot == <<1, 0>>

Finish == /\ stack' = <<>> /\ status' = "done"
          /\ UNCHANGED <<grammar, fun, tree, vc, self>>

\* Faulty: the place is not taken back.
KeepingVarEnd ==
    /\ Ended({"var"}) /\ Present
    /\ UNCHANGED place
    /\ IF IsInit(1) THEN UNCHANGED <<out, value>>
       ELSE /\ Scalar(KidType(1)) \/ value.of = Slot \/ IsPointer(value)
            /\ IF value.of = Slot THEN UNCHANGED out ELSE CopyTo(Slot)
            /\ value' = IF Scalar(KidType(1)) THEN value ELSE Null
    /\ Finish

\* visit(VarDecl *): a variable is the place of its initializer, unless that
\* is a scalar.
VarInit ==
    /\ At({"var"}, 1)
    /\ tree[Kid(1)].k # "?"
    /\ IF IsInit(1) THEN Visit(1, "R", Slot)
       ELSE IF Scalar(KidType(1)) THEN Visit(1, "R", place)
       ELSE Visit(1, "L", Slot)

VarEnd ==
    /\ Ended({"var"}) /\ Present
    /\ place' = IF Scalar(KidType(1)) THEN place ELSE <<>>
    /\ IF IsInit(1) THEN UNCHANGED <<out, value>>
       ELSE /\ Scalar(KidType(1)) \/ value.of = Slot \/ IsPointer(value)
            /\ IF value.of = Slot THEN UNCHANGED out ELSE CopyTo(Slot)
            /\ value' = IF Scalar(KidType(1)) THEN value ELSE Null
    /\ Finish

\* A global variable is initialized by the constant that its initializer is.
Global ==
    /\ Lowering({"global"}) /\ Present
    /\ \/ Top.i = 1 /\ Visit(1, "R", place)
       \/ Top.i = 2 /\ Finish /\ UNCHANGED <<out, place, value>>

\* visit(RetStmt *): the result of the function is the place of an initializer
\* only; any other aggregate is copied there.
RetInit ==
    /\ At({"ret"}, 1)
    /\ tree[Kid(1)].k # "?"
    /\ IF IsInit(1) THEN Visit(1, "R", Slot)
       ELSE Visit(1, IF Scalar(KidType(1)) THEN "R" ELSE "L", place)

RetEnd ==
    /\ Ended({"ret"}) /\ Present
    /\ place' = IF IsInit(1) THEN <<>> ELSE place
    /\ IF IsInit(1) \/ Scalar(KidType(1)) THEN UNCHANGED <<out, value>>
       ELSE IsPointer(value) /\ CopyTo(Slot) /\ value' = Null
    /\ Finish

\* An expression statement leaves m_VC as the statement before it did.
ExprStmt ==
    /\ Lowering({"expr"})
    /\ \/ Top.i = 1 /\ Visit(1, vc, place)
       \/ Top.i = 2 /\ Finish /\ UNCHANGED <<out, place, value>>

\* The condition of an if or until, compared with zero or nil.
Condition ==
    /\ Lowering({"cond"}) /\ Present
    /\ \/ Top.i = 1 /\ Visit(1, "R", place)
       \/ Top.i = 2 /\ Finish /\ UNCHANGED <<out, place, value>>

\* The value of a match, a pattern, the body of its case, and the next pattern.
\* m_VC is set before the value only.
Match ==
    /\ Lowering({"match"}) /\ Present
    /\ \/ Top.i = 1 /\ Visit(1, "R", place)
       \/ Top.i = 2 /\ Visit(2, vc, place)
       \/ Top.i = 3 /\ IsInteger(Top.vals[1]) /\ IsInteger(value) /\ Visit(3, vc, place)
       \/ Top.i = 4 /\ Visit(4, vc, place)
       \/ Top.i = 5 /\ IsInteger(value) /\ Finish /\ UNCHANGED <<out, place, value>>

-----------------------------------------------------------------------------
Stopped == status # "lowering" /\ UNCHANGED vars

\* A tree that would grow beyond the bound is left.
Bounded ==
    /\ status = "lowering" /\ stack # <<>> /\ Top.i <= Last
    /\ tree[Kid(Which)].k = "?" /\ Fillers(grammar, fun, tree, Kid(Which)) = {}
    /\ UNCHANGED vars

-----------------------------------------------------------------------------
\* A statement is begun with m_VC as anything the one before left, which an
\* expression statement only does not set first, and with m_Place as nullptr,
\* which every statement leaves behind.
Init ==
    /\ grammar \in Grammars
    /\ fun \in grammar.funs
    /\ tree \in Planted(grammar, fun)
    /\ vc \in (IF tree[1].k = "expr" THEN {"L", "R"} ELSE {"R"})
    /\ out = <<>> /\ place = <<>> /\ value = Null
    /\ stack = <<Frame(1, vc, <<>>)>>
    /\ self = DefineSelf(fun)
    /\ status = "lowering"

Next ==
    \/ Fill \/ Literal \/ Reference \/ Paren \/ Unary \/ AddressOf \/ Dereference \/ Increment
    \/ Access \/ Subscript \/ Binary \/ Logic \/ AssignOperands \/ AssignEnd \/ CompoundAssign
    \/ MethodBase \/ Argument \/ CopyArgument \/ CallEnd \/ Syscall
    \/ InitNested \/ InitScalar \/ StoreField \/ InitEnd
    \/ VarInit \/ VarEnd \/ Global \/ RetInit \/ RetEnd \/ ExprStmt \/ Condition \/ Match
    \/ Bounded \/ Stopped

Spec == Init /\ [][Next]_vars

-----------------------------------------------------------------------------
(* What is true of it.                                                     *)

\* Type correctness: values refer to nodes that have been lowered, visits that
\* are under way are each of an operand of the next.
TypeOK ==
    /\ status \in {"lowering", "done"}
    /\ vc \in {"L", "R"} /\ self \in BOOLEAN
    /\ value.form \in {"null", "val", "addr"}
    /\ (value.form = "null") = (value.of = <<>>)
    /\ value.of # <<>> => value.of[1] \in 1..Len(tree)
    /\ place # <<>> => place[1] \in 1..Len(tree)
    /\ \A j \in 2..Len(stack) : stack[j - 1].n \in 1..Len(tree) /\ tree[stack[j - 1].n].up = stack[j].n

\* The guards of the actions are what the generator and the builder assert, and
\* that what is cast to an initializer is one: no handler is stopped by them.
NoFault == ENABLED Next

\* A statement leaves m_Place as it found it, which the next one relies on;
\* within a statement a place is seen only while its operand is being lowered.
PlaceTakenBack ==
    /\ status = "done" => place = <<>>
    /\ place # <<>> /\ status = "lowering" =>
           \E j \in 1..Len(stack) : \E i \in {stack[j].i - 1, stack[j].i} :
               i \in DOMAIN tree[stack[j].n].kids /\ tree[tree[stack[j].n].kids[i]].dest = place

\* What the handlers produce by way of their registers is what the program
\* asks for: the generator implements the specification of module Delivery.
Promise == INSTANCE Delivery WITH tree <- tree, out <- out
Delivers == Promise!Spec

=============================================================================
