------------------------------- MODULE Scalars -------------------------------
(***************************************************************************)
(* The scalar types of the language and of the MIR: what the semantic      *)
(* analysis lets pass (tree/type.cpp, typeCheck() of tree/sema.cpp), what  *)
(* the code generator makes of a conversion or an operator for given types *)
(* (cgn/codegen.cpp, codegen_binary.cpp), what the builder asserts of the  *)
(* operands (mir/builder.cpp), and what the instructions compute.          *)
(*                                                                         *)
(* An integer is its bit pattern.  Widths are scaled down: Byte bits for   *)
(* the types of 8 bits, Word for those of 64; i16 and i32 are like them.   *)
(* Floats and addresses, and & | ^ of integers, are not computed: `known`  *)
(* is FALSE for what depends on them.                                      *)
(***************************************************************************)
EXTENDS Integers, Sequences, FiniteSets

CONSTANTS Byte, Word    \* the bits of i8 and of i64

ASSUME WidthsAssumption == Byte \in Nat /\ Word \in Nat /\ 1 < Byte /\ Byte < Word

-----------------------------------------------------------------------------
(* Types of the language: ptr is a pointer to i64, nil one to void, T the  *)
(* parameter of a template, None a nullptr.                                *)

None   == "none"
SInts  == {"i8", "i64"}
UInts  == {"u8", "u64"}
Floats == {"f32", "f64"}
Pointers   == {"ptr", "nil"}
Primitives == {"bool", "char"} \cup SInts \cup UInts \cup Floats
ScalarTypes == Primitives \cup Pointers \cup {"T"}

IsInt(t)     == t \in SInts \cup UInts
IsPointer(t) == t \in Pointers
IsParamDependent(t) == t = "T"

\* Faulty: a float may be written as a pointer.
AnyToPointer(a, b) ==
    \/ a \in Primitives /\ (b \in Primitives \/ IsPointer(b))
    \/ IsPointer(a) /\ (IsPointer(b) \/ IsInt(b))

\* canCastTo(): the conversions that may be written.
CanCastTo(a, b) ==
    \/ a \in Primitives /\ (b \in Primitives \/ (IsPointer(b) /\ IsInt(a)))
    \/ IsPointer(a) /\ (IsPointer(b) \/ IsInt(b))

\* canImplCastTo(): those that are put in.  nil is a void pointer.
CanImplCastTo(a, b) ==
    \/ a \in Primitives /\ b \in Primitives /\ ~(a \in Floats /\ IsInt(b))
    \/ a = "nil"

\* Faulty: an unsigned integer is let through as another.
UncheckedTypes(actual, expected, loose) ==
    IF actual = None \/ expected = None THEN "crash"
    ELSE IF actual = expected \/ {actual, expected} \subseteq UInts \cup {"T"} THEN "same"
    ELSE IF CanImplCastTo(actual, expected) THEN "cast"
    ELSE "fatal"

\* typeCheck(): "same", "cast" for true, "fatal", or "crash" for a method call
\* on a nullptr.
TypeCheck(actual, expected, loose) ==
    IF actual = None THEN "crash"
    ELSE IF IsParamDependent(actual) THEN "same"
    ELSE IF expected = None THEN "crash"
    ELSE IF IsParamDependent(expected) \/ actual = expected THEN "same"
    ELSE IF CanImplCastTo(actual, expected) THEN "cast"
    ELSE IF loose /\ \/ IsPointer(expected) /\ (IsPointer(actual) \/ IsInt(actual))
                     \/ IsPointer(actual) /\ IsInt(expected)
    THEN "same"
    ELSE "fatal"

\* CGN::type_class(): bool and char are of no class.
TypeClass(t) ==
    IF t \in SInts THEN "SInt"
    ELSE IF t \in UInts THEN "UInt"
    ELSE IF t \in Floats THEN "Float"
    ELSE IF IsPointer(t) THEN "Pointer"
    ELSE "Unknown"

-----------------------------------------------------------------------------
(* Types and values of the MIR.                                            *)

MirInts == {"i1", "i8", "i64"}

\* cgn_type(), where the parameter of the template is `arg`.
CgnType(t, arg) ==
    LET c == IF t = "T" THEN arg ELSE t
    IN  CASE c = "bool" -> "i1"
          [] c \in {"char", "i8", "u8"} -> "i8"
          [] c \in {"i64", "u64"} -> "i64"
          [] OTHER -> c

TypeSize == [i1 |-> 1, i8 |-> 1, i64 |-> 8, f32 |-> 4, f64 |-> 8, ptr |-> 8, nil |-> 8]

Bits  == [i1 |-> 1, i8 |-> Byte, i64 |-> Word]
BitRange(t) == 0 .. 2 ^ Bits[t] - 1

Value(t, bits)  == [ty |-> t, bits |-> bits, known |-> TRUE]
Unknown(t)      == [ty |-> t, bits |-> 0, known |-> FALSE]
Fitted(t, n)    == Value(t, n % 2 ^ Bits[t])
Truth(b)        == Value("i1", IF b THEN 1 ELSE 0)

Signed(v) == IF v.bits >= 2 ^ (Bits[v.ty] - 1) THEN v.bits - 2 ^ Bits[v.ty] ELSE v.bits

Quotient(a, b) == LET q == (IF a < 0 THEN -a ELSE a) \div (IF b < 0 THEN -b ELSE b)
                  IN  IF (a < 0) = (b < 0) THEN q ELSE -q
Remainder(a, b) == a - b * Quotient(a, b)

Compared(op, a, b) ==
    CASE op = "eq" -> a = b
      [] op = "ne" -> a # b
      [] op = "lt" -> a < b
      [] op = "le" -> a <= b
      [] op = "gt" -> a > b
      [] op = "ge" -> a >= b

\* An instruction on integers a and b, of which t is the type of the result.
Computed(op, t, a, b) ==
    CASE op = "add" -> Fitted(t, a + b)
      [] op = "sub" -> Fitted(t, a - b)
      [] op = "mul" -> Fitted(t, a * b)
      [] op = "div" -> IF b = 0 THEN Unknown(t) ELSE Fitted(t, Quotient(a, b))
      [] op = "mod" -> IF b = 0 THEN Unknown(t) ELSE Fitted(t, Remainder(a, b))
      [] op = "shl" -> IF b \in 0 .. Bits[t] - 1 THEN Fitted(t, a * 2 ^ b) ELSE Unknown(t)
      [] op = "shr" -> IF b \in 0 .. Bits[t] - 1 THEN Fitted(t, a \div 2 ^ b) ELSE Unknown(t)
      [] OTHER -> Unknown(t)

-----------------------------------------------------------------------------
(* What a handler comes to: the value, whether an instruction was built    *)
(* whose operands do not have the types it is for; or a fatal() of the     *)
(* generator, a failed assertion, a nullptr followed.                      *)

Gives(v, ill) == [out |-> "value", v |-> v, ill |-> ill]
Stops(how)    == [out |-> how, v |-> Unknown("i1"), ill |-> FALSE]
Builds(asserted, v, ill) == IF asserted THEN Gives(v, ill) ELSE Stops("asserted")

MirInt(v)   == v.ty \in MirInts
MirFloat(v) == v.ty \in Floats
MirPtr(v)   == IsPointer(v.ty)

\* build_add() and the other operators on integers: both are to be integers,
\* and nothing is said of their widths.
BuildInt(op, l, r, signed) ==
    LET a(v) == IF signed THEN Signed(v) ELSE v.bits
    IN  Builds(MirInt(l) /\ MirInt(r),
               IF MirInt(l) /\ MirInt(r) /\ l.known /\ r.known
               THEN Computed(op, l.ty, a(l), IF op \in {"shl", "shr"} THEN r.bits ELSE a(r))
               ELSE Unknown(l.ty),
               l.ty # r.ty)

\* build_fadd() and the others on floats.
BuildFloat(l, r) == Builds(MirFloat(l) /\ MirFloat(r), Unknown(l.ty), l.ty # r.ty)

\* build_ap() with an index.
BuildAp(l, r) == Builds(MirPtr(l) /\ MirInt(r), Unknown(l.ty), FALSE)

BuildIcmp(op, l, r, signed) ==
    LET a(v) == IF signed THEN Signed(v) ELSE v.bits
    IN  Builds(MirInt(l) /\ MirInt(r),
               IF MirInt(l) /\ MirInt(r) /\ l.known /\ r.known
               THEN Truth(Compared(op, a(l), a(r))) ELSE Unknown("i1"),
               l.ty # r.ty)

BuildFcmp(l, r) == Builds(MirFloat(l) /\ MirFloat(r), Unknown("i1"), l.ty # r.ty)
BuildPcmp(l, r) == Builds(MirPtr(l) /\ MirPtr(r), Unknown("i1"), FALSE)

\* build_not() does not ask for an integer, build_neg() and build_fneg() do.
BuildNot(v)  == Gives(IF MirInt(v) /\ v.known THEN Fitted(v.ty, -1 - v.bits) ELSE Unknown(v.ty), ~MirInt(v))
BuildNeg(v)  == Builds(MirInt(v), IF MirInt(v) /\ v.known THEN Fitted(v.ty, -v.bits) ELSE Unknown(v.ty), FALSE)
BuildFneg(v) == Builds(MirFloat(v), Unknown(v.ty), FALSE)

\* build_sext(), build_zext() and build_trunc() compare sizes in bytes.
BuildExt(v, d, signed) ==
    Builds(MirInt(v) /\ TypeSize[v.ty] <= TypeSize[d],
           IF MirInt(v) /\ v.known THEN Fitted(d, IF signed THEN Signed(v) ELSE v.bits) ELSE Unknown(d),
           ~(MirInt(v) /\ Bits[v.ty] < Bits[d]))

BuildTrunc(v, d) ==
    Builds(MirInt(v) /\ TypeSize[v.ty] >= TypeSize[d],
           IF MirInt(v) /\ v.known THEN Fitted(d, v.bits) ELSE Unknown(d),
           ~(MirInt(v) /\ Bits[v.ty] > Bits[d]))

\* The conversions that are not computed, from a value that is to be of a kind.
BuildFext(v, d)     == Builds(MirFloat(v), Unknown(d), TypeSize[v.ty] >= TypeSize[d])
BuildFtrunc(v, d)   == Builds(MirFloat(v), Unknown(d), TypeSize[v.ty] <= TypeSize[d])
BuildIntToFloat(v, d) == Builds(MirInt(v), Unknown(d), FALSE)
BuildFloatToInt(v, d) == Builds(MirFloat(v), Unknown(d), FALSE)
BuildReint(v, d)    == Builds(MirPtr(v), Unknown(d), FALSE)
BuildPtrToInt(v, d) == Builds(MirPtr(v), Unknown(d), FALSE)
BuildIntToPtr(v, d) == Builds(MirInt(v), Unknown(d), FALSE)

-----------------------------------------------------------------------------
(* Conversions, conditions and operators of the generator.                 *)

IntClasses == {"SInt", "UInt"}

\* inject_cmp(): a condition from any value.
InjectCmp(v) ==
    IF v.ty = "i1" THEN Gives(v, FALSE)
    ELSE IF MirInt(v) THEN BuildIcmp("ne", v, Value(v.ty, 0), FALSE)
    ELSE IF MirPtr(v) THEN BuildPcmp(v, v)
    ELSE BuildFcmp(v, v)

\* Faulty: a wider integer is made by the sign of the type that is wanted.
SignOfTarget(v, src, dst, arg) ==
    IF None \in {src, dst} THEN Stops("crash")
    ELSE IF TypeClass(src) \in IntClasses /\ TypeClass(dst) \in IntClasses
    THEN IF TypeSize[CgnType(src, arg)] < TypeSize[CgnType(dst, arg)]
         THEN BuildExt(v, CgnType(dst, arg), TypeClass(dst) = "SInt")
         ELSE BuildTrunc(v, CgnType(dst, arg))
    ELSE Stops("refused")

\* visit(CastExpr): v, which the tree says is a `src`, as a `dst`.
Convert(v, src, dst, arg) ==
    LET s == TypeClass(src)
        d == TypeClass(dst)
        from == CgnType(src, arg)
        to   == CgnType(dst, arg)
    IN  IF None \in {src, dst} THEN Stops("crash")
        ELSE IF from = to THEN Gives(v, FALSE)
        ELSE CASE s \in IntClasses /\ d \in IntClasses ->
                    IF TypeSize[from] = TypeSize[to] THEN Gives(v, FALSE)
                    ELSE IF TypeSize[from] > TypeSize[to] THEN BuildTrunc(v, to)
                    ELSE BuildExt(v, to, s = "SInt")
               [] s = "Float" /\ d = "Float" ->
                    IF TypeSize[from] > TypeSize[to] THEN BuildFtrunc(v, to) ELSE BuildFext(v, to)
               [] s \in IntClasses /\ d = "Float"   -> BuildIntToFloat(v, to)
               [] s = "Float" /\ d \in IntClasses   -> BuildFloatToInt(v, to)
               [] s = "Pointer" /\ d = "Pointer"    -> BuildReint(v, to)
               [] s = "Pointer" /\ d \in IntClasses -> BuildPtrToInt(v, to)
               [] s \in IntClasses /\ d = "Pointer" -> BuildIntToPtr(v, to)
               [] OTHER -> Stops("refused")

\* cgn_add() and cgn_sub() go by the values.
LowerSum(op, l, r) ==
    IF MirPtr(l) /\ MirInt(r) THEN BuildAp(l, r)
    ELSE IF MirInt(l) THEN BuildInt(op, l, r, FALSE)
    ELSE IF MirFloat(l) THEN BuildFloat(l, r)
    ELSE Stops("refused")

\* cgn_mul(), cgn_div() and cgn_mod() by the type of the left operand; cgn_shr()
\* by that of the operation.
LowerBy(class, op, l, r) ==
    CASE class \in IntClasses -> BuildInt(op, l, r, class = "SInt")
      [] class = "Float" /\ op \in {"mul", "div"} -> BuildFloat(l, r)
      [] OTHER -> Stops("refused")

\* cgn_equals() and cgn_not_equals() by the left value.
LowerEquality(op, l, r) ==
    IF MirInt(l) THEN BuildIcmp(op, l, r, FALSE)
    ELSE IF MirFloat(l) THEN BuildFcmp(l, r)
    ELSE BuildPcmp(l, r)

\* cgn_less() and the other orders by the type of the left operand if it is an
\* integer's, else by the left value.
LowerOrder(class, op, l, r) ==
    IF class \in IntClasses THEN BuildIcmp(op, l, r, class = "SInt")
    ELSE IF MirPtr(l) THEN BuildPcmp(l, r)
    ELSE IF MirFloat(l) THEN BuildFcmp(l, r)
    ELSE Stops("refused")

\* cgn_and(), cgn_or(), cgn_xor() and cgn_shl() by the left value.
LowerBits(op, l, r) == IF MirInt(l) THEN BuildInt(op, l, r, FALSE) ELSE Stops("refused")

\* cgn_logic_and() and cgn_logic_or(): the right operand is not run if the left
\* one decides.
LowerLogic(op, l, r) ==
    LET c == InjectCmp(l)
        d == InjectCmp(r)
        stop == IF op = "land" THEN 0 ELSE 1
    IN  IF c.out # "value" THEN c
        ELSE IF d.out # "value" THEN d
        ELSE Gives(IF c.v.known /\ c.v.bits = stop THEN c.v
                   ELSE IF c.v.known THEN d.v ELSE Unknown("i1"),
                   c.ill \/ d.ill)

\* visit(BinaryExpr): lt is the type of the left operand, t of the operation.
LowerBinary(op, l, r, lt, t) ==
    CASE op \in {"add", "sub"} -> LowerSum(op, l, r)
      [] op \in {"mul", "div", "mod"} -> IF lt = None THEN Stops("crash") ELSE LowerBy(TypeClass(lt), op, l, r)
      [] op = "shr" -> IF t = None THEN Stops("crash") ELSE LowerBy(TypeClass(t), op, l, r)
      [] op \in {"eq", "ne"} -> LowerEquality(op, l, r)
      [] op \in {"lt", "le", "gt", "ge"} -> IF lt = None THEN Stops("crash") ELSE LowerOrder(TypeClass(lt), op, l, r)
      [] op \in {"and", "or", "xor", "shl"} -> LowerBits(op, l, r)
      [] op \in {"land", "lor"} -> LowerLogic(op, l, r)

\* visit(UnaryExpr) where the operand is a `t`; ++x gives the new value, x-- the
\* old one.
LowerUnary(op, v, t) ==
    CASE op = "bnot" -> BuildNot(v)
      [] op = "lnot" -> LET c == InjectCmp(v)
                        IN  IF c.out = "value" /\ c.v.known THEN Gives(Truth(c.v.bits = 0), c.ill) ELSE c
      [] op = "neg" -> IF t = None THEN Stops("crash")
                       ELSE CASE TypeClass(t) \in IntClasses \cup {"Pointer"} -> BuildNeg(v)
                              [] TypeClass(t) = "Float" -> BuildFneg(v)
                              [] OTHER -> Stops("refused")
      [] op \in {"inc", "dec"} ->
            CASE TypeClass(t) \in IntClasses ->
                    LET n == BuildInt(IF op = "inc" THEN "add" ELSE "sub", v, Value(v.ty, 1), FALSE)
                    IN  IF op = "inc" \/ n.out # "value" THEN n ELSE Gives(v, n.ill)
              [] TypeClass(t) = "Float"   -> BuildFloat(v, v)
              [] TypeClass(t) = "Pointer" -> BuildAp(v, Value("i64", 1))
              [] OTHER -> Stops("crash")

\* The comparison of a `match` on a value that is a `t` with a pattern.
LowerCase(t, l, r) ==
    IF t = None THEN Stops("crash")
    ELSE CASE TypeClass(t) \in IntClasses -> BuildIcmp("eq", l, r, FALSE)
           [] TypeClass(t) = "Float"   -> BuildFcmp(l, r)
           [] TypeClass(t) = "Pointer" -> BuildPcmp(l, r)
           [] OTHER -> Stops("refused")
=============================================================================
