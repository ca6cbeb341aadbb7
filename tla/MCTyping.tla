------------------------------- MODULE MCTyping -------------------------------
(* What the expressions of a run are made of: each family is about one matter. *)
EXTENDS Typing

Item(kind, t, bits) == [kind |-> kind, t |-> t, bits |-> bits]

\* One, and in the integers two more, of which one or both are negative.
Names(ts) == {Item("ref", t, 1) : t \in ts}
             \cup {Item("ref", t, b) : t \in ts \cap {"i8", "u8"}, b \in {2, 2 ^ Byte - 1}}
             \cup {Item("ref", t, b) : t \in ts \cap {"i64", "u64"}, b \in {2 ^ Byte - 1, 2 ^ Word - 2}}
Literals(ts) == {Item("lit", t, 1) : t \in ts}
Root(kinds)  == {Item(k, None, 0) : k \in kinds}

Family(leaves, uns, bins, asns, casts, parens, roots, args, max) ==
    [leaves |-> leaves, uns |-> uns, bins |-> bins, asns |-> asns, casts |-> casts, parens |-> parens,
     roots |-> roots, args |-> args, max |-> max]

Scalar == Primitives \cup Pointers
Inits  == {Item("init", t, 0) : t \in Scalar}

\* One operator, on every two types.
Operations == Family(Names(Scalar), {}, BinOps, {}, {}, FALSE, Root({"eval"}), {None}, 4)

\* An assignment, a match.
Updates == Family(Names(Scalar), {}, {}, {""} \cup (BinOps \ (Comparisons \cup {"land", "lor"})), {}, FALSE,
                  Root({"eval"}), {None}, 4)
Cases   == Family(Names(Scalar), {}, {}, {}, {}, FALSE, Root({"case"}), {None}, 4)

\* Conversions, written and put in, and unary operators.
Conversions == Family(Names(Scalar) \cup Literals({"i64", "f64", "bool", "char", "nil"}), UnOps, {}, {}, Scalar, TRUE,
                      Inits \cup Root({"infer", "cond"}), {None}, 3)

\* Conversions of conversions.
Chains == Family(Names({"i8", "u8", "i64"}), {"neg", "bnot"}, {}, {}, SInts \cup UInts, FALSE, {Item("init", t, 0) : t \in {"u8", "i64"}}, {None}, 5)

\* Operations on operations, by precedence and under casts.
Nested == Family(Names({"u8", "i64"}) \cup Literals({"i64"}), {"lnot"}, {"add", "mul", "lt", "shr", "land"}, {}, {"u8"}, FALSE,
                 Root({"eval"}) \cup {Item("init", "i64", 0)}, {None}, 6)

\* The same in parentheses.
Enclosures == Family({Item("ref", "u8", 3), Item("lit", "i64", 5)}, {"lnot"}, {"add", "lt", "land"}, {}, {"i64"}, TRUE,
                     Root({"infer", "cond"}) \cup {Item("init", "i64", 0)}, {None}, 7)

\* What the analysis does not see or has no type for: casts of casts, ~ of a
\* parenthesis.
Unseen == Family(Names({"f64", "nil"}), {"neg", "bnot"}, {"add"}, {}, {"ptr", "i64"}, TRUE, Root({"eval", "cond"}), {None}, 6)

\* A template: the names are of its parameter's type.
Templates == Family(Names({"i8", "T"}) \cup Literals({"i64"}), {"neg", "inc"}, {"add", "lt", "mul", "land", "shr"}, {""}, {"i64", "T"}, FALSE,
                    Root({"eval", "case"}) \cup {Item("init", t, 0) : t \in {"T", "i64"}}, {"i8", "u64", "bool", "f32", "ptr"}, 5)

Tried == {Operations, Updates, Cases, Conversions, Chains, Nested, Enclosures, Unseen, Templates}
=============================================================================
