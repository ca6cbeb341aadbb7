------------------------------ MODULE MCPlaces ------------------------------
(* The grammars of the generator's runs: each is about one matter.         *)
EXTENDS Places

Function == [method |-> FALSE, aret |-> FALSE]
Maker    == [method |-> FALSE, aret |-> TRUE]
Method   == [method |-> TRUE, aret |-> FALSE]

Grammar(roots, kinds, funs, max) ==
    [kinds |-> kinds \cup {"lit", "ref"}, roots |-> roots, careful |-> TRUE, funs |-> funs, max |-> max]

Arithmetic == Grammar({"expr", "ret"}, {"bin", "un", "logic", "inc", "access", "asnop", "assign"}, {Function}, 7)
Pointers   == Grammar({"expr", "var"}, {"addr", "deref", "index", "access", "inc", "bin", "assign"}, {Function}, 7)
Initializers == Grammar({"var", "ret"}, {"init", "call", "paren"}, {Function, Maker}, 9)
Assignments == Grammar({"expr"}, {"init", "call", "access", "assign"}, {Function}, 9)
Methods    == Grammar({"expr", "ret", "var"}, {"mcall", "access", "field", "addr"}, {Method, Maker}, 7)
Scrutinies == Grammar({"match", "cond", "global"}, {"call", "cast", "paren", "init", "logic"}, {Function}, 8)
Kernel     == Grammar({"cond", "expr"}, {"syscall", "bin", "cast", "paren"}, {Function}, 6)

Careful == {Arithmetic, Pointers, Initializers, Assignments, Methods, Scrutinies, Kernel}

AnyOperands == {[Arithmetic EXCEPT !.careful = FALSE, !.max = 5]}
=============================================================================
