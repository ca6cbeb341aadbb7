------------------------------ MODULE MCParser ------------------------------
(* The alphabets of the parser's runs: each is small and about one matter.  *)
EXTENDS Parser

Text(t, s, n) == [tokens |-> t, start |-> s, max |-> n]

Operators  == Text({"x", "*", "+", "==", "||", "="}, "expr", 10)
Postfixes  == Text({"x", "e", "y", "<", "(", ")", ",", ".", "[", "]", "int", "++"}, "expr", 6)
Bracketing == Text({"x", "u", "e", "::", "(", ")", "{", "}", ":", "y"}, "expr", 7)
Words      == Text({"sizeof", "$", "syscall", "<", ">", "(", ")", "int", "!"},
                   "expr", 8)
TypeTexts  == Text({"cast", "u", "e", "::", "<", ">", "*", "[", "]", "int", ","}, "expr", 7)
Lookahead  == Text({"e", "<", ">", "*", "(", ")", "{", "::"}, "expr", 7)
Structures == Text({"(", ")", "e", "{", "x", ":", "}", "*"}, "expr", 8)
Blocks     == Text({"{", "}", "x", "y", "mut", "fix", ":", "=", ";", "int"}, "block", 8)
Controls   == Text({"{", "}", "x", "if", "else", "until", "ret", "break", ";"}, "block", 8)
Matches    == Text({"match", "x", "{", "}", "_", "->", ","}, "block", 10)

AllTexts == {Operators, Postfixes, Bracketing, Words, TypeTexts,
             Structures, Blocks, Controls, Matches, Lookahead}
JustOperators == {Operators}
Params   == {"x"}
=============================================================================
