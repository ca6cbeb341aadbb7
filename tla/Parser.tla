------------------------------- MODULE Parser -------------------------------
(***************************************************************************)
(* The recursive-descent parser of statements and expressions              *)
(* (parser/parser.cpp, parse_stmt.cpp, parse_expr.cpp).                    *)
(*                                                                         *)
(* The C++ call stack is `stack`, its head the running function.  A token  *)
(* is chosen when the parser first reads it, so that every text over the   *)
(* alphabet is tried as far as the parser follows it.  A function that is  *)
(* a plain sequence of "match, fatal unless, next" and calls is written as *)
(* a script, a sequence of elements; those that loop or look ahead have    *)
(* actions of their own.  A node of the tree is its tag, the position of   *)
(* its operator, the first and the last of its tokens, and its kids.       *)
(***************************************************************************)
EXTENDS Integers, Sequences, FiniteSets

CONSTANTS
    Lexicons,   \* the alphabets tried: [tokens, start, max]
    Declared    \* the variables in scope where the text starts

ASSUME LexiconsAssumption ==
    \A l \in Lexicons : l.max \in Nat \ {0} /\ l.start \in {"expr", "block"}

VARIABLES
    lexicon,    \* the alphabet of this text
    toks,       \* the tokens read so far
    cur,        \* m_Current, as a position in toks
    stack,      \* the functions that run, the innermost first
    nodes,      \* the nodes made so far
    scopes,     \* m_Scope and its parents: the variables each declares
    allow,      \* m_AllowUnresolved
    status      \* "parsing", "parsed" or "fatal"

vars == <<lexicon, toks, cur, stack, nodes, scopes, allow, status>>

-----------------------------------------------------------------------------
(* Tokens.  Names are x, y (which a text may declare), e (an enumeration   *)
(* variant or a function: declared, but no variable) and u (a named use).  *)

Keywords == {"cast", "sizeof", "nil", "syscall", "if", "else", "until",
             "match", "ret", "break", "continue", "fix", "mut", "_"}
Idents   == {"x", "y", "e", "u"} \cup Keywords
Uses     == {"u"}

Levels == << {"=", "+=", "-="}, {"||"}, {"&&"}, {"|"}, {"^"}, {"&"},
             {"==", "!="}, {"<", "<=", ">", ">="}, {"<<", ">>"},
             {"+", "-"}, {"*", "/", "%"} >>

BinPrecedence(t) ==
    IF \E p \in 1..11 : t \in Levels[p]
    THEN CHOOSE p \in 1..11 : t \in Levels[p]
    ELSE -1

PrefixOps  == {"-", "~", "!", "++", "--", "&", "*"}
PostfixOps == {"++", "--"}

-----------------------------------------------------------------------------
(* Frames, and the scripts of the functions without loops.                 *)

Frame(fn, st, lo, kids) ==
    [fn |-> fn, st |-> st, i |-> 1, lo |-> lo, at |-> 0, prec |-> 0, kids |-> kids]

Eat(S)    == [do |-> "eat",  set |-> S,  fn |-> "", skip |-> 0]
Do(fn)    == [do |-> "call", set |-> {}, fn |-> fn, skip |-> 0]
\* The next k elements are done only if the token is (is not) one of S.
Opt(S, k)    == [do |-> "opt",    set |-> S, fn |-> "", skip |-> k]
Unless(S, k) == [do |-> "unless", set |-> S, fn |-> "", skip |-> k]
\* The next k elements are done only if the function began at a use.
OfUse(k)  == [do |-> "ofuse", set |-> {"::"}, fn |-> "", skip |-> k]
\* What the function began at must be a use.
IsUse     == [do |-> "isuse", set |-> {}, fn |-> "", skip |-> 0]
\* An initializer, which a variable may lack if it is mutable and typed.
Initializer(k) == [do |-> "init", set |-> {"="}, fn |-> "", skip |-> k]

ParenScript  == << Eat({"("}), Do("expr"), Eat({")"}) >>
CastScript   == << Eat({"cast"}), Eat({"<"}), Do("type"), Eat({">"}), Do("expr") >>
SizeofScript == << Eat({"sizeof"}), Eat({"<"}), Do("type"), Eat({">"}) >>
ArrayScript  == << Eat({"["}), Do("ELEMS"), Eat({"]"}) >>
CallScript   == << Eat(Idents), Opt({"<"}, 3), Eat({"<"}), Do("TARGS"), Eat({">"}),
                   Eat({"("}), Do("ARGS"), Eat({")"}) >>
UseSpecScript == << Eat(Idents), Eat({"::"}), Do("leaf") >>
SpecScript   == << Do("type"), Eat({"::"}), Do("leaf") >>
InitScript   == << Do("type"), Eat({"{"}), Do("FIELDS"), Eat({"}"}) >>
FieldScript  == << Eat(Idents), Eat({":"}), Do("expr") >>
RuneScript   == << Eat({"$"}), Eat({"syscall"}), Eat({"<"}), Eat({"int"}), Eat({">"}),
                   Eat({"("}), Do("ARGS"), Eat({")"}) >>
IndexScript  == << Eat({"["}), Do("expr"), Eat({"]"}) >>
MemberScript == << Eat({"."}), Eat(Idents),
                   Opt({"<"}, 3), Eat({"<"}), Do("TARGS"), Eat({">"}),
                   Opt({"("}, 3), Eat({"("}), Do("ARGS"), Eat({")"}) >>

\* Faulty: a type is read without its suffixes.
BareTypeScript == << Eat(Idents), OfUse(2), Eat({"::"}), Eat(Idents),
                     Opt({"<"}, 3), Eat({"<"}), Do("TYPES"), Eat({">"}) >>
TypeScript     == << Eat(Idents), OfUse(2), Eat({"::"}), Eat(Idents),
                     Opt({"<"}, 3), Eat({"<"}), Do("TYPES"), Eat({">"}), Do("suffix") >>
TypeNameScript == << Eat(Idents), Opt({"::"}, 3), IsUse, Eat({"::"}), Eat(Idents),
                     Opt({"<"}, 3), Eat({"<"}), Do("NAMES"), Eat({">"}), Do("suffix") >>
BoundScript    == << Eat({"["}), Eat({"int"}), Eat({"]"}) >>

BreakScript   == << Eat({"break", "continue"}), Eat({";"}) >>
IfScript      == << Eat({"if"}), Do("expr"), Do("stmt"),
                    Opt({"else"}, 2), Eat({"else"}), Do("stmt") >>
MatchScript   == << Eat({"match"}), Do("expr"), Eat({"{"}), Do("cases"), Eat({"}"}) >>
CaseScript    == << Do("expr"), Eat({"->"}), Do("stmt") >>
DefaultScript == << Eat({"_"}), Eat({"->"}), Do("stmt") >>
RetScript     == << Eat({"ret"}), Unless({";"}, 1), Do("expr"), Eat({";"}) >>
UntilScript   == << Eat({"until"}), Do("expr"), Do("stmt") >>
VarScript     == << Eat({"fix", "mut"}), Eat(Idents), Opt({":"}, 2), Eat({":"}), Do("type"),
                    Initializer(2), Eat({"="}), Do("expr"), Eat({";"}), Do("declare"),
                    Opt({";"}, 1), Eat({";"}) >>

Script == [
    paren |-> ParenScript, cast |-> CastScript, sizeof |-> SizeofScript,
    array |-> ArrayScript, call |-> CallScript, usespec |-> UseSpecScript,
    spec |-> SpecScript, init |-> InitScript, field |-> FieldScript,
    rune |-> RuneScript, index |-> IndexScript, member |-> MemberScript,
    type |-> TypeScript, typename |-> TypeNameScript, bound |-> BoundScript,
    break |-> BreakScript, if |-> IfScript, match |-> MatchScript, case |-> CaseScript,
    default |-> DefaultScript, ret |-> RetScript, until |-> UntilScript, var |-> VarScript ]

\* The bracketed lists: what they hold, what closes them, how many they need.
Lists == [
    ARGS   |-> [item |-> "expr",     close |-> ")", min |-> 0],
    ELEMS  |-> [item |-> "expr",     close |-> "]", min |-> 1],
    TARGS  |-> [item |-> "type",     close |-> ">", min |-> 1],
    FIELDS |-> [item |-> "field",    close |-> "}", min |-> 1],
    TYPES  |-> [item |-> "type",     close |-> ">", min |-> 0],
    NAMES  |-> [item |-> "typename", close |-> ">", min |-> 0] ]

\* What these functions return is a string or nothing, not a node.
Nodeless == {"typename", "suffix", "bound", "NAMES", "declare"}

-----------------------------------------------------------------------------
(* The state.                                                              *)

Top      == Head(stack)
Token    == toks[cur]
Visible  == UNION {scopes[d] : d \in 1..Len(scopes)}

\* One more token, the last of which is the end of the file.
Lexed(k) == IF k >= lexicon.max THEN {"eof"} ELSE lexicon.tokens \cup {"eof"}

Init ==
    /\ lexicon \in Lexicons
    /\ \E t \in Lexed(1) : toks = <<t>>
    /\ lexicon.start = "block" => toks = <<"{">>
    /\ cur = 1
    /\ stack = IF lexicon.start = "expr"
               THEN << Frame("prefix", "start", 1, <<>>), Frame("binary", "loop", 1, <<>>),
                       Frame("unit", "wait", 1, <<>>) >>
               ELSE << Frame("block", "open", 1, <<>>), Frame("unit", "wait", 1, <<>>) >>
    /\ nodes = <<>>
    /\ scopes = <<Declared>>
    /\ allow = FALSE
    /\ status = "parsing"

\* next()
Advance ==
    /\ cur' = cur + 1
    /\ IF cur = Len(toks)
       THEN \E t \in Lexed(cur + 1) : toks' = Append(toks, t)
       ELSE UNCHANGED toks

Stay == UNCHANGED <<cur, toks>>

\* Faulty: one token too far back.
EagerRestore == cur' = Top.lo - 1 /\ UNCHANGED toks

\* restore_pos() of the position the function on top began at.
Restore == cur' = Top.lo /\ UNCHANGED toks

Node(tag, at, lo, hi, kids) ==
    [tag |-> tag, at |-> at, lo |-> lo, hi |-> hi, kids |-> kids]
New == Len(nodes) + 1
Make(tag, at, lo, hi, kids) == nodes' = Append(nodes, Node(tag, at, lo, hi, kids))

\* What a call puts on the stack, begun at position p.
Callee(fn, p) ==
    CASE fn = "expr"    -> << Frame("prefix", "start", p, <<>>), Frame("binary", "loop", p, <<>>) >>
      [] fn = "leaf"    -> << Frame("leaf", "start", p, <<>>) >>
      [] fn = "block"   -> << Frame("block", "open", p, <<>>) >>
      [] fn \in DOMAIN Lists -> << Frame(fn, "open", p, <<>>) >>
      [] OTHER          -> << Frame(fn, "start", p, <<>>) >>

Rest      == Tail(stack)
Become(f) == stack' = <<f>> \o Rest
Call(f, fn) == stack' = Callee(fn, cur) \o <<f>> \o Rest

Deliver(frames, n) == <<[Head(frames) EXCEPT !.kids = Append(@, n)]>> \o Tail(frames)
Return(n)   == stack' = Deliver(Rest, n)
ReturnNothing == stack' = Rest

Running(fn, st) == status = "parsing" /\ Top.fn = fn /\ Top.st = st
Quiet == UNCHANGED <<lexicon, scopes, allow, status>>

-----------------------------------------------------------------------------
(* Scripts.                                                                *)

Scripted == status = "parsing" /\ Top.fn \in DOMAIN Script /\ Top.st = "start"
Element  == Script[Top.fn][Top.i]
Step(k)  == [Top EXCEPT !.i = @ + k]
Ended    == Top.i > Len(Script[Top.fn])

\* Faulty: takes whatever token there is.
BlindScriptEat ==
    /\ Scripted /\ ~Ended
    /\ Element.do = "eat"
    /\ Advance
    /\ Become(Step(1))
    /\ UNCHANGED nodes /\ Quiet

ScriptEat ==
    /\ Scripted /\ ~Ended
    /\ Element.do = "eat" /\ Token \in Element.set
    /\ Advance
    /\ Become(Step(1))
    /\ UNCHANGED nodes /\ Quiet

ScriptCall ==
    /\ Scripted /\ ~Ended
    /\ Element.do = "call"
    /\ Call(Step(1), Element.fn)
    /\ Stay /\ UNCHANGED nodes /\ Quiet

\* The alternatives of a script: whether its next elements are done.
Taken(e) ==
    CASE e.do = "opt"    -> Token \in e.set
      [] e.do = "unless" -> Token \notin e.set
      [] e.do = "ofuse"  -> Token \in e.set /\ toks[Top.lo] \in Uses
      [] e.do = "init"   -> Token \in e.set
      [] e.do = "isuse"  -> TRUE
      [] OTHER           -> FALSE

ScriptChoose ==
    /\ Scripted /\ ~Ended
    /\ Element.do \in {"opt", "unless", "ofuse", "init", "isuse"}
    /\ Element.do = "isuse" => toks[Top.lo] \in Uses
    /\ Element.do = "init" /\ Token # "=" => toks[Top.lo] = "mut" /\ Top.kids # <<>>
    /\ Become(IF Taken(Element) THEN Step(1) ELSE Step(1 + Element.skip))
    /\ Stay /\ UNCHANGED nodes /\ Quiet

\* An access drops the type arguments written after the name of its member.
ScriptDone ==
    /\ Scripted /\ Ended
    /\ IF Top.fn \in Nodeless
       THEN ReturnNothing /\ UNCHANGED nodes
       ELSE LET called == toks[cur - 1] = ")"
                access == Top.fn = "member" /\ ~called
            IN  /\ Make(CASE access -> "access"
                          [] Top.fn = "member" /\ called -> "mcall"
                          [] OTHER -> Top.fn,
                        0, Top.lo, cur - 1,
                        IF access THEN <<Top.kids[1]>> ELSE Top.kids)
                /\ Return(New)
    /\ Stay /\ Quiet

-----------------------------------------------------------------------------
(* The lists.                                                              *)

InList == status = "parsing" /\ Top.fn \in DOMAIN Lists
Closes == Token = Lists[Top.fn].close

ListItem ==
    /\ InList /\ Top.st = "open" /\ ~Closes
    /\ Call([Top EXCEPT !.st = "sep"], Lists[Top.fn].item)
    /\ Stay /\ UNCHANGED nodes /\ Quiet

ListComma ==
    /\ InList /\ Top.st = "sep" /\ ~Closes /\ Token = ","
    /\ Advance
    /\ Become([Top EXCEPT !.st = "open"])
    /\ UNCHANGED nodes /\ Quiet

ListEnd ==
    /\ InList /\ Closes
    /\ Len(Top.kids) >= Lists[Top.fn].min
    /\ IF Top.fn \in Nodeless
       THEN ReturnNothing /\ UNCHANGED nodes
       ELSE Make(Top.fn, 0, Top.lo, cur - 1, Top.kids) /\ Return(New)
    /\ Stay /\ Quiet

\* The pointer and array suffixes of a type.
TypeSuffix ==
    /\ Running("suffix", "start")
    /\ \/ Token = "*" /\ Advance /\ UNCHANGED stack
       \/ Token = "[" /\ Call(Top, "bound") /\ Stay
       \/ Token \notin {"*", "["} /\ ReturnNothing /\ Stay
    /\ UNCHANGED nodes /\ Quiet

-----------------------------------------------------------------------------
(* Unary and binary expressions.                                           *)

PrefixOperator ==
    /\ Running("prefix", "start") /\ Token \in PrefixOps
    /\ Advance
    /\ stack' = <<Frame("prefix", "start", cur + 1, <<>>), [Top EXCEPT !.st = "operand"]>> \o Rest
    /\ UNCHANGED nodes /\ Quiet

PrefixDone ==
    /\ Running("prefix", "operand") /\ Top.kids # <<>>
    /\ Make("un", Top.lo, Top.lo, cur - 1, Top.kids)
    /\ Return(New)
    /\ Stay /\ Quiet

\* parse_unary_postfix() begins with parse_primary().
PrefixNone ==
    /\ Running("prefix", "start") /\ Token \notin PrefixOps
    /\ stack' = << Frame("primary", "start", cur, <<>>),
                   Frame("postfix", "loop", cur, <<>>) >> \o Rest
    /\ Stay /\ UNCHANGED nodes /\ Quiet

PostfixOperator ==
    /\ Running("postfix", "loop") /\ Token \in PostfixOps
    /\ Make("post", cur, Top.lo, cur, Top.kids)
    /\ Become([Top EXCEPT !.kids = <<New>>])
    /\ Advance /\ Quiet

\* Faulty: the base also stays where it was.
KeepingPostfixTail ==
    /\ Running("postfix", "loop") /\ Token \in {"[", "."}
    /\ stack' = << Frame(IF Token = "[" THEN "index" ELSE "member", "start", Top.lo, Top.kids),
                   Top >> \o Rest
    /\ Stay /\ UNCHANGED nodes /\ Quiet

\* A subscript, a member or a method call, of what has been read so far.
PostfixTail ==
    /\ Running("postfix", "loop") /\ Token \in {"[", "."}
    /\ stack' = << Frame(IF Token = "[" THEN "index" ELSE "member", "start", Top.lo, Top.kids),
                   [Top EXCEPT !.kids = <<>>] >> \o Rest
    /\ Stay /\ UNCHANGED nodes /\ Quiet

PostfixDone ==
    /\ Running("postfix", "loop") /\ Token \notin PostfixOps \cup {"[", "."}
    /\ Return(Top.kids[1])
    /\ Stay /\ UNCHANGED nodes /\ Quiet

\* parse_binary(): Top.kids is B, then B and rhs.
BinaryOperator ==
    /\ Running("binary", "loop") /\ Len(Top.kids) = 1
    /\ BinPrecedence(Token) >= Top.prec
    /\ Advance
    /\ stack' = << Frame("prefix", "start", cur + 1, <<>>),
                   [Top EXCEPT !.st = "rhs", !.at = cur] >> \o Rest
    /\ UNCHANGED nodes /\ Quiet

\* Faulty: the right operand is extended by operators that bind as tightly.
GreedyBinaryNested ==
    /\ Running("binary", "rhs") /\ Len(Top.kids) = 2
    /\ BinPrecedence(toks[Top.at]) <= BinPrecedence(Token)
    /\ stack' = << [Frame("binary", "loop", nodes[Top.kids[2]].lo, <<Top.kids[2]>>)
                        EXCEPT !.prec = Top.prec + 1],
                   [Top EXCEPT !.st = "nested", !.kids = <<Top.kids[1]>>] >> \o Rest
    /\ Stay /\ UNCHANGED nodes /\ Quiet

BinaryNested ==
    /\ Running("binary", "rhs") /\ Len(Top.kids) = 2
    /\ BinPrecedence(toks[Top.at]) < BinPrecedence(Token)
    /\ stack' = << [Frame("binary", "loop", nodes[Top.kids[2]].lo, <<Top.kids[2]>>)
                        EXCEPT !.prec = Top.prec + 1],
                   [Top EXCEPT !.st = "nested", !.kids = <<Top.kids[1]>>] >> \o Rest
    /\ Stay /\ UNCHANGED nodes /\ Quiet

\* The right operand is complete.
Joining ==
    /\ Running("binary", "rhs") \/ Running("binary", "nested")
    /\ Len(Top.kids) = 2
    /\ Top.st = "rhs" => BinPrecedence(toks[Top.at]) >= BinPrecedence(Token)

\* Faulty: the operands change sides.
SwappedBinaryJoin ==
    /\ Joining
    /\ Make("bin", Top.at, Top.lo, cur - 1, <<Top.kids[2], Top.kids[1]>>)
    /\ Become([Top EXCEPT !.st = "loop", !.kids = <<New>>])
    /\ Stay /\ Quiet

BinaryJoin ==
    /\ Joining
    /\ Make("bin", Top.at, Top.lo, cur - 1, Top.kids)
    /\ Become([Top EXCEPT !.st = "loop", !.kids = <<New>>])
    /\ Stay /\ Quiet

BinaryDone ==
    /\ Running("binary", "loop") /\ Len(Top.kids) = 1
    /\ BinPrecedence(Token) < Top.prec
    /\ Return(Top.kids[1])
    /\ Stay /\ UNCHANGED nodes /\ Quiet

-----------------------------------------------------------------------------
(* Primary expressions.                                                    *)

\* The functions that a primary expression may turn out to be.
Bracketed(t) ==
    CASE t = "(" -> "paren" [] t = "[" -> "array" [] t = "$" -> "rune"
      [] t = "cast" -> "cast" [] t = "sizeof" -> "sizeof" [] OTHER -> "none"

Literals == {"int", "nil"}

Literal ==
    /\ Running("primary", "start") /\ Token \in Literals
    /\ Make("lit", 0, cur, cur, <<>>)
    /\ Return(New)
    /\ Advance /\ Quiet

PrimaryBracketed ==
    /\ Running("primary", "start") /\ Bracketed(Token) # "none"
    /\ Become(Frame(Bracketed(Token), "start", cur, <<>>))
    /\ Stay /\ UNCHANGED nodes /\ Quiet

\* The names that parse_ident looks up, after the words that it knows itself.
LookedUp == Idents \ (Literals \cup {"cast", "sizeof"})

\* A name that the scope knows as a use or as a variable needs no lookahead.
Known ==
    /\ Running("primary", "start") /\ Token \in LookedUp
    /\ \/ Token \in Uses    /\ Become(Frame("usespec", "ahead", cur, <<>>))
       \/ Token \in Visible /\ Become(Frame("ref", "start", cur, <<>>))
    /\ Stay /\ UNCHANGED nodes /\ Quiet

Unknown == LookedUp \ (Uses \cup Visible)

PeekAfterName ==
    /\ Running("primary", "start") /\ Token \in Unknown
    /\ Advance
    /\ Become([Top EXCEPT !.st = "peek"])
    /\ UNCHANGED nodes /\ Quiet

NamedBy(t) ==
    CASE t = "(" -> "call" [] t = "{" -> "init" [] t = "::" -> "spec" [] OTHER -> "ref"

\* A `<` after the name: read what follows as a type, to see what comes next.
TryTypeName ==
    /\ Running("primary", "peek") /\ Token = "<"
    /\ Restore
    /\ stack' = << Frame("typename", "start", Top.lo, <<>>), [Top EXCEPT !.st = "named"] >> \o Rest
    /\ UNCHANGED nodes /\ Quiet

\* Back to the name, and read it as what the token after it says.
DecideByPeek ==
    /\ \/ Running("primary", "peek")  /\ Token # "<"
       \/ Running("primary", "named") /\ Token \in {"(", "{", "::"}
    /\ Restore
    /\ Become(Frame(NamedBy(Token), "start", Top.lo, <<>>))
    /\ UNCHANGED nodes /\ Quiet

\* parse_use_spec(): what follows the use is first read as the name of a type.
UseAhead ==
    /\ Running("usespec", "ahead")
    /\ stack' = << Frame("typename", "start", cur, <<>>), [Top EXCEPT !.st = "named"] >> \o Rest
    /\ Stay /\ UNCHANGED nodes /\ Quiet

UseDecide ==
    /\ Running("usespec", "named")
    /\ Restore
    /\ Become(Frame(IF Token = "{" THEN "init" ELSE "usespec", "start", Top.lo, <<>>))
    /\ UNCHANGED nodes /\ Quiet

Ref ==
    /\ Running("ref", "start")
    /\ Token \in Visible \cup {"e", "u"} \/ allow
    /\ Make("ref", 0, cur, cur, <<>>)
    /\ Return(New)
    /\ Advance /\ Quiet

\* What a specifier specifies; meanwhile names need not be resolved.
LeafStart ==
    /\ Running("leaf", "start") /\ Token \in Idents
    /\ allow' = TRUE
    /\ stack' = << Frame("primary", "start", cur, <<>>), [Top EXCEPT !.st = "got"] >> \o Rest
    /\ Stay /\ UNCHANGED <<lexicon, nodes, scopes, status>>

\* Faulty: the flag stays set.
StickyLeafDone ==
    /\ Running("leaf", "got") /\ Top.kids # <<>>
    /\ nodes[Top.kids[1]].tag \in {"ref", "call", "spec"}
    /\ Return(Top.kids[1])
    /\ Stay /\ UNCHANGED nodes /\ Quiet

LeafDone ==
    /\ Running("leaf", "got") /\ Top.kids # <<>>
    /\ nodes[Top.kids[1]].tag \in {"ref", "call", "spec"}
    /\ allow' = FALSE
    /\ Return(Top.kids[1])
    /\ Stay /\ UNCHANGED <<lexicon, nodes, scopes, status>>

-----------------------------------------------------------------------------
(* Statements.                                                             *)

Statement(t) ==
    CASE t = "{" -> "block" [] t \in {"break", "continue"} -> "break"
      [] t \in {"fix", "mut"} -> "var" [] t \in {"if", "match", "ret", "until"} -> t
      [] OTHER -> "expr"

StatementStart ==
    /\ Running("stmt", "start")
    /\ stack' = Callee(Statement(Token), cur) \o Rest
    /\ Stay /\ UNCHANGED nodes /\ Quiet

BlockOpen ==
    /\ Running("block", "open")
    /\ scopes' = Append(scopes, {})
    /\ Advance
    /\ Become([Top EXCEPT !.st = "loop"])
    /\ UNCHANGED <<lexicon, nodes, allow, status>>

BlockStatement ==
    /\ Running("block", "loop") /\ Token # "}"
    /\ Call([Top EXCEPT !.st = "semi"], "stmt")
    /\ Stay /\ UNCHANGED nodes /\ Quiet

\* Faulty: the semicolon is seen and not taken.
StuckBlockSemi ==
    /\ Running("block", "semi")
    /\ IF Token = ";" THEN Stay /\ UNCHANGED stack
                      ELSE Stay /\ Become([Top EXCEPT !.st = "loop"])
    /\ UNCHANGED nodes /\ Quiet

\* Any number of semicolons, also none, ends a statement.
BlockSemi ==
    /\ Running("block", "semi")
    /\ IF Token = ";" THEN Advance /\ UNCHANGED stack
                      ELSE Stay /\ Become([Top EXCEPT !.st = "loop"])
    /\ UNCHANGED nodes /\ Quiet

BlockClose ==
    /\ Running("block", "loop") /\ Token = "}"
    /\ scopes' = SubSeq(scopes, 1, Len(scopes) - 1)
    /\ Make("block", 0, Top.lo, cur, Top.kids)
    /\ Return(New)
    /\ Advance
    /\ UNCHANGED <<lexicon, allow, status>>

\* A variable is declared once its initializer has been read.
Declare ==
    /\ Running("declare", "start")
    /\ toks[stack[2].lo + 1] \notin Visible \cup {"e", "u"}
    /\ scopes' = [scopes EXCEPT ![Len(scopes)] = @ \cup {toks[stack[2].lo + 1]}]
    /\ ReturnNothing
    /\ Stay /\ UNCHANGED <<lexicon, nodes, allow, status>>

Defaults(kids) == {k \in 1..Len(kids) : nodes[kids[k]].tag = "default"}

CaseStart ==
    /\ Running("cases", "start") /\ Token # "}"
    /\ Token = "_" => Defaults(Top.kids) = {}
    /\ Call([Top EXCEPT !.st = "sep"], IF Token = "_" THEN "default" ELSE "case")
    /\ Stay /\ UNCHANGED nodes /\ Quiet

\* The comma between two cases may be left out.
CaseSep ==
    /\ Running("cases", "sep") /\ Token # "}"
    /\ Become([Top EXCEPT !.st = "start"])
    /\ IF Token = "," THEN Advance ELSE Stay
    /\ UNCHANGED nodes /\ Quiet

CasesEnd ==
    /\ Running("cases", "start") \/ Running("cases", "sep")
    /\ Token = "}"
    /\ Len(Top.kids) > Cardinality(Defaults(Top.kids))
    /\ Make("cases", 0, Top.lo, cur - 1, Top.kids)
    /\ Return(New)
    /\ Stay /\ Quiet

-----------------------------------------------------------------------------
(* The end.                                                                *)

Finish ==
    /\ Running("unit", "wait")
    /\ status' = "parsed"
    /\ Stay /\ UNCHANGED <<lexicon, stack, nodes, scopes, allow>>

\* The type of a cast or a structure is the one that is written, and where that
\* is declared further on it has no underlying type yet: getType() asserts that
\* it has, for the type of a parenthesis and of an operation.
Unqualified ==
    /\ \/ Joining
       \/ Scripted /\ Top.fn = "paren" /\ Ended
    /\ nodes[Top.kids[1]].tag \in {"cast", "init"}

\* What the running function calls fatal() for, or fails an assertion.
Rejects ==
    \/ Unqualified
    \/ /\ Scripted /\ ~Ended
       /\ \/ Element.do = "eat" /\ Token \notin Element.set
          \/ Element.do = "isuse" /\ toks[Top.lo] \notin Uses
          \/ Element.do = "init" /\ Token # "=" /\ (toks[Top.lo] = "fix" \/ Top.kids = <<>>)
    \/ InList /\ Closes /\ Len(Top.kids) < Lists[Top.fn].min
    \/ InList /\ Top.st = "sep" /\ ~Closes /\ Token # ","
    \/ /\ Running("primary", "start")
       /\ Token \notin Idents \cup Literals /\ Bracketed(Token) = "none"
    \/ Running("primary", "named") /\ Token \notin {"(", "{", "::"}
    \/ Running("ref", "start") /\ Token \notin Visible \cup {"e", "u"} /\ ~allow
    \/ Running("leaf", "start") /\ Token \notin Idents
    \/ /\ Running("leaf", "got") /\ Top.kids # <<>>
       /\ nodes[Top.kids[1]].tag \notin {"ref", "call", "spec"}
    \/ Running("declare", "start") /\ toks[stack[2].lo + 1] \in Visible \cup {"e", "u"}
    \/ Running("cases", "start") /\ Token = "_" /\ Defaults(Top.kids) # {}
    \/ /\ Running("cases", "start") \/ Running("cases", "sep")
       /\ Token = "}" /\ Len(Top.kids) = Cardinality(Defaults(Top.kids))

Reject ==
    /\ Rejects
    /\ status' = "fatal"
    /\ UNCHANGED <<lexicon, toks, cur, stack, nodes, scopes, allow>>

Stopped == status # "parsing" /\ UNCHANGED vars

Next ==
    \/ ScriptEat \/ ScriptCall \/ ScriptChoose \/ ScriptDone
    \/ ListItem \/ ListComma \/ ListEnd \/ TypeSuffix
    \/ PrefixOperator \/ PrefixDone \/ PrefixNone
    \/ PostfixOperator \/ PostfixTail \/ PostfixDone
    \/ BinaryOperator \/ BinaryNested \/ BinaryJoin \/ BinaryDone
    \/ Literal \/ PrimaryBracketed \/ Known \/ PeekAfterName
    \/ TryTypeName \/ DecideByPeek \/ UseAhead \/ UseDecide
    \/ Ref \/ LeafStart \/ LeafDone
    \/ StatementStart \/ BlockOpen \/ BlockStatement \/ BlockSemi \/ BlockClose
    \/ Declare \/ CaseStart \/ CaseSep \/ CasesEnd
    \/ Finish \/ Reject \/ Stopped

Spec == Init /\ [][Next]_vars /\ WF_vars(Next)

-----------------------------------------------------------------------------
(* What is true of the parser.                                             *)

Functions == DOMAIN Script \cup DOMAIN Lists \cup
    {"suffix", "prefix", "postfix", "binary", "primary", "ref", "leaf", "stmt",
     "block", "declare", "cases", "unit"}

\* Type correctness: every frame and node refers to positions and nodes there are.
TypeOK ==
    /\ cur \in 1..Len(toks)
    /\ \A j \in 1..Len(stack) :
           /\ stack[j].fn \in Functions
           /\ stack[j].lo \in 1..Len(toks) /\ stack[j].at \in 0..Len(toks)
           /\ \A k \in 1..Len(stack[j].kids) : stack[j].kids[k] \in 1..Len(nodes)
    /\ \A n \in 1..Len(nodes) :
           \A k \in 1..Len(nodes[n].kids) : nodes[n].kids[k] \in 1..(n - 1)
    /\ allow \in BOOLEAN /\ status \in {"parsing", "parsed", "fatal"}

IsBin(n) == nodes[n].tag = "bin"
Bins     == {n \in 1..Len(nodes) : IsBin(n)}
Left(n)  == nodes[n].kids[1]
Right(n) == nodes[n].kids[2]
Prec(n)  == BinPrecedence(toks[nodes[n].at])

Places(kids, m) == {k \in 1..Len(kids) : kids[k] = m}
Holders(m) ==
    (UNION {{<<"node", n, k>> : k \in Places(nodes[n].kids, m)} : n \in 1..Len(nodes)})
    \cup
    (UNION {{<<"frame", j, k>> : k \in Places(stack[j].kids, m)} : j \in 1..Len(stack)})

\* Nothing that was read is lost or used twice by a parser that hands results
\* from frame to frame and backtracks: every node is the kid of one node, or
\* waits in one frame.  (AccessExpr drops a list of type arguments.)
HeldOnce ==
    \A m \in 1..Len(nodes) : nodes[m].tag # "TARGS" => Cardinality(Holders(m)) = 1

\* The tree follows the text: the kids of a node lie inside it in order, and an
\* operator stands between the operands that it was given.
InTextOrder ==
    \A n \in 1..Len(nodes) :
        LET d == nodes[n] IN
        /\ \A k \in 1..Len(d.kids) :
               /\ d.lo <= nodes[d.kids[k]].lo /\ nodes[d.kids[k]].hi <= d.hi
               /\ k > 1 => nodes[d.kids[k - 1]].hi < nodes[d.kids[k]].lo
        /\ IsBin(n) => /\ d.lo = nodes[Left(n)].lo /\ nodes[Left(n)].hi = d.at - 1
                       /\ d.hi = nodes[Right(n)].hi /\ nodes[Right(n)].lo = d.at + 1

\* An operand between two binary operators goes to the one that binds tighter,
\* to the left one if they bind alike: what parse_binary decides by looking one
\* operator ahead holds in the tree, however the calls nest.
OperandToTighter ==
    \A n \in Bins :
        /\ ~IsBin(Right(n)) /\ nodes[n].hi < cur => Prec(n) >= BinPrecedence(toks[nodes[n].hi + 1])
        /\ ~IsBin(Left(n)) => \A m \in Bins : nodes[m].at = nodes[n].lo - 1 => Prec(m) < Prec(n)

\* What parse_ident and parse_use_spec learn by reading ahead with
\* parse_type_name is what the function they choose finds: it does not reject
\* the token it was chosen for.  There is one exception: a `(` after a type with
\* a suffix, as in f<T>*(x), is taken for a call, which takes no suffix.
LookaheadAgrees ==
    status = "fatal" /\ Top.fn \in {"init", "spec", "call"} /\ ~Ended =>
        \/ Element.set \notin {{"{"}, {"::"}, {"("}, Idents}
        \/ Top.fn = "call" /\ toks[cur - 1] = ">" /\ Token \in {"*", "["}

\* Scopes and m_AllowUnresolved are as deep as the functions that run: a block
\* that ends, or a specifier, leaves nothing behind for what follows it.
NothingLeft ==
    /\ Len(scopes) = 1 + Cardinality({j \in 1..Len(stack) :
                                         stack[j].fn = "block" /\ stack[j].st # "open"})
    /\ allow => \E j \in 1..Len(stack) : stack[j].fn = "leaf" /\ stack[j].st = "got"

\* The token stream is never asked for more than the end of the file.
EndKept == \A i \in 1..(cur - 1) : toks[i] # "eof"

\* A looser operator does not become the operand of a tighter one.
GroupedByPrecedence ==
    \A n \in Bins :
        /\ IsBin(Left(n))  => Prec(Left(n)) >= Prec(n)
        /\ IsBin(Right(n)) => Prec(Right(n)) >= Prec(n)

\* Every text is parsed or rejected: no loop of the parser waits for a token
\* that does not come.
Ends == <>(status # "parsing")

=============================================================================
