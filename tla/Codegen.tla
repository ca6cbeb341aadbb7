------------------------------ MODULE Codegen ------------------------------
(***************************************************************************)
(* The control flow of the code generator (compiler/cgn): how the visitor  *)
(* CGN turns the body of one function into basic blocks.                   *)
(*                                                                         *)
(* The visitor is recursive; its C++ call stack is the variable stack,     *)
(* with the frame being executed at the head.  A "Visit" frame is a call   *)
(* of accept() that has not started, every other frame is a handler that   *)
(* waits for the accept() above it to return and holds its local blocks.   *)
(* A handler therefore is split into actions at its accept() calls and     *)
(* nowhere else.                                                           *)
(*                                                                         *)
(* The syntax tree is fixed before code generation starts.  The visitor    *)
(* enters every node of the kinds modelled here exactly once, so the model *)
(* leaves a node undecided until it is visited and chooses it then: the    *)
(* behaviours are those of all the trees of at most MaxNodes nodes that    *)
(* the parser and the semantic analysis let through.                       *)
(***************************************************************************)
EXTENDS Mir

CONSTANTS
    MaxNodes,   \* bound on the number of nodes of the tree
    MaxStmts,   \* bound on the statements of a compound, the cases of a match and
                \* the operands of an operator or call
    RetKinds,   \* the return types considered: "void", "scalar", "aggregate"
    LhsKinds    \* what may stand left of && and ||

ASSUME BoundsAssumption  == MaxNodes \in Nat \ {0} /\ MaxStmts \in Nat \ {0}
ASSUME RetKindsAssumption == RetKinds \subseteq {"void", "scalar", "aggregate"}
ASSUME LhsKindsAssumption == LhsKinds \subseteq {"leaf", "op", "and", "or"}

VARIABLES
    phase,    \* "start", "gen", "done", or "fatal" once fatal() ended the run
    ret,      \* the class of the function's return type
    ast,      \* the syntax tree, as far as it is decided
    stack,    \* the call stack of the visitor
    mir,      \* the function body built so far and the insertion point
    mValue,   \* m_Value: the node whose value the last expression left behind
    mCond,    \* m_Cond: where 'continue' goes
    mMerge    \* m_Merge: where 'break' goes

cgnVars == <<phase, ret, ast, stack, mir, mValue, mCond, mMerge>>

-----------------------------------------------------------------------------
StmtKinds == {"compound", "expr", "break", "continue", "if", "match", "ret",
              "until"}
ExprKinds == {"leaf", "op", "and", "or"}

(* What the grammar and the semantic analysis allow in each place: an      *)
(* aggregate that is returned ("value") is never an && or || itself.       *)
KindsOf(sort) == CASE sort = "stmt"  -> StmtKinds
                   [] sort = "expr"  -> ExprKinds
                   [] sort = "lhs"   -> LhsKinds
                   [] sort = "value" -> {"leaf", "op"}

Sorts == {"stmt", "expr", "lhs", "value"}

Undecided(sort) == [sort |-> sort, kind |-> "?", kids |-> <<>>]

Labels == {"Visit", "DefineEnd", "IfBranch", "IfThenEnd", "IfElseEnd",
           "MatchChains", "MatchCompare", "MatchCaseEnd", "MatchDefaultEnd",
           "RetValue", "UntilBranch", "UntilBodyEnd", "OpEnd", "LogicLhs",
           "LogicRhs"}

(* node, kids: the syntax-tree node of the handler and its children; loop: *)
(* Sema::m_Loop at the node; i: the case of a match; merge, alt, from: the *)
(* local blocks of the handler; oldCond, oldMerge: the enclosing loop as   *)
(* UntilStmt saved it.                                                     *)
Frame(at, n, kids, loop) ==
    [at |-> at, node |-> n, kids |-> kids, loop |-> loop, i |-> 0,
     merge |-> None, alt |-> None, from |-> None,
     oldCond |-> None, oldMerge |-> None]

Visit(n, loop) == Frame("Visit", n, <<>>, loop)

Top == Head(stack)

\* The handler at the top of the stack returns; the calls fs come instead.
Continue(fs) == stack' = fs \o Tail(stack)

\* The kids of the node that is being entered.
NewKids(c) == [j \in 1 .. c |-> Len(ast) + j]

\* The visitor enters the undecided node at the top and finds it to be a
\* kind with kids of the given sorts.
Enter(kind, sorts) ==
    /\ phase = "gen"
    /\ Top.at = "Visit"
    /\ kind \in KindsOf(ast[Top.node].sort)
    /\ Len(ast) + Len(sorts) <= MaxNodes
    /\ ast' = [ast EXCEPT ![Top.node].kind = kind,
                          ![Top.node].kids = NewKids(Len(sorts))]
              \o [j \in 1 .. Len(sorts) |-> Undecided(sorts[j])]

\* The frame of the handler that enters a node with c kids, up to its first
\* accept(), which is of the first of them.
Handler(at, c, loop) == Frame(at, Top.node, NewKids(c), loop)
First(loop) == Visit(Len(ast) + 1, loop)

Resume(label) == phase = "gen" /\ Top.at = label

\* accept() of the j-th kid of the handler that runs.
VisitKid(j) == Visit(Top.kids[j], Top.loop)

-----------------------------------------------------------------------------
Init ==
    /\ phase = "start"
    /\ ret \in RetKinds
    /\ ast = <<Undecided("stmt")>>
    /\ stack = <<>>
    /\ mir = EmptyBody
    /\ mValue = 0
    /\ mCond = None
    /\ mMerge = None

\* define_function up to the visit of the body: the entry block.
DefineFunction ==
    /\ phase = "start"
    /\ phase' = "gen"
    /\ mir' = SetInsert(AppendBlock(NewBlocks(mir, 1), 1), 1)
    /\ stack' = <<Visit(1, FALSE), Frame("DefineEnd", 1, <<>>, FALSE)>>
    /\ UNCHANGED <<ret, ast, mValue, mCond, mMerge>>

\* define_function after the body: an open tail block is closed in a
\* function that lowers to void and is an error in every other.
DefineEnd ==
    /\ Resume("DefineEnd")
    /\ IF HasTerminator(mir, mir.insert)
       THEN phase' = "done" /\ UNCHANGED mir
       ELSE IF ret \in {"void", "aggregate"}
            THEN phase' = "done" /\ mir' = BuildRet(mir, 0)
            ELSE phase' = "fatal" /\ UNCHANGED mir
    /\ Continue(<<>>)
    /\ UNCHANGED <<ret, ast, mValue, mCond, mMerge>>

-----------------------------------------------------------------------------
(* Statements.                                                             *)

Stmts(c) == [j \in 1 .. c |-> "stmt"]

VisitCompound ==
    \E c \in 0 .. MaxStmts :
        /\ Enter("compound", Stmts(c))
        /\ Continue([j \in 1 .. c |-> Visit(NewKids(c)[j], Top.loop)])
        /\ UNCHANGED <<phase, ret, mir, mValue, mCond, mMerge>>

VisitExprStmt ==
    /\ Enter("expr", <<"expr">>)
    /\ Continue(<<First(Top.loop)>>)
    /\ UNCHANGED <<phase, ret, mir, mValue, mCond, mMerge>>

\* Sema rejects 'break' and 'continue' unless it is inside a loop itself.
VisitBreak ==
    /\ Enter("break", <<>>)
    /\ Top.loop
    /\ mir' = BuildJmp(mir, mMerge)
    /\ Continue(<<>>)
    /\ UNCHANGED <<phase, ret, mValue, mCond, mMerge>>

VisitContinue ==
    /\ Enter("continue", <<>>)
    /\ Top.loop
    /\ mir' = BuildJmp(mir, mCond)
    /\ Continue(<<>>)
    /\ UNCHANGED <<phase, ret, mValue, mCond, mMerge>>

VisitIf ==
    \E else \in {0, 1} :
        /\ Enter("if", <<"expr">> \o Stmts(1 + else))
        /\ Continue(<<First(Top.loop),
                      Handler("IfBranch", 2 + else, Top.loop)>>)
        /\ UNCHANGED <<phase, ret, mir, mValue, mCond, mMerge>>

HasElse(kids) == Len(kids) = 3

\* IfStmt once the condition is lowered: the blocks, the branch, the then.
IfBranch ==
    LET else    == HasElse(Top.kids)
        thenBB  == Len(mir.code) + 1
        mergeBB == Len(mir.code) + 2
        elseBB  == IF else THEN Len(mir.code) + 3 ELSE None
        blocks  == AppendBlock(NewBlocks(mir, IF else THEN 3 ELSE 2), thenBB)
        falseBB == IF else THEN elseBB ELSE mergeBB
    IN /\ Resume("IfBranch")
       /\ mir' = SetInsert(BuildBrif(blocks, mValue, thenBB, falseBB), thenBB)
       /\ Continue(<<VisitKid(2), [Top EXCEPT !.at = "IfThenEnd",
                                    !.merge = mergeBB, !.alt = elseBB]>>)
       /\ UNCHANGED <<phase, ret, ast, mValue, mCond, mMerge>>

\* Faulty: judges by the last branch whether the merge block is needed.
EmitMergeByTail(m, mergeBB) ==
    IF m.succs[m.insert] = {mergeBB}
    THEN SetInsert(AppendBlock(m, mergeBB), mergeBB)
    ELSE FreeBlock(m, mergeBB)

\* Faulty: forgets to delete the unused block.
EmitMergeLeaks(m, mergeBB) ==
    IF HasPreds(m, mergeBB)
    THEN SetInsert(AppendBlock(m, mergeBB), mergeBB)
    ELSE m

\* Faulty: forgets to append the block to the function.
EmitMergeOutside(m, mergeBB) ==
    IF HasPreds(m, mergeBB) THEN SetInsert(m, mergeBB) ELSE FreeBlock(m, mergeBB)

\* The end of 'if' and 'match': a merge block that nothing branches to is
\* deleted and the insertion point stays in the last, terminated block.
EmitMerge(m, mergeBB) ==
    IF HasPreds(m, mergeBB)
    THEN SetInsert(AppendBlock(m, mergeBB), mergeBB)
    ELSE FreeBlock(m, mergeBB)

IfThenEnd ==
    LET closed == JmpIfOpen(mir, Top.merge)
    IN /\ Resume("IfThenEnd")
       /\ IF HasElse(Top.kids)
          THEN /\ mir' = SetInsert(AppendBlock(closed, Top.alt), Top.alt)
               /\ Continue(<<VisitKid(3), [Top EXCEPT !.at = "IfElseEnd"]>>)
          ELSE /\ mir' = EmitMerge(closed, Top.merge)
               /\ Continue(<<>>)
       /\ UNCHANGED <<phase, ret, ast, mValue, mCond, mMerge>>

IfElseEnd ==
    /\ Resume("IfElseEnd")
    /\ mir' = EmitMerge(JmpIfOpen(mir, Top.merge), Top.merge)
    /\ Continue(<<>>)
    /\ UNCHANGED <<phase, ret, ast, mValue, mCond, mMerge>>

-----------------------------------------------------------------------------
(* 'match': the kids are the scrutinee, then a pattern and a body for each *)
(* case, then the default body if there is one.                            *)

CaseSorts(c) == [j \in 1 .. 2 * c |-> IF j % 2 = 1 THEN "expr" ELSE "stmt"]

VisitMatch ==
    \E c \in 1 .. MaxStmts, default \in {0, 1} :
        /\ Enter("match", (<<"expr">> \o CaseSorts(c)) \o Stmts(default))
        /\ Continue(<<First(Top.loop),
                      Handler("MatchChains", 1 + 2 * c + default, Top.loop)>>)
        /\ UNCHANGED <<phase, ret, mir, mValue, mCond, mMerge>>

HasDefault(kids) == Len(kids) % 2 = 0
Cases(kids)      == (Len(kids) - 1) \div 2

\* The chain block of case i, the default block, and where a failed
\* comparison of case i goes; the blocks of a match are allocated together.
FirstChainBB(f, i) == f.alt + 1  \* Faulty: always the first chain.
ChainBB(f, i) == f.alt + i
DefBB(f)      == f.alt
NextBB(f)     == IF f.i # Cases(f.kids) THEN ChainBB(f, f.i + 1)
                 ELSE IF HasDefault(f.kids) THEN DefBB(f) ELSE f.merge

\* The part of the loop over the cases that opens chain i.
OpenChain(m, f) == SetInsert(AppendBlock(m, ChainBB(f, f.i)), ChainBB(f, f.i))

MatchChains ==
    LET c == Len(mir.code)
        d == IF HasDefault(Top.kids) THEN 2 ELSE 1
        f == [Top EXCEPT !.at = "MatchCompare", !.i = 1,
                         !.merge = c + 1, !.alt = c + d]
        blocks == NewBlocks(mir, Cases(Top.kids) + d)
    IN /\ Resume("MatchChains")
       /\ mir' = OpenChain(BuildJmp(blocks, ChainBB(f, 1)), f)
       /\ Continue(<<VisitKid(2), f>>)
       /\ UNCHANGED <<phase, ret, ast, mValue, mCond, mMerge>>

MatchCompare ==
    LET body   == Len(mir.code) + 1
        blocks == AppendBlock(NewBlocks(mir, 1), body)
    IN /\ Resume("MatchCompare")
       /\ mir' = SetInsert(BuildBrif(blocks, mValue, body, NextBB(Top)), body)
       /\ Continue(<<VisitKid(2 * Top.i + 1),
                     [Top EXCEPT !.at = "MatchCaseEnd"]>>)
       /\ UNCHANGED <<phase, ret, ast, mValue, mCond, mMerge>>

\* Values of the scrutinee's type cannot be compared: fatal().
MatchUnsupported ==
    /\ Resume("MatchCompare")
    /\ Top.i = 1
    /\ phase' = "fatal"
    /\ UNCHANGED <<ret, ast, stack, mir, mValue, mCond, mMerge>>

MatchCaseEnd ==
    LET closed == JmpIfOpen(mir, Top.merge)
        next   == [Top EXCEPT !.at = "MatchCompare", !.i = @ + 1]
    IN /\ Resume("MatchCaseEnd")
       /\ \/ /\ Top.i < Cases(Top.kids)
             /\ mir' = OpenChain(closed, next)
             /\ Continue(<<VisitKid(2 * Top.i + 2), next>>)
          \/ /\ Top.i = Cases(Top.kids)
             /\ HasDefault(Top.kids)
             /\ mir' = SetInsert(AppendBlock(closed, DefBB(Top)), DefBB(Top))
             /\ Continue(<<VisitKid(Len(Top.kids)),
                           [Top EXCEPT !.at = "MatchDefaultEnd"]>>)
          \/ /\ Top.i = Cases(Top.kids)
             /\ ~HasDefault(Top.kids)
             /\ mir' = EmitMerge(closed, Top.merge)
             /\ Continue(<<>>)
       /\ UNCHANGED <<phase, ret, ast, mValue, mCond, mMerge>>

MatchDefaultEnd ==
    /\ Resume("MatchDefaultEnd")
    /\ mir' = EmitMerge(JmpIfOpen(mir, Top.merge), Top.merge)
    /\ Continue(<<>>)
    /\ UNCHANGED <<phase, ret, ast, mValue, mCond, mMerge>>
-----------------------------------------------------------------------------
(* 'ret', 'until' and the expressions that branch.                         *)

\* Sema lets a bare 'ret' through only in a function that returns void.
VisitRetVoid ==
    /\ Enter("ret", <<>>)
    /\ ret = "void"
    /\ mir' = BuildRet(mir, Top.node)
    /\ Continue(<<>>)
    /\ UNCHANGED <<phase, ret, mValue, mCond, mMerge>>

VisitRet ==
    /\ Enter("ret", <<IF ret = "aggregate" THEN "value" ELSE "expr">>)
    /\ ret # "void"
    /\ Continue(<<First(Top.loop),
                  Handler("RetValue", 1, Top.loop)>>)
    /\ UNCHANGED <<phase, ret, mir, mValue, mCond, mMerge>>

\* A scalar is returned; an aggregate is copied through the first argument
\* and no terminator is built.
RetValue ==
    /\ Resume("RetValue")
    /\ mir' = IF ret = "scalar" THEN BuildRet(mir, Top.node)
                                ELSE Emit(mir, Copy(Top.node))
    /\ mValue' \in IF ret = "scalar" THEN {mValue} ELSE {0, mValue}
    /\ Continue(<<>>)
    /\ UNCHANGED <<phase, ret, ast, mCond, mMerge>>

VisitUntil ==
    LET condBB  == Len(mir.code) + 1
        bodyBB  == Len(mir.code) + 2
        mergeBB == Len(mir.code) + 3
        blocks  == AppendBlock(NewBlocks(mir, 3), condBB)
    IN /\ Enter("until", <<"expr", "stmt">>)
       /\ mir' = SetInsert(BuildJmp(blocks, condBB), condBB)
       /\ mCond' = condBB
       /\ mMerge' = mergeBB
       /\ Continue(<<First(TRUE),
                     [Handler("UntilBranch", 2, TRUE)
                         EXCEPT !.merge = mergeBB, !.alt = bodyBB,
                                !.from = condBB,
                                !.oldCond = mCond, !.oldMerge = mMerge]>>)
       /\ UNCHANGED <<phase, ret, mValue>>

UntilBranch ==
    LET branch == BuildBrif(mir, mValue, Top.merge, Top.alt)
    IN /\ Resume("UntilBranch")
       /\ mir' = SetInsert(AppendBlock(branch, Top.alt), Top.alt)
       /\ Continue(<<VisitKid(2), [Top EXCEPT !.at = "UntilBodyEnd"]>>)
       /\ UNCHANGED <<phase, ret, ast, mValue, mCond, mMerge>>

\* Faulty: the body repeats without the condition.
LoopBackToBody(f) == f.alt
LoopBack(f)       == f.from

\* Faulty: no loop is left where there was one around this.
ForgetLoop(f) == mCond' = None /\ mMerge' = None
LeaveLoop(f)  == mCond' = f.oldCond /\ mMerge' = f.oldMerge

\* Unlike 'if', an unused merge block of 'until' is not deleted.
UntilBodyEnd ==
    LET closed == JmpIfOpen(mir, LoopBack(Top))
    IN /\ Resume("UntilBodyEnd")
       /\ mir' = IF HasPreds(closed, Top.merge)
                 THEN SetInsert(AppendBlock(closed, Top.merge), Top.merge)
                 ELSE closed
       /\ LeaveLoop(Top)
       /\ Continue(<<>>)
       /\ UNCHANGED <<phase, ret, ast, mValue>>

\* Every expression without control flow: straight-line code and a value.
VisitLeaf ==
    /\ Enter("leaf", <<>>)
    /\ mir' = Emit(mir, Eval(Top.node))
    /\ mValue' = Top.node
    /\ Continue(<<>>)
    /\ UNCHANGED <<phase, ret, mCond, mMerge>>

\* An operator, cast or call around operands that may branch: its own code
\* follows theirs, wherever the insertion point is by then.
Operands(c) ==
    [j \in 1 .. c |-> IF ast[Top.node].sort = "lhs" THEN "lhs" ELSE "expr"]

VisitOp ==
    \E c \in 1 .. MaxStmts :
        /\ Enter("op", Operands(c))
        /\ Continue([j \in 1 .. c |-> Visit(NewKids(c)[j], Top.loop)]
                    \o <<Handler("OpEnd", c, Top.loop)>>)
        /\ UNCHANGED <<phase, ret, mir, mValue, mCond, mMerge>>

OpEnd ==
    /\ Resume("OpEnd")
    /\ mir' = Emit(mir, Eval(Top.node))
    /\ mValue' = Top.node
    /\ Continue(<<>>)
    /\ UNCHANGED <<phase, ret, ast, mCond, mMerge>>

\* cgn_logic_and and cgn_logic_or: the block that short-circuits is taken to
\* be the insertion block before the left operand is lowered.
VisitLogic ==
    \E kind \in {"and", "or"} :
        /\ Enter(kind, <<"lhs", "expr">>)
        /\ mir' = NewBlocks(mir, 2)
        /\ Continue(<<First(Top.loop),
                      [Handler("LogicLhs", 2, Top.loop)
                          EXCEPT !.from = mir.insert,
                                 !.alt = Len(mir.code) + 1,
                                 !.merge = Len(mir.code) + 2]>>)
        /\ UNCHANGED <<phase, ret, mValue, mCond, mMerge>>

\* Where the left operand of an && or || goes when it is true, and false.
SwappedTargets(f) == IF ast[f.node].kind = "or" THEN <<f.alt, f.merge>>
                                                ELSE <<f.merge, f.alt>>
LogicTargets(f)   == IF ast[f.node].kind = "and" THEN <<f.alt, f.merge>>
                                                 ELSE <<f.merge, f.alt>>

LogicLhs ==
    LET to     == LogicTargets(Top)
        branch == BuildBrif(mir, mValue, to[1], to[2])
    IN /\ Resume("LogicLhs")
       /\ mir' = SetInsert(AppendBlock(branch, Top.alt), Top.alt)
       /\ Continue(<<VisitKid(2), [Top EXCEPT !.at = "LogicRhs"]>>)
       /\ UNCHANGED <<phase, ret, ast, mValue, mCond, mMerge>>

\* Faulty: takes the block in which the right operand began.
EntryOfRhs(f) == {[blk |-> f.from, src |-> 0], [blk |-> f.alt, src |-> mValue]}

\* Faulty: the two entries of the phi exchange their values.
SwappedPairs(f) == {[blk |-> f.from, src |-> mValue],
                    [blk |-> mir.insert, src |-> 0]}

\* The incoming pairs of the phi: the constant if the left operand decided,
\* else the right operand, from the block in which its code ended.
LogicPairs(f) == {[blk |-> f.from, src |-> 0],
                  [blk |-> mir.insert, src |-> mValue]}

LogicRhs ==
    LET merged == SetInsert(AppendBlock(BuildJmp(mir, Top.merge), Top.merge),
                            Top.merge)
        short  == ast[Top.node].kind = "or"
    IN /\ Resume("LogicRhs")
       /\ mir' = Emit(merged, Phi(Top.node, short, LogicPairs(Top)))
       /\ mValue' = Top.node
       /\ Continue(<<>>)
       /\ UNCHANGED <<phase, ret, ast, mCond, mMerge>>

-----------------------------------------------------------------------------
Generate ==
    \/ DefineFunction \/ DefineEnd
    \/ VisitCompound \/ VisitExprStmt \/ VisitBreak \/ VisitContinue
    \/ VisitIf \/ IfBranch \/ IfThenEnd \/ IfElseEnd
    \/ VisitMatch \/ MatchChains \/ MatchCompare \/ MatchCaseEnd
    \/ MatchDefaultEnd \/ MatchUnsupported
    \/ VisitRetVoid \/ VisitRet \/ RetValue
    \/ VisitUntil \/ UntilBranch \/ UntilBodyEnd
    \/ VisitLeaf \/ VisitOp \/ OpEnd \/ VisitLogic \/ LogicLhs \/ LogicRhs

\* The compilation of the function is over.
Finished == phase \in {"done", "fatal"} /\ UNCHANGED cgnVars

Next == Generate \/ Finished

Spec == Init /\ [][Next]_cgnVars

\* The visitor runs until it is done: nothing can preempt it.
FairSpec == Spec /\ WF_cgnVars(Generate)

-----------------------------------------------------------------------------
(* The state is well formed: the fields of a frame are the blocks its      *)
(* handler allocated, and all of them exist.                               *)
NodeType(n) == [sort : Sorts, kind : StmtKinds \cup ExprKinds \cup {"?"},
                kids : Seq(1 .. n)]

FrameType(n, c) ==
    [at : Labels, node : 1 .. n, kids : Seq(1 .. n), loop : BOOLEAN, i : Nat,
     merge : 0 .. c, alt : 0 .. c, from : 0 .. c,
     oldCond : 0 .. c, oldMerge : 0 .. c]

\* What the handler that waits in frame f still needs.
FrameReady(f, c) ==
    /\ f.at \in {"IfBranch", "IfThenEnd"} => Len(f.kids) \in {2, 3}
    /\ f.at \in {"IfThenEnd", "IfElseEnd", "MatchCompare", "MatchCaseEnd",
                 "MatchDefaultEnd", "UntilBranch", "UntilBodyEnd",
                 "LogicLhs", "LogicRhs"} => f.merge # None
    /\ f.at = "IfThenEnd" /\ HasElse(f.kids) => f.alt # None
    /\ f.at \in {"UntilBranch", "UntilBodyEnd", "LogicLhs", "LogicRhs"} =>
         f.alt # None /\ f.from # None /\ Len(f.kids) = 2
    /\ f.at = "MatchChains" => Cases(f.kids) \in Nat \ {0}
    /\ f.at \in {"MatchCompare", "MatchCaseEnd"} =>
         /\ f.i \in 1 .. Cases(f.kids)
         /\ f.alt # None
         /\ f.alt + Cases(f.kids) <= c

TypeOK ==
    /\ phase \in {"start", "gen", "done", "fatal"}
    /\ ret \in RetKinds
    /\ ast \in Seq(NodeType(Len(ast)))
    /\ Len(ast) \in 1 .. MaxNodes
    /\ BodyOK(mir)
    /\ stack \in Seq(FrameType(Len(ast), Len(mir.code)))
    /\ \A j \in 1 .. Len(stack) : FrameReady(stack[j], Len(mir.code))
    /\ mValue \in 0 .. Len(ast)
    /\ mCond \in 0 .. Len(mir.code)
    /\ mMerge \in 0 .. Len(mir.code)
    /\ phase # "fatal" => (phase = "gen" <=> stack # <<>>)
    /\ phase # "start" => mir.insert # None

(* BasicBlock keeps its predecessors and successors next to the            *)
(* instructions; IfStmt, MatchStmt and UntilStmt decide by has_preds()     *)
(* whether a merge block exists at all.  The lists say exactly what the    *)
(* terminators say.                                                        *)
EdgesMirror == Mirror(mir)

(* Control cannot run off the end of a block: every block of the function  *)
(* but the one under construction has its terminator, and when the         *)
(* function is accepted all have.                                          *)
Sealed ==
    /\ \A i \in 1 .. Len(mir.layout) :
          mir.layout[i] # mir.insert => HasTerminator(mir, mir.layout[i])
    /\ phase = "done" => HasTerminator(mir, mir.insert)

(* No branch names a block that was deleted, or that the finished function *)
(* does not contain.                                                       *)
NoDangling ==
    \A b \in Blocks(mir) : \A c \in mir.succs[b] :
        /\ c \notin mir.freed
        /\ phase = "done" => InLayout(mir, c)

(* When the function is finished every block that was allocated is in its  *)
(* list once (appending twice would close the list to a ring), or was      *)
(* deleted and is not in it.  UntilStmt does not delete its merge block    *)
(* and need not.                                                           *)
BlocksOwned ==
    phase = "done" =>
        \A b \in Blocks(mir) :
            IF b \in mir.freed
            THEN ~InLayout(mir, b)
            ELSE \E i \in 1 .. Len(mir.layout) :
                    \A j \in 1 .. Len(mir.layout) : mir.layout[j] = b <=> j = i

IsLoop(f) == f.at \in {"UntilBranch", "UntilBodyEnd"}

\* cond and merge are those of the innermost loop below position j of the
\* stack s, or None if no loop is there.
Enclosing(s, j, cond, merge) ==
    \/ /\ \A k \in j + 1 .. Len(s) : ~IsLoop(s[k])
       /\ cond = None
       /\ merge = None
    \/ \E k \in j + 1 .. Len(s) :
          /\ IsLoop(s[k])
          /\ \A l \in j + 1 .. k - 1 : ~IsLoop(s[l])
          /\ cond = s[k].from
          /\ merge = s[k].merge

\* What Sema took for a loop body is lowered inside of a loop.
InsideLoop(s) ==
    \A j \in 1 .. Len(s) : s[j].loop => \E k \in j .. Len(s) : IsLoop(s[k])

\* Each loop saved the blocks of the loop around it.
SavedLoops(s) ==
    \A j \in 1 .. Len(s) :
        IsLoop(s[j]) => Enclosing(s, j, s[j].oldCond, s[j].oldMerge)

(* m_Cond and m_Merge are the blocks of the innermost loop being lowered,  *)
(* and what Sema lets through as being inside a loop is inside one here:   *)
(* 'break' and 'continue', accepted by one pass, find in the other pass    *)
(* the blocks of the loop they were written in.                            *)
LoopContext ==
    /\ InsideLoop(stack)
    /\ SavedLoops(stack)
    /\ Enclosing(stack, 0, mCond, mMerge)

(* add_succ and add_pred assert that no block is its own successor.        *)
NoSelfEdge == \A b \in Blocks(mir) : b \notin mir.succs[b]

(* A phi has one incoming value for each predecessor of its block.         *)
PhiCoversPreds ==
    \A b \in Blocks(mir) : \A i \in 1 .. Len(mir.code[b]) :
        mir.code[b][i].op = "phi" =>
            {p.blk : p \in mir.code[b][i].inc} = mir.preds[b]

(* Generation goes forward only: the insertion point never returns to a    *)
(* block the function already has.                                         *)
ForwardOnly ==
    [][mir'.insert # mir.insert => ~InLayout(mir, mir'.insert)]_cgnVars

=============================================================================
