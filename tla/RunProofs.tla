----------------------------- MODULE RunProofs -----------------------------
(***************************************************************************)
(* Why the generated code never gets stuck.  The machine stands in a block *)
(* of the function, before its terminator, and came there over an edge of  *)
(* the lists that the builder keeps; the invariants of code generation     *)
(* (CodegenProofs) then say that there is an instruction to execute and    *)
(* that a phi has its entry.  And why no operand is read before it is      *)
(* computed: code is generated in the order in which it is executed.       *)
(***************************************************************************)
EXTENDS CodegenRun, CodegenProofs

\* Before position i of block b there is no terminator.
OpenUpTo(m, b, i) == \A j \in 1 .. i - 1 : ~IsTerminator(m.code[b][j])

AtInv ==
    /\ mode \in {"idle", "run", "halt"}
    /\ mode = "idle" => idx = 1
    /\ mode = "run" =>
          /\ phase = "done"
          /\ InLayout(mir, at)
          /\ idx \in Nat \ {0}
          /\ OpenUpTo(mir, at, idx)
          /\ at = mir.layout[1] \/ came \in mir.preds[at]

RInv == BInv /\ AtInv

-----------------------------------------------------------------------------
\* In a finished function there is an instruction to execute.
LEMMA AtFetches ==
    ASSUME BInv, AtInv, mode = "run"
    PROVE  /\ Fetches /\ at \in Blocks(mir) /\ WellFormed(mir)
           /\ mir.code[at] \in Seq(Inst) /\ idx \in 1 .. Len(mir.code[at])
<1>1. /\ phase = "done" /\ InLayout(mir, at) /\ idx \in Nat \ {0}
      /\ OpenUpTo(mir, at, idx)
  BY DEF AtInv
<1>2. WellFormed(mir)
  BY DEF BInv, IInv, TypeOK, EdgesMirror, WellFormed
<1>3. PICK i \in 1 .. Len(mir.layout) : mir.layout[i] = at
  BY <1>1 DEF InLayout
<1>4. at \in Blocks(mir)
  BY <1>2, <1>3 DEF WellFormed, BodyOK
<1>5. mir.code[at] \in Seq(Inst)
  BY <1>2, <1>4, BodyFields
<1>6. HasTerminator(mir, at)
  <2>1. SealedBody(mir) /\ HasTerminator(mir, mir.insert)
    BY <1>1 DEF BInv, Built
  <2> QED
    BY <1>3, <2>1 DEF SealedBody
<1>7. PICK j \in 1 .. Len(mir.code[at]) : IsTerminator(mir.code[at][j])
  BY <1>6 DEF HasTerminator
<1>8. ~(j \in 1 .. idx - 1)
  BY <1>1, <1>7 DEF OpenUpTo
<1>9. idx <= Len(mir.code[at])
  BY <1>1, <1>5, <1>7, <1>8
<1> QED
  BY <1>1, <1>2, <1>4, <1>5, <1>9 DEF Fetches

\* A branch leads to a block of the function, which lists it.
LEMMA BranchLands ==
    ASSUME BInv, AtInv, mode = "run", NEW b,
           \/ Instr.op = "jmp" /\ b = Instr.t
           \/ Instr.op = "brif" /\ b \in {Instr.t, Instr.f}
    PROVE  InLayout(mir, b) /\ at \in mir.preds[b]
<1>1. /\ at \in Blocks(mir) /\ WellFormed(mir) /\ phase = "done"
      /\ mir.code[at] \in Seq(Inst) /\ idx \in 1 .. Len(mir.code[at])
  BY AtFetches DEF AtInv
<1>2. Instr \in Inst
  BY <1>1 DEF Instr
<1>3. b \in Targets(Instr)
  BY <1>2 DEF Inst, Targets
<1>4. b \in mir.succs[at]
  <2>1. b \in Branches(mir.code[at])
    BY <1>1, <1>3 DEF Branches, Instr
  <2> QED
    BY <1>1, <2>1 DEF WellFormed, Mirror
<1>5. b \in Blocks(mir)
  BY <1>1, <1>4 DEF WellFormed, BodyOK
<1>6. at \in mir.preds[b]
  BY <1>1, <1>4, <1>5 DEF WellFormed, Mirror
<1>7. Owned(stack, mir) /\ stack = <<>>
  <2>1. Built(stack, mir, ast)
    BY <1>1 DEF BInv
  <2>2. stack = <<>>
    BY <1>1 DEF BInv, IInv, TypeOK
  <2> QED
    BY <2>1, <2>2 DEF Built
<1>8. InLayout(mir, b)
  <2>1. ~PendingIn(stack, b)
    BY <1>7 DEF PendingIn
  <2>2. b \notin mir.freed
    BY <1>6, <1>7 DEF Owned
  <2> QED
    BY <1>5, <1>7, <2>1, <2>2 DEF Owned
<1> QED
  BY <1>6, <1>8

-----------------------------------------------------------------------------
\* While code is generated nothing is executed.
LEMMA GenerateFirst ==
    ASSUME Generate PROVE phase \in {"start", "gen"}
BY DEF Generate, DefineFunction, DefineEnd, VisitCompound, VisitExprStmt,
       VisitBreak, VisitContinue, VisitIf, IfBranch, IfThenEnd, IfElseEnd,
       VisitMatch, MatchChains, MatchCompare, MatchCaseEnd, MatchDefaultEnd,
       MatchUnsupported,
       VisitRetVoid, VisitRet, RetValue, VisitUntil, UntilBranch, UntilBodyEnd,
       VisitLeaf, VisitOp, OpEnd, VisitLogic, LogicLhs, LogicRhs, Resume, Enter

\* Every step of the machine leaves it where there is something to execute.
LEMMA ExecuteKeeps ==
    ASSUME BInv, AtInv, Execute, UNCHANGED cgnVars PROVE AtInv'
<1>0. mir' = mir /\ phase' = phase
  BY DEF cgnVars
<1>1. CASE Call
  <2>1. /\ phase = "done" /\ mode' = "run" /\ idx' = 1 /\ at' = Head(mir.layout)
    BY <1>1 DEF Call, AtInv
  <2>2. Built(stack, mir, ast) /\ WellFormed(mir)
    BY <2>1 DEF BInv, IInv, TypeOK, EdgesMirror, WellFormed
  <2>3. InLayout(mir, mir.insert) /\ mir.layout \in Seq(Nat)
    BY <2>2, BodyFields DEF Built
  <2>4. 1 \in 1 .. Len(mir.layout) /\ at' = mir.layout[1]
    BY <2>1, <2>3 DEF InLayout
  <2> QED
    BY <1>0, <2>1, <2>4 DEF AtInv, InLayout, OpenUpTo
<1>2. CASE SourceStep
  BY <1>0, <1>2 DEF SourceStep, AtInv
<1>3. CASE StepJmp
  <2>1. /\ mode = "run" /\ mode' = mode /\ Instr.op = "jmp" /\ at' = Instr.t
        /\ idx' = 1 /\ came' = at
    BY <1>3 DEF StepJmp, Running, Transfer
  <2>2. InLayout(mir, at') /\ at \in mir.preds[at']
    BY <2>1, BranchLands
  <2> QED
    BY <1>0, <2>1, <2>2 DEF AtInv, OpenUpTo
<1>4. CASE StepBrif
  <2>1. /\ mode = "run" /\ mode' = mode /\ Instr.op = "brif"
        /\ at' \in {Instr.t, Instr.f} /\ idx' = 1 /\ came' = at
    BY <1>4 DEF StepBrif, Running, Transfer
  <2>2. InLayout(mir, at') /\ at \in mir.preds[at']
    BY <2>1, BranchLands
  <2> QED
    BY <1>0, <2>1, <2>2 DEF AtInv, OpenUpTo
<1>5. ASSUME mode = "run", Instr.op \in {"phi", "eval", "copy"},
             idx' = idx + 1, mode' = mode, at' = at, came' = came
      PROVE  AtInv'
  <2>1. idx \in Nat \ {0} /\ OpenUpTo(mir, at, idx) /\ ~IsTerminator(Instr)
    BY <1>5 DEF AtInv, IsTerminator, Terminators
  <2>2. OpenUpTo(mir, at, idx + 1)
    <3> SUFFICES ASSUME NEW j \in 1 .. idx PROVE ~IsTerminator(mir.code[at][j])
      BY <2>1 DEF OpenUpTo
    <3>1. CASE j = idx
      BY <2>1, <3>1 DEF Instr
    <3>2. CASE j # idx
      BY <2>1, <3>2 DEF OpenUpTo
    <3> QED
      BY <3>1, <3>2
  <2> QED
    BY <1>0, <1>5, <2>1, <2>2 DEF AtInv
<1>6. CASE StepPhi
  <2>1. /\ mode = "run" /\ Instr.op = "phi" /\ idx' = idx + 1
        /\ mode' = mode /\ at' = at /\ came' = came
    BY <1>6 DEF StepPhi, Running
  <2> QED
    BY <1>5, <2>1
<1>7. CASE Perform
  <2>1. /\ mode = "run" /\ at' = at /\ came' = came
        /\ \/ /\ Instr.op \in {"eval", "copy"} /\ idx' = idx + 1 /\ mode' = mode
           \/ mode' = "halt"
    BY <1>7 DEF Perform, Running
  <2>2. CASE mode' = "halt"
    BY <2>2 DEF AtInv
  <2>3. CASE mode' # "halt"
    BY <1>5, <2>1, <2>3
  <2> QED
    BY <2>2, <2>3
<1> QED
  BY <1>1, <1>2, <1>3, <1>4, <1>6, <1>7 DEF Execute

\* The machine stays in the function that code generation left it.
LEMMA RunSteps ==
    ASSUME BInv, AtInv, [RunNext]_<<cgnVars, runVars>> PROVE AtInv'
<1>1. CASE Generate /\ UNCHANGED runVars
  <2>1. mode # "run"
    BY <1>1, GenerateFirst DEF AtInv
  <2> QED
    BY <1>1, <2>1 DEF AtInv, runVars
<1>2. CASE Execute /\ UNCHANGED cgnVars
  BY <1>2, ExecuteKeeps
<1>3. CASE UNCHANGED <<cgnVars, runVars>>
  BY <1>3 DEF AtInv, cgnVars, runVars
<1> QED
  BY <1>1, <1>2, <1>3 DEF RunNext, Ended

-----------------------------------------------------------------------------
\* To execute a function does not change it: whatever runs, its body was
\* built by a behaviour of the code generator.
THEOREM RunGenerates == RunSpec => Spec
<1>1. RunInit => Init
  BY DEF RunInit
<1>2. [RunNext]_<<cgnVars, runVars>> => [Next]_cgnVars
  BY DEF RunNext, Next, Ended
<1> QED
  BY <1>1, <1>2, PTL DEF RunSpec, Spec

\* The program counter stays in the function, over the edges it lists, and
\* before the end of the block.
LEMMA ControlTracked == RunSpec => []AtInv
<1>1. RunInit => AtInv
  BY DEF RunInit, AtInv
<1>2. BInv /\ AtInv /\ [RunNext]_<<cgnVars, runVars>> => AtInv'
  BY RunSteps
<1> QED
  BY <1>1, <1>2, RunGenerates, BlocksTracked, PTL DEF RunSpec

\* Whatever the program, the machine never leaves the blocks of the function
\* and never runs past the end of one.
THEOREM ControlStays == RunSpec => [](Running => Fetches)
<1>1. BInv /\ AtInv => (Running => Fetches)
  BY AtFetches DEF Running
<1> QED
  BY <1>1, ControlTracked, RunGenerates, BlocksTracked, PTL

\* And as long as no left operand of && or || is itself an && or ||, or an
\* operator around one, a phi finds one entry for the block control came from.
THEOREM RunNeverStuck ==
    ASSUME LhsPlain PROVE RunSpec => []NeverStuck
<1>1. BInv /\ PInv /\ AtInv => NeverStuck
  <2> SUFFICES ASSUME BInv, PInv, AtInv, Running, Instr.op = "phi"
               PROVE  \E p \in Instr.inc : Incoming = {p}
    BY AtFetches DEF NeverStuck, Running
  <2>1. /\ at \in Blocks(mir) /\ idx \in 1 .. Len(mir.code[at])
    BY AtFetches DEF Running
  <2>2. PhiIn(mir, at, Instr)
    BY <2>1 DEF PhiIn, Instr
  <2>3. PhiOK(mir, at, Instr)
    BY <2>1, <2>2 DEF PInv, PhisBuilt
  <2>4. came \in mir.preds[at]
    BY <2>3 DEF AtInv, Running, PhiOK
  <2>5. PICK p \in Instr.inc : p.blk = came
    BY <2>3, <2>4 DEF PhiOK
  <2>6. Incoming = {p}
    BY <2>3, <2>5 DEF PhiOK, Incoming
  <2> QED
    BY <2>6
<1>2. Spec => [](BInv /\ PInv)
  BY PhisTracked
<1> QED
  BY <1>1, <1>2, ControlTracked, RunGenerates, PTL

-----------------------------------------------------------------------------
(* Operands.  While a handler waits for the value of an expression only    *)
(* expressions are lowered, so the value that it finds in m_Value is that  *)
(* of the instruction emitted last but for terminators, in the block that  *)
(* is the insertion point by then.  What a finished block promises, that   *)
(* it computes what its branch reads and what the phis take from it, is    *)
(* what the machine has done when it gets there.                           *)

Computing(i) == i.op \in {"eval", "phi"}

Computes(i, n) == Computing(i) /\ i.node = n

\* The insertion block computes the value of node n.
Held(m, n) ==
    \E j \in 1 .. Len(m.code[m.insert]) : Computes(m.code[m.insert][j], n)

\* Block b computes the value of node n before its terminator.
Given(m, b, n) ==
    /\ b \in Blocks(m)
    /\ \E j \in 1 .. Len(m.code[b]) :
          Computes(m.code[b][j], n) /\ OpenUpTo(m, b, j)

\* The values that instruction i of block b reads are computed before.
InstFits(m, b, i, n) ==
    LET x == m.code[b][i] IN
    /\ Computing(x) => x.node \in 1 .. n
    /\ x.op = "brif" => \E j \in 1 .. i - 1 : Computes(m.code[b][j], x.use)
    /\ x.op = "phi" => \A p \in x.inc : p.src # 0 => Given(m, p.blk, p.src)

Sourced(m, n) ==
    \A b \in Blocks(m) : \A i \in 1 .. Len(m.code[b]) : InstFits(m, b, i, n)

\* Nothing is emitted into a block before it is in the function.
Bare(m) == \A b \in Blocks(m) : ~InLayout(m, b) => m.code[b] = <<>>

Reads == {"IfBranch", "MatchChains", "MatchCompare", "RetValue", "UntilBranch",
          "OpEnd", "LogicLhs", "LogicRhs"}

\* No statement is lowered while a handler waits for the value of an
\* expression.
Waits(s, a) ==
    \A i, j \in 1 .. Len(s) : i < j /\ s[j].at \in Reads => ExprFrame(s[i], a)

\* What a match compares with are expressions.
CasesSorted(f, a) ==
    f.at \in {"MatchChains", "MatchCompare", "MatchCaseEnd"} =>
        \A c \in 1 .. Cases(f.kids) : a[f.kids[2 * c]].sort # "stmt"

\* The block in which a right operand ends is open.
OpenRhs(s, m) ==
    (\E j \in 1 .. Len(s) : s[j].at = "LogicRhs") => ~HasTerminator(m, m.insert)

Branching == {"IfBranch", "MatchCompare", "UntilBranch", "LogicLhs", "LogicRhs"}

\* A handler that goes on with a value finds it in the insertion block.
ValueReady == stack # <<>> /\ Top.at \in Branching => Held(mir, mValue)

DInv ==
    /\ Waits(stack, ast)
    /\ \A j \in 1 .. Len(stack) : CasesSorted(stack[j], ast)
    /\ Sourced(mir, Len(ast))
    /\ Bare(mir)
    /\ OpenRhs(stack, mir)
    /\ ValueReady

-----------------------------------------------------------------------------
(* What the builder operators do to the code.                              *)

\* A function body, with the blocks that its code mentions or without.
Basic(m) ==
    m \in [code : Seq(Seq(Inst)), preds : {m.preds}, succs : {m.succs},
           layout : Seq(Nat), freed : {m.freed}, insert : {m.insert}]

\* The blocks of m hold what they held, and the new ones nothing.
SameCode(m, n) ==
    /\ Blocks(m) \subseteq Blocks(n)
    /\ \A b \in Blocks(n) :
          n.code[b] = IF b \in Blocks(m) THEN m.code[b] ELSE <<>>
    /\ \A b : InLayout(m, b) => InLayout(n, b)

\* The same, but for an instruction at the end of the insertion block of m.
Adds(m, n, i) ==
    /\ Blocks(m) \subseteq Blocks(n)
    /\ \A b \in Blocks(n) :
          n.code[b] = IF b = m.insert THEN Append(m.code[b], i)
                      ELSE IF b \in Blocks(m) THEN m.code[b] ELSE <<>>
    /\ \A b : InLayout(m, b) => InLayout(n, b)

\* A body that is well formed is a body.
LEMMA BasicBody ==
    ASSUME NEW m, WellFormed(m) PROVE Basic(m)
<1>1. m \in BodyType
  BY DEF WellFormed, BodyOK
<1> QED
  BY <1>1 DEF BodyType, Basic

\* set_insert, Function::append and delete touch no instruction.
LEMMA MoveCode ==
    ASSUME NEW m, Basic(m), NEW b \in Nat
    PROVE  /\ Basic(SetInsert(m, b)) /\ SameCode(m, SetInsert(m, b))
           /\ SetInsert(m, b).insert = b /\ SetInsert(m, b).layout = m.layout
           /\ SetInsert(m, b).code = m.code
           /\ Basic(AppendBlock(m, b)) /\ SameCode(m, AppendBlock(m, b))
           /\ AppendBlock(m, b).insert = m.insert
           /\ AppendBlock(m, b).code = m.code
           /\ InLayout(AppendBlock(m, b), b)
           /\ Basic(FreeBlock(m, b)) /\ SameCode(m, FreeBlock(m, b))
<1> DEFINE s == SetInsert(m, b)
           a == AppendBlock(m, b)
           f == FreeBlock(m, b)
<1>1. m.code \in Seq(Seq(Inst)) /\ m.layout \in Seq(Nat)
  BY DEF Basic
<1>2. /\ s.code = m.code /\ s.layout = m.layout /\ s.insert = b
  BY DEF Basic, SetInsert
<1>3. /\ a.code = m.code /\ a.layout = Append(m.layout, b) /\ a.insert = m.insert
  BY DEF Basic, AppendBlock
<1>4. /\ f.code = m.code /\ f.layout = m.layout
  BY DEF Basic, FreeBlock
<1> DEFINE l == m.layout
           t == Append(l, b)
<1>5. /\ l \in Seq(Nat) /\ t \in Seq(Nat) /\ Len(l) \in Nat
      /\ Len(t) = Len(l) + 1 /\ t[Len(l) + 1] = b
      /\ \A i \in 1 .. Len(l) : t[i] = l[i]
  <2>1. l \in Seq(Nat)
    BY <1>1
  <2> HIDE DEF l
  <2> QED
    BY <2>1
<1> HIDE DEF s, a, f, t
<1>6. Basic(s) /\ Basic(a) /\ Basic(f)
  <2>1. Basic(s)
    BY <1>2 DEF Basic, SetInsert, s
  <2>2. Basic(a)
    BY <1>3, <1>5 DEF Basic, AppendBlock, a, t, l
  <2>3. Basic(f)
    BY <1>4 DEF Basic, FreeBlock, f
  <2> QED
    BY <2>1, <2>2, <2>3
<1>7. SameCode(m, s) /\ SameCode(m, f)
  BY <1>2, <1>4 DEF SameCode, Blocks, InLayout
<1>8. a.layout = t
  BY <1>3 DEF t
<1>9. InLayout(a, b)
  <2>1. Len(l) + 1 \in 1 .. Len(t)
    BY <1>5
  <2> QED
    BY <1>5, <1>8, <2>1 DEF InLayout
<1>10. \A x : InLayout(m, x) => InLayout(a, x)
  <2>1. \A i \in 1 .. Len(l) : i \in 1 .. Len(t)
    BY <1>5
  <2> QED
    BY <1>5, <1>8, <2>1 DEF InLayout
<1>11. SameCode(m, a)
  BY <1>3, <1>10 DEF SameCode, Blocks
<1> QED
  BY <1>2, <1>3, <1>6, <1>7, <1>9, <1>11 DEF s, a, f

\* Fresh blocks are empty.
LEMMA NewCode ==
    ASSUME NEW m, Basic(m), NEW k \in Nat
    PROVE  LET n == NewBlocks(m, k) IN
           /\ Basic(n) /\ SameCode(m, n)
           /\ n.insert = m.insert /\ n.layout = m.layout
<1> DEFINE n == NewBlocks(m, k)
           nil == [i \in 1 .. k |-> <<>>]
<1>1. /\ n.code = m.code \o nil /\ n.layout = m.layout /\ n.insert = m.insert
  BY DEF Basic, NewBlocks
<1>2. m.code \in Seq(Seq(Inst)) /\ m.layout \in Seq(Nat)
  BY DEF Basic
<1>3. nil \in Seq(Seq(Inst)) /\ Len(nil) = k /\ \A i \in 1 .. k : nil[i] = <<>>
  OBVIOUS
<1> HIDE DEF n, nil
<1> DEFINE c == m.code
<1>4. c \in Seq(Seq(Inst)) /\ n.code = c \o nil
  BY <1>1, <1>2
<1> HIDE DEF c
<1>5. /\ n.code \in Seq(Seq(Inst)) /\ Len(c) \in Nat
      /\ Len(n.code) = Len(c) + k
      /\ \A j \in 1 .. Len(c) : n.code[j] = c[j]
      /\ \A j \in 1 .. Len(n.code) : j > Len(c) =>
            j - Len(c) \in 1 .. k /\ n.code[j] = nil[j - Len(c)]
  <2>1. c \in Seq(Seq(Inst)) /\ nil \in Seq(Seq(Inst))
    BY <1>3, <1>4
  <2>2. /\ c \o nil \in Seq(Seq(Inst)) /\ Len(c) \in Nat
        /\ Len(c \o nil) = Len(c) + Len(nil)
        /\ \A j \in 1 .. Len(c) : (c \o nil)[j] = c[j]
        /\ \A j \in 1 .. Len(c \o nil) : j > Len(c) =>
              /\ j - Len(c) \in 1 .. Len(nil)
              /\ (c \o nil)[j] = nil[j - Len(c)]
    BY ONLY <2>1, ConcatParts
  <2> QED
    BY <1>3, <1>4, <2>2
<1>6. \A j \in 1 .. Len(n.code) :
         n.code[j] = IF j \in 1 .. Len(c) THEN c[j] ELSE <<>>
  <2> TAKE j \in 1 .. Len(n.code)
  <2>1. j \in 1 .. Len(c) \/ j > Len(c)
    BY <1>5
  <2>2. ASSUME j > Len(c) PROVE n.code[j] = <<>> /\ j \notin 1 .. Len(c)
    <3>1. j - Len(c) \in 1 .. k /\ n.code[j] = nil[j - Len(c)]
      BY <1>5, <2>2
    <3>2. n.code[j] = <<>>
      BY <1>3, <3>1
    <3>3. j \notin 1 .. Len(c)
      BY <1>5, <2>2
    <3> QED
      BY <3>2, <3>3
  <2> QED
    BY <1>5, <2>1, <2>2
<1>7. 1 .. Len(c) \subseteq 1 .. Len(n.code)
  BY <1>5
<1>8. SameCode(m, n)
  BY <1>1, <1>6, <1>7 DEF SameCode, Blocks, InLayout, c
<1>9. Basic(n)
  <2>1. c \o nil \in Seq(Seq(Inst))
    BY <1>4, <1>5
  <2> QED
    BY <2>1 DEF Basic, NewBlocks, n, c, nil
<1> QED
  BY <1>1, <1>8, <1>9 DEF n

\* An instruction is appended to the insertion block.
LEMMA EmitCode ==
    ASSUME NEW m, Basic(m), m.insert \in Blocks(m), NEW i \in Inst
    PROVE  LET n == Emit(m, i) IN
           /\ Basic(n) /\ Adds(m, n, i)
           /\ n.insert = m.insert /\ n.layout = m.layout
           /\ Blocks(n) = Blocks(m)
<1> DEFINE n == Emit(m, i)
<1>1. /\ n.code = [m.code EXCEPT ![m.insert] = Append(@, i)]
      /\ n.layout = m.layout /\ n.insert = m.insert
  BY DEF Basic, Emit
<1>2. m.code \in Seq(Seq(Inst)) /\ m.layout \in Seq(Nat)
  BY DEF Basic
<1> HIDE DEF n
<1> DEFINE c == m.code
           b == m.insert
           x == Append(c[b], i)
<1>3. c \in Seq(Seq(Inst)) /\ b \in 1 .. Len(c) /\ n.code = [c EXCEPT ![b] = x]
  BY <1>1, <1>2 DEF Blocks
<1>4. x \in Seq(Inst)
  <2>1. c[b] \in Seq(Inst)
    BY <1>3
  <2> QED
    BY <2>1
<1> HIDE DEF c, b, x
<1>5. n.code \in Seq(Seq(Inst)) /\ Len(n.code) = Len(c)
  BY <1>3, <1>4, SeqUpdate
<1>6. \A y \in 1 .. Len(c) : n.code[y] = IF y = b THEN x ELSE c[y]
  BY <1>3
<1>7. Blocks(n) = Blocks(m)
  BY <1>5 DEF Blocks, c
<1>8. Adds(m, n, i)
  BY <1>1, <1>6, <1>7 DEF Adds, Blocks, InLayout, c, b, x
<1>9. Basic(n)
  <2>1. [c EXCEPT ![b] = x] \in Seq(Seq(Inst))
    BY <1>3, <1>5
  <2> QED
    BY <2>1 DEF Basic, Emit, n, c, b, x
<1> QED
  BY <1>1, <1>7, <1>8, <1>9 DEF n

\* So it is with a branch: edges are not code.
LEMMA BranchCode ==
    ASSUME NEW m, Basic(m), m.insert \in Blocks(m), NEW v \in Nat,
           NEW t \in Nat \ {0}, NEW f \in Nat \ {0}
    PROVE  /\ LET n == BuildJmp(m, t) IN
              /\ Basic(n) /\ Adds(m, n, Jmp(t)) /\ Jmp(t) \in Inst
              /\ n.insert = m.insert /\ Blocks(n) = Blocks(m)
           /\ LET n == BuildBrif(m, v, t, f) IN
              /\ Basic(n) /\ Adds(m, n, Brif(v, t, f)) /\ Brif(v, t, f) \in Inst
              /\ n.insert = m.insert /\ Blocks(n) = Blocks(m)
<1>1. Jmp(t) \in Inst /\ Brif(v, t, f) \in Inst
  BY BranchTypes
<1>2. ASSUME NEW q, Basic(q), NEW b, NEW d
      PROVE  LET n == AddEdge(q, b, d) IN
             /\ Basic(n) /\ n.code = q.code /\ n.layout = q.layout
             /\ n.insert = q.insert
  BY <1>2 DEF Basic, AddEdge
<1>3. ASSUME NEW q, NEW n, NEW i, Adds(m, q, i), n.code = q.code,
             n.layout = q.layout
      PROVE  Adds(m, n, i) /\ Blocks(n) = Blocks(q)
  BY <1>3 DEF Adds, Blocks, InLayout
<1>4. LET n == BuildJmp(m, t) IN
      /\ Basic(n) /\ Adds(m, n, Jmp(t))
      /\ n.insert = m.insert /\ Blocks(n) = Blocks(m)
  <2> DEFINE q == Emit(m, Jmp(t))
             n == AddEdge(q, m.insert, t)
  <2>1. /\ Basic(q) /\ Adds(m, q, Jmp(t)) /\ q.insert = m.insert
        /\ Blocks(q) = Blocks(m)
    BY <1>1, EmitCode
  <2> HIDE DEF q
  <2>2. /\ Basic(n) /\ n.code = q.code /\ n.layout = q.layout
        /\ n.insert = q.insert
    BY <1>2, <2>1
  <2> HIDE DEF n
  <2>3. Adds(m, n, Jmp(t)) /\ Blocks(n) = Blocks(q)
    BY <1>3, <2>1, <2>2
  <2> QED
    BY <2>1, <2>2, <2>3 DEF n, q, BuildJmp
<1>5. LET n == BuildBrif(m, v, t, f) IN
      /\ Basic(n) /\ Adds(m, n, Brif(v, t, f))
      /\ n.insert = m.insert /\ Blocks(n) = Blocks(m)
  <2> DEFINE i == Brif(v, t, f)
             q == Emit(m, i)
             e == AddEdge(q, m.insert, t)
             n == AddEdge(e, m.insert, f)
  <2>1. /\ Basic(q) /\ Adds(m, q, i) /\ q.insert = m.insert
        /\ Blocks(q) = Blocks(m)
    BY <1>1, EmitCode
  <2> HIDE DEF q
  <2>2. /\ Basic(e) /\ e.code = q.code /\ e.layout = q.layout
        /\ e.insert = q.insert
    BY <1>2, <2>1
  <2> HIDE DEF e
  <2>3. /\ Basic(n) /\ n.code = e.code /\ n.layout = e.layout
        /\ n.insert = e.insert
    BY <1>2, <2>2
  <2> HIDE DEF n
  <2>4. n.code = q.code /\ n.layout = q.layout
    BY <2>2, <2>3
  <2>5. Adds(m, n, i) /\ Blocks(n) = Blocks(q)
    BY <1>3, <2>1, <2>4
  <2> QED
    BY <2>1, <2>2, <2>3, <2>5 DEF n, e, q, BuildBrif
<1> QED
  BY <1>1, <1>4, <1>5

\* Such steps, one after the other.
LEMMA CodeTwice ==
    ASSUME NEW m, NEW n, NEW q, NEW i, m.insert \in Blocks(m)
    PROVE  /\ SameCode(m, n) /\ SameCode(n, q) => SameCode(m, q)
           /\ Adds(m, n, i) /\ SameCode(n, q) => Adds(m, q, i)
           /\ SameCode(m, n) /\ Adds(n, q, i) /\ n.insert = m.insert
                => Adds(m, q, i)
<1>1. SameCode(m, n) /\ SameCode(n, q) => SameCode(m, q)
  BY DEF SameCode
<1>2. Adds(m, n, i) /\ SameCode(n, q) => Adds(m, q, i)
  BY DEF SameCode, Adds
<1>3. SameCode(m, n) /\ Adds(n, q, i) /\ n.insert = m.insert => Adds(m, q, i)
  BY DEF SameCode, Adds
<1> QED
  BY <1>1, <1>2, <1>3

-----------------------------------------------------------------------------
(* What was computed stays computed.                                       *)

\* Code is only added at the ends of blocks.
Prefixed(m, n) ==
    /\ Blocks(m) \subseteq Blocks(n)
    /\ \A b \in Blocks(m) : \A j \in 1 .. Len(m.code[b]) :
          j \in 1 .. Len(n.code[b]) /\ n.code[b][j] = m.code[b][j]

\* The blocks of a body hold instructions.
LEMMA BasicCode ==
    ASSUME NEW m, Basic(m), NEW b \in Blocks(m)
    PROVE  m.code[b] \in Seq(Inst) /\ Len(m.code[b]) \in Nat
<1>1. m.code \in Seq(Seq(Inst))
  BY DEF Basic
<1>2. m.code[b] \in Seq(Inst)
  BY <1>1 DEF Blocks
<1> QED
  BY <1>2

LEMMA PrefixSame ==
    ASSUME NEW m, NEW n, SameCode(m, n) PROVE Prefixed(m, n)
BY DEF SameCode, Prefixed

LEMMA PrefixAdds ==
    ASSUME NEW m, Basic(m), m.insert \in Blocks(m), NEW n, NEW x \in Inst,
           Adds(m, n, x)
    PROVE  /\ Prefixed(m, n)
           /\ n.code[m.insert] = Append(m.code[m.insert], x)
           /\ LET l == Len(m.code[m.insert]) IN
              /\ Len(n.code[m.insert]) = l + 1
              /\ n.code[m.insert][l + 1] = x
<1> DEFINE s == m.code[m.insert]
           t == Append(s, x)
<1>1. s \in Seq(Inst)
  BY BasicCode
<1>2. n.code[m.insert] = t
  BY DEF Adds
<1> HIDE DEF s
<1>3. /\ Len(s) \in Nat /\ Len(t) = Len(s) + 1 /\ t[Len(s) + 1] = x
      /\ \A j \in 1 .. Len(s) : t[j] = s[j]
  BY <1>1
<1> HIDE DEF t
<1>4. \A j \in 1 .. Len(s) : j \in 1 .. Len(t) /\ t[j] = s[j]
  BY <1>3
<1>5. Prefixed(m, n)
  <2> SUFFICES ASSUME NEW b \in Blocks(m), NEW j \in 1 .. Len(m.code[b])
               PROVE  j \in 1 .. Len(n.code[b]) /\ n.code[b][j] = m.code[b][j]
    BY DEF Prefixed, Adds
  <2>1. CASE b = m.insert
    BY <1>2, <1>4, <2>1 DEF s
  <2>2. CASE b # m.insert
    BY <2>2 DEF Adds
  <2> QED
    BY <2>1, <2>2
<1> QED
  BY <1>2, <1>3, <1>5 DEF s, t

LEMMA GivenKept ==
    ASSUME NEW m, Basic(m), NEW n, Prefixed(m, n), NEW b, NEW v, Given(m, b, v)
    PROVE  Given(n, b, v)
<1>1. b \in Blocks(m) /\ b \in Blocks(n)
  BY DEF Given, Prefixed
<1>2. PICK j \in 1 .. Len(m.code[b]) :
         Computes(m.code[b][j], v) /\ OpenUpTo(m, b, j)
  BY DEF Given
<1>3. Len(m.code[b]) \in Nat
  BY <1>1, BasicCode
<1>4. \A k \in 1 .. j - 1 : k \in 1 .. Len(m.code[b])
  BY <1>3
<1>5. OpenUpTo(n, b, j)
  BY <1>1, <1>2, <1>4 DEF OpenUpTo, Prefixed
<1>6. j \in 1 .. Len(n.code[b]) /\ n.code[b][j] = m.code[b][j]
  BY <1>1 DEF Prefixed
<1> QED
  BY <1>1, <1>2, <1>5, <1>6 DEF Given

LEMMA FitsKept ==
    ASSUME NEW m, Basic(m), NEW n, Prefixed(m, n), NEW b \in Blocks(m),
           NEW i \in 1 .. Len(m.code[b]), NEW l \in Nat, NEW k \in Nat, l <= k,
           InstFits(m, b, i, l)
    PROVE  InstFits(n, b, i, k)
<1> DEFINE x == m.code[b][i]
<1>1. i \in 1 .. Len(n.code[b]) /\ n.code[b][i] = x
  BY DEF Prefixed
<1>2. Len(m.code[b]) \in Nat
  BY BasicCode
<1>3. \A j \in 1 .. i - 1 : n.code[b][j] = m.code[b][j]
  <2>1. \A j \in 1 .. i - 1 : j \in 1 .. Len(m.code[b])
    BY <1>2
  <2> QED
    BY <2>1 DEF Prefixed
<1>4. Computing(x) => x.node \in 1 .. k
  BY DEF InstFits
<1>5. x.op = "brif" => \E j \in 1 .. i - 1 : Computes(n.code[b][j], x.use)
  BY <1>3 DEF InstFits
<1>6. x.op = "phi" => \A p \in x.inc : p.src # 0 => Given(n, p.blk, p.src)
  BY GivenKept DEF InstFits
<1> QED
  BY <1>1, <1>4, <1>5, <1>6 DEF InstFits

LEMMA SourcedSame ==
    ASSUME NEW m, Basic(m), NEW n, SameCode(m, n), NEW l \in Nat, NEW k \in Nat,
           l <= k, Sourced(m, l)
    PROVE  Sourced(n, k)
<1> SUFFICES ASSUME NEW b \in Blocks(n), NEW i \in 1 .. Len(n.code[b])
             PROVE  InstFits(n, b, i, k)
  BY DEF Sourced
<1>1. b \in Blocks(m) /\ n.code[b] = m.code[b]
  BY DEF SameCode
<1> QED
  BY <1>1, PrefixSame, FitsKept DEF Sourced

LEMMA SourcedAdds ==
    ASSUME NEW m, Basic(m), m.insert \in Blocks(m), NEW n, NEW x \in Inst,
           Adds(m, n, x), NEW l \in Nat, NEW k \in Nat, l <= k, Sourced(m, l),
           Computing(x) => x.node \in 1 .. k,
           x.op = "brif" => Held(m, x.use),
           x.op = "phi" => \A p \in x.inc : p.src # 0 => Given(n, p.blk, p.src)
    PROVE  Sourced(n, k)
<1> DEFINE h == Len(m.code[m.insert])
<1> SUFFICES ASSUME NEW b \in Blocks(n), NEW i \in 1 .. Len(n.code[b])
             PROVE  InstFits(n, b, i, k)
  BY DEF Sourced
<1>1. /\ Prefixed(m, n) /\ h \in Nat
      /\ Len(n.code[m.insert]) = h + 1 /\ n.code[m.insert][h + 1] = x
  BY PrefixAdds, BasicCode
<1>2. CASE b \in Blocks(m) /\ i \in 1 .. Len(m.code[b])
  BY <1>1, <1>2, FitsKept DEF Sourced
<1>3. CASE b # m.insert
  <2>1. b \in Blocks(m) /\ n.code[b] = m.code[b]
    BY <1>3 DEF Adds
  <2> QED
    BY <1>2, <2>1
<1>4. CASE b = m.insert /\ i \notin 1 .. h
  <2>1. i = h + 1 /\ n.code[b][i] = x
    <3>1. i \in 1 .. Len(n.code[m.insert]) /\ i \notin 1 .. h
      BY <1>4
    <3> HIDE DEF h
    <3>2. i \in 1 .. h + 1 /\ i \notin 1 .. h
      BY <1>1, <3>1
    <3>3. i = h + 1
      BY ONLY <1>1, <3>2
    <3> QED
      BY <1>1, <1>4, <3>3
  <2>2. x.op = "brif" => \E j \in 1 .. i - 1 : Computes(n.code[b][j], x.use)
    <3> SUFFICES ASSUME x.op = "brif"
                 PROVE  \E j \in 1 .. i - 1 : Computes(n.code[b][j], x.use)
      OBVIOUS
    <3>1. PICK j \in 1 .. h : Computes(m.code[m.insert][j], x.use)
      BY DEF Held
    <3>2. j \in 1 .. i - 1
      BY <1>1, <2>1
    <3>3. n.code[b][j] = m.code[m.insert][j]
      BY <1>1, <1>4 DEF Prefixed
    <3> QED
      BY <3>1, <3>2, <3>3
  <2> QED
    BY <2>1, <2>2 DEF InstFits
<1> QED
  BY <1>2, <1>3, <1>4

LEMMA BareKept ==
    ASSUME NEW m, NEW n, Bare(m)
    PROVE  /\ SameCode(m, n) => Bare(n)
           /\ \A i : Adds(m, n, i) /\ InLayout(m, m.insert) => Bare(n)
BY DEF Bare, SameCode, Adds

-----------------------------------------------------------------------------
(* The steps of the handlers of statements.                                *)

\* A step that computes nothing, and branches on nothing that is not
\* computed.
Quiet(m, n) ==
    \/ SameCode(m, n)
    \/ \E i \in Inst : /\ Adds(m, n, i) /\ ~Computing(i)
                       /\ i.op = "brif" => Held(m, i.use)

LEMMA QuietKeeps ==
    ASSUME NEW m, Basic(m), m.insert \in Blocks(m), InLayout(m, m.insert),
           NEW n, Quiet(m, n), NEW l \in Nat, NEW k \in Nat, l <= k,
           Sourced(m, l), Bare(m)
    PROVE  Sourced(n, k) /\ Bare(n)
<1>1. CASE SameCode(m, n)
  BY <1>1, SourcedSame, BareKept
<1>2. ASSUME NEW i \in Inst, Adds(m, n, i), ~Computing(i),
             i.op = "brif" => Held(m, i.use)
      PROVE  Sourced(n, k) /\ Bare(n)
  <2>1. i.op # "phi"
    BY <1>2 DEF Computing
  <2>2. Sourced(n, k)
    BY <1>2, <2>1, SourcedAdds
  <2> QED
    BY <1>2, <2>2, BareKept
<1> QED
  BY <1>1, <1>2 DEF Quiet

LEMMA QuietThen ==
    ASSUME NEW m, m.insert \in Blocks(m), NEW n, Quiet(m, n), NEW q, SameCode(n, q)
    PROVE  Quiet(m, q)
BY CodeTwice DEF Quiet

\* A body that did not terminate on its own is closed.
LEMMA JmpOpenQuiet ==
    ASSUME NEW m, Basic(m), m.insert \in Blocks(m), NEW d \in Nat \ {0}
    PROVE  Basic(JmpIfOpen(m, d)) /\ Quiet(m, JmpIfOpen(m, d))
<1>1. SameCode(m, m)
  BY DEF SameCode
<1>2. /\ Basic(BuildJmp(m, d)) /\ Adds(m, BuildJmp(m, d), Jmp(d))
      /\ Jmp(d) \in Inst
  BY BranchCode
<1>3. Jmp(d).op = "jmp"
  BY DEF Jmp, Plain
<1> QED
  BY <1>1, <1>2, <1>3 DEF JmpIfOpen, Quiet, Computing

\* Generation goes on in the next block of the handler,
LEMMA OpenQuiet ==
    ASSUME NEW m, m.insert \in Blocks(m), NEW n, Basic(n), Quiet(m, n),
           NEW o \in Nat
    PROVE  /\ Basic(SetInsert(AppendBlock(n, o), o))
           /\ Quiet(m, SetInsert(AppendBlock(n, o), o))
<1>1. Basic(AppendBlock(n, o)) /\ SameCode(n, AppendBlock(n, o))
  BY MoveCode
<1>2. /\ Basic(SetInsert(AppendBlock(n, o), o))
      /\ SameCode(AppendBlock(n, o), SetInsert(AppendBlock(n, o), o))
  BY <1>1, MoveCode
<1>3. Quiet(m, AppendBlock(n, o))
  BY <1>1, QuietThen
<1> QED
  BY <1>2, <1>3, QuietThen

\* or in the merge block, if there is one.
LEMMA MergeQuiet ==
    ASSUME NEW m, m.insert \in Blocks(m), NEW n, Basic(n), Quiet(m, n),
           NEW o \in Nat
    PROVE  Quiet(m, EmitMerge(n, o))
<1>1. Quiet(m, SetInsert(AppendBlock(n, o), o))
  BY OpenQuiet
<1>2. SameCode(n, FreeBlock(n, o))
  BY MoveCode
<1>3. Quiet(m, FreeBlock(n, o))
  BY <1>2, QuietThen
<1> QED
  BY <1>1, <1>3 DEF EmitMerge

\* The frames above a handler that waits for a value.
LEMMA WaitsStep ==
    ASSUME NEW S, NEW fs \in Seq(S), NEW s \in Seq(S), s # <<>>,
           NEW a, NEW a2, NEW l \in Nat,
           \A x \in 1 .. l : a2[x].sort = a[x].sort,
           \A j \in 1 .. Len(s) : s[j].node \in 1 .. l,
           Waits(s, a), Waits(fs, a2),
           ExprFrame(Head(s), a) => \A j \in 1 .. Len(fs) : ExprFrame(fs[j], a2)
    PROVE  /\ Waits(fs \o Tail(s), a2)
           /\ ~ExprFrame(Head(s), a) =>
                \A j \in 2 .. Len(s) : s[j].at \notin Reads
<1> DEFINE u == fs \o Tail(s)
<1>1. /\ Head(s) = s[1] /\ Len(s) \in Nat \ {0} /\ Len(fs) \in Nat
      /\ \A j \in 1 .. Len(fs) : u[j] = fs[j]
      /\ \A j \in 1 .. Len(u) : \/ j \in 1 .. Len(fs)
                                \/ /\ j - Len(fs) + 1 \in 2 .. Len(s)
                                   /\ j > Len(fs)
                                   /\ u[j] = s[j - Len(fs) + 1]
  BY StackSplit
<1>2. Len(u) \in Nat
  BY StackSplit
<1> HIDE DEF u
<1>3. \A j \in 1 .. Len(s) : ExprFrame(s[j], a) => ExprFrame(s[j], a2)
  BY DEF ExprFrame
<1>4. \A j \in 2 .. Len(s) : s[j].at \in Reads => ExprFrame(s[1], a)
  <2> TAKE j \in 2 .. Len(s)
  <2>1. 1 \in 1 .. Len(s) /\ j \in 1 .. Len(s) /\ 1 < j
    BY <1>1
  <2> QED
    BY <2>1 DEF Waits
<1>5. ASSUME NEW i \in 1 .. Len(u), NEW j \in 1 .. Len(u), i < j,
             u[j].at \in Reads
      PROVE  ExprFrame(u[i], a2)
  <2>1. CASE j \in 1 .. Len(fs)
    <3>1. i \in 1 .. Len(fs)
      BY <1>2, <1>5, <2>1
    <3> QED
      BY <1>1, <1>5, <2>1, <3>1 DEF Waits
  <2>2. CASE j \notin 1 .. Len(fs)
    <3> DEFINE h == j - Len(fs) + 1
    <3>1. h \in 2 .. Len(s) /\ u[j] = s[h] /\ s[h].at \in Reads
      BY <1>1, <1>5, <2>2
    <3>2. CASE i \in 1 .. Len(fs)
      BY <1>1, <1>4, <3>1, <3>2
    <3>3. CASE i \notin 1 .. Len(fs)
      <4> DEFINE g == i - Len(fs) + 1
      <4>1. g \in 2 .. Len(s) /\ u[i] = s[g] /\ g < h
        BY <1>1, <1>5, <3>3
      <4>2. g \in 1 .. Len(s) /\ h \in 1 .. Len(s)
        BY <1>1, <3>1, <4>1
      <4> HIDE DEF g, h
      <4>3. ExprFrame(s[g], a)
        BY <3>1, <4>1, <4>2 DEF Waits
      <4> QED
        BY <1>3, <4>1, <4>2, <4>3
    <3> QED
      BY <3>2, <3>3
  <2> QED
    BY <2>1, <2>2
<1>6. Waits(u, a2)
  BY <1>5 DEF Waits
<1> QED
  BY <1>1, <1>4, <1>6 DEF u

\* What a match compares with stays an expression.
LEMMA CasesKept ==
    ASSUME NEW l \in Nat, NEW c, NEW f \in FrameType(l, c), NEW a, NEW a2,
           \A x \in 1 .. l : a2[x].sort = a[x].sort, CasesSorted(f, a)
    PROVE  CasesSorted(f, a2)
<1> SUFFICES ASSUME f.at \in {"MatchChains", "MatchCompare", "MatchCaseEnd"},
                    NEW i \in 1 .. Cases(f.kids)
             PROVE  a2[f.kids[2 * i]].sort # "stmt"
  BY DEF CasesSorted
<1>1. f.kids \in Seq(1 .. l)
  BY DEF FrameType
<1>2. Cases(f.kids) \in Int /\ 2 * Cases(f.kids) + 1 <= Len(f.kids)
  BY <1>1, CasesOK
<1>3. 2 * i \in 1 .. Len(f.kids)
  BY <1>1, <1>2
<1>4. f.kids[2 * i] \in 1 .. l
  BY <1>1, <1>3
<1> QED
  BY <1>4 DEF CasesSorted

\* The part of the invariant about frames, after any step of a handler.
LEMMA FramesStep ==
    ASSUME BInv, phase = "gen", DInv, NEW U, NEW fs \in Seq(U), Continue(fs),
           SortsKept, Waits(fs, ast'),
           \A j \in 1 .. Len(fs) : CasesSorted(fs[j], ast'),
           ExprFrame(Top, ast) => \A j \in 1 .. Len(fs) : ExprFrame(fs[j], ast')
    PROVE  /\ Waits(stack', ast')
           /\ \A j \in 1 .. Len(stack') : CasesSorted(stack'[j], ast')
           /\ ~ExprFrame(Top, ast) =>
                \A j \in 2 .. Len(stack) : stack[j].at \notin Reads
           /\ \A j \in 1 .. Len(stack') :
                 \/ j \in 1 .. Len(fs) /\ stack'[j] = fs[j]
                 \/ \E h \in 2 .. Len(stack) : stack'[j] = stack[h]
           /\ fs = <<>> /\ stack' # <<>> =>
                1 \in 1 .. Len(stack') /\ Head(stack') = stack'[1]
                /\ 2 \in 1 .. Len(stack) /\ stack'[1] = stack[2]
           /\ fs # <<>> => stack' # <<>> /\ Head(stack') = fs[1]
<1> DEFINE c == Len(mir.code)
           l == Len(ast)
           S == FrameType(l, c) \cup U
           s == stack
           u == stack'
<1>1. /\ s \in Seq(S) /\ s # <<>> /\ l \in Nat /\ Top = Head(s)
      /\ u = fs \o Tail(s) /\ fs \in Seq(S)
  <2>1. s \in Seq(S)
    BY StackSeq
  <2>2. s # <<>> /\ l \in Nat
    BY InHandler DEF BInv
  <2>3. fs \in Seq(S)
    OBVIOUS
  <2> QED
    BY <2>1, <2>2, <2>3 DEF Continue, Top
<1>2. \A j \in 1 .. Len(s) : s[j] \in FrameType(l, c) /\ s[j].node \in 1 .. l
  <2>1. s \in Seq(FrameType(l, c))
    BY DEF BInv, IInv, TypeOK
  <2>2. \A j \in 1 .. Len(s) : s[j] \in FrameType(l, c)
    BY <2>1
  <2> QED
    BY <2>2 DEF FrameType
<1>3. \A x \in 1 .. l : ast'[x].sort = ast[x].sort
  BY DEF SortsKept
<1>4. Waits(s, ast) /\ \A j \in 1 .. Len(s) : CasesSorted(s[j], ast)
  BY DEF DInv
<1> HIDE DEF S, s, u
<1>5. /\ Waits(u, ast')
      /\ ~ExprFrame(Top, ast) => \A j \in 2 .. Len(s) : s[j].at \notin Reads
  BY <1>1, <1>2, <1>3, <1>4, WaitsStep
<1>6. /\ Head(s) = s[1] /\ Len(s) \in Nat \ {0} /\ Len(fs) \in Nat
      /\ Len(u) = Len(fs) + (Len(s) - 1)
      /\ \A j \in 1 .. Len(fs) : j \in 1 .. Len(u) /\ u[j] = fs[j]
      /\ \A j \in 1 .. Len(u) :
                 \/ j \in 1 .. Len(fs)
                 \/ /\ j - Len(fs) + 1 \in 2 .. Len(s)
                    /\ u[j] = s[j - Len(fs) + 1]
  BY <1>1, StackSplit
<1>7. \A j \in 1 .. Len(u) : \/ j \in 1 .. Len(fs) /\ u[j] = fs[j]
                             \/ \E h \in 2 .. Len(s) : u[j] = s[h]
  BY <1>6
<1>8. \A h \in 2 .. Len(s) : CasesSorted(s[h], ast')
  <2> TAKE h \in 2 .. Len(s)
  <2>1. h \in 1 .. Len(s)
    BY <1>6
  <2> QED
    BY <1>1, <1>2, <1>3, <1>4, <2>1, CasesKept
<1>9. \A j \in 1 .. Len(u) : CasesSorted(u[j], ast')
  BY <1>7, <1>8
<1>10. u \in Seq(S)
  <2>1. Tail(s) \in Seq(S)
    BY <1>1
  <2> QED
    BY <1>1, <2>1, ConcatSeq
<1>11. ASSUME fs = <<>>, u # <<>>
       PROVE  /\ 1 \in 1 .. Len(u) /\ Head(u) = u[1]
              /\ 2 \in 1 .. Len(s) /\ u[1] = s[2]
  <2>1. Len(fs) = 0
    BY <1>11
  <2>2. 1 \in 1 .. Len(u) /\ Head(u) = u[1]
    BY <1>10, <1>11
  <2>3. 1 - Len(fs) + 1 = 2 /\ 1 \notin 1 .. Len(fs)
    BY <2>1
  <2>4. 2 \in 2 .. Len(s) /\ u[1] = s[2]
    BY <1>6, <2>2, <2>3
  <2> QED
    BY <1>6, <2>2, <2>4
<1>12. ASSUME fs # <<>>
       PROVE  u # <<>> /\ Head(u) = fs[1]
  <2>1. 1 \in 1 .. Len(fs)
    BY <1>1, <1>12
  <2>2. 1 \in 1 .. Len(u) /\ u[1] = fs[1]
    BY <1>6, <2>1
  <2>3. Head(u) = u[1] /\ u # <<>>
    BY <1>10, <2>2
  <2> QED
    BY <2>2, <2>3
<1> QED
  BY <1>5, <1>7, <1>9, <1>11, <1>12 DEF s, u

\* A handler of a statement calls others, or returns.
LEMMA StmtStep ==
    ASSUME BInv, IInv', DInv, phase = "gen", SortsKept, ~ExprFrame(Top, ast),
           NEW U, NEW fs \in Seq(U), Continue(fs), Quiet(mir, mir'),
           Waits(fs, ast'),
           \A j \in 1 .. Len(fs) :
               fs[j].at # "LogicRhs" /\ CasesSorted(fs[j], ast'),
           fs # <<>> => fs[1].at = "Visit"
    PROVE  DInv'
<1>1. /\ Waits(stack', ast')
      /\ \A j \in 1 .. Len(stack') : CasesSorted(stack'[j], ast')
      /\ \A j \in 2 .. Len(stack) : stack[j].at \notin Reads
      /\ \A j \in 1 .. Len(stack') :
            \/ j \in 1 .. Len(fs) /\ stack'[j] = fs[j]
            \/ \E h \in 2 .. Len(stack) : stack'[j] = stack[h]
      /\ fs = <<>> /\ stack' # <<>> =>
           1 \in 1 .. Len(stack') /\ Head(stack') = stack'[1]
           /\ 2 \in 1 .. Len(stack) /\ stack'[1] = stack[2]
      /\ fs # <<>> => stack' # <<>> /\ Head(stack') = fs[1]
  BY FramesStep
<1>2. /\ Basic(mir) /\ mir.insert \in Blocks(mir) /\ InLayout(mir, mir.insert)
      /\ Len(ast) \in Nat /\ Len(ast') \in Nat /\ Len(ast) <= Len(ast')
  <2>1. WellFormed(mir) /\ Len(ast) \in Nat
    BY InHandler DEF BInv
  <2>2. mir.insert \in Blocks(mir) /\ InLayout(mir, mir.insert)
    BY BRunning
  <2> QED
    BY <2>1, <2>2, BasicBody DEF SortsKept, IInv, TypeOK
<1>3. Sourced(mir', Len(ast')) /\ Bare(mir')
  BY <1>2, QuietKeeps DEF DInv
<1>4. OpenRhs(stack', mir')
  <2>1. \A j \in 1 .. Len(stack') : stack'[j].at # "LogicRhs"
    BY <1>1 DEF Reads
  <2> QED
    BY <2>1 DEF OpenRhs
<1>5. ValueReady'
  <2> SUFFICES ASSUME stack' # <<>> PROVE Head(stack').at \notin Branching
    BY DEF ValueReady, Top
  <2>1. CASE fs = <<>>
    <3>1. 2 \in 2 .. Len(stack)
      BY <1>1, <2>1
    <3> QED
      BY <1>1, <2>1, <3>1 DEF Branching, Reads
  <2>2. CASE fs # <<>>
    BY <1>1, <2>2 DEF Branching
  <2> QED
    BY <2>1, <2>2
<1> QED
  BY <1>1, <1>3, <1>4, <1>5 DEF DInv

\* The three forms of it: the handler returns,
LEMMA StmtReturns ==
    ASSUME BInv, IInv', DInv, phase = "gen", SortsKept, ~ExprFrame(Top, ast),
           Continue(<<>>), Quiet(mir, mir')
    PROVE  DInv'
<1> DEFINE fs == <<>>
<1>1. Len(fs) = 0 /\ fs \in Seq({}) /\ Continue(fs) /\ fs = <<>>
  OBVIOUS
<1> HIDE DEF fs
<1>2. \A j : j \notin 1 .. Len(fs)
  BY <1>1
<1>3. Waits(fs, ast')
  BY <1>2 DEF Waits
<1> QED
  BY <1>1, <1>2, <1>3, StmtStep

\* waits for one call,
LEMMA StmtCalls ==
    ASSUME BInv, IInv', DInv, phase = "gen", SortsKept, ~ExprFrame(Top, ast),
           Quiet(mir, mir'), NEW a, NEW b, Continue(<<a, b>>), a.at = "Visit",
           b.at # "LogicRhs", b.at \in Reads => ExprFrame(a, ast'),
           CasesSorted(b, ast')
    PROVE  DInv'
<1> DEFINE fs == <<a, b>>
           U == {a, b}
<1>1. Len(fs) = 2 /\ fs[1] = a /\ fs[2] = b /\ fs \in Seq(U) /\ Continue(fs)
  OBVIOUS
<1> HIDE DEF fs, U
<1>2. \A j \in 1 .. Len(fs) : j = 1 \/ j = 2
  BY <1>1
<1>3. CasesSorted(a, ast') /\ a.at # "LogicRhs"
  BY DEF CasesSorted
<1>4. \A j \in 1 .. Len(fs) : fs[j].at # "LogicRhs" /\ CasesSorted(fs[j], ast')
  BY <1>1, <1>2, <1>3
<1>5. Waits(fs, ast')
  <2> SUFFICES ASSUME NEW i \in 1 .. Len(fs), NEW j \in 1 .. Len(fs), i < j,
                      fs[j].at \in Reads
               PROVE  ExprFrame(fs[i], ast')
    BY DEF Waits
  <2>1. i = 1 /\ j = 2
    BY <1>1
  <2> QED
    BY <1>1, <2>1
<1> QED
  BY <1>1, <1>4, <1>5, StmtStep

\* or returns when the calls have.
LEMMA StmtSpreads ==
    ASSUME BInv, IInv', DInv, phase = "gen", SortsKept, ~ExprFrame(Top, ast),
           Quiet(mir, mir'), NEW U, NEW fs \in Seq(U), Continue(fs),
           \A j \in 1 .. Len(fs) : fs[j].at = "Visit"
    PROVE  DInv'
<1>1. Waits(fs, ast')
  BY DEF Waits, Reads
<1>2. \A j \in 1 .. Len(fs) : fs[j].at # "LogicRhs" /\ CasesSorted(fs[j], ast')
  BY DEF CasesSorted
<1>3. fs # <<>> => 1 \in 1 .. Len(fs)
  OBVIOUS
<1> QED
  BY <1>1, <1>2, <1>3, StmtStep

\* No code, no change.
LEMMA NothingQuiet ==
    ASSUME NEW m, NEW n, n = m PROVE Quiet(m, n) /\ SameCode(m, n)
BY DEF Quiet, SameCode

\* Code that computes no value.
LEMMA PlainQuiet ==
    ASSUME NEW m, Basic(m), m.insert \in Blocks(m), NEW i \in Inst,
           i.op \in {"copy", "ret"}
    PROVE  Quiet(m, Emit(m, i))
<1>1. Adds(m, Emit(m, i), i)
  BY EmitCode
<1> QED
  BY <1>1 DEF Quiet, Computing

\* What the handlers rely on.
LEMMA DRunning ==
    ASSUME BInv, phase = "gen"
    PROVE  /\ IInv /\ Basic(mir) /\ mir.insert \in Blocks(mir)
           /\ InLayout(mir, mir.insert)
           /\ Len(mir.code) \in Nat /\ Len(ast) \in Nat \ {0}
           /\ Top.node \in 1 .. Len(ast) /\ mValue \in Nat
           /\ \A n \in Nat : /\ Ret(n) \in Inst /\ Ret(n).op = "ret"
                             /\ Copy(n) \in Inst /\ Copy(n).op = "copy"
                             /\ Eval(n) \in Inst /\ Eval(n).op = "eval"
                             /\ Eval(n).node = n
<1>1. IInv /\ mir.insert \in Blocks(mir) /\ InLayout(mir, mir.insert)
  BY BRunning
<1>2. /\ WellFormed(mir) /\ Len(mir.code) \in Nat /\ Len(ast) \in Nat \ {0}
      /\ Top \in FrameType(Len(ast), Len(mir.code)) /\ mValue \in Nat
  BY <1>1, InHandler
<1>3. Top.node \in 1 .. Len(ast) /\ Basic(mir)
  BY <1>2, BasicBody DEF FrameType
<1>4. \A n \in Nat : /\ Ret(n) \in Inst /\ Ret(n).op = "ret"
                     /\ Copy(n) \in Inst /\ Copy(n).op = "copy"
                     /\ Eval(n) \in Inst /\ Eval(n).op = "eval"
                     /\ Eval(n).node = n
  BY DEF Eval, Copy, Ret, Plain, Inst, InstOps, Terminators, None
<1> QED
  BY <1>1, <1>2, <1>3, <1>4

-----------------------------------------------------------------------------
(* One lemma for each action, or for a few that do the same.               *)

LEMMA VisitCompoundD ==
    ASSUME BInv, IInv', DInv, VisitCompound PROVE DInv'
<1>1. PICK c \in 0 .. MaxStmts :
        /\ Enter("compound", Stmts(c))
        /\ Continue([j \in 1 .. c |-> Visit(NewKids(c)[j], Top.loop)])
        /\ mir' = mir
  BY DEF VisitCompound
<1> DEFINE fs == [j \in 1 .. c |-> Visit(NewKids(c)[j], Top.loop)]
           U == {Visit(NewKids(c)[j], Top.loop) : j \in 1 .. c}
<1>2. Stmts(c) \in Seq(Sorts) /\ c \in Nat
  BY BoundsAssumption, StmtsOK
<1>3. IInv /\ "compound" \in StmtKinds /\ phase = "gen"
  BY <1>1 DEF StmtKinds, BInv, Enter
<1>4. SortsKept /\ ~ExprFrame(Top, ast)
  BY <1>1, <1>2, <1>3, Entered
<1>5. fs \in Seq(U) /\ Len(fs) = c /\ \A j \in 1 .. c : fs[j].at = "Visit"
  BY <1>2 DEF Visit, Frame
<1>6. Continue(fs)
  BY <1>1
<1> HIDE DEF fs, U
<1>7. Quiet(mir, mir')
  BY <1>1, NothingQuiet
<1> QED
  BY <1>3, <1>4, <1>5, <1>6, <1>7, StmtSpreads

\* A statement that begins with an expression.
LEMMA FirstD ==
    ASSUME BInv, IInv', DInv, NEW kind \in StmtKinds, NEW sorts \in Seq(Sorts),
           Len(sorts) >= 1, sorts[1] # "stmt",
           Enter(kind, sorts), NEW loop, Quiet(mir, mir'),
           \/ Continue(<<First(loop)>>)
           \/ \E f : /\ f.at # "LogicRhs" /\ CasesSorted(f, ast')
                     /\ Continue(<<First(loop), f>>)
    PROVE  DInv'
<1>1. IInv /\ phase = "gen"
  BY DEF BInv, Enter
<1>2. /\ SortsKept /\ ~ExprFrame(Top, ast)
      /\ \A j \in 1 .. Len(sorts) : ast'[Len(ast) + j].sort = sorts[j]
  BY <1>1, Entered
<1> DEFINE a == First(loop)
<1>3. a.at = "Visit" /\ a.node = Len(ast) + 1
  BY DEF First, Visit, Frame
<1>4. ExprFrame(a, ast')
  <2>1. 1 \in 1 .. Len(sorts)
    OBVIOUS
  <2> QED
    BY <1>2, <1>3, <2>1 DEF ExprFrame
<1>5. CASE Continue(<<a>>)
  <2> DEFINE fs == <<a>>
             U == {a}
  <2>1. fs \in Seq(U) /\ Len(fs) = 1 /\ fs[1] = a /\ Continue(fs)
    BY <1>5
  <2> HIDE DEF fs, U, a
  <2>2. \A j \in 1 .. Len(fs) : fs[j].at = "Visit"
    <3>1. \A j \in 1 .. Len(fs) : j = 1
      BY <2>1
    <3> QED
      BY <1>3, <2>1, <3>1
  <2> QED
    BY <1>1, <1>2, <2>1, <2>2, StmtSpreads
<1>6. ASSUME NEW f, f.at # "LogicRhs", CasesSorted(f, ast'), Continue(<<a, f>>)
      PROVE  DInv'
  <2> HIDE DEF a
  <2> QED
    BY <1>1, <1>2, <1>3, <1>4, <1>6, StmtCalls
<1> QED
  BY <1>5, <1>6

LEMMA FirstsD ==
    ASSUME BInv, IInv', DInv, VisitExprStmt \/ VisitIf \/ VisitRet PROVE DInv'
<1>1. {"expr", "if", "ret"} \subseteq StmtKinds /\ {"stmt", "expr", "value"} \subseteq Sorts
  BY DEF StmtKinds, Sorts
<1>2. mir' = mir => Quiet(mir, mir')
  BY NothingQuiet
<1>3. CASE VisitExprStmt
  <2> DEFINE sorts == <<"expr">>
  <2>1. Enter("expr", sorts) /\ Continue(<<First(Top.loop)>>) /\ mir' = mir
    BY <1>3 DEF VisitExprStmt
  <2>2. sorts \in Seq(Sorts) /\ Len(sorts) = 1 /\ sorts[1] = "expr"
    BY <1>1
  <2> HIDE DEF sorts
  <2> QED
    BY <1>1, <1>2, <2>1, <2>2, FirstD
<1>4. CASE VisitIf
  <2>1. PICK else \in {0, 1} :
          /\ Enter("if", <<"expr">> \o Stmts(1 + else))
          /\ Continue(<<First(Top.loop),
                        Handler("IfBranch", 2 + else, Top.loop)>>)
          /\ mir' = mir
    BY <1>4 DEF VisitIf
  <2> DEFINE cond == <<"expr">>
             arms == Stmts(1 + else)
             sorts == cond \o arms
             f == Handler("IfBranch", 2 + else, Top.loop)
  <2>2. cond \in Seq(Sorts) /\ Len(cond) = 1 /\ cond[1] = "expr"
    BY <1>1
  <2>3. arms \in Seq(Sorts) /\ Len(arms) \in Nat
    BY StmtsOK
  <2>4. Enter("if", sorts) /\ Continue(<<First(Top.loop), f>>)
    BY <2>1
  <2> HIDE DEF cond, arms
  <2>5. sorts \in Seq(Sorts) /\ Len(sorts) >= 1 /\ sorts[1] = "expr"
    BY <2>2, <2>3, ConcatParts
  <2>6. f.at = "IfBranch"
    BY HandlerAt
  <2> HIDE DEF sorts, f
  <2>7. f.at # "LogicRhs" /\ CasesSorted(f, ast')
    BY <2>6 DEF CasesSorted
  <2> QED
    BY <1>1, <1>2, <2>1, <2>4, <2>5, <2>7, FirstD
<1>5. CASE VisitRet
  <2> DEFINE sort == IF ret = "aggregate" THEN "value" ELSE "expr"
             sorts == <<sort>>
             f == Handler("RetValue", 1, Top.loop)
  <2>1. Enter("ret", sorts) /\ Continue(<<First(Top.loop), f>>) /\ mir' = mir
    BY <1>5 DEF VisitRet
  <2>2. sort \in Sorts /\ sort # "stmt"
    BY <1>1
  <2> HIDE DEF sort
  <2>3. sorts \in Seq(Sorts) /\ Len(sorts) >= 1 /\ sorts[1] # "stmt"
    BY <2>2
  <2>4. f.at = "RetValue"
    BY HandlerAt
  <2> HIDE DEF sorts, f
  <2>5. f.at # "LogicRhs" /\ CasesSorted(f, ast')
    BY <2>4 DEF CasesSorted
  <2> QED
    BY <1>1, <1>2, <2>1, <2>3, <2>5, FirstD
<1> QED
  BY <1>3, <1>4, <1>5

LEMMA VisitMatchD ==
    ASSUME BInv, IInv', DInv, VisitMatch PROVE DInv'
<1>1. PICK c \in 1 .. MaxStmts, default \in {0, 1} :
        /\ Enter("match", (<<"expr">> \o CaseSorts(c)) \o Stmts(default))
        /\ Continue(<<First(Top.loop),
                      Handler("MatchChains", 1 + 2 * c + default, Top.loop)>>)
        /\ mir' = mir
  BY DEF VisitMatch
<1> DEFINE one == <<"expr">>
           both == CaseSorts(c)
           most == one \o both
           last == Stmts(default)
           sorts == most \o last
           d == 1 + 2 * c + default
           f == Handler("MatchChains", d, Top.loop)
<1>2. c \in Nat \ {0} /\ default \in {0, 1}
  BY BoundsAssumption
<1>3. /\ one \in Seq(Sorts) /\ Len(one) = 1 /\ one[1] = "expr"
      /\ both \in Seq(Sorts) /\ Len(both) = 2 * c
      /\ \A j \in 1 .. 2 * c : j % 2 = 1 => both[j] = "expr"
      /\ last \in Seq(Sorts) /\ Len(last) = default
  <2>1. both \in Seq(Sorts) /\ Len(both) = 2 * c
    BY <1>2 DEF CaseSorts, Sorts
  <2>2. \A j \in 1 .. 2 * c : j % 2 = 1 => both[j] = "expr"
    BY DEF CaseSorts
  <2>3. last \in Seq(Sorts) /\ Len(last) = default
    BY <1>2, StmtsOK
  <2> QED
    BY <2>1, <2>2, <2>3 DEF Sorts
<1>4. Enter("match", sorts) /\ Continue(<<First(Top.loop), f>>)
  BY <1>1
<1> HIDE DEF one, both, last
<1>5. /\ most \in Seq(Sorts) /\ Len(most) = 1 + 2 * c /\ most[1] = "expr"
      /\ \A j \in 1 .. Len(most) : j > 1 =>
            j - 1 \in 1 .. 2 * c /\ most[j] = both[j - 1]
  <2>1. one \in Seq(Sorts) /\ both \in Seq(Sorts)
    BY <1>3
  <2>2. /\ most \in Seq(Sorts) /\ Len(most) = Len(one) + Len(both)
        /\ \A j \in 1 .. Len(one) : most[j] = one[j]
        /\ \A j \in 1 .. Len(most) : j > Len(one) =>
              j - Len(one) \in 1 .. Len(both) /\ most[j] = both[j - Len(one)]
    BY ONLY <2>1, ConcatParts
  <2> QED
    BY <1>3, <2>2
<1>6. \A i \in 1 .. c : 2 * i \in 1 .. Len(most) /\ most[2 * i] = "expr"
  <2> TAKE i \in 1 .. c
  <2>1. 2 * i \in 1 .. 1 + 2 * c /\ 2 * i > 1
    BY <1>2
  <2>2. most[2 * i] = both[2 * i - 1] /\ 2 * i - 1 \in 1 .. 2 * c
    BY <1>5, <2>1
  <2>3. (2 * i - 1) % 2 = 1
    BY <1>2
  <2> QED
    BY <1>3, <1>5, <2>1, <2>2, <2>3
<1> HIDE DEF most
<1>7. /\ sorts \in Seq(Sorts) /\ Len(sorts) = d
      /\ \A j \in 1 .. Len(most) : j \in 1 .. Len(sorts) /\ sorts[j] = most[j]
  <2>1. most \in Seq(Sorts) /\ last \in Seq(Sorts)
    BY <1>3, <1>5
  <2>2. /\ sorts \in Seq(Sorts) /\ Len(sorts) = Len(most) + Len(last)
        /\ \A j \in 1 .. Len(most) : sorts[j] = most[j]
    BY ONLY <2>1, ConcatParts
  <2> HIDE DEF sorts
  <2>3. Len(sorts) = d
    BY <1>3, <1>5, <2>2
  <2>4. Len(most) \in Nat /\ \A j \in 1 .. Len(most) : j \in 1 .. Len(sorts)
    BY <1>2, <1>3, <1>5, <2>2
  <2> QED
    BY <2>2, <2>3, <2>4
<1> HIDE DEF sorts
<1>8. Len(sorts) >= 1 /\ sorts[1] # "stmt" /\ "match" \in StmtKinds
  <2>1. 1 \in 1 .. Len(most)
    BY <1>2, <1>5
  <2> QED
    BY <1>2, <1>5, <1>7, <2>1 DEF StmtKinds
<1>9. f.at = "MatchChains" /\ f.kids = NewKids(d)
  BY HandlerAt
<1> HIDE DEF f
<1>10. CasesSorted(f, ast')
  <2>1. Len(f.kids) = d /\ \A j \in 1 .. d : f.kids[j] = Len(ast) + j
    <3>1. d \in Nat
      BY <1>2
    <3> QED
      BY <1>9, <3>1 DEF NewKids
  <2>2. Cases(f.kids) = c
    <3>1. (d - 1) \div 2 = c
      BY <1>2
    <3> QED
      BY <2>1, <3>1 DEF Cases
  <2>3. \A j \in 1 .. Len(sorts) : ast'[Len(ast) + j].sort = sorts[j]
    <3>1. IInv /\ "match" \in StmtKinds \cup ExprKinds
      BY <1>8 DEF BInv
    <3> QED
      BY <1>4, <1>7, <3>1, Entered
  <2> SUFFICES ASSUME NEW i \in 1 .. c
               PROVE  ast'[f.kids[2 * i]].sort # "stmt"
    BY <2>2 DEF CasesSorted
  <2>4. 2 * i \in 1 .. Len(sorts) /\ sorts[2 * i] = "expr"
    BY <1>6, <1>7
  <2> QED
    BY <1>7, <2>1, <2>3, <2>4
<1>11. Quiet(mir, mir')
  BY <1>1, NothingQuiet
<1>12. f.at # "LogicRhs"
  BY <1>9
<1> QED
  BY <1>4, <1>7, <1>8, <1>10, <1>11, <1>12, FirstD

\* 'break', 'continue' and a bare 'ret'.
LEMMA LeavesD ==
    ASSUME BInv, IInv', DInv, VisitBreak \/ VisitContinue \/ VisitRetVoid
    PROVE  DInv'
<1> DEFINE sorts == <<>>
<1>1. PICK kind \in {"break", "continue", "ret"} :
         Enter(kind, sorts) /\ Continue(<<>>)
  BY DEF VisitBreak, VisitContinue, VisitRetVoid
<1>2. /\ IInv /\ phase = "gen" /\ kind \in StmtKinds /\ sorts \in Seq(Sorts)
  BY <1>1 DEF BInv, Enter, StmtKinds
<1>3. SortsKept /\ Top.at = "Visit" /\ ~ExprFrame(Top, ast)
  <2> HIDE DEF sorts
  <2> QED
    BY <1>1, <1>2, Entered
<1>4. /\ Basic(mir) /\ mir.insert \in Blocks(mir) /\ Top.node \in Nat
      /\ Ret(Top.node) \in Inst /\ Ret(Top.node).op = "ret"
  BY <1>2, DRunning
<1>5. ASSUME NEW d \in Nat \ {0}, mir' = BuildJmp(mir, d)
      PROVE  Quiet(mir, mir')
  <2>1. Adds(mir, mir', Jmp(d)) /\ Jmp(d) \in Inst
    BY <1>4, <1>5, BranchCode
  <2>2. Jmp(d).op = "jmp"
    BY DEF Jmp, Plain
  <2> QED
    BY <2>1, <2>2 DEF Quiet, Computing
<1>6. Top.loop => mCond \in Nat \ {0} /\ mMerge \in Nat \ {0}
  <2> SUFFICES ASSUME Top.loop
               PROVE  mCond \in Nat \ {0} /\ mMerge \in Nat \ {0}
    OBVIOUS
  <2>1. /\ Len(ast) \in Nat /\ Len(mir.code) \in Nat
        /\ StackOK(stack, Len(ast), Len(mir.code)) /\ stack # <<>>
        /\ LoopsOK(stack, mCond, mMerge) /\ Head(stack).loop
    BY <1>2, InHandler DEF Top
  <2>2. mCond \in 1 .. Len(mir.code) /\ mMerge \in 1 .. Len(mir.code)
    BY <2>1, LoopTargets
  <2> QED
    BY <2>1, <2>2
<1>7. ASSUME VisitBreak \/ VisitContinue PROVE Quiet(mir, mir')
  <2>1. Top.loop /\ mir' \in {BuildJmp(mir, mMerge), BuildJmp(mir, mCond)}
    BY <1>7 DEF VisitBreak, VisitContinue
  <2> QED
    BY <1>5, <1>6, <2>1
<1>8. ASSUME VisitRetVoid PROVE Quiet(mir, mir')
  <2>1. mir' = Emit(mir, Ret(Top.node))
    BY <1>8 DEF VisitRetVoid, BuildRet
  <2> QED
    BY <1>4, <2>1, PlainQuiet
<1>9. Quiet(mir, mir')
  BY <1>1, <1>7, <1>8
<1> HIDE DEF sorts
<1>10. BInv /\ IInv' /\ DInv /\ phase = "gen" /\ SortsKept
       /\ ~ExprFrame(Top, ast) /\ Continue(<<>>) /\ Quiet(mir, mir')
  BY <1>1, <1>2, <1>3, <1>9
<1> QED
  BY <1>10, StmtReturns

-----------------------------------------------------------------------------
(* The statements that branch.                                             *)

\* A branch, in a function that has got new blocks.
LEMMA BranchAfter ==
    ASSUME NEW m, Basic(m), m.insert \in Blocks(m), NEW n, Basic(n),
           SameCode(m, n), n.insert = m.insert, NEW v \in Nat,
           NEW t \in Nat \ {0}, NEW f \in Nat \ {0}
    PROVE  /\ Basic(BuildJmp(n, t)) /\ Quiet(m, BuildJmp(n, t))
           /\ Basic(BuildBrif(n, v, t, f))
           /\ Held(m, v) => Quiet(m, BuildBrif(n, v, t, f))
<1> DEFINE p == BuildJmp(n, t)
           q == BuildBrif(n, v, t, f)
<1>1. n.insert \in Blocks(n)
  BY DEF SameCode
<1>2. /\ Basic(p) /\ Adds(n, p, Jmp(t)) /\ Jmp(t) \in Inst
      /\ Basic(q) /\ Adds(n, q, Brif(v, t, f)) /\ Brif(v, t, f) \in Inst
  BY <1>1, BranchCode
<1> HIDE DEF p, q
<1>3. Adds(m, p, Jmp(t)) /\ Adds(m, q, Brif(v, t, f))
  BY <1>2, CodeTwice
<1>4. /\ Jmp(t).op = "jmp"
      /\ Brif(v, t, f).op = "brif" /\ Brif(v, t, f).use = v
  BY DEF Jmp, Brif, Plain
<1>5. Quiet(m, p)
  BY <1>2, <1>3, <1>4 DEF Quiet, Computing
<1>6. Held(m, v) => Quiet(m, q)
  BY <1>2, <1>3, <1>4 DEF Quiet, Computing
<1> QED
  BY <1>2, <1>5, <1>6 DEF p, q

\* The blocks of 'if', a case or a loop are allocated and one is opened.
LEMMA BlocksQuiet ==
    ASSUME NEW m, Basic(m), m.insert \in Blocks(m), NEW k \in Nat,
           NEW o \in Nat \ {0}, NEW v \in Nat, NEW t \in Nat \ {0},
           NEW f \in Nat \ {0}
    PROVE  LET n == AppendBlock(NewBlocks(m, k), o) IN
           /\ Quiet(m, SetInsert(BuildJmp(n, o), o))
           /\ Held(m, v) => Quiet(m, SetInsert(BuildBrif(n, v, t, f), o))
           /\ Quiet(m, SetInsert(AppendBlock(BuildJmp(NewBlocks(m, k), o), o), o))
<1> DEFINE b == NewBlocks(m, k)
           n == AppendBlock(b, o)
           j == BuildJmp(n, o)
           c == BuildBrif(n, v, t, f)
           g == BuildJmp(b, o)
<1>1. Basic(b) /\ SameCode(m, b) /\ b.insert = m.insert
  BY NewCode
<1> HIDE DEF b
<1>2. Basic(n) /\ SameCode(m, n) /\ n.insert = m.insert
  <2>1. Basic(n) /\ SameCode(b, n) /\ n.insert = b.insert
    BY <1>1, MoveCode
  <2> HIDE DEF n
  <2> QED
    BY <1>1, <2>1, CodeTwice
<1> HIDE DEF n
<1>3. /\ Basic(j) /\ Quiet(m, j) /\ Basic(c)
      /\ Held(m, v) => Quiet(m, c)
  BY <1>2, BranchAfter
<1>4. Basic(g) /\ Quiet(m, g)
  BY <1>1, BranchAfter
<1> HIDE DEF j, c, g
<1>5. SameCode(j, SetInsert(j, o)) /\ SameCode(c, SetInsert(c, o))
  BY <1>3, MoveCode
<1>6. Held(m, v) => Quiet(m, SetInsert(c, o))
  BY <1>3, <1>5, QuietThen
<1>7. Quiet(m, SetInsert(AppendBlock(g, o), o))
  BY <1>4, OpenQuiet
<1>8. Quiet(m, SetInsert(j, o))
  BY <1>3, <1>5, QuietThen
<1> QED
  BY <1>6, <1>7, <1>8 DEF b, n, j, c, g

\* The handler of a statement at the top of the stack.
LEMMA StmtTop ==
    ASSUME BInv, DInv, phase = "gen", UNCHANGED ast, Top.at # "Visit",
           Top.at \notin {"OpEnd", "LogicLhs", "LogicRhs"}
    PROVE  /\ SortsKept /\ ~ExprFrame(Top, ast) /\ CasesSorted(Top, ast')
           /\ Top.at \in Branching => Held(mir, mValue)
           /\ \A k : VisitKid(k).at = "Visit" /\ VisitKid(k).node = Top.kids[k]
<1>1. IInv /\ stack # <<>> /\ Top = stack[1] /\ Len(stack) \in Nat \ {0}
  BY BRunning
<1>2. SortsKept
  BY <1>1, SameTree
<1>3. ~ExprFrame(Top, ast)
  BY DEF ExprFrame
<1>4. 1 \in 1 .. Len(stack)
  BY <1>1
<1>5. CasesSorted(stack[1], ast)
  BY <1>4 DEF DInv
<1>6. Top.at \in Branching => Held(mir, mValue)
  BY <1>1 DEF DInv, ValueReady
<1>7. \A k : VisitKid(k).at = "Visit" /\ VisitKid(k).node = Top.kids[k]
  BY DEF VisitKid, Visit, Frame
<1> QED
  BY <1>1, <1>2, <1>3, <1>5, <1>6, <1>7

LEMMA IfBranchD ==
    ASSUME BInv, IInv', DInv, IfBranch PROVE DInv'
<1> DEFINE c    == Len(mir.code)
           else == HasElse(Top.kids)
           k    == IF else THEN 3 ELSE 2
           o    == c + 1
           e    == IF else THEN c + 3 ELSE None
           f    == IF else THEN c + 3 ELSE c + 2
           b    == [Top EXCEPT !.at = "IfThenEnd", !.merge = c + 2, !.alt = e]
<1>1. /\ phase = "gen" /\ Top.at = "IfBranch" /\ ast' = ast
      /\ mir' = SetInsert(BuildBrif(AppendBlock(NewBlocks(mir, k), o),
                                    mValue, o, f), o)
      /\ Continue(<<VisitKid(2), b>>)
  BY DEF IfBranch, Resume
<1>2. /\ IInv /\ Basic(mir) /\ mir.insert \in Blocks(mir) /\ c \in Nat
      /\ mValue \in Nat
  BY <1>1, DRunning
<1>3. b.at = "IfThenEnd"
  BY <1>1, <1>2, Resumed
<1> HIDE DEF b
<1>4. k \in Nat /\ o \in Nat \ {0} /\ f \in Nat \ {0}
  BY <1>2
<1>5. /\ SortsKept /\ ~ExprFrame(Top, ast) /\ Held(mir, mValue)
      /\ VisitKid(2).at = "Visit"
  BY <1>1, StmtTop DEF Branching
<1> HIDE DEF k, o, f
<1>6. Quiet(mir, mir')
  BY <1>1, <1>2, <1>4, <1>5, BlocksQuiet
<1>7. b.at # "LogicRhs" /\ b.at \notin Reads /\ CasesSorted(b, ast')
  BY <1>3 DEF Reads, CasesSorted
<1> QED
  BY <1>1, <1>5, <1>6, <1>7, StmtCalls

\* The arm that is left is closed.
LEMMA ArmClosed ==
    ASSUME BInv, phase = "gen", NEW d \in Nat \ {0}, NEW o \in Nat
    PROVE  LET n == JmpIfOpen(mir, d) IN
           /\ Quiet(mir, n)
           /\ Quiet(mir, SetInsert(AppendBlock(n, o), o))
           /\ Quiet(mir, EmitMerge(n, o))
<1>1. Basic(mir) /\ mir.insert \in Blocks(mir)
  BY DRunning
<1> DEFINE n == JmpIfOpen(mir, d)
<1>2. Basic(n) /\ Quiet(mir, n)
  BY <1>1, JmpOpenQuiet
<1> HIDE DEF n
<1>3. Quiet(mir, SetInsert(AppendBlock(n, o), o)) /\ Quiet(mir, EmitMerge(n, o))
  BY <1>1, <1>2, OpenQuiet, MergeQuiet
<1> QED
  BY <1>2, <1>3 DEF n

LEMMA ArmEndsD ==
    ASSUME BInv, IInv', DInv, IfThenEnd \/ IfElseEnd \/ MatchDefaultEnd
    PROVE  DInv'
<1>1. /\ phase = "gen" /\ ast' = ast
      /\ Top.at \in {"IfThenEnd", "IfElseEnd", "MatchDefaultEnd"}
  BY DEF IfThenEnd, IfElseEnd, MatchDefaultEnd, Resume
<1>2. IInv /\ Top.merge \in Nat \ {0} /\ Top.alt \in Nat
  BY <1>1, InHandler DEF BInv, FrameReady, FrameType, None
<1>3. SortsKept /\ ~ExprFrame(Top, ast) /\ VisitKid(3).at = "Visit"
  BY <1>1, StmtTop
<1>4. /\ Quiet(mir, EmitMerge(JmpIfOpen(mir, Top.merge), Top.merge))
      /\ Quiet(mir, SetInsert(AppendBlock(JmpIfOpen(mir, Top.merge), Top.alt),
                              Top.alt))
  BY <1>1, <1>2, ArmClosed
<1>5. CASE /\ mir' = EmitMerge(JmpIfOpen(mir, Top.merge), Top.merge)
           /\ Continue(<<>>)
  BY <1>1, <1>3, <1>4, <1>5, StmtReturns
<1> DEFINE b == [Top EXCEPT !.at = "IfElseEnd"]
<1>6. CASE /\ mir' = SetInsert(AppendBlock(JmpIfOpen(mir, Top.merge), Top.alt),
                               Top.alt)
           /\ Continue(<<VisitKid(3), b>>)
  <2>1. b.at = "IfElseEnd"
    BY <1>1, <1>2, Resumed
  <2>2. Quiet(mir, mir') /\ Continue(<<VisitKid(3), b>>)
    BY <1>4, <1>6
  <2> HIDE DEF b
  <2>3. b.at # "LogicRhs" /\ b.at \notin Reads /\ CasesSorted(b, ast')
    BY <2>1 DEF Reads, CasesSorted
  <2> QED
    BY <1>1, <1>3, <2>2, <2>3, StmtCalls
<1> QED
  BY <1>5, <1>6 DEF IfThenEnd, IfElseEnd, MatchDefaultEnd

LEMMA MatchChainsD ==
    ASSUME BInv, IInv', DInv, MatchChains PROVE DInv'
<1> DEFINE c == Len(mir.code)
           d == IF HasDefault(Top.kids) THEN 2 ELSE 1
           k == Cases(Top.kids) + d
           f == [Top EXCEPT !.at = "MatchCompare", !.i = 1,
                            !.merge = c + 1, !.alt = c + d]
           o == ChainBB(f, 1)
           a == VisitKid(2)
<1>1. /\ phase = "gen" /\ Top.at = "MatchChains" /\ ast' = ast
      /\ mir' = OpenChain(BuildJmp(NewBlocks(mir, k), o), f)
      /\ Continue(<<a, f>>)
  BY DEF MatchChains, Resume
<1>2. /\ IInv /\ Basic(mir) /\ mir.insert \in Blocks(mir) /\ c \in Nat
      /\ mValue \in Nat /\ Cases(Top.kids) \in Nat \ {0}
  BY <1>1, DRunning, InHandler DEF FrameReady
<1>3. f.at = "MatchCompare" /\ f.kids = Top.kids /\ f.i = 1 /\ f.alt = c + d
  BY <1>1, <1>2, Resumed
<1> HIDE DEF f
<1>4. d \in {1, 2} /\ k \in Nat
  BY <1>2
<1> HIDE DEF d, k
<1>5. /\ o \in Nat \ {0}
      /\ mir' = SetInsert(AppendBlock(BuildJmp(NewBlocks(mir, k), o), o), o)
  BY <1>1, <1>2, <1>3, <1>4 DEF OpenChain, ChainBB
<1> HIDE DEF o
<1>6. /\ SortsKept /\ ~ExprFrame(Top, ast) /\ CasesSorted(Top, ast')
      /\ a.at = "Visit" /\ a.node = Top.kids[2]
  BY <1>1, StmtTop
<1> HIDE DEF a
<1>7. Quiet(mir, mir')
  BY <1>2, <1>4, <1>5, BlocksQuiet
<1>8. CasesSorted(f, ast')
  BY <1>1, <1>3, <1>6 DEF CasesSorted
<1>9. ExprFrame(a, ast')
  <2>1. 1 \in 1 .. Cases(Top.kids) /\ 2 * 1 = 2
    BY <1>2
  <2>2. ast'[Top.kids[2 * 1]].sort # "stmt"
    BY <1>1, <1>6, <2>1 DEF CasesSorted
  <2> QED
    BY <1>6, <2>1, <2>2 DEF ExprFrame
<1>10. f.at # "LogicRhs"
  BY <1>3
<1> QED
  BY <1>1, <1>6, <1>7, <1>8, <1>9, <1>10, StmtCalls

LEMMA MatchCompareD ==
    ASSUME BInv, IInv', DInv, MatchCompare PROVE DInv'
<1> DEFINE c == Len(mir.code)
           o == c + 1
           x == NextBB(Top)
           a == VisitKid(2 * Top.i + 1)
           b == [Top EXCEPT !.at = "MatchCaseEnd"]
<1>1. /\ phase = "gen" /\ Top.at = "MatchCompare" /\ ast' = ast
      /\ mir' = SetInsert(BuildBrif(AppendBlock(NewBlocks(mir, 1), o),
                                    mValue, o, x), o)
      /\ Continue(<<a, b>>)
  BY DEF MatchCompare, Resume
<1>2. /\ IInv /\ Basic(mir) /\ mir.insert \in Blocks(mir) /\ c \in Nat
      /\ mValue \in Nat
  BY <1>1, DRunning
<1>3. Top.i \in Nat /\ Top.alt \in Nat \ {0} /\ Top.merge \in Nat \ {0}
  BY <1>1, <1>2, InHandler DEF FrameReady, FrameType, None
<1>4. o \in Nat \ {0} /\ x \in Nat \ {0}
  BY <1>2, <1>3 DEF NextBB, ChainBB, DefBB
<1>5. b.at = "MatchCaseEnd" /\ b.kids = Top.kids
  BY <1>1, <1>2, Resumed
<1>6. /\ SortsKept /\ ~ExprFrame(Top, ast) /\ CasesSorted(Top, ast')
      /\ Held(mir, mValue) /\ a.at = "Visit"
  BY <1>1, StmtTop DEF Branching
<1> HIDE DEF a, b, o, x
<1>7. Quiet(mir, mir')
  BY <1>1, <1>2, <1>4, <1>6, BlocksQuiet
<1>8. b.at # "LogicRhs" /\ b.at \notin Reads /\ CasesSorted(b, ast')
  BY <1>1, <1>5, <1>6 DEF Reads, CasesSorted
<1> QED
  BY <1>1, <1>6, <1>7, <1>8, StmtCalls

LEMMA MatchCaseEndD ==
    ASSUME BInv, IInv', DInv, MatchCaseEnd PROVE DInv'
<1> DEFINE m == Top.merge
           i == Top.i
           o == Top.alt
           n == Cases(Top.kids)
<1>1. /\ phase = "gen" /\ Top.at = "MatchCaseEnd" /\ ast' = ast
  BY DEF MatchCaseEnd, Resume
<1>2. IInv /\ m \in Nat \ {0} /\ i \in 1 .. n /\ o \in Nat /\ Top.kids \in Seq(Nat)
  BY <1>1, InHandler DEF BInv, FrameReady, FrameType, None
<1>3. n \in Int
  BY <1>2, CasesOK
<1>4. /\ SortsKept /\ ~ExprFrame(Top, ast) /\ CasesSorted(Top, ast')
      /\ \A k : VisitKid(k).at = "Visit" /\ VisitKid(k).node = Top.kids[k]
  BY <1>1, StmtTop
<1> HIDE DEF m, i, o, n
<1>5. ASSUME i < n PROVE DInv'
  <2> DEFINE b == [Top EXCEPT !.at = "MatchCompare", !.i = i + 1]
             a == VisitKid(2 * i + 2)
             h == o + (i + 1)
  <2>1. b = [Top EXCEPT !.at = "MatchCompare", !.i = @ + 1]
    BY <1>1, <1>2, InHandler DEF FrameType, i
  <2>2. /\ mir' = OpenChain(JmpIfOpen(mir, m), b) /\ Continue(<<a, b>>)
    <3>1. i # n
      BY <1>2, <1>3, <1>5
    <3>2. Top.i # Cases(Top.kids)
      BY <3>1 DEF i, n
    <3> QED
      BY <2>1, <3>2 DEF MatchCaseEnd, m, i
  <2>3. /\ b.at = "MatchCompare" /\ b.kids = Top.kids /\ b.i = i + 1
        /\ b.alt = o
    BY <1>1, <1>2, Resumed DEF o
  <2>4. a.at = "Visit" /\ a.node = Top.kids[2 * i + 2]
    BY <1>4
  <2> HIDE DEF b, a
  <2>5. mir' = SetInsert(AppendBlock(JmpIfOpen(mir, m), h), h) /\ h \in Nat
    BY <1>2, <1>3, <2>2, <2>3 DEF OpenChain, ChainBB
  <2> HIDE DEF h
  <2>6. Quiet(mir, mir')
    BY <1>1, <1>2, <2>5, ArmClosed
  <2>7. CasesSorted(b, ast')
    BY <1>1, <1>4, <2>3 DEF CasesSorted
  <2>8. ExprFrame(a, ast')
    <3>1. i + 1 \in 1 .. n /\ 2 * (i + 1) = 2 * i + 2
      BY <1>2, <1>3, <1>5
    <3>2. ast'[Top.kids[2 * (i + 1)]].sort # "stmt"
      BY <1>1, <1>4, <3>1 DEF CasesSorted, n
    <3> QED
      BY <2>4, <3>1, <3>2 DEF ExprFrame
  <2>9. b.at # "LogicRhs"
    BY <2>3
  <2> QED
    BY <1>1, <1>4, <2>2, <2>4, <2>6, <2>7, <2>8, <2>9, StmtCalls
<1>6. ASSUME i = n, HasDefault(Top.kids) PROVE DInv'
  <2> DEFINE b == [Top EXCEPT !.at = "MatchDefaultEnd"]
             a == VisitKid(Len(Top.kids))
  <2>1. /\ mir' = SetInsert(AppendBlock(JmpIfOpen(mir, m), o), o)
        /\ Continue(<<a, b>>)
    <3>1. ~(i < n)
      BY <1>3, <1>6
    <3>2. ~(Top.i < Cases(Top.kids))
      BY <3>1 DEF i, n
    <3> QED
      BY <1>6, <3>2 DEF MatchCaseEnd, DefBB, m, o
  <2>2. b.at = "MatchDefaultEnd"
    BY <1>1, <1>2, Resumed
  <2>3. a.at = "Visit"
    BY <1>4
  <2> HIDE DEF b, a
  <2>4. Quiet(mir, mir')
    BY <1>1, <1>2, <2>1, ArmClosed
  <2>5. b.at # "LogicRhs" /\ b.at \notin Reads /\ CasesSorted(b, ast')
    BY <2>2 DEF Reads, CasesSorted
  <2> QED
    BY <1>1, <1>4, <2>1, <2>3, <2>4, <2>5, StmtCalls
<1>7. ASSUME i = n, ~HasDefault(Top.kids) PROVE DInv'
  <2>1. mir' = EmitMerge(JmpIfOpen(mir, m), m) /\ Continue(<<>>)
    <3>1. ~(i < n)
      BY <1>3, <1>7
    <3>2. ~(Top.i < Cases(Top.kids))
      BY <3>1 DEF i, n
    <3> QED
      BY <1>7, <3>2 DEF MatchCaseEnd, m
  <2>2. Quiet(mir, mir')
    BY <1>1, <1>2, <2>1, ArmClosed
  <2> QED
    BY <1>1, <1>4, <2>1, <2>2, StmtReturns
<1>8. i < n \/ i = n
  BY <1>2, <1>3
<1> QED
  BY <1>5, <1>6, <1>7, <1>8

\* The value of a 'ret' is returned or copied; the function ends.
LEMMA ReturnsD ==
    ASSUME BInv, IInv', DInv, RetValue \/ DefineEnd PROVE DInv'
<1>1. /\ phase = "gen" /\ Top.at \in {"RetValue", "DefineEnd"} /\ ast' = ast
      /\ Continue(<<>>)
      /\ mir' \in {mir, BuildRet(mir, 0), BuildRet(mir, Top.node),
                   Emit(mir, Copy(Top.node))}
  BY DEF RetValue, DefineEnd, Resume
<1>2. /\ Basic(mir) /\ mir.insert \in Blocks(mir) /\ Top.node \in Nat
      /\ \A n \in Nat : /\ Ret(n) \in Inst /\ Ret(n).op = "ret"
                        /\ Copy(n) \in Inst /\ Copy(n).op = "copy"
  BY <1>1, DRunning
<1>3. SortsKept /\ ~ExprFrame(Top, ast)
  BY <1>1, StmtTop
<1>4. \A n \in Nat : Quiet(mir, Emit(mir, Ret(n))) /\ Quiet(mir, Emit(mir, Copy(n)))
  BY <1>2, PlainQuiet
<1>5. Quiet(mir, mir')
  <2>1. Quiet(mir, mir)
    BY NothingQuiet
  <2> QED
    BY <1>1, <1>2, <1>4, <2>1 DEF BuildRet
<1> QED
  BY <1>1, <1>3, <1>5, StmtReturns

LEMMA VisitUntilD ==
    ASSUME BInv, IInv', DInv, VisitUntil PROVE DInv'
<1> DEFINE c == Len(mir.code)
           o == c + 1
           sorts == <<"expr", "stmt">>
           g == Handler("UntilBranch", 2, TRUE)
           b == [g EXCEPT !.merge = c + 3, !.alt = c + 2, !.from = c + 1,
                          !.oldCond = mCond, !.oldMerge = mMerge]
<1>1. /\ Enter("until", sorts)
      /\ mir' = SetInsert(BuildJmp(AppendBlock(NewBlocks(mir, 3), o), o), o)
      /\ Continue(<<First(TRUE), b>>)
  BY DEF VisitUntil
<1>2. /\ phase = "gen" /\ "until" \in StmtKinds /\ sorts \in Seq(Sorts)
      /\ Len(sorts) >= 1 /\ sorts[1] # "stmt"
  BY <1>1 DEF Enter, StmtKinds, Sorts
<1> HIDE DEF sorts
<1>3. /\ Basic(mir) /\ mir.insert \in Blocks(mir) /\ c \in Nat /\ mValue \in Nat
  BY <1>2, DRunning
<1>4. b.at = "UntilBranch"
  BY DEF Handler, Frame
<1> HIDE DEF g, b
<1>5. o \in Nat \ {0}
  BY <1>3
<1> HIDE DEF o
<1>6. Quiet(mir, mir')
  BY <1>1, <1>3, <1>5, BlocksQuiet
<1>7. b.at # "LogicRhs" /\ CasesSorted(b, ast')
  BY <1>4 DEF CasesSorted
<1> QED
  BY <1>1, <1>2, <1>6, <1>7, FirstD

LEMMA UntilBranchD ==
    ASSUME BInv, IInv', DInv, UntilBranch PROVE DInv'
<1> DEFINE x == Top.merge
           o == Top.alt
           n == BuildBrif(mir, mValue, x, o)
           b == [Top EXCEPT !.at = "UntilBodyEnd"]
           a == VisitKid(2)
<1>1. /\ phase = "gen" /\ Top.at = "UntilBranch" /\ ast' = ast
      /\ mir' = SetInsert(AppendBlock(n, o), o)
      /\ Continue(<<a, b>>)
  BY DEF UntilBranch, Resume
<1>2. /\ IInv /\ Basic(mir) /\ mir.insert \in Blocks(mir) /\ mValue \in Nat
  BY <1>1, DRunning
<1>3. x \in Nat \ {0} /\ o \in Nat \ {0}
  BY <1>1, <1>2, InHandler DEF FrameReady, FrameType, None
<1>4. b.at = "UntilBodyEnd"
  BY <1>1, <1>2, Resumed
<1>5. /\ SortsKept /\ ~ExprFrame(Top, ast) /\ Held(mir, mValue)
      /\ a.at = "Visit"
  BY <1>1, StmtTop DEF Branching
<1> HIDE DEF a, b, o, x
<1>6. Basic(n) /\ Quiet(mir, n)
  <2>1. SameCode(mir, mir)
    BY DEF SameCode
  <2> QED
    BY <1>2, <1>3, <1>5, <2>1, BranchAfter
<1> HIDE DEF n
<1>7. Quiet(mir, mir')
  BY <1>1, <1>2, <1>3, <1>6, OpenQuiet
<1>8. b.at # "LogicRhs" /\ b.at \notin Reads /\ CasesSorted(b, ast')
  BY <1>4 DEF Reads, CasesSorted
<1> QED
  BY <1>1, <1>5, <1>7, <1>8, StmtCalls

LEMMA UntilBodyEndD ==
    ASSUME BInv, IInv', DInv, UntilBodyEnd PROVE DInv'
<1>1. /\ phase = "gen" /\ Top.at = "UntilBodyEnd" /\ ast' = ast
      /\ Continue(<<>>)
      /\ LET n == JmpIfOpen(mir, Top.from) IN
         mir' \in {n, SetInsert(AppendBlock(n, Top.merge), Top.merge)}
  BY DEF UntilBodyEnd, Resume, LoopBack
<1>2. Top.from \in Nat \ {0} /\ Top.merge \in Nat
  BY <1>1, InHandler DEF BInv, FrameReady, FrameType, None
<1>3. SortsKept /\ ~ExprFrame(Top, ast)
  BY <1>1, StmtTop
<1>4. Quiet(mir, mir')
  BY <1>1, <1>2, ArmClosed
<1> QED
  BY <1>1, <1>3, <1>4, StmtReturns

\* The entry block is empty.
LEMMA DefineFunctionD ==
    ASSUME BInv, IInv', DInv, DefineFunction PROVE DInv'
<1> DEFINE b == NewBlocks(mir, 1)
           a == AppendBlock(b, 1)
<1>1. /\ mir = EmptyBody /\ mir' = SetInsert(a, 1) /\ ast' = ast
      /\ stack' = <<Visit(1, FALSE), Frame("DefineEnd", 1, <<>>, FALSE)>>
  BY DEF DefineFunction, BInv
<1>2. Basic(mir) /\ Blocks(mir) = {}
  BY <1>1 DEF Basic, EmptyBody, Blocks, None
<1>3. SameCode(mir, mir')
  <2>1. Basic(b) /\ SameCode(mir, b)
    BY <1>2, NewCode
  <2> HIDE DEF b
  <2>2. Basic(a) /\ SameCode(b, a)
    BY <2>1, MoveCode
  <2> HIDE DEF a
  <2>3. SameCode(a, mir')
    BY <1>1, <2>2, MoveCode
  <2> QED
    BY <2>1, <2>2, <2>3 DEF SameCode
<1>4. \A x \in Blocks(mir') : mir'.code[x] = <<>>
  BY <1>2, <1>3 DEF SameCode
<1>5. Sourced(mir', Len(ast')) /\ Bare(mir')
  <2>1. \A x \in Blocks(mir') : 1 .. Len(mir'.code[x]) = {}
    BY <1>4
  <2> QED
    BY <1>4, <2>1 DEF Sourced, Bare
<1>6. Len(stack') = 2 /\ stack'[1].at = "Visit" /\ stack'[2].at = "DefineEnd"
      /\ Head(stack') = stack'[1]
  BY <1>1 DEF Visit, Frame
<1>7. \A j \in 1 .. Len(stack') : stack'[j].at \in {"Visit", "DefineEnd"}
  BY <1>6
<1>8. Waits(stack', ast') /\ \A j \in 1 .. Len(stack') : CasesSorted(stack'[j], ast')
  BY <1>7 DEF Waits, Reads, CasesSorted
<1>9. OpenRhs(stack', mir') /\ ValueReady'
  BY <1>6, <1>7 DEF OpenRhs, ValueReady, Branching, Top
<1> QED
  BY <1>5, <1>8, <1>9 DEF DInv

-----------------------------------------------------------------------------
(* Expressions.                                                            *)

\* A handler of an expression calls others, or returns with a value.
LEMMA ExprStep ==
    ASSUME BInv, IInv', DInv, phase = "gen", SortsKept,
           NEW U, NEW fs \in Seq(U), Continue(fs),
           \A j \in 1 .. Len(fs) : ExprFrame(fs[j], ast'),
           fs # <<>> => fs[1].at = "Visit",
           fs = <<>> => Held(mir', mValue'),
           Sourced(mir', Len(ast')), Bare(mir'),
           \/ ~HasTerminator(mir', mir'.insert)
           \/ /\ \A j \in 1 .. Len(fs) : fs[j].at # "LogicRhs"
              /\ HasTerminator(mir', mir'.insert) => HasTerminator(mir, mir.insert)
    PROVE  DInv'
<1>1. Waits(fs, ast') /\ \A j \in 1 .. Len(fs) : CasesSorted(fs[j], ast')
  BY DEF Waits, CasesSorted, ExprFrame
<1>2. /\ Waits(stack', ast')
      /\ \A j \in 1 .. Len(stack') : CasesSorted(stack'[j], ast')
      /\ \A j \in 1 .. Len(stack') :
            \/ j \in 1 .. Len(fs) /\ stack'[j] = fs[j]
            \/ \E h \in 2 .. Len(stack) : stack'[j] = stack[h]
      /\ fs # <<>> => stack' # <<>> /\ Head(stack') = fs[1]
  BY <1>1, FramesStep
<1>3. OpenRhs(stack', mir')
  <2> SUFFICES ASSUME NEW j \in 1 .. Len(stack'), stack'[j].at = "LogicRhs",
                      HasTerminator(mir', mir'.insert)
               PROVE  FALSE
    BY DEF OpenRhs
  <2>1. PICK h \in 2 .. Len(stack) : stack'[j] = stack[h]
    BY <1>2
  <2>2. Len(stack) \in Nat
    BY BRunning
  <2>3. h \in 1 .. Len(stack) /\ stack[h].at = "LogicRhs"
    BY <2>1, <2>2
  <2> QED
    BY <2>3 DEF DInv, OpenRhs
<1>4. ValueReady'
  <2>1. CASE fs = <<>>
    BY <2>1 DEF ValueReady
  <2>2. CASE fs # <<>>
    BY <1>2, <2>2 DEF ValueReady, Branching, Top
  <2> QED
    BY <2>1, <2>2
<1> QED
  BY <1>2, <1>3, <1>4 DEF DInv

\* The same without a call.
LEMMA ExprReturns ==
    ASSUME BInv, IInv', DInv, phase = "gen", SortsKept, Continue(<<>>),
           Held(mir', mValue'), Sourced(mir', Len(ast')), Bare(mir'),
           HasTerminator(mir', mir'.insert) => HasTerminator(mir, mir.insert)
    PROVE  DInv'
<1> DEFINE fs == <<>>
<1>1. Len(fs) = 0 /\ fs \in Seq({}) /\ Continue(fs) /\ fs = <<>>
  OBVIOUS
<1> HIDE DEF fs
<1>2. \A j : j \notin 1 .. Len(fs)
  BY <1>1
<1> QED
  BY <1>1, <1>2, ExprStep

\* The instruction added last, and the terminators of its block.
LEMMA AddedLast ==
    ASSUME NEW m, Basic(m), m.insert \in Blocks(m), NEW n, NEW x \in Inst,
           Adds(m, n, x), n.insert = m.insert, ~IsTerminator(x)
    PROVE  /\ Computing(x) => Held(n, x.node)
           /\ HasTerminator(n, n.insert) => HasTerminator(m, m.insert)
<1> DEFINE l == Len(m.code[m.insert])
<1>1. /\ Prefixed(m, n) /\ l \in Nat
      /\ Len(n.code[m.insert]) = l + 1 /\ n.code[m.insert][l + 1] = x
  BY PrefixAdds, BasicCode
<1>2. l + 1 \in 1 .. Len(n.code[m.insert])
  BY <1>1
<1>3. Computing(x) => Held(n, x.node)
  BY <1>1, <1>2 DEF Held, Computes
<1>4. ASSUME NEW j \in 1 .. Len(n.code[m.insert]),
             IsTerminator(n.code[m.insert][j])
      PROVE  HasTerminator(m, m.insert)
  <2>1. j # l + 1
    BY <1>1, <1>4
  <2>2. j \in 1 .. l
    BY <1>1, <2>1
  <2>3. n.code[m.insert][j] = m.code[m.insert][j]
    BY <1>1, <2>2 DEF Prefixed
  <2> QED
    BY <1>4, <2>2, <2>3 DEF HasTerminator
<1>5. HasTerminator(n, n.insert) => HasTerminator(m, m.insert)
  BY <1>4 DEF HasTerminator
<1> QED
  BY <1>3, <1>5

\* Straight-line code.
LEMMA EvalD ==
    ASSUME BInv, IInv', DInv, phase = "gen", SortsKept, Continue(<<>>),
           mir' = Emit(mir, Eval(Top.node)), mValue' = Top.node
    PROVE  DInv'
<1> DEFINE x == Eval(Top.node)
<1>1. /\ Basic(mir) /\ mir.insert \in Blocks(mir) /\ InLayout(mir, mir.insert)
      /\ Len(ast) \in Nat /\ Top.node \in 1 .. Len(ast) /\ Top.node \in Nat
      /\ x \in Inst /\ x.op = "eval" /\ x.node = Top.node
  <2>1. /\ Basic(mir) /\ mir.insert \in Blocks(mir) /\ InLayout(mir, mir.insert)
        /\ Len(ast) \in Nat /\ Top.node \in 1 .. Len(ast)
        /\ \A n \in Nat : /\ Eval(n) \in Inst /\ Eval(n).op = "eval"
                          /\ Eval(n).node = n
    BY DRunning
  <2> QED
    BY <2>1
<1> HIDE DEF x
<1>2. /\ Basic(mir') /\ Adds(mir, mir', x) /\ mir'.insert = mir.insert
  BY <1>1, EmitCode DEF x
<1>3. Len(ast') \in Nat /\ Len(ast) <= Len(ast')
  BY DEF SortsKept, IInv, TypeOK
<1>4. Computing(x) /\ ~IsTerminator(x) /\ x.node \in 1 .. Len(ast')
  BY <1>1, <1>3 DEF Computing, IsTerminator, Terminators
<1>5. /\ Held(mir', mValue')
      /\ HasTerminator(mir', mir'.insert) => HasTerminator(mir, mir.insert)
  BY <1>1, <1>2, <1>4, AddedLast
<1>6. Sourced(mir, Len(ast)) /\ Bare(mir)
  BY DEF DInv
<1>7. Sourced(mir', Len(ast'))
  <2>1. x.op # "brif" /\ x.op # "phi"
    BY <1>1
  <2> QED
    BY <1>1, <1>2, <1>3, <1>4, <1>6, <2>1, SourcedAdds
<1>8. Bare(mir')
  BY <1>1, <1>2, <1>6, BareKept
<1> QED
  BY <1>5, <1>7, <1>8, ExprReturns

LEMMA LeafD ==
    ASSUME BInv, IInv', DInv, VisitLeaf PROVE DInv'
<1> DEFINE sorts == <<>>
<1>1. /\ Enter("leaf", sorts) /\ Continue(<<>>)
      /\ mir' = Emit(mir, Eval(Top.node)) /\ mValue' = Top.node
  BY DEF VisitLeaf
<1>2. IInv /\ phase = "gen" /\ "leaf" \in ExprKinds /\ sorts \in Seq(Sorts)
  BY <1>1 DEF BInv, Enter, ExprKinds
<1> HIDE DEF sorts
<1>3. SortsKept
  BY <1>1, <1>2, Entered
<1> QED
  BY <1>1, <1>2, <1>3, EvalD

LEMMA OpEndD ==
    ASSUME BInv, IInv', DInv, OpEnd PROVE DInv'
<1>1. /\ phase = "gen" /\ ast' = ast /\ Continue(<<>>)
      /\ mir' = Emit(mir, Eval(Top.node)) /\ mValue' = Top.node
  BY DEF OpEnd, Resume
<1>2. SortsKept
  BY <1>1, SameTree DEF BInv
<1> QED
  BY <1>1, <1>2, EvalD

LEMMA VisitOpD ==
    ASSUME BInv, IInv', DInv, VisitOp PROVE DInv'
<1>1. PICK c \in 1 .. MaxStmts :
        /\ Enter("op", Operands(c))
        /\ Continue([j \in 1 .. c |-> Visit(NewKids(c)[j], Top.loop)]
                    \o <<Handler("OpEnd", c, Top.loop)>>)
        /\ mir' = mir
  BY DEF VisitOp
<1> DEFINE sort == IF ast[Top.node].sort = "lhs" THEN "lhs" ELSE "expr"
           ks == [j \in 1 .. c |-> Visit(NewKids(c)[j], Top.loop)]
           f == Handler("OpEnd", c, Top.loop)
           U == {Visit(NewKids(c)[j], Top.loop) : j \in 1 .. c} \cup {f}
           fr == <<f>>
           fs == ks \o fr
<1>2. /\ Operands(c) \in Seq(Sorts) /\ c \in Nat \ {0} /\ Len(Operands(c)) = c
      /\ \A j \in 1 .. c : Operands(c)[j] = sort
  BY BoundsAssumption, OperandsOK DEF Operands
<1>3. IInv /\ "op" \in ExprKinds /\ phase = "gen"
  BY <1>1 DEF ExprKinds, BInv, Enter
<1>4. SortsKept /\ \A j \in 1 .. c : ast'[Len(ast) + j].sort = sort
  BY <1>1, <1>2, <1>3, Entered
<1>5. /\ ks \in Seq(U) /\ Len(ks) = c
      /\ \A j \in 1 .. c : ks[j].at = "Visit" /\ ks[j].node = Len(ast) + j
  <2>1. ks \in Seq(U) /\ Len(ks) = c
    BY <1>2
  <2>2. \A j \in 1 .. c : NewKids(c)[j] = Len(ast) + j
    BY DEF NewKids
  <2>3. \A x : Visit(x, Top.loop).at = "Visit" /\ Visit(x, Top.loop).node = x
    BY DEF Visit, Frame
  <2>4. \A j \in 1 .. c : ks[j] = Visit(NewKids(c)[j], Top.loop)
    OBVIOUS
  <2> QED
    BY <2>1, <2>2, <2>3, <2>4
<1>6. fr \in Seq(U) /\ Len(fr) = 1 /\ fr[1] = f
  OBVIOUS
<1>7. Continue(fs)
  BY <1>1
<1>8. f.at = "OpEnd"
  BY HandlerAt
<1>9. sort # "stmt"
  OBVIOUS
<1> HIDE DEF f, ks, U, fr, sort
<1>10. /\ fs \in Seq(U) /\ Len(fs) = c + 1
       /\ \A j \in 1 .. c : fs[j] = ks[j]
       /\ fs[c + 1] = f
  <2>1. ks \in Seq(U) /\ fr \in Seq(U)
    BY <1>5, <1>6
  <2>2. /\ ks \o fr \in Seq(U) /\ Len(ks \o fr) = Len(ks) + Len(fr)
        /\ \A j \in 1 .. Len(ks) : (ks \o fr)[j] = ks[j]
        /\ \A j \in 1 .. Len(fr) : (ks \o fr)[Len(ks) + j] = fr[j]
    BY ONLY <2>1, ConcatParts
  <2>3. 1 \in 1 .. Len(fr)
    BY <1>6
  <2> QED
    BY <1>5, <1>6, <2>2, <2>3
<1> HIDE DEF fs
<1>11. \A j \in 1 .. Len(fs) : ExprFrame(fs[j], ast') /\ fs[j].at # "LogicRhs"
  <2> TAKE j \in 1 .. Len(fs)
  <2>1. CASE j \in 1 .. c
    <3>1. fs[j].at = "Visit" /\ fs[j].node = Len(ast) + j
      BY <1>5, <1>10, <2>1
    <3>2. ast'[fs[j].node].sort # "stmt"
      BY <1>4, <1>9, <2>1, <3>1
    <3> QED
      BY <3>1, <3>2 DEF ExprFrame
  <2>2. CASE j = c + 1
    BY <1>8, <1>10, <2>2 DEF ExprFrame
  <2> QED
    BY <1>2, <1>10, <2>1, <2>2
<1>12. fs # <<>> /\ fs[1].at = "Visit"
  <2>1. 1 \in 1 .. c /\ 1 \in 1 .. Len(fs)
    BY <1>2, <1>10
  <2> QED
    BY <1>5, <1>10, <2>1
<1>13. Sourced(mir', Len(ast')) /\ Bare(mir')
  <2>1. /\ Basic(mir) /\ mir.insert \in Blocks(mir) /\ InLayout(mir, mir.insert)
        /\ Len(ast) \in Nat
    BY <1>3, DRunning
  <2>2. Len(ast') \in Nat /\ Len(ast) <= Len(ast')
    BY <1>4 DEF SortsKept, IInv, TypeOK
  <2>3. Quiet(mir, mir')
    BY <1>1, NothingQuiet
  <2> QED
    BY <2>1, <2>2, <2>3, QuietKeeps DEF DInv
<1> QED
  BY <1>1, <1>3, <1>4, <1>7, <1>10, <1>11, <1>12, <1>13, ExprStep

LEMMA VisitLogicD ==
    ASSUME BInv, IInv', DInv, VisitLogic PROVE DInv'
<1> DEFINE c == Len(mir.code)
           sorts == <<"lhs", "expr">>
           g == Handler("LogicLhs", 2, Top.loop)
           a == First(Top.loop)
           b == [g EXCEPT !.from = mir.insert, !.alt = c + 1, !.merge = c + 2]
           fs == <<a, b>>
           U == {a, b}
<1>1. PICK kind \in {"and", "or"} :
        /\ Enter(kind, sorts) /\ mir' = NewBlocks(mir, 2) /\ Continue(fs)
  BY DEF VisitLogic
<1>2. /\ IInv /\ phase = "gen" /\ kind \in ExprKinds /\ sorts \in Seq(Sorts)
      /\ Len(sorts) = 2 /\ sorts[1] = "lhs"
  BY <1>1 DEF BInv, Enter, ExprKinds, Sorts
<1> HIDE DEF sorts
<1>3. SortsKept /\ ast'[Len(ast) + 1].sort = "lhs"
  <2>1. /\ SortsKept
        /\ \A j \in 1 .. Len(sorts) : ast'[Len(ast) + j].sort = sorts[j]
    BY <1>1, <1>2, Entered
  <2>2. 1 \in 1 .. Len(sorts)
    BY <1>2
  <2> QED
    BY <1>2, <2>1, <2>2
<1>4. a.at = "Visit" /\ a.node = Len(ast) + 1
  BY DEF First, Visit, Frame
<1>5. b.at = "LogicLhs"
  BY DEF Handler, Frame
<1>6. fs \in Seq(U) /\ Len(fs) = 2 /\ fs[1] = a /\ fs[2] = b /\ fs # <<>>
  OBVIOUS
<1> HIDE DEF a, b, g, fs, U
<1>7. ExprFrame(a, ast') /\ ExprFrame(b, ast')
  BY <1>3, <1>4, <1>5 DEF ExprFrame
<1>8. \A j \in 1 .. Len(fs) : ExprFrame(fs[j], ast') /\ fs[j].at # "LogicRhs"
  <2>1. \A j \in 1 .. Len(fs) : j = 1 \/ j = 2
    BY <1>6
  <2> QED
    BY <1>4, <1>5, <1>6, <1>7, <2>1
<1>9. /\ Basic(mir) /\ mir.insert \in Blocks(mir) /\ InLayout(mir, mir.insert)
      /\ Len(ast) \in Nat
  BY <1>2, DRunning
<1>10. SameCode(mir, mir') /\ mir'.insert = mir.insert
  BY <1>1, <1>9, NewCode
<1>11. Sourced(mir', Len(ast')) /\ Bare(mir')
  <2>1. Len(ast') \in Nat /\ Len(ast) <= Len(ast')
    BY <1>3 DEF SortsKept, IInv, TypeOK
  <2>2. Quiet(mir, mir')
    BY <1>10 DEF Quiet
  <2> QED
    BY <1>9, <2>1, <2>2, QuietKeeps DEF DInv
<1>12. HasTerminator(mir', mir'.insert) => HasTerminator(mir, mir.insert)
  BY <1>9, <1>10 DEF SameCode, HasTerminator
<1> QED
  BY <1>1, <1>2, <1>3, <1>4, <1>6, <1>8, <1>11, <1>12, ExprStep

\* The block of the right operand is empty.
LEMMA LogicLhsD ==
    ASSUME BInv, IInv', DInv, LogicLhs PROVE DInv'
<1> DEFINE x == Top.merge
           o == Top.alt
           a == VisitKid(2)
           b == [Top EXCEPT !.at = "LogicRhs"]
           fs == <<a, b>>
           U == {a, b}
<1>1. PICK t \in {x, o}, f \in {x, o} :
        mir' = SetInsert(AppendBlock(BuildBrif(mir, mValue, t, f), o), o)
  BY DEF LogicLhs, LogicTargets
<1>2. /\ phase = "gen" /\ Top.at = "LogicLhs" /\ ast' = ast /\ Continue(fs)
  BY DEF LogicLhs, Resume
<1>3. /\ IInv /\ Basic(mir) /\ mir.insert \in Blocks(mir)
      /\ InLayout(mir, mir.insert) /\ Len(ast) \in Nat /\ mValue \in Nat
  BY <1>2, DRunning
<1>4. x \in Nat \ {0} /\ o \in Nat \ {0} /\ o \in Blocks(mir)
  BY <1>2, <1>3, InHandler DEF FrameReady, FrameType, Blocks, None
<1>5. b.at = "LogicRhs"
  BY <1>2, <1>3, Resumed
<1>6. a.at = "Visit" /\ a.node = Top.kids[2]
  BY DEF VisitKid, Visit, Frame
<1>7. fs \in Seq(U) /\ Len(fs) = 2 /\ fs[1] = a /\ fs[2] = b /\ fs # <<>>
  OBVIOUS
<1>8. ~InLayout(mir, o)
  <2>1. o \in Pending(Top)
    BY <1>2 DEF Pending
  <2>2. Owned(stack, mir) /\ Top = stack[1] /\ Len(stack) \in Nat \ {0}
    BY <1>2, BRunning
  <2>3. PendingIn(stack, o)
    BY <2>1, <2>2 DEF PendingIn
  <2> QED
    BY <2>2, <2>3 DEF Owned
<1> HIDE DEF a, b, fs, U, x, o
<1>9. ExprFrame(a, ast') /\ ExprFrame(b, ast')
  <2>1. ast[Top.kids[2]].sort = "expr"
    BY <1>2, BRunning DEF FrameFits
  <2> QED
    BY <1>2, <1>5, <1>6, <2>1 DEF ExprFrame
<1>10. \A j \in 1 .. Len(fs) : ExprFrame(fs[j], ast')
  <2>1. \A j \in 1 .. Len(fs) : j = 1 \/ j = 2
    BY <1>7
  <2> QED
    BY <1>7, <1>9, <2>1
<1>11. SortsKept
  BY <1>2, <1>3, SameTree
<1>12. Held(mir, mValue)
  <2>1. stack # <<>>
    BY <1>2, BRunning
  <2> QED
    BY <1>2, <2>1 DEF DInv, ValueReady, Branching
<1> DEFINE i == Brif(mValue, t, f)
           n == BuildBrif(mir, mValue, t, f)
<1>13. /\ Basic(n) /\ Adds(mir, n, i) /\ i \in Inst /\ n.insert = mir.insert
       /\ i.op = "brif" /\ i.use = mValue
  <2>1. t \in Nat \ {0} /\ f \in Nat \ {0}
    BY <1>4
  <2>2. /\ Basic(n) /\ Adds(mir, n, i) /\ i \in Inst /\ n.insert = mir.insert
    BY <1>3, <2>1, BranchCode
  <2>3. i.op = "brif" /\ i.use = mValue
    BY DEF Brif, Plain
  <2> QED
    BY <2>2, <2>3
<1> HIDE DEF i, n
<1>14. Adds(mir, mir', i) /\ mir'.insert = o
  <2> DEFINE q == AppendBlock(n, o)
  <2>1. Basic(q) /\ SameCode(n, q)
    BY <1>4, <1>13, MoveCode
  <2> HIDE DEF q
  <2>2. mir' = SetInsert(q, o)
    BY <1>1 DEF n, q
  <2>3. SameCode(q, mir') /\ mir'.insert = o
    BY <1>4, <2>1, <2>2, MoveCode
  <2>4. Adds(mir, q, i)
    BY <1>3, <1>13, <2>1, CodeTwice
  <2> QED
    BY <1>3, <2>3, <2>4, CodeTwice
<1>15. Sourced(mir', Len(ast')) /\ Bare(mir')
  <2>1. Quiet(mir, mir')
    BY <1>12, <1>13, <1>14 DEF Quiet, Computing
  <2> QED
    BY <1>2, <1>3, <2>1, QuietKeeps DEF DInv
<1>16. ~HasTerminator(mir', mir'.insert)
  <2>1. mir.code[o] = <<>> /\ o # mir.insert /\ o \in Blocks(mir')
    BY <1>3, <1>4, <1>8, <1>14 DEF DInv, Bare, Adds
  <2>2. mir'.code[o] = <<>>
    BY <1>4, <1>14, <2>1 DEF Adds
  <2>3. Len(mir'.code[o]) = 0
    BY <2>2
  <2> QED
    BY <1>14, <2>3 DEF HasTerminator
<1> QED
  BY <1>2, <1>6, <1>7, <1>10, <1>11, <1>15, <1>16, ExprStep

\* The right operand is computed before the jump to the merge block, which
\* is empty until it gets the phi.
LEMMA LogicRhsD ==
    ASSUME BInv, IInv', DInv, LogicRhs PROVE DInv'
<1> DEFINE x == Top.merge
           short == ast[Top.node].kind = "or"
           j == BuildJmp(mir, x)
           h == AppendBlock(j, x)
           n == SetInsert(h, x)
           p == Phi(Top.node, short, LogicPairs(Top))
<1>1. /\ phase = "gen" /\ Top.at = "LogicRhs" /\ ast' = ast
      /\ Continue(<<>>) /\ mir' = Emit(n, p) /\ mValue' = Top.node
  BY DEF LogicRhs, Resume
<1>2. /\ IInv /\ Basic(mir) /\ mir.insert \in Blocks(mir)
      /\ InLayout(mir, mir.insert) /\ Len(ast) \in Nat /\ mValue \in Nat
      /\ Top.node \in 1 .. Len(ast)
  BY <1>1, DRunning
<1>3. x \in Nat \ {0} /\ x \in Blocks(mir) /\ Top.from \in Nat
  BY <1>1, <1>2, InHandler DEF FrameReady, FrameType, Blocks, None
<1>4. p \in Inst /\ p.op = "phi" /\ p.inc = LogicPairs(Top) /\ p.node = Top.node
  <2>1. LogicPairs(Top) \in SUBSET [blk : Nat, src : Nat] /\ short \in BOOLEAN
    <3>1. mir.insert \in Nat
      BY <1>2 DEF Blocks
    <3> QED
      BY <1>2, <1>3, <3>1 DEF LogicPairs
  <2> HIDE DEF short
  <2>2. p \in Inst
    BY <1>2, <2>1, InstTypes
  <2> QED
    BY <2>2 DEF Phi, Plain
<1> HIDE DEF p
<1>5. ~InLayout(mir, x)
  <2>1. x \in Pending(Top)
    BY <1>1 DEF Pending
  <2>2. Owned(stack, mir) /\ Top = stack[1] /\ Len(stack) \in Nat \ {0}
    BY <1>1, BRunning
  <2>3. PendingIn(stack, x)
    BY <2>1, <2>2 DEF PendingIn
  <2> QED
    BY <2>2, <2>3 DEF Owned
<1>6. Held(mir, mValue) /\ ~HasTerminator(mir, mir.insert)
  <2>1. stack # <<>> /\ Top = stack[1] /\ Len(stack) \in Nat \ {0}
    BY <1>1, BRunning
  <2>2. 1 \in 1 .. Len(stack) /\ stack[1].at = "LogicRhs"
    BY <1>1, <2>1
  <2> QED
    BY <1>1, <2>1, <2>2 DEF DInv, ValueReady, OpenRhs, Branching
<1> HIDE DEF x
<1>7. /\ Basic(j) /\ Adds(mir, j, Jmp(x)) /\ Jmp(x) \in Inst /\ Jmp(x).op = "jmp"
  BY <1>2, <1>3, BranchCode DEF Jmp, Plain
<1> HIDE DEF j
<1>8. Basic(h) /\ SameCode(j, h) /\ InLayout(h, x)
  BY <1>3, <1>7, MoveCode
<1> HIDE DEF h
<1>9. Basic(n) /\ SameCode(h, n) /\ n.insert = x
  BY <1>3, <1>8, MoveCode
<1> HIDE DEF n
<1>10. /\ Adds(mir, n, Jmp(x)) /\ InLayout(n, x)
  <2>1. Adds(mir, h, Jmp(x))
    BY <1>2, <1>7, <1>8, CodeTwice
  <2>2. Adds(mir, n, Jmp(x))
    BY <1>2, <1>9, <2>1, CodeTwice
  <2> QED
    BY <1>8, <1>9, <2>2 DEF SameCode
<1>11. Sourced(n, Len(ast)) /\ Bare(n)
  <2>1. Quiet(mir, n)
    BY <1>7, <1>10 DEF Quiet, Computing
  <2> QED
    BY <1>2, <2>1, QuietKeeps DEF DInv
<1>12. x \in Blocks(n) /\ n.code[x] = <<>>
  BY <1>2, <1>3, <1>5, <1>10 DEF DInv, Bare, Adds
<1>13. /\ Basic(mir') /\ Adds(n, mir', p) /\ mir'.insert = n.insert
  BY <1>1, <1>4, <1>9, <1>12, EmitCode
<1>14. /\ Held(mir', mValue')
       /\ ~HasTerminator(mir', mir'.insert)
  <2>1. Computing(p) /\ ~IsTerminator(p)
    BY <1>4 DEF Computing, IsTerminator, Terminators
  <2>2. /\ Held(mir', p.node)
        /\ HasTerminator(mir', mir'.insert) => HasTerminator(n, n.insert)
    BY <1>4, <1>9, <1>12, <1>13, <2>1, AddedLast
  <2>3. Len(n.code[x]) = 0
    BY <1>12
  <2>4. ~HasTerminator(n, n.insert)
    BY <1>9, <2>3 DEF HasTerminator
  <2> QED
    BY <1>1, <1>4, <2>2, <2>4
<1>15. Given(mir', mir.insert, mValue)
  <2>1. PICK y \in 1 .. Len(mir.code[mir.insert]) :
           Computes(mir.code[mir.insert][y], mValue)
    BY <1>6 DEF Held
  <2>2. Len(mir.code[mir.insert]) \in Nat
    BY <1>2, BasicCode
  <2>3. OpenUpTo(mir, mir.insert, y)
    <3>1. \A z \in 1 .. y - 1 : z \in 1 .. Len(mir.code[mir.insert])
      BY <2>2
    <3> QED
      BY <1>6, <3>1 DEF OpenUpTo, HasTerminator
  <2>4. Given(mir, mir.insert, mValue)
    BY <1>2, <2>1, <2>3 DEF Given
  <2>5. Prefixed(mir, n) /\ Prefixed(n, mir')
    <3>1. Prefixed(mir, n)
      BY <1>2, <1>7, <1>10, PrefixAdds
    <3>2. Prefixed(n, mir')
      BY <1>4, <1>9, <1>12, <1>13, PrefixAdds
    <3> QED
      BY <3>1, <3>2
  <2>6. Given(n, mir.insert, mValue)
    BY <1>2, <2>4, <2>5, GivenKept
  <2> QED
    BY <1>9, <2>5, <2>6, GivenKept
<1>16. Sourced(mir', Len(ast'))
  <2>1. \A y \in p.inc : y.src # 0 => Given(mir', y.blk, y.src)
    BY <1>4, <1>15 DEF LogicPairs
  <2>2. n.insert \in Blocks(n) /\ p.op # "brif" /\ p.node \in 1 .. Len(ast)
    BY <1>2, <1>4, <1>9, <1>12
  <2> QED
    BY <1>1, <1>2, <1>4, <1>9, <1>11, <1>13, <2>1, <2>2, SourcedAdds
<1>17. Bare(mir')
  BY <1>9, <1>10, <1>11, <1>13, BareKept
<1>18. SortsKept
  BY <1>1, <1>2, SameTree
<1> QED
  BY <1>1, <1>14, <1>16, <1>17, <1>18, ExprReturns

-----------------------------------------------------------------------------
(* The operands of what the machine executes.                              *)

LEMMA DInvStep ==
    ASSUME BInv, DInv, [Next]_cgnVars PROVE DInv'
<1>1. IInv'
  BY NextIInv DEF BInv
<1>2. CASE UNCHANGED cgnVars
  <2>1. ast' = ast /\ stack' = stack /\ mir' = mir /\ mValue' = mValue
    BY <1>2 DEF cgnVars
  <2>2. Top' = Top
    BY <2>1 DEF Top
  <2>3. ValueReady'
    BY <2>1, <2>2 DEF DInv, ValueReady
  <2> QED
    BY <2>1, <2>3 DEF DInv
<1>3. CASE Generate
  <2>1. CASE DefineFunction \/ DefineEnd \/ RetValue
    BY <1>1, <2>1, DefineFunctionD, ReturnsD
  <2>2. CASE VisitCompound \/ VisitExprStmt \/ VisitIf \/ VisitRet \/ VisitMatch
    BY <1>1, <2>2, VisitCompoundD, FirstsD, VisitMatchD
  <2>3. CASE VisitBreak \/ VisitContinue \/ VisitRetVoid
    BY <1>1, <2>3, LeavesD
  <2>4. CASE IfBranch \/ IfThenEnd \/ IfElseEnd \/ MatchDefaultEnd
    BY <1>1, <2>4, IfBranchD, ArmEndsD
  <2>9. CASE MatchUnsupported
    <3>1. ast' = ast /\ stack' = stack /\ mir' = mir /\ mValue' = mValue
      BY <2>9 DEF MatchUnsupported
    <3>2. ValueReady'
      BY <3>1 DEF DInv, ValueReady, Top
    <3> QED
      BY <3>1, <3>2 DEF DInv
  <2>5. CASE MatchChains \/ MatchCompare \/ MatchCaseEnd
    BY <1>1, <2>5, MatchChainsD, MatchCompareD, MatchCaseEndD
  <2>6. CASE VisitUntil \/ UntilBranch \/ UntilBodyEnd
    BY <1>1, <2>6, VisitUntilD, UntilBranchD, UntilBodyEndD
  <2>7. CASE VisitLeaf \/ VisitOp \/ OpEnd
    BY <1>1, <2>7, LeafD, VisitOpD, OpEndD
  <2>8. CASE VisitLogic \/ LogicLhs \/ LogicRhs
    BY <1>1, <2>8, VisitLogicD, LogicLhsD, LogicRhsD
  <2> QED
    BY <1>3, <2>1, <2>2, <2>3, <2>4, <2>5, <2>6, <2>7, <2>8, <2>9 DEF Generate
<1> QED
  BY <1>2, <1>3 DEF Next, Finished

\* While code is generated, the value that a handler waits for is computed in
\* the block that goes on with it.
LEMMA OperandsTracked == Spec => []DInv
<1>1. Init => DInv
  <2> SUFFICES ASSUME Init PROVE DInv
    OBVIOUS
  <2>1. stack = <<>> /\ mir = EmptyBody
    BY DEF Init
  <2>2. 1 .. Len(stack) = {} /\ Blocks(mir) = {}
    BY <2>1 DEF Blocks, EmptyBody
  <2> QED
    BY <2>1, <2>2 DEF DInv, Waits, CasesSorted, Sourced, Bare, OpenRhs, ValueReady
<1>2. BInv /\ DInv /\ [Next]_cgnVars => DInv'
  BY DInvStep
<1> QED
  BY <1>1, <1>2, BlocksTracked, PTL DEF Spec

\* What the machine has passed it has computed, in this block and in the one
\* that it came from.
RegInv ==
    /\ mode = "idle" => came = None
    /\ mode = "run" =>
          /\ DOMAIN reg = 1 .. Len(ast)
          /\ \A j \in 1 .. idx - 1 :
                Computing(mir.code[at][j]) => reg[mir.code[at][j].node] \in Values
          /\ came # None =>
                /\ came \in Blocks(mir)
                /\ \A j \in 1 .. Len(mir.code[came]) :
                      Computing(mir.code[came][j]) /\ OpenUpTo(mir, came, j) =>
                          reg[mir.code[came][j].node] \in Values

\* The instruction that is executed, and what it reads.
LEMMA InstrFits ==
    ASSUME BInv, AtInv, DInv, mode = "run"
    PROVE  /\ at \in Blocks(mir) /\ idx \in 1 .. Len(mir.code[at])
           /\ Len(mir.code[at]) \in Nat /\ Instr = mir.code[at][idx]
           /\ InstFits(mir, at, idx, Len(ast)) /\ OpenUpTo(mir, at, idx)
<1>1. /\ at \in Blocks(mir) /\ mir.code[at] \in Seq(Inst)
      /\ idx \in 1 .. Len(mir.code[at])
  BY AtFetches
<1>2. InstFits(mir, at, idx, Len(ast))
  BY <1>1 DEF DInv, Sourced
<1> QED
  BY <1>1, <1>2 DEF Instr, AtInv

LEMMA DefinedNow ==
    ASSUME BInv, AtInv, DInv, RegInv PROVE OperandsDefined
<1> SUFFICES ASSUME mode = "run"
             PROVE  /\ Instr.op = "brif" => reg[Instr.use] \in Values
                    /\ Instr.op = "phi" =>
                         \A p \in Incoming : PhiValue(p) \in Values
  BY DEF OperandsDefined, Running
<1>1. /\ at \in Blocks(mir) /\ idx \in 1 .. Len(mir.code[at])
      /\ Len(mir.code[at]) \in Nat /\ Instr = mir.code[at][idx]
      /\ InstFits(mir, at, idx, Len(ast))
  BY InstrFits
<1>2. ASSUME Instr.op = "brif" PROVE reg[Instr.use] \in Values
  <2>1. PICK j \in 1 .. idx - 1 : Computes(mir.code[at][j], Instr.use)
    BY <1>1, <1>2 DEF InstFits
  <2> QED
    BY <2>1 DEF RegInv, Computes
<1>3. ASSUME Instr.op = "phi", NEW p \in Incoming PROVE PhiValue(p) \in Values
  <2>1. p \in Instr.inc /\ p.blk = came
    BY DEF Incoming
  <2>2. CASE p.src = 0
    BY <2>2 DEF PhiValue, Values
  <2>3. CASE p.src # 0
    <3>1. Given(mir, came, p.src)
      BY <1>1, <1>3, <2>1, <2>3 DEF InstFits
    <3>2. came # None
      BY <3>1 DEF Given, Blocks, None
    <3>3. PICK j \in 1 .. Len(mir.code[came]) :
             Computes(mir.code[came][j], p.src) /\ OpenUpTo(mir, came, j)
      BY <3>1 DEF Given
    <3>4. reg[p.src] \in Values
      BY <3>2, <3>3 DEF RegInv, Computes
    <3> QED
      BY <2>3, <3>4 DEF PhiValue
  <2> QED
    BY <2>2, <2>3
<1> QED
  BY <1>2, <1>3

\* The machine goes to another block at the terminator: what the block
\* computes, it has computed.
LEMMA TransferKeeps ==
    ASSUME BInv, AtInv, DInv, RegInv, UNCHANGED cgnVars, mode = "run",
           mode' = mode, IsTerminator(Instr), NEW b, Transfer(b), reg' = reg
    PROVE  RegInv'
<1>1. mir' = mir /\ ast' = ast /\ idx' = 1 /\ came' = at
  BY DEF cgnVars, Transfer
<1>2. /\ idx \in 1 .. Len(mir.code[at]) /\ Len(mir.code[at]) \in Nat
      /\ Instr = mir.code[at][idx]
  BY InstrFits
<1>3. ASSUME NEW j \in 1 .. Len(mir.code[at]), Computing(mir.code[at][j]),
             OpenUpTo(mir, at, j)
      PROVE  reg[mir.code[at][j].node] \in Values
  <2>1. ~(idx \in 1 .. j - 1)
    BY <1>2, <1>3 DEF OpenUpTo
  <2>2. j # idx
    BY <1>2, <1>3 DEF Computing, IsTerminator, Terminators
  <2>3. j \in 1 .. idx - 1
    BY <1>2, <2>1, <2>2
  <2> QED
    BY <1>3, <2>3 DEF RegInv
<1>4. 1 .. idx' - 1 = {} /\ at \in Blocks(mir)
  BY <1>1, InstrFits
<1>5. DOMAIN reg = 1 .. Len(ast) /\ Blocks(mir') = Blocks(mir)
  BY <1>1 DEF RegInv, Blocks
<1> QED
  BY <1>1, <1>3, <1>4, <1>5 DEF RegInv

\* The machine goes on in the block, with one value more.
LEMMA ComputeKeeps ==
    ASSUME BInv, AtInv, DInv, RegInv, UNCHANGED cgnVars, mode = "run",
           mode' = mode, at' = at, came' = came, idx' = idx + 1,
           Computing(Instr) =>
               \E v \in Values : reg' = [reg EXCEPT ![Instr.node] = v],
           ~Computing(Instr) => reg' = reg
    PROVE  RegInv'
<1>1. mir' = mir /\ ast' = ast
  BY DEF cgnVars
<1>2. /\ idx \in 1 .. Len(mir.code[at]) /\ Instr = mir.code[at][idx]
      /\ Len(mir.code[at]) \in Nat
      /\ at \in Blocks(mir) /\ InstFits(mir, at, idx, Len(ast))
  BY InstrFits
<1>3. DOMAIN reg' = 1 .. Len(ast)
  BY DEF RegInv
<1>4. \A n \in 1 .. Len(ast) : reg[n] \in Values => reg'[n] \in Values
  <2>1. CASE reg' = reg
    BY <2>1
  <2>2. ASSUME NEW v \in Values, reg' = [reg EXCEPT ![Instr.node] = v]
        PROVE  \A n \in 1 .. Len(ast) : reg[n] \in Values => reg'[n] \in Values
    <3>1. \A n \in DOMAIN reg : reg'[n] = IF n = Instr.node THEN v ELSE reg[n]
      BY <2>2
    <3>2. DOMAIN reg = 1 .. Len(ast)
      BY DEF RegInv
    <3> QED
      BY <3>1, <3>2
  <2> QED
    BY <2>1, <2>2
<1>5. Computing(Instr) => reg'[Instr.node] \in Values
  <2> SUFFICES ASSUME Computing(Instr) PROVE reg'[Instr.node] \in Values
    OBVIOUS
  <2>1. Instr.node \in DOMAIN reg
    BY <1>2 DEF InstFits, RegInv
  <2> QED
    BY <2>1
<1>6. \A b \in Blocks(mir) : \A j \in 1 .. Len(mir.code[b]) :
         Computing(mir.code[b][j]) => mir.code[b][j].node \in 1 .. Len(ast)
  BY DEF DInv, Sourced, InstFits
<1>7. \A j \in 1 .. idx' - 1 :
         Computing(mir.code[at][j]) => reg'[mir.code[at][j].node] \in Values
  <2> SUFFICES ASSUME NEW j \in 1 .. idx' - 1, Computing(mir.code[at][j])
               PROVE  reg'[mir.code[at][j].node] \in Values
    OBVIOUS
  <2>1. /\ j = idx \/ j \in 1 .. idx - 1
        /\ j \in 1 .. Len(mir.code[at])
    BY <1>2
  <2>2. CASE j = idx
    BY <1>2, <1>5, <2>2
  <2>3. CASE j \in 1 .. idx - 1
    <3>1. mir.code[at][j].node \in 1 .. Len(ast)
      BY <1>2, <1>6, <2>1
    <3> QED
      BY <1>4, <2>3, <3>1 DEF RegInv
  <2> QED
    BY <2>1, <2>2, <2>3
<1>8. came # None =>
         /\ came \in Blocks(mir)
         /\ \A j \in 1 .. Len(mir.code[came]) :
               Computing(mir.code[came][j]) /\ OpenUpTo(mir, came, j) =>
                   reg'[mir.code[came][j].node] \in Values
  BY <1>4, <1>6 DEF RegInv
<1>9. Blocks(mir') = Blocks(mir)
  BY <1>1 DEF Blocks
<1> QED
  BY <1>1, <1>3, <1>7, <1>8, <1>9 DEF RegInv

LEMMA RegSteps ==
    ASSUME BInv, AtInv, DInv, RegInv, [RunNext]_<<cgnVars, runVars>>
    PROVE  RegInv'
<1>1. CASE Generate /\ UNCHANGED runVars
  <2>1. mode # "run"
    BY <1>1, GenerateFirst DEF AtInv
  <2> QED
    BY <1>1, <2>1 DEF RegInv, runVars
<1>2. CASE Execute /\ UNCHANGED cgnVars
  <2>1. mir' = mir /\ ast' = ast
    BY <1>2 DEF cgnVars
  <2>2. CASE Call
    <3>1. /\ idx = 1 /\ idx' = 1 /\ came = None /\ came' = None
          /\ mode' = "run" /\ reg' = [n \in 1 .. Len(ast) |-> "?"]
      BY <2>2 DEF Call, AtInv, RegInv
    <3>2. 1 .. idx' - 1 = {} /\ DOMAIN reg' = 1 .. Len(ast)
      BY <3>1
    <3> QED
      BY <2>1, <3>1, <3>2 DEF RegInv
  <2>3. CASE SourceStep
    <3>1. /\ mode' = mode /\ at' = at /\ idx' = idx /\ came' = came
          /\ reg' = reg
      BY <2>3 DEF SourceStep
    <3> QED
      BY <2>1, <3>1 DEF RegInv
  <2>4. CASE StepJmp
    <3>1. /\ mode = "run" /\ mode' = mode /\ reg' = reg /\ Instr.op = "jmp"
          /\ Transfer(Instr.t)
      BY <2>4 DEF StepJmp, Running
    <3> QED
      BY <1>2, <3>1, TransferKeeps DEF IsTerminator, Terminators
  <2>5. CASE StepBrif
    <3>1. /\ mode = "run" /\ mode' = mode /\ reg' = reg /\ Instr.op = "brif"
          /\ Transfer(IF reg[Instr.use] = "T" THEN Instr.t ELSE Instr.f)
      BY <2>5 DEF StepBrif, Running
    <3> QED
      BY <1>2, <3>1, TransferKeeps DEF IsTerminator, Terminators
  <2>6. CASE StepPhi
    <3>1. /\ mode = "run" /\ mode' = mode /\ at' = at /\ came' = came
          /\ idx' = idx + 1 /\ Instr.op = "phi"
      BY <2>6 DEF StepPhi, Running
    <3>2. PICK p \in Incoming : reg' = [reg EXCEPT ![Instr.node] = PhiValue(p)]
      BY <2>6 DEF StepPhi
    <3>3. PhiValue(p) \in Values
      BY <2>6, <3>1, DefinedNow DEF OperandsDefined, StepPhi
    <3>4. Computing(Instr)
      BY <3>1 DEF Computing
    <3> QED
      BY <1>2, <3>1, <3>2, <3>3, <3>4, ComputeKeeps
  <2>7. CASE Perform
    <3>1. mode = "run" /\ at' = at /\ came' = came
      BY <2>7 DEF Perform, Running
    <3>2. CASE Instr.op = "eval"
      <4>1. mode' = mode /\ idx' = idx + 1
        BY <2>7, <3>2 DEF Perform
      <4>2. PICK v \in Values : reg' = [reg EXCEPT ![Instr.node] = v]
        BY <2>7, <3>2 DEF Perform
      <4>3. Computing(Instr)
        BY <3>2 DEF Computing
      <4> QED
        BY <1>2, <3>1, <4>1, <4>2, <4>3, ComputeKeeps
    <3>3. CASE Instr.op = "copy"
      <4>1. mode' = mode /\ idx' = idx + 1 /\ reg' = reg
        BY <2>7, <3>3 DEF Perform
      <4>2. ~Computing(Instr)
        BY <3>3 DEF Computing
      <4> QED
        BY <1>2, <3>1, <4>1, <4>2, ComputeKeeps
    <3>4. CASE Instr.op = "ret"
      <4>1. mode' = "halt"
        BY <2>7, <3>4 DEF Perform
      <4> QED
        BY <4>1 DEF RegInv
    <3> QED
      BY <2>7, <3>2, <3>3, <3>4 DEF Perform
  <2> QED
    BY <1>2, <2>2, <2>3, <2>4, <2>5, <2>6, <2>7 DEF Execute
<1>3. CASE UNCHANGED <<cgnVars, runVars>>
  BY <1>3 DEF RegInv, cgnVars, runVars
<1> QED
  BY <1>1, <1>2, <1>3 DEF RunNext, Ended

\* Whatever the program, and whatever stands left of && and ||, a branch of
\* the generated code reads a value that was computed before it, and so does a
\* phi: no handler takes m_Value for what another expression left there.
THEOREM RunOperandsDefined == RunSpec => []OperandsDefined
<1>1. RunInit => RegInv
  BY DEF RunInit, RegInv
<1>2. BInv /\ AtInv /\ DInv /\ RegInv /\ [RunNext]_<<cgnVars, runVars>> => RegInv'
  BY RegSteps
<1>3. BInv /\ AtInv /\ DInv /\ RegInv => OperandsDefined
  BY DefinedNow
<1> QED
  BY <1>1, <1>2, <1>3, ControlTracked, RunGenerates, BlocksTracked,
     OperandsTracked, PTL DEF RunSpec

=============================================================================
