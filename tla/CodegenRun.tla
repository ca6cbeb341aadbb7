----------------------------- MODULE CodegenRun -----------------------------
(***************************************************************************)
(* What the generated code does.  Once CGN is done with a function, the    *)
(* MIR it built is executed next to the program it was built from: the     *)
(* source is read as a structured program with a continuation, the MIR as  *)
(* a program counter over basic blocks.  The value of every evaluation is  *)
(* chosen freely and handed to both sides.                                 *)
(*                                                                         *)
(* Neither reading is code of the compiler: the source side is what the    *)
(* statements of the language promise, the machine side what the MIR       *)
(* instructions say.  The component under test is Codegen.                 *)
(***************************************************************************)
EXTENDS Codegen

VARIABLES
    mode,   \* "idle", "run", or "halt" once the function has returned
    todo,   \* source: the continuation, a sequence of things left to do
    val,    \* source: the value of the last expression
    at,     \* machine: the current block
    idx,    \* machine: the index of the current instruction in it
    came,   \* machine: the block control came from
    reg     \* machine: the value of each node, "?" before it is computed

runVars == <<mode, todo, val, at, idx, came, reg>>

Values == {"T", "F"}

-----------------------------------------------------------------------------
(* The source.                                                             *)

Do(what, n)     == [do |-> what, node |-> n, i |-> 0]
DoCase(what, n, i) == [do |-> what, node |-> n, i |-> i]

Kids(n)    == ast[n].kids
Kid(n, j)  == ast[n].kids[j]
This == Head(todo)
Kind == ast[This.node].kind

\* The things the two sides must do together; everything else is silent.
SourceEvent ==
    IF todo = <<>>
    THEN [op |-> IF ret = "scalar" THEN "none" ELSE "ret", node |-> 0]
    ELSE CASE This.do = "value" /\ Kind = "leaf" -> [op |-> "eval", node |-> This.node]
           [] This.do = "op"   -> [op |-> "eval", node |-> This.node]
           [] This.do = "give" -> [op |-> IF ret = "scalar" THEN "ret" ELSE "copy",
                                   node |-> This.node]
           [] This.do = "return" -> [op |-> "ret", node |-> 0]
           [] OTHER -> [op |-> "silent", node |-> 0]

\* The innermost running loop, by its place in the continuation.
InnerLoop == CHOOSE i \in 1 .. Len(todo) :
                /\ todo[i].do = "again"
                /\ \A j \in 1 .. i - 1 : todo[j].do # "again"

\* What a statement or a branching expression expands to.
Expansion ==
    LET n == This.node IN
    CASE This.do = "stmt" ->
           (CASE Kind = "compound" -> [j \in 1 .. Len(Kids(n)) |-> Do("stmt", Kid(n, j))]
              [] Kind = "expr"  -> <<Do("value", Kid(n, 1))>>
              [] Kind = "if"    -> <<Do("value", Kid(n, 1)), Do("if", n)>>
              [] Kind = "match" -> <<Do("value", Kid(n, 1)), DoCase("case", n, 1)>>
              [] Kind = "until" -> <<Do("value", Kid(n, 1)), Do("loop", n)>>
              [] Kind = "ret"   -> IF Kids(n) = <<>> THEN <<Do("return", n)>>
                                   ELSE <<Do("value", Kid(n, 1)), Do("give", n)>>)
      [] This.do = "value" /\ Kind = "op" ->
           [j \in 1 .. Len(Kids(n)) |-> Do("value", Kid(n, j))] \o <<Do("op", n)>>
      [] This.do = "value" /\ Kind # "op" -> <<Do("value", Kid(n, 1)), Do(Kind, n)>>
      [] This.do = "and" -> IF val = "T" THEN <<Do("value", Kid(n, 2))>> ELSE <<>>
      [] This.do = "or"  -> IF val = "F" THEN <<Do("value", Kid(n, 2))>> ELSE <<>>
      [] This.do = "if" -> IF val = "T" THEN <<Do("stmt", Kid(n, 2))>>
                           ELSE IF HasElse(Kids(n)) THEN <<Do("stmt", Kid(n, 3))>> ELSE <<>>
      [] This.do = "case" -> IF This.i <= Cases(Kids(n))
                             THEN <<Do("value", Kid(n, 2 * This.i)), DoCase("test", n, This.i)>>
                             ELSE IF HasDefault(Kids(n)) THEN <<Do("stmt", Kid(n, Len(Kids(n))))>> ELSE <<>>
      [] This.do = "test" -> IF val = "T" THEN <<Do("stmt", Kid(n, 2 * This.i + 1))>>
                             ELSE <<DoCase("case", n, This.i + 1)>>
      [] This.do = "loop" -> IF val = "T" THEN <<>>
                             ELSE <<Do("stmt", Kid(n, 2)), Do("again", n)>>
      [] This.do = "again" -> <<Do("value", Kid(n, 1)), Do("loop", n)>>

Jumps == This.do = "stmt" /\ Kind \in {"break", "continue"}

SourceStep ==
    /\ mode = "run"
    /\ SourceEvent.op = "silent"
    /\ todo' = IF Jumps
               THEN SubSeq(todo, IF Kind = "break" THEN InnerLoop + 1 ELSE InnerLoop, Len(todo))
               ELSE Expansion \o Tail(todo)
    /\ UNCHANGED <<mode, val, at, idx, came, reg>>

-----------------------------------------------------------------------------
(* The machine.                                                            *)

Running == mode = "run" /\ SourceEvent.op # "silent"

\* There is an instruction to execute, in a block of the function.
Fetches == InLayout(mir, at) /\ idx <= Len(mir.code[at])

Instr == mir.code[at][idx]

Incoming == {p \in Instr.inc : p.blk = came}

Transfer(b) == at' = b /\ idx' = 1 /\ came' = at

StepJmp ==
    /\ Running /\ Fetches
    /\ Instr.op = "jmp"
    /\ Transfer(Instr.t)
    /\ UNCHANGED <<mode, todo, val, reg>>

StepBrif ==
    /\ Running /\ Fetches
    /\ Instr.op = "brif"
    /\ reg[Instr.use] \in Values
    /\ Transfer(IF reg[Instr.use] = "T" THEN Instr.t ELSE Instr.f)
    /\ UNCHANGED <<mode, todo, val, reg>>

PhiValue(p) == IF p.src # 0 THEN reg[p.src]
               ELSE IF Instr.short THEN "T" ELSE "F"

StepPhi ==
    /\ Running /\ Fetches
    /\ Instr.op = "phi"
    /\ \E p \in Incoming : reg' = [reg EXCEPT ![Instr.node] = PhiValue(p)]
    /\ idx' = idx + 1
    /\ UNCHANGED <<mode, todo, val, at, came>>

MachineEvent ==
    [op |-> Instr.op,
     node |-> IF Instr.op = "ret" /\ ret # "scalar" THEN 0 ELSE Instr.node]

Agree == Fetches /\ MachineEvent = SourceEvent

\* Both sides do the same thing, with the same outcome.
Perform ==
    /\ Running
    /\ Agree
    /\ \/ /\ Instr.op = "eval"
          /\ \E v \in Values : val' = v /\ reg' = [reg EXCEPT ![Instr.node] = v]
          /\ todo' = Tail(todo)
          /\ idx' = idx + 1
          /\ UNCHANGED mode
       \/ /\ Instr.op = "copy"
          /\ todo' = <<Do("return", This.node)>>
          /\ idx' = idx + 1
          /\ UNCHANGED <<mode, val, reg>>
       \/ /\ Instr.op = "ret"
          /\ mode' = "halt"
          /\ UNCHANGED <<todo, val, idx, reg>>
    /\ UNCHANGED <<at, came>>

-----------------------------------------------------------------------------
RunInit ==
    /\ Init
    /\ mode = "idle"
    /\ todo = <<>>
    /\ val = "?"
    /\ at = None
    /\ idx = 1
    /\ came = None
    /\ reg = <<>>

Call ==
    /\ phase = "done"
    /\ mode = "idle"
    /\ mode' = "run"
    /\ todo' = <<Do("stmt", 1)>>
    /\ at' = Head(mir.layout)
    /\ reg' = [n \in 1 .. Len(ast) |-> "?"]
    /\ UNCHANGED <<val, idx, came>>

Execute == Call \/ SourceStep \/ StepJmp \/ StepBrif \/ StepPhi \/ Perform

Ended == (phase = "fatal" \/ mode = "halt") /\ UNCHANGED <<cgnVars, runVars>>

RunNext == \/ Generate /\ UNCHANGED runVars
           \/ Execute /\ UNCHANGED cgnVars
           \/ Ended

RunSpec == RunInit /\ [][RunNext]_<<cgnVars, runVars>>

\* The program counter moves as long as it can.
FairRunSpec == RunSpec /\ WF_<<cgnVars, runVars>>(RunNext)

-----------------------------------------------------------------------------
(* When the machine reaches something only both can do, it is what the     *)
(* program does next: code is executed in the order, and only under the    *)
(* conditions, it is written, and the function returns where it says so.   *)
RunsAsWritten ==
    Running /\ Fetches /\ Instr.op \in {"eval", "copy", "ret"} => Agree

(* Control stays in blocks of the function, never runs past the end of a   *)
(* block, and a phi has exactly one entry for the block control came from. *)
NeverStuck ==
    Running => /\ Fetches
               /\ Instr.op = "phi" => \E p \in Instr.inc : Incoming = {p}

(* An operand is computed before the instruction that reads it.            *)
OperandsDefined ==
    Running /\ Fetches =>
        /\ Instr.op = "brif" => reg[Instr.use] \in Values
        /\ Instr.op = "phi"  => \A p \in Incoming : PhiValue(p) \in Values

(* The machine cannot spin without doing something of the program.         *)
NoSilentLoop ==
    []<>~(Running /\ Fetches /\ Instr.op \in {"jmp", "brif", "phi"})

=============================================================================
