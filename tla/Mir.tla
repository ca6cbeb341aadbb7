-------------------------------- MODULE Mir --------------------------------
(***************************************************************************)
(* The control-flow part of the MIR (compiler/mir): the basic blocks of    *)
(* one function, the instructions appended to them, the predecessor and    *)
(* successor lists that the builder maintains next to the instructions,    *)
(* and the function's linked list of blocks.  Everything here is a pure    *)
(* operator from one function body to the next, so that a handler of the   *)
(* code generator reads as the composition of the builder calls it makes.  *)
(*                                                                         *)
(* A block is the number of its allocation (1, 2, ...); None stands for a  *)
(* null BasicBlock pointer.  Operands, types and names are abstracted: an  *)
(* instruction keeps the syntax-tree node it was generated for.            *)
(***************************************************************************)
EXTENDS Naturals, Sequences

None == 0

Terminators == {"jmp", "brif", "ret"}

\* "eval" stands for the straight-line code of a leaf expression and "copy"
\* for the stores that move an aggregate into its destination.
InstOps == Terminators \cup {"eval", "copy", "phi"}

(* node: the syntax-tree node; t, f: branch targets; use: the node whose   *)
(* value is the operand; short: the constant of a phi; inc: the incoming   *)
(* pairs of a phi, src = 0 being the constant.  The target of a jump and   *)
(* those of a conditional branch are never null.                           *)
Inst == {i \in [op : InstOps, node : Nat, t : Nat, f : Nat, use : Nat,
                short : BOOLEAN, inc : SUBSET [blk : Nat, src : Nat]] :
            /\ i.op \in {"jmp", "brif"} => i.t # None
            /\ i.op = "brif" => i.f # None}

Plain(op, n) == [op |-> op, node |-> n, t |-> None, f |-> None, use |-> 0,
                 short |-> FALSE, inc |-> {}]
Eval(n)       == Plain("eval", n)
Copy(n)       == Plain("copy", n)
Ret(n)        == Plain("ret", n)
Jmp(d)        == [Plain("jmp", 0) EXCEPT !.t = d]
Brif(v, t, f) == [Plain("brif", 0) EXCEPT !.t = t, !.f = f, !.use = v]
Phi(n, short, inc) == [Plain("phi", n) EXCEPT !.short = short, !.inc = inc]

IsTerminator(i) == i.op \in Terminators

Targets(i) == {i.t, i.f} \ {None}

-----------------------------------------------------------------------------
(* The body of a function, before any block exists.                        *)
EmptyBody == [code |-> <<>>, preds |-> <<>>, succs |-> <<>>,
              layout |-> <<>>, freed |-> {}, insert |-> None]

Blocks(m) == 1 .. Len(m.code)

BodyType == [code : Seq(Seq(Inst)), preds : Seq(SUBSET Nat),
             succs : Seq(SUBSET Nat), layout : Seq(Nat), freed : SUBSET Nat,
             insert : Nat]

\* Every block that is mentioned has been allocated.
BodyOK(m) ==
    /\ m \in BodyType
    /\ Len(m.preds) = Len(m.code)
    /\ Len(m.succs) = Len(m.code)
    /\ \A b \in Blocks(m) : m.preds[b] \cup m.succs[b] \subseteq Blocks(m)
    /\ \A i \in 1 .. Len(m.layout) : m.layout[i] \in Blocks(m)
    /\ m.freed \subseteq Blocks(m)
    /\ m.insert \in {None} \cup Blocks(m)

InLayout(m, b) == \E i \in 1 .. Len(m.layout) : m.layout[i] = b

HasTerminator(m, b) ==
    \E i \in 1 .. Len(m.code[b]) : IsTerminator(m.code[b][i])

HasPreds(m, b) == m.preds[b] # {}

\* The blocks that the instructions of s branch to.
Branches(s) == UNION {Targets(s[i]) : i \in 1 .. Len(s)}

\* The predecessor and successor lists say what the instructions say.
Mirror(m) ==
    \A b \in Blocks(m) :
        /\ m.succs[b] = Branches(m.code[b])
        /\ \A c \in Blocks(m) : c \in m.succs[b] <=> b \in m.preds[c]

\* Allocates c blocks that belong to no function yet.
NewBlocks(m, c) ==
    [m EXCEPT !.code  = @ \o [i \in 1 .. c |-> <<>>],
              !.preds = @ \o [i \in 1 .. c |-> {}],
              !.succs = @ \o [i \in 1 .. c |-> {}]]

\* Function::append.
AppendBlock(m, b) == [m EXCEPT !.layout = Append(@, b)]

SetInsert(m, b) == [m EXCEPT !.insert = b]

\* Faulty: a builder that drops its insertion point along with the block.
FreeAndUnset(m, b) == [m EXCEPT !.freed = @ \cup {b}, !.insert = None]

\* delete of a block that never entered the function.
FreeBlock(m, b) == [m EXCEPT !.freed = @ \cup {b}]

\* The instruction constructors append to the insertion block.
Emit(m, i) == [m EXCEPT !.code[m.insert] = Append(@, i)]

\* add_pred and add_succ: each calls the other, so one call records both,
\* and neither records a block twice.
Link(s, b, c) == [s EXCEPT ![b] = @ \cup {c}]

AddEdge(m, b, c) == [m EXCEPT !.preds = Link(@, c, b), !.succs = Link(@, b, c)]

BuildJmp(m, d) == AddEdge(Emit(m, Jmp(d)), m.insert, d)

\* Faulty: forgets the edge to the false block.
BuildBrifOneEdge(m, v, t, f) == AddEdge(Emit(m, Brif(v, t, f)), m.insert, t)

BuildBrif(m, v, t, f) ==
    AddEdge(AddEdge(Emit(m, Brif(v, t, f)), m.insert, t), m.insert, f)

BuildRet(m, n) == Emit(m, Ret(n))

\* Faulty: leaves the block open.
LeaveOpen(m, d) == m

\* The idiom of every statement handler: a body that did not terminate on
\* its own is closed by a jump.
JmpIfOpen(m, d) == IF HasTerminator(m, m.insert) THEN m ELSE BuildJmp(m, d)
=============================================================================
