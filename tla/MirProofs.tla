----------------------------- MODULE MirProofs -----------------------------
(***************************************************************************)
(* What the builder operators of Mir preserve and change.  Each of them    *)
(* leaves a function body well formed: every block that is mentioned has   *)
(* been allocated, and the predecessor and successor lists agree with the  *)
(* terminators.                                                            *)
(***************************************************************************)
EXTENDS Mir, TLAPS

WellFormed(m) == BodyOK(m) /\ Mirror(m)

-----------------------------------------------------------------------------
(* Instructions and the sequences of them.                                 *)

\* The instructions that the handlers build are instructions.
LEMMA InstTypes ==
    ASSUME NEW n \in Nat, NEW short \in BOOLEAN,
           NEW inc \in SUBSET [blk : Nat, src : Nat]
    PROVE  /\ Eval(n) \in Inst /\ Copy(n) \in Inst /\ Ret(n) \in Inst
           /\ Phi(n, short, inc) \in Inst
BY DEF Eval, Copy, Ret, Phi, Plain, Inst, InstOps, Terminators, None

\* And so are branches to blocks that are not null.
LEMMA BranchTypes ==
    ASSUME NEW n \in Nat, NEW t \in Nat \ {0}, NEW f \in Nat \ {0}
    PROVE  Jmp(t) \in Inst /\ Brif(n, t, f) \in Inst
BY DEF Jmp, Brif, Plain, Inst, InstOps, Terminators, None

\* Only jmp and brif have targets.
LEMMA InstTargets ==
    ASSUME NEW n \in Nat, NEW t \in Nat \ {0}, NEW f \in Nat \ {0},
           NEW short \in BOOLEAN, NEW inc
    PROVE  /\ Targets(Eval(n)) = {} /\ Targets(Copy(n)) = {}
           /\ Targets(Ret(n)) = {} /\ Targets(Phi(n, short, inc)) = {}
           /\ Targets(Jmp(t)) = {t} /\ Targets(Brif(n, t, f)) = {t, f}
BY DEF Eval, Copy, Ret, Jmp, Brif, Phi, Plain, Targets, None

\* An instruction at the end adds its targets.
LEMMA BranchesAppend ==
    ASSUME NEW s \in Seq(Inst), NEW i \in Inst
    PROVE  Branches(Append(s, i)) = Branches(s) \cup Targets(i)
<1> DEFINE a == Append(s, i)
<1>1. /\ Len(a) = Len(s) + 1 /\ a[Len(s) + 1] = i /\ Len(s) \in Nat
      /\ \A j \in 1 .. Len(s) : a[j] = s[j]
  OBVIOUS
<1> HIDE DEF a
<1>2. \A x : x \in Branches(a) <=> \E j \in 1 .. Len(a) : x \in Targets(a[j])
  BY DEF Branches
<1>3. \A x : x \in Branches(s) <=> \E j \in 1 .. Len(s) : x \in Targets(s[j])
  BY DEF Branches
<1>4. \A x : x \in Branches(a) <=> x \in Branches(s) \/ x \in Targets(i)
  BY <1>1, <1>2, <1>3
<1> QED
  BY <1>4 DEF a

\* Concatenation stays in the set of sequences.
LEMMA ConcatSeq ==
    ASSUME NEW S, NEW s \in Seq(S), NEW t \in Seq(S)
    PROVE  s \o t \in Seq(S) /\ Len(s \o t) = Len(s) + Len(t)
OBVIOUS

\* The elements of a concatenation.
LEMMA ConcatParts ==
    ASSUME NEW S, NEW fs \in Seq(S), NEW t \in Seq(S)
    PROVE  /\ fs \o t \in Seq(S)
           /\ Len(fs) \in Nat /\ Len(t) \in Nat
           /\ Len(fs \o t) = Len(fs) + Len(t)
           /\ \A j \in 1 .. Len(fs) : (fs \o t)[j] = fs[j]
           /\ \A j \in 1 .. Len(t) : (fs \o t)[Len(fs) + j] = t[j]
           /\ \A j \in 1 .. Len(fs \o t) :
                 j > Len(fs) => /\ j - Len(fs) \in 1 .. Len(t)
                                /\ (fs \o t)[j] = t[j - Len(fs)]
OBVIOUS

\* So for sequences of sets of blocks.
LEMMA ConcatSets ==
    ASSUME NEW s \in Seq(SUBSET Nat), NEW t \in Seq(SUBSET Nat)
    PROVE  /\ Len(s) \in Nat /\ Len(t) \in Nat /\ Len(s \o t) = Len(s) + Len(t)
           /\ \A j \in 1 .. Len(s) : (s \o t)[j] = s[j]
           /\ \A j \in 1 .. Len(t) : (s \o t)[Len(s) + j] = t[j]
           /\ \A j \in 1 .. Len(s \o t) : j > Len(s) =>
                 j - Len(s) \in 1 .. Len(t) /\ (s \o t)[j] = t[j - Len(s)]
OBVIOUS

\* No instruction, no target.
LEMMA BranchesEmpty == Branches(<<>>) = {}
BY DEF Branches

-----------------------------------------------------------------------------
(* Bookkeeping that leaves instructions and edges alone.                   *)

\* Function::append keeps a body well formed.
LEMMA AppendBlockOK ==
    ASSUME NEW m, WellFormed(m), NEW b \in Blocks(m)
    PROVE  LET n == AppendBlock(m, b) IN
           /\ WellFormed(n)
           /\ n.code = m.code
           /\ n.insert = m.insert
<1> DEFINE n == AppendBlock(m, b)
<1>1. m \in BodyType /\ b \in Nat /\ m.layout \in Seq(Nat)
  BY DEF WellFormed, BodyOK, BodyType, Blocks
<1>2. /\ n.code = m.code /\ n.preds = m.preds /\ n.succs = m.succs
      /\ n.freed = m.freed /\ n.layout = Append(m.layout, b)
      /\ n.insert = m.insert
  BY <1>1 DEF BodyType, AppendBlock
<1>3. Append(m.layout, b) \in Seq(Nat)
  BY <1>1
<1>4. n \in BodyType
  BY <1>1, <1>3 DEF BodyType, AppendBlock
<1>5. Blocks(n) = Blocks(m)
  BY <1>2 DEF Blocks
<1>6. \A i \in 1 .. Len(n.layout) : n.layout[i] \in Blocks(m)
  BY <1>1, <1>2 DEF WellFormed, BodyOK
<1> HIDE DEF n
<1>7. BodyOK(n) /\ Mirror(n)
  BY <1>2, <1>4, <1>5, <1>6 DEF WellFormed, BodyOK, Mirror
<1> QED
  BY <1>2, <1>7 DEF n, WellFormed

\* Moving the insertion point keeps a body well formed.
LEMMA SetInsertOK ==
    ASSUME NEW m, WellFormed(m), NEW b \in Blocks(m)
    PROVE  LET n == SetInsert(m, b) IN
           /\ WellFormed(n)
           /\ n.code = m.code
           /\ n.insert = b
<1> DEFINE n == SetInsert(m, b)
<1>1. m \in BodyType /\ b \in Nat
  BY DEF WellFormed, BodyOK, BodyType, Blocks
<1>2. /\ n.code = m.code /\ n.preds = m.preds /\ n.succs = m.succs
      /\ n.freed = m.freed /\ n.layout = m.layout /\ n.insert = b
  BY <1>1 DEF BodyType, SetInsert
<1>3. n \in BodyType
  BY <1>1 DEF BodyType, SetInsert
<1>4. Blocks(n) = Blocks(m)
  BY <1>2 DEF Blocks
<1> HIDE DEF n
<1>5. BodyOK(n) /\ Mirror(n)
  BY <1>2, <1>3, <1>4 DEF WellFormed, BodyOK, Mirror
<1> QED
  BY <1>2, <1>5 DEF n, WellFormed

\* Deleting an allocated block keeps a body well formed.
LEMMA FreeBlockOK ==
    ASSUME NEW m, WellFormed(m), NEW b \in Blocks(m)
    PROVE  LET n == FreeBlock(m, b) IN
           /\ WellFormed(n)
           /\ n.code = m.code
           /\ n.insert = m.insert
<1> DEFINE n == FreeBlock(m, b)
<1>1. m \in BodyType /\ b \in Nat
  BY DEF WellFormed, BodyOK, BodyType, Blocks
<1>2. /\ n.code = m.code /\ n.preds = m.preds /\ n.succs = m.succs
      /\ n.freed = m.freed \cup {b} /\ n.layout = m.layout
      /\ n.insert = m.insert
  BY <1>1 DEF BodyType, FreeBlock
<1>3. n \in BodyType
  BY <1>1 DEF BodyType, FreeBlock
<1>4. Blocks(n) = Blocks(m)
  BY <1>2 DEF Blocks
<1> HIDE DEF n
<1>5. BodyOK(n) /\ Mirror(n)
  BY <1>2, <1>3, <1>4 DEF WellFormed, BodyOK, Mirror
<1> QED
  BY <1>2, <1>5 DEF n, WellFormed

\* Fresh blocks are empty and nothing branches to them.
LEMMA NewBlocksOK ==
    ASSUME NEW m, WellFormed(m), NEW c \in Nat
    PROVE  LET n == NewBlocks(m, c) IN
           /\ WellFormed(n)
           /\ Len(n.code) = Len(m.code) + c
           /\ n.insert = m.insert
<1> DEFINE n == NewBlocks(m, c)
           nil == [i \in 1 .. c |-> <<>>]
           empty == [i \in 1 .. c |-> {}]
<1>1. m \in BodyType /\ BodyOK(m) /\ Mirror(m)
  BY DEF WellFormed, BodyOK
<1>2. /\ nil \in Seq(Seq(Inst)) /\ Len(nil) = c
      /\ empty \in Seq(SUBSET Nat) /\ Len(empty) = c
  OBVIOUS
<1>3. /\ n.code = m.code \o nil
      /\ n.preds = m.preds \o empty
      /\ n.succs = m.succs \o empty
      /\ n.layout = m.layout /\ n.freed = m.freed /\ n.insert = m.insert
  BY <1>1 DEF NewBlocks, BodyType
<1> HIDE DEF nil, empty
<1>4. /\ n.code \in Seq(Seq(Inst)) /\ Len(n.code) = Len(m.code) + c
      /\ n.preds \in Seq(SUBSET Nat) /\ Len(n.preds) = Len(m.preds) + c
      /\ n.succs \in Seq(SUBSET Nat) /\ Len(n.succs) = Len(m.succs) + c
  <2>1. /\ m.code \in Seq(Seq(Inst)) /\ m.preds \in Seq(SUBSET Nat)
        /\ m.succs \in Seq(SUBSET Nat)
    BY <1>1 DEF BodyType
  <2>2. n.code \in Seq(Seq(Inst)) /\ Len(n.code) = Len(m.code) + c
    BY <1>2, <1>3, <2>1
  <2>3. /\ m.preds \o empty \in Seq(SUBSET Nat)
        /\ Len(m.preds \o empty) = Len(m.preds) + c
    BY <1>2, <2>1, ConcatSeq
  <2>4. /\ m.succs \o empty \in Seq(SUBSET Nat)
        /\ Len(m.succs \o empty) = Len(m.succs) + c
    BY <1>2, <2>1, ConcatSeq
  <2> QED
    BY <1>3, <2>2, <2>3, <2>4
<1>5. n \in BodyType
  BY <1>1, <1>3, <1>4 DEF BodyType, NewBlocks, nil, empty
<1>6. \A b \in Blocks(n) :
        /\ n.preds[b] = IF b \in Blocks(m) THEN m.preds[b] ELSE {}
        /\ n.succs[b] = IF b \in Blocks(m) THEN m.succs[b] ELSE {}
  BY <1>1, <1>2, <1>3, <1>4 DEF BodyOK, BodyType, Blocks, empty
<1>7. \A b \in Blocks(n) :
        n.code[b] = IF b \in Blocks(m) THEN m.code[b] ELSE <<>>
  BY <1>1, <1>2, <1>3, <1>4 DEF BodyType, Blocks, nil
<1>8. Blocks(m) \subseteq Blocks(n)
  BY <1>1, <1>4 DEF Blocks, BodyType
<1> HIDE DEF n
<1>9. BodyOK(n)
  BY <1>1, <1>3, <1>4, <1>5, <1>6, <1>8 DEF BodyOK
<1>10. \A b \in Blocks(n) : n.succs[b] = Branches(n.code[b])
  BY <1>1, <1>6, <1>7, BranchesEmpty DEF Mirror
<1>11. ASSUME NEW b \in Blocks(n), NEW d \in Blocks(n)
       PROVE  d \in n.succs[b] <=> b \in n.preds[d]
  <2>1. CASE b \in Blocks(m) /\ d \in Blocks(m)
    BY <2>1, <1>1, <1>6 DEF Mirror
  <2>2. CASE b \notin Blocks(m)
    BY <2>2, <1>1, <1>6 DEF BodyOK
  <2>3. CASE d \notin Blocks(m)
    BY <2>3, <1>1, <1>6 DEF BodyOK
  <2> QED
    BY <2>1, <2>2, <2>3
<1>12. Mirror(n)
  BY <1>10, <1>11 DEF Mirror
<1> QED
  BY <1>3, <1>4, <1>9, <1>12 DEF n, WellFormed

-----------------------------------------------------------------------------
(* Instructions and edges.                                                 *)

\* An edge is one more member of one list.
LEMMA LinkOK ==
    ASSUME NEW s \in Seq(SUBSET Nat), NEW b \in 1 .. Len(s), NEW c \in Nat
    PROVE  /\ Link(s, b, c) \in Seq(SUBSET Nat)
           /\ Len(Link(s, b, c)) = Len(s)
           /\ \A x \in 1 .. Len(s) : \A y :
                 y \in Link(s, b, c)[x] <=> y \in s[x] \/ (x = b /\ y = c)
<1>1. DOMAIN s = 1 .. Len(s)
  OBVIOUS
<1>2. \A x \in 1 .. Len(s) :
         Link(s, b, c)[x] = IF x = b THEN s[x] \cup {c} ELSE s[x]
  BY <1>1, Zenon DEF Link
<1>3. s[b] \cup {c} \in SUBSET Nat
  OBVIOUS
<1>4. Link(s, b, c) \in Seq(SUBSET Nat) /\ Len(Link(s, b, c)) = Len(s)
  BY <1>3 DEF Link
<1>5. \A x \in 1 .. Len(s) : \A y :
         y \in Link(s, b, c)[x] <=> y \in s[x] \/ (x = b /\ y = c)
  BY <1>2
<1> QED
  BY <1>4, <1>5

\* add_pred and add_succ record one edge, in both directions.
LEMMA AddEdgeOK ==
    ASSUME NEW m, BodyOK(m), NEW b \in Blocks(m), NEW c \in Blocks(m)
    PROVE  LET n == AddEdge(m, b, c) IN
           /\ BodyOK(n)
           /\ n.code = m.code
           /\ n.insert = m.insert
           /\ \A x \in Blocks(m) : \A y :
                 y \in n.preds[x] <=> y \in m.preds[x] \/ (x = c /\ y = b)
           /\ \A x \in Blocks(m) : \A y :
                 y \in n.succs[x] <=> y \in m.succs[x] \/ (x = b /\ y = c)
<1> DEFINE n == AddEdge(m, b, c)
           ps == Link(m.preds, c, b)
           ss == Link(m.succs, b, c)
<1>1. /\ m \in BodyType /\ b \in Nat /\ c \in Nat
      /\ m.preds \in Seq(SUBSET Nat) /\ c \in 1 .. Len(m.preds)
      /\ m.succs \in Seq(SUBSET Nat) /\ b \in 1 .. Len(m.succs)
      /\ Blocks(m) = 1 .. Len(m.preds) /\ Blocks(m) = 1 .. Len(m.succs)
  BY DEF BodyOK, BodyType, Blocks
<1>2. /\ n.code = m.code /\ n.preds = ps /\ n.succs = ss
      /\ n.freed = m.freed /\ n.layout = m.layout /\ n.insert = m.insert
  BY <1>1 DEF BodyType, AddEdge
<1>3. /\ ps \in Seq(SUBSET Nat) /\ Len(ps) = Len(m.preds)
      /\ ss \in Seq(SUBSET Nat) /\ Len(ss) = Len(m.succs)
  BY <1>1, LinkOK
<1>4. \A x \in 1 .. Len(m.preds) : \A y :
        y \in ps[x] <=> y \in m.preds[x] \/ (x = c /\ y = b)
  BY <1>1, LinkOK
<1>5. \A x \in 1 .. Len(m.succs) : \A y :
        y \in ss[x] <=> y \in m.succs[x] \/ (x = b /\ y = c)
  BY <1>1, LinkOK
<1>6. n \in BodyType
  BY <1>1, <1>2, <1>3 DEF BodyType, AddEdge
<1>7. Blocks(n) = Blocks(m)
  BY <1>2 DEF Blocks
<1>8. \A x \in Blocks(m) : ps[x] \cup ss[x] \subseteq Blocks(m)
  BY <1>1, <1>4, <1>5 DEF BodyOK
<1> HIDE DEF n, ps, ss
<1>9. BodyOK(n)
  BY <1>2, <1>3, <1>6, <1>7, <1>8 DEF BodyOK
<1> QED
  BY <1>1, <1>2, <1>4, <1>5, <1>9 DEF n

\* An instruction goes to the end of the insertion block.
LEMMA EmitOK ==
    ASSUME NEW m, BodyOK(m), m.insert # None, NEW i \in Inst
    PROVE  LET n == Emit(m, i) IN
           /\ BodyOK(n)
           /\ Len(n.code) = Len(m.code)
           /\ Blocks(n) = Blocks(m)
           /\ m.insert \in Blocks(m)
           /\ n.insert = m.insert /\ n.preds = m.preds /\ n.succs = m.succs
           /\ \A b \in Blocks(m) :
                 /\ m.code[b] \in Seq(Inst)
                 /\ n.code[b] = IF b = m.insert THEN Append(m.code[b], i)
                                                ELSE m.code[b]
<1> DEFINE n == Emit(m, i)
<1>1. /\ m \in BodyType /\ m.insert \in Blocks(m)
      /\ \A b \in Blocks(m) : m.code[b] \in Seq(Inst)
  BY DEF BodyOK, BodyType, Blocks
<1>2. /\ n.code = [m.code EXCEPT ![m.insert] = Append(@, i)]
      /\ n.preds = m.preds /\ n.succs = m.succs
      /\ n.freed = m.freed /\ n.layout = m.layout /\ n.insert = m.insert
  BY <1>1 DEF BodyType, Emit
<1>3. n.code \in Seq(Seq(Inst)) /\ Len(n.code) = Len(m.code)
  BY <1>1, <1>2 DEF BodyType, Blocks
<1>4. n \in BodyType
  BY <1>1, <1>2, <1>3 DEF BodyType, Emit
<1>5. Blocks(n) = Blocks(m)
  BY <1>3 DEF Blocks
<1>6. \A b \in Blocks(m) : n.code[b] = IF b = m.insert THEN Append(m.code[b], i)
                                                       ELSE m.code[b]
  BY <1>1, <1>2 DEF BodyType, Blocks
<1> HIDE DEF n
<1>7. BodyOK(n)
  BY <1>2, <1>3, <1>4, <1>5 DEF BodyOK
<1> QED
  BY <1>1, <1>2, <1>3, <1>5, <1>6, <1>7 DEF n

\* Straight-line code and returns add no edge.
LEMMA EmitPlainOK ==
    ASSUME NEW m, WellFormed(m), m.insert # None,
           NEW i \in Inst, Targets(i) = {}
    PROVE  LET n == Emit(m, i) IN
           /\ WellFormed(n)
           /\ Len(n.code) = Len(m.code)
           /\ n.insert = m.insert
<1> DEFINE n == Emit(m, i)
<1>1. /\ BodyOK(n) /\ Len(n.code) = Len(m.code) /\ Blocks(n) = Blocks(m)
      /\ n.insert = m.insert /\ n.preds = m.preds /\ n.succs = m.succs
  BY EmitOK DEF WellFormed
<1>2. \A b \in Blocks(m) : Branches(n.code[b]) = Branches(m.code[b])
  <2> TAKE b \in Blocks(m)
  <2>1. /\ m.code[b] \in Seq(Inst)
        /\ n.code[b] = IF b = m.insert THEN Append(m.code[b], i) ELSE m.code[b]
    BY EmitOK DEF WellFormed
  <2>2. Branches(Append(m.code[b], i)) = Branches(m.code[b])
    BY <2>1, BranchesAppend
  <2> QED
    BY <2>1, <2>2
<1> HIDE DEF n
<1>3. Mirror(n)
  BY <1>1, <1>2 DEF WellFormed, Mirror
<1> QED
  BY <1>1, <1>3 DEF n, WellFormed

\* build_jmp records exactly the edge it branches along.
LEMMA BuildJmpOK ==
    ASSUME NEW m, WellFormed(m), m.insert # None, NEW d \in Blocks(m)
    PROVE  LET n == BuildJmp(m, d) IN
           /\ WellFormed(n)
           /\ Len(n.code) = Len(m.code)
           /\ n.insert = m.insert
<1> DEFINE e == Emit(m, Jmp(d))
           n == AddEdge(e, m.insert, d)
<1>1. /\ d \in Nat \ {0} /\ Jmp(d) \in Inst /\ Targets(Jmp(d)) = {d}
      /\ BodyOK(m) /\ Mirror(m)
  <2>1. d \in Nat \ {0}
    BY DEF Blocks, BodyOK, BodyType
  <2> QED
    BY <2>1, BranchTypes, InstTargets DEF WellFormed
<1>2. /\ BodyOK(e) /\ Len(e.code) = Len(m.code) /\ Blocks(e) = Blocks(m)
      /\ m.insert \in Blocks(m)
      /\ e.insert = m.insert /\ e.preds = m.preds /\ e.succs = m.succs
  BY <1>1, EmitOK
<1>3. \A b \in Blocks(m) : \A y : y \in Branches(e.code[b]) <=>
        y \in Branches(m.code[b]) \/ (b = m.insert /\ y = d)
  <2> TAKE b \in Blocks(m)
  <2>1. /\ m.code[b] \in Seq(Inst)
        /\ e.code[b] = IF b = m.insert THEN Append(m.code[b], Jmp(d))
                                       ELSE m.code[b]
    BY <1>1, EmitOK
  <2>2. Branches(Append(m.code[b], Jmp(d))) = Branches(m.code[b]) \cup {d}
    BY <1>1, <2>1, BranchesAppend
  <2> QED
    BY <2>1, <2>2
<1> HIDE DEF e
<1>4. m.insert \in Blocks(e) /\ d \in Blocks(e)
  BY <1>2
<1>5. BodyOK(n) /\ n.code = e.code /\ n.insert = e.insert
  BY <1>2, <1>4, AddEdgeOK
<1>6. \A x \in Blocks(m) : \A y :
        y \in n.preds[x] <=> y \in m.preds[x] \/ (x = d /\ y = m.insert)
  BY <1>2, <1>4, AddEdgeOK
<1>7. \A x \in Blocks(m) : \A y :
        y \in n.succs[x] <=> y \in m.succs[x] \/ (x = m.insert /\ y = d)
  BY <1>2, <1>4, AddEdgeOK
<1>8. Blocks(n) = Blocks(m)
  BY <1>2, <1>5 DEF Blocks
<1> HIDE DEF n
<1>9. \A b \in Blocks(m) : n.succs[b] = Branches(n.code[b])
  <2> TAKE b \in Blocks(m)
  <2>1. m.succs[b] = Branches(m.code[b])
    BY <1>1 DEF Mirror
  <2> QED
    BY <2>1, <1>3, <1>5, <1>7
<1>10. \A b, c \in Blocks(m) : c \in n.succs[b] <=> b \in n.preds[c]
  BY <1>1, <1>6, <1>7 DEF Mirror
<1>11. Mirror(n)
  BY <1>8, <1>9, <1>10 DEF Mirror
<1> QED
  BY <1>2, <1>5, <1>11 DEF n, e, BuildJmp, WellFormed

\* build_brif records exactly the two edges it branches along.
LEMMA BuildBrifOK ==
    ASSUME NEW m, WellFormed(m), m.insert # None, NEW v \in Nat,
           NEW t \in Blocks(m), NEW f \in Blocks(m)
    PROVE  LET n == BuildBrif(m, v, t, f) IN
           /\ WellFormed(n)
           /\ Len(n.code) = Len(m.code)
           /\ n.insert = m.insert
<1> DEFINE i == Brif(v, t, f)
           e == Emit(m, i)
           a == AddEdge(e, m.insert, t)
           n == AddEdge(a, m.insert, f)
<1>1. /\ i \in Inst /\ Targets(i) = {t, f} /\ BodyOK(m) /\ Mirror(m)
  <2>1. t \in Nat \ {0} /\ f \in Nat \ {0} /\ {} \in SUBSET [blk : Nat, src : Nat]
    BY DEF Blocks, BodyOK, BodyType
  <2>2. Brif(v, t, f) \in Inst
    BY <2>1, BranchTypes
  <2>3. Targets(Brif(v, t, f)) = {t, f}
    BY <2>1 DEF Targets, Brif, Plain, None
  <2> QED
    BY <2>2, <2>3 DEF WellFormed
<1>2. /\ BodyOK(e) /\ Len(e.code) = Len(m.code) /\ Blocks(e) = Blocks(m)
      /\ m.insert \in Blocks(m)
      /\ e.insert = m.insert /\ e.preds = m.preds /\ e.succs = m.succs
  BY <1>1, EmitOK
<1>3. \A b \in Blocks(m) : \A y : y \in Branches(e.code[b]) <=>
        y \in Branches(m.code[b]) \/ (b = m.insert /\ y \in {t, f})
  <2> TAKE b \in Blocks(m)
  <2> HIDE DEF i
  <2>1. /\ m.code[b] \in Seq(Inst)
        /\ e.code[b] = IF b = m.insert THEN Append(m.code[b], i) ELSE m.code[b]
    BY <1>1, EmitOK
  <2>2. Branches(Append(m.code[b], i)) = Branches(m.code[b]) \cup {t, f}
    BY <1>1, <2>1, BranchesAppend
  <2> QED
    BY <2>1, <2>2
<1> HIDE DEF e
<1>4. m.insert \in Blocks(e) /\ t \in Blocks(e)
  BY <1>2
<1>5. BodyOK(a) /\ a.code = e.code /\ a.insert = e.insert
  BY <1>2, <1>4, AddEdgeOK
<1>6. \A x \in Blocks(m) : \A y :
        y \in a.preds[x] <=> y \in m.preds[x] \/ (x = t /\ y = m.insert)
  BY <1>2, <1>4, AddEdgeOK
<1>7. \A x \in Blocks(m) : \A y :
        y \in a.succs[x] <=> y \in m.succs[x] \/ (x = m.insert /\ y = t)
  BY <1>2, <1>4, AddEdgeOK
<1>8. Blocks(a) = Blocks(m) /\ m.insert \in Blocks(a) /\ f \in Blocks(a)
  BY <1>2, <1>5 DEF Blocks
<1> HIDE DEF a
<1>9. BodyOK(n) /\ n.code = a.code /\ n.insert = a.insert
  BY <1>5, <1>8, AddEdgeOK
<1>10. \A x \in Blocks(m) : \A y :
        y \in n.preds[x] <=> y \in a.preds[x] \/ (x = f /\ y = m.insert)
  BY <1>5, <1>8, AddEdgeOK
<1>11. \A x \in Blocks(m) : \A y :
        y \in n.succs[x] <=> y \in a.succs[x] \/ (x = m.insert /\ y = f)
  BY <1>5, <1>8, AddEdgeOK
<1>12. Blocks(n) = Blocks(m)
  BY <1>8, <1>9 DEF Blocks
<1> HIDE DEF n
<1>13. \A b \in Blocks(m) : n.succs[b] = Branches(n.code[b])
  <2> TAKE b \in Blocks(m)
  <2>1. m.succs[b] = Branches(m.code[b])
    BY <1>1 DEF Mirror
  <2>2. \A y : y \in n.succs[b] <=> y \in m.succs[b] \/ (b = m.insert /\ y \in {t, f})
    BY <1>7, <1>11
  <2>3. \A y : y \in Branches(n.code[b]) <=> y \in m.succs[b] \/ (b = m.insert /\ y \in {t, f})
    BY <2>1, <1>3, <1>5, <1>9
  <2> HIDE DEF i
  <2> QED
    BY <2>2, <2>3
<1>14. \A b, c \in Blocks(m) : c \in n.succs[b] <=> b \in n.preds[c]
  BY <1>1, <1>6, <1>7, <1>10, <1>11 DEF Mirror
<1>15. Mirror(n)
  BY <1>12, <1>13, <1>14 DEF Mirror
<1> QED
  BY <1>2, <1>5, <1>9, <1>15 DEF n, a, e, i, BuildBrif, WellFormed

\* build_ret adds no edge.
LEMMA BuildRetOK ==
    ASSUME NEW m, WellFormed(m), m.insert # None, NEW v \in Nat
    PROVE  LET n == BuildRet(m, v) IN
           /\ WellFormed(n)
           /\ Len(n.code) = Len(m.code)
           /\ n.insert = m.insert
<1>1. Ret(v) \in Inst /\ Targets(Ret(v)) = {}
  BY DEF Ret, Plain, Targets, Inst, InstOps, Terminators, None
<1> QED
  BY <1>1, EmitPlainOK DEF BuildRet

\* Closing a body keeps it well formed.
LEMMA JmpIfOpenOK ==
    ASSUME NEW m, WellFormed(m), m.insert # None, NEW d \in Blocks(m)
    PROVE  LET n == JmpIfOpen(m, d) IN
           /\ WellFormed(n)
           /\ Len(n.code) = Len(m.code)
           /\ n.insert = m.insert
BY BuildJmpOK DEF JmpIfOpen

-----------------------------------------------------------------------------
(***************************************************************************)
(* What a handler of the code generator can do to a function body, in one  *)
(* relation: allocate blocks, branch from the insertion block, append one  *)
(* block and go on there, delete blocks, add phis.  Every handler is a     *)
(* composition of builder calls; the lemmas say which step it composes to. *)
(***************************************************************************)

\* p is a phi of block b.
PhiIn(m, b, p) ==
    p.op = "phi" /\ \E i \in 1 .. Len(m.code[b]) : m.code[b][i] = p

(* From m to n: k blocks are allocated, the insertion block of m branches  *)
(* to the blocks T, block o is appended and becomes the insertion block    *)
(* (none if o is None), the blocks F are deleted and the insertion block   *)
(* of n gets the phis X.  A block is left only when it is terminated.      *)
Step(m, n, k, T, o, F, X) ==
    /\ Len(n.code) = Len(m.code) + k
    /\ n.freed = m.freed \cup F
    /\ o = None => n.layout = m.layout /\ n.insert = m.insert
    /\ o # None => /\ n.layout = Append(m.layout, o) /\ n.insert = o
                   /\ HasTerminator(n, m.insert)
    /\ \A x \in Blocks(n) : \A y :
          y \in n.preds[x] <=> \/ x \in Blocks(m) /\ y \in m.preds[x]
                               \/ x \in T /\ y = m.insert
    /\ \A b \in Blocks(m) : HasTerminator(m, b) => HasTerminator(n, b)
    /\ \A b \in Blocks(n) : \A p :
          PhiIn(n, b, p) <=> \/ b \in Blocks(m) /\ PhiIn(m, b, p)
                             \/ b = n.insert /\ p \in X

-----------------------------------------------------------------------------
(* Single builder calls.                                                   *)

\* The fields of a body that is well formed.
LEMMA BodyFields ==
    ASSUME NEW m, WellFormed(m)
    PROVE  /\ m \in BodyType
           /\ m.code \in Seq(Seq(Inst)) /\ Len(m.code) \in Nat
           /\ m.preds \in Seq(SUBSET Nat) /\ Len(m.preds) = Len(m.code)
           /\ m.succs \in Seq(SUBSET Nat) /\ Len(m.succs) = Len(m.code)
           /\ m.layout \in Seq(Nat)
           /\ \A b \in Blocks(m) : b \in Nat \ {0} /\ m.code[b] \in Seq(Inst)
BY DEF WellFormed, BodyOK, BodyType, Blocks

\* Nothing happens.
LEMMA NoStep ==
    ASSUME NEW m, WellFormed(m)
    PROVE  Step(m, m, 0, {}, None, {}, {})
BY BodyFields DEF Step

\* Fresh blocks are empty, and nothing branches to them.
LEMMA NewBlocksStep ==
    ASSUME NEW m, WellFormed(m), NEW k \in Nat
    PROVE  Step(m, NewBlocks(m, k), k, {}, None, {}, {})
<1> DEFINE n == NewBlocks(m, k)
           nil == [i \in 1 .. k |-> <<>>]
           empty == [i \in 1 .. k |-> {}]
<1>1. m \in BodyType /\ m.code \in Seq(Seq(Inst)) /\ m.preds \in Seq(SUBSET Nat)
      /\ Len(m.preds) = Len(m.code) /\ Len(m.code) \in Nat
  BY BodyFields
<1>2. /\ n.code = m.code \o nil /\ n.preds = m.preds \o empty
      /\ n.layout = m.layout /\ n.freed = m.freed /\ n.insert = m.insert
  BY <1>1 DEF NewBlocks, BodyType
<1>3. nil \in Seq(Seq(Inst)) /\ Len(nil) = k /\ \A i \in 1 .. k : nil[i] = <<>>
  OBVIOUS
<1>4. /\ empty \in Seq(SUBSET Nat) /\ Len(empty) = k
      /\ \A i \in 1 .. k : empty[i] = {}
  OBVIOUS
<1> HIDE DEF n, nil, empty
<1>5. Len(n.code) = Len(m.code) + k
  BY <1>1, <1>2, <1>3, ConcatSeq
<1>6. \A x \in Blocks(n) :
        n.preds[x] = IF x \in Blocks(m) THEN m.preds[x] ELSE {}
  <2> DEFINE s == m.preds
  <2>1. s \in Seq(SUBSET Nat) /\ n.preds = s \o empty /\ Len(s) = Len(m.code)
    BY <1>1, <1>2
  <2> HIDE DEF s
  <2>2. /\ \A j \in 1 .. Len(s) : n.preds[j] = s[j]
        /\ \A j \in 1 .. Len(empty) : n.preds[Len(s) + j] = empty[j]
        /\ \A j \in 1 .. Len(s) + Len(empty) : j > Len(s) =>
              j - Len(s) \in 1 .. Len(empty) /\ n.preds[j] = empty[j - Len(s)]
    <3>1. empty \in Seq(SUBSET Nat)
      BY <1>4
    <3> QED BY <3>1, <2>1, ConcatSets
  <2>3. \A x \in 1 .. Len(m.code) + k :
           n.preds[x] = IF x \in 1 .. Len(m.code) THEN s[x] ELSE {}
    <3> DEFINE c == Len(m.code)
    <3>1. c \in Nat /\ Len(s) = c /\ Len(empty) = k
      BY <1>1, <1>4, <2>1
    <3> HIDE DEF c
    <3>2. ASSUME NEW x \in 1 .. c + k, x > c
          PROVE  n.preds[x] = {}
      <4>1. x - c \in 1 .. k /\ n.preds[x] = empty[x - c]
        BY <2>2, <3>1, <3>2
      <4> QED
        BY <1>4, <4>1
    <3>3. ASSUME NEW x \in 1 .. c
          PROVE  n.preds[x] = s[x]
      BY <2>2, <3>1
    <3>4. \A x \in 1 .. c + k : n.preds[x] = IF x \in 1 .. c THEN s[x] ELSE {}
      <4>1. c \in Nat
        BY <3>1
      <4> QED
        BY <3>2, <3>3, <4>1
    <3> QED
      BY <3>4 DEF c
  <2> QED
    BY <1>5, <2>3 DEF Blocks, s
<1>7. \A x \in Blocks(n) :
        n.code[x] = IF x \in Blocks(m) THEN m.code[x] ELSE <<>>
  BY <1>1, <1>2, <1>3, <1>5, ConcatParts DEF Blocks
<1>8. Blocks(m) \subseteq Blocks(n)
  BY <1>1, <1>5 DEF Blocks
<1>9. \A b \in Blocks(m) : HasTerminator(m, b) => HasTerminator(n, b)
  BY <1>7, <1>8 DEF HasTerminator
<1>10. \A b \in Blocks(n) : \A p :
          PhiIn(n, b, p) <=> b \in Blocks(m) /\ PhiIn(m, b, p)
  <2> TAKE b \in Blocks(n)
  <2>1. CASE b \in Blocks(m)
    BY <2>1, <1>7 DEF PhiIn
  <2>2. CASE b \notin Blocks(m)
    <3>1. n.code[b] = <<>>
      BY <2>2, <1>7
    <3> QED
      BY <2>2, <3>1 DEF PhiIn
  <2> QED
    BY <2>1, <2>2
<1>11. Step(m, n, k, {}, None, {}, {})
  BY <1>2, <1>5, <1>6, <1>9, <1>10 DEF Step
<1> QED
  BY <1>11 DEF n

\* An instruction keeps the terminators, and the phis but itself.
LEMMA EmitKeeps ==
    ASSUME NEW m, WellFormed(m), m.insert # None, NEW i \in Inst
    PROVE  LET n == Emit(m, i) IN
           /\ Len(n.code) = Len(m.code) /\ Blocks(n) = Blocks(m)
           /\ n.preds = m.preds /\ n.layout = m.layout /\ n.freed = m.freed
           /\ n.insert = m.insert /\ m.insert \in Blocks(m)
           /\ \A b \in Blocks(m) : HasTerminator(m, b) => HasTerminator(n, b)
           /\ IsTerminator(i) => HasTerminator(n, m.insert)
           /\ \A b \in Blocks(m) : \A p :
                 PhiIn(n, b, p) <=>
                     PhiIn(m, b, p) \/ (b = m.insert /\ p = i /\ i.op = "phi")
<1> DEFINE n == Emit(m, i)
<1>1. /\ Len(n.code) = Len(m.code) /\ Blocks(n) = Blocks(m)
      /\ m.insert \in Blocks(m) /\ n.insert = m.insert /\ n.preds = m.preds
      /\ \A b \in Blocks(m) :
            /\ m.code[b] \in Seq(Inst)
            /\ n.code[b] = IF b = m.insert THEN Append(m.code[b], i)
                                           ELSE m.code[b]
  BY EmitOK DEF WellFormed
<1>2. n.layout = m.layout /\ n.freed = m.freed
  BY BodyFields DEF Emit, BodyType
<1> HIDE DEF n
<1>3. \A b \in Blocks(m) : b # m.insert => n.code[b] = m.code[b]
  BY <1>1
<1> DEFINE s == m.code[m.insert]
           t == n.code[m.insert]
<1>4. /\ Len(s) \in Nat /\ Len(t) = Len(s) + 1 /\ t[Len(s) + 1] = i
      /\ \A j \in 1 .. Len(s) : t[j] = s[j]
  <2>1. s \in Seq(Inst) /\ t = Append(s, i)
    BY <1>1
  <2> HIDE DEF s, t
  <2> QED
    BY <2>1
<1>5. HasTerminator(m, m.insert) => HasTerminator(n, m.insert)
  BY <1>4 DEF HasTerminator
<1>6. IsTerminator(i) => HasTerminator(n, m.insert)
  BY <1>4 DEF HasTerminator
<1>7. \A b \in Blocks(m) : HasTerminator(m, b) => HasTerminator(n, b)
  BY <1>3, <1>5 DEF HasTerminator
<1>8. \A p : PhiIn(n, m.insert, p) <=>
               PhiIn(m, m.insert, p) \/ (p = i /\ i.op = "phi")
  <2>1. \A p : (\E j \in 1 .. Len(t) : t[j] = p) <=>
               (\E j \in 1 .. Len(s) : s[j] = p) \/ p = i
    <3> HIDE DEF s, t
    <3> QED
      BY <1>4
  <2> QED
    BY <2>1 DEF PhiIn
<1>9. \A b \in Blocks(m) : \A p :
        b # m.insert => (PhiIn(n, b, p) <=> PhiIn(m, b, p))
  BY <1>3 DEF PhiIn
<1>10. \A b \in Blocks(m) : \A p :
          PhiIn(n, b, p) <=>
              PhiIn(m, b, p) \/ (b = m.insert /\ p = i /\ i.op = "phi")
  BY <1>8, <1>9
<1> QED
  BY <1>1, <1>2, <1>6, <1>7, <1>10 DEF n

\* Straight-line code.
LEMMA PlainStep ==
    ASSUME NEW m, WellFormed(m), m.insert # None, NEW i \in Inst, i.op # "phi"
    PROVE  Step(m, Emit(m, i), 0, {}, None, {}, {})
<1>1. Len(m.code) \in Nat
  BY BodyFields
<1> QED
  BY <1>1, EmitKeeps DEF Step

\* A phi.
LEMMA PhiStep ==
    ASSUME NEW m, WellFormed(m), m.insert # None, NEW i \in Inst, i.op = "phi"
    PROVE  Step(m, Emit(m, i), 0, {}, None, {}, {i})
<1>1. Len(m.code) \in Nat
  BY BodyFields
<1> QED
  BY <1>1, EmitKeeps DEF Step

\* An edge changes no instruction.
LEMMA AddEdgeKeeps ==
    ASSUME NEW m, BodyOK(m), NEW b \in Blocks(m), NEW c \in Blocks(m)
    PROVE  LET n == AddEdge(m, b, c) IN
           /\ BodyOK(n) /\ n.code = m.code /\ Blocks(n) = Blocks(m)
           /\ n.layout = m.layout /\ n.freed = m.freed /\ n.insert = m.insert
           /\ \A x \in Blocks(m) : \A y :
                 y \in n.preds[x] <=> y \in m.preds[x] \/ (x = c /\ y = b)
<1> DEFINE n == AddEdge(m, b, c)
<1>1. n.layout = m.layout /\ n.freed = m.freed
  BY DEF BodyOK, BodyType, AddEdge
<1>2. /\ BodyOK(n) /\ n.code = m.code /\ n.insert = m.insert
      /\ \A x \in Blocks(m) : \A y :
            y \in n.preds[x] <=> y \in m.preds[x] \/ (x = c /\ y = b)
  BY AddEdgeOK
<1> HIDE DEF n
<1>3. Blocks(n) = Blocks(m)
  BY <1>2 DEF Blocks
<1> QED
  BY <1>1, <1>2, <1>3 DEF n

\* build_jmp closes the block.
LEMMA JmpStep ==
    ASSUME NEW m, WellFormed(m), m.insert # None, NEW d \in Blocks(m)
    PROVE  /\ Step(m, BuildJmp(m, d), 0, {d}, None, {}, {})
           /\ HasTerminator(BuildJmp(m, d), m.insert)
<1> DEFINE i == Jmp(d)
           e == Emit(m, i)
           n == AddEdge(e, m.insert, d)
<1>1. Len(m.code) \in Nat /\ d \in Nat \ {0} /\ BodyOK(m)
  BY BodyFields DEF WellFormed, Blocks
<1>2. i \in Inst /\ i.op # "phi" /\ IsTerminator(i)
  <2>2. i \in Inst
    BY <1>1, BranchTypes
  <2> QED
    BY <2>2 DEF Jmp, Plain, IsTerminator, Terminators
<1> HIDE DEF i
<1>3. /\ Len(e.code) = Len(m.code) /\ Blocks(e) = Blocks(m)
      /\ e.preds = m.preds /\ e.layout = m.layout /\ e.freed = m.freed
      /\ e.insert = m.insert /\ m.insert \in Blocks(m)
      /\ \A b \in Blocks(m) : HasTerminator(m, b) => HasTerminator(e, b)
      /\ HasTerminator(e, m.insert)
      /\ \A b \in Blocks(m) : \A p : PhiIn(e, b, p) <=> PhiIn(m, b, p)
  BY <1>2, EmitKeeps
<1>4. BodyOK(e)
  BY <1>1, <1>2, EmitOK
<1> HIDE DEF e
<1>9. m.insert \in Blocks(e) /\ d \in Blocks(e)
  BY <1>3
<1>10. /\ n.code = e.code /\ Blocks(n) = Blocks(e)
       /\ n.layout = e.layout /\ n.freed = e.freed /\ n.insert = e.insert
  BY <1>4, <1>9, AddEdgeKeeps
<1>11. \A x \in Blocks(e) : \A y :
         y \in n.preds[x] <=> y \in e.preds[x] \/ (x = d /\ y = m.insert)
  BY <1>4, <1>9, AddEdgeKeeps
<1> HIDE DEF n
<1>5. /\ n.code = e.code /\ Blocks(n) = Blocks(e)
      /\ n.layout = e.layout /\ n.freed = e.freed /\ n.insert = e.insert
      /\ \A x \in Blocks(m) : \A y :
            y \in n.preds[x] <=> y \in m.preds[x] \/ (x = d /\ y = m.insert)
  BY <1>3, <1>10, <1>11
<1> HIDE DEF n
<1>6. \A b : HasTerminator(n, b) <=> HasTerminator(e, b)
  BY <1>5 DEF HasTerminator
<1>7. \A b, p : PhiIn(n, b, p) <=> PhiIn(e, b, p)
  BY <1>5 DEF PhiIn
<1>8. Step(m, n, 0, {d}, None, {}, {}) /\ HasTerminator(n, m.insert)
  BY <1>1, <1>3, <1>5, <1>6, <1>7 DEF Step
<1> QED
  BY <1>8 DEF n, e, i, BuildJmp

\* build_brif closes the block.
LEMMA BrifStep ==
    ASSUME NEW m, WellFormed(m), m.insert # None, NEW v \in Nat,
           NEW t \in Blocks(m), NEW f \in Blocks(m)
    PROVE  /\ Step(m, BuildBrif(m, v, t, f), 0, {t, f}, None, {}, {})
           /\ HasTerminator(BuildBrif(m, v, t, f), m.insert)
<1> DEFINE i == Brif(v, t, f)
           e == Emit(m, i)
           a == AddEdge(e, m.insert, t)
           n == AddEdge(a, m.insert, f)
<1>1. Len(m.code) \in Nat /\ t \in Nat \ {0} /\ f \in Nat \ {0} /\ BodyOK(m)
  BY BodyFields DEF WellFormed, Blocks
<1>2. i \in Inst /\ i.op # "phi" /\ IsTerminator(i)
  <2>2. i \in Inst
    BY <1>1, BranchTypes
  <2> QED
    BY <2>2 DEF Brif, Plain, IsTerminator, Terminators
<1> HIDE DEF i
<1>3. /\ Len(e.code) = Len(m.code) /\ Blocks(e) = Blocks(m)
      /\ e.preds = m.preds /\ e.layout = m.layout /\ e.freed = m.freed
      /\ e.insert = m.insert /\ m.insert \in Blocks(m)
      /\ \A b \in Blocks(m) : HasTerminator(m, b) => HasTerminator(e, b)
      /\ HasTerminator(e, m.insert)
      /\ \A b \in Blocks(m) : \A p : PhiIn(e, b, p) <=> PhiIn(m, b, p)
  BY <1>2, EmitKeeps
<1>4. BodyOK(e)
  BY <1>1, <1>2, EmitOK
<1> HIDE DEF e
<1>10. m.insert \in Blocks(e) /\ t \in Blocks(e)
  BY <1>3
<1>5. /\ BodyOK(a) /\ a.code = e.code /\ Blocks(a) = Blocks(e)
      /\ a.layout = e.layout /\ a.freed = e.freed /\ a.insert = e.insert
  BY <1>4, <1>10, AddEdgeKeeps
<1>11. \A x \in Blocks(e) : \A y :
         y \in a.preds[x] <=> y \in e.preds[x] \/ (x = t /\ y = m.insert)
  BY <1>4, <1>10, AddEdgeKeeps
<1> HIDE DEF a
<1>12. m.insert \in Blocks(a) /\ f \in Blocks(a)
  BY <1>3, <1>5
<1>6. /\ n.code = a.code /\ Blocks(n) = Blocks(a)
      /\ n.layout = a.layout /\ n.freed = a.freed /\ n.insert = a.insert
  BY <1>5, <1>12, AddEdgeKeeps
<1>13. \A x \in Blocks(a) : \A y :
         y \in n.preds[x] <=> y \in a.preds[x] \/ (x = f /\ y = m.insert)
  BY <1>5, <1>12, AddEdgeKeeps
<1> HIDE DEF n
<1>7. \A b : HasTerminator(n, b) <=> HasTerminator(e, b)
  BY <1>5, <1>6 DEF HasTerminator
<1>8. \A b, p : PhiIn(n, b, p) <=> PhiIn(e, b, p)
  BY <1>5, <1>6 DEF PhiIn
<1>9. Step(m, n, 0, {t, f}, None, {}, {}) /\ HasTerminator(n, m.insert)
  <2>1. \A x \in Blocks(m) : \A y :
          y \in n.preds[x] <=> y \in m.preds[x] \/ (x \in {t, f} /\ y = m.insert)
    BY <1>3, <1>5, <1>11, <1>13
  <2> QED
    BY <1>1, <1>3, <1>5, <1>6, <1>7, <1>8, <2>1 DEF Step
<1> QED
  BY <1>9 DEF n, a, e, i, BuildBrif

-----------------------------------------------------------------------------
(* Compositions.                                                           *)

\* A block is closed, with a jump or without.
LEMMA JmpIfOpenStep ==
    ASSUME NEW m, WellFormed(m), m.insert # None, NEW d \in Blocks(m)
    PROVE  \E T \in SUBSET {d} :
              /\ Step(m, JmpIfOpen(m, d), 0, T, None, {}, {})
              /\ HasTerminator(JmpIfOpen(m, d), m.insert)
<1>1. CASE HasTerminator(m, m.insert)
  BY <1>1, NoStep DEF JmpIfOpen
<1>2. CASE ~HasTerminator(m, m.insert)
  <2>1. JmpIfOpen(m, d) = BuildJmp(m, d)
    BY <1>2 DEF JmpIfOpen
  <2> QED
    BY <2>1, JmpStep
<1> QED
  BY <1>1, <1>2

\* Blocks are allocated first, then branched to.
LEMMA AllocateThen ==
    ASSUME NEW m, NEW n, NEW q, NEW k \in Nat, NEW T,
           WellFormed(m), WellFormed(n),
           Step(m, n, k, {}, None, {}, {}), Step(n, q, 0, T, None, {}, {})
    PROVE  Step(m, q, k, T, None, {}, {})
<1>1. Len(m.code) \in Nat /\ Len(n.code) \in Nat
  BY BodyFields
<1>2. Blocks(m) \subseteq Blocks(n) /\ Blocks(q) = Blocks(n)
  BY <1>1 DEF Step, Blocks
<1>3. Len(q.code) = Len(m.code) + k
  BY <1>1 DEF Step
<1> QED
  BY <1>2, <1>3 DEF Step

\* Function::append commutes with the branches of the block before it.
LEMMA AppendLater ==
    ASSUME NEW m \in BodyType, NEW b, NEW v, NEW t, NEW f
    PROVE  /\ BuildJmp(AppendBlock(m, b), t) = AppendBlock(BuildJmp(m, t), b)
           /\ BuildBrif(AppendBlock(m, b), v, t, f)
                = AppendBlock(BuildBrif(m, v, t, f), b)
BY DEF BodyType, BuildJmp, BuildBrif, AppendBlock, Emit, AddEdge

\* Once the insertion block is closed, generation goes on in another.
LEMMA OpenThen ==
    ASSUME NEW m, NEW n, NEW k \in Nat, NEW T, NEW o,
           WellFormed(m), WellFormed(n),
           Step(m, n, k, T, None, {}, {}), HasTerminator(n, m.insert),
           o \in Blocks(n)
    PROVE  Step(m, SetInsert(AppendBlock(n, o), o), k, T, o, {}, {})
<1> DEFINE q == SetInsert(AppendBlock(n, o), o)
<1>1. /\ q.code = n.code /\ q.preds = n.preds /\ q.freed = n.freed
      /\ q.layout = Append(n.layout, o) /\ q.insert = o
  BY BodyFields DEF BodyType, SetInsert, AppendBlock
<1>2. o # None
  BY BodyFields DEF None
<1> HIDE DEF q
<1>3. Blocks(q) = Blocks(n)
  BY <1>1 DEF Blocks
<1>4. \A b : HasTerminator(q, b) <=> HasTerminator(n, b)
  BY <1>1 DEF HasTerminator
<1>5. \A b, p : PhiIn(q, b, p) <=> PhiIn(n, b, p)
  BY <1>1 DEF PhiIn
<1>6. Step(m, q, k, T, o, {}, {})
  BY <1>1, <1>2, <1>3, <1>4, <1>5 DEF Step
<1> QED
  BY <1>6 DEF q

\* A block that nothing branches to is deleted.
LEMMA FreeThen ==
    ASSUME NEW m, NEW n, NEW T, NEW b,
           WellFormed(m), WellFormed(n), Step(m, n, 0, T, None, {}, {})
    PROVE  Step(m, FreeBlock(n, b), 0, T, None, {b}, {})
<1> DEFINE q == FreeBlock(n, b)
<1>1. /\ q.code = n.code /\ q.preds = n.preds /\ q.freed = n.freed \cup {b}
      /\ q.layout = n.layout /\ q.insert = n.insert
  BY BodyFields DEF BodyType, FreeBlock
<1> HIDE DEF q
<1>2. Blocks(q) = Blocks(n)
  BY <1>1 DEF Blocks
<1>3. \A d : HasTerminator(q, d) <=> HasTerminator(n, d)
  BY <1>1 DEF HasTerminator
<1>4. \A d, p : PhiIn(q, d, p) <=> PhiIn(n, d, p)
  BY <1>1 DEF PhiIn
<1>5. Step(m, q, 0, T, None, {b}, {})
  BY <1>1, <1>2, <1>3, <1>4 DEF Step
<1> QED
  BY <1>5 DEF q

\* A phi heads the block that was opened.
LEMMA PhiThen ==
    ASSUME NEW m, NEW n, NEW T, NEW o, NEW i \in Inst, i.op = "phi",
           WellFormed(m), WellFormed(n), m.insert # None, n.insert # None,
           Step(m, n, 0, T, o, {}, {})
    PROVE  Step(m, Emit(n, i), 0, T, o, {}, {i})
<1> DEFINE q == Emit(n, i)
<1>1. /\ Len(q.code) = Len(n.code) /\ Blocks(q) = Blocks(n)
      /\ q.preds = n.preds /\ q.layout = n.layout /\ q.freed = n.freed
      /\ q.insert = n.insert
      /\ \A b \in Blocks(n) : HasTerminator(n, b) => HasTerminator(q, b)
      /\ \A b \in Blocks(n) : \A p :
            PhiIn(q, b, p) <=> PhiIn(n, b, p) \/ (b = n.insert /\ p = i)
  BY EmitKeeps
<1> HIDE DEF q
<1>2. Blocks(n) = Blocks(m)
  BY BodyFields DEF Step, Blocks
<1>3. m.insert \in Blocks(m)
  BY DEF WellFormed, BodyOK
<1>4. Step(m, q, 0, T, o, {}, {i})
  BY <1>1, <1>2, <1>3 DEF Step
<1> QED
  BY <1>4 DEF q

\* Blocks are allocated and the insertion block jumps,
LEMMA FreshJmp ==
    ASSUME NEW m, WellFormed(m), m.insert # None, NEW k \in Nat,
           NEW d \in 1 .. Len(m.code) + k
    PROVE  LET n == BuildJmp(NewBlocks(m, k), d) IN
           /\ WellFormed(n) /\ Blocks(n) = 1 .. Len(m.code) + k
           /\ Step(m, n, k, {d}, None, {}, {})
           /\ HasTerminator(n, m.insert)
<1> DEFINE q == NewBlocks(m, k)
           n == BuildJmp(q, d)
<1>1. /\ WellFormed(q) /\ Len(q.code) = Len(m.code) + k /\ q.insert = m.insert
  BY NewBlocksOK, BodyFields DEF NewBlocks, BodyType
<1>2. Step(m, q, k, {}, None, {}, {})
  BY NewBlocksStep
<1> HIDE DEF q
<1>3. d \in Blocks(q)
  BY <1>1 DEF Blocks
<1>4. WellFormed(n) /\ Len(n.code) = Len(q.code)
  BY <1>1, <1>3, BuildJmpOK
<1>5. Step(q, n, 0, {d}, None, {}, {}) /\ HasTerminator(n, q.insert)
  BY <1>1, <1>3, JmpStep
<1> HIDE DEF n
<1>6. Step(m, n, k, {d}, None, {}, {})
  BY <1>1, <1>2, <1>4, <1>5, AllocateThen
<1> QED
  BY <1>1, <1>4, <1>5, <1>6 DEF n, q, Blocks

\* or branches on a condition.
LEMMA FreshBrif ==
    ASSUME NEW m, WellFormed(m), m.insert # None, NEW k \in Nat, NEW v \in Nat,
           NEW t \in 1 .. Len(m.code) + k, NEW f \in 1 .. Len(m.code) + k
    PROVE  LET n == BuildBrif(NewBlocks(m, k), v, t, f) IN
           /\ WellFormed(n) /\ Blocks(n) = 1 .. Len(m.code) + k
           /\ Step(m, n, k, {t, f}, None, {}, {})
           /\ HasTerminator(n, m.insert)
<1> DEFINE q == NewBlocks(m, k)
           n == BuildBrif(q, v, t, f)
<1>1. /\ WellFormed(q) /\ Len(q.code) = Len(m.code) + k /\ q.insert = m.insert
  BY NewBlocksOK, BodyFields DEF NewBlocks, BodyType
<1>2. Step(m, q, k, {}, None, {}, {})
  BY NewBlocksStep
<1> HIDE DEF q
<1>3. t \in Blocks(q) /\ f \in Blocks(q)
  BY <1>1 DEF Blocks
<1>4. WellFormed(n) /\ Len(n.code) = Len(q.code)
  BY <1>1, <1>3, BuildBrifOK
<1>5. Step(q, n, 0, {t, f}, None, {}, {}) /\ HasTerminator(n, q.insert)
  BY <1>1, <1>3, BrifStep
<1> HIDE DEF n
<1>6. Step(m, n, k, {t, f}, None, {}, {})
  BY <1>1, <1>2, <1>4, <1>5, AllocateThen
<1> QED
  BY <1>1, <1>4, <1>5, <1>6 DEF n, q, Blocks

\* A handler allocates blocks, appends one, branches and goes on in it.
LEMMA ForkStep ==
    ASSUME NEW m, WellFormed(m), m.insert # None, NEW k \in Nat, NEW v \in Nat,
           NEW t \in 1 .. Len(m.code) + k, NEW f \in 1 .. Len(m.code) + k,
           NEW o \in 1 .. Len(m.code) + k
    PROVE  Step(m, SetInsert(BuildBrif(AppendBlock(NewBlocks(m, k), o), v, t, f), o),
                k, {t, f}, o, {}, {})
<1> DEFINE q == NewBlocks(m, k)
           n == BuildBrif(q, v, t, f)
<1>1. q \in BodyType
  BY NewBlocksOK DEF WellFormed, BodyOK
<1>2. /\ WellFormed(n) /\ Blocks(n) = 1 .. Len(m.code) + k
      /\ Step(m, n, k, {t, f}, None, {}, {})
      /\ HasTerminator(n, m.insert)
  BY FreshBrif
<1> HIDE DEF q
<1>3. BuildBrif(AppendBlock(q, o), v, t, f) = AppendBlock(n, o)
  BY <1>1, AppendLater
<1> HIDE DEF n
<1>4. Step(m, SetInsert(AppendBlock(n, o), o), k, {t, f}, o, {}, {})
  BY <1>2, OpenThen
<1> QED
  BY <1>3, <1>4 DEF q

\* The same with a jump.
LEMMA GotoStep ==
    ASSUME NEW m, WellFormed(m), m.insert # None, NEW k \in Nat,
           NEW d \in 1 .. Len(m.code) + k, NEW o \in 1 .. Len(m.code) + k
    PROVE  /\ Step(m, SetInsert(BuildJmp(AppendBlock(NewBlocks(m, k), o), d), o),
                   k, {d}, o, {}, {})
           /\ Step(m, SetInsert(AppendBlock(BuildJmp(NewBlocks(m, k), d), o), o),
                   k, {d}, o, {}, {})
<1> DEFINE q == NewBlocks(m, k)
           n == BuildJmp(q, d)
<1>1. q \in BodyType
  BY NewBlocksOK DEF WellFormed, BodyOK
<1>2. /\ WellFormed(n) /\ Blocks(n) = 1 .. Len(m.code) + k
      /\ Step(m, n, k, {d}, None, {}, {})
      /\ HasTerminator(n, m.insert)
  BY FreshJmp
<1> HIDE DEF q
<1>3. BuildJmp(AppendBlock(q, o), d) = AppendBlock(n, o)
  BY <1>1, AppendLater
<1> HIDE DEF n
<1>4. Step(m, SetInsert(AppendBlock(n, o), o), k, {d}, o, {}, {})
  BY <1>2, OpenThen
<1> QED
  BY <1>3, <1>4 DEF q, n

=============================================================================
