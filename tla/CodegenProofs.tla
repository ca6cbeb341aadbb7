--------------------------- MODULE CodegenProofs ---------------------------
(***************************************************************************)
(* Theorems about Codegen, for every bound on the tree, every return type  *)
(* and every shape of && and ||.                                           *)
(***************************************************************************)
EXTENDS Codegen, MirProofs, Integers

StackOK(s, n, c) ==
    /\ s \in Seq(FrameType(n, c))
    /\ \A j \in 1 .. Len(s) : FrameReady(s[j], c)

LoopsOK(s, cond, merge) ==
    /\ InsideLoop(s)
    /\ SavedLoops(s)
    /\ Enclosing(s, 0, cond, merge)

-----------------------------------------------------------------------------
(* The call stack as a sequence of frames.                                 *)

\* A frame keeps its type while the tree and the function grow,
LEMMA TypeGrows ==
    ASSUME NEW n \in Nat, NEW c \in Nat, NEW n2 \in Nat, NEW c2 \in Nat,
           n <= n2, c <= c2, NEW f \in FrameType(n, c)
    PROVE  f \in FrameType(n2, c2)
<1>1. 1 .. n \subseteq 1 .. n2 /\ 0 .. c \subseteq 0 .. c2
  OBVIOUS
<1>2. f.kids \in Seq(1 .. n2)
  BY <1>1 DEF FrameType
<1> QED
  BY <1>1, <1>2 DEF FrameType

\* and stays well formed while the tree and the function grow.
LEMMA FrameGrows ==
    ASSUME NEW n \in Nat, NEW c \in Nat, NEW n2 \in Nat, NEW c2 \in Nat,
           n <= n2, c <= c2,
           NEW f \in FrameType(n, c), FrameReady(f, c)
    PROVE  f \in FrameType(n2, c2) /\ FrameReady(f, c2)
<1>1. f \in FrameType(n2, c2)
  BY TypeGrows
<1>2. FrameReady(f, c2)
  <2>1. f.alt \in Nat
    BY DEF FrameType
  <2>2. f.at \in {"MatchCompare", "MatchCaseEnd"} =>
          f.alt + Cases(f.kids) <= c2
    <3>1. f.kids \in Seq(1 .. n)
      BY DEF FrameType
    <3>2. Cases(f.kids) \in Int
      BY <3>1 DEF Cases
    <3> QED
      BY <2>1, <3>2 DEF FrameReady
  <2> QED
    BY <2>2 DEF FrameReady
<1> QED
  BY <1>1, <1>2

\* What the handlers write into their frames.
LEMMA FrameSet ==
    ASSUME NEW n, NEW c, NEW f \in FrameType(n, c), NEW at \in Labels,
           NEW i \in Nat
    PROVE  /\ [f EXCEPT !.at = at] \in FrameType(n, c)
           /\ [f EXCEPT !.at = at, !.i = i] \in FrameType(n, c)
BY DEF FrameType

\* The blocks a handler allocates after a call.
LEMMA FrameSetBlocks ==
    ASSUME NEW n, NEW c, NEW f \in FrameType(n, c), NEW at \in Labels,
           NEW i \in Nat, NEW x \in 0 .. c, NEW y \in 0 .. c
    PROVE  /\ [f EXCEPT !.at = at, !.merge = x, !.alt = y] \in FrameType(n, c)
           /\ [f EXCEPT !.at = at, !.i = i, !.merge = x, !.alt = y]
                 \in FrameType(n, c)
BY DEF FrameType

\* So does the stack.
LEMMA StackGrows ==
    ASSUME NEW n \in Nat, NEW c \in Nat, NEW n2 \in Nat, NEW c2 \in Nat,
           n <= n2, c <= c2, NEW s, StackOK(s, n, c)
    PROVE  StackOK(s, n2, c2)
<1>1. \A j \in 1 .. Len(s) : s[j] \in FrameType(n, c) /\ FrameReady(s[j], c)
  BY DEF StackOK
<1>2. \A j \in 1 .. Len(s) : s[j] \in FrameType(n2, c2) /\ FrameReady(s[j], c2)
  BY <1>1, FrameGrows
<1>3. s \in Seq(FrameType(n2, c2))
  BY <1>2 DEF StackOK
<1> QED
  BY <1>2, <1>3 DEF StackOK

\* The parts of a stack that is not empty.
LEMMA StackParts ==
    ASSUME NEW n, NEW c, NEW s, StackOK(s, n, c), s # <<>>
    PROVE  /\ Head(s) \in FrameType(n, c) /\ FrameReady(Head(s), c)
           /\ Head(s) = s[1]
           /\ StackOK(Tail(s), n, c)
           /\ Len(s) \in Nat \ {0} /\ Len(Tail(s)) = Len(s) - 1
           /\ \A j \in 1 .. Len(s) - 1 : Tail(s)[j] = s[j + 1]
<1>1. s \in Seq(FrameType(n, c)) /\ Len(s) \in Nat \ {0}
  BY DEF StackOK
<1>2. /\ Head(s) = s[1] /\ Head(s) \in FrameType(n, c)
      /\ Tail(s) \in Seq(FrameType(n, c)) /\ Len(Tail(s)) = Len(s) - 1
      /\ \A j \in 1 .. Len(s) - 1 : Tail(s)[j] = s[j + 1]
  BY <1>1
<1>3. \A j \in 1 .. Len(Tail(s)) : FrameReady(Tail(s)[j], c)
  BY <1>1, <1>2 DEF StackOK
<1> QED
  BY <1>1, <1>2, <1>3 DEF StackOK

\* Both halves well formed, the whole is.
LEMMA StackPush ==
    ASSUME NEW n, NEW c, NEW fs, NEW t, StackOK(fs, n, c), StackOK(t, n, c)
    PROVE  StackOK(fs \o t, n, c)
<1> DEFINE s == fs \o t
<1>1. fs \in Seq(FrameType(n, c)) /\ t \in Seq(FrameType(n, c))
  BY DEF StackOK
<1>2. /\ s \in Seq(FrameType(n, c))
      /\ Len(fs) \in Nat
      /\ \A j \in 1 .. Len(fs) : s[j] = fs[j]
      /\ \A j \in 1 .. Len(s) : j > Len(fs) =>
            j - Len(fs) \in 1 .. Len(t) /\ s[j] = t[j - Len(fs)]
  BY <1>1, ConcatParts
<1> HIDE DEF s
<1>3. ASSUME NEW j \in 1 .. Len(s) PROVE FrameReady(s[j], c)
  <2>1. CASE j \in 1 .. Len(fs)
    BY <2>1, <1>2 DEF StackOK
  <2>2. CASE j > Len(fs)
    BY <2>2, <1>2 DEF StackOK
  <2> QED
    BY <2>1, <2>2, <1>2
<1>4. StackOK(s, n, c)
  BY <1>2, <1>3 DEF StackOK
<1> QED
  BY <1>4 DEF s

-----------------------------------------------------------------------------
(* The loops on the call stack.                                            *)

\* The loops below a position, seen without the top frame.
LEMMA EnclosingTail ==
    ASSUME NEW n, NEW c, NEW s, StackOK(s, n, c), s # <<>>,
           NEW j \in 0 .. Len(Tail(s)), NEW x, NEW y, Enclosing(s, j + 1, x, y)
    PROVE  Enclosing(Tail(s), j, x, y)
<1> DEFINE t == Tail(s)
<1>1. /\ Len(s) \in Nat \ {0} /\ Len(t) = Len(s) - 1
      /\ \A k \in 1 .. Len(s) - 1 : t[k] = s[k + 1]
      /\ j \in 0 .. Len(t)
  BY StackParts
<1> HIDE DEF t
<1>2. CASE /\ \A k \in (j + 1) + 1 .. Len(s) : ~IsLoop(s[k])
           /\ x = None /\ y = None
  <2>1. \A k \in j + 1 .. Len(t) : ~IsLoop(t[k])
    BY <1>1, <1>2
  <2> QED
    BY <2>1, <1>2 DEF Enclosing, t
<1>3. CASE \E k \in (j + 1) + 1 .. Len(s) :
             /\ IsLoop(s[k])
             /\ \A l \in (j + 1) + 1 .. k - 1 : ~IsLoop(s[l])
             /\ x = s[k].from /\ y = s[k].merge
  <2>1. PICK k \in (j + 1) + 1 .. Len(s) :
             /\ IsLoop(s[k])
             /\ \A l \in (j + 1) + 1 .. k - 1 : ~IsLoop(s[l])
             /\ x = s[k].from /\ y = s[k].merge
    BY <1>3
  <2>2. PICK h \in j + 1 .. Len(t) : k = h + 1 /\ t[h] = s[k]
    BY <1>1, <2>1
  <2>3. ASSUME NEW l \in j + 1 .. h - 1 PROVE ~IsLoop(t[l])
    <3>1. l + 1 \in (j + 1) + 1 .. k - 1 /\ l \in 1 .. Len(s) - 1
      BY <1>1, <2>1, <2>2
    <3>2. ~IsLoop(s[l + 1]) /\ t[l] = s[l + 1]
      BY <1>1, <2>1, <3>1
    <3> QED
      BY <3>2
  <2> QED
    BY <2>1, <2>2, <2>3 DEF Enclosing, t
<1> QED
  BY <1>2, <1>3 DEF Enclosing

\* The stack below the top frame.
LEMMA TailLoops ==
    ASSUME NEW n, NEW c, NEW s, StackOK(s, n, c), s # <<>>,
           InsideLoop(s), SavedLoops(s)
    PROVE  InsideLoop(Tail(s)) /\ SavedLoops(Tail(s))
<1> DEFINE t == Tail(s)
<1>1. /\ Len(s) \in Nat \ {0} /\ Len(t) = Len(s) - 1
      /\ \A j \in 1 .. Len(s) - 1 : t[j] = s[j + 1]
  BY StackParts
<1> HIDE DEF t
<1>2. ASSUME NEW j \in 1 .. Len(t), t[j].loop
      PROVE  \E k \in j .. Len(t) : IsLoop(t[k])
  <2>1. j + 1 \in 1 .. Len(s) /\ s[j + 1].loop
    BY <1>1, <1>2
  <2>2. PICK k \in j + 1 .. Len(s) : IsLoop(s[k])
    BY <2>1 DEF InsideLoop
  <2>3. k - 1 \in j .. Len(t) /\ k - 1 \in 1 .. Len(s) - 1 /\ t[k - 1] = s[(k - 1) + 1]
    BY <1>1, <2>2
  <2>4. (k - 1) + 1 = k
    BY <2>2
  <2> QED
    BY <2>2, <2>3, <2>4
<1>3. ASSUME NEW j \in 1 .. Len(t), IsLoop(t[j])
      PROVE  Enclosing(t, j, t[j].oldCond, t[j].oldMerge)
  <2>1. j + 1 \in 1 .. Len(s) /\ s[j + 1] = t[j]
    BY <1>1
  <2>2. Enclosing(s, j + 1, t[j].oldCond, t[j].oldMerge)
    BY <1>3, <2>1 DEF SavedLoops
  <2> QED
    BY <1>1, <2>2, EnclosingTail DEF t
<1>4. InsideLoop(t)
  BY <1>2 DEF InsideLoop
<1>5. SavedLoops(t)
  BY <1>3 DEF SavedLoops
<1> QED
  BY <1>4, <1>5 DEF t

\* The loop around the top of the stack is the loop around what is below it,
\* unless the top is a loop itself.
LEMMA PopPlain ==
    ASSUME NEW n, NEW c, NEW s, StackOK(s, n, c), s # <<>>,
           NEW x, NEW y, LoopsOK(s, x, y), ~IsLoop(Head(s))
    PROVE  /\ LoopsOK(Tail(s), x, y)
           /\ Head(s).loop => \E k \in 1 .. Len(Tail(s)) : IsLoop(Tail(s)[k])
<1> DEFINE t == Tail(s)
<1>1. /\ Len(s) \in Nat \ {0} /\ Len(t) = Len(s) - 1
      /\ \A j \in 1 .. Len(s) - 1 : t[j] = s[j + 1]
      /\ Head(s) = s[1]
  BY StackParts
<1>2. InsideLoop(t) /\ SavedLoops(t)
  BY TailLoops DEF LoopsOK
<1> HIDE DEF t
<1>3. Enclosing(t, 0, x, y)
  <2>1. Enclosing(s, 0 + 1, x, y)
    <3>1. CASE \A k \in 0 + 1 .. Len(s) : ~IsLoop(s[k])
      BY <3>1 DEF LoopsOK, Enclosing
    <3>2. CASE \E k \in 0 + 1 .. Len(s) :
                 /\ IsLoop(s[k])
                 /\ \A l \in 0 + 1 .. k - 1 : ~IsLoop(s[l])
                 /\ x = s[k].from /\ y = s[k].merge
      BY <1>1, <3>2 DEF Enclosing
    <3> QED
      BY <3>1, <3>2 DEF LoopsOK, Enclosing
  <2> QED
    BY <1>1, <2>1, EnclosingTail DEF t
<1>4. ASSUME s[1].loop PROVE \E k \in 1 .. Len(t) : IsLoop(t[k])
  <2>1. PICK k \in 1 .. Len(s) : IsLoop(s[k])
    BY <1>1, <1>4 DEF LoopsOK, InsideLoop
  <2>2. k # 1
    BY <1>1, <2>1
  <2>3. PICK h \in 1 .. Len(t) : k = h + 1 /\ t[h] = s[k]
    BY <1>1, <2>1, <2>2
  <2> QED
    BY <2>1, <2>3
<1> QED
  BY <1>1, <1>2, <1>3, <1>4 DEF t, LoopsOK

\* Below a loop are the blocks that the loop saved.
LEMMA PopLoop ==
    ASSUME NEW n, NEW c, NEW s, StackOK(s, n, c), s # <<>>,
           NEW x, NEW y, LoopsOK(s, x, y), IsLoop(Head(s))
    PROVE  LoopsOK(Tail(s), Head(s).oldCond, Head(s).oldMerge)
<1> DEFINE t == Tail(s)
           u == s[1].oldCond
           v == s[1].oldMerge
<1>1. /\ Len(s) \in Nat \ {0} /\ Len(t) = Len(s) - 1
      /\ \A j \in 1 .. Len(s) - 1 : t[j] = s[j + 1]
      /\ Head(s) = s[1]
  BY StackParts
<1>2. InsideLoop(t) /\ SavedLoops(t)
  BY TailLoops DEF LoopsOK
<1>3. Enclosing(s, 0 + 1, u, v)
  BY <1>1 DEF LoopsOK, SavedLoops
<1> HIDE DEF u, v
<1>4. Enclosing(t, 0, u, v)
  BY <1>1, <1>3, EnclosingTail
<1> QED
  BY <1>1, <1>2, <1>4 DEF t, u, v, LoopsOK

\* Frames that are no loops change nothing for what is below them.
LEMMA PushPlain ==
    ASSUME NEW n, NEW c, NEW fs, NEW t, StackOK(fs, n, c), StackOK(t, n, c),
           NEW x, NEW y, LoopsOK(t, x, y),
           \A i \in 1 .. Len(fs) : ~IsLoop(fs[i]),
           \A i \in 1 .. Len(fs) :
               fs[i].loop => \E k \in 1 .. Len(t) : IsLoop(t[k])
    PROVE  LoopsOK(fs \o t, x, y)
<1> DEFINE s == fs \o t
           d == Len(fs)
<1>1. /\ d \in Nat /\ Len(t) \in Nat /\ Len(s) = d + Len(t)
      /\ \A j \in 1 .. d : s[j] = fs[j]
      /\ \A j \in 1 .. Len(t) : s[d + j] = t[j]
      /\ \A j \in 1 .. Len(s) : j > d =>
            j - d \in 1 .. Len(t) /\ s[j] = t[j - d]
  BY ConcatParts DEF StackOK
<1>2. \A i \in 1 .. d : ~IsLoop(s[i])
  BY <1>1
<1>3. \A i \in 1 .. d : s[i].loop => \E k \in 1 .. Len(t) : IsLoop(t[k])
  BY <1>1
<1> HIDE DEF s, d
<1>4. InsideLoop(s)
  <2>1. SUFFICES ASSUME NEW j \in 1 .. Len(s), s[j].loop
                 PROVE  \E k \in j .. Len(s) : IsLoop(s[k])
    BY DEF InsideLoop
  <2>2. CASE j \in 1 .. d
    <3>1. PICK k \in 1 .. Len(t) : IsLoop(t[k])
      BY <1>3, <2>1, <2>2
    <3>2. d + k \in j .. Len(s) /\ IsLoop(s[d + k])
      BY <1>1, <2>2, <3>1
    <3> QED
      BY <3>2
  <2>3. CASE j > d
    <3>1. j - d \in 1 .. Len(t) /\ t[j - d].loop
      BY <1>1, <2>1, <2>3
    <3>2. PICK k \in j - d .. Len(t) : IsLoop(t[k])
      BY <3>1 DEF LoopsOK, InsideLoop
    <3>3. d + k \in j .. Len(s) /\ IsLoop(s[d + k])
      BY <1>1, <2>3, <3>1, <3>2
    <3> QED
      BY <3>3
  <2> QED
    BY <1>1, <2>2, <2>3
<1>5. ASSUME NEW j \in 0 .. Len(t), NEW u, NEW v, Enclosing(t, j, u, v)
      PROVE  Enclosing(s, d + j, u, v)
  <2>1. CASE (\A k \in j + 1 .. Len(t) : ~IsLoop(t[k])) /\ u = None /\ v = None
    <3>1. \A k \in (d + j) + 1 .. Len(s) : ~IsLoop(s[k])
      BY <1>1, <2>1
    <3> QED
      BY <2>1, <3>1 DEF Enclosing
  <2>2. CASE \E k \in j + 1 .. Len(t) :
               /\ IsLoop(t[k])
               /\ \A l \in j + 1 .. k - 1 : ~IsLoop(t[l])
               /\ u = t[k].from /\ v = t[k].merge
    <3>1. PICK k \in j + 1 .. Len(t) :
               /\ IsLoop(t[k])
               /\ \A l \in j + 1 .. k - 1 : ~IsLoop(t[l])
               /\ u = t[k].from /\ v = t[k].merge
      BY <2>2
    <3>2. PICK h \in (d + j) + 1 .. Len(s) : h = d + k /\ s[h] = t[k]
      BY <1>1, <3>1
    <3>3. ASSUME NEW l \in (d + j) + 1 .. h - 1 PROVE ~IsLoop(s[l])
      <4>1. l \in 1 .. Len(s) /\ l > d /\ l - d \in j + 1 .. k - 1
        BY <1>1, <3>1, <3>2
      <4>2. ~IsLoop(t[l - d]) /\ s[l] = t[l - d]
        BY <1>1, <3>1, <4>1
      <4> QED
        BY <4>2
    <3> QED
      BY <3>1, <3>2, <3>3 DEF Enclosing
  <2> QED
    BY <1>5, <2>1, <2>2 DEF Enclosing
<1>6. SavedLoops(s)
  <2>1. SUFFICES ASSUME NEW j \in 1 .. Len(s), IsLoop(s[j])
                 PROVE  Enclosing(s, j, s[j].oldCond, s[j].oldMerge)
    BY DEF SavedLoops
  <2>2. j > d /\ j - d \in 1 .. Len(t) /\ s[j] = t[j - d]
    BY <1>1, <1>2, <2>1
  <2>3. Enclosing(t, j - d, s[j].oldCond, s[j].oldMerge)
    BY <2>1, <2>2 DEF LoopsOK, SavedLoops
  <2>4. Enclosing(s, d + (j - d), s[j].oldCond, s[j].oldMerge)
    BY <1>5, <2>2, <2>3
  <2>5. d + (j - d) = j
    BY <1>1, <2>2
  <2> QED
    BY <2>4, <2>5
<1>7. Enclosing(s, 0, x, y)
  <2>1. Enclosing(s, d + 0, x, y)
    BY <1>1, <1>5 DEF LoopsOK
  <2>2. CASE (\A k \in d + 1 .. Len(s) : ~IsLoop(s[k])) /\ x = None /\ y = None
    <3>1. \A k \in 0 + 1 .. Len(s) : ~IsLoop(s[k])
      BY <1>1, <1>2, <2>2
    <3> QED
      BY <2>2, <3>1 DEF Enclosing
  <2>3. CASE \E k \in d + 1 .. Len(s) :
               /\ IsLoop(s[k])
               /\ \A l \in d + 1 .. k - 1 : ~IsLoop(s[l])
               /\ x = s[k].from /\ y = s[k].merge
    <3>1. PICK k \in d + 1 .. Len(s) :
               /\ IsLoop(s[k])
               /\ \A l \in d + 1 .. k - 1 : ~IsLoop(s[l])
               /\ x = s[k].from /\ y = s[k].merge
      BY <2>3
    <3>2. k \in 0 + 1 .. Len(s) /\ \A l \in 0 + 1 .. k - 1 : ~IsLoop(s[l])
      BY <1>1, <1>2, <3>1
    <3> QED
      BY <3>1, <3>2 DEF Enclosing
  <2>4. d + 0 = d
    BY <1>1
  <2> QED
    BY <2>1, <2>2, <2>3, <2>4 DEF Enclosing
<1>8. LoopsOK(s, x, y)
  BY <1>4, <1>6, <1>7 DEF LoopsOK
<1> QED
  BY <1>8 DEF s

\* A loop on top is the loop around whatever comes above it.
LEMMA PushLoop ==
    ASSUME NEW n, NEW c, NEW f \in FrameType(n, c), NEW t, StackOK(t, n, c),
           LoopsOK(t, f.oldCond, f.oldMerge), IsLoop(f)
    PROVE  LoopsOK(<<f>> \o t, f.from, f.merge)
<1> DEFINE s == <<f>> \o t
<1>1. /\ Len(t) \in Nat /\ Len(s) = 1 + Len(t) /\ s[1] = f
      /\ \A j \in 1 .. Len(t) : s[1 + j] = t[j]
      /\ \A j \in 1 .. Len(s) : j > 1 =>
            j - 1 \in 1 .. Len(t) /\ s[j] = t[j - 1]
  BY DEF StackOK
<1> HIDE DEF s
<1>2. InsideLoop(s)
  <2>1. SUFFICES ASSUME NEW j \in 1 .. Len(s), s[j].loop
                 PROVE  \E k \in j .. Len(s) : IsLoop(s[k])
    BY DEF InsideLoop
  <2>2. CASE j = 1
    BY <1>1, <2>2
  <2>3. CASE j > 1
    <3>1. j - 1 \in 1 .. Len(t) /\ t[j - 1].loop
      BY <1>1, <2>1, <2>3
    <3>2. PICK k \in j - 1 .. Len(t) : IsLoop(t[k])
      BY <3>1 DEF LoopsOK, InsideLoop
    <3>3. 1 + k \in j .. Len(s) /\ IsLoop(s[1 + k])
      BY <1>1, <2>3, <3>1, <3>2
    <3> QED
      BY <3>3
  <2> QED
    BY <2>2, <2>3
<1>3. ASSUME NEW j \in 0 .. Len(t), NEW u, NEW v, Enclosing(t, j, u, v)
      PROVE  Enclosing(s, 1 + j, u, v)
  <2>1. CASE (\A k \in j + 1 .. Len(t) : ~IsLoop(t[k])) /\ u = None /\ v = None
    <3>1. \A k \in (1 + j) + 1 .. Len(s) : ~IsLoop(s[k])
      BY <1>1, <2>1
    <3> QED
      BY <2>1, <3>1 DEF Enclosing
  <2>2. CASE \E k \in j + 1 .. Len(t) :
               /\ IsLoop(t[k])
               /\ \A l \in j + 1 .. k - 1 : ~IsLoop(t[l])
               /\ u = t[k].from /\ v = t[k].merge
    <3>1. PICK k \in j + 1 .. Len(t) :
               /\ IsLoop(t[k])
               /\ \A l \in j + 1 .. k - 1 : ~IsLoop(t[l])
               /\ u = t[k].from /\ v = t[k].merge
      BY <2>2
    <3>2. PICK h \in (1 + j) + 1 .. Len(s) : h = 1 + k /\ s[h] = t[k]
      BY <1>1, <3>1
    <3>3. ASSUME NEW l \in (1 + j) + 1 .. h - 1 PROVE ~IsLoop(s[l])
      <4>1. l \in 1 .. Len(s) /\ l > 1 /\ l - 1 \in j + 1 .. k - 1
        BY <1>1, <3>1, <3>2
      <4>2. ~IsLoop(t[l - 1]) /\ s[l] = t[l - 1]
        BY <1>1, <3>1, <4>1
      <4> QED
        BY <4>2
    <3> QED
      BY <3>1, <3>2, <3>3 DEF Enclosing
  <2> QED
    BY <1>3, <2>1, <2>2 DEF Enclosing
<1>4. SavedLoops(s)
  <2>1. SUFFICES ASSUME NEW j \in 1 .. Len(s), IsLoop(s[j])
                 PROVE  Enclosing(s, j, s[j].oldCond, s[j].oldMerge)
    BY DEF SavedLoops
  <2>2. CASE j = 1
    <3>1. Enclosing(s, 1 + 0, f.oldCond, f.oldMerge)
      BY <1>1, <1>3 DEF LoopsOK
    <3> QED
      BY <1>1, <2>2, <3>1
  <2>3. CASE j > 1
    <3>1. j - 1 \in 1 .. Len(t) /\ s[j] = t[j - 1]
      BY <1>1, <2>3
    <3>2. Enclosing(t, j - 1, s[j].oldCond, s[j].oldMerge)
      BY <2>1, <3>1 DEF LoopsOK, SavedLoops
    <3>3. Enclosing(s, 1 + (j - 1), s[j].oldCond, s[j].oldMerge)
      BY <1>3, <3>1, <3>2
    <3>4. 1 + (j - 1) = j
      OBVIOUS
    <3> QED
      BY <3>3, <3>4
  <2> QED
    BY <2>2, <2>3
<1>5. Enclosing(s, 0, f.from, f.merge)
  <2>1. 1 \in 0 + 1 .. Len(s) /\ IsLoop(s[1])
    BY <1>1
  <2>2. \A l \in 0 + 1 .. 1 - 1 : ~IsLoop(s[l])
    OBVIOUS
  <2> QED
    BY <1>1, <2>1, <2>2 DEF Enclosing
<1>6. LoopsOK(s, f.from, f.merge)
  BY <1>2, <1>4, <1>5 DEF LoopsOK
<1> QED
  BY <1>6 DEF s

\* The innermost loop is the one at the top, if a loop is there.
LEMMA TopLoop ==
    ASSUME NEW n, NEW c, NEW s, StackOK(s, n, c), s # <<>>,
           NEW x, NEW y, LoopsOK(s, x, y), IsLoop(Head(s))
    PROVE  x = Head(s).from /\ y = Head(s).merge
<1>1. Len(s) \in Nat \ {0} /\ Head(s) = s[1]
  BY StackParts
<1>2. 1 \in 0 + 1 .. Len(s) /\ IsLoop(s[1])
  BY <1>1
<1>3. PICK k \in 0 + 1 .. Len(s) :
         /\ \A l \in 0 + 1 .. k - 1 : ~IsLoop(s[l])
         /\ x = s[k].from /\ y = s[k].merge
  BY <1>2 DEF LoopsOK, Enclosing
<1>4. k = 1
  <2>1. 1 \notin 0 + 1 .. k - 1
    BY <1>2, <1>3
  <2> QED
    BY <1>1, <1>3, <2>1
<1> QED
  BY <1>1, <1>3, <1>4

\* Inside a loop there are blocks to go to.
LEMMA LoopTargets ==
    ASSUME NEW n \in Nat, NEW c \in Nat, NEW s, StackOK(s, n, c), s # <<>>,
           NEW x, NEW y, LoopsOK(s, x, y), Head(s).loop
    PROVE  x \in 1 .. c /\ y \in 1 .. c
<1>1. Len(s) \in Nat \ {0} /\ Head(s) = s[1]
  BY StackParts
<1>2. PICK h \in 1 .. Len(s) : IsLoop(s[h])
  BY <1>1 DEF LoopsOK, InsideLoop
<1>3. h \in 0 + 1 .. Len(s)
  BY <1>2
<1>4. PICK k \in 0 + 1 .. Len(s) :
         IsLoop(s[k]) /\ x = s[k].from /\ y = s[k].merge
  BY <1>2, <1>3 DEF LoopsOK, Enclosing
<1>5. s[k] \in FrameType(n, c) /\ FrameReady(s[k], c)
  BY <1>1, <1>4 DEF StackOK
<1>6. s[k].from # None /\ s[k].merge # None
  BY <1>4, <1>5 DEF FrameReady, IsLoop
<1>7. s[k].from \in 0 .. c /\ s[k].merge \in 0 .. c
  BY <1>5 DEF FrameType
<1> QED
  BY <1>4, <1>6, <1>7 DEF None

\* A call from the body of a loop.
LEMMA CallFromLoop ==
    ASSUME NEW n, NEW c, NEW v \in FrameType(n, c), FrameReady(v, c),
           NEW f \in FrameType(n, c), FrameReady(f, c),
           NEW t, StackOK(t, n, c),
           LoopsOK(t, f.oldCond, f.oldMerge), IsLoop(f), ~IsLoop(v)
    PROVE  /\ StackOK(<<v, f>>, n, c)
           /\ LoopsOK(<<v, f>> \o t, f.from, f.merge)
<1> DEFINE u == <<f>> \o t
<1>1. LoopsOK(u, f.from, f.merge)
  BY PushLoop
<1>2. StackOK(<<f>>, n, c) /\ StackOK(<<v>>, n, c) /\ StackOK(<<v, f>>, n, c)
  BY DEF StackOK
<1>3. StackOK(u, n, c)
  BY <1>2, StackPush
<1>4. Len(u) = Len(t) + 1 /\ u[1] = f /\ Len(t) \in Nat
  BY DEF StackOK
<1>5. \E k \in 1 .. Len(u) : IsLoop(u[k])
  BY <1>4
<1>6. <<v, f>> \o t = <<v>> \o u
  BY DEF StackOK
<1> HIDE DEF u
<1>7. Len(<<v>>) = 1 /\ <<v>>[1] = v
  OBVIOUS
<1>8. LoopsOK(<<v>> \o u, f.from, f.merge)
  BY <1>1, <1>2, <1>3, <1>5, <1>7, PushPlain
<1> QED
  BY <1>2, <1>6, <1>8

-----------------------------------------------------------------------------
(* The invariant.  Only the frame of define_function is at the bottom of   *)
(* the stack: generation is over exactly when it returns.                  *)
Bottom ==
    \A j \in 1 .. Len(stack) : stack[j].at = "DefineEnd" <=> j = Len(stack)

IInv == TypeOK /\ EdgesMirror /\ LoopContext /\ Bottom

TreeOK(a) == a \in Seq(NodeType(Len(a))) /\ Len(a) \in 1 .. MaxNodes

\* What a handler may rely on while it runs.
LEMMA InHandler ==
    ASSUME IInv, phase = "gen"
    PROVE  /\ ret \in RetKinds
           /\ TreeOK(ast) /\ Len(ast) \in Nat \ {0}
           /\ WellFormed(mir) /\ mir.insert # None /\ Len(mir.code) \in Nat
           /\ StackOK(stack, Len(ast), Len(mir.code)) /\ stack # <<>>
           /\ Top \in FrameType(Len(ast), Len(mir.code))
           /\ FrameReady(Top, Len(mir.code))
           /\ LoopsOK(stack, mCond, mMerge)
           /\ mValue \in 0 .. Len(ast)
           /\ mCond \in 0 .. Len(mir.code) /\ mMerge \in 0 .. Len(mir.code)
<1>1. stack # <<>> /\ mir.insert # None
  BY DEF IInv, TypeOK
<1>2. StackOK(stack, Len(ast), Len(mir.code))
  BY DEF IInv, TypeOK, StackOK
<1>3. WellFormed(mir) /\ LoopsOK(stack, mCond, mMerge)
  BY DEF IInv, TypeOK, EdgesMirror, WellFormed, LoopContext, LoopsOK
<1>4. Len(mir.code) \in Nat
  BY <1>3 DEF WellFormed, BodyOK, BodyType
<1>5. TreeOK(ast) /\ Len(ast) \in Nat \ {0}
  BY DEF IInv, TypeOK, TreeOK
<1>6. ret \in RetKinds /\ mValue \in 0 .. Len(ast)
  BY DEF IInv, TypeOK
<1>7. mCond \in 0 .. Len(mir.code) /\ mMerge \in 0 .. Len(mir.code)
  BY DEF IInv, TypeOK
<1>8. Top \in FrameType(Len(ast), Len(mir.code)) /\ FrameReady(Top, Len(mir.code))
  BY <1>1, <1>2, StackParts DEF Top
<1> QED
  BY <1>1, <1>2, <1>3, <1>4, <1>5, <1>6, <1>7, <1>8

\* A handler calls accept(), or returns.
LEMMA Keeps ==
    ASSUME IInv, phase = "gen", phase' = "gen", UNCHANGED ret,
           Top.at # "DefineEnd", NEW fs, Continue(fs),
           TreeOK(ast'), Len(ast) <= Len(ast'),
           WellFormed(mir'), mir'.insert # None,
           Len(mir.code) <= Len(mir'.code),
           mValue' \in 0 .. Len(ast'),
           mCond' \in 0 .. Len(mir'.code), mMerge' \in 0 .. Len(mir'.code),
           StackOK(fs, Len(ast'), Len(mir'.code)),
           \A i \in 1 .. Len(fs) : fs[i].at # "DefineEnd",
           LoopsOK(fs \o Tail(stack), mCond', mMerge')
    PROVE  IInv'
<1> DEFINE t == Tail(stack)
           n == Len(ast')
           c == Len(mir'.code)
<1>1. /\ StackOK(stack, Len(ast), Len(mir.code)) /\ stack # <<>>
      /\ Len(ast) \in Nat \ {0} /\ Len(mir.code) \in Nat
      /\ ret \in RetKinds
  BY InHandler
<1>2. /\ StackOK(t, Len(ast), Len(mir.code))
      /\ Len(stack) \in Nat \ {0} /\ Len(t) = Len(stack) - 1
      /\ \A j \in 1 .. Len(stack) - 1 : t[j] = stack[j + 1]
      /\ Top = stack[1]
  BY <1>1, StackParts DEF Top
<1>3. n \in Nat /\ c \in Nat
  BY DEF TreeOK, WellFormed, BodyOK, BodyType
<1>4. StackOK(t, n, c)
  BY <1>1, <1>2, <1>3, StackGrows
<1>5. stack' = fs \o t /\ StackOK(fs, n, c)
  BY DEF Continue
<1>6. /\ Len(fs) \in Nat /\ Len(fs \o t) = Len(fs) + Len(t)
      /\ \A j \in 1 .. Len(fs) : (fs \o t)[j] = fs[j]
      /\ \A j \in 1 .. Len(fs \o t) :
            j > Len(fs) => /\ j - Len(fs) \in 1 .. Len(t)
                           /\ (fs \o t)[j] = t[j - Len(fs)]
  BY <1>4, <1>5, ConcatParts DEF StackOK
<1>7. StackOK(stack', n, c)
  BY <1>4, <1>5, StackPush
<1>8. LoopsOK(stack', mCond', mMerge')
  BY <1>5
<1> HIDE DEF t
<1>9. Len(t) \in Nat \ {0}
  <2>1. 1 \in 1 .. Len(stack) /\ 1 # Len(stack)
    BY <1>2 DEF IInv, Bottom
  <2> QED
    BY <1>2, <2>1
<1>10. Bottom'
  <2>1. ASSUME NEW j \in 1 .. Len(stack')
        PROVE  stack'[j].at = "DefineEnd" <=> j = Len(stack')
    <3>1. CASE j \in 1 .. Len(fs)
      BY <3>1, <1>5, <1>6, <1>9
    <3>2. CASE j > Len(fs)
      <4>1. /\ j - Len(fs) \in 1 .. Len(t)
            /\ stack'[j] = t[j - Len(fs)]
        BY <3>2, <1>5, <1>6, <2>1
      <4>9. /\ j - Len(fs) \in 1 .. Len(stack) - 1
            /\ (j - Len(fs)) + 1 \in 1 .. Len(stack)
        BY <1>2, <4>1
      <4>2. /\ stack'[j] = stack[(j - Len(fs)) + 1]
            /\ (j - Len(fs)) + 1 \in 1 .. Len(stack)
        BY <1>2, <4>1, <4>9
      <4>3. stack'[j].at = "DefineEnd" <=> (j - Len(fs)) + 1 = Len(stack)
        BY <4>2 DEF IInv, Bottom
      <4>4. Len(stack') = Len(fs) + Len(t)
        BY <1>5, <1>6
      <4> QED
        BY <1>2, <1>6, <2>1, <4>3, <4>4
    <3> QED
      BY <3>1, <3>2, <1>5, <1>6, <2>1
  <2> QED
    BY <2>1 DEF Bottom
<1>11. stack' # <<>>
  BY <1>5, <1>6, <1>9
<1>12. TypeOK'
  BY <1>1, <1>7, <1>11 DEF TypeOK, TreeOK, WellFormed, StackOK
<1>13. EdgesMirror'
  BY DEF EdgesMirror, WellFormed
<1>14. LoopContext'
  BY <1>8 DEF LoopContext, LoopsOK
<1> QED
  BY <1>10, <1>12, <1>13, <1>14 DEF IInv

\* A handler that neither enters nor leaves a loop.
LEMMA PlainKeeps ==
    ASSUME IInv, phase = "gen", phase' = "gen", UNCHANGED <<ret, mCond, mMerge>>,
           Top.at # "DefineEnd", ~IsLoop(Top), NEW fs, Continue(fs),
           TreeOK(ast'), Len(ast) <= Len(ast'),
           WellFormed(mir'), mir'.insert # None,
           Len(mir.code) <= Len(mir'.code),
           mValue' \in 0 .. Len(ast'),
           StackOK(fs, Len(ast'), Len(mir'.code)),
           \A i \in 1 .. Len(fs) :
               /\ fs[i].at # "DefineEnd" /\ ~IsLoop(fs[i])
               /\ fs[i].loop => Top.loop
    PROVE  IInv'
<1> DEFINE t == Tail(stack)
<1>1. /\ StackOK(stack, Len(ast), Len(mir.code)) /\ stack # <<>>
      /\ Len(ast) \in Nat \ {0} /\ Len(mir.code) \in Nat
      /\ LoopsOK(stack, mCond, mMerge)
      /\ mCond \in 0 .. Len(mir.code) /\ mMerge \in 0 .. Len(mir.code)
  BY InHandler
<1>2. StackOK(t, Len(ast), Len(mir.code))
  BY <1>1, StackParts
<1>3. /\ LoopsOK(t, mCond, mMerge)
      /\ Top.loop => \E k \in 1 .. Len(t) : IsLoop(t[k])
  BY <1>1, PopPlain DEF Top
<1>4. Len(ast') \in Nat /\ Len(mir'.code) \in Nat
  BY DEF TreeOK, WellFormed, BodyOK, BodyType
<1>5. StackOK(t, Len(ast'), Len(mir'.code))
  BY <1>1, <1>2, <1>4, StackGrows
<1> HIDE DEF t
<1>6. LoopsOK(fs \o t, mCond, mMerge)
  BY <1>3, <1>5, PushPlain
<1>7. mCond' \in 0 .. Len(mir'.code) /\ mMerge' \in 0 .. Len(mir'.code)
  BY <1>1, <1>4
<1>8. LoopsOK(fs \o Tail(stack), mCond', mMerge')
  BY <1>6 DEF t
<1> QED
  BY <1>7, <1>8, Keeps

\* Short stacks.
LEMMA ShortStacks ==
    ASSUME NEW n, NEW c, NEW a \in FrameType(n, c), FrameReady(a, c),
           NEW b \in FrameType(n, c), FrameReady(b, c)
    PROVE  StackOK(<<>>, n, c) /\ StackOK(<<a>>, n, c) /\ StackOK(<<a, b>>, n, c)
BY DEF StackOK

\* A handler without a loop that returns.
LEMMA ReturnKeeps ==
    ASSUME IInv, phase = "gen", phase' = "gen", UNCHANGED <<ret, mCond, mMerge>>,
           Top.at # "DefineEnd", ~IsLoop(Top), Continue(<<>>),
           TreeOK(ast'), Len(ast) <= Len(ast'),
           WellFormed(mir'), mir'.insert # None,
           Len(mir.code) <= Len(mir'.code),
           mValue' \in 0 .. Len(ast')
    PROVE  IInv'
<1> DEFINE fs == <<>>
<1>1. StackOK(fs, Len(ast'), Len(mir'.code))
  BY DEF StackOK
<1>2. Len(fs) = 0 /\ Continue(fs)
  OBVIOUS
<1> HIDE DEF fs
<1>3. \A i \in 1 .. Len(fs) : /\ fs[i].at # "DefineEnd" /\ ~IsLoop(fs[i])
                              /\ fs[i].loop => Top.loop
  BY <1>2
<1> QED
  BY <1>1, <1>2, <1>3, PlainKeeps

\* A frame that is put on the stack by a handler without a loop.
Pushed(f, n, c) ==
    /\ f \in FrameType(n, c) /\ FrameReady(f, c)
    /\ f.at # "DefineEnd" /\ ~IsLoop(f) /\ f.loop = Top.loop

\* A handler without a loop that calls accept() and waits.
LEMMA CallKeeps ==
    ASSUME IInv, phase = "gen", phase' = "gen", UNCHANGED <<ret, mCond, mMerge>>,
           Top.at # "DefineEnd", ~IsLoop(Top),
           NEW a, NEW b, Continue(<<a, b>>),
           TreeOK(ast'), Len(ast) <= Len(ast'),
           WellFormed(mir'), mir'.insert # None,
           Len(mir.code) <= Len(mir'.code),
           mValue' \in 0 .. Len(ast'),
           Pushed(a, Len(ast'), Len(mir'.code)),
           Pushed(b, Len(ast'), Len(mir'.code))
    PROVE  IInv'
<1> DEFINE fs == <<a, b>>
<1>1. StackOK(fs, Len(ast'), Len(mir'.code))
  BY ShortStacks DEF Pushed
<1>2. Len(fs) = 2 /\ fs[1] = a /\ fs[2] = b /\ Continue(fs)
  OBVIOUS
<1> HIDE DEF fs
<1>3. \A i \in 1 .. Len(fs) : /\ fs[i].at # "DefineEnd" /\ ~IsLoop(fs[i])
                              /\ fs[i].loop => Top.loop
  BY <1>2 DEF Pushed
<1> QED
  BY <1>1, <1>2, <1>3, PlainKeeps

\* A visit that is about to start.
LEMMA VisitOK ==
    ASSUME NEW n \in Nat, NEW c \in Nat, NEW k \in 1 .. n, NEW loop \in BOOLEAN
    PROVE  /\ Visit(k, loop) \in FrameType(n, c)
           /\ FrameReady(Visit(k, loop), c)
           /\ Visit(k, loop).at = "Visit" /\ Visit(k, loop).loop = loop
           /\ ~IsLoop(Visit(k, loop))
<1>1. <<>> \in Seq(1 .. n) /\ 0 \in 0 .. c
  OBVIOUS
<1>2. Visit(k, loop) \in FrameType(n, c)
  BY <1>1 DEF Visit, Frame, FrameType, Labels, None
<1> QED
  BY <1>2 DEF Visit, Frame, FrameReady, IsLoop

\* One element of a sequence is replaced.
LEMMA SeqUpdate ==
    ASSUME NEW S, NEW s \in Seq(S), NEW k \in 1 .. Len(s), NEW x \in S
    PROVE  [s EXCEPT ![k] = x] \in Seq(S) /\ Len([s EXCEPT ![k] = x]) = Len(s)
OBVIOUS

\* A visited node gets its kind and its kids.
LEMMA EnterOK ==
    ASSUME IInv, NEW kind \in StmtKinds \cup ExprKinds, NEW sorts \in Seq(Sorts),
           Enter(kind, sorts)
    PROVE  /\ phase = "gen" /\ Top.at = "Visit" /\ ~IsLoop(Top)
           /\ TreeOK(ast')
           /\ Len(ast') = Len(ast) + Len(sorts)
           /\ NewKids(Len(sorts)) \in Seq(1 .. Len(ast'))
           /\ Len(NewKids(Len(sorts))) = Len(sorts)
           /\ \A j \in 1 .. Len(sorts) :
                 NewKids(Len(sorts))[j] = Len(ast) + j
<1> DEFINE d == Len(sorts)
           n == Len(ast) + d
           k == Top.node
           kids == NewKids(d)
           old == [ast EXCEPT ![k].kind = kind, ![k].kids = kids]
           new == [j \in 1 .. d |-> Undecided(sorts[j])]
<1>1. phase = "gen" /\ Top.at = "Visit" /\ n <= MaxNodes /\ ast' = old \o new
  BY DEF Enter
<1>2. /\ TreeOK(ast) /\ Len(ast) \in Nat \ {0}
      /\ Top \in FrameType(Len(ast), Len(mir.code))
  BY <1>1, InHandler
<1>3. k \in 1 .. Len(ast) /\ d \in Nat /\ n \in Nat
  BY <1>2 DEF FrameType
<1>4. kids \in Seq(1 .. n) /\ Len(kids) = d /\ \A j \in 1 .. d : kids[j] = Len(ast) + j
  BY <1>2, <1>3 DEF NewKids
<1>5. Seq(1 .. Len(ast)) \subseteq Seq(1 .. n)
  <2>1. 1 .. Len(ast) \subseteq 1 .. n
    BY <1>2, <1>3
  <2> QED
    BY <2>1
<1>6. NodeType(Len(ast)) \subseteq NodeType(n)
  BY <1>5 DEF NodeType
<1>7. ast \in Seq(NodeType(n))
  BY <1>6 , <1>2 DEF TreeOK
<1> HIDE DEF kids
<1>8. old \in Seq(NodeType(n)) /\ Len(old) = Len(ast)
  <2>1. ast[k] \in NodeType(n)
    BY <1>3, <1>7
  <2>2. [ast[k] EXCEPT !.kind = kind, !.kids = kids] \in NodeType(n)
    BY <1>4, <2>1 DEF NodeType
  <2> DEFINE x == [ast[k] EXCEPT !.kind = kind, !.kids = kids]
  <2>3. old = [ast EXCEPT ![k] = x]
    BY <1>3, <1>7
  <2> HIDE DEF x, old, n, k
  <2> QED
    BY <1>3, <1>7, <2>2, <2>3, SeqUpdate DEF x
<1>9. new \in Seq(NodeType(n)) /\ Len(new) = d
  <2>1. \A j \in 1 .. d : Undecided(sorts[j]) \in NodeType(n)
    BY DEF Undecided, NodeType
  <2> QED
    BY <1>3, <2>1
<1>10. ast' \in Seq(NodeType(n)) /\ Len(ast') = n
  <2> DEFINE T == NodeType(n)
  <2>1. n = Len(ast) + d
    OBVIOUS
  <2>2. ast' = old \o new
    BY <1>1
  <2> HIDE DEF T, n, d, old, new
  <2>3. old \in Seq(T) /\ new \in Seq(T)
    BY <1>8, <1>9 DEF T
  <2>4. ast' \in Seq(T) /\ Len(ast') = Len(old) + Len(new)
    BY <2>2, <2>3, ConcatSeq
  <2> QED
    BY <1>8, <1>9, <2>1, <2>4 DEF T
<1> HIDE DEF old, new
<1>11. TreeOK(ast')
  <2>1. n \in 1 .. MaxNodes
    BY <1>1, <1>2, <1>3, BoundsAssumption
  <2> HIDE DEF n
  <2> QED
    BY <1>10, <2>1 DEF TreeOK
<1>12. ~IsLoop(Top)
  BY <1>1 DEF IsLoop
<1> QED
  BY <1>1, <1>4, <1>10, <1>11, <1>12 DEF kids

\* The frame of the handler that entered a node.
LEMMA HandlerOK ==
    ASSUME NEW n \in Nat, NEW c \in Nat, NEW n2 \in Nat, NEW c2 \in Nat, n <= n2,
           Top \in FrameType(n, c), NEW at \in Labels, NEW k \in Nat,
           NewKids(k) \in Seq(1 .. n2), NEW loop \in BOOLEAN
    PROVE  LET f == Handler(at, k, loop) IN
           /\ f \in FrameType(n2, c2)
           /\ f.at = at /\ f.kids = NewKids(k) /\ f.loop = loop
<1>1. Top.node \in 1 .. n2 /\ 0 \in 0 .. c2
  BY DEF FrameType
<1>2. Handler(at, k, loop) \in FrameType(n2, c2)
  BY <1>1 DEF Handler, Frame, FrameType, None
<1> QED
  BY <1>2 DEF Handler, Frame

-----------------------------------------------------------------------------
(* What several handlers do.                                               *)

\* The handlers go on in the block they append.
LEMMA OpenBlockOK ==
    ASSUME NEW m, WellFormed(m), NEW b \in Blocks(m)
    PROVE  LET n == SetInsert(AppendBlock(m, b), b) IN
           /\ WellFormed(n)
           /\ n.code = m.code /\ Len(n.code) = Len(m.code)
           /\ n.insert # None
<1> DEFINE a == AppendBlock(m, b)
<1>1. WellFormed(a) /\ a.code = m.code
  BY AppendBlockOK
<1>2. b \in Blocks(a) /\ b # None
  BY <1>1 DEF Blocks, None
<1> HIDE DEF a
<1>3. LET n == SetInsert(a, b) IN
      WellFormed(n) /\ n.code = a.code /\ n.insert = b
  BY <1>1, <1>2, SetInsertOK
<1> QED
  BY <1>1, <1>2, <1>3 DEF a

\* The merge block of 'if' and 'match', used or not.
LEMMA EmitMergeOK ==
    ASSUME NEW m, WellFormed(m), m.insert # None, NEW b \in Blocks(m)
    PROVE  LET n == EmitMerge(m, b) IN
           /\ WellFormed(n)
           /\ Len(n.code) = Len(m.code)
           /\ n.insert # None
<1>1. CASE HasPreds(m, b)
  BY <1>1, OpenBlockOK DEF EmitMerge
<1>2. CASE ~HasPreds(m, b)
  BY <1>2, FreeBlockOK DEF EmitMerge
<1> QED
  BY <1>1, <1>2

\* accept() of a kid.
LEMMA VisitKidOK ==
    ASSUME NEW n \in Nat, NEW c \in Nat, NEW n2 \in Nat, NEW c2 \in Nat, n <= n2,
           Top \in FrameType(n, c), NEW j \in 1 .. Len(Top.kids)
    PROVE  Pushed(VisitKid(j), n2, c2)
<1>1. Top.kids \in Seq(1 .. n) /\ Top.loop \in BOOLEAN
  BY DEF FrameType
<1>2. Top.kids[j] \in 1 .. n2
  BY <1>1
<1> QED
  BY <1>1, <1>2, VisitOK DEF Pushed, VisitKid

\* accept() of the first kid of the node that is entered.
LEMMA FirstOK ==
    ASSUME NEW n \in Nat, NEW c \in Nat, NEW n2 \in Nat, NEW c2 \in Nat,
           Top \in FrameType(n, c), Len(ast) \in Nat, Len(ast) + 1 <= n2
    PROVE  Pushed(First(Top.loop), n2, c2)
<1>1. Top.loop \in BOOLEAN /\ Len(ast) + 1 \in 1 .. n2
  BY DEF FrameType
<1> QED
  BY <1>1, VisitOK DEF Pushed, First

\* The kids of a match: the scrutinee, two for each case, the default.
LEMMA CasesOK ==
    ASSUME NEW S, NEW kids \in Seq(S)
    PROVE  /\ Cases(kids) \in Int
           /\ 2 * Cases(kids) + 1 <= Len(kids)
           /\ HasDefault(kids) => Len(kids) = 2 * Cases(kids) + 2
BY DEF Cases, HasDefault

-----------------------------------------------------------------------------
(* One lemma for each action: it keeps the invariant.                      *)

\* A list of statements.
LEMMA StmtsOK ==
    ASSUME NEW c \in Nat
    PROVE  Stmts(c) \in Seq(Sorts) /\ Len(Stmts(c)) = c
BY DEF Stmts, Sorts

LEMMA VisitCompoundKeeps ==
    ASSUME IInv, VisitCompound PROVE IInv'
<1>1. PICK c \in 0 .. MaxStmts :
        /\ Enter("compound", Stmts(c))
        /\ Continue([j \in 1 .. c |-> Visit(NewKids(c)[j], Top.loop)])
        /\ UNCHANGED <<phase, ret, mir, mValue, mCond, mMerge>>
  BY DEF VisitCompound
<1> DEFINE sorts == Stmts(c)
           fs == [j \in 1 .. c |-> Visit(NewKids(c)[j], Top.loop)]
<1>2. sorts \in Seq(Sorts) /\ Len(sorts) = c /\ c \in Nat
  BY BoundsAssumption, StmtsOK
<1>3. "compound" \in StmtKinds \cup ExprKinds
  BY DEF StmtKinds
<1>4. Enter("compound", sorts)
  BY <1>1
<1> HIDE DEF sorts
<1>5. /\ phase = "gen" /\ Top.at = "Visit" /\ ~IsLoop(Top)
      /\ TreeOK(ast') /\ Len(ast') = Len(ast) + c
      /\ \A j \in 1 .. c : NewKids(c)[j] = Len(ast) + j
  BY <1>2, <1>3, <1>4, EnterOK
<1>6. /\ Len(ast) \in Nat \ {0} /\ WellFormed(mir) /\ mir.insert # None
      /\ Len(mir.code) \in Nat /\ mValue \in 0 .. Len(ast)
      /\ Top.loop \in BOOLEAN
  BY <1>5, InHandler DEF FrameType
<1>7. \A j \in 1 .. c : NewKids(c)[j] \in 1 .. Len(ast')
  BY <1>2, <1>5, <1>6
<1>8. /\ Len(fs) = c
      /\ \A j \in 1 .. c :
            /\ fs[j] \in FrameType(Len(ast'), Len(mir'.code))
            /\ FrameReady(fs[j], Len(mir'.code))
            /\ fs[j].at = "Visit" /\ ~IsLoop(fs[j]) /\ fs[j].loop = Top.loop
  BY <1>1, <1>2, <1>5, <1>6, <1>7, VisitOK
<1>9. StackOK(fs, Len(ast'), Len(mir'.code))
  <2>1. fs \in Seq(FrameType(Len(ast'), Len(mir'.code)))
    BY <1>2, <1>8
  <2> QED
    BY <1>8, <2>1 DEF StackOK
<1>10. Continue(fs)
  BY <1>1
<1> HIDE DEF fs
<1> QED
  BY <1>1, <1>2, <1>5, <1>6, <1>8, <1>9, <1>10, PlainKeeps

LEMMA VisitExprStmtKeeps ==
    ASSUME IInv, VisitExprStmt PROVE IInv'
<1> DEFINE sorts == <<"expr">>
           fs == <<First(Top.loop)>>
<1>1. /\ Enter("expr", sorts) /\ Continue(fs)
      /\ UNCHANGED <<phase, ret, mir, mValue, mCond, mMerge>>
  BY DEF VisitExprStmt
<1>2. /\ "expr" \in StmtKinds \cup ExprKinds
      /\ sorts \in Seq(Sorts) /\ Len(sorts) = 1
  BY DEF StmtKinds, Sorts
<1> HIDE DEF sorts
<1>3. /\ phase = "gen" /\ Top.at = "Visit" /\ ~IsLoop(Top)
      /\ TreeOK(ast') /\ Len(ast') = Len(ast) + 1
  BY <1>1, <1>2, EnterOK
<1>4. /\ Len(ast) \in Nat \ {0} /\ WellFormed(mir) /\ mir.insert # None
      /\ Len(mir.code) \in Nat /\ mValue \in 0 .. Len(ast)
      /\ Top \in FrameType(Len(ast), Len(mir.code))
  BY <1>3, InHandler
<1>5. Pushed(First(Top.loop), Len(ast'), Len(mir'.code))
  BY <1>1, <1>3, <1>4, FirstOK
<1>6. StackOK(fs, Len(ast'), Len(mir'.code))
  BY <1>5, ShortStacks DEF Pushed
<1>7. /\ Len(fs) = 1
      /\ \A i \in 1 .. Len(fs) :
           /\ fs[i].at # "DefineEnd" /\ ~IsLoop(fs[i])
           /\ fs[i].loop = Top.loop
  BY <1>5 DEF Pushed
<1> HIDE DEF fs
<1> QED
  BY <1>1, <1>3, <1>4, <1>6, <1>7, PlainKeeps

\* 'break' and 'continue' have a block to go to.
LEMMA JumpsKeep ==
    ASSUME IInv, VisitBreak \/ VisitContinue PROVE IInv'
<1> DEFINE sorts == <<>>
<1>1. PICK d \in {mCond, mMerge}, kind \in {"break", "continue"} :
        /\ Enter(kind, sorts) /\ Top.loop /\ mir' = BuildJmp(mir, d)
        /\ Continue(<<>>) /\ UNCHANGED <<phase, ret, mValue, mCond, mMerge>>
  BY DEF VisitBreak, VisitContinue
<1>2. /\ kind \in StmtKinds \cup ExprKinds
      /\ sorts \in Seq(Sorts) /\ Len(sorts) = 0
  BY DEF StmtKinds
<1> HIDE DEF sorts
<1>3. /\ phase = "gen" /\ Top.at = "Visit" /\ ~IsLoop(Top)
      /\ TreeOK(ast') /\ Len(ast') = Len(ast) + 0
  BY <1>1, <1>2, EnterOK
<1>4. /\ Len(ast) \in Nat \ {0} /\ WellFormed(mir) /\ mir.insert # None
      /\ Len(mir.code) \in Nat /\ mValue \in 0 .. Len(ast)
      /\ StackOK(stack, Len(ast), Len(mir.code)) /\ stack # <<>>
      /\ LoopsOK(stack, mCond, mMerge)
  BY <1>3, InHandler
<1>5. mCond \in 1 .. Len(mir.code) /\ mMerge \in 1 .. Len(mir.code)
  BY <1>1, <1>4, LoopTargets DEF Top
<1>6. d \in Blocks(mir)
  BY <1>5 DEF Blocks
<1>7. WellFormed(mir') /\ Len(mir'.code) = Len(mir.code) /\ mir'.insert # None
  BY <1>1, <1>4, <1>6, BuildJmpOK
<1> QED
  BY <1>1, <1>3, <1>4, <1>7, ReturnKeeps

LEMMA VisitIfKeeps ==
    ASSUME IInv, VisitIf PROVE IInv'
<1>1. PICK else \in {0, 1} :
        /\ Enter("if", <<"expr">> \o Stmts(1 + else))
        /\ Continue(<<First(Top.loop),
                      Handler("IfBranch", 2 + else, Top.loop)>>)
        /\ UNCHANGED <<phase, ret, mir, mValue, mCond, mMerge>>
  BY DEF VisitIf
<1> DEFINE cond == <<"expr">>
           arms == Stmts(1 + else)
           sorts == cond \o arms
           d == 2 + else
           f == Handler("IfBranch", d, Top.loop)
<1>2. /\ "if" \in StmtKinds \cup ExprKinds
      /\ sorts \in Seq(Sorts) /\ Len(sorts) = d /\ d \in {2, 3}
  <2>1. cond \in Seq(Sorts) /\ Len(cond) = 1
    BY DEF Sorts
  <2>2. arms \in Seq(Sorts) /\ Len(arms) = 1 + else
    BY StmtsOK
  <2> HIDE DEF cond, arms
  <2>3. sorts \in Seq(Sorts) /\ Len(sorts) = Len(cond) + Len(arms)
    BY <2>1, <2>2, ConcatSeq
  <2> HIDE DEF sorts
  <2> QED
    BY <2>1, <2>2, <2>3 DEF StmtKinds
<1>3. Enter("if", sorts) /\ Continue(<<First(Top.loop), f>>)
  BY <1>1
<1> HIDE DEF sorts, d
<1>4. /\ phase = "gen" /\ Top.at = "Visit" /\ ~IsLoop(Top)
      /\ TreeOK(ast') /\ Len(ast') = Len(ast) + d
      /\ NewKids(d) \in Seq(1 .. Len(ast')) /\ Len(NewKids(d)) = d
  BY <1>2, <1>3, EnterOK
<1>5. /\ Len(ast) \in Nat \ {0} /\ WellFormed(mir) /\ mir.insert # None
      /\ Len(mir.code) \in Nat /\ mValue \in 0 .. Len(ast)
      /\ Top \in FrameType(Len(ast), Len(mir.code)) /\ Top.loop \in BOOLEAN
  BY <1>4, InHandler DEF FrameType
<1>6. Pushed(First(Top.loop), Len(ast'), Len(mir'.code))
  BY <1>1, <1>2, <1>4, <1>5, FirstOK
<1>7. /\ f \in FrameType(Len(ast'), Len(mir'.code))
      /\ f.at = "IfBranch" /\ f.kids = NewKids(d) /\ f.loop = Top.loop
  <2>1. "IfBranch" \in Labels /\ d \in Nat
    BY <1>2 DEF Labels
  <2> QED
    BY <1>1, <1>2, <1>4, <1>5, <2>1, HandlerOK
<1> HIDE DEF f
<1>8. Pushed(f, Len(ast'), Len(mir'.code))
  BY <1>2, <1>4, <1>7 DEF Pushed, FrameReady, IsLoop
<1> QED
  BY <1>1, <1>2, <1>3, <1>4, <1>5, <1>6, <1>8, CallKeeps

LEMMA IfBranchKeeps ==
    ASSUME IInv, IfBranch PROVE IInv'
<1> DEFINE else    == HasElse(Top.kids)
           thenBB  == Len(mir.code) + 1
           mergeBB == Len(mir.code) + 2
           elseBB  == IF else THEN Len(mir.code) + 3 ELSE None
           d       == IF else THEN 3 ELSE 2
           falseBB == IF else THEN elseBB ELSE mergeBB
           m1 == NewBlocks(mir, d)
           m2 == AppendBlock(m1, thenBB)
           m3 == BuildBrif(m2, mValue, thenBB, falseBB)
           m4 == SetInsert(m3, thenBB)
           f == [Top EXCEPT !.at = "IfThenEnd", !.merge = mergeBB, !.alt = elseBB]
           c == Len(mir.code) + d
<1>1. /\ phase = "gen" /\ Top.at = "IfBranch" /\ mir' = m4
      /\ Continue(<<VisitKid(2), f>>)
      /\ UNCHANGED <<phase, ret, ast, mValue, mCond, mMerge>>
  BY DEF IfBranch, Resume
<1>2. /\ TreeOK(ast) /\ Len(ast) \in Nat \ {0}
      /\ WellFormed(mir) /\ mir.insert # None /\ Len(mir.code) \in Nat
      /\ Top \in FrameType(Len(ast), Len(mir.code))
      /\ FrameReady(Top, Len(mir.code)) /\ mValue \in 0 .. Len(ast)
  BY <1>1, InHandler
<1>3. WellFormed(m1) /\ Len(m1.code) = Len(mir.code) + d /\ m1.insert # None
  BY <1>2, NewBlocksOK
<1>4. /\ thenBB \in 1 .. c /\ falseBB \in 1 .. c /\ mergeBB \in 1 .. c
      /\ elseBB \in 0 .. c /\ (else => elseBB # None)
      /\ d \in {2, 3} /\ c \in Nat /\ Len(mir.code) <= c
  <2>1. CASE else
    <3>1. d = 3 /\ elseBB = Len(mir.code) + 3 /\ falseBB = Len(mir.code) + 3
      BY <2>1
    <3> HIDE DEF d, elseBB, falseBB
    <3> QED
      BY <1>2, <3>1 DEF None
  <2>2. CASE ~else
    <3>1. d = 2 /\ elseBB = 0 /\ falseBB = Len(mir.code) + 2
      BY <2>2 DEF None
    <3> HIDE DEF d, elseBB, falseBB
    <3> QED
      BY <1>2, <2>2, <3>1 DEF None
  <2> QED
    BY <2>1, <2>2
<1>5. f.at = "IfThenEnd" /\ f.merge = mergeBB /\ f.alt = elseBB
      /\ f.kids = Top.kids /\ f.loop = Top.loop
      /\ f \in FrameType(Len(ast), c)
  <2> HIDE DEF d, mergeBB, elseBB, c
  <2>1. Top \in FrameType(Len(ast), c)
    BY <1>2, <1>4, TypeGrows
  <2>2. "IfThenEnd" \in Labels /\ mergeBB \in 0 .. c /\ elseBB \in 0 .. c
    BY <1>4 DEF Labels
  <2>3. f \in FrameType(Len(ast), c)
    BY <2>1, <2>2, FrameSetBlocks
  <2> QED
    BY <1>2, <2>3 DEF FrameType
<1>14. mergeBB # None /\ Len(mir.code) + d = c
  BY <1>2 DEF None
<1> HIDE DEF d, thenBB, falseBB, mergeBB, elseBB, m1, f, c
<1>6. WellFormed(m2) /\ m2.code = m1.code /\ m2.insert # None
  BY <1>3, <1>4, <1>14, AppendBlockOK DEF Blocks
<1> HIDE DEF m2
<1>7. WellFormed(m3) /\ Len(m3.code) = Len(m2.code) /\ m3.insert # None
  <2>1. thenBB \in Blocks(m2) /\ falseBB \in Blocks(m2) /\ mValue \in Nat
    BY <1>2, <1>3, <1>4, <1>6, <1>14 DEF Blocks
  <2> QED
    BY <1>6, <2>1, BuildBrifOK
<1> HIDE DEF m3
<1>8. WellFormed(m4) /\ m4.code = m3.code /\ m4.insert # None
  <2>1. thenBB \in Blocks(m3) /\ thenBB # None
    BY <1>3, <1>4, <1>6, <1>7, <1>14 DEF Blocks, None
  <2> QED
    BY <1>7, <2>1, SetInsertOK
<1> HIDE DEF m4
<1>9. Len(mir'.code) = c
  BY <1>1, <1>3, <1>6, <1>7, <1>8, <1>14
<1>10. Len(Top.kids) \in {2, 3}
  BY <1>1, <1>2 DEF FrameReady
<1>11. Pushed(VisitKid(2), Len(ast'), Len(mir'.code))
  <2>1. 2 \in 1 .. Len(Top.kids)
    <3> DEFINE k == Len(Top.kids)
    <3>1. k \in {2, 3}
      BY <1>10
    <3> HIDE DEF k
    <3>2. 2 \in 1 .. k
      BY <3>1
    <3> QED
      BY <3>2 DEF k
  <2>2. Len(mir'.code) \in Nat
    BY <1>4, <1>9
  <2> QED
    BY <1>1, <1>2, <2>1, <2>2, VisitKidOK
<1>12. Pushed(f, Len(ast'), Len(mir'.code))
  BY <1>1, <1>4, <1>5, <1>9, <1>10, <1>14 DEF Pushed, FrameReady, IsLoop
<1>13. Top.at # "DefineEnd" /\ ~IsLoop(Top)
  BY <1>1 DEF IsLoop
<1> QED
  BY <1>1, <1>2, <1>4, <1>8, <1>9, <1>11, <1>12, <1>13, CallKeeps

LEMMA IfThenEndKeeps ==
    ASSUME IInv, IfThenEnd PROVE IInv'
<1> DEFINE m1 == JmpIfOpen(mir, Top.merge)
           m2 == SetInsert(AppendBlock(m1, Top.alt), Top.alt)
           m3 == EmitMerge(m1, Top.merge)
           f == [Top EXCEPT !.at = "IfElseEnd"]
<1>1. /\ phase = "gen" /\ Top.at = "IfThenEnd"
      /\ UNCHANGED <<phase, ret, ast, mValue, mCond, mMerge>>
  BY DEF IfThenEnd, Resume
<1>2. /\ TreeOK(ast) /\ Len(ast) \in Nat \ {0}
      /\ WellFormed(mir) /\ mir.insert # None /\ Len(mir.code) \in Nat
      /\ Top \in FrameType(Len(ast), Len(mir.code))
      /\ FrameReady(Top, Len(mir.code)) /\ mValue \in 0 .. Len(ast)
  BY <1>1, InHandler
<1>3. Top.merge \in Blocks(mir) /\ Top.alt \in 0 .. Len(mir.code)
  BY <1>1, <1>2 DEF FrameReady, FrameType, Blocks, None
<1>4. WellFormed(m1) /\ Len(m1.code) = Len(mir.code) /\ m1.insert # None
  BY <1>2, <1>3, JmpIfOpenOK
<1>5. Top.at # "DefineEnd" /\ ~IsLoop(Top)
  BY <1>1 DEF IsLoop
<1>6. CASE HasElse(Top.kids)
  <2>1. mir' = m2 /\ Continue(<<VisitKid(3), f>>)
    BY <1>6 DEF IfThenEnd
  <2> HIDE DEF m1
  <2>2. Top.alt \in Blocks(m1)
    BY <1>1, <1>2, <1>3, <1>4, <1>6 DEF FrameReady, Blocks, None
  <2>3. WellFormed(m2) /\ Len(m2.code) = Len(m1.code) /\ m2.insert # None
    BY <1>4, <2>2, OpenBlockOK
  <2>4. Pushed(VisitKid(3), Len(ast'), Len(mir'.code))
    BY <1>1, <1>2, <1>4, <1>6, <2>1, <2>3, VisitKidOK DEF HasElse
  <2>5. /\ f \in FrameType(Len(ast), Len(mir.code)) /\ f.at = "IfElseEnd"
        /\ f.merge = Top.merge /\ f.loop = Top.loop
    BY <1>2 DEF FrameType, Labels
  <2>6. Pushed(f, Len(ast'), Len(mir'.code))
    BY <1>1, <1>2, <1>3, <1>4, <2>1, <2>3, <2>5
       DEF Pushed, FrameReady, IsLoop, Blocks, None
  <2> HIDE DEF f, m2
  <2> QED
    BY <1>1, <1>2, <1>4, <1>5, <2>1, <2>3, <2>4, <2>6, CallKeeps
<1>7. CASE ~HasElse(Top.kids)
  <2>1. mir' = m3 /\ Continue(<<>>)
    BY <1>7 DEF IfThenEnd
  <2> HIDE DEF m1
  <2>2. Top.merge \in Blocks(m1)
    BY <1>3, <1>4 DEF Blocks
  <2>3. WellFormed(m3) /\ Len(m3.code) = Len(m1.code) /\ m3.insert # None
    BY <1>4, <2>2, EmitMergeOK
  <2> HIDE DEF m3
  <2> QED
    BY <1>1, <1>2, <1>4, <1>5, <2>1, <2>3, ReturnKeeps
<1> QED
  BY <1>6, <1>7

\* The last arm of 'if' and of 'match' ends alike.
LEMMA LastArmKeeps ==
    ASSUME IInv, IfElseEnd \/ MatchDefaultEnd PROVE IInv'
<1> DEFINE m1 == JmpIfOpen(mir, Top.merge)
           m2 == EmitMerge(m1, Top.merge)
<1>1. /\ phase = "gen" /\ Top.at \in {"IfElseEnd", "MatchDefaultEnd"}
      /\ mir' = m2 /\ Continue(<<>>)
      /\ UNCHANGED <<phase, ret, ast, mValue, mCond, mMerge>>
  BY DEF IfElseEnd, MatchDefaultEnd, Resume
<1>2. /\ TreeOK(ast) /\ Len(ast) \in Nat \ {0}
      /\ WellFormed(mir) /\ mir.insert # None /\ Len(mir.code) \in Nat
      /\ Top \in FrameType(Len(ast), Len(mir.code))
      /\ FrameReady(Top, Len(mir.code)) /\ mValue \in 0 .. Len(ast)
  BY <1>1, InHandler
<1>3. Top.merge \in Blocks(mir)
  BY <1>1, <1>2 DEF FrameReady, FrameType, Blocks, None
<1>4. WellFormed(m1) /\ Len(m1.code) = Len(mir.code) /\ m1.insert # None
  BY <1>2, <1>3, JmpIfOpenOK
<1> HIDE DEF m1
<1>5. Top.merge \in Blocks(m1)
  BY <1>3, <1>4 DEF Blocks
<1>6. WellFormed(m2) /\ Len(m2.code) = Len(m1.code) /\ m2.insert # None
  BY <1>4, <1>5, EmitMergeOK
<1> HIDE DEF m2
<1>7. Top.at # "DefineEnd" /\ ~IsLoop(Top)
  BY <1>1 DEF IsLoop
<1> QED
  BY <1>1, <1>2, <1>4, <1>6, <1>7, ReturnKeeps

LEMMA VisitMatchKeeps ==
    ASSUME IInv, VisitMatch PROVE IInv'
<1>1. PICK c \in 1 .. MaxStmts, default \in {0, 1} :
        /\ Enter("match", (<<"expr">> \o CaseSorts(c)) \o Stmts(default))
        /\ Continue(<<First(Top.loop),
                      Handler("MatchChains", 1 + 2 * c + default, Top.loop)>>)
        /\ UNCHANGED <<phase, ret, mir, mValue, mCond, mMerge>>
  BY DEF VisitMatch
<1> DEFINE one == <<"expr">>
           both == CaseSorts(c)
           most == one \o both
           last == Stmts(default)
           sorts == most \o last
           d == 1 + 2 * c + default
           f == Handler("MatchChains", d, Top.loop)
<1>2. /\ "match" \in StmtKinds \cup ExprKinds
      /\ sorts \in Seq(Sorts) /\ Len(sorts) = d
      /\ c \in Nat \ {0} /\ d \in Nat /\ 1 <= d
  <2>1. one \in Seq(Sorts) /\ Len(one) = 1
    BY DEF Sorts
  <2>2. c \in Nat \ {0} /\ default \in Nat
    BY BoundsAssumption
  <2>3. both \in Seq(Sorts) /\ Len(both) = 2 * c
    BY <2>2 DEF CaseSorts, Sorts
  <2>4. last \in Seq(Sorts) /\ Len(last) = default
    BY <2>2, StmtsOK
  <2> HIDE DEF one, both, last
  <2>5. most \in Seq(Sorts) /\ Len(most) = Len(one) + Len(both)
    BY <2>1, <2>3, ConcatSeq
  <2> HIDE DEF most
  <2>6. sorts \in Seq(Sorts) /\ Len(sorts) = Len(most) + Len(last)
    BY <2>4, <2>5, ConcatSeq
  <2> HIDE DEF sorts
  <2> QED
    BY <2>1, <2>2, <2>3, <2>4, <2>5, <2>6 DEF StmtKinds
<1>3. Enter("match", sorts) /\ Continue(<<First(Top.loop), f>>)
  BY <1>1
<1>4. (d - 1) \div 2 = c
  BY <1>2
<1> HIDE DEF sorts, d
<1>5. /\ phase = "gen" /\ Top.at = "Visit" /\ ~IsLoop(Top)
      /\ TreeOK(ast') /\ Len(ast') = Len(ast) + d
      /\ NewKids(d) \in Seq(1 .. Len(ast')) /\ Len(NewKids(d)) = d
  BY <1>2, <1>3, EnterOK
<1>6. /\ Len(ast) \in Nat \ {0} /\ WellFormed(mir) /\ mir.insert # None
      /\ Len(mir.code) \in Nat /\ mValue \in 0 .. Len(ast)
      /\ Top \in FrameType(Len(ast), Len(mir.code)) /\ Top.loop \in BOOLEAN
  BY <1>5, InHandler DEF FrameType
<1>7. Pushed(First(Top.loop), Len(ast'), Len(mir'.code))
  BY <1>1, <1>2, <1>5, <1>6, FirstOK
<1>8. /\ f \in FrameType(Len(ast'), Len(mir'.code))
      /\ f.at = "MatchChains" /\ f.kids = NewKids(d) /\ f.loop = Top.loop
  <2>1. "MatchChains" \in Labels
    BY DEF Labels
  <2> QED
    BY <1>1, <1>2, <1>5, <1>6, <2>1, HandlerOK
<1> HIDE DEF f
<1>9. Cases(f.kids) = c
  BY <1>4, <1>5, <1>8 DEF Cases
<1>10. Pushed(f, Len(ast'), Len(mir'.code))
  BY <1>2, <1>8, <1>9 DEF Pushed, FrameReady, IsLoop
<1>11. /\ Len(ast) <= Len(ast') /\ Len(mir.code) <= Len(mir'.code)
       /\ mValue' \in 0 .. Len(ast') /\ WellFormed(mir') /\ mir'.insert # None
  BY <1>1, <1>2, <1>5, <1>6
<1> QED
  BY <1>1, <1>3, <1>5, <1>7, <1>10, <1>11, CallKeeps

LEMMA MatchChainsKeeps ==
    ASSUME IInv, MatchChains PROVE IInv'
<1> DEFINE n == Len(ast)
           c == Len(mir.code)
           k == Cases(Top.kids)
           d == IF HasDefault(Top.kids) THEN 2 ELSE 1
           f == [Top EXCEPT !.at = "MatchCompare", !.i = 1,
                            !.merge = c + 1, !.alt = c + d]
           m1 == NewBlocks(mir, k + d)
           chain == ChainBB(f, 1)
           m2 == BuildJmp(m1, chain)
           m3 == OpenChain(m2, f)
<1>1. /\ phase = "gen" /\ Top.at = "MatchChains" /\ mir' = m3
      /\ Continue(<<VisitKid(2), f>>)
      /\ UNCHANGED <<phase, ret, ast, mValue, mCond, mMerge>>
  BY DEF MatchChains, Resume
<1>2. /\ TreeOK(ast) /\ n \in Nat \ {0}
      /\ WellFormed(mir) /\ mir.insert # None /\ c \in Nat
      /\ Top \in FrameType(n, c) /\ FrameReady(Top, c) /\ mValue \in 0 .. n
  BY <1>1, InHandler
<1>3. k \in Nat \ {0} /\ d \in {1, 2}
  BY <1>1, <1>2 DEF FrameReady
<1>4. Top.kids \in Seq(1 .. n)
  BY <1>2 DEF FrameType
<1>5. 2 * k + 1 <= Len(Top.kids) /\ Len(Top.kids) \in Nat
  BY <1>4, CasesOK
<1> DEFINE e == c + (k + d)
<1>6. e \in Nat /\ c <= e /\ c + 1 \in 1 .. e /\ c + d \in 1 .. e
      /\ (c + d) + k = e /\ (c + d) + 1 \in 1 .. e /\ k + d \in Nat
  <2> HIDE DEF c, k, d
  <2> QED
    BY <1>2, <1>3
<1>7. /\ f \in FrameType(n, e) /\ f.at = "MatchCompare" /\ f.i = 1
      /\ f.merge = c + 1 /\ f.alt = c + d
      /\ f.kids = Top.kids /\ f.loop = Top.loop
  <2> HIDE DEF c, k, d, e, n
  <2>1. Top \in FrameType(n, e)
    BY <1>2, <1>6, TypeGrows
  <2>2. c + 1 \in 0 .. e /\ c + d \in 0 .. e /\ "MatchCompare" \in Labels
    BY <1>6 DEF Labels
  <2>3. f \in FrameType(n, e)
    BY <2>1, <2>2, FrameSetBlocks
  <2> QED
    BY <2>1, <2>3 DEF FrameType
<1>8. chain = (c + d) + 1
  BY DEF ChainBB
<1>9. m3 = SetInsert(AppendBlock(m2, chain), chain)
  BY <1>7 DEF OpenChain
<1> HIDE DEF n, c, k, d, e, f, chain, m3
<1>10. WellFormed(m1) /\ Len(m1.code) = e /\ m1.insert # None
  BY <1>2, <1>6, NewBlocksOK DEF c, e
<1> HIDE DEF m1
<1>11. WellFormed(m2) /\ Len(m2.code) = e /\ m2.insert # None
  <2>1. chain \in Blocks(m1)
    BY <1>6, <1>8, <1>10 DEF Blocks
  <2> QED
    BY <1>10, <2>1, BuildJmpOK
<1> HIDE DEF m2
<1>12. WellFormed(m3) /\ Len(m3.code) = e /\ m3.insert # None
  <2>1. chain \in Blocks(m2)
    BY <1>6, <1>8, <1>11 DEF Blocks
  <2> QED
    BY <1>9, <1>11, <2>1, OpenBlockOK
<1>13. Pushed(VisitKid(2), n, e)
  <2> DEFINE l == Len(Top.kids)
  <2>1. l \in Nat /\ 2 * k + 1 <= l
    BY <1>5
  <2> HIDE DEF l
  <2>2. 2 \in 1 .. l
    BY <1>3, <2>1
  <2>3. 2 \in 1 .. Len(Top.kids)
    BY <2>2 DEF l
  <2> QED
    BY <1>2, <1>6, <2>3, VisitKidOK
<1>14. Cases(f.kids) = k
  BY <1>7 DEF k
<1>15. f.merge # None /\ f.alt # None /\ f.i \in 1 .. k /\ f.alt + k <= e
  BY <1>2, <1>3, <1>6, <1>7 DEF None
<1>16. Pushed(f, n, e)
  BY <1>1, <1>7, <1>14, <1>15 DEF Pushed, FrameReady, IsLoop
<1>17. Top.at # "DefineEnd" /\ ~IsLoop(Top)
  BY <1>1 DEF IsLoop
<1>18. /\ Len(ast') = n /\ Len(mir'.code) = e /\ Len(mir.code) <= Len(mir'.code)
       /\ mValue' \in 0 .. Len(ast') /\ TreeOK(ast') /\ Len(ast) <= Len(ast')
  BY <1>1, <1>2, <1>6, <1>12 DEF n, c
<1> QED
  BY <1>1, <1>12, <1>13, <1>16, <1>17, <1>18, CallKeeps

LEMMA MatchCompareKeeps ==
    ASSUME IInv, MatchCompare PROVE IInv'
<1> DEFINE n == Len(ast)
           c == Len(mir.code)
           k == Cases(Top.kids)
           body == c + 1
           next == NextBB(Top)
           m1 == NewBlocks(mir, 1)
           m2 == AppendBlock(m1, body)
           m3 == BuildBrif(m2, mValue, body, next)
           m4 == SetInsert(m3, body)
           f == [Top EXCEPT !.at = "MatchCaseEnd"]
<1>1. /\ phase = "gen" /\ Top.at = "MatchCompare" /\ mir' = m4
      /\ Continue(<<VisitKid(2 * Top.i + 1), f>>)
      /\ UNCHANGED <<phase, ret, ast, mValue, mCond, mMerge>>
  BY DEF MatchCompare, Resume
<1>2. /\ TreeOK(ast) /\ n \in Nat \ {0}
      /\ WellFormed(mir) /\ mir.insert # None /\ c \in Nat
      /\ Top \in FrameType(n, c) /\ FrameReady(Top, c) /\ mValue \in 0 .. n
  BY <1>1, InHandler
<1>3. /\ Top.i \in 1 .. k /\ Top.alt # None /\ Top.alt + k <= c
      /\ Top.merge # None
  BY <1>1, <1>2 DEF FrameReady
<1>4. /\ Top.kids \in Seq(1 .. n) /\ Top.alt \in 0 .. c /\ Top.merge \in 0 .. c
      /\ Top.loop \in BOOLEAN /\ Top.i \in Nat
  BY <1>2 DEF FrameType
<1>5. 2 * k + 1 <= Len(Top.kids) /\ Len(Top.kids) \in Nat /\ k \in Int
  BY <1>4, CasesOK
<1>6. next \in 1 .. c
  <2> DEFINE a == Top.alt
             i == Top.i
             g == Top.merge
  <2>1. /\ i \in 1 .. k /\ a # 0 /\ a + k <= c /\ g # 0 /\ k \in Int
        /\ a \in 0 .. c /\ g \in 0 .. c /\ c \in Nat
    BY <1>2, <1>3, <1>4, <1>5 DEF None
  <2>2. next = IF i # k THEN a + (i + 1)
               ELSE IF HasDefault(Top.kids) THEN a ELSE g
    BY DEF NextBB, ChainBB, DefBB
  <2> HIDE DEF a, i, g, k, c, next
  <2> QED
    BY <2>1, <2>2
<1>7. /\ f \in FrameType(n, c + 1) /\ f.at = "MatchCaseEnd" /\ f.i = Top.i
      /\ f.merge = Top.merge /\ f.alt = Top.alt
      /\ f.kids = Top.kids /\ f.loop = Top.loop
  <2> HIDE DEF c, n
  <2>1. Top \in FrameType(n, c + 1) /\ "MatchCaseEnd" \in Labels
    BY <1>2, TypeGrows DEF Labels
  <2>2. f \in FrameType(n, c + 1)
    BY <2>1, FrameSet DEF FrameType
  <2> QED
    BY <2>1, <2>2 DEF FrameType
<1> DEFINE e == c + 1
<1>8. e \in Nat /\ c <= e /\ body \in 1 .. e /\ next \in 1 .. e /\ body # None
  BY <1>2, <1>6 DEF None
<1>9. e = c + 1
  OBVIOUS
<1> HIDE DEF n, c, k, e, f, body, next
<1>10. WellFormed(m1) /\ Len(m1.code) = e /\ m1.insert # None
  BY <1>2, <1>9, NewBlocksOK DEF c
<1> HIDE DEF m1
<1>11. WellFormed(m2) /\ Len(m2.code) = e /\ m2.insert # None
  BY <1>8, <1>10, AppendBlockOK DEF Blocks
<1> HIDE DEF m2
<1>12. WellFormed(m3) /\ Len(m3.code) = e /\ m3.insert # None
  <2>1. body \in Blocks(m2) /\ next \in Blocks(m2) /\ mValue \in Nat
    BY <1>2, <1>8, <1>11 DEF Blocks
  <2> QED
    BY <1>11, <2>1, BuildBrifOK
<1> HIDE DEF m3
<1>13. WellFormed(m4) /\ Len(m4.code) = e /\ m4.insert # None
  <2>1. body \in Blocks(m3)
    BY <1>8, <1>12 DEF Blocks
  <2> QED
    BY <1>8, <1>12, <2>1, SetInsertOK
<1> HIDE DEF m4
<1>14. Pushed(VisitKid(2 * Top.i + 1), n, e)
  <2> DEFINE l == Len(Top.kids)
             i == Top.i
  <2>1. l \in Nat /\ 2 * k + 1 <= l /\ i \in 1 .. k /\ k \in Int
    BY <1>3, <1>5
  <2> HIDE DEF l, i
  <2>2. 2 * i + 1 \in 1 .. l
    BY <2>1
  <2>3. 2 * Top.i + 1 \in 1 .. Len(Top.kids)
    BY <2>2 DEF l, i
  <2> QED
    BY <1>2, <1>8, <2>3, VisitKidOK
<1>15. Cases(f.kids) = k /\ f.alt + k <= e
  <2> DEFINE a == f.alt
  <2>1. a \in 0 .. c /\ a + k <= c
    BY <1>3, <1>4, <1>7
  <2> HIDE DEF a
  <2>2. a + k <= e
    BY <1>2, <1>5, <1>9, <2>1
  <2> QED
    BY <1>7, <2>2 DEF k, a
<1>16. Pushed(f, n, e)
  BY <1>1, <1>3, <1>7, <1>9, <1>15 DEF Pushed, FrameReady, IsLoop
<1>17. Top.at # "DefineEnd" /\ ~IsLoop(Top)
  BY <1>1 DEF IsLoop
<1>18. /\ Len(ast') = n /\ Len(mir'.code) = e /\ Len(mir.code) <= Len(mir'.code)
       /\ mValue' \in 0 .. Len(ast') /\ TreeOK(ast') /\ Len(ast) <= Len(ast')
  BY <1>1, <1>2, <1>8, <1>13 DEF n, c
<1> QED
  BY <1>1, <1>13, <1>14, <1>16, <1>17, <1>18, CallKeeps

LEMMA MatchCaseEndKeeps ==
    ASSUME IInv, MatchCaseEnd PROVE IInv'
<1> DEFINE n == Len(ast)
           c == Len(mir.code)
           k == Cases(Top.kids)
           m1 == JmpIfOpen(mir, Top.merge)
           next == [Top EXCEPT !.at = "MatchCompare", !.i = @ + 1]
           chain == ChainBB(next, next.i)
           deflt == [Top EXCEPT !.at = "MatchDefaultEnd"]
<1>1. /\ phase = "gen" /\ Top.at = "MatchCaseEnd"
      /\ UNCHANGED <<phase, ret, ast, mValue, mCond, mMerge>>
  BY DEF MatchCaseEnd, Resume
<1>2. /\ TreeOK(ast) /\ n \in Nat \ {0}
      /\ WellFormed(mir) /\ mir.insert # None /\ c \in Nat
      /\ Top \in FrameType(n, c) /\ FrameReady(Top, c) /\ mValue \in 0 .. n
  BY <1>1, InHandler
<1>3. /\ Top.i \in 1 .. k /\ Top.alt # None /\ Top.alt + k <= c
      /\ Top.merge # None
  BY <1>1, <1>2 DEF FrameReady
<1>4. /\ Top.kids \in Seq(1 .. n) /\ Top.alt \in 0 .. c /\ Top.merge \in 0 .. c
      /\ Top.loop \in BOOLEAN /\ Top.i \in Nat
  BY <1>2 DEF FrameType
<1>5. /\ 2 * k + 1 <= Len(Top.kids) /\ Len(Top.kids) \in Nat /\ k \in Int
      /\ HasDefault(Top.kids) => Len(Top.kids) = 2 * k + 2
  BY <1>4, CasesOK
<1>6. Top.merge \in Blocks(mir) /\ Top.alt \in Blocks(mir)
  BY <1>3, <1>4 DEF Blocks, None
<1>7. WellFormed(m1) /\ Len(m1.code) = c /\ m1.insert # None
  BY <1>2, <1>6, JmpIfOpenOK
<1>8. Top.at # "DefineEnd" /\ ~IsLoop(Top)
  BY <1>1 DEF IsLoop
<1>9. Len(ast') = n /\ mValue' \in 0 .. n /\ TreeOK(ast') /\ Len(ast) <= Len(ast')
  BY <1>1, <1>2
<1>10. CASE /\ Top.i < k /\ mir' = OpenChain(m1, next)
            /\ Continue(<<VisitKid(2 * Top.i + 2), next>>)
  <2>1. /\ next \in FrameType(n, c) /\ next.at = "MatchCompare"
        /\ next.i = Top.i + 1 /\ next.kids = Top.kids /\ next.loop = Top.loop
        /\ next.merge = Top.merge /\ next.alt = Top.alt
    <3> DEFINE j == Top.i + 1
    <3>1. "MatchCompare" \in Labels /\ j \in Nat
      BY <1>4 DEF Labels
    <3>2. next = [Top EXCEPT !.at = "MatchCompare", !.i = j]
      OBVIOUS
    <3> HIDE DEF next, n, c, j
    <3>3. next \in FrameType(n, c)
      <4>1. [Top EXCEPT !.at = "MatchCompare", !.i = j] \in FrameType(n, c)
        BY <1>2, <3>1, FrameSet
      <4> QED
        BY <3>2, <4>1
    <3> USE DEF next, j
    <3> QED
      BY <1>2, <3>3 DEF FrameType
  <2>2. chain = Top.alt + (Top.i + 1)
    BY <2>1 DEF ChainBB
  <2>3. chain \in 1 .. c /\ Top.i + 1 \in 1 .. k /\ 2 * Top.i + 2 \in 1 .. Len(Top.kids)
    <3> DEFINE a == Top.alt
               i == Top.i
               l == Len(Top.kids)
    <3>1. /\ i \in 1 .. k /\ i < k /\ a \in 0 .. c /\ a + k <= c /\ c \in Nat
          /\ k \in Int /\ 2 * k + 1 <= l /\ l \in Nat
      BY <1>2, <1>3, <1>4, <1>5, <1>10
    <3> HIDE DEF a, i, l, k, c
    <3>2. a + (i + 1) \in 1 .. c /\ i + 1 \in 1 .. k /\ 2 * i + 2 \in 1 .. l
      BY <3>1
    <3> QED
      BY <2>2, <3>2 DEF a, i, l
  <2>4. mir' = SetInsert(AppendBlock(m1, chain), chain)
    BY <1>10 DEF OpenChain
  <2> HIDE DEF m1, chain, n, c, k, next
  <2>5. WellFormed(mir') /\ Len(mir'.code) = c /\ mir'.insert # None
    BY <1>7, <2>3, <2>4, OpenBlockOK DEF Blocks
  <2>6. Pushed(VisitKid(2 * Top.i + 2), n, c)
    BY <1>2, <2>3, VisitKidOK
  <2>7. Cases(next.kids) = k
    BY <2>1 DEF k
  <2>8. Pushed(next, n, c)
    BY <1>3, <2>1, <2>3, <2>7 DEF Pushed, FrameReady, IsLoop
  <2>9. Len(mir.code) <= Len(mir'.code)
    BY <1>2, <2>5 DEF c
  <2> QED
    BY <1>1, <1>8, <1>9, <1>10, <2>5, <2>6, <2>8, <2>9, CallKeeps
<1>11. CASE /\ HasDefault(Top.kids)
            /\ mir' = SetInsert(AppendBlock(m1, DefBB(Top)), DefBB(Top))
            /\ Continue(<<VisitKid(Len(Top.kids)), deflt>>)
  <2>1. /\ deflt \in FrameType(n, c) /\ deflt.at = "MatchDefaultEnd"
        /\ deflt.merge = Top.merge /\ deflt.loop = Top.loop
    <3>1. "MatchDefaultEnd" \in Labels
      BY DEF Labels
    <3>2. deflt \in FrameType(n, c)
      BY <1>2, <3>1, FrameSet DEF FrameType
    <3> QED
      BY <1>2, <3>2 DEF FrameType
  <2> HIDE DEF m1, n, c, k, deflt
  <2>2. WellFormed(mir') /\ Len(mir'.code) = c /\ mir'.insert # None
    <3>1. DefBB(Top) \in Blocks(m1)
      BY <1>6, <1>7 DEF Blocks, DefBB, c
    <3> QED
      BY <1>7, <1>11, <3>1, OpenBlockOK
  <2>3. Pushed(VisitKid(Len(Top.kids)), n, c)
    <3> DEFINE l == Len(Top.kids)
    <3>1. l \in Nat /\ l = 2 * k + 2 /\ k \in Nat
      BY <1>3, <1>4, <1>5, <1>11
    <3> HIDE DEF l
    <3>2. l \in 1 .. l
      BY <3>1
    <3>3. Len(Top.kids) \in 1 .. Len(Top.kids)
      BY <3>2 DEF l
    <3> QED
      BY <1>2, <3>3, VisitKidOK
  <2>4. Pushed(deflt, n, c)
    BY <1>3, <2>1 DEF Pushed, FrameReady, IsLoop
  <2>5. Len(mir.code) <= Len(mir'.code)
    BY <1>2, <2>2 DEF c
  <2> QED
    BY <1>1, <1>8, <1>9, <1>11, <2>2, <2>3, <2>4, <2>5, CallKeeps
<1>12. CASE mir' = EmitMerge(m1, Top.merge) /\ Continue(<<>>)
  <2> HIDE DEF m1, n, c, k
  <2>1. Top.merge \in Blocks(m1)
    BY <1>6, <1>7 DEF Blocks, c
  <2>2. WellFormed(mir') /\ Len(mir'.code) = c /\ mir'.insert # None
    BY <1>7, <1>12, <2>1, EmitMergeOK
  <2>3. Len(mir.code) <= Len(mir'.code)
    BY <1>2, <2>2 DEF c
  <2> QED
    BY <1>1, <1>8, <1>9, <1>12, <2>2, <2>3, ReturnKeeps
<1> QED
  BY <1>10, <1>11, <1>12 DEF MatchCaseEnd

LEMMA VisitRetVoidKeeps ==
    ASSUME IInv, VisitRetVoid PROVE IInv'
<1> DEFINE sorts == <<>>
<1>1. /\ Enter("ret", sorts) /\ mir' = BuildRet(mir, Top.node)
      /\ Continue(<<>>) /\ UNCHANGED <<phase, ret, mValue, mCond, mMerge>>
  BY DEF VisitRetVoid
<1>2. /\ "ret" \in StmtKinds \cup ExprKinds
      /\ sorts \in Seq(Sorts) /\ Len(sorts) = 0
  BY DEF StmtKinds
<1> HIDE DEF sorts
<1>3. /\ phase = "gen" /\ Top.at = "Visit" /\ ~IsLoop(Top)
      /\ TreeOK(ast') /\ Len(ast') = Len(ast) + 0
  BY <1>1, <1>2, EnterOK
<1>4. /\ Len(ast) \in Nat \ {0} /\ WellFormed(mir) /\ mir.insert # None
      /\ Len(mir.code) \in Nat /\ mValue \in 0 .. Len(ast) /\ Top.node \in Nat
  BY <1>3, InHandler DEF FrameType
<1>5. WellFormed(mir') /\ Len(mir'.code) = Len(mir.code) /\ mir'.insert # None
  BY <1>1, <1>4, BuildRetOK
<1> QED
  BY <1>1, <1>3, <1>4, <1>5, ReturnKeeps

\* 'ret' with a value evaluates it first.
LEMMA VisitRetKeeps ==
    ASSUME IInv, VisitRet PROVE IInv'
<1>1. PICK sort \in Sorts :
        /\ Enter("ret", <<sort>>)
        /\ Continue(<<First(Top.loop), Handler("RetValue", 1, Top.loop)>>)
        /\ UNCHANGED <<phase, ret, mir, mValue, mCond, mMerge>>
  BY DEF VisitRet, Sorts
<1> DEFINE sorts == <<sort>>
           f == Handler("RetValue", 1, Top.loop)
<1>2. /\ "ret" \in StmtKinds \cup ExprKinds
      /\ sorts \in Seq(Sorts) /\ Len(sorts) = 1
  BY DEF StmtKinds, ExprKinds
<1>3. Enter("ret", sorts)
  BY <1>1
<1> HIDE DEF sorts
<1>4. /\ phase = "gen" /\ Top.at = "Visit" /\ ~IsLoop(Top)
      /\ TreeOK(ast') /\ Len(ast') = Len(ast) + 1
      /\ NewKids(1) \in Seq(1 .. Len(ast'))
  BY <1>2, <1>3, EnterOK
<1>5. /\ Len(ast) \in Nat \ {0} /\ WellFormed(mir) /\ mir.insert # None
      /\ Len(mir.code) \in Nat /\ mValue \in 0 .. Len(ast)
      /\ Top \in FrameType(Len(ast), Len(mir.code)) /\ Top.loop \in BOOLEAN
  BY <1>4, InHandler DEF FrameType
<1>6. Pushed(First(Top.loop), Len(ast'), Len(mir'.code))
  BY <1>1, <1>4, <1>5, FirstOK
<1>7. /\ f \in FrameType(Len(ast'), Len(mir'.code))
      /\ f.at = "RetValue" /\ f.loop = Top.loop
  <2>1. "RetValue" \in Labels
    BY DEF Labels
  <2> QED
    BY <1>1, <1>4, <1>5, <2>1, HandlerOK
<1>8. Pushed(f, Len(ast'), Len(mir'.code))
  BY <1>7 DEF Pushed, FrameReady, IsLoop
<1>9. /\ Len(ast) <= Len(ast') /\ Len(mir.code) <= Len(mir'.code)
      /\ mValue' \in 0 .. Len(ast') /\ WellFormed(mir') /\ mir'.insert # None
  BY <1>1, <1>4, <1>5
<1>10. Continue(<<First(Top.loop), f>>)
  BY <1>1
<1> HIDE DEF f
<1> QED
  BY <1>1, <1>4, <1>6, <1>8, <1>9, <1>10, CallKeeps

\* Several frames whose handlers enter no loop.
FramesOK(fs, n, c) ==
    /\ StackOK(fs, n, c)
    /\ \A j \in 1 .. Len(fs) :
          /\ fs[j].at # "DefineEnd" /\ ~IsLoop(fs[j]) /\ fs[j].loop = Top.loop

\* One of them below others.
LEMMA FramesOn ==
    ASSUME NEW n, NEW c, NEW fs, FramesOK(fs, n, c), NEW f, Pushed(f, n, c)
    PROVE  FramesOK(fs \o <<f>>, n, c)
<1> DEFINE fr == <<f>>
<1>1. StackOK(fr, n, c) /\ Len(fr) = 1 /\ fr[1] = f
  BY ShortStacks DEF Pushed
<1> HIDE DEF fr
<1>2. fs \in Seq(FrameType(n, c)) /\ fr \in Seq(FrameType(n, c))
  BY <1>1 DEF FramesOK, StackOK
<1> DEFINE s == fs \o fr
<1>3. StackOK(s, n, c)
  BY <1>1, StackPush DEF FramesOK
<1>4. /\ Len(fs) \in Nat /\ Len(s) \in Nat
      /\ \A j \in 1 .. Len(fs) : s[j] = fs[j]
      /\ \A j \in 1 .. Len(s) : j > Len(fs) =>
            j - Len(fs) \in 1 .. Len(fr) /\ s[j] = fr[j - Len(fs)]
  BY <1>2, ConcatParts
<1> HIDE DEF s
<1>5. ASSUME NEW j \in 1 .. Len(s)
      PROVE  s[j].at # "DefineEnd" /\ ~IsLoop(s[j]) /\ s[j].loop = Top.loop
  <2>1. CASE j \in 1 .. Len(fs)
    BY <2>1, <1>4 DEF FramesOK
  <2>2. CASE j > Len(fs)
    <3>1. s[j] = f
      BY <2>2, <1>1, <1>4
    <3> QED
      BY <3>1 DEF Pushed
  <2> QED
    BY <2>1, <2>2, <1>4
<1>6. FramesOK(s, n, c)
  BY <1>3, <1>5 DEF FramesOK
<1> QED
  BY <1>6 DEF s, fr

LEMMA OperandsOK ==
    ASSUME NEW c \in Nat
    PROVE  Operands(c) \in Seq(Sorts) /\ Len(Operands(c)) = c
BY DEF Operands, Sorts

\* The operands are visited one after the other, then the operator.
LEMMA VisitOpKeeps ==
    ASSUME IInv, VisitOp PROVE IInv'
<1>1. PICK c \in 1 .. MaxStmts :
        /\ Enter("op", Operands(c))
        /\ Continue([j \in 1 .. c |-> Visit(NewKids(c)[j], Top.loop)]
                    \o <<Handler("OpEnd", c, Top.loop)>>)
        /\ UNCHANGED <<phase, ret, mir, mValue, mCond, mMerge>>
  BY DEF VisitOp
<1> DEFINE sorts == Operands(c)
           fs == [j \in 1 .. c |-> Visit(NewKids(c)[j], Top.loop)]
           f == Handler("OpEnd", c, Top.loop)
<1>2. sorts \in Seq(Sorts) /\ Len(sorts) = c /\ c \in Nat
  BY BoundsAssumption, OperandsOK
<1>3. "op" \in StmtKinds \cup ExprKinds
  BY DEF ExprKinds
<1>4. Enter("op", sorts)
  BY <1>1
<1> HIDE DEF sorts
<1>5. /\ phase = "gen" /\ Top.at = "Visit" /\ ~IsLoop(Top)
      /\ TreeOK(ast') /\ Len(ast') = Len(ast) + c
      /\ NewKids(c) \in Seq(1 .. Len(ast'))
      /\ \A j \in 1 .. c : NewKids(c)[j] = Len(ast) + j
  BY <1>2, <1>3, <1>4, EnterOK
<1>6. /\ Len(ast) \in Nat \ {0} /\ WellFormed(mir) /\ mir.insert # None
      /\ Len(mir.code) \in Nat /\ mValue \in 0 .. Len(ast)
      /\ Top \in FrameType(Len(ast), Len(mir.code)) /\ Top.loop \in BOOLEAN
  BY <1>5, InHandler DEF FrameType
<1>7. \A j \in 1 .. c : NewKids(c)[j] \in 1 .. Len(ast')
  BY <1>2, <1>5, <1>6
<1>8. /\ Len(fs) = c
      /\ \A j \in 1 .. c :
            /\ fs[j] \in FrameType(Len(ast'), Len(mir'.code))
            /\ FrameReady(fs[j], Len(mir'.code))
            /\ fs[j].at = "Visit" /\ ~IsLoop(fs[j]) /\ fs[j].loop = Top.loop
  <2>1. c \in Nat /\ Len(ast') \in Nat /\ Len(mir'.code) \in Nat
    BY <1>2, <1>5, <1>6
  <2>2. ASSUME NEW j \in 1 .. c
        PROVE  /\ fs[j] \in FrameType(Len(ast'), Len(mir'.code))
               /\ FrameReady(fs[j], Len(mir'.code))
               /\ fs[j].at = "Visit" /\ ~IsLoop(fs[j]) /\ fs[j].loop = Top.loop
    <3>1. fs[j] = Visit(NewKids(c)[j], Top.loop)
      BY <2>1
    <3>2. NewKids(c)[j] \in 1 .. Len(ast') /\ Top.loop \in BOOLEAN
      BY <1>6, <1>7
    <3> QED BY ONLY <2>1, <3>1, <3>2, VisitOK
  <2> QED BY <2>1, <2>2
<1>9. FramesOK(fs, Len(ast'), Len(mir'.code))
  <2>1. fs \in Seq(FrameType(Len(ast'), Len(mir'.code)))
    BY <1>2, <1>8
  <2> QED
    BY <1>8, <2>1 DEF FramesOK, StackOK
<1>10. Continue(fs \o <<f>>)
  BY <1>1
<1> HIDE DEF fs
<1>11. /\ f \in FrameType(Len(ast'), Len(mir'.code))
       /\ f.at = "OpEnd" /\ f.loop = Top.loop
  <2>1. "OpEnd" \in Labels
    BY DEF Labels
  <2> QED
    BY <1>1, <1>2, <1>5, <1>6, <2>1, HandlerOK
<1>12. Pushed(f, Len(ast'), Len(mir'.code))
  BY <1>11 DEF Pushed, FrameReady, IsLoop
<1>13. /\ Len(ast) <= Len(ast') /\ Len(mir.code) <= Len(mir'.code)
       /\ mValue' \in 0 .. Len(ast') /\ WellFormed(mir') /\ mir'.insert # None
       /\ phase' = "gen" /\ UNCHANGED <<ret, mCond, mMerge>>
  BY <1>1, <1>2, <1>5, <1>6
<1> HIDE DEF f
<1> DEFINE s == fs \o <<f>>
<1>14. FramesOK(s, Len(ast'), Len(mir'.code)) /\ Continue(s)
  BY <1>9, <1>10, <1>12, FramesOn
<1> HIDE DEF s
<1>15. Top.at # "DefineEnd"
  BY <1>5
<1> QED
  BY <1>5, <1>13, <1>14, <1>15, PlainKeeps DEF FramesOK

\* Code is emitted at the insertion point and the handler returns.
LEMMA ResultKeeps ==
    ASSUME IInv, RetValue \/ OpEnd PROVE IInv'
<1>1. /\ phase = "gen" /\ Top.at \in {"RetValue", "OpEnd"} /\ Continue(<<>>)
      /\ UNCHANGED <<phase, ret, ast, mCond, mMerge>>
  BY DEF RetValue, OpEnd, Resume
<1>2. /\ TreeOK(ast) /\ Len(ast) \in Nat \ {0}
      /\ WellFormed(mir) /\ mir.insert # None /\ Len(mir.code) \in Nat
      /\ Top.node \in 1 .. Len(ast) /\ mValue \in 0 .. Len(ast)
  BY <1>1, InHandler DEF FrameType
<1>3. mValue' \in 0 .. Len(ast)
  BY <1>2 DEF RetValue, OpEnd
<1>4. \/ mir' = BuildRet(mir, Top.node)
      \/ mir' = Emit(mir, Copy(Top.node))
      \/ mir' = Emit(mir, Eval(Top.node))
  BY DEF RetValue, OpEnd
<1>5. /\ Top.node \in Nat
      /\ Copy(Top.node) \in Inst /\ Targets(Copy(Top.node)) = {}
      /\ Eval(Top.node) \in Inst /\ Targets(Eval(Top.node)) = {}
  BY <1>2 DEF Copy, Eval, Plain, Targets, Inst, InstOps, Terminators, None
<1>6. WellFormed(mir') /\ Len(mir'.code) = Len(mir.code) /\ mir'.insert # None
  BY <1>2, <1>4, <1>5, BuildRetOK, EmitPlainOK
<1>7. Top.at # "DefineEnd" /\ ~IsLoop(Top)
  BY <1>1 DEF IsLoop
<1> QED
  BY <1>1, <1>2, <1>3, <1>6, <1>7, ReturnKeeps

LEMMA VisitLeafKeeps ==
    ASSUME IInv, VisitLeaf PROVE IInv'
<1> DEFINE sorts == <<>>
<1>1. /\ Enter("leaf", sorts) /\ mir' = Emit(mir, Eval(Top.node))
      /\ Continue(<<>>) /\ mValue' = Top.node
      /\ UNCHANGED <<phase, ret, mCond, mMerge>>
  BY DEF VisitLeaf
<1>2. /\ "leaf" \in StmtKinds \cup ExprKinds
      /\ sorts \in Seq(Sorts) /\ Len(sorts) = 0
  BY DEF ExprKinds
<1> HIDE DEF sorts
<1>3. /\ phase = "gen" /\ Top.at = "Visit" /\ ~IsLoop(Top)
      /\ TreeOK(ast') /\ Len(ast') = Len(ast) + 0
  BY <1>1, <1>2, EnterOK
<1>4. /\ Len(ast) \in Nat \ {0} /\ WellFormed(mir) /\ mir.insert # None
      /\ Len(mir.code) \in Nat /\ Top.node \in 1 .. Len(ast)
  BY <1>3, InHandler DEF FrameType
<1>5. Eval(Top.node) \in Inst /\ Targets(Eval(Top.node)) = {}
  BY <1>4 DEF Eval, Plain, Targets, Inst, InstOps, Terminators, None
<1>6. WellFormed(mir') /\ Len(mir'.code) = Len(mir.code) /\ mir'.insert # None
  BY <1>1, <1>4, <1>5, EmitPlainOK
<1> QED
  BY <1>1, <1>3, <1>4, <1>6, ReturnKeeps

LEMMA VisitLogicKeeps ==
    ASSUME IInv, VisitLogic PROVE IInv'
<1>1. PICK kind \in {"and", "or"} :
        /\ Enter(kind, <<"lhs", "expr">>)
        /\ mir' = NewBlocks(mir, 2)
        /\ Continue(<<First(Top.loop),
                      [Handler("LogicLhs", 2, Top.loop)
                          EXCEPT !.from = mir.insert,
                                 !.alt = Len(mir.code) + 1,
                                 !.merge = Len(mir.code) + 2]>>)
        /\ UNCHANGED <<phase, ret, mValue, mCond, mMerge>>
  BY DEF VisitLogic
<1> DEFINE sorts == <<"lhs", "expr">>
           g == Handler("LogicLhs", 2, Top.loop)
           c == Len(mir.code)
           f == [g EXCEPT !.from = mir.insert, !.alt = c + 1, !.merge = c + 2]
<1>2. /\ kind \in StmtKinds \cup ExprKinds
      /\ sorts \in Seq(Sorts) /\ Len(sorts) = 2
  BY DEF ExprKinds, Sorts
<1>3. Enter(kind, sorts) /\ Continue(<<First(Top.loop), f>>)
  BY <1>1
<1> HIDE DEF sorts
<1>4. /\ phase = "gen" /\ Top.at = "Visit" /\ ~IsLoop(Top)
      /\ TreeOK(ast') /\ Len(ast') = Len(ast) + 2
      /\ NewKids(2) \in Seq(1 .. Len(ast')) /\ Len(NewKids(2)) = 2
  BY <1>2, <1>3, EnterOK
<1>5. /\ Len(ast) \in Nat \ {0} /\ WellFormed(mir) /\ mir.insert # None
      /\ c \in Nat /\ mValue \in 0 .. Len(ast)
      /\ Top \in FrameType(Len(ast), c) /\ Top.loop \in BOOLEAN
  BY <1>4, InHandler DEF FrameType
<1>6. mir.insert \in 1 .. c
  BY <1>5 DEF WellFormed, BodyOK, Blocks
<1>7. WellFormed(mir') /\ Len(mir'.code) = c + 2 /\ mir'.insert # None
  BY <1>1, <1>5, NewBlocksOK
<1> HIDE DEF c
<1>8. Pushed(First(Top.loop), Len(ast'), Len(mir'.code))
  BY <1>4, <1>5, <1>7, FirstOK
<1>9. /\ g \in FrameType(Len(ast'), c + 2)
      /\ g.at = "LogicLhs" /\ g.kids = NewKids(2) /\ g.loop = Top.loop
  <2>1. "LogicLhs" \in Labels
    BY DEF Labels
  <2> QED
    BY <1>4, <1>5, <2>1, HandlerOK
<1> HIDE DEF g
<1>10. /\ f \in FrameType(Len(ast'), c + 2) /\ f.at = "LogicLhs"
       /\ f.kids = NewKids(2) /\ f.loop = Top.loop
       /\ f.from = mir.insert /\ f.alt = c + 1 /\ f.merge = c + 2
  <2>1. mir.insert \in 0 .. c + 2 /\ c + 1 \in 0 .. c + 2 /\ c + 2 \in 0 .. c + 2
    BY <1>5, <1>6
  <2> QED
    BY <1>9, <2>1 DEF FrameType
<1> HIDE DEF f
<1>11. c + 1 # 0 /\ c + 2 # 0
  BY <1>5
<1>12. Pushed(f, Len(ast'), Len(mir'.code))
  BY <1>4, <1>5, <1>7, <1>10, <1>11 DEF Pushed, FrameReady, IsLoop, None
<1>13. /\ Len(ast) <= Len(ast') /\ Len(mir.code) <= Len(mir'.code)
       /\ mValue' \in 0 .. Len(ast')
  BY <1>1, <1>4, <1>5, <1>7 DEF c
<1> QED
  BY <1>1, <1>3, <1>4, <1>7, <1>8, <1>12, <1>13, CallKeeps

LEMMA LogicLhsKeeps ==
    ASSUME IInv, LogicLhs PROVE IInv'
<1> DEFINE n == Len(ast)
           c == Len(mir.code)
           x == LogicTargets(Top)[1]
           y == LogicTargets(Top)[2]
           m1 == BuildBrif(mir, mValue, x, y)
           m2 == SetInsert(AppendBlock(m1, Top.alt), Top.alt)
           f == [Top EXCEPT !.at = "LogicRhs"]
<1>1. /\ phase = "gen" /\ Top.at = "LogicLhs" /\ mir' = m2
      /\ Continue(<<VisitKid(2), f>>)
      /\ UNCHANGED <<phase, ret, ast, mValue, mCond, mMerge>>
  BY DEF LogicLhs, Resume
<1>2. /\ TreeOK(ast) /\ n \in Nat \ {0}
      /\ WellFormed(mir) /\ mir.insert # None /\ c \in Nat
      /\ Top \in FrameType(n, c) /\ FrameReady(Top, c) /\ mValue \in 0 .. n
  BY <1>1, InHandler
<1>3. /\ Top.alt \in Blocks(mir) /\ Top.merge \in Blocks(mir)
      /\ Top.alt # None /\ Top.from # None /\ Len(Top.kids) = 2
  BY <1>1, <1>2 DEF FrameReady, FrameType, Blocks, None
<1>4. x \in Blocks(mir) /\ y \in Blocks(mir)
  BY <1>3 DEF LogicTargets
<1>5. /\ f \in FrameType(n, c) /\ f.at = "LogicRhs" /\ f.kids = Top.kids
      /\ f.loop = Top.loop /\ f.merge = Top.merge /\ f.alt = Top.alt
      /\ f.from = Top.from
  <2>1. "LogicRhs" \in Labels
    BY DEF Labels
  <2>2. f \in FrameType(n, c)
    BY <1>2, <2>1, FrameSet DEF FrameType
  <2> QED
    BY <1>2, <2>2 DEF FrameType
<1> HIDE DEF n, c, f, x, y
<1>6. WellFormed(m1) /\ Len(m1.code) = c /\ m1.insert # None
  <2>1. mValue \in Nat
    BY <1>2
  <2> QED
    BY <1>2, <1>4, <2>1, BuildBrifOK DEF c
<1> HIDE DEF m1
<1>7. WellFormed(m2) /\ Len(m2.code) = c /\ m2.insert # None
  <2>1. Top.alt \in Blocks(m1)
    BY <1>3, <1>6 DEF Blocks, c
  <2> QED
    BY <1>6, <2>1, OpenBlockOK
<1> HIDE DEF m2
<1>8. Pushed(VisitKid(2), n, c)
  <2>1. 2 \in 1 .. Len(Top.kids)
    BY <1>3
  <2> QED
    BY <1>2, <2>1, VisitKidOK
<1>9. Pushed(f, n, c)
  <2>1. Top.merge # None
    BY <1>1, <1>2 DEF FrameReady
  <2> QED
    BY <1>3, <1>5, <2>1 DEF Pushed, FrameReady, IsLoop
<1>10. Top.at # "DefineEnd" /\ ~IsLoop(Top)
  BY <1>1 DEF IsLoop
<1>11. /\ Len(ast') = n /\ Len(mir'.code) = c /\ Len(mir.code) <= Len(mir'.code)
       /\ mValue' \in 0 .. Len(ast') /\ TreeOK(ast') /\ Len(ast) <= Len(ast')
  BY <1>1, <1>2, <1>7 DEF n, c
<1> QED
  BY <1>1, <1>7, <1>8, <1>9, <1>10, <1>11, CallKeeps

LEMMA LogicRhsKeeps ==
    ASSUME IInv, LogicRhs PROVE IInv'
<1> DEFINE c == Len(mir.code)
           b == Top.merge
           short == ast[Top.node].kind = "or"
           phi == Phi(Top.node, short, LogicPairs(Top))
           m1 == BuildJmp(mir, b)
           m2 == SetInsert(AppendBlock(m1, b), b)
           m3 == Emit(m2, phi)
<1>1. /\ phase = "gen" /\ Top.at = "LogicRhs" /\ mir' = m3
      /\ mValue' = Top.node /\ Continue(<<>>)
      /\ UNCHANGED <<phase, ret, ast, mCond, mMerge>>
  BY DEF LogicRhs, Resume
<1>2. /\ TreeOK(ast) /\ Len(ast) \in Nat \ {0}
      /\ WellFormed(mir) /\ mir.insert # None /\ c \in Nat
      /\ Top \in FrameType(Len(ast), c) /\ FrameReady(Top, c)
      /\ mValue \in 0 .. Len(ast)
  BY <1>1, InHandler
<1>3. /\ b \in Blocks(mir) /\ Top.node \in 1 .. Len(ast) /\ Top.from \in 0 .. c
  BY <1>1, <1>2 DEF FrameReady, FrameType, Blocks, None
<1>4. mir.insert \in Nat
  BY <1>2 DEF WellFormed, BodyOK, BodyType
<1>5. LogicPairs(Top) \in SUBSET [blk : Nat, src : Nat]
  BY <1>2, <1>3, <1>4 DEF LogicPairs
<1>6. phi \in Inst /\ Targets(phi) = {}
  <2>1. short \in BOOLEAN /\ Top.node \in Nat
    BY <1>2, <1>3
  <2> HIDE DEF short
  <2>2. phi \in Inst
    BY <1>5, <2>1, InstTypes
  <2>3. Targets(phi) = {}
    BY DEF Phi, Plain, Targets, None
  <2> QED
    BY <2>2, <2>3
<1> HIDE DEF b, phi
<1>7. WellFormed(m1) /\ Len(m1.code) = c /\ m1.insert # None
  BY <1>2, <1>3, BuildJmpOK
<1> HIDE DEF m1
<1>8. WellFormed(m2) /\ Len(m2.code) = c /\ m2.insert # None
  <2>1. b \in Blocks(m1)
    BY <1>3, <1>7 DEF Blocks
  <2> QED
    BY <1>7, <2>1, OpenBlockOK
<1> HIDE DEF m2
<1>9. WellFormed(m3) /\ Len(m3.code) = c /\ m3.insert # None
  BY <1>6, <1>8, EmitPlainOK
<1> HIDE DEF m3
<1>10. Top.at # "DefineEnd" /\ ~IsLoop(Top)
  BY <1>1 DEF IsLoop
<1>11. /\ Len(mir.code) <= Len(mir'.code) /\ mValue' \in 0 .. Len(ast')
       /\ TreeOK(ast') /\ Len(ast) <= Len(ast')
  BY <1>1, <1>2, <1>3, <1>9
<1> QED
  BY <1>1, <1>9, <1>10, <1>11, ReturnKeeps

LEMMA VisitUntilKeeps ==
    ASSUME IInv, VisitUntil PROVE IInv'
<1> DEFINE c == Len(mir.code)
           e == c + 3
           sorts == <<"expr", "stmt">>
           m1 == NewBlocks(mir, 3)
           m2 == AppendBlock(m1, c + 1)
           m3 == BuildJmp(m2, c + 1)
           m4 == SetInsert(m3, c + 1)
           yes == TRUE
           g == Handler("UntilBranch", 2, yes)
           f == [g EXCEPT !.merge = c + 3, !.alt = c + 2, !.from = c + 1,
                          !.oldCond = mCond, !.oldMerge = mMerge]
           t == Tail(stack)
           v == First(yes)
           fs == <<v, f>>
<1>1. /\ Enter("until", sorts) /\ mir' = m4
      /\ mCond' = c + 1 /\ mMerge' = c + 3 /\ Continue(fs)
      /\ UNCHANGED <<phase, ret, mValue>>
  BY DEF VisitUntil
<1>2. /\ "until" \in StmtKinds \cup ExprKinds
      /\ sorts \in Seq(Sorts) /\ Len(sorts) = 2
  BY DEF StmtKinds, Sorts
<1>20. yes \in BOOLEAN
  OBVIOUS
<1> HIDE DEF sorts, yes
<1>3. /\ phase = "gen" /\ Top.at = "Visit" /\ ~IsLoop(Top)
      /\ TreeOK(ast') /\ Len(ast') = Len(ast) + 2
      /\ NewKids(2) \in Seq(1 .. Len(ast')) /\ Len(NewKids(2)) = 2
  BY <1>1, <1>2, EnterOK
<1>4. /\ Len(ast) \in Nat \ {0} /\ WellFormed(mir) /\ mir.insert # None
      /\ c \in Nat /\ mValue \in 0 .. Len(ast)
      /\ Top \in FrameType(Len(ast), c)
      /\ StackOK(stack, Len(ast), c) /\ stack # <<>>
      /\ LoopsOK(stack, mCond, mMerge)
      /\ mCond \in 0 .. c /\ mMerge \in 0 .. c
  BY <1>3, InHandler
<1>5. /\ e \in Nat /\ c <= e /\ c + 1 \in 1 .. e /\ c + 2 \in 1 .. e
      /\ c + 3 \in 1 .. e /\ mCond \in 0 .. e /\ mMerge \in 0 .. e
  BY <1>4
<1>6. WellFormed(m1) /\ Len(m1.code) = e /\ m1.insert # None
  BY <1>4, NewBlocksOK
<1> HIDE DEF e, m1
<1>7. WellFormed(m2) /\ Len(m2.code) = e /\ m2.insert # None
  BY <1>5, <1>6, AppendBlockOK DEF Blocks
<1> HIDE DEF m2
<1>8. WellFormed(m3) /\ Len(m3.code) = e /\ m3.insert # None
  BY <1>5, <1>7, BuildJmpOK DEF Blocks
<1> HIDE DEF m3
<1>9. WellFormed(m4) /\ Len(m4.code) = e /\ m4.insert # None
  <2>1. c + 1 \in Blocks(m3) /\ c + 1 # None
    BY <1>5, <1>8 DEF Blocks, None
  <2> QED
    BY <1>8, <2>1, SetInsertOK
<1> HIDE DEF m4
<1>10. /\ g \in FrameType(Len(ast'), e)
       /\ g.at = "UntilBranch" /\ g.kids = NewKids(2) /\ g.loop = yes
  <2>1. "UntilBranch" \in Labels
    BY DEF Labels
  <2> DEFINE n == Len(ast)
             n2 == Len(ast')
  <2>2. /\ n \in Nat /\ n2 \in Nat /\ n <= n2 /\ c \in Nat /\ e \in Nat
        /\ Top \in FrameType(n, c) /\ NewKids(2) \in Seq(1 .. n2) /\ 2 \in Nat
    BY <1>3, <1>4, <1>5
  <2> HIDE DEF n, n2, c
  <2>3. g \in FrameType(n2, e)
    BY <1>20, <2>1, <2>2, HandlerOK
  <2>4. g.at = "UntilBranch" /\ g.kids = NewKids(2) /\ g.loop = yes
    BY <1>20, <2>1, <2>2, HandlerOK
  <2> QED
    BY <2>3, <2>4 DEF n2
<1> HIDE DEF g
<1>11. /\ f \in FrameType(Len(ast'), e) /\ f.at = "UntilBranch"
       /\ f.kids = NewKids(2) /\ f.from = c + 1 /\ f.alt = c + 2
       /\ f.merge = c + 3 /\ f.oldCond = mCond /\ f.oldMerge = mMerge
  <2>1. c + 1 \in 0 .. e /\ c + 2 \in 0 .. e /\ c + 3 \in 0 .. e
    BY <1>5
  <2> QED
    BY <1>5, <1>10, <2>1 DEF FrameType
<1>12. FrameReady(f, e) /\ IsLoop(f)
  <2>1. f.merge # None /\ f.alt # None /\ f.from # None
    BY <1>5, <1>11 DEF None
  <2> HIDE DEF f
  <2> QED
    BY <1>3, <1>11, <2>1 DEF FrameReady, IsLoop
<1>13. /\ v \in FrameType(Len(ast'), e) /\ FrameReady(v, e)
       /\ v.at = "Visit" /\ ~IsLoop(v)
  <2>1. Len(ast) + 1 \in 1 .. Len(ast')
    BY <1>3, <1>4
  <2> QED
    BY <1>3, <1>4, <1>5, <1>20, <2>1, VisitOK DEF First
<1> HIDE DEF f, v
<1>14. StackOK(t, Len(ast'), e) /\ LoopsOK(t, f.oldCond, f.oldMerge)
  <2>1. StackOK(t, Len(ast), c)
    BY <1>4, StackParts
  <2>2. LoopsOK(t, mCond, mMerge)
    BY <1>3, <1>4, PopPlain DEF Top
  <2> HIDE DEF t
  <2>3. Len(ast') \in Nat /\ Len(ast) <= Len(ast')
    BY <1>3, <1>4
  <2> QED
    BY <1>4, <1>5, <1>11, <2>1, <2>2, <2>3, StackGrows
<1>15. StackOK(fs, Len(ast'), e) /\ LoopsOK(fs \o t, f.from, f.merge)
  BY <1>11, <1>12, <1>13, <1>14, CallFromLoop
<1>16. \A i \in 1 .. Len(fs) : fs[i].at # "DefineEnd"
  BY <1>11, <1>13
<1>17. /\ Len(mir'.code) = e /\ WellFormed(mir') /\ mir'.insert # None
       /\ mCond' = f.from /\ mMerge' = f.merge
       /\ Len(mir.code) <= Len(mir'.code) /\ Len(ast) <= Len(ast')
       /\ mValue' \in 0 .. Len(ast')
  BY <1>1, <1>3, <1>4, <1>5, <1>9, <1>11
<1>18. mCond' \in 0 .. Len(mir'.code) /\ mMerge' \in 0 .. Len(mir'.code)
  BY <1>5, <1>11, <1>17
<1> HIDE DEF fs
<1>19. LoopsOK(fs \o Tail(stack), mCond', mMerge')
  BY <1>15, <1>17
<1> QED
  BY <1>1, <1>3, <1>15, <1>16, <1>17, <1>18, <1>19, Keeps

LEMMA UntilBranchKeeps ==
    ASSUME IInv, UntilBranch PROVE IInv'
<1> DEFINE n == Len(ast)
           c == Len(mir.code)
           m1 == BuildBrif(mir, mValue, Top.merge, Top.alt)
           m2 == SetInsert(AppendBlock(m1, Top.alt), Top.alt)
           f == [Top EXCEPT !.at = "UntilBodyEnd"]
           t == Tail(stack)
           v == VisitKid(2)
           fs == <<v, f>>
<1>1. /\ phase = "gen" /\ Top.at = "UntilBranch" /\ mir' = m2
      /\ Continue(fs)
      /\ UNCHANGED <<phase, ret, ast, mValue, mCond, mMerge>>
  BY DEF UntilBranch, Resume
<1>2. /\ TreeOK(ast) /\ n \in Nat \ {0}
      /\ WellFormed(mir) /\ mir.insert # None /\ c \in Nat
      /\ Top \in FrameType(n, c) /\ FrameReady(Top, c) /\ mValue \in 0 .. n
      /\ StackOK(stack, n, c) /\ stack # <<>>
      /\ LoopsOK(stack, mCond, mMerge)
      /\ mCond \in 0 .. c /\ mMerge \in 0 .. c
  BY <1>1, InHandler
<1>3. /\ Top.alt \in Blocks(mir) /\ Top.merge \in Blocks(mir)
      /\ Top.alt # None /\ Top.merge # None /\ Top.from # None
      /\ Len(Top.kids) = 2
  BY <1>1, <1>2 DEF FrameReady, FrameType, Blocks, None
<1>4. /\ f \in FrameType(n, c) /\ f.at = "UntilBodyEnd" /\ f.kids = Top.kids
      /\ f.merge = Top.merge /\ f.alt = Top.alt /\ f.from = Top.from
      /\ f.oldCond = Top.oldCond /\ f.oldMerge = Top.oldMerge
  <2>1. "UntilBodyEnd" \in Labels
    BY DEF Labels
  <2>2. f \in FrameType(n, c)
    BY <1>2, <2>1, FrameSet DEF FrameType
  <2> QED
    BY <1>2, <2>2 DEF FrameType
<1> HIDE DEF n, c, f
<1>5. WellFormed(m1) /\ Len(m1.code) = c /\ m1.insert # None
  <2>1. mValue \in Nat
    BY <1>2
  <2> QED
    BY <1>2, <1>3, <2>1, BuildBrifOK DEF c
<1> HIDE DEF m1
<1>6. WellFormed(m2) /\ Len(m2.code) = c /\ m2.insert # None
  <2>1. Top.alt \in Blocks(m1)
    BY <1>3, <1>5 DEF Blocks, c
  <2> QED
    BY <1>5, <2>1, OpenBlockOK
<1> HIDE DEF m2
<1>7. /\ v \in FrameType(n, c) /\ FrameReady(v, c)
      /\ v.at = "Visit" /\ ~IsLoop(v)
  <2>1. 2 \in 1 .. Len(Top.kids)
    BY <1>3
  <2>2. Top.kids[2] \in 1 .. n /\ Top.loop \in BOOLEAN
    BY <1>2, <2>1 DEF FrameType
  <2> QED
    BY <1>2, <2>2, VisitOK DEF VisitKid
<1> HIDE DEF v
<1>8. FrameReady(f, c) /\ IsLoop(f) /\ IsLoop(Top)
  BY <1>1, <1>3, <1>4 DEF FrameReady, IsLoop
<1>9. mCond = f.from /\ mMerge = f.merge
  BY <1>2, <1>4, <1>8, TopLoop DEF Top
<1>10. StackOK(t, n, c) /\ LoopsOK(t, f.oldCond, f.oldMerge)
  <2>1. StackOK(t, n, c)
    BY <1>2, StackParts
  <2>2. LoopsOK(t, Top.oldCond, Top.oldMerge)
    BY <1>2, <1>8, PopLoop DEF Top
  <2> QED
    BY <1>4, <2>1, <2>2
<1>11. StackOK(fs, n, c) /\ LoopsOK(fs \o t, f.from, f.merge)
  BY <1>4, <1>7, <1>8, <1>10, CallFromLoop
<1>12. \A i \in 1 .. Len(fs) : fs[i].at # "DefineEnd"
  BY <1>4, <1>7
<1>13. /\ Len(mir'.code) = c /\ WellFormed(mir') /\ mir'.insert # None
       /\ Len(ast') = n /\ TreeOK(ast') /\ Len(ast) <= Len(ast')
       /\ mValue' \in 0 .. Len(ast') /\ Len(mir.code) <= Len(mir'.code)
       /\ mCond' \in 0 .. Len(mir'.code) /\ mMerge' \in 0 .. Len(mir'.code)
  BY <1>1, <1>2, <1>6 DEF n, c
<1> HIDE DEF fs
<1>14. LoopsOK(fs \o Tail(stack), mCond', mMerge')
  BY <1>1, <1>9, <1>11
<1>15. Top.at # "DefineEnd" /\ phase' = "gen"
  BY <1>1
<1> QED
  BY <1>1, <1>11, <1>12, <1>13, <1>14, <1>15, Keeps

LEMMA UntilBodyEndKeeps ==
    ASSUME IInv, UntilBodyEnd PROVE IInv'
<1> DEFINE n == Len(ast)
           c == Len(mir.code)
           m1 == JmpIfOpen(mir, Top.from)
           t == Tail(stack)
           fs == <<>>
<1>1. /\ phase = "gen" /\ Top.at = "UntilBodyEnd"
      /\ mir' = IF HasPreds(m1, Top.merge)
                THEN SetInsert(AppendBlock(m1, Top.merge), Top.merge)
                ELSE m1
      /\ mCond' = Top.oldCond /\ mMerge' = Top.oldMerge
      /\ Continue(fs)
      /\ UNCHANGED <<phase, ret, ast, mValue>>
  BY DEF UntilBodyEnd, Resume, LoopBack, LeaveLoop
<1>2. /\ TreeOK(ast) /\ n \in Nat \ {0}
      /\ WellFormed(mir) /\ mir.insert # None /\ c \in Nat
      /\ Top \in FrameType(n, c) /\ FrameReady(Top, c) /\ mValue \in 0 .. n
      /\ StackOK(stack, n, c) /\ stack # <<>>
      /\ LoopsOK(stack, mCond, mMerge)
  BY <1>1, InHandler
<1>3. /\ Top.from \in Blocks(mir) /\ Top.merge \in Blocks(mir)
      /\ Top.oldCond \in 0 .. c /\ Top.oldMerge \in 0 .. c
  BY <1>1, <1>2 DEF FrameReady, FrameType, Blocks, None
<1>4. WellFormed(m1) /\ Len(m1.code) = c /\ m1.insert # None
  BY <1>2, <1>3, JmpIfOpenOK
<1> HIDE DEF m1
<1>5. WellFormed(mir') /\ Len(mir'.code) = c /\ mir'.insert # None
  <2>1. Top.merge \in Blocks(m1)
    BY <1>3, <1>4 DEF Blocks
  <2>2. CASE HasPreds(m1, Top.merge)
    BY <1>1, <1>4, <2>1, <2>2, OpenBlockOK
  <2>3. CASE ~HasPreds(m1, Top.merge)
    BY <1>1, <1>4, <2>3
  <2> QED
    BY <2>2, <2>3
<1>6. IsLoop(Top)
  BY <1>1 DEF IsLoop
<1>7. LoopsOK(t, mCond', mMerge')
  BY <1>1, <1>2, <1>6, PopLoop DEF Top
<1>8. StackOK(t, n, c)
  BY <1>2, StackParts
<1>9. fs \o t = t
  BY <1>8 DEF StackOK
<1>10. StackOK(fs, n, c) /\ \A i \in 1 .. Len(fs) : fs[i].at # "DefineEnd"
  BY DEF StackOK
<1> HIDE DEF n, c, fs
<1>11. /\ Len(mir'.code) = c /\ Len(ast') = n
       /\ TreeOK(ast') /\ Len(ast) <= Len(ast')
       /\ mValue' \in 0 .. Len(ast') /\ Len(mir.code) <= Len(mir'.code)
       /\ mCond' \in 0 .. Len(mir'.code) /\ mMerge' \in 0 .. Len(mir'.code)
  BY <1>1, <1>2, <1>3, <1>5 DEF n, c
<1>12. LoopsOK(fs \o Tail(stack), mCond', mMerge')
  BY <1>7, <1>9
<1>13. Top.at # "DefineEnd" /\ phase' = "gen"
  BY <1>1
<1> QED
  BY <1>1, <1>5, <1>10, <1>11, <1>12, <1>13, Keeps

LEMMA DefineFunctionKeeps ==
    ASSUME IInv, DefineFunction PROVE IInv'
<1> DEFINE n == Len(ast)
           c == Len(mir.code)
           m1 == NewBlocks(mir, 1)
           m2 == SetInsert(AppendBlock(m1, 1), 1)
           no == FALSE
           v == Visit(1, no)
           f == Frame("DefineEnd", 1, <<>>, no)
           s == <<v, f>>
<1>1. /\ phase = "start" /\ phase' = "gen" /\ mir' = m2 /\ stack' = s
      /\ UNCHANGED <<ret, ast, mValue, mCond, mMerge>>
  BY DEF DefineFunction
<1>2. /\ ret \in RetKinds /\ TreeOK(ast) /\ n \in Nat \ {0} /\ WellFormed(mir)
      /\ stack = <<>> /\ mValue \in 0 .. n
  BY <1>1 DEF IInv, TypeOK, TreeOK, EdgesMirror, WellFormed
<1>3. c \in Nat
  BY <1>2 DEF WellFormed, BodyOK, BodyType
<1>4. mCond = None /\ mMerge = None
  <2>1. Enclosing(stack, 0, mCond, mMerge)
    BY DEF IInv, LoopContext
  <2> QED
    BY <1>2, <2>1 DEF Enclosing
<1>5. no \in BOOLEAN
  OBVIOUS
<1>6. ~no
  OBVIOUS
<1> DEFINE e == c + 1
<1>7. e \in Nat /\ 1 \in 1 .. e /\ None \in 0 .. e
  BY <1>3 DEF None
<1>8. WellFormed(m1) /\ Len(m1.code) = e
  BY <1>2, NewBlocksOK
<1> HIDE DEF m1, e, no, c
<1>9. WellFormed(m2) /\ Len(m2.code) = e /\ m2.insert # None
  <2>1. 1 \in Blocks(m1)
    BY <1>7, <1>8 DEF Blocks
  <2> QED
    BY <1>8, <2>1, OpenBlockOK
<1> HIDE DEF m2
<1>10. /\ v \in FrameType(n, e) /\ FrameReady(v, e)
       /\ v.at = "Visit" /\ v.loop = no /\ ~IsLoop(v)
  BY <1>2, <1>5, <1>7, VisitOK
<1>11. /\ f \in FrameType(n, e) /\ FrameReady(f, e)
       /\ f.at = "DefineEnd" /\ f.loop = no /\ ~IsLoop(f)
  <2>1. <<>> \in Seq(1 .. n) /\ 1 \in 1 .. n /\ "DefineEnd" \in Labels
    BY <1>2 DEF Labels
  <2>2. f \in FrameType(n, e)
    BY <1>5, <1>7, <2>1 DEF Frame, FrameType
  <2> QED
    BY <2>2 DEF Frame, FrameReady, IsLoop
<1> HIDE DEF v, f, n
<1>12. StackOK(s, n, e)
  BY <1>10, <1>11, ShortStacks
<1>13. Len(s) = 2 /\ s[1] = v /\ s[2] = f /\ s # <<>>
  OBVIOUS
<1> HIDE DEF s
<1>14. LoopsOK(s, None, None)
  <2>1. \A j \in 1 .. Len(s) : ~s[j].loop /\ ~IsLoop(s[j])
    BY <1>6, <1>10, <1>11, <1>13
  <2>2. InsideLoop(s)
    BY <2>1 DEF InsideLoop
  <2>3. SavedLoops(s)
    BY <2>1 DEF SavedLoops
  <2>4. \A k \in 0 + 1 .. Len(s) : ~IsLoop(s[k])
    BY <2>1
  <2>5. Enclosing(s, 0, None, None)
    BY <2>4 DEF Enclosing
  <2> QED
    BY <2>2, <2>3, <2>5 DEF LoopsOK
<1>15. TypeOK'
  <2>1. BodyOK(mir') /\ Len(mir'.code) = e /\ mir'.insert # None
    BY <1>1, <1>9 DEF WellFormed
  <2>2. mCond' \in 0 .. Len(mir'.code) /\ mMerge' \in 0 .. Len(mir'.code)
    BY <1>1, <1>4, <1>7, <2>1
  <2>3. /\ stack' \in Seq(FrameType(Len(ast'), Len(mir'.code)))
        /\ \A j \in 1 .. Len(stack') : FrameReady(stack'[j], Len(mir'.code))
    BY <1>1, <1>12, <2>1 DEF StackOK, n
  <2> QED
    BY <1>1, <1>2, <1>13, <2>1, <2>2, <2>3 DEF TypeOK, TreeOK, n
<1>16. EdgesMirror'
  BY <1>1, <1>9 DEF EdgesMirror, WellFormed
<1>17. LoopContext'
  BY <1>1, <1>4, <1>14 DEF LoopContext, LoopsOK
<1>18. Bottom'
  BY <1>1, <1>10, <1>11, <1>13 DEF Bottom
<1> QED
  BY <1>15, <1>16, <1>17, <1>18 DEF IInv

LEMMA DefineEndKeeps ==
    ASSUME IInv, DefineEnd PROVE IInv'
<1> DEFINE n == Len(ast)
           c == Len(mir.code)
           t == Tail(stack)
<1>1. /\ phase = "gen" /\ Top.at = "DefineEnd" /\ phase' \in {"done", "fatal"}
      /\ mir' = mir \/ mir' = BuildRet(mir, 0)
      /\ stack' = <<>> \o t
      /\ UNCHANGED <<ret, ast, mValue, mCond, mMerge>>
  BY DEF DefineEnd, Resume, Continue
<1>2. /\ ret \in RetKinds /\ TreeOK(ast) /\ n \in Nat \ {0}
      /\ WellFormed(mir) /\ mir.insert # None /\ c \in Nat
      /\ Top \in FrameType(n, c) /\ mValue \in 0 .. n
      /\ StackOK(stack, n, c) /\ stack # <<>>
      /\ LoopsOK(stack, mCond, mMerge)
      /\ mCond \in 0 .. c /\ mMerge \in 0 .. c
  BY <1>1, InHandler
<1>3. /\ StackOK(t, n, c) /\ Len(stack) \in Nat \ {0}
      /\ Len(t) = Len(stack) - 1 /\ Top = stack[1]
  BY <1>2, StackParts DEF Top
<1>4. Len(t) = 0
  <2> DEFINE l == Len(stack)
  <2>1. /\ l \in Nat \ {0} /\ Len(t) = l - 1 /\ stack[1].at = "DefineEnd"
        /\ \A j \in 1 .. l : stack[j].at = "DefineEnd" <=> j = l
    BY <1>1, <1>3 DEF IInv, Bottom
  <2> HIDE DEF l, t
  <2>2. 1 \in 1 .. l
    BY <2>1
  <2>3. l = 1
    BY <2>1, <2>2
  <2> QED
    BY <2>1, <2>3
<1>5. stack' = <<>>
  <2>1. t \in Seq(FrameType(n, c))
    BY <1>3 DEF StackOK
  <2> HIDE DEF t, n, c
  <2> QED
    BY <1>1, <1>4, <2>1
<1>6. LoopsOK(t, mCond, mMerge)
  BY <1>1, <1>2, PopPlain DEF Top, IsLoop
<1>7. t = <<>>
  <2>1. t \in Seq(FrameType(n, c))
    BY <1>3 DEF StackOK
  <2> HIDE DEF t, n, c
  <2> QED
    BY <1>4, <2>1
<1>8. LoopsOK(stack', mCond', mMerge')
  BY <1>1, <1>5, <1>6, <1>7
<1>9. WellFormed(mir') /\ Len(mir'.code) = c /\ mir'.insert # None
  BY <1>1, <1>2, BuildRetOK
<1>10. TypeOK'
  <2>1. mCond' \in 0 .. Len(mir'.code) /\ mMerge' \in 0 .. Len(mir'.code)
    BY <1>1, <1>2, <1>9
  <2>2. /\ stack' \in Seq(FrameType(Len(ast'), Len(mir'.code)))
        /\ \A j \in 1 .. Len(stack') : FrameReady(stack'[j], Len(mir'.code))
    BY <1>5
  <2>3. phase' = "gen" <=> stack' # <<>>
    BY <1>1, <1>5
  <2> QED
    BY <1>1, <1>2, <1>9, <2>1, <2>2, <2>3 DEF TypeOK, TreeOK, WellFormed
<1>11. EdgesMirror'
  BY <1>9 DEF EdgesMirror, WellFormed
<1>12. LoopContext'
  BY <1>8 DEF LoopContext, LoopsOK
<1>13. Bottom'
  BY <1>5 DEF Bottom
<1> QED
  BY <1>10, <1>11, <1>12, <1>13 DEF IInv

-----------------------------------------------------------------------------
(* The theorems.                                                           *)

\* Nothing is generated, nothing can be wrong.
LEMMA InitIInv ==
    ASSUME Init PROVE IInv
<1>1. BodyOK(EmptyBody) /\ Mirror(EmptyBody)
  BY DEF EmptyBody, BodyOK, BodyType, Mirror, Blocks, None
<1>2. TreeOK(ast) /\ Len(ast) = 1
  <2> DEFINE x == Undecided("stmt")
  <2>1. x \in NodeType(1)
    BY DEF Undecided, NodeType, Sorts
  <2>2. ast = <<x>>
    BY DEF Init
  <2> HIDE DEF x
  <2>3. Len(ast) = 1 /\ ast \in Seq(NodeType(1))
    BY <2>1, <2>2
  <2> QED
    BY <2>3, BoundsAssumption DEF TreeOK
<1>3. TypeOK
  <2>1. /\ stack = <<>> /\ mir = EmptyBody /\ mValue = 0 /\ phase = "start"
        /\ ret \in RetKinds /\ mCond = 0 /\ mMerge = 0
    BY DEF Init, None
  <2>2. Len(mir.code) = 0
    BY <2>1 DEF EmptyBody
  <2> QED
    BY <1>1, <1>2, <2>1, <2>2 DEF TypeOK, TreeOK
<1>4. EdgesMirror
  BY <1>1 DEF Init, EdgesMirror
<1>5. LoopContext
  <2>1. stack = <<>> /\ mCond = None /\ mMerge = None
    BY DEF Init
  <2>2. \A k \in 0 + 1 .. Len(stack) : ~IsLoop(stack[k])
    BY <2>1
  <2>3. Enclosing(stack, 0, mCond, mMerge)
    BY <2>1, <2>2 DEF Enclosing
  <2>4. InsideLoop(stack) /\ SavedLoops(stack)
    BY <2>1 DEF InsideLoop, SavedLoops
  <2> QED
    BY <2>3, <2>4 DEF LoopContext
<1>6. Bottom
  BY DEF Init, Bottom
<1> QED
  BY <1>3, <1>4, <1>5, <1>6 DEF IInv

\* A match that is rejected leaves everything where it is.
LEMMA UnsupportedKeeps ==
    ASSUME IInv, MatchUnsupported PROVE IInv'
<1>1. /\ phase' = "fatal" /\ ret' = ret /\ ast' = ast /\ stack' = stack
      /\ mir' = mir /\ mValue' = mValue /\ mCond' = mCond /\ mMerge' = mMerge
      /\ phase = "gen"
  BY DEF MatchUnsupported, Resume
<1>2. TypeOK'
  BY <1>1 DEF IInv, TypeOK
<1>3. EdgesMirror'
  BY <1>1 DEF IInv, EdgesMirror
<1>4. LoopContext'
  BY <1>1 DEF IInv, LoopContext
<1>5. Bottom'
  BY <1>1 DEF IInv, Bottom
<1> QED
  BY <1>2, <1>3, <1>4, <1>5 DEF IInv

\* Every step keeps the invariant.
LEMMA NextIInv ==
    ASSUME IInv, [Next]_cgnVars PROVE IInv'
<1>1. CASE UNCHANGED cgnVars
  <2>1. /\ phase' = phase /\ ret' = ret /\ ast' = ast /\ stack' = stack
        /\ mir' = mir /\ mValue' = mValue /\ mCond' = mCond /\ mMerge' = mMerge
    BY <1>1 DEF cgnVars
  <2>2. TypeOK'
    BY <2>1 DEF IInv, TypeOK
  <2>3. EdgesMirror'
    BY <2>1 DEF IInv, EdgesMirror
  <2>4. LoopContext'
    BY <2>1 DEF IInv, LoopContext
  <2>5. Bottom'
    BY <2>1 DEF IInv, Bottom
  <2> QED
    BY <2>2, <2>3, <2>4, <2>5 DEF IInv
<1>2. CASE Generate
  <2>1. CASE DefineFunction \/ DefineEnd
    BY <2>1, DefineFunctionKeeps, DefineEndKeeps
  <2>2. CASE VisitCompound \/ VisitExprStmt \/ VisitBreak \/ VisitContinue
    BY <2>2, VisitCompoundKeeps, VisitExprStmtKeeps, JumpsKeep
  <2>3. CASE VisitIf \/ IfBranch \/ IfThenEnd \/ IfElseEnd
    BY <2>3, VisitIfKeeps, IfBranchKeeps, IfThenEndKeeps, LastArmKeeps
  <2>4. CASE \/ VisitMatch \/ MatchChains \/ MatchCompare \/ MatchCaseEnd
             \/ MatchDefaultEnd \/ MatchUnsupported
    BY <2>4, VisitMatchKeeps, MatchChainsKeeps, MatchCompareKeeps,
       MatchCaseEndKeeps, LastArmKeeps, UnsupportedKeeps
  <2>5. CASE VisitRetVoid \/ VisitRet \/ RetValue
    BY <2>5, VisitRetVoidKeeps, VisitRetKeeps, ResultKeeps
  <2>6. CASE VisitUntil \/ UntilBranch \/ UntilBodyEnd
    BY <2>6, VisitUntilKeeps, UntilBranchKeeps, UntilBodyEndKeeps
  <2>7. CASE VisitLeaf \/ VisitOp \/ OpEnd
    BY <2>7, VisitLeafKeeps, VisitOpKeeps, ResultKeeps
  <2>8. CASE VisitLogic \/ LogicLhs \/ LogicRhs
    BY <2>8, VisitLogicKeeps, LogicLhsKeeps, LogicRhsKeeps
  <2> QED
    BY <1>2, <2>1, <2>2, <2>3, <2>4, <2>5, <2>6, <2>7, <2>8 DEF Generate
<1> QED
  BY <1>1, <1>2 DEF Next, Finished

\* The inductive invariant holds in every state of code generation.
THEOREM Invariance == Spec => []IInv
<1>1. Init => IInv
  BY InitIInv
<1>2. IInv /\ [Next]_cgnVars => IInv'
  BY NextIInv
<1> QED
  BY <1>1, <1>2, PTL DEF Spec

\* Every handler finds the blocks and the operands that it left for itself
\* before it called accept(), whatever was generated in between.
THEOREM TypeCorrect == Spec => []TypeOK
<1>1. IInv => TypeOK
  BY DEF IInv
<1> QED
  BY <1>1, Invariance, PTL

\* The predecessor and successor lists of every block always say exactly
\* what the terminators say: has_preds() can be trusted.
THEOREM EdgesMirrored == Spec => []EdgesMirror
<1>1. IInv => EdgesMirror
  BY DEF IInv
<1> QED
  BY <1>1, Invariance, PTL

\* m_Cond and m_Merge always are the blocks of the innermost loop, across
\* any nesting of loops in branches and cases.
THEOREM LoopsTracked == Spec => []LoopContext
<1>1. IInv => LoopContext
  BY DEF IInv
<1> QED
  BY <1>1, Invariance, PTL

-----------------------------------------------------------------------------
(* Who owns the basic blocks while CGN runs.  A block that a handler has   *)
(* allocated belongs to the handler until it is appended to the function   *)
(* or deleted; no two handlers own the same one, and no block has no       *)
(* owner.  From that follows what the finished function promises: no       *)
(* branch leads out of it, no block is lost or listed twice, every block   *)
(* ends, no block is its own successor and every phi has one entry for     *)
(* each predecessor.                                                       *)

\* The blocks that the handler of frame f owns.
Pending(f) ==
    CASE f.at = "IfThenEnd" /\ HasElse(f.kids) -> {f.merge, f.alt}
      [] f.at = "IfThenEnd" /\ ~HasElse(f.kids) -> {f.merge}
      [] f.at \in {"IfElseEnd", "MatchDefaultEnd", "UntilBodyEnd", "LogicRhs"} ->
           {f.merge}
      [] f.at \in {"UntilBranch", "LogicLhs"} -> {f.merge, f.alt}
      [] f.at \in {"MatchCompare", "MatchCaseEnd"} ->
           {f.merge, f.alt} \cup (f.alt + f.i + 1 .. f.alt + Cases(f.kids))
      [] OTHER -> {}

PendingIn(s, b) == \E j \in 1 .. Len(s) : b \in Pending(s[j])

Apart(s) ==
    \A i, j \in 1 .. Len(s) : i # j => Pending(s[i]) \cap Pending(s[j]) = {}

\* Every block is in the function once, deleted, or owned by one handler.
Owned(s, m) ==
    /\ Apart(s)
    /\ \A b : PendingIn(s, b) =>
                  b \in Blocks(m) /\ ~InLayout(m, b) /\ b \notin m.freed
    /\ \A b \in Blocks(m) : InLayout(m, b) \/ b \in m.freed \/ PendingIn(s, b)
    /\ \A b \in m.freed : ~InLayout(m, b) /\ m.preds[b] = {}
    /\ \A i, j \in 1 .. Len(m.layout) : m.layout[i] = m.layout[j] => i = j

-----------------------------------------------------------------------------
\* What the handlers rely on besides: which of their blocks differ, that the
\* block a loop returns to has been left, that the merge block of a loop is
\* used.
FrameFits(f, m, a) ==
    /\ f.at = "IfThenEnd" /\ HasElse(f.kids) => f.alt # f.merge
    /\ f.at \in {"MatchCompare", "MatchCaseEnd"} =>
           f.alt = IF HasDefault(f.kids) THEN f.merge + 1 ELSE f.merge
    /\ f.at \in {"UntilBranch", "LogicLhs"} => f.alt # f.merge
    /\ f.at = "LogicLhs" => a[f.kids[2]].sort = "expr"
    /\ IsLoop(f) => InLayout(m, f.from)
    /\ f.at = "UntilBodyEnd" => f.from # m.insert /\ m.preds[f.merge] # {}

\* The handler of an expression, or of a left operand of && and || where no
\* such operand is an && or || itself.
ExprFrame(f, a) == \/ f.at \in {"OpEnd", "LogicLhs", "LogicRhs"}
                   \/ f.at = "Visit" /\ a[f.node].sort # "stmt"

LhsFrame(f, a) == \/ f.at = "OpEnd"
                  \/ f.at = "Visit" /\ a[f.node].sort = "lhs"

LhsPlain == LhsKinds \subseteq {"leaf", "op"}

\* No statement is lowered within the condition of a loop.
Nested(s, a) ==
    \A i, j \in 1 .. Len(s) :
        i < j /\ s[j].at = "UntilBranch" => ExprFrame(s[i], a)

SealedBody(m) ==
    \A i \in 1 .. Len(m.layout) :
        m.layout[i] # m.insert => HasTerminator(m, m.layout[i])

NoSelf(m) == \A b \in Blocks(m) : b \notin m.preds[b]

Built(s, m, a) ==
    /\ Owned(s, m)
    /\ \A j \in 1 .. Len(s) : FrameFits(s[j], m, a)
    /\ Nested(s, a)
    /\ InLayout(m, m.insert)
    /\ SealedBody(m)
    /\ NoSelf(m)

BInv ==
    /\ IInv
    /\ phase = "start" => mir = EmptyBody /\ stack = <<>>
    /\ phase # "start" => Built(stack, mir, ast)
    /\ phase = "done" => HasTerminator(mir, mir.insert)

-----------------------------------------------------------------------------
(* The phis.                                                               *)

\* The phi p is complete in block b, which control does not start in.
PhiOK(m, b, p) ==
    /\ InLayout(m, b) /\ b # m.layout[1]
    /\ {q.blk : q \in p.inc} = m.preds[b]
    /\ \A q, r \in p.inc : q.blk = r.blk => q = r

\* Until the left operand is lowered the insertion point does not move, and
\* until the right one is its merge block has one predecessor.
PhiFits(f, m) ==
    /\ f.at = "LogicLhs" => f.from = m.insert /\ m.preds[f.merge] = {}
    /\ f.at = "LogicRhs" => /\ m.preds[f.merge] = {f.from}
                            /\ f.from # m.insert /\ InLayout(m, f.from)
    /\ IsLoop(f) => \A p : ~PhiIn(m, f.from, p)

Straight(s, a) ==
    \A i, j \in 1 .. Len(s) :
        i < j /\ s[j].at = "LogicLhs" => LhsFrame(s[i], a)

PhisBuilt(s, m, a) ==
    /\ Straight(s, a)
    /\ \A j \in 1 .. Len(s) : PhiFits(s[j], m)
    /\ \A b \in Blocks(m) : \A p : PhiIn(m, b, p) => PhiOK(m, b, p)

PInv == PhisBuilt(stack, mir, ast)

-----------------------------------------------------------------------------
(* The step of a handler, seen from the blocks: the frames fs replace the  *)
(* one at the top and own the blocks Q; k blocks are allocated, T branched *)
(* to, o appended, F deleted, and X are the new phis.                      *)
Allots(fs, Q, k, o, F) ==
    /\ Apart(fs)
    /\ \A b : PendingIn(fs, b) <=> b \in Q
    /\ Q \cup F \cup ({o} \ {None})
         = Pending(Top) \cup (Len(mir.code) + 1 .. Len(mir.code) + k)
    /\ Q \cap F = {}
    /\ o \notin Q \cup F

Leads(T, F) ==
    \A x \in T :
        /\ x \notin mir.freed \cup F
        /\ x # mir.insert
        /\ \/ ~InLayout(mir, x)
           \/ \E j \in 1 .. Len(stack) : IsLoop(stack[j]) /\ x = stack[j].from
        /\ \A j \in 2 .. Len(stack) :
              x \in Pending(stack[j]) => IsLoop(stack[j])

SortsKept ==
    /\ Len(ast) <= Len(ast')
    /\ \A x \in 1 .. Len(ast) : ast'[x].sort = ast[x].sort

Nests(fs, o) ==
    /\ ExprFrame(Top, ast) => \A j \in 1 .. Len(fs) : ExprFrame(fs[j], ast')
    /\ LhsPlain /\ LhsFrame(Top, ast) =>
          o = None /\ \A j \in 1 .. Len(fs) : LhsFrame(fs[j], ast')
    /\ Nested(fs, ast') /\ Straight(fs, ast')

Moves(fs, Q, k, T, o, F, X) ==
    /\ phase = "gen" /\ phase' # "start"
    /\ phase' = "done" => HasTerminator(mir', mir'.insert)
    /\ stack' = fs \o Tail(stack)
    /\ k \in Nat
    /\ Step(mir, mir', k, T, o, F, X)
    /\ Allots(fs, Q, k, o, F)
    /\ Leads(T, F)
    /\ \A b \in F : mir'.preds[b] = {}
    /\ SortsKept
    /\ Nests(fs, o)
    /\ \A j \in 1 .. Len(fs) : FrameFits(fs[j], mir', ast')
    /\ LhsPlain /\ PInv => \A j \in 1 .. Len(fs) : PhiFits(fs[j], mir')
    /\ X # {} => o # None
    /\ LhsPlain /\ PInv => \A p \in X : PhiOK(mir', o, p)

\* The insertion point does not return to a block of the function.
Forward == mir'.insert # mir.insert => ~InLayout(mir, mir'.insert)

Kept == BInv' /\ (LhsPlain /\ PInv => PInv') /\ Forward

-----------------------------------------------------------------------------
(* Such a step keeps the invariants.                                       *)

\* The blocks of the function after a step.
LEMMA LayoutStep ==
    ASSUME NEW m, NEW n, WellFormed(m), WellFormed(n), NEW k \in Nat, NEW T,
           NEW o, NEW F, NEW X, Step(m, n, k, T, o, F, X)
    PROVE  /\ Blocks(n) = 1 .. Len(m.code) + k
           /\ Blocks(m) \subseteq Blocks(n)
           /\ \A b : InLayout(n, b) <=> InLayout(m, b) \/ (o # None /\ b = o)
           /\ Len(m.layout) \in Nat
           /\ \A i \in 1 .. Len(m.layout) :
                 m.layout[i] \in Blocks(m) /\ n.layout[i] = m.layout[i]
           /\ o = None => Len(n.layout) = Len(m.layout)
           /\ o # None => /\ Len(n.layout) = Len(m.layout) + 1
                          /\ n.layout[Len(m.layout) + 1] = o
<1>1. m.layout \in Seq(Nat) /\ Len(m.code) \in Nat /\ Len(n.code) \in Nat
  BY BodyFields
<1>2. Blocks(n) = 1 .. Len(m.code) + k /\ Blocks(m) \subseteq Blocks(n)
  BY <1>1 DEF Step, Blocks
<1>3. \A i \in 1 .. Len(m.layout) : m.layout[i] \in Blocks(m)
  BY DEF WellFormed, BodyOK
<1> DEFINE s == m.layout
           u == n.layout
<1>4. o # None => u = Append(s, o)
  BY DEF Step
<1>5. o = None => u = s
  BY DEF Step
<1>6. s \in Seq(Nat)
  BY <1>1
<1> HIDE DEF s, u
<1>7. /\ Len(s) \in Nat
      /\ \A i \in 1 .. Len(s) : u[i] = s[i]
      /\ o = None => Len(u) = Len(s)
      /\ o # None => Len(u) = Len(s) + 1 /\ u[Len(s) + 1] = o
  BY <1>4, <1>5, <1>6
<1>8. \A b : (\E i \in 1 .. Len(u) : u[i] = b) <=>
             (\E i \in 1 .. Len(s) : s[i] = b) \/ (o # None /\ b = o)
  BY <1>7
<1>9. \A b : InLayout(n, b) <=> InLayout(m, b) \/ (o # None /\ b = o)
  BY <1>8 DEF InLayout, s, u
<1> QED
  BY <1>2, <1>3, <1>7, <1>9 DEF s, u

\* The parts of a stack after a handler called or returned.
LEMMA StackSplit ==
    ASSUME NEW S, NEW fs \in Seq(S), NEW s \in Seq(S), s # <<>>
    PROVE  LET u == fs \o Tail(s) IN
           /\ Head(s) = s[1] /\ Len(s) \in Nat \ {0} /\ Len(fs) \in Nat
           /\ Len(u) = Len(fs) + (Len(s) - 1)
           /\ \A j \in 1 .. Len(fs) : j \in 1 .. Len(u) /\ u[j] = fs[j]
           /\ \A j \in 2 .. Len(s) : /\ j + Len(fs) - 1 \in 1 .. Len(u)
                                     /\ u[j + Len(fs) - 1] = s[j]
           /\ \A j \in 1 .. Len(u) :
                 \/ j \in 1 .. Len(fs)
                 \/ /\ j - Len(fs) + 1 \in 2 .. Len(s)
                    /\ j > Len(fs)
                    /\ u[j] = s[j - Len(fs) + 1]
<1> DEFINE t == Tail(s)
           u == fs \o t
<1>1. /\ Head(s) = s[1] /\ Len(s) \in Nat \ {0} /\ t \in Seq(S)
      /\ Len(t) = Len(s) - 1 /\ \A j \in 1 .. Len(s) - 1 : t[j] = s[j + 1]
  OBVIOUS
<1> HIDE DEF t
<1>2. /\ Len(fs) \in Nat /\ Len(u) = Len(fs) + Len(t)
      /\ \A j \in 1 .. Len(fs) : u[j] = fs[j]
      /\ \A j \in 1 .. Len(t) : u[Len(fs) + j] = t[j]
      /\ \A j \in 1 .. Len(u) : j > Len(fs) =>
            j - Len(fs) \in 1 .. Len(t) /\ u[j] = t[j - Len(fs)]
  <2>1. fs \in Seq(S) /\ t \in Seq(S)
    BY <1>1
  <2> QED
    BY ONLY <2>1, ConcatParts
<1> HIDE DEF u
<1>3. ASSUME NEW j \in 2 .. Len(s)
      PROVE  j + Len(fs) - 1 \in 1 .. Len(u) /\ u[j + Len(fs) - 1] = s[j]
  <2>1. j - 1 \in 1 .. Len(t) /\ t[j - 1] = s[(j - 1) + 1]
    BY <1>1
  <2>2. u[Len(fs) + (j - 1)] = t[j - 1]
    BY <1>2, <2>1
  <2>3. (j - 1) + 1 = j /\ Len(fs) + (j - 1) = j + Len(fs) - 1
    BY <1>2
  <2>4. j + Len(fs) - 1 \in 1 .. Len(u)
    BY <1>1, <1>2
  <2> QED
    BY <2>1, <2>2, <2>3, <2>4
<1>4. ASSUME NEW j \in 1 .. Len(u), j \notin 1 .. Len(fs)
      PROVE  /\ j - Len(fs) + 1 \in 2 .. Len(s) /\ j > Len(fs)
             /\ u[j] = s[j - Len(fs) + 1]
  <2>1. j > Len(fs)
    BY <1>2, <1>4
  <2>2. j - Len(fs) \in 1 .. Len(t) /\ u[j] = t[j - Len(fs)]
    BY <1>2, <2>1
  <2>3. t[j - Len(fs)] = s[(j - Len(fs)) + 1]
    BY <1>1, <2>2
  <2> QED
    BY <1>1, <1>2, <2>1, <2>2, <2>3
<1>5. \A j \in 1 .. Len(fs) : j \in 1 .. Len(u)
  BY <1>1, <1>2
<1> QED
  BY <1>1, <1>2, <1>3, <1>4, <1>5 DEF u, t

\* What the handlers wait for is what the handlers that did not run wait for
\* and what the one that ran waits for now.
LEMMA PendingSplit ==
    ASSUME NEW S, NEW fs \in Seq(S), NEW s \in Seq(S), s # <<>>
    PROVE  \A b : PendingIn(fs \o Tail(s), b) <=>
                      \/ PendingIn(fs, b)
                      \/ \E j \in 2 .. Len(s) : b \in Pending(s[j])
<1> DEFINE u == fs \o Tail(s)
<1>1. /\ Len(s) \in Nat \ {0} /\ Len(fs) \in Nat
      /\ \A j \in 1 .. Len(fs) : j \in 1 .. Len(u) /\ u[j] = fs[j]
      /\ \A j \in 2 .. Len(s) : /\ j + Len(fs) - 1 \in 1 .. Len(u)
                                /\ u[j + Len(fs) - 1] = s[j]
      /\ \A j \in 1 .. Len(u) : \/ j \in 1 .. Len(fs)
                                \/ /\ j - Len(fs) + 1 \in 2 .. Len(s)
                                   /\ u[j] = s[j - Len(fs) + 1]
  BY StackSplit
<1> HIDE DEF u
<1>2. ASSUME NEW b, PendingIn(u, b)
      PROVE  PendingIn(fs, b) \/ \E j \in 2 .. Len(s) : b \in Pending(s[j])
  <2>1. PICK j \in 1 .. Len(u) : b \in Pending(u[j])
    BY <1>2 DEF PendingIn
  <2>2. CASE j \in 1 .. Len(fs)
    BY <1>1, <2>1, <2>2 DEF PendingIn
  <2>3. CASE /\ j - Len(fs) + 1 \in 2 .. Len(s)
             /\ u[j] = s[j - Len(fs) + 1]
    BY <2>1, <2>3
  <2> QED
    BY <1>1, <2>2, <2>3
<1>3. ASSUME NEW b, PendingIn(fs, b)
      PROVE  PendingIn(u, b)
  BY <1>1, <1>3 DEF PendingIn
<1>4. ASSUME NEW b, NEW j \in 2 .. Len(s), b \in Pending(s[j])
      PROVE  PendingIn(u, b)
  BY <1>1, <1>4 DEF PendingIn
<1> QED
  BY <1>2, <1>3, <1>4 DEF u

\* The blocks the handler at the top owns, and the fresh ones, are in nobody
\* else's hands.
LEMMA OwnBlocks ==
    ASSUME NEW m, WellFormed(m), NEW S, NEW s \in Seq(S), s # <<>>, Owned(s, m),
           NEW k \in Nat,
           NEW b \in Pending(Head(s)) \cup (Len(m.code) + 1 .. Len(m.code) + k)
    PROVE  /\ b \in 1 .. Len(m.code) + k
           /\ ~InLayout(m, b) /\ b \notin m.freed
           /\ \A j \in 2 .. Len(s) : b \notin Pending(s[j])
<1>1. Len(m.code) \in Nat /\ Len(s) \in Nat \ {0} /\ Head(s) = s[1]
  BY BodyFields
<1>2. CASE b \in Pending(s[1])
  <2>1. b \in Blocks(m) /\ ~InLayout(m, b) /\ b \notin m.freed
    BY <1>1, <1>2 DEF Owned, PendingIn
  <2>2. \A j \in 2 .. Len(s) : b \notin Pending(s[j])
    <3> TAKE j \in 2 .. Len(s)
    <3>1. 1 \in 1 .. Len(s) /\ j \in 1 .. Len(s) /\ 1 # j
      BY <1>1
    <3>2. Pending(s[1]) \cap Pending(s[j]) = {}
      BY <3>1 DEF Owned, Apart
    <3> QED
      BY <1>2, <3>2
  <2> QED
    BY <1>1, <2>1, <2>2 DEF Blocks
<1>3. CASE b \in Len(m.code) + 1 .. Len(m.code) + k
  <2>1. b \notin Blocks(m) /\ b \in 1 .. Len(m.code) + k
    BY <1>1, <1>3 DEF Blocks
  <2>2. ~InLayout(m, b) /\ b \notin m.freed
    BY <2>1 DEF WellFormed, BodyOK, InLayout
  <2>3. \A j \in 2 .. Len(s) : b \notin Pending(s[j])
    BY <1>1, <2>1 DEF Owned, PendingIn
  <2> QED
    BY <2>1, <2>2, <2>3
<1> QED
  BY <1>1, <1>2, <1>3

\* Ownership goes from hand to hand.
LEMMA OwnedStep ==
    ASSUME NEW m, NEW n, WellFormed(m), WellFormed(n),
           NEW k \in Nat, NEW T, NEW o, NEW F, NEW X, Step(m, n, k, T, o, F, X),
           NEW S, NEW s \in Seq(S), s # <<>>, Owned(s, m),
           NEW fs \in Seq(S), Apart(fs),
           NEW Q, \A b : PendingIn(fs, b) <=> b \in Q,
           Q \cup F \cup ({o} \ {None})
             = Pending(Head(s)) \cup (Len(m.code) + 1 .. Len(m.code) + k),
           Q \cap F = {}, o \notin Q \cup F,
           \A x \in T : x \notin m.freed \cup F,
           \A b \in F : n.preds[b] = {}
    PROVE  Owned(fs \o Tail(s), n)
<1> DEFINE u == fs \o Tail(s)
           A == Pending(Head(s)) \cup (Len(m.code) + 1 .. Len(m.code) + k)
<1>1. /\ Blocks(n) = 1 .. Len(m.code) + k
      /\ Blocks(m) \subseteq Blocks(n)
      /\ \A b : InLayout(n, b) <=> InLayout(m, b) \/ (o # None /\ b = o)
      /\ n.freed = m.freed \cup F /\ Blocks(m) = 1 .. Len(m.code)
      /\ Len(m.code) \in Nat
  <2>0. WellFormed(m) /\ WellFormed(n) /\ k \in Nat /\ Step(m, n, k, T, o, F, X)
    OBVIOUS
  <2>1. /\ Blocks(n) = 1 .. Len(m.code) + k
        /\ Blocks(m) \subseteq Blocks(n)
        /\ \A b : InLayout(n, b) <=> InLayout(m, b) \/ (o # None /\ b = o)
    BY ONLY <2>0, LayoutStep
  <2>2. n.freed = m.freed \cup F
    BY DEF Step
  <2> QED
    BY <2>1, <2>2, BodyFields DEF Blocks
<1>2. \A b \in A : /\ b \in Blocks(n) /\ ~InLayout(m, b) /\ b \notin m.freed
                   /\ \A j \in 2 .. Len(s) : b \notin Pending(s[j])
  BY <1>1, OwnBlocks
<1>3. A = Q \cup F \cup ({o} \ {None})
  OBVIOUS
<1>4. \A b : PendingIn(u, b) <=>
               b \in Q \/ \E j \in 2 .. Len(s) : b \in Pending(s[j])
  BY PendingSplit
<1>5. \A b : PendingIn(s, b) <=>
               \/ b \in Pending(Head(s))
               \/ \E j \in 2 .. Len(s) : b \in Pending(s[j])
  <2>1. Len(s) \in Nat \ {0} /\ Head(s) = s[1]
    OBVIOUS
  <2> QED
    BY <2>1 DEF PendingIn
<1>6. Apart(u)
  <2>1. /\ Len(s) \in Nat \ {0} /\ Len(fs) \in Nat
        /\ \A j \in 1 .. Len(fs) : j \in 1 .. Len(u) /\ u[j] = fs[j]
        /\ \A j \in 1 .. Len(u) : \/ j \in 1 .. Len(fs)
                                  \/ /\ j - Len(fs) + 1 \in 2 .. Len(s)
                                     /\ u[j] = s[j - Len(fs) + 1]
    BY StackSplit
  <2> HIDE DEF u, A
  <2>2. SUFFICES ASSUME NEW i \in 1 .. Len(u), NEW j \in 1 .. Len(u), i # j,
                        NEW b, b \in Pending(u[i]), b \in Pending(u[j])
                 PROVE  FALSE
    BY DEF Apart
  <2>3. CASE i \in 1 .. Len(fs) /\ j \in 1 .. Len(fs)
    BY <2>1, <2>2, <2>3 DEF Apart
  <2>4. CASE i \in 1 .. Len(fs) /\ j \notin 1 .. Len(fs)
    <3>1. b \in A
      BY <1>3, <2>1, <2>2, <2>4 DEF PendingIn
    <3> QED
      BY <1>2, <2>1, <2>2, <2>4, <3>1
  <2>5. CASE i \notin 1 .. Len(fs) /\ j \in 1 .. Len(fs)
    <3>1. b \in A
      BY <1>3, <2>1, <2>2, <2>5 DEF PendingIn
    <3> QED
      BY <1>2, <2>1, <2>2, <2>5, <3>1
  <2>6. CASE i \notin 1 .. Len(fs) /\ j \notin 1 .. Len(fs)
    <3> DEFINE g == i - Len(fs) + 1
               h == j - Len(fs) + 1
    <3>0. g \in 2 .. Len(s) /\ u[i] = s[g]
      BY <2>1, <2>6
    <3>1. h \in 2 .. Len(s) /\ u[j] = s[h]
      BY <2>1, <2>6
    <3>2. g # h
      BY <2>1, <2>2
    <3> HIDE DEF g, h
    <3>3. g \in 1 .. Len(s) /\ h \in 1 .. Len(s)
      BY <2>1, <3>0, <3>1
    <3> QED
      BY <2>2, <3>0, <3>1, <3>2, <3>3 DEF Owned, Apart
  <2> QED
    BY <2>3, <2>4, <2>5, <2>6
<1> HIDE DEF u, A
<1>7. ASSUME NEW b, PendingIn(u, b)
      PROVE  b \in Blocks(n) /\ ~InLayout(n, b) /\ b \notin n.freed
  <2>1. CASE b \in Q
    BY <2>1, <1>1, <1>2, <1>3
  <2>2. CASE \E j \in 2 .. Len(s) : b \in Pending(s[j])
    <3>1. b \in Blocks(m) /\ ~InLayout(m, b) /\ b \notin m.freed
      BY <2>2, <1>5 DEF Owned
    <3>2. b \notin A
      BY <2>2, <1>2
    <3> QED
      BY <3>1, <3>2, <1>1, <1>3
  <2> QED
    BY <1>4, <1>7, <2>1, <2>2
<1>8. ASSUME NEW b \in Blocks(n)
      PROVE  InLayout(n, b) \/ b \in n.freed \/ PendingIn(u, b)
  <2>1. CASE b \in A
    BY <2>1, <1>1, <1>3, <1>4
  <2>2. CASE b \notin A
    <3>1. b \in Blocks(m)
      BY <2>2, <1>1 DEF A
    <3> QED
      BY <3>1, <2>2, <1>1, <1>4, <1>5 DEF Owned, A
  <2> QED
    BY <2>1, <2>2
<1>9. ASSUME NEW b \in n.freed
      PROVE  ~InLayout(n, b) /\ n.preds[b] = {}
  <2>1. CASE b \in m.freed
    <3>1. ~InLayout(m, b) /\ m.preds[b] = {} /\ b \notin A /\ b \in Blocks(n)
      BY <2>1, <1>1, <1>2 DEF Owned, WellFormed, BodyOK
    <3>2. \A y : y \notin n.preds[b]
      BY <2>1, <3>1 DEF Step
    <3>3. n.preds[b] = {}
      <4>1. n.preds[b] \in SUBSET Nat
        BY <3>1, BodyFields DEF Blocks
      <4> QED
        BY <3>2, <4>1
    <3> QED
      BY <3>1, <3>3, <1>1, <1>3
  <2>2. CASE b \in F
    BY <2>2, <1>1, <1>2, <1>3
  <2> QED
    BY <1>1, <2>1, <2>2
<1>10. ASSUME NEW i \in 1 .. Len(n.layout), NEW j \in 1 .. Len(n.layout),
              n.layout[i] = n.layout[j]
       PROVE  i = j
  <2>1. /\ Len(m.layout) \in Nat
        /\ \A h \in 1 .. Len(m.layout) : n.layout[h] = m.layout[h]
        /\ o = None => Len(n.layout) = Len(m.layout)
        /\ o # None => /\ Len(n.layout) = Len(m.layout) + 1
                       /\ n.layout[Len(m.layout) + 1] = o
    BY LayoutStep
  <2>2. o # None => \A h \in 1 .. Len(m.layout) : m.layout[h] # o
    BY <1>2, <1>3 DEF InLayout
  <2> QED
    <3>1. CASE i \in 1 .. Len(m.layout) /\ j \in 1 .. Len(m.layout)
      <4>1. m.layout[i] = m.layout[j]
        BY <1>10, <2>1, <3>1
      <4> QED
        BY <3>1, <4>1 DEF Owned
    <3>2. CASE ~(i \in 1 .. Len(m.layout) /\ j \in 1 .. Len(m.layout))
      <4> DEFINE l == Len(m.layout)
                 w == Len(n.layout)
      <4>1. /\ l \in Nat /\ i \in 1 .. w /\ j \in 1 .. w
            /\ ~(i \in 1 .. l /\ j \in 1 .. l)
            /\ o = None => w = l
            /\ o # None => w = l + 1
        BY <2>1, <3>2
      <4> HIDE DEF l, w
      <4>2. /\ o # None
            /\ i \in 1 .. l \/ i = l + 1
            /\ j \in 1 .. l \/ j = l + 1
            /\ i = l + 1 \/ j = l + 1
        BY <4>1
      <4>3. /\ n.layout[l + 1] = o
            /\ \A h \in 1 .. l : n.layout[h] # o
        BY <2>1, <2>2, <4>2 DEF l
      <4> QED
        BY <1>10, <4>2, <4>3
    <3> QED
      BY <3>1, <3>2
<1>11. Owned(u, n)
  BY <1>6, <1>7, <1>8, <1>9, <1>10 DEF Owned
<1> QED
  BY <1>11 DEF u

\* No block is left open behind.
LEMMA SealedStep ==
    ASSUME NEW m, NEW n, WellFormed(m), WellFormed(n),
           NEW k \in Nat, NEW T, NEW o, NEW F, NEW X, Step(m, n, k, T, o, F, X),
           SealedBody(m), InLayout(m, m.insert)
    PROVE  SealedBody(n) /\ InLayout(n, n.insert)
<1>1. /\ \A b : InLayout(n, b) <=> InLayout(m, b) \/ (o # None /\ b = o)
      /\ Len(m.layout) \in Nat
      /\ \A i \in 1 .. Len(m.layout) :
            m.layout[i] \in Blocks(m) /\ n.layout[i] = m.layout[i]
      /\ o = None => Len(n.layout) = Len(m.layout)
      /\ o # None => /\ Len(n.layout) = Len(m.layout) + 1
                     /\ n.layout[Len(m.layout) + 1] = o
  BY LayoutStep
<1>2. InLayout(n, n.insert)
  BY <1>1 DEF Step
<1>3. ASSUME NEW i \in 1 .. Len(n.layout), n.layout[i] # n.insert
      PROVE  HasTerminator(n, n.layout[i])
  <2>1. i \in 1 .. Len(m.layout)
    BY <1>1, <1>3 DEF Step
  <2>2. CASE m.layout[i] = m.insert
    BY <1>1, <1>3, <2>1, <2>2 DEF Step
  <2>3. CASE m.layout[i] # m.insert
    BY <1>1, <1>3, <2>1, <2>3 DEF Step, SealedBody
  <2> QED
    BY <2>2, <2>3
<1> QED
  BY <1>2, <1>3 DEF SealedBody

\* A handler that did not run finds what it relies on.
LEMMA FitsStep ==
    ASSUME NEW m, NEW n, WellFormed(m), WellFormed(n),
           NEW k \in Nat, NEW T, NEW o, NEW F, NEW X, Step(m, n, k, T, o, F, X),
           o # None => ~InLayout(m, o),
           NEW a, NEW a2, NEW l \in Nat,
           \A x \in 1 .. l : a2[x].sort = a[x].sort,
           NEW f \in FrameType(l, Len(m.code)), FrameReady(f, Len(m.code)),
           FrameFits(f, m, a)
    PROVE  FrameFits(f, n, a2)
<1>1. /\ Blocks(m) \subseteq Blocks(n)
      /\ \A b : InLayout(m, b) => InLayout(n, b)
  BY LayoutStep
<1>2. f.at = "LogicLhs" => a2[f.kids[2]].sort = "expr"
  <2> SUFFICES ASSUME f.at = "LogicLhs" PROVE a2[f.kids[2]].sort = "expr"
    OBVIOUS
  <2>1. f.kids \in Seq(1 .. l) /\ Len(f.kids) = 2
    BY DEF FrameType, FrameReady
  <2>2. f.kids[2] \in 1 .. l
    BY <2>1
  <2> QED
    BY <2>2 DEF FrameFits
<1>3. IsLoop(f) => InLayout(n, f.from)
  BY <1>1 DEF FrameFits
<1>4. f.at = "UntilBodyEnd" => f.from # n.insert /\ n.preds[f.merge] # {}
  <2> SUFFICES ASSUME f.at = "UntilBodyEnd"
               PROVE  f.from # n.insert /\ n.preds[f.merge] # {}
    OBVIOUS
  <2>1. InLayout(m, f.from) /\ f.from # m.insert /\ m.preds[f.merge] # {}
    BY DEF FrameFits, IsLoop
  <2>2. f.merge \in Blocks(m)
    BY DEF FrameReady, FrameType, Blocks, None
  <2>3. PICK y : y \in m.preds[f.merge]
    BY <2>1
  <2>4. y \in n.preds[f.merge]
    BY <1>1, <2>2, <2>3 DEF Step
  <2>5. f.from # n.insert
    BY <2>1 DEF Step
  <2> QED
    BY <2>4, <2>5
<1> QED
  BY <1>2, <1>3, <1>4 DEF FrameFits

\* Expressions stay above the expressions they belong to: R(f) says that f is
\* the frame of one, below that such frames are above f.
LEMMA NestedStep ==
    ASSUME NEW S, NEW fs \in Seq(S), NEW s \in Seq(S), s # <<>>,
           NEW a, NEW a2, NEW l \in Nat,
           \A x \in 1 .. l : a2[x].sort = a[x].sort,
           \A j \in 1 .. Len(s) : s[j].node \in 1 .. l,
           Nested(s, a), Nested(fs, a2),
           ExprFrame(Head(s), a) => \A j \in 1 .. Len(fs) : ExprFrame(fs[j], a2)
    PROVE  Nested(fs \o Tail(s), a2)
<1> DEFINE u == fs \o Tail(s)
<1>1. /\ Head(s) = s[1] /\ Len(s) \in Nat \ {0} /\ Len(fs) \in Nat
      /\ \A j \in 1 .. Len(fs) : u[j] = fs[j]
      /\ \A j \in 1 .. Len(u) : \/ j \in 1 .. Len(fs)
                                \/ /\ j - Len(fs) + 1 \in 2 .. Len(s)
                                   /\ j > Len(fs)
                                   /\ u[j] = s[j - Len(fs) + 1]
  BY StackSplit
<1>2. Len(u) \in Nat
  BY StackSplit
<1> HIDE DEF u
<1>3. \A j \in 1 .. Len(s) : ExprFrame(s[j], a) => ExprFrame(s[j], a2)
  BY DEF ExprFrame
<1>4. SUFFICES ASSUME NEW i \in 1 .. Len(u), NEW j \in 1 .. Len(u), i < j,
                      u[j].at = "UntilBranch"
               PROVE  ExprFrame(u[i], a2)
  BY DEF Nested, u
<1>5. CASE j \in 1 .. Len(fs)
  <2>1. i \in 1 .. Len(fs)
    BY <1>2, <1>4, <1>5
  <2> QED
    BY <1>1, <1>4, <1>5, <2>1 DEF Nested
<1>6. CASE j \notin 1 .. Len(fs)
  <2> DEFINE h == j - Len(fs) + 1
  <2>1. h \in 2 .. Len(s) /\ u[j] = s[h] /\ s[h].at = "UntilBranch"
    BY <1>1, <1>4, <1>6
  <2>2. CASE i \in 1 .. Len(fs)
    <3>1. 1 \in 1 .. Len(s) /\ h \in 1 .. Len(s) /\ 1 < h
      BY <1>1, <2>1
    <3>2. ExprFrame(s[1], a)
      BY <2>1, <3>1 DEF Nested
    <3> QED
      BY <1>1, <2>2, <3>2
  <2>3. CASE i \notin 1 .. Len(fs)
    <3> DEFINE g == i - Len(fs) + 1
    <3>1. g \in 2 .. Len(s) /\ u[i] = s[g] /\ g < h
      BY <1>1, <1>4, <2>3
    <3>2. g \in 1 .. Len(s) /\ h \in 1 .. Len(s)
      BY <1>1, <2>1, <3>1
    <3> HIDE DEF g, h
    <3>3. ExprFrame(s[g], a)
      BY <2>1, <3>1, <3>2 DEF Nested
    <3> QED
      BY <1>3, <3>1, <3>2, <3>3
  <2> QED
    BY <2>2, <2>3
<1> QED
  BY <1>5, <1>6

\* The same for left operands.
LEMMA StraightStep ==
    ASSUME NEW S, NEW fs \in Seq(S), NEW s \in Seq(S), s # <<>>,
           NEW a, NEW a2, NEW l \in Nat,
           \A x \in 1 .. l : a2[x].sort = a[x].sort,
           \A j \in 1 .. Len(s) : s[j].node \in 1 .. l,
           Straight(s, a), Straight(fs, a2),
           LhsFrame(Head(s), a) => \A j \in 1 .. Len(fs) : LhsFrame(fs[j], a2)
    PROVE  Straight(fs \o Tail(s), a2)
<1> DEFINE u == fs \o Tail(s)
<1>1. /\ Head(s) = s[1] /\ Len(s) \in Nat \ {0} /\ Len(fs) \in Nat
      /\ \A j \in 1 .. Len(fs) : u[j] = fs[j]
      /\ \A j \in 1 .. Len(u) : \/ j \in 1 .. Len(fs)
                                \/ /\ j - Len(fs) + 1 \in 2 .. Len(s)
                                   /\ j > Len(fs)
                                   /\ u[j] = s[j - Len(fs) + 1]
  BY StackSplit
<1>2. Len(u) \in Nat
  BY StackSplit
<1> HIDE DEF u
<1>3. \A j \in 1 .. Len(s) : LhsFrame(s[j], a) => LhsFrame(s[j], a2)
  BY DEF LhsFrame
<1>4. SUFFICES ASSUME NEW i \in 1 .. Len(u), NEW j \in 1 .. Len(u), i < j,
                      u[j].at = "LogicLhs"
               PROVE  LhsFrame(u[i], a2)
  BY DEF Straight, u
<1>5. CASE j \in 1 .. Len(fs)
  <2>1. i \in 1 .. Len(fs)
    BY <1>2, <1>4, <1>5
  <2> QED
    BY <1>1, <1>4, <1>5, <2>1 DEF Straight
<1>6. CASE j \notin 1 .. Len(fs)
  <2> DEFINE h == j - Len(fs) + 1
  <2>1. h \in 2 .. Len(s) /\ u[j] = s[h] /\ s[h].at = "LogicLhs"
    BY <1>1, <1>4, <1>6
  <2>2. CASE i \in 1 .. Len(fs)
    <3>1. 1 \in 1 .. Len(s) /\ h \in 1 .. Len(s) /\ 1 < h
      BY <1>1, <2>1
    <3>2. LhsFrame(s[1], a)
      BY <2>1, <3>1 DEF Straight
    <3> QED
      BY <1>1, <2>2, <3>2
  <2>3. CASE i \notin 1 .. Len(fs)
    <3> DEFINE g == i - Len(fs) + 1
    <3>1. g \in 2 .. Len(s) /\ u[i] = s[g] /\ g < h
      BY <1>1, <1>4, <2>3
    <3>2. g \in 1 .. Len(s) /\ h \in 1 .. Len(s)
      BY <1>1, <2>1, <3>1
    <3> HIDE DEF g, h
    <3>3. LhsFrame(s[g], a)
      BY <2>1, <3>1, <3>2 DEF Straight
    <3> QED
      BY <1>3, <3>1, <3>2, <3>3
  <2> QED
    BY <2>2, <2>3
<1> QED
  BY <1>5, <1>6

\* A complete phi stays complete, and no other gets into its block.
LEMMA PhiOKStep ==
    ASSUME NEW m, NEW n, WellFormed(m), WellFormed(n),
           NEW k \in Nat, NEW T, NEW o, NEW F, NEW X, Step(m, n, k, T, o, F, X),
           NEW b \in Blocks(m), NEW p, PhiOK(m, b, p), b \notin T
    PROVE  PhiOK(n, b, p)
<1>1. /\ Blocks(m) \subseteq Blocks(n)
      /\ \A c : InLayout(m, c) => InLayout(n, c)
      /\ Len(m.layout) \in Nat
      /\ \A i \in 1 .. Len(m.layout) : n.layout[i] = m.layout[i]
  BY LayoutStep
<1>2. InLayout(m, b) /\ b # m.layout[1]
  BY DEF PhiOK
<1>3. n.layout[1] = m.layout[1]
  BY <1>1, <1>2 DEF InLayout
<1>4. n.preds[b] = m.preds[b]
  <2>1. \A y : y \in n.preds[b] <=> y \in m.preds[b]
    BY <1>1 DEF Step
  <2>2. b \in Blocks(n)
    BY <1>1
  <2>3. m.preds[b] \in SUBSET Nat
    BY BodyFields DEF Blocks
  <2>4. n.preds[b] \in SUBSET Nat
    BY <2>2, BodyFields DEF Blocks
  <2> QED
    BY <2>1, <2>3, <2>4
<1> QED
  BY <1>1, <1>2, <1>3, <1>4 DEF PhiOK

\* A handler that ends in a step of this kind keeps the invariants.
LEMMA MoveKeeps ==
    ASSUME BInv, IInv', NEW S, NEW fs \in Seq(S), stack \in Seq(S),
           NEW Q, NEW k, NEW T, NEW o, NEW F, NEW X, Moves(fs, Q, k, T, o, F, X)
    PROVE  Kept
<1> DEFINE m == mir
           n == mir'
           s == stack
           u == fs \o Tail(stack)
<1>1. /\ phase = "gen" /\ phase' # "start" /\ stack' = u /\ k \in Nat
      /\ phase' = "done" => HasTerminator(n, n.insert)
      /\ Step(m, n, k, T, o, F, X)
      /\ Allots(fs, Q, k, o, F) /\ Leads(T, F)
      /\ \A b \in F : n.preds[b] = {}
      /\ SortsKept /\ Nests(fs, o)
      /\ \A j \in 1 .. Len(fs) : FrameFits(fs[j], n, ast')
  BY DEF Moves
<1>2. /\ WellFormed(m) /\ WellFormed(n) /\ s # <<>>
      /\ StackOK(s, Len(ast), Len(m.code)) /\ Len(ast) \in Nat
      /\ m.insert # None
  <2>1. IInv
    BY DEF BInv
  <2>2. WellFormed(m) /\ s # <<>> /\ StackOK(s, Len(ast), Len(m.code))
        /\ Len(ast) \in Nat /\ m.insert # None
    BY <1>1, <2>1, InHandler
  <2>3. WellFormed(n)
    BY DEF IInv, TypeOK, EdgesMirror, WellFormed
  <2> QED
    BY <2>2, <2>3
<1>3. Built(s, m, ast)
  BY <1>1 DEF BInv
<1>4. Top = Head(s)
  BY DEF Top
<1>5. /\ Apart(fs) /\ \A b : PendingIn(fs, b) <=> b \in Q
      /\ Q \cup F \cup ({o} \ {None})
           = Pending(Head(s)) \cup (Len(m.code) + 1 .. Len(m.code) + k)
      /\ Q \cap F = {} /\ o \notin Q \cup F
  BY <1>1, <1>4 DEF Allots
<1>6. \A x \in 1 .. Len(ast) : ast'[x].sort = ast[x].sort
  BY <1>1 DEF SortsKept
<1>7. \A j \in 1 .. Len(s) :
         /\ s[j] \in FrameType(Len(ast), Len(m.code))
         /\ FrameReady(s[j], Len(m.code)) /\ s[j].node \in 1 .. Len(ast)
  <2>1. \A j \in 1 .. Len(s) : /\ s[j] \in FrameType(Len(ast), Len(m.code))
                                /\ FrameReady(s[j], Len(m.code))
    BY <1>2 DEF StackOK
  <2>2. \A f \in FrameType(Len(ast), Len(m.code)) : f.node \in 1 .. Len(ast)
    BY DEF FrameType
  <2> QED
    BY <2>1, <2>2
<1>8. /\ Head(s) = s[1] /\ Len(s) \in Nat \ {0} /\ Len(fs) \in Nat
      /\ \A j \in 1 .. Len(fs) : u[j] = fs[j]
      /\ \A j \in 1 .. Len(u) : \/ j \in 1 .. Len(fs)
                                \/ /\ j - Len(fs) + 1 \in 2 .. Len(s)
                                   /\ u[j] = s[j - Len(fs) + 1]
  BY <1>2, StackSplit
<1> HIDE DEF m, n, s, u
<1>9. /\ Owned(s, m) /\ Nested(s, ast) /\ InLayout(m, m.insert)
      /\ SealedBody(m) /\ NoSelf(m)
      /\ \A j \in 1 .. Len(s) : FrameFits(s[j], m, ast)
  BY <1>3 DEF Built
<1>10. \A x \in T : x \notin m.freed \cup F /\ x # m.insert
  BY <1>1 DEF Leads, m
<1>11. Owned(u, n)
  <2>1. \A x \in T : x \notin m.freed \cup F
    BY <1>10
  <2>2. s \in Seq(S)
    BY DEF s
  <2>3. /\ k \in Nat /\ Step(m, n, k, T, o, F, X) /\ fs \in Seq(S)
        /\ \A b \in F : n.preds[b] = {}
    BY <1>1
  <2>4. WellFormed(m) /\ WellFormed(n) /\ s # <<>> /\ Owned(s, m)
    BY <1>2, <1>9
  <2>5. Owned(fs \o Tail(s), n)
    BY <1>5, <2>1, <2>2, <2>3, <2>4, OwnedStep
  <2> QED
    BY <2>5 DEF u, s
<1>12. SealedBody(n) /\ InLayout(n, n.insert)
  BY <1>1, <1>2, <1>9, SealedStep
<1>13. o # None => ~InLayout(m, o)
  <2> SUFFICES ASSUME o # None PROVE ~InLayout(m, o)
    OBVIOUS
  <2>1. o \in Pending(Head(s)) \cup (Len(m.code) + 1 .. Len(m.code) + k)
    BY <1>5
  <2>2. s \in Seq(S)
    BY DEF s
  <2> QED
    BY <1>1, <1>2, <1>9, <2>1, <2>2, OwnBlocks
<1>14. \A j \in 1 .. Len(u) : FrameFits(u[j], n, ast')
  <2> TAKE j \in 1 .. Len(u)
  <2>1. CASE j \in 1 .. Len(fs)
    BY <1>1, <1>8, <2>1
  <2>2. CASE j \notin 1 .. Len(fs)
    <3> DEFINE h == j - Len(fs) + 1
    <3>1. h \in 1 .. Len(s) /\ u[j] = s[h]
      BY <1>8, <2>2
    <3> HIDE DEF h
    <3>2. /\ FrameFits(s[h], m, ast) /\ FrameReady(s[h], Len(m.code))
          /\ s[h] \in FrameType(Len(ast), Len(m.code))
      BY <1>7, <1>9, <3>1
    <3>3. FrameFits(s[h], n, ast')
      BY <1>1, <1>2, <1>6, <1>13, <3>2, FitsStep
    <3> QED
      BY <3>1, <3>3
  <2> QED
    BY <2>1, <2>2
<1>15. Nested(u, ast')
  <2>1. Nested(fs, ast')
    BY <1>1 DEF Nests
  <2>2. ExprFrame(Head(s), ast) => \A j \in 1 .. Len(fs) : ExprFrame(fs[j], ast')
    BY <1>1, <1>4 DEF Nests
  <2>3. s \in Seq(S) /\ \A j \in 1 .. Len(s) : s[j].node \in 1 .. Len(ast)
    BY <1>7 DEF s
  <2> QED
    BY <1>2, <1>6, <1>9, <2>1, <2>2, <2>3, NestedStep DEF u, s
<1>16. NoSelf(n)
  <2> SUFFICES ASSUME NEW b \in Blocks(n), b \in n.preds[b] PROVE FALSE
    BY DEF NoSelf
  <2>1. (b \in Blocks(m) /\ b \in m.preds[b]) \/ (b \in T /\ b = m.insert)
    BY <1>1 DEF Step
  <2> QED
    BY <2>1, <1>9, <1>10 DEF NoSelf
<1>17. BInv'
  <2>1. Built(u, n, ast')
    BY <1>11, <1>12, <1>14, <1>15, <1>16 DEF Built
  <2>2. Built(stack', mir', ast')
    BY <1>1, <2>1 DEF n
  <2> QED
    BY <1>1, <2>2 DEF BInv, n
<1>18. Forward
  <2>1. n.insert # m.insert => o # None /\ n.insert = o
    BY <1>1 DEF Step
  <2> QED
    BY <1>13, <2>1 DEF Forward, m, n
<1>19. ASSUME LhsPlain, PInv PROVE PInv'
  <2>1. /\ Straight(s, ast)
        /\ \A j \in 1 .. Len(s) : PhiFits(s[j], m)
        /\ \A b \in Blocks(m) : \A p : PhiIn(m, b, p) => PhiOK(m, b, p)
    BY <1>19 DEF PInv, PhisBuilt, s, m
  <2>2. Straight(u, ast')
    <3>1. Straight(fs, ast')
      BY <1>1 DEF Nests
    <3>2. LhsFrame(Head(s), ast) => \A j \in 1 .. Len(fs) : LhsFrame(fs[j], ast')
      BY <1>1, <1>4, <1>19 DEF Nests
    <3>3. s \in Seq(S) /\ \A j \in 1 .. Len(s) : s[j].node \in 1 .. Len(ast)
      BY <1>7 DEF s
    <3> QED
      BY <1>2, <1>6, <2>1, <3>1, <3>2, <3>3, StraightStep DEF u, s
  <2>3. /\ Blocks(m) \subseteq Blocks(n)
        /\ \A b : InLayout(n, b) <=> InLayout(m, b) \/ (o # None /\ b = o)
    BY <1>1, <1>2, LayoutStep
  <2>4. \A b : InLayout(m, b) => b \in Blocks(m)
    BY <1>2 DEF WellFormed, BodyOK, InLayout
  <2>5. \A b : InLayout(m, b) /\ b = n.insert => b = m.insert
    BY <1>1, <1>13 DEF Step
  <2>6. X # {} => o # None /\ n.insert = o
    BY <1>1 DEF Moves, Step
  <2>7. ASSUME NEW h \in 2 .. Len(s), s[h].at \in {"LogicLhs", "LogicRhs"}
        PROVE  n.preds[s[h].merge] = m.preds[s[h].merge]
    <3> DEFINE x == s[h].merge
    <3>1. h \in 1 .. Len(s) /\ x \in Pending(s[h])
      BY <1>8, <2>7 DEF Pending
    <3>2. ~IsLoop(s[h])
      BY <2>7 DEF IsLoop
    <3>3. x \notin T
      BY <1>1, <3>1, <3>2, <2>7 DEF Leads, s
    <3>4. x \in Blocks(m)
      BY <1>9, <3>1 DEF Owned, PendingIn
    <3>5. \A y : y \in n.preds[x] <=> y \in m.preds[x]
      BY <1>1, <2>3, <3>3, <3>4 DEF Step
    <3>6. m.preds[x] \in SUBSET Nat
      <4>1. m.preds \in Seq(SUBSET Nat) /\ Len(m.preds) = Len(m.code)
        BY <1>2, BodyFields
      <4> QED
        BY <3>4, <4>1 DEF Blocks
    <3>7. n.preds[x] \in SUBSET Nat
      <4>1. x \in Blocks(n)
        BY <2>3, <3>4
      <4>2. n.preds \in Seq(SUBSET Nat) /\ Len(n.preds) = Len(n.code)
        BY <1>2, BodyFields
      <4> QED
        BY <4>1, <4>2 DEF Blocks
    <3> QED
      BY <3>5, <3>6, <3>7
  <2>8. ASSUME NEW h \in 2 .. Len(s) PROVE PhiFits(s[h], n)
    <3>1. h \in 1 .. Len(s) /\ 1 \in 1 .. Len(s) /\ 1 < h
      BY <1>8
    <3>2. PhiFits(s[h], m) /\ FrameFits(s[h], m, ast)
      BY <1>9, <2>1, <3>1
    <3>3. ASSUME s[h].at = "LogicLhs"
          PROVE  s[h].from = n.insert /\ n.preds[s[h].merge] = {}
      <4>1. LhsFrame(s[1], ast)
        BY <2>1, <3>1, <3>3 DEF Straight
      <4>2. o = None
        BY <1>1, <1>4, <1>8, <1>19, <4>1 DEF Nests
      <4>3. n.insert = m.insert
        BY <1>1, <4>2 DEF Step
      <4> QED
        BY <2>7, <3>2, <3>3, <4>3 DEF PhiFits
    <3>4. ASSUME s[h].at = "LogicRhs"
          PROVE  /\ n.preds[s[h].merge] = {s[h].from}
                 /\ s[h].from # n.insert /\ InLayout(n, s[h].from)
      BY <2>3, <2>5, <2>7, <3>2, <3>4 DEF PhiFits
    <3>5. ASSUME IsLoop(s[h]), NEW p, PhiIn(n, s[h].from, p)
          PROVE  FALSE
      <4>1. InLayout(m, s[h].from) /\ ~PhiIn(m, s[h].from, p)
        BY <3>2, <3>5 DEF PhiFits, FrameFits
      <4>2. s[h].from \in Blocks(n)
        BY <2>3, <2>4, <4>1
      <4>3. s[h].from = n.insert /\ p \in X
        BY <1>1, <3>5, <4>1, <4>2 DEF Step
      <4> QED
        BY <1>13, <2>6, <4>1, <4>3
    <3> QED
      BY <3>3, <3>4, <3>5 DEF PhiFits
  <2>9. \A j \in 1 .. Len(u) : PhiFits(u[j], n)
    <3> TAKE j \in 1 .. Len(u)
    <3>1. CASE j \in 1 .. Len(fs)
      <4>1. PhiFits(fs[j], n)
        BY <1>19, <3>1 DEF Moves, n
      <4> QED
        BY <1>8, <3>1, <4>1
    <3>2. CASE j \notin 1 .. Len(fs)
      BY <1>8, <2>8, <3>2
    <3> QED
      BY <3>1, <3>2
  <2>10. ASSUME NEW b \in Blocks(n), NEW p, PhiIn(n, b, p)
         PROVE  PhiOK(n, b, p)
    <3>1. (b \in Blocks(m) /\ PhiIn(m, b, p)) \/ (b = n.insert /\ p \in X)
      BY <1>1, <2>10 DEF Step
    <3>2. CASE b \in Blocks(m) /\ PhiIn(m, b, p)
      <4>1. PhiOK(m, b, p) /\ InLayout(m, b)
        BY <2>1, <3>2 DEF PhiOK
      <4>2. \A j \in 1 .. Len(s) : IsLoop(s[j]) => b # s[j].from
        BY <2>1, <3>2 DEF PhiFits
      <4>3. b \notin T
        BY <1>1, <4>1, <4>2 DEF Leads, s, m
      <4> QED
        BY <1>1, <1>2, <3>2, <4>1, <4>3, PhiOKStep
    <3>3. CASE b = n.insert /\ p \in X
      BY <1>19, <2>6, <3>3 DEF Moves, n
    <3> QED
      BY <3>1, <3>2, <3>3
  <2>11. PhisBuilt(u, n, ast')
    BY <2>2, <2>9, <2>10 DEF PhisBuilt
  <2> QED
    BY <1>1, <2>11 DEF PInv, n
<1> QED
  BY <1>17, <1>18, <1>19 DEF Kept

-----------------------------------------------------------------------------
(* The handlers return, call one handler, or call several in a row.        *)

\* The frames that own nothing and rely on nothing.
Idle == {"Visit", "IfBranch", "MatchChains", "RetValue", "OpEnd", "DefineEnd"}

\* They do.
LEMMA IdleFits ==
    ASSUME NEW f, f.at \in Idle
    PROVE  /\ Pending(f) = {} /\ ~IsLoop(f)
           /\ \A m, a : FrameFits(f, m, a)
           /\ \A m : PhiFits(f, m)
BY DEF Idle, Pending, IsLoop, FrameFits, PhiFits

\* The stack in a state whose top handler runs.
LEMMA StackSeq ==
    ASSUME BInv, phase = "gen", NEW U
    PROVE  stack \in Seq(FrameType(Len(ast), Len(mir.code)) \cup U)
<1>1. stack \in Seq(FrameType(Len(ast), Len(mir.code)))
  BY DEF BInv, IInv, TypeOK
<1> QED
  BY <1>1

\* A handler returns: what it owned is in the function now, or deleted.
LEMMA ReturnMove ==
    ASSUME BInv, IInv', phase = "gen", phase' # "start",
           phase' = "done" => HasTerminator(mir', mir'.insert),
           Continue(<<>>), SortsKept,
           NEW T, NEW o, NEW F, NEW X, Step(mir, mir', 0, T, o, F, X),
           F \cup ({o} \ {None}) = Pending(Top), o \notin F,
           Leads(T, F), \A b \in F : mir'.preds[b] = {},
           X # {} => o # None,
           LhsPlain /\ PInv => \A p \in X : PhiOK(mir', o, p)
    PROVE  Kept
<1> DEFINE fs == <<>>
           S == FrameType(Len(ast), Len(mir.code)) \cup {}
<1>1. Len(fs) = 0 /\ fs \in Seq(S) /\ Continue(fs)
  OBVIOUS
<1> HIDE DEF fs
<1>2. stack \in Seq(S)
  BY StackSeq
<1>3. /\ Apart(fs) /\ Nested(fs, ast') /\ Straight(fs, ast')
      /\ \A b : PendingIn(fs, b) <=> b \in {}
  BY <1>1 DEF Apart, Nested, Straight, PendingIn
<1>4. Len(mir.code) \in Nat
  BY InHandler DEF BInv
<1>5. Allots(fs, {}, 0, o, F)
  <2>1. Len(mir.code) + 1 .. Len(mir.code) + 0 = {}
    BY <1>4
  <2> QED
    BY <1>3, <2>1 DEF Allots
<1>6. LhsFrame(Top, ast) => o = None
  <2>1. LhsFrame(Top, ast) => Top.at \in Idle
    BY DEF LhsFrame, Idle
  <2> QED
    BY <2>1, IdleFits
<1>7. Nests(fs, o)
  BY <1>1, <1>3, <1>6 DEF Nests
<1>8. Moves(fs, {}, 0, T, o, F, X)
  BY <1>1, <1>5, <1>7 DEF Moves, Continue
<1> HIDE DEF S
<1> QED
  BY <1>1, <1>2, <1>8, MoveKeeps

\* A handler calls accept() and waits in frame b, which owns what the handler
\* owned and allocated but for the block that it appended.
LEMMA CallMove ==
    ASSUME BInv, IInv', phase = "gen", phase' = "gen", SortsKept,
           NEW a, NEW b, Continue(<<a, b>>), a.at = "Visit",
           NEW k \in Nat, NEW T, NEW o, Step(mir, mir', k, T, o, {}, {}),
           Pending(b) \cup ({o} \ {None})
             = Pending(Top) \cup (Len(mir.code) + 1 .. Len(mir.code) + k),
           o \notin Pending(b), Leads(T, {}),
           ExprFrame(Top, ast) => ExprFrame(a, ast') /\ ExprFrame(b, ast'),
           ~(LhsPlain /\ LhsFrame(Top, ast)),
           b.at = "UntilBranch" => ExprFrame(a, ast'),
           b.at = "LogicLhs" => LhsFrame(a, ast'),
           FrameFits(b, mir', ast'),
           LhsPlain /\ PInv => PhiFits(b, mir')
    PROVE  Kept
<1> DEFINE fs == <<a, b>>
           S == FrameType(Len(ast), Len(mir.code)) \cup {a, b}
<1>1. Len(fs) = 2 /\ fs[1] = a /\ fs[2] = b /\ fs \in Seq(S) /\ Continue(fs)
  OBVIOUS
<1> HIDE DEF fs
<1>2. stack \in Seq(S)
  BY StackSeq
<1>3. /\ Pending(a) = {} /\ FrameFits(a, mir', ast') /\ PhiFits(a, mir')
  BY IdleFits DEF Idle
<1>4. \A j \in 1 .. Len(fs) : j = 1 \/ j = 2
  BY <1>1
<1>5. /\ Apart(fs)
      /\ \A x : PendingIn(fs, x) <=> x \in Pending(b)
  BY <1>1, <1>3, <1>4 DEF Apart, PendingIn
<1>6. Nested(fs, ast') /\ Straight(fs, ast')
  <2> SUFFICES ASSUME NEW i \in 1 .. Len(fs), NEW j \in 1 .. Len(fs), i < j
               PROVE  /\ fs[j].at = "UntilBranch" => ExprFrame(fs[i], ast')
                      /\ fs[j].at = "LogicLhs" => LhsFrame(fs[i], ast')
    BY DEF Nested, Straight
  <2>1. i = 1 /\ j = 2
    BY <1>1
  <2> QED
    BY <1>1, <2>1
<1>7. Allots(fs, Pending(b), k, o, {})
  BY <1>5 DEF Allots
<1>8. Nests(fs, o)
  BY <1>1, <1>4, <1>6 DEF Nests
<1>9. \A j \in 1 .. Len(fs) : FrameFits(fs[j], mir', ast')
  BY <1>1, <1>3, <1>4
<1>10. LhsPlain /\ PInv => \A j \in 1 .. Len(fs) : PhiFits(fs[j], mir')
  BY <1>1, <1>3, <1>4
<1>11. Moves(fs, Pending(b), k, T, o, {}, {})
  BY <1>1, <1>7, <1>8, <1>9, <1>10 DEF Moves, Continue
<1> HIDE DEF S
<1> QED
  BY <1>1, <1>2, <1>11, MoveKeeps

\* A handler calls several others, and no block is touched.
LEMMA SpreadMove ==
    ASSUME BInv, IInv', phase = "gen", phase' = "gen", SortsKept,
           NEW U, NEW fs \in Seq(U), Continue(fs), UNCHANGED mir,
           Pending(Top) = {},
           \A j \in 1 .. Len(fs) : fs[j].at \in Idle,
           ExprFrame(Top, ast) => \A j \in 1 .. Len(fs) : ExprFrame(fs[j], ast'),
           LhsPlain /\ LhsFrame(Top, ast) =>
               \A j \in 1 .. Len(fs) : LhsFrame(fs[j], ast')
    PROVE  Kept
<1> DEFINE S == FrameType(Len(ast), Len(mir.code)) \cup U
<1>1. fs \in Seq(S) /\ stack \in Seq(S)
  <2>1. stack \in Seq(S)
    BY StackSeq
  <2>2. fs \in Seq(S)
    OBVIOUS
  <2> QED
    BY <2>1, <2>2
<1>2. \A j \in 1 .. Len(fs) :
         /\ Pending(fs[j]) = {} /\ FrameFits(fs[j], mir', ast')
         /\ PhiFits(fs[j], mir')
  BY IdleFits
<1>3. /\ Apart(fs) /\ \A b : PendingIn(fs, b) <=> b \in {}
  BY <1>2 DEF Apart, PendingIn
<1>4. Nested(fs, ast') /\ Straight(fs, ast')
  BY DEF Nested, Straight, Idle
<1>5. WellFormed(mir) /\ Len(mir.code) \in Nat
  BY InHandler DEF BInv
<1>6. Step(mir, mir', 0, {}, None, {}, {})
  BY <1>5, NoStep
<1>7. Allots(fs, {}, 0, None, {})
  <2>1. Len(mir.code) + 1 .. Len(mir.code) + 0 = {}
    BY <1>5
  <2> QED
    BY <1>3, <2>1 DEF Allots
<1>8. Leads({}, {}) /\ Nests(fs, None)
  BY <1>4 DEF Leads, Nests
<1>9. Moves(fs, {}, 0, {}, None, {}, {})
  BY <1>2, <1>6, <1>7, <1>8 DEF Moves, Continue
<1> HIDE DEF S
<1> QED
  BY <1>1, <1>9, MoveKeeps

\* The sorts of the nodes, when one is entered.
LEMMA Entered ==
    ASSUME IInv, NEW kind \in StmtKinds \cup ExprKinds, NEW sorts \in Seq(Sorts),
           Enter(kind, sorts)
    PROVE  /\ SortsKept /\ Pending(Top) = {} /\ Top.at = "Visit"
           /\ \A j \in 1 .. Len(sorts) : ast'[Len(ast) + j].sort = sorts[j]
           /\ kind \in StmtKinds =>
                ast[Top.node].sort = "stmt" /\ ~ExprFrame(Top, ast)
                /\ ~LhsFrame(Top, ast)
           /\ kind \in ExprKinds => ast[Top.node].sort # "stmt"
           /\ kind \in {"and", "or"} => ~(LhsPlain /\ LhsFrame(Top, ast))
<1> DEFINE d == Len(sorts)
           k == Top.node
           kids == NewKids(d)
           old == [ast EXCEPT ![k].kind = kind, ![k].kids = kids]
           new == [j \in 1 .. d |-> Undecided(sorts[j])]
<1>1. /\ phase = "gen" /\ Top.at = "Visit" /\ ast' = old \o new
      /\ kind \in KindsOf(ast[k].sort)
  BY DEF Enter
<1>2. /\ TreeOK(ast) /\ Len(ast) \in Nat \ {0}
      /\ Top \in FrameType(Len(ast), Len(mir.code))
  BY <1>1, InHandler
<1>3. k \in 1 .. Len(ast) /\ d \in Nat /\ ast \in Seq(NodeType(Len(ast)))
  BY <1>2 DEF FrameType, TreeOK
<1> DEFINE x == [ast[k] EXCEPT !.kind = kind, !.kids = kids]
           A == {x} \cup NodeType(Len(ast))
           B == {Undecided(sorts[j]) : j \in 1 .. d}
<1>4. ast[k] \in NodeType(Len(ast))
  BY <1>3
<1>5. ast[k].sort \in Sorts /\ x.sort = ast[k].sort
  BY <1>4 DEF NodeType
<1>6. old = [ast EXCEPT ![k] = x]
  BY <1>3
<1>7. ast \in Seq(A)
  BY <1>3
<1>8. new \in Seq(B) /\ Len(new) = d /\ \A j \in 1 .. d : new[j] = Undecided(sorts[j])
  BY <1>3
<1>12. k \in 1 .. Len(ast) /\ Len(ast) \in Nat /\ x \in A
  BY <1>2, <1>3
<1> HIDE DEF k, kids, x, A, B
<1>13. /\ old \in Seq(A) /\ Len(old) = Len(ast)
       /\ \A y \in 1 .. Len(ast) : old[y] = IF y = k THEN x ELSE ast[y]
  <2>1. k \in 1 .. Len(ast) /\ ast \in Seq(A) /\ x \in A
    BY <1>7, <1>12
  <2>2. /\ [ast EXCEPT ![k] = x] \in Seq(A)
        /\ Len([ast EXCEPT ![k] = x]) = Len(ast)
    BY ONLY <2>1, SeqUpdate
  <2>3. \A y \in 1 .. Len(ast) :
           [ast EXCEPT ![k] = x][y] = IF y = k THEN x ELSE ast[y]
    BY ONLY <2>1
  <2> QED
    BY <1>6, <2>2, <2>3
<1> HIDE DEF old, new
<1>14. /\ Len(ast') = Len(old) + Len(new)
       /\ \A j \in 1 .. Len(old) : ast'[j] = old[j]
       /\ \A j \in 1 .. Len(new) : ast'[Len(old) + j] = new[j]
  <2>1. old \in Seq(A \cup B) /\ new \in Seq(A \cup B)
    BY <1>8, <1>13
  <2>2. LET s == old \o new IN
        /\ Len(s) = Len(old) + Len(new)
        /\ \A j \in 1 .. Len(old) : s[j] = old[j]
        /\ \A j \in 1 .. Len(new) : s[Len(old) + j] = new[j]
    BY ONLY <2>1, ConcatParts
  <2> QED
    BY <1>1, <2>2
<1>15. SortsKept
  <2>1. \A y \in 1 .. Len(ast) : old[y].sort = ast[y].sort
    BY <1>5, <1>13
  <2>2. \A y \in 1 .. Len(ast) : ast'[y] = old[y]
    BY <1>13, <1>14
  <2>3. Len(ast) <= Len(ast')
    BY <1>3, <1>8, <1>12, <1>13, <1>14
  <2> QED
    BY <2>1, <2>2, <2>3 DEF SortsKept
<1>9. \A j \in 1 .. d : ast'[Len(ast) + j].sort = sorts[j]
  <2> TAKE j \in 1 .. d
  <2>1. j \in 1 .. Len(new) /\ ast'[Len(old) + j] = new[j]
    BY <1>8, <1>14
  <2>2. ast'[Len(ast) + j] = Undecided(sorts[j])
    BY <1>8, <1>13, <2>1
  <2> QED
    BY <2>2 DEF Undecided
<1>10. /\ kind \in StmtKinds => ast[k].sort = "stmt"
       /\ kind \in ExprKinds => ast[k].sort # "stmt"
       /\ kind \in {"and", "or"} /\ LhsPlain => ast[k].sort # "lhs"
  BY <1>1, <1>5, LhsKindsAssumption
     DEF Sorts, KindsOf, StmtKinds, ExprKinds, LhsPlain
<1>11. Pending(Top) = {}
  BY <1>1, IdleFits DEF Idle
<1> QED
  BY <1>1, <1>9, <1>10, <1>11, <1>15 DEF ExprFrame, LhsFrame, k

-----------------------------------------------------------------------------
(* One lemma for each action, in the order of the lemmas of CodegenProofs: *)
(* it keeps the invariants.  First the handlers that touch no block.       *)

\* What a handler may rely on.
LEMMA BRunning ==
    ASSUME BInv, phase = "gen"
    PROVE  /\ IInv /\ Owned(stack, mir) /\ Nested(stack, ast)
           /\ InLayout(mir, mir.insert) /\ SealedBody(mir) /\ NoSelf(mir)
           /\ stack # <<>> /\ Top = stack[1] /\ Len(stack) \in Nat \ {0}
           /\ \A j \in 1 .. Len(stack) : FrameFits(stack[j], mir, ast)
           /\ FrameFits(Top, mir, ast)
           /\ LhsPlain /\ PInv => PhiFits(Top, mir)
           /\ mir.insert \in Blocks(mir)
<1>1. IInv /\ Built(stack, mir, ast)
  BY DEF BInv
<1>2. /\ StackOK(stack, Len(ast), Len(mir.code)) /\ stack # <<>>
      /\ WellFormed(mir) /\ mir.insert # None
  BY <1>1, InHandler
<1>3. Top = stack[1] /\ Len(stack) \in Nat \ {0}
  BY <1>2, StackParts DEF Top
<1>4. 1 \in 1 .. Len(stack)
  BY <1>3
<1> QED
  BY <1>1, <1>2, <1>3, <1>4
     DEF Built, PInv, PhisBuilt, WellFormed, BodyOK

LEMMA VisitCompoundMove ==
    ASSUME BInv, IInv', VisitCompound PROVE Kept
<1>1. PICK c \in 0 .. MaxStmts :
        /\ Enter("compound", Stmts(c))
        /\ Continue([j \in 1 .. c |-> Visit(NewKids(c)[j], Top.loop)])
        /\ UNCHANGED <<phase, ret, mir, mValue, mCond, mMerge>>
  BY DEF VisitCompound
<1> DEFINE fs == [j \in 1 .. c |-> Visit(NewKids(c)[j], Top.loop)]
           U == {Visit(NewKids(c)[j], Top.loop) : j \in 1 .. c}
<1>2. Stmts(c) \in Seq(Sorts) /\ c \in Nat
  BY BoundsAssumption, StmtsOK
<1>3. IInv /\ "compound" \in StmtKinds /\ phase = "gen" /\ phase' = "gen"
  BY <1>1 DEF StmtKinds, BInv, Enter
<1>4. /\ SortsKept /\ Pending(Top) = {}
      /\ ~ExprFrame(Top, ast) /\ ~LhsFrame(Top, ast)
  BY <1>1, <1>2, <1>3, Entered
<1>5. fs \in Seq(U) /\ Len(fs) = c /\ \A j \in 1 .. c : fs[j].at = "Visit"
  BY <1>2 DEF Visit, Frame
<1>6. Continue(fs)
  BY <1>1
<1> HIDE DEF fs, U
<1>7. \A j \in 1 .. Len(fs) : fs[j].at \in Idle
  BY <1>5 DEF Idle
<1> QED
  BY <1>1, <1>3, <1>4, <1>5, <1>6, <1>7, SpreadMove

\* A statement that visits its first kid and may wait for it.
LEMMA FirstMove ==
    ASSUME BInv, IInv', NEW kind \in StmtKinds, NEW sorts \in Seq(Sorts),
           Enter(kind, sorts), UNCHANGED <<phase, mir>>,
           \/ Continue(<<First(Top.loop)>>)
           \/ \E f : f.at \in Idle /\ Continue(<<First(Top.loop), f>>)
    PROVE  Kept
<1>1. IInv /\ phase = "gen" /\ phase' = "gen"
  BY DEF BInv, Enter
<1>2. /\ SortsKept /\ Pending(Top) = {}
      /\ ~ExprFrame(Top, ast) /\ ~LhsFrame(Top, ast)
  BY <1>1, Entered
<1>3. First(Top.loop).at \in Idle
  BY DEF First, Visit, Frame, Idle
<1>4. CASE Continue(<<First(Top.loop)>>)
  <2> DEFINE fs == <<First(Top.loop)>>
             U == {First(Top.loop)}
  <2>1. fs \in Seq(U) /\ \A j \in 1 .. Len(fs) : fs[j].at \in Idle
    BY <1>3
  <2>2. Continue(fs)
    BY <1>4
  <2> HIDE DEF fs, U
  <2> QED
    BY <1>1, <1>2, <2>1, <2>2, SpreadMove
<1>5. ASSUME NEW f, f.at \in Idle, Continue(<<First(Top.loop), f>>)
      PROVE  Kept
  <2> DEFINE fs == <<First(Top.loop), f>>
             U == {First(Top.loop), f}
  <2>1. fs \in Seq(U) /\ \A j \in 1 .. Len(fs) : fs[j].at \in Idle
    BY <1>3, <1>5
  <2>2. Continue(fs)
    BY <1>5
  <2> HIDE DEF fs, U
  <2> QED
    BY <1>1, <1>2, <2>1, <2>2, SpreadMove
<1> QED
  BY <1>4, <1>5

\* The handler that enters a node waits in a frame of its own.
LEMMA HandlerAt ==
    ASSUME NEW at, NEW k, NEW loop
    PROVE  LET f == Handler(at, k, loop) IN
           f.at = at /\ f.node = Top.node /\ f.kids = NewKids(k) /\ f.loop = loop
BY DEF Handler, Frame

LEMMA VisitExprStmtMove ==
    ASSUME BInv, IInv', VisitExprStmt PROVE Kept
<1>1. "expr" \in StmtKinds /\ <<"expr">> \in Seq(Sorts)
  BY DEF StmtKinds, Sorts
<1> QED
  BY <1>1, FirstMove DEF VisitExprStmt

LEMMA VisitIfMove ==
    ASSUME BInv, IInv', VisitIf PROVE Kept
<1>1. PICK else \in {0, 1} :
        /\ Enter("if", <<"expr">> \o Stmts(1 + else))
        /\ Continue(<<First(Top.loop),
                      Handler("IfBranch", 2 + else, Top.loop)>>)
        /\ UNCHANGED <<phase, mir>>
  BY DEF VisitIf
<1> DEFINE cond == <<"expr">>
           arms == Stmts(1 + else)
<1>2. cond \in Seq(Sorts) /\ arms \in Seq(Sorts)
  BY StmtsOK DEF Sorts
<1>3. Enter("if", cond \o arms)
  BY <1>1
<1> HIDE DEF cond, arms
<1>4. cond \o arms \in Seq(Sorts)
  BY <1>2, ConcatSeq
<1>5. "if" \in StmtKinds /\ Handler("IfBranch", 2 + else, Top.loop).at \in Idle
  BY HandlerAt DEF StmtKinds, Idle
<1> QED
  BY <1>1, <1>3, <1>4, <1>5, FirstMove

LEMMA VisitMatchMove ==
    ASSUME BInv, IInv', VisitMatch PROVE Kept
<1>1. PICK c \in 1 .. MaxStmts, default \in {0, 1} :
        /\ Enter("match", (<<"expr">> \o CaseSorts(c)) \o Stmts(default))
        /\ Continue(<<First(Top.loop),
                      Handler("MatchChains", 1 + 2 * c + default, Top.loop)>>)
        /\ UNCHANGED <<phase, mir>>
  BY DEF VisitMatch
<1> DEFINE one == <<"expr">>
           both == CaseSorts(c)
           most == one \o both
           last == Stmts(default)
<1>2. c \in Nat /\ default \in Nat
  BY BoundsAssumption
<1>3. one \in Seq(Sorts) /\ both \in Seq(Sorts) /\ last \in Seq(Sorts)
  BY <1>2, StmtsOK DEF Sorts, CaseSorts
<1>4. Enter("match", most \o last)
  BY <1>1
<1> HIDE DEF one, both, last
<1>5. most \in Seq(Sorts)
  BY <1>3, ConcatSeq
<1> HIDE DEF most
<1>6. most \o last \in Seq(Sorts)
  BY <1>3, <1>5, ConcatSeq
<1>7. /\ "match" \in StmtKinds
      /\ Handler("MatchChains", 1 + 2 * c + default, Top.loop).at \in Idle
  BY HandlerAt DEF StmtKinds, Idle
<1> QED
  BY <1>1, <1>4, <1>6, <1>7, FirstMove

LEMMA VisitRetMove ==
    ASSUME BInv, IInv', VisitRet PROVE Kept
<1>1. PICK sort \in Sorts :
        /\ Enter("ret", <<sort>>)
        /\ Continue(<<First(Top.loop), Handler("RetValue", 1, Top.loop)>>)
        /\ UNCHANGED <<phase, mir>>
  BY DEF VisitRet, Sorts
<1>2. "ret" \in StmtKinds /\ Handler("RetValue", 1, Top.loop).at \in Idle
  BY HandlerAt DEF StmtKinds, Idle
<1>3. <<sort>> \in Seq(Sorts)
  OBVIOUS
<1> QED
  BY <1>1, <1>2, <1>3, FirstMove

\* The operands of a left operand are left operands too.
LEMMA VisitOpMove ==
    ASSUME BInv, IInv', VisitOp PROVE Kept
<1>1. PICK c \in 1 .. MaxStmts :
        /\ Enter("op", Operands(c))
        /\ Continue([j \in 1 .. c |-> Visit(NewKids(c)[j], Top.loop)]
                    \o <<Handler("OpEnd", c, Top.loop)>>)
        /\ UNCHANGED <<phase, ret, mir, mValue, mCond, mMerge>>
  BY DEF VisitOp
<1> DEFINE sort == IF ast[Top.node].sort = "lhs" THEN "lhs" ELSE "expr"
           fs == [j \in 1 .. c |-> Visit(NewKids(c)[j], Top.loop)]
           f == Handler("OpEnd", c, Top.loop)
           U == {Visit(NewKids(c)[j], Top.loop) : j \in 1 .. c} \cup {f}
           s == fs \o <<f>>
<1>2. /\ Operands(c) \in Seq(Sorts) /\ c \in Nat /\ Len(Operands(c)) = c
      /\ \A j \in 1 .. c : Operands(c)[j] = sort
  BY BoundsAssumption, OperandsOK DEF Operands
<1>3. IInv /\ "op" \in ExprKinds /\ phase = "gen" /\ phase' = "gen"
  BY <1>1 DEF ExprKinds, BInv, Enter
<1>4. /\ SortsKept /\ Pending(Top) = {} /\ Top.at = "Visit"
      /\ \A j \in 1 .. c : ast'[Len(ast) + j].sort = sort
      /\ ast[Top.node].sort # "stmt"
  BY <1>1, <1>2, <1>3, Entered
<1>5. /\ fs \in Seq(U) /\ Len(fs) = c
      /\ \A j \in 1 .. c : fs[j].at = "Visit" /\ fs[j].node = Len(ast) + j
  <2>1. fs \in Seq(U) /\ Len(fs) = c
    BY <1>2
  <2>2. \A j \in 1 .. c : NewKids(c)[j] = Len(ast) + j
    BY DEF NewKids
  <2>3. \A x : Visit(x, Top.loop).at = "Visit" /\ Visit(x, Top.loop).node = x
    BY DEF Visit, Frame
  <2>4. \A j \in 1 .. c : fs[j] = Visit(NewKids(c)[j], Top.loop)
    OBVIOUS
  <2> QED
    BY <2>1, <2>2, <2>3, <2>4
<1>6. <<f>> \in Seq(U) /\ Len(<<f>>) = 1 /\ <<f>>[1] = f
  OBVIOUS
<1>7. Continue(s)
  BY <1>1
<1>8. f.at = "OpEnd"
  BY HandlerAt
<1> DEFINE fr == <<f>>
<1> HIDE DEF f, fs, U, fr
<1>9. /\ s \in Seq(U) /\ Len(s) = c + 1
      /\ \A j \in 1 .. c : s[j] = fs[j]
      /\ s[c + 1] = f
  <2>1. fs \in Seq(U) /\ fr \in Seq(U)
    BY <1>5, <1>6 DEF fr
  <2>2. /\ fs \o fr \in Seq(U) /\ Len(fs \o fr) = Len(fs) + Len(fr)
        /\ \A j \in 1 .. Len(fs) : (fs \o fr)[j] = fs[j]
        /\ \A j \in 1 .. Len(fr) : (fs \o fr)[Len(fs) + j] = fr[j]
    BY ONLY <2>1, ConcatParts
  <2>3. Len(fr) = 1 /\ fr[1] = f /\ 1 \in 1 .. Len(fr) /\ Len(fs) = c
    BY <1>5, <1>6 DEF fr
  <2> QED
    BY <2>2, <2>3 DEF fr
<1> HIDE DEF s
<1>10. \A j \in 1 .. Len(s) :
          \/ s[j].at = "Visit" /\ ast'[s[j].node].sort = sort
          \/ s[j].at = "OpEnd"
  <2> TAKE j \in 1 .. Len(s)
  <2>1. CASE j \in 1 .. c
    <3>1. s[j] = fs[j] /\ fs[j].at = "Visit" /\ fs[j].node = Len(ast) + j
      BY <1>5, <1>9, <2>1
    <3> QED
      BY <1>4, <2>1, <3>1
  <2>2. CASE j = c + 1
    BY <1>8, <1>9, <2>2
  <2> QED
    BY <1>2, <1>9, <2>1, <2>2
<1>11. \A j \in 1 .. Len(s) : s[j].at \in Idle /\ ExprFrame(s[j], ast')
  BY <1>10 DEF Idle, ExprFrame
<1>12. LhsFrame(Top, ast) => \A j \in 1 .. Len(s) : LhsFrame(s[j], ast')
  <2>1. LhsFrame(Top, ast) => sort = "lhs"
    BY <1>4 DEF LhsFrame
  <2> QED
    BY <1>10, <2>1 DEF LhsFrame
<1> QED
  BY <1>1, <1>3, <1>4, <1>7, <1>9, <1>11, <1>12, SpreadMove

\* Code is emitted, and the handler returns.
LEMMA EmitMove ==
    ASSUME BInv, IInv', phase = "gen", phase' = "gen", Continue(<<>>), SortsKept,
           Top.at \in Idle, NEW n \in Nat,
           mir' \in {Emit(mir, Eval(n)), Emit(mir, Copy(n)), BuildRet(mir, n)}
    PROVE  Kept
<1>1. WellFormed(mir) /\ mir.insert # None
  BY InHandler DEF BInv
<1>2. PICK i \in {Eval(n), Copy(n), Ret(n)} : mir' = Emit(mir, i)
  BY DEF BuildRet
<1>3. i \in Inst /\ i.op # "phi"
  <2>1. Eval(n) \in Inst /\ Copy(n) \in Inst /\ Ret(n) \in Inst
    BY DEF Eval, Copy, Ret, Plain, Inst, InstOps, Terminators, None
  <2>2. Eval(n).op = "eval" /\ Copy(n).op = "copy" /\ Ret(n).op = "ret"
    BY DEF Eval, Copy, Ret, Plain
  <2> QED
    BY <2>1, <2>2
<1>4. Step(mir, mir', 0, {}, None, {}, {})
  BY <1>1, <1>2, <1>3, PlainStep
<1>5. Pending(Top) = {}
  BY IdleFits
<1>6. Leads({}, {})
  BY DEF Leads
<1> QED
  BY <1>4, <1>5, <1>6, ReturnMove

\* A handler that enters no node leaves the tree alone.
LEMMA SameTree ==
    ASSUME IInv, UNCHANGED ast PROVE SortsKept
BY DEF IInv, TypeOK, SortsKept

LEMMA ResultMove ==
    ASSUME BInv, IInv', RetValue \/ OpEnd PROVE Kept
<1>1. /\ phase = "gen" /\ Top.at \in Idle /\ Continue(<<>>)
      /\ phase' = "gen" /\ UNCHANGED ast
      /\ mir' \in {Emit(mir, Eval(Top.node)), Emit(mir, Copy(Top.node)),
                   BuildRet(mir, Top.node)}
  BY DEF RetValue, OpEnd, Resume, Idle
<1>2. IInv
  BY DEF BInv
<1>3. Top.node \in Nat
  BY <1>1, <1>2, InHandler DEF FrameType
<1>4. SortsKept
  BY <1>1, <1>2, SameTree
<1> QED
  BY <1>1, <1>3, <1>4, EmitMove

LEMMA VisitLeafMove ==
    ASSUME BInv, IInv', VisitLeaf \/ VisitRetVoid PROVE Kept
<1> DEFINE sorts == <<>>
<1>1. PICK kind \in {"leaf", "ret"} :
        /\ Enter(kind, sorts) /\ Continue(<<>>) /\ phase' = phase
        /\ mir' \in {Emit(mir, Eval(Top.node)), Emit(mir, Copy(Top.node)),
                     BuildRet(mir, Top.node)}
  BY DEF VisitLeaf, VisitRetVoid
<1>2. /\ IInv /\ phase = "gen" /\ Top.at = "Visit"
      /\ kind \in StmtKinds \cup ExprKinds /\ sorts \in Seq(Sorts)
  BY <1>1 DEF BInv, Enter, StmtKinds, ExprKinds
<1> HIDE DEF sorts
<1>3. SortsKept /\ Top.node \in Nat /\ Top.at \in Idle
  BY <1>1, <1>2, Entered, InHandler DEF FrameType, Idle
<1> QED
  BY <1>1, <1>2, <1>3, EmitMove

-----------------------------------------------------------------------------
(* The statements that branch.                                             *)

\* A handler may branch to the blocks that it owns or allocates.
LEMMA OwnLeads ==
    ASSUME BInv, phase = "gen", NEW k \in Nat, NEW F, NEW T, T \cap F = {},
           T \subseteq Pending(Top) \cup (Len(mir.code) + 1 .. Len(mir.code) + k)
    PROVE  Leads(T, F) /\ \A x \in T : ~InLayout(mir, x)
<1>1. WellFormed(mir)
  BY InHandler DEF BInv
<1>2. /\ Owned(stack, mir) /\ stack # <<>> /\ Top = Head(stack)
      /\ InLayout(mir, mir.insert)
  BY BRunning DEF Top
<1>3. stack \in Seq(FrameType(Len(ast), Len(mir.code)))
  BY DEF BInv, IInv, TypeOK
<1>4. \A x \in T : /\ ~InLayout(mir, x) /\ x \notin mir.freed
                   /\ \A j \in 2 .. Len(stack) : x \notin Pending(stack[j])
  BY <1>1, <1>2, <1>3, OwnBlocks
<1> QED
  BY <1>2, <1>4 DEF Leads

\* The jumps of 'break' and 'continue' lead into the loop whose body is being
\* lowered; its merge block is used, its condition has been left.
LEMMA JumpsMove ==
    ASSUME BInv, IInv', VisitBreak \/ VisitContinue PROVE Kept
<1> DEFINE sorts == <<>>
<1>1. PICK d \in {mCond, mMerge}, kind \in {"break", "continue"} :
        /\ Enter(kind, sorts) /\ Top.loop /\ mir' = BuildJmp(mir, d)
        /\ Continue(<<>>) /\ phase' = phase
  BY DEF VisitBreak, VisitContinue
<1>2. /\ IInv /\ phase = "gen" /\ kind \in StmtKinds /\ sorts \in Seq(Sorts)
  BY <1>1 DEF BInv, Enter, StmtKinds
<1> HIDE DEF sorts
<1>3. /\ SortsKept /\ Pending(Top) = {} /\ Top.at = "Visit"
      /\ ~ExprFrame(Top, ast)
  BY <1>1, <1>2, Entered
<1>4. /\ WellFormed(mir) /\ mir.insert # None
      /\ LoopsOK(stack, mCond, mMerge)
  BY <1>2, InHandler
<1>5. /\ Owned(stack, mir) /\ Nested(stack, ast) /\ InLayout(mir, mir.insert)
      /\ Top = stack[1] /\ Len(stack) \in Nat \ {0}
      /\ \A j \in 1 .. Len(stack) : FrameFits(stack[j], mir, ast)
  BY <1>2, BRunning
<1>6. PICK h \in 1 .. Len(stack) :
        /\ IsLoop(stack[h]) /\ mCond = stack[h].from /\ mMerge = stack[h].merge
  <2>1. 1 \in 1 .. Len(stack)
    BY <1>5
  <2>2. \E j \in 1 .. Len(stack) : IsLoop(stack[j])
    BY <1>1, <1>4, <1>5, <2>1 DEF LoopsOK, InsideLoop
  <2>3. 0 + 1 = 1
    OBVIOUS
  <2> QED
    BY <1>4, <2>2, <2>3 DEF LoopsOK, Enclosing
<1>7. stack[h].at = "UntilBodyEnd"
  <2>1. 1 \in 1 .. Len(stack) /\ (h = 1 \/ 1 < h)
    BY <1>5
  <2>2. stack[h].at # "UntilBranch"
    BY <1>3, <1>5, <2>1 DEF Nested
  <2> QED
    BY <1>6, <2>2 DEF IsLoop
<1>8. /\ InLayout(mir, mCond) /\ mCond # mir.insert
      /\ mMerge \in Pending(stack[h])
  BY <1>5, <1>6, <1>7 DEF FrameFits, Pending
<1>9. /\ \A x, j : j \in 1 .. Len(stack) /\ x \in Pending(stack[j]) =>
                     x \in Blocks(mir) /\ ~InLayout(mir, x) /\ x \notin mir.freed
      /\ mCond \notin mir.freed
  BY <1>5, <1>8 DEF Owned, PendingIn
<1>10. \A j \in 2 .. Len(stack) : d \in Pending(stack[j]) => IsLoop(stack[j])
  <2> SUFFICES ASSUME NEW j \in 2 .. Len(stack), d \in Pending(stack[j])
               PROVE  IsLoop(stack[j])
    OBVIOUS
  <2>1. j \in 1 .. Len(stack)
    BY <1>5
  <2>2. d = mMerge
    BY <1>8, <1>9, <2>1
  <2>3. j = h
    BY <1>5, <1>8, <2>1, <2>2 DEF Owned, Apart
  <2> QED
    BY <1>6, <2>3
<1>11. Leads({d}, {})
  BY <1>5, <1>6, <1>8, <1>9, <1>10 DEF Leads
<1>12. d \in Blocks(mir)
  <2>1. mCond \in Blocks(mir)
    BY <1>4, <1>8 DEF InLayout, WellFormed, BodyOK
  <2> QED
    BY <1>8, <1>9, <2>1
<1>13. Step(mir, mir', 0, {d}, None, {}, {})
  BY <1>1, <1>4, <1>12, JmpStep
<1> DEFINE fs == <<>>
<1> QED
  BY <1>1, <1>2, <1>3, <1>11, <1>13, ReturnMove

\* The frame that replaces the one of a handler that continues.
LEMMA Resumed ==
    ASSUME IInv, phase = "gen", NEW at, NEW i, NEW x, NEW y
    PROVE  /\ LET f == [Top EXCEPT !.at = at] IN
              /\ f.at = at /\ f.kids = Top.kids /\ f.i = Top.i
              /\ f.merge = Top.merge /\ f.alt = Top.alt /\ f.from = Top.from
           /\ LET f == [Top EXCEPT !.at = at, !.i = i] IN
              /\ f.at = at /\ f.kids = Top.kids /\ f.i = i
              /\ f.merge = Top.merge /\ f.alt = Top.alt
           /\ LET f == [Top EXCEPT !.at = at, !.merge = x, !.alt = y] IN
              /\ f.at = at /\ f.kids = Top.kids /\ f.merge = x /\ f.alt = y
           /\ LET f == [Top EXCEPT !.at = at, !.i = i, !.merge = x, !.alt = y] IN
              /\ f.at = at /\ f.kids = Top.kids /\ f.i = i
              /\ f.merge = x /\ f.alt = y
<1>1. Top \in FrameType(Len(ast), Len(mir.code))
  BY InHandler
<1> QED
  BY <1>1 DEF FrameType

\* A handler of a statement that waits for the next arm.
LEMMA ArmMove ==
    ASSUME BInv, IInv', phase = "gen", phase' = "gen", UNCHANGED ast,
           Top.at \notin {"Visit", "OpEnd", "LogicLhs", "LogicRhs"},
           NEW j, NEW b, Continue(<<VisitKid(j), b>>),
           b.at \in {"IfThenEnd", "IfElseEnd", "MatchCompare", "MatchCaseEnd",
                     "MatchDefaultEnd"},
           NEW k \in Nat, NEW T, NEW o, Step(mir, mir', k, T, o, {}, {}),
           Pending(b) \cup ({o} \ {None})
             = Pending(Top) \cup (Len(mir.code) + 1 .. Len(mir.code) + k),
           o \notin Pending(b), Leads(T, {}),
           FrameFits(b, mir', ast')
    PROVE  Kept
<1>1. SortsKept
  BY SameTree DEF BInv
<1>2. ~ExprFrame(Top, ast) /\ ~LhsFrame(Top, ast)
  BY DEF ExprFrame, LhsFrame
<1>3. PhiFits(b, mir')
  BY DEF PhiFits, IsLoop
<1>4. VisitKid(j).at = "Visit"
  BY DEF VisitKid, Visit, Frame
<1> QED
  BY <1>1, <1>2, <1>3, <1>4, CallMove

LEMMA IfBranchMove ==
    ASSUME BInv, IInv', IfBranch PROVE Kept
<1> DEFINE c    == Len(mir.code)
           else == HasElse(Top.kids)
           k    == IF else THEN 3 ELSE 2
           t    == c + 1
           e    == IF else THEN c + 3 ELSE None
           f    == IF else THEN c + 3 ELSE c + 2
           b    == [Top EXCEPT !.at = "IfThenEnd", !.merge = c + 2, !.alt = e]
<1>1. /\ phase = "gen" /\ Top.at = "IfBranch" /\ phase' = "gen" /\ UNCHANGED ast
      /\ mir' = SetInsert(BuildBrif(AppendBlock(NewBlocks(mir, k), t),
                                    mValue, t, f), t)
      /\ Continue(<<VisitKid(2), b>>)
  BY DEF IfBranch, Resume
<1>2. /\ IInv /\ WellFormed(mir) /\ mir.insert # None /\ c \in Nat
      /\ mValue \in Nat
  BY <1>1, InHandler DEF BInv
<1>3. /\ b.at = "IfThenEnd" /\ b.kids = Top.kids /\ b.merge = c + 2 /\ b.alt = e
  BY <1>1, <1>2, Resumed
<1> HIDE DEF b
<1>4. Step(mir, mir', k, {t, f}, t, {}, {})
  <2>1. k \in Nat /\ t \in 1 .. c + k /\ f \in 1 .. c + k
    <3> HIDE DEF c, else
    <3>1. CASE else
      BY <1>2, <3>1
    <3>2. CASE ~else
      BY <1>2, <3>2
    <3> QED
      BY <3>1, <3>2
  <2> HIDE DEF k, t, f
  <2> QED
    BY <1>1, <1>2, <2>1, ForkStep
<1>5. Pending(Top) = {}
  BY <1>1, IdleFits DEF Idle
<1>6. Pending(b) \cup ({t} \ {None}) = c + 1 .. c + k /\ t \notin Pending(b)
  <2>1. CASE else
    <3>1. Pending(b) = {c + 2, c + 3}
      BY <1>3, <2>1 DEF Pending
    <3> HIDE DEF c, else
    <3>2. c + 1 .. c + k = {c + 1, c + 2, c + 3}
      BY <1>2, <2>1
    <3>3. t # 0 /\ t \notin Pending(b)
      BY <1>2, <3>1
    <3> QED
      BY <3>1, <3>2, <3>3 DEF None
  <2>2. CASE ~else
    <3>1. Pending(b) = {c + 2}
      BY <1>3, <2>2 DEF Pending
    <3> HIDE DEF c, else
    <3>2. c + 1 .. c + k = {c + 1, c + 2}
      BY <1>2, <2>2
    <3>3. t # 0 /\ t \notin Pending(b)
      BY <1>2, <3>1
    <3> QED
      BY <3>1, <3>2, <3>3 DEF None
  <2> QED
    BY <2>1, <2>2
<1>7. Leads({t, f}, {})
  <2>1. {t, f} \subseteq Pending(Top) \cup (c + 1 .. c + k) /\ k \in Nat
    BY <1>2
  <2> QED
    BY <1>1, <2>1, OwnLeads
<1>8. FrameFits(b, mir', ast')
  BY <1>2, <1>3 DEF FrameFits, IsLoop
<1> QED
  BY <1>1, <1>2, <1>3, <1>4, <1>5, <1>6, <1>7, <1>8, ArmMove

\* An arm is closed with a jump to the merge block, and another block opened.
LEMMA NextArmStep ==
    ASSUME IInv, phase = "gen", Top.merge # None, NEW o \in Blocks(mir)
    PROVE  \E T \in SUBSET {Top.merge} :
              Step(mir, SetInsert(AppendBlock(JmpIfOpen(mir, Top.merge), o), o),
                   0, T, o, {}, {})
<1> DEFINE n == JmpIfOpen(mir, Top.merge)
<1>1. /\ WellFormed(mir) /\ mir.insert # None
      /\ Top.merge \in Blocks(mir)
  BY InHandler DEF FrameType, Blocks, None
<1>2. WellFormed(n) /\ Len(n.code) = Len(mir.code)
  BY <1>1, JmpIfOpenOK
<1>3. PICK T \in SUBSET {Top.merge} :
         Step(mir, n, 0, T, None, {}, {}) /\ HasTerminator(n, mir.insert)
  BY <1>1, JmpIfOpenStep
<1> HIDE DEF n
<1>4. o \in Blocks(n)
  BY <1>2 DEF Blocks
<1>5. Step(mir, SetInsert(AppendBlock(n, o), o), 0, T, o, {}, {})
  BY <1>1, <1>2, <1>3, <1>4, OpenThen
<1> QED
  BY <1>5 DEF n

\* The merge block of 'if' and 'match' is opened, or deleted when nothing
\* branches to it.
LEMMA MergeMove ==
    ASSUME BInv, IInv', phase = "gen", phase' = "gen", UNCHANGED ast,
           Continue(<<>>), Top.merge # None, Pending(Top) = {Top.merge},
           mir' = EmitMerge(JmpIfOpen(mir, Top.merge), Top.merge)
    PROVE  Kept
<1> DEFINE b == Top.merge
           n == JmpIfOpen(mir, b)
<1>1. IInv /\ SortsKept
  BY SameTree DEF BInv
<1>2. /\ WellFormed(mir) /\ mir.insert # None /\ b \in Blocks(mir)
      /\ Len(mir.code) \in Nat
  BY <1>1, InHandler DEF FrameType, Blocks, None
<1>3. WellFormed(n) /\ Len(n.code) = Len(mir.code)
  BY <1>2, JmpIfOpenOK
<1>4. Len(mir.code) + 1 .. Len(mir.code) + 0 = {}
  BY <1>2
<1>5. CASE HasPreds(n, b)
  <2>1. PICK T \in SUBSET {b} : Step(mir, mir', 0, T, b, {}, {})
    BY <1>1, <1>2, <1>5, NextArmStep DEF EmitMerge
  <2>2. Leads(T, {})
    BY <1>4, OwnLeads
  <2> QED
    BY <1>1, <2>1, <2>2, ReturnMove
<1>6. CASE ~HasPreds(n, b)
  <2>1. mir' = FreeBlock(n, b)
    BY <1>6 DEF EmitMerge
  <2>2. PICK T \in SUBSET {b} : Step(mir, n, 0, T, None, {}, {})
    BY <1>2, JmpIfOpenStep
  <2> HIDE DEF n, b
  <2>3. n.preds[b] = {}
    BY <1>6 DEF HasPreds
  <2>4. T = {}
    <3>1. b \in Blocks(n)
      BY <1>2, <1>3 DEF Blocks
    <3>2. b \notin T
      BY <2>2, <2>3, <3>1 DEF Step
    <3> QED
      BY <3>2
  <2>5. Step(mir, mir', 0, {}, None, {b}, {})
    BY <1>2, <1>3, <2>1, <2>2, <2>4, FreeThen
  <2>6. mir'.preds[b] = {}
    BY <1>3, <2>1, <2>3, BodyFields DEF FreeBlock, BodyType
  <2>7. Leads({}, {b})
    BY DEF Leads
  <2>8. None \notin {b}
    BY DEF b
  <2> QED
    BY <1>1, <2>5, <2>6, <2>7, <2>8, ReturnMove DEF b
<1> QED
  BY <1>5, <1>6

LEMMA IfThenEndMove ==
    ASSUME BInv, IInv', IfThenEnd PROVE Kept
<1>1. /\ phase = "gen" /\ phase' = "gen" /\ Top.at = "IfThenEnd"
      /\ UNCHANGED ast
  BY DEF IfThenEnd, Resume
<1>2. IInv /\ Top.merge # None /\ WellFormed(mir) /\ Len(mir.code) \in Nat
  BY <1>1, InHandler DEF BInv, FrameReady
<1>3. CASE HasElse(Top.kids)
  <2> DEFINE b == [Top EXCEPT !.at = "IfElseEnd"]
             o == Top.alt
  <2>1. /\ mir' = SetInsert(AppendBlock(JmpIfOpen(mir, Top.merge), o), o)
        /\ Continue(<<VisitKid(3), b>>)
    BY <1>3 DEF IfThenEnd
  <2>2. b.at = "IfElseEnd" /\ b.merge = Top.merge
    BY <1>1, <1>2, Resumed
  <2> HIDE DEF b
  <2>3. o \in Blocks(mir) /\ o # None
    BY <1>1, <1>2, <1>3, InHandler DEF FrameReady, FrameType, Blocks, None
  <2>4. o # Top.merge
    BY <1>1, <1>3, BRunning DEF FrameFits
  <2>5. PICK T \in SUBSET {Top.merge} : Step(mir, mir', 0, T, o, {}, {})
    BY <1>1, <1>2, <2>1, <2>3, NextArmStep
  <2>6. Pending(Top) = {Top.merge, o} /\ Pending(b) = {Top.merge}
    BY <1>1, <1>3, <2>2 DEF Pending
  <2>7. Leads(T, {})
    BY <1>1, <2>6, OwnLeads
  <2>8. FrameFits(b, mir', ast')
    BY <2>2 DEF FrameFits, IsLoop
  <2>9. Len(mir.code) + 1 .. Len(mir.code) + 0 = {}
    BY <1>2
  <2> HIDE DEF o
  <2> QED
    BY <1>1, <2>1, <2>2, <2>3, <2>4, <2>5, <2>6, <2>7, <2>8, <2>9, ArmMove
<1>4. CASE ~HasElse(Top.kids)
  <2>1. mir' = EmitMerge(JmpIfOpen(mir, Top.merge), Top.merge) /\ Continue(<<>>)
    BY <1>4 DEF IfThenEnd
  <2>2. Pending(Top) = {Top.merge}
    BY <1>1, <1>4 DEF Pending
  <2> QED
    BY <1>1, <1>2, <2>1, <2>2, MergeMove
<1> QED
  BY <1>3, <1>4

\* The last arm of 'if' or 'match'.
LEMMA LastArmMove ==
    ASSUME BInv, IInv', IfElseEnd \/ MatchDefaultEnd PROVE Kept
<1>1. /\ phase = "gen" /\ phase' = "gen" /\ UNCHANGED ast
      /\ Top.at \in {"IfElseEnd", "MatchDefaultEnd"}
      /\ mir' = EmitMerge(JmpIfOpen(mir, Top.merge), Top.merge) /\ Continue(<<>>)
  BY DEF IfElseEnd, MatchDefaultEnd, Resume
<1>2. Top.merge # None
  BY <1>1, InHandler DEF BInv, FrameReady
<1>3. Pending(Top) = {Top.merge}
  BY <1>1 DEF Pending
<1> QED
  BY <1>1, <1>2, <1>3, MergeMove

LEMMA MatchChainsMove ==
    ASSUME BInv, IInv', MatchChains PROVE Kept
<1> DEFINE c == Len(mir.code)
           d == IF HasDefault(Top.kids) THEN 2 ELSE 1
           k == Cases(Top.kids) + d
           f == [Top EXCEPT !.at = "MatchCompare", !.i = 1,
                            !.merge = c + 1, !.alt = c + d]
           o == ChainBB(f, 1)
<1>1. /\ phase = "gen" /\ Top.at = "MatchChains" /\ phase' = "gen"
      /\ UNCHANGED ast
      /\ mir' = OpenChain(BuildJmp(NewBlocks(mir, k), o), f)
      /\ Continue(<<VisitKid(2), f>>)
  BY DEF MatchChains, Resume
<1>2. /\ IInv /\ WellFormed(mir) /\ mir.insert # None /\ c \in Nat
      /\ Cases(Top.kids) \in Nat \ {0}
  BY <1>1, InHandler DEF BInv, FrameReady
<1>3. /\ f.at = "MatchCompare" /\ f.kids = Top.kids /\ f.i = 1
      /\ f.merge = c + 1 /\ f.alt = c + d
  BY <1>1, <1>2, Resumed
<1>4. o = c + d + 1 /\ mir' = SetInsert(AppendBlock(BuildJmp(NewBlocks(mir, k), o), o), o)
  BY <1>1, <1>3 DEF OpenChain, ChainBB
<1> DEFINE n == Cases(Top.kids)
<1>5. d \in {1, 2} /\ n \in Nat \ {0} /\ k = n + d
  BY <1>2
<1> HIDE DEF f, o
<1>6. Pending(f) = {c + 1, c + d} \cup (c + d + 2 .. c + d + n)
  BY <1>2, <1>3, <1>5 DEF Pending
<1>7. Pending(Top) = {}
  BY <1>1, IdleFits DEF Idle
<1>8. FrameFits(f, mir', ast')
  <2>1. f.alt = IF HasDefault(f.kids) THEN f.merge + 1 ELSE f.merge
    <3>1. HasDefault(f.kids) <=> HasDefault(Top.kids)
      BY <1>3
    <3> HIDE DEF c
    <3>2. c + 2 = (c + 1) + 1
      BY <1>2
    <3> QED
      BY <1>3, <3>1, <3>2
  <2> QED
    BY <1>3, <2>1 DEF FrameFits, IsLoop
<1> HIDE DEF d, k, n
<1>9. Step(mir, mir', k, {o}, o, {}, {})
  <2>1. k \in Nat /\ o \in 1 .. c + k
    <3> HIDE DEF c
    <3> QED
      BY <1>2, <1>4, <1>5
  <2> QED
    BY <1>2, <1>4, <2>1, GotoStep
<1> HIDE DEF c
<1>10. Pending(f) \cup ({o} \ {None}) = c + 1 .. c + k /\ o \notin Pending(f)
  <2>1. o # 0 /\ o \notin Pending(f)
    BY <1>2, <1>4, <1>5, <1>6
  <2>2. c + 1 .. c + k = {c + 1, c + d, c + d + 1} \cup (c + d + 2 .. c + d + n)
    BY <1>2, <1>5
  <2> QED
    BY <1>4, <1>6, <2>1, <2>2 DEF None
<1>11. Leads({o}, {})
  <2>1. k \in Nat /\ o # None
    BY <1>2, <1>4, <1>5 DEF None
  <2>2. {o} \subseteq Pending(Top) \cup (Len(mir.code) + 1 .. Len(mir.code) + k)
    BY <1>10, <2>1 DEF c
  <2> QED
    BY <1>1, <2>1, <2>2, OwnLeads
<1>12. k \in Nat
  BY <1>5
<1> QED
  BY <1>1, <1>3, <1>7, <1>8, <1>9, <1>10, <1>11, <1>12, ArmMove DEF c

LEMMA MatchCompareMove ==
    ASSUME BInv, IInv', MatchCompare PROVE Kept
<1> DEFINE c == Len(mir.code)
           o == c + 1
           x == NextBB(Top)
           b == [Top EXCEPT !.at = "MatchCaseEnd"]
<1>1. /\ phase = "gen" /\ Top.at = "MatchCompare" /\ phase' = "gen"
      /\ UNCHANGED ast
      /\ mir' = SetInsert(BuildBrif(AppendBlock(NewBlocks(mir, 1), o),
                                    mValue, o, x), o)
      /\ Continue(<<VisitKid(2 * Top.i + 1), b>>)
  BY DEF MatchCompare, Resume
<1>2. /\ IInv /\ WellFormed(mir) /\ mir.insert # None /\ c \in Nat
      /\ mValue \in Nat
      /\ Top.i \in 1 .. Cases(Top.kids) /\ Top.kids \in Seq(Nat)
      /\ Top.alt \in Nat
  BY <1>1, InHandler DEF BInv, FrameReady, FrameType
<1>3. /\ b.at = "MatchCaseEnd" /\ b.kids = Top.kids /\ b.i = Top.i
      /\ b.merge = Top.merge /\ b.alt = Top.alt
  BY <1>1, <1>2, Resumed
<1> HIDE DEF b
<1>4. Pending(b) = Pending(Top)
  BY <1>1, <1>3 DEF Pending
<1>5. FrameFits(b, mir', ast')
  BY <1>1, <1>3, BRunning DEF FrameFits, IsLoop
<1>6. x \in Pending(Top)
  <2> DEFINE n == Cases(Top.kids)
             i == Top.i
             a == Top.alt
  <2>1. Pending(Top) = {Top.merge, a} \cup (a + i + 1 .. a + n)
    BY <1>1 DEF Pending
  <2>2. n \in Int
    BY <1>2, CasesOK
  <2>3. \/ i # n /\ x = a + (i + 1)
        \/ x \in {Top.merge, a}
    BY DEF NextBB, ChainBB, DefBB
  <2>4. i \in 1 .. n /\ a \in Nat
    BY <1>2
  <2> HIDE DEF n, i, a, x
  <2>5. i # n => a + (i + 1) \in a + i + 1 .. a + n
    BY <2>2, <2>4
  <2> QED
    BY <2>1, <2>3, <2>5
<1> HIDE DEF x
<1>7. x \in Blocks(mir) /\ \A y \in Pending(Top) : y \in Blocks(mir)
  <2>1. \A y : PendingIn(stack, y) => y \in Blocks(mir)
    BY <1>1, BRunning DEF Owned
  <2>2. Top = stack[1] /\ 1 \in 1 .. Len(stack)
    BY <1>1, BRunning
  <2> QED
    BY <1>6, <2>1, <2>2 DEF PendingIn
<1>8. Step(mir, mir', 1, {o, x}, o, {}, {})
  <2>1. o \in 1 .. c + 1 /\ x \in 1 .. c + 1
    BY <1>2, <1>7 DEF Blocks
  <2> HIDE DEF o
  <2> QED
    BY <1>1, <1>2, <2>1, ForkStep
<1>9. c + 1 .. c + 1 = {o} /\ o # None /\ o \notin Pending(Top)
  BY <1>2, <1>7 DEF Blocks, None
<1>10. Leads({o, x}, {})
  BY <1>1, <1>6, <1>9, OwnLeads
<1> HIDE DEF o
<1>11. Pending(b) \cup ({o} \ {None})
          = Pending(Top) \cup (Len(mir.code) + 1 .. Len(mir.code) + 1)
  BY <1>4, <1>9
<1> QED
  BY <1>1, <1>3, <1>4, <1>5, <1>8, <1>9, <1>10, <1>11, ArmMove

LEMMA MatchCaseEndMove ==
    ASSUME BInv, IInv', MatchCaseEnd PROVE Kept
<1> DEFINE m == Top.merge
           n == Cases(Top.kids)
           i == Top.i
           a == Top.alt
<1>1. /\ phase = "gen" /\ phase' = "gen" /\ Top.at = "MatchCaseEnd"
      /\ UNCHANGED ast
  BY DEF MatchCaseEnd, Resume
<1>2. IInv /\ m # None /\ WellFormed(mir) /\ Len(mir.code) \in Nat
  BY <1>1, InHandler DEF BInv, FrameReady
<1>3. /\ i \in 1 .. n /\ Top.kids \in Seq(Nat)
      /\ m \in Nat /\ a \in Nat /\ a # None
  BY <1>1, <1>2, InHandler DEF FrameReady, FrameType
<1>4. n \in Int
  BY <1>3, CasesOK
<1>5. a = IF HasDefault(Top.kids) THEN m + 1 ELSE m
  BY <1>1, BRunning DEF FrameFits
<1>6. Pending(Top) = {m, a} \cup (a + i + 1 .. a + n)
  BY <1>1 DEF Pending
<1>7. \A x \in Pending(Top) : x \in Blocks(mir)
  <2>1. \A y : PendingIn(stack, y) => y \in Blocks(mir)
    BY <1>1, BRunning DEF Owned
  <2>2. Top = stack[1] /\ 1 \in 1 .. Len(stack)
    BY <1>1, BRunning
  <2> QED
    BY <2>1, <2>2 DEF PendingIn
<1>8. Len(mir.code) + 1 .. Len(mir.code) + 0 = {}
  BY <1>2
<1>9. \A T \in SUBSET {m} : Leads(T, {})
  BY <1>1, <1>6, <1>8, OwnLeads
<1>10. CASE i < n
  <2> DEFINE o == a + (i + 1)
             b == [Top EXCEPT !.at = "MatchCompare", !.i = i + 1]
  <2>1. b = [Top EXCEPT !.at = "MatchCompare", !.i = @ + 1]
    BY <1>1, <1>2, InHandler DEF FrameType
  <2>2. /\ mir' = OpenChain(JmpIfOpen(mir, m), b)
        /\ Continue(<<VisitKid(2 * Top.i + 2), b>>)
    <3>1. Top.i # Cases(Top.kids)
      BY <1>3, <1>4, <1>10
    <3> QED
      BY <2>1, <3>1 DEF MatchCaseEnd
  <2>3. /\ b.at = "MatchCompare" /\ b.kids = Top.kids /\ b.i = i + 1
        /\ b.merge = m /\ b.alt = a
    BY <1>1, <1>2, Resumed
  <2> HIDE DEF b
  <2>4. mir' = SetInsert(AppendBlock(JmpIfOpen(mir, m), o), o)
    BY <2>2, <2>3 DEF OpenChain, ChainBB
  <2>5. Pending(b) = {m, a} \cup (a + (i + 1) + 1 .. a + n)
    BY <2>3 DEF Pending
  <2>6. FrameFits(b, mir', ast')
    BY <1>5, <2>3 DEF FrameFits, IsLoop
  <2>7. /\ a + i + 1 .. a + n = {o} \cup (a + (i + 1) + 1 .. a + n)
        /\ o \notin Pending(b) /\ o # None
    <3> HIDE DEF m, n, i, a
    <3>1. a + i + 1 .. a + n = {o} \cup (a + (i + 1) + 1 .. a + n)
      BY <1>3, <1>4, <1>10
    <3>2. o # m /\ o # a
      BY <1>3, <1>5
    <3>3. o \notin a + (i + 1) + 1 .. a + n /\ o # 0
      BY <1>3, <1>4
    <3> QED
      BY <2>5, <3>1, <3>2, <3>3 DEF None
  <2> HIDE DEF o
  <2>8. Pending(b) \cup ({o} \ {None})
          = Pending(Top) \cup (Len(mir.code) + 1 .. Len(mir.code) + 0)
    BY <1>6, <1>8, <2>5, <2>7
  <2>9. o \in Blocks(mir)
    BY <1>7, <1>8, <2>7, <2>8
  <2>10. PICK T \in SUBSET {m} : Step(mir, mir', 0, T, o, {}, {})
    BY <1>1, <1>2, <2>4, <2>9, NextArmStep
  <2>11. Leads(T, {})
    BY <1>9
  <2> QED
    BY <1>1, <2>2, <2>3, <2>6, <2>7, <2>8, <2>10, <2>11, ArmMove
<1>11. CASE i = n
  <2>1. a + i + 1 .. a + n = {}
    <3> HIDE DEF a, i, n
    <3> QED
      BY <1>3, <1>4, <1>11
  <2>2. CASE HasDefault(Top.kids)
    <3> DEFINE b == [Top EXCEPT !.at = "MatchDefaultEnd"]
    <3>1. /\ mir' = SetInsert(AppendBlock(JmpIfOpen(mir, m), a), a)
          /\ Continue(<<VisitKid(Len(Top.kids)), b>>)
      BY <1>3, <1>11, <2>2 DEF MatchCaseEnd, DefBB
    <3>2. b.at = "MatchDefaultEnd" /\ b.merge = m
      BY <1>1, <1>2, Resumed
    <3> HIDE DEF b
    <3>3. Pending(b) = {m} /\ FrameFits(b, mir', ast')
      BY <3>2 DEF Pending, FrameFits, IsLoop
    <3>4. a \in Blocks(mir)
      BY <1>6, <1>7
    <3>5. PICK T \in SUBSET {m} : Step(mir, mir', 0, T, a, {}, {})
      BY <1>1, <1>2, <3>1, <3>4, NextArmStep
    <3>6. Leads(T, {})
      BY <1>9
    <3>7. a # m
      BY <1>3, <1>5, <2>2
    <3>8. Pending(b) \cup ({a} \ {None})
            = Pending(Top) \cup (Len(mir.code) + 1 .. Len(mir.code) + 0)
      BY <1>3, <1>6, <1>8, <2>1, <3>3
    <3> HIDE DEF a, m
    <3> QED
      BY <1>1, <3>1, <3>2, <3>3, <3>5, <3>6, <3>7, <3>8, ArmMove
  <2>3. CASE ~HasDefault(Top.kids)
    <3>1. mir' = EmitMerge(JmpIfOpen(mir, m), m) /\ Continue(<<>>)
      BY <1>3, <1>11, <2>3 DEF MatchCaseEnd
    <3>2. Pending(Top) = {m}
      BY <1>5, <1>6, <2>1, <2>3
    <3> QED
      BY <1>1, <1>2, <3>1, <3>2, MergeMove
  <2> QED
    BY <2>2, <2>3
<1> QED
  BY <1>3, <1>4, <1>10, <1>11

-----------------------------------------------------------------------------
(* Loops.                                                                  *)

\* Nothing is lowered between the condition of a loop and the branch on it
\* but an expression.
LEMMA VisitUntilMove ==
    ASSUME BInv, IInv', VisitUntil PROVE Kept
<1> DEFINE c == Len(mir.code)
           o == c + 1
           sorts == <<"expr", "stmt">>
           g == Handler("UntilBranch", 2, TRUE)
           b == [g EXCEPT !.merge = c + 3, !.alt = c + 2, !.from = c + 1,
                          !.oldCond = mCond, !.oldMerge = mMerge]
<1>1. /\ Enter("until", sorts) /\ phase' = phase
      /\ mir' = SetInsert(BuildJmp(AppendBlock(NewBlocks(mir, 3), o), o), o)
      /\ Continue(<<First(TRUE), b>>)
  BY DEF VisitUntil
<1>2. /\ IInv /\ phase = "gen" /\ "until" \in StmtKinds /\ sorts \in Seq(Sorts)
      /\ Len(sorts) = 2 /\ sorts[1] = "expr"
  BY <1>1 DEF BInv, Enter, StmtKinds, Sorts
<1> HIDE DEF sorts
<1>3. /\ SortsKept /\ Pending(Top) = {}
      /\ ~ExprFrame(Top, ast) /\ ~LhsFrame(Top, ast)
      /\ ast'[Len(ast) + 1].sort = "expr"
  BY <1>1, <1>2, Entered
<1>4. First(TRUE).at = "Visit" /\ First(TRUE).node = Len(ast) + 1
  BY DEF First, Visit, Frame
<1>5. ExprFrame(First(TRUE), ast')
  BY <1>3, <1>4 DEF ExprFrame
<1>6. /\ b.at = "UntilBranch" /\ b.merge = c + 3 /\ b.alt = c + 2
      /\ b.from = c + 1
  BY DEF Handler, Frame
<1> HIDE DEF g, b
<1>7. WellFormed(mir) /\ WellFormed(mir') /\ mir.insert # None /\ c \in Nat
  <2>1. WellFormed(mir')
    BY DEF IInv, TypeOK, EdgesMirror, WellFormed
  <2> QED
    BY <1>2, <2>1, InHandler
<1>8. Step(mir, mir', 3, {o}, o, {}, {})
  <2>1. o \in 1 .. c + 3
    BY <1>7
  <2> HIDE DEF o
  <2> QED
    BY <1>1, <1>7, <2>1, GotoStep
<1>9. Pending(b) = {c + 2, c + 3} /\ o # None /\ o \notin Pending(b)
  <2>1. Pending(b) = {c + 2, c + 3}
    BY <1>6 DEF Pending
  <2> HIDE DEF c
  <2> QED
    BY <1>7, <2>1 DEF None
<1>10. c + 1 .. c + 3 = {o, c + 2, c + 3}
  <2> HIDE DEF c
  <2> QED
    BY <1>7
<1>11. Leads({o}, {})
  BY <1>2, <1>10, OwnLeads
<1>12. /\ Blocks(mir') = 1 .. c + 3 /\ Blocks(mir) = 1 .. c
       /\ InLayout(mir', o)
  BY <1>7, <1>8, <1>9, LayoutStep DEF Blocks
<1>13. FrameFits(b, mir', ast')
  <2>1. c + 2 # c + 3
    BY <1>7
  <2> QED
    BY <1>6, <1>12, <2>1 DEF FrameFits
<1>14. PhiFits(b, mir')
  <2>1. o \in Blocks(mir') /\ o \notin Blocks(mir)
    BY <1>7, <1>12
  <2>2. \A p : ~PhiIn(mir', o, p)
    BY <1>8, <2>1 DEF Step
  <2> QED
    BY <1>6, <2>2 DEF PhiFits
<1>15. Pending(b) \cup ({o} \ {None})
          = Pending(Top) \cup (Len(mir.code) + 1 .. Len(mir.code) + 3)
  BY <1>3, <1>9, <1>10
<1> HIDE DEF o
<1> QED
  BY <1>1, <1>2, <1>3, <1>4, <1>5, <1>6, <1>8, <1>9, <1>11, <1>13, <1>14,
     <1>15, CallMove

LEMMA UntilBranchMove ==
    ASSUME BInv, IInv', UntilBranch PROVE Kept
<1> DEFINE x == Top.merge
           o == Top.alt
           n == BuildBrif(mir, mValue, x, o)
           b == [Top EXCEPT !.at = "UntilBodyEnd"]
<1>1. /\ phase = "gen" /\ phase' = "gen" /\ Top.at = "UntilBranch"
      /\ UNCHANGED ast
      /\ mir' = SetInsert(AppendBlock(n, o), o)
      /\ Continue(<<VisitKid(2), b>>)
  BY DEF UntilBranch, Resume
<1>2. /\ IInv /\ WellFormed(mir) /\ WellFormed(mir') /\ mir.insert # None
      /\ mValue \in Nat
      /\ Len(mir.code) \in Nat
  <2>1. WellFormed(mir')
    BY DEF IInv, TypeOK, EdgesMirror, WellFormed
  <2> QED
    BY <1>1, <2>1, InHandler DEF BInv
<1>3. x \in Blocks(mir) /\ o \in Blocks(mir) /\ o # None
  BY <1>1, <1>2, InHandler DEF FrameReady, FrameType, Blocks, None
<1>4. /\ b.at = "UntilBodyEnd" /\ b.merge = x /\ b.from = Top.from
  BY <1>1, <1>2, Resumed
<1> HIDE DEF b
<1>5. Step(mir, mir', 0, {x, o}, o, {}, {})
  <2>1. /\ Step(mir, n, 0, {x, o}, None, {}, {})
        /\ HasTerminator(n, mir.insert)
    BY <1>2, <1>3, BrifStep
  <2>2. WellFormed(n) /\ Len(n.code) = Len(mir.code)
    BY <1>2, <1>3, BuildBrifOK
  <2>3. o \in Blocks(n)
    BY <1>3, <2>2 DEF Blocks
  <2> HIDE DEF n
  <2> QED
    BY <1>1, <1>2, <2>1, <2>2, <2>3, OpenThen
<1>6. Pending(Top) = {x, o} /\ Pending(b) = {x}
  BY <1>1, <1>4 DEF Pending
<1>7. /\ o # x /\ InLayout(mir, Top.from) /\ mir.insert \in Blocks(mir)
      /\ LhsPlain /\ PInv => PhiFits(Top, mir)
  BY <1>1, BRunning DEF FrameFits, IsLoop
<1>8. Len(mir.code) + 1 .. Len(mir.code) + 0 = {}
  BY <1>2
<1>9. Leads({x, o}, {}) /\ ~InLayout(mir, o)
  BY <1>1, <1>6, OwnLeads
<1>10. /\ Blocks(mir) \subseteq Blocks(mir')
       /\ \A y : InLayout(mir, y) => InLayout(mir', y) /\ y \in Blocks(mir)
  <2>1. \A y : InLayout(mir, y) => y \in Blocks(mir)
    BY <1>2 DEF InLayout, WellFormed, BodyOK
  <2> QED
    BY <1>2, <1>5, <2>1, LayoutStep
<1>11. FrameFits(b, mir', ast')
  <2>1. mir'.insert = o
    BY <1>3, <1>5 DEF Step
  <2>2. mir.insert \in mir'.preds[x]
    BY <1>3, <1>5, <1>10 DEF Step
  <2>3. InLayout(mir', Top.from) /\ Top.from # o
    BY <1>7, <1>9, <1>10
  <2> QED
    BY <1>4, <2>1, <2>2, <2>3 DEF FrameFits
<1>12. LhsPlain /\ PInv => PhiFits(b, mir')
  <2> SUFFICES ASSUME LhsPlain, PInv PROVE PhiFits(b, mir')
    OBVIOUS
  <2>1. Top.from \in Blocks(mir) /\ Top.from \in Blocks(mir')
    BY <1>7, <1>10
  <2>2. \A p : ~PhiIn(mir, Top.from, p)
    BY <1>1, <1>7 DEF PhiFits, IsLoop
  <2>3. \A p : ~PhiIn(mir', Top.from, p)
    BY <1>5, <2>1, <2>2 DEF Step
  <2> QED
    BY <1>4, <2>3 DEF PhiFits
<1>13. SortsKept /\ ~ExprFrame(Top, ast) /\ ~LhsFrame(Top, ast)
  BY <1>1, <1>2, SameTree DEF ExprFrame, LhsFrame
<1>14. VisitKid(2).at = "Visit"
  BY DEF VisitKid, Visit, Frame
<1> HIDE DEF o, x, n
<1> QED
  BY <1>1, <1>3, <1>4, <1>5, <1>6, <1>7, <1>8, <1>9, <1>11, <1>12, <1>13,
     <1>14, CallMove

\* The merge block of a loop always is used: the branch on the condition
\* leads there.
LEMMA UntilBodyEndMove ==
    ASSUME BInv, IInv', UntilBodyEnd PROVE Kept
<1> DEFINE d == Top.from
           o == Top.merge
           n == JmpIfOpen(mir, d)
<1>1. /\ phase = "gen" /\ phase' = "gen" /\ Top.at = "UntilBodyEnd"
      /\ UNCHANGED ast /\ Continue(<<>>)
      /\ mir' = IF HasPreds(n, o) THEN SetInsert(AppendBlock(n, o), o) ELSE n
  BY DEF UntilBodyEnd, Resume, LoopBack
<1>2. /\ IInv /\ WellFormed(mir) /\ mir.insert # None
      /\ d \in Blocks(mir) /\ o \in Blocks(mir) /\ o # None
      /\ Len(mir.code) \in Nat
  BY <1>1, InHandler DEF BInv, FrameReady, FrameType, Blocks, None
<1>3. /\ InLayout(mir, d) /\ d # mir.insert /\ mir.preds[o] # {}
      /\ Owned(stack, mir) /\ Top = stack[1] /\ Len(stack) \in Nat \ {0}
  BY <1>1, BRunning DEF FrameFits, IsLoop
<1>4. WellFormed(n) /\ Len(n.code) = Len(mir.code)
  BY <1>2, JmpIfOpenOK
<1>5. PICK T \in SUBSET {d} :
         Step(mir, n, 0, T, None, {}, {}) /\ HasTerminator(n, mir.insert)
  BY <1>2, JmpIfOpenStep
<1> HIDE DEF n
<1>6. Blocks(n) = Blocks(mir)
  BY <1>4 DEF Blocks
<1>7. HasPreds(n, o)
  <2>1. PICK y : y \in mir.preds[o]
    BY <1>3
  <2>2. y \in n.preds[o]
    BY <1>2, <1>5, <1>6, <2>1 DEF Step
  <2> QED
    BY <2>2 DEF HasPreds
<1>8. Step(mir, mir', 0, T, o, {}, {})
  BY <1>1, <1>2, <1>4, <1>5, <1>6, <1>7, OpenThen
<1>9. Leads(T, {})
  <2>1. d \notin mir.freed
    BY <1>3 DEF Owned
  <2>2. 1 \in 1 .. Len(stack) /\ IsLoop(stack[1]) /\ d = stack[1].from
    BY <1>1, <1>3 DEF IsLoop
  <2>3. \A j \in 2 .. Len(stack) : d \notin Pending(stack[j])
    BY <1>3 DEF Owned, PendingIn
  <2> HIDE DEF d
  <2> QED
    BY <1>3, <2>1, <2>2, <2>3 DEF Leads
<1>10. Pending(Top) = {o} /\ SortsKept
  BY <1>1, <1>2, SameTree DEF Pending
<1> QED
  BY <1>1, <1>2, <1>8, <1>9, <1>10, ReturnMove

-----------------------------------------------------------------------------
(* && and ||.                                                              *)

LEMMA VisitLogicMove ==
    ASSUME BInv, IInv', VisitLogic PROVE Kept
<1> DEFINE c == Len(mir.code)
           sorts == <<"lhs", "expr">>
           g == Handler("LogicLhs", 2, Top.loop)
           b == [g EXCEPT !.from = mir.insert, !.alt = c + 1, !.merge = c + 2]
<1>1. PICK kind \in {"and", "or"} :
        /\ Enter(kind, sorts) /\ phase' = phase
        /\ mir' = NewBlocks(mir, 2)
        /\ Continue(<<First(Top.loop), b>>)
  BY DEF VisitLogic
<1>2. /\ IInv /\ phase = "gen" /\ kind \in ExprKinds /\ sorts \in Seq(Sorts)
      /\ Len(sorts) = 2 /\ sorts[1] = "lhs" /\ sorts[2] = "expr"
  BY <1>1 DEF BInv, Enter, ExprKinds, Sorts
<1> HIDE DEF sorts
<1>3. /\ SortsKept /\ Pending(Top) = {}
      /\ ~(LhsPlain /\ LhsFrame(Top, ast))
      /\ ast'[Len(ast) + 1].sort = "lhs" /\ ast'[Len(ast) + 2].sort = "expr"
  <2>1. /\ SortsKept /\ Pending(Top) = {}
        /\ ~(LhsPlain /\ LhsFrame(Top, ast))
        /\ \A j \in 1 .. Len(sorts) : ast'[Len(ast) + j].sort = sorts[j]
    BY <1>1, <1>2, Entered
  <2>2. 1 \in 1 .. Len(sorts) /\ 2 \in 1 .. Len(sorts)
    BY <1>2
  <2> QED
    BY <1>2, <2>1, <2>2
<1>4. First(Top.loop).at = "Visit" /\ First(Top.loop).node = Len(ast) + 1
  BY DEF First, Visit, Frame
<1>5. ExprFrame(First(Top.loop), ast') /\ LhsFrame(First(Top.loop), ast')
  BY <1>3, <1>4 DEF ExprFrame, LhsFrame
<1>6. /\ b.at = "LogicLhs" /\ b.merge = c + 2 /\ b.alt = c + 1
      /\ b.from = mir.insert /\ b.kids[2] = Len(ast) + 2
  <2>1. /\ b.at = "LogicLhs" /\ b.merge = c + 2 /\ b.alt = c + 1
        /\ b.from = mir.insert /\ b.kids = NewKids(2)
    BY DEF Handler, Frame
  <2>2. NewKids(2)[2] = Len(ast) + 2
    BY DEF NewKids
  <2> QED
    BY <2>1, <2>2
<1> HIDE DEF g, b
<1>7. WellFormed(mir) /\ WellFormed(mir') /\ mir.insert # None /\ c \in Nat
  <2>1. WellFormed(mir')
    BY DEF IInv, TypeOK, EdgesMirror, WellFormed
  <2> QED
    BY <1>2, <2>1, InHandler
<1>8. Step(mir, mir', 2, {}, None, {}, {})
  BY <1>1, <1>7, NewBlocksStep
<1>9. Pending(b) = {c + 2, c + 1} /\ c + 1 .. c + 2 = {c + 1, c + 2}
      /\ None \notin Pending(b)
  <2>1. Pending(b) = {c + 2, c + 1}
    BY <1>6 DEF Pending
  <2> HIDE DEF c
  <2> QED
    BY <1>7, <2>1 DEF None
<1>10. Leads({}, {})
  BY DEF Leads
<1>11. FrameFits(b, mir', ast')
  <2>1. c + 2 # c + 1
    BY <1>7
  <2> QED
    BY <1>3, <1>6, <2>1 DEF FrameFits, IsLoop
<1>12. PhiFits(b, mir')
  <2>1. c + 2 \in Blocks(mir') /\ c + 2 \notin Blocks(mir)
    BY <1>7, <1>8, LayoutStep DEF Blocks
  <2>2. \A y : y \notin mir'.preds[c + 2]
    BY <1>8, <2>1 DEF Step
  <2>3. mir'.preds[c + 2] \in SUBSET Nat
    BY <1>7, <2>1, BodyFields DEF Blocks
  <2>4. mir'.insert = mir.insert
    BY <1>8 DEF Step
  <2> QED
    BY <1>6, <2>2, <2>3, <2>4 DEF PhiFits, IsLoop
<1>13. Pending(b) \cup ({None} \ {None})
          = Pending(Top) \cup (Len(mir.code) + 1 .. Len(mir.code) + 2)
  BY <1>3, <1>9
<1>14. ExprFrame(b, ast')
  BY <1>6 DEF ExprFrame
<1> QED
  BY <1>1, <1>2, <1>3, <1>4, <1>5, <1>6, <1>8, <1>9, <1>10, <1>11, <1>12,
     <1>13, <1>14, CallMove

LEMMA LogicLhsMove ==
    ASSUME BInv, IInv', LogicLhs PROVE Kept
<1> DEFINE x == Top.merge
           o == Top.alt
           b == [Top EXCEPT !.at = "LogicRhs"]
<1>1. PICK t \in {x, o}, f \in {x, o} :
        /\ {t, f} = {x, o}
        /\ mir' = SetInsert(AppendBlock(BuildBrif(mir, mValue, t, f), o), o)
  BY DEF LogicLhs, LogicTargets
<1>2. /\ phase = "gen" /\ phase' = "gen" /\ Top.at = "LogicLhs"
      /\ UNCHANGED ast /\ Continue(<<VisitKid(2), b>>)
  BY DEF LogicLhs, Resume
<1>3. /\ IInv /\ WellFormed(mir) /\ WellFormed(mir') /\ mir.insert # None
      /\ mValue \in Nat /\ Len(mir.code) \in Nat
  <2>1. WellFormed(mir')
    BY DEF IInv, TypeOK, EdgesMirror, WellFormed
  <2> QED
    BY <1>2, <2>1, InHandler DEF BInv
<1>4. /\ x \in Blocks(mir) /\ o \in Blocks(mir) /\ o # None
      /\ Top.kids[2] \in 1 .. Len(ast)
  <2>1. /\ Top \in FrameType(Len(ast), Len(mir.code))
        /\ FrameReady(Top, Len(mir.code))
    BY <1>2, <1>3, InHandler
  <2>2. Len(Top.kids) = 2 /\ Top.kids \in Seq(1 .. Len(ast))
    BY <1>2, <2>1 DEF FrameReady, FrameType
  <2>3. x \in Blocks(mir) /\ o \in Blocks(mir) /\ o # None
    BY <1>2, <2>1 DEF FrameReady, FrameType, Blocks, None
  <2> QED
    BY <2>2, <2>3
<1>5. /\ b.at = "LogicRhs" /\ b.merge = x /\ b.from = Top.from
  BY <1>2, <1>3, Resumed
<1> HIDE DEF b
<1>6. Step(mir, mir', 0, {x, o}, o, {}, {})
  <2> DEFINE n == BuildBrif(mir, mValue, t, f)
  <2>1. t \in Blocks(mir) /\ f \in Blocks(mir)
    BY <1>4
  <2>2. /\ Step(mir, n, 0, {t, f}, None, {}, {})
        /\ HasTerminator(n, mir.insert)
    BY <1>3, <2>1, BrifStep
  <2>3. WellFormed(n) /\ Len(n.code) = Len(mir.code)
    BY <1>3, <2>1, BuildBrifOK
  <2>4. o \in Blocks(n)
    BY <1>4, <2>3 DEF Blocks
  <2>5. mir' = SetInsert(AppendBlock(n, o), o)
    BY <1>1
  <2> HIDE DEF n
  <2>6. Step(mir, mir', 0, {t, f}, o, {}, {})
    BY <1>3, <2>2, <2>3, <2>4, <2>5, OpenThen
  <2> QED
    BY <1>1, <2>6
<1>7. Pending(Top) = {x, o} /\ Pending(b) = {x}
  BY <1>2, <1>5 DEF Pending
<1>8. /\ o # x /\ InLayout(mir, mir.insert) /\ mir.insert \in Blocks(mir)
      /\ ast[Top.kids[2]].sort = "expr"
      /\ LhsPlain /\ PInv => PhiFits(Top, mir)
  BY <1>2, BRunning DEF FrameFits
<1>9. Len(mir.code) + 1 .. Len(mir.code) + 0 = {}
  BY <1>3
<1>10. Leads({x, o}, {}) /\ ~InLayout(mir, o)
  <2> DEFINE U == {x, o}
  <2>1. /\ U \subseteq Pending(Top) \cup (Len(mir.code) + 1 .. Len(mir.code) + 0)
        /\ o \in U /\ phase = "gen" /\ 0 \in Nat /\ U \cap {} = {}
    BY <1>2, <1>7
  <2> HIDE DEF U, o
  <2>2. Leads(U, {}) /\ \A y \in U : ~InLayout(mir, y)
    BY <2>1, OwnLeads
  <2> QED
    BY <2>1, <2>2 DEF U
<1>11. /\ Blocks(mir) \subseteq Blocks(mir')
       /\ \A y : InLayout(mir, y) => InLayout(mir', y)
  BY <1>3, <1>6, LayoutStep
<1>12. FrameFits(b, mir', ast')
  BY <1>5 DEF FrameFits, IsLoop
<1>13. LhsPlain /\ PInv => PhiFits(b, mir')
  <2> SUFFICES ASSUME LhsPlain, PInv PROVE PhiFits(b, mir')
    OBVIOUS
  <2>1. Top.from = mir.insert /\ mir.preds[x] = {}
    BY <1>2, <1>8 DEF PhiFits
  <2>2. x \in Blocks(mir')
    BY <1>4, <1>11
  <2>3. \A y : y \in mir'.preds[x] <=> y = mir.insert
    BY <1>4, <1>6, <2>1, <2>2 DEF Step
  <2>4. mir'.preds[x] \in SUBSET Nat
    BY <1>3, <2>2, BodyFields DEF Blocks
  <2>5. mir'.insert = o
    BY <1>4, <1>6 DEF Step
  <2>6. mir'.preds[x] = {Top.from}
    BY <2>1, <2>3, <2>4
  <2>7. Top.from # o /\ InLayout(mir', Top.from)
    BY <1>8, <1>10, <1>11, <2>1
  <2> QED
    BY <1>5, <2>5, <2>6, <2>7 DEF PhiFits, IsLoop
<1>14. SortsKept /\ ~LhsFrame(Top, ast)
  BY <1>2, <1>3, SameTree DEF LhsFrame
<1>15. VisitKid(2).at = "Visit" /\ VisitKid(2).node = Top.kids[2]
  BY DEF VisitKid, Visit, Frame
<1>16. ExprFrame(VisitKid(2), ast') /\ ExprFrame(b, ast')
  BY <1>2, <1>5, <1>8, <1>15 DEF ExprFrame
<1> HIDE DEF o, x
<1> QED
  BY <1>2, <1>4, <1>5, <1>6, <1>7, <1>8, <1>9, <1>10, <1>12, <1>13, <1>14,
     <1>15, <1>16, CallMove

\* The phi gets its two pairs when the merge block has its two predecessors.
LEMMA LogicRhsMove ==
    ASSUME BInv, IInv', LogicRhs PROVE Kept
<1> DEFINE x == Top.merge
           short == ast[Top.node].kind = "or"
           j == BuildJmp(mir, x)
           n == SetInsert(AppendBlock(j, x), x)
           p == Phi(Top.node, short, LogicPairs(Top))
<1>1. /\ phase = "gen" /\ phase' = "gen" /\ Top.at = "LogicRhs"
      /\ UNCHANGED ast /\ Continue(<<>>)
      /\ mir' = Emit(n, p)
  BY DEF LogicRhs, Resume
<1>2. /\ IInv /\ WellFormed(mir) /\ WellFormed(mir') /\ mir.insert # None
      /\ mValue \in Nat /\ Len(mir.code) \in Nat /\ Top.node \in Nat
      /\ Top.from \in Nat
  <2>1. WellFormed(mir')
    BY DEF IInv, TypeOK, EdgesMirror, WellFormed
  <2> QED
    BY <1>1, <2>1, InHandler DEF BInv, FrameType
<1>3. x \in Blocks(mir) /\ x # None
  BY <1>1, <1>2, InHandler DEF FrameReady, FrameType, Blocks, None
<1>4. p \in Inst /\ p.op = "phi" /\ p.inc = LogicPairs(Top)
  <2>1. LogicPairs(Top) \in SUBSET [blk : Nat, src : Nat] /\ short \in BOOLEAN
    BY <1>2, BodyFields DEF LogicPairs, BodyType
  <2> HIDE DEF short
  <2>2. p \in Inst
    BY <1>2, <2>1, InstTypes
  <2> QED
    BY <2>2 DEF Phi, Plain
<1> HIDE DEF p
<1>5. Step(mir, mir', 0, {x}, x, {}, {p})
  <2>1. Step(mir, j, 0, {x}, None, {}, {}) /\ HasTerminator(j, mir.insert)
    BY <1>2, <1>3, JmpStep
  <2>2. WellFormed(j) /\ Len(j.code) = Len(mir.code)
    BY <1>2, <1>3, BuildJmpOK
  <2> HIDE DEF j
  <2>3. x \in Blocks(j)
    BY <1>3, <2>2 DEF Blocks
  <2>4. Step(mir, n, 0, {x}, x, {}, {})
    BY <1>2, <2>1, <2>2, <2>3, OpenThen
  <2>5. WellFormed(n) /\ n.insert # None
    BY <2>2, <2>3, OpenBlockOK
  <2> HIDE DEF n
  <2> QED
    BY <1>1, <1>2, <1>4, <2>4, <2>5, PhiThen
<1>6. Pending(Top) = {x}
  BY <1>1 DEF Pending
<1>7. Leads({x}, {}) /\ ~InLayout(mir, x)
  <2>1. Len(mir.code) + 1 .. Len(mir.code) + 0 = {}
    BY <1>2
  <2> QED
    BY <1>1, <1>6, OwnLeads
<1>8. SortsKept
  BY <1>1, <1>2, SameTree
<1>9. LhsPlain /\ PInv => PhiOK(mir', x, p)
  <2> SUFFICES ASSUME LhsPlain, PInv PROVE PhiOK(mir', x, p)
    OBVIOUS
  <2>1. /\ mir.preds[x] = {Top.from} /\ Top.from # mir.insert
        /\ InLayout(mir, mir.insert)
    BY <1>1, BRunning DEF PhiFits
  <2>2. /\ Blocks(mir) \subseteq Blocks(mir') /\ InLayout(mir', x)
        /\ \A i \in 1 .. Len(mir.layout) : mir'.layout[i] = mir.layout[i]
        /\ Len(mir.layout) \in Nat
    BY <1>2, <1>3, <1>5, LayoutStep
  <2>3. x # mir'.layout[1]
    BY <1>7, <2>1, <2>2 DEF InLayout
  <2>4. mir'.preds[x] = {Top.from, mir.insert}
    <3>1. x \in Blocks(mir')
      BY <1>3, <2>2
    <3>2. \A y : y \in mir'.preds[x] <=> y \in {Top.from, mir.insert}
      BY <1>3, <1>5, <2>1, <3>1 DEF Step
    <3>3. mir'.preds[x] \in SUBSET Nat
      BY <1>2, <3>1, BodyFields DEF Blocks
    <3> QED
      BY <3>2, <3>3
  <2>5. {q.blk : q \in p.inc} = mir'.preds[x]
    BY <1>4, <2>4 DEF LogicPairs
  <2>6. \A q, r \in p.inc : q.blk = r.blk => q = r
    BY <1>4, <2>1 DEF LogicPairs
  <2> QED
    BY <2>2, <2>3, <2>5, <2>6 DEF PhiOK
<1>10. /\ {} \cup ({x} \ {None}) = Pending(Top) /\ x \notin {}
       /\ \A b \in {} : mir'.preds[b] = {}
  BY <1>3, <1>6
<1> HIDE DEF x
<1>11. LhsPlain /\ PInv => \A q \in {p} : PhiOK(mir', x, q)
  BY <1>9
<1> QED
  BY <1>1, <1>3, <1>5, <1>7, <1>8, <1>10, <1>11, ReturnMove

-----------------------------------------------------------------------------
(* define_function.                                                        *)

\* The entry block is empty and in the function.
LEMMA DefineFunctionMove ==
    ASSUME BInv, IInv', DefineFunction PROVE Kept
<1> DEFINE q == NewBlocks(EmptyBody, 1)
           n == SetInsert(AppendBlock(q, 1), 1)
           v == Visit(1, FALSE)
           f == Frame("DefineEnd", 1, <<>>, FALSE)
           s == <<v, f>>
<1>1. /\ phase = "start" /\ phase' = "gen" /\ mir = EmptyBody /\ mir' = n
      /\ stack' = s
  BY DEF DefineFunction, BInv
<1>2. WellFormed(EmptyBody)
  BY <1>1 DEF BInv, IInv, TypeOK, EdgesMirror, WellFormed
<1>3. /\ Len(EmptyBody.code) = 0 /\ EmptyBody.freed = {}
      /\ EmptyBody.layout = <<>>
  BY DEF EmptyBody
<1>4. Step(EmptyBody, q, 1, {}, None, {}, {}) /\ WellFormed(q)
  BY <1>2, NewBlocksStep, NewBlocksOK
<1> HIDE DEF q
<1>5. /\ Blocks(q) = {1} /\ Blocks(EmptyBody) = {}
      /\ q.freed = {} /\ q.layout = <<>>
      /\ \A x \in Blocks(q) : \A y : y \notin q.preds[x]
      /\ \A x \in Blocks(q) : \A p : ~PhiIn(q, x, p)
  <2>1. Len(q.code) = 1
    BY <1>3, <1>4 DEF Step
  <2>2. Blocks(q) = {1} /\ Blocks(EmptyBody) = {}
    BY <1>3, <2>1 DEF Blocks
  <2> QED
    BY <1>3, <1>4, <2>2 DEF Step
<1>6. /\ n.code = q.code /\ n.preds = q.preds /\ n.freed = q.freed
      /\ n.layout = Append(q.layout, 1) /\ n.insert = 1
  BY <1>4, BodyFields DEF BodyType, SetInsert, AppendBlock
<1> HIDE DEF n
<1>7. /\ Len(n.layout) = 1 /\ n.layout[1] = 1 /\ n.freed = {}
  BY <1>5, <1>6
<1>8. /\ Blocks(n) = {1} /\ InLayout(n, 1)
      /\ \A x \in Blocks(n) : \A y : y \notin n.preds[x]
      /\ \A x \in Blocks(n) : \A p : ~PhiIn(n, x, p)
  BY <1>5, <1>6, <1>7 DEF Blocks, PhiIn, InLayout
<1>9. Len(s) = 2 /\ \A j \in 1 .. Len(s) : s[j].at \in {"Visit", "DefineEnd"}
  BY DEF Visit, Frame
<1> HIDE DEF v, f, s
<1>10. \A j \in 1 .. Len(s) :
          /\ s[j].at \in Idle /\ Pending(s[j]) = {}
          /\ FrameFits(s[j], n, ast') /\ PhiFits(s[j], n)
  BY <1>9, IdleFits DEF Idle
<1>11. Owned(s, n)
  <2>1. Apart(s) /\ \A b : ~PendingIn(s, b)
    BY <1>10 DEF Apart, PendingIn
  <2>2. \A i, j \in 1 .. Len(n.layout) : n.layout[i] = n.layout[j] => i = j
    BY <1>7
  <2> QED
    BY <1>7, <1>8, <2>1, <2>2 DEF Owned
<1>12. Nested(s, ast') /\ Straight(s, ast')
  BY <1>10 DEF Nested, Straight, Idle
<1>13. SealedBody(n)
  BY <1>6, <1>7 DEF SealedBody
<1>14. Built(s, n, ast')
  BY <1>6, <1>8, <1>10, <1>11, <1>12, <1>13 DEF Built, NoSelf
<1>15. BInv'
  BY <1>1, <1>14 DEF BInv
<1>16. PInv'
  BY <1>1, <1>8, <1>10, <1>12 DEF PInv, PhisBuilt
<1>17. Forward
  BY <1>1, <1>3 DEF Forward, InLayout
<1> QED
  BY <1>15, <1>16, <1>17 DEF Kept

\* The tail block is closed, or the program rejected.
LEMMA DefineEndMove ==
    ASSUME BInv, IInv', DefineEnd PROVE Kept
<1>1. /\ phase = "gen" /\ Top.at = "DefineEnd" /\ phase' \in {"done", "fatal"}
      /\ Continue(<<>>) /\ UNCHANGED ast
      /\ \/ mir' = mir /\ (phase' = "done" => HasTerminator(mir, mir.insert))
         \/ mir' = BuildRet(mir, 0)
  BY DEF DefineEnd, Resume
<1>2. IInv /\ WellFormed(mir) /\ mir.insert # None
  BY <1>1, InHandler DEF BInv
<1>3. Ret(0) \in Inst /\ Ret(0).op # "phi" /\ IsTerminator(Ret(0))
  BY DEF Ret, Plain, Inst, InstOps, Terminators, None, IsTerminator
<1>4. /\ Step(mir, mir', 0, {}, None, {}, {})
      /\ phase' = "done" => HasTerminator(mir', mir'.insert)
  <2>1. CASE mir' = mir /\ (phase' = "done" => HasTerminator(mir, mir.insert))
    BY <1>2, <2>1, NoStep
  <2>2. CASE mir' = BuildRet(mir, 0)
    <3>1. Step(mir, mir', 0, {}, None, {}, {})
      BY <1>2, <1>3, <2>2, PlainStep DEF BuildRet
    <3>2. HasTerminator(mir', mir'.insert)
      BY <1>2, <1>3, <2>2, EmitKeeps DEF BuildRet
    <3> QED
      BY <3>1, <3>2
  <2> QED
    BY <1>1, <2>1, <2>2
<1>5. Pending(Top) = {} /\ SortsKept /\ Leads({}, {})
  BY <1>1, <1>2, SameTree, IdleFits DEF Idle, Leads
<1>6. phase' # "start"
  BY <1>1
<1> QED
  BY <1>1, <1>4, <1>5, <1>6, ReturnMove

\* A match that is rejected moves nothing.
LEMMA UnsupportedMove ==
    ASSUME BInv, IInv', MatchUnsupported PROVE Kept
<1>1. /\ phase' = "fatal" /\ ast' = ast /\ stack' = stack /\ mir' = mir
      /\ phase = "gen"
  BY DEF MatchUnsupported, Resume
<1>2. BInv'
  BY <1>1 DEF BInv
<1>3. PInv => PInv'
  BY <1>1 DEF PInv
<1>4. Forward
  BY <1>1 DEF Forward
<1> QED
  BY <1>2, <1>3, <1>4 DEF Kept

-----------------------------------------------------------------------------
(* The theorems.                                                           *)

\* Every step keeps the invariants.
LEMMA NextKept ==
    ASSUME BInv, [Next]_cgnVars PROVE Kept
<1>1. IInv'
  BY NextIInv DEF BInv
<1>2. CASE UNCHANGED cgnVars
  <2>1. /\ phase' = phase /\ ast' = ast /\ stack' = stack /\ mir' = mir
    BY <1>2 DEF cgnVars
  <2>2. BInv'
    BY <1>1, <2>1 DEF BInv
  <2>3. PInv => PInv'
    BY <2>1 DEF PInv
  <2>4. Forward
    BY <2>1 DEF Forward
  <2> QED
    BY <2>2, <2>3, <2>4 DEF Kept
<1>3. CASE Generate
  <2>1. CASE DefineFunction \/ DefineEnd
    BY <1>1, <2>1, DefineFunctionMove, DefineEndMove
  <2>2. CASE VisitCompound \/ VisitExprStmt \/ VisitBreak \/ VisitContinue
    BY <1>1, <2>2, VisitCompoundMove, VisitExprStmtMove, JumpsMove
  <2>3. CASE VisitIf \/ IfBranch \/ IfThenEnd \/ IfElseEnd
    BY <1>1, <2>3, VisitIfMove, IfBranchMove, IfThenEndMove, LastArmMove
  <2>4. CASE \/ VisitMatch \/ MatchChains \/ MatchCompare \/ MatchCaseEnd
             \/ MatchDefaultEnd \/ MatchUnsupported
    BY <1>1, <2>4, VisitMatchMove, MatchChainsMove, MatchCompareMove,
       MatchCaseEndMove, LastArmMove, UnsupportedMove
  <2>5. CASE VisitRetVoid \/ VisitRet \/ RetValue
    BY <1>1, <2>5, VisitLeafMove, VisitRetMove, ResultMove
  <2>6. CASE VisitUntil \/ UntilBranch \/ UntilBodyEnd
    BY <1>1, <2>6, VisitUntilMove, UntilBranchMove, UntilBodyEndMove
  <2>7. CASE VisitLeaf \/ VisitOp \/ OpEnd
    BY <1>1, <2>7, VisitLeafMove, VisitOpMove, ResultMove
  <2>8. CASE VisitLogic \/ LogicLhs \/ LogicRhs
    BY <1>1, <2>8, VisitLogicMove, LogicLhsMove, LogicRhsMove
  <2> QED
    BY <1>3, <2>1, <2>2, <2>3, <2>4, <2>5, <2>6, <2>7, <2>8 DEF Generate
<1> QED
  BY <1>2, <1>3 DEF Next, Finished

\* At every moment of code generation each block that was allocated is in the
\* function once, deleted, or in the hands of exactly one handler.
THEOREM BlocksTracked == Spec => []BInv
<1>1. Init => BInv
  BY InitIInv DEF Init, BInv
<1>2. BInv /\ [Next]_cgnVars => BInv'
  BY NextKept DEF Kept
<1> QED
  BY <1>1, <1>2, PTL DEF Spec

\* Every block of the function but the one under construction ends in a
\* terminator, whatever the tree: control cannot run off the end of a block.
THEOREM EveryBlockSealed == Spec => []Sealed
<1>1. BInv => Sealed
  <2> SUFFICES ASSUME BInv PROVE Sealed
    OBVIOUS
  <2>1. CASE phase = "start"
    <3>1. Len(mir.layout) = 0 /\ phase # "done"
      BY <2>1 DEF BInv, EmptyBody
    <3> QED
      BY <3>1 DEF Sealed
  <2>2. CASE phase # "start"
    BY <2>2 DEF BInv, Built, SealedBody, Sealed
  <2> QED
    BY <2>1, <2>2
<1> QED
  BY <1>1, BlocksTracked, PTL

\* No branch ever names a block that was deleted; and in the finished function
\* every branch leads to a block of the function.
THEOREM NoBranchDangles == Spec => []NoDangling
<1>1. BInv => NoDangling
  <2> SUFFICES ASSUME BInv, NEW b \in Blocks(mir), NEW c \in mir.succs[b]
               PROVE  /\ c \notin mir.freed
                      /\ phase = "done" => InLayout(mir, c)
    BY DEF NoDangling
  <2>1. WellFormed(mir)
    BY DEF BInv, IInv, TypeOK, EdgesMirror, WellFormed
  <2>2. c \in Blocks(mir) /\ b \in mir.preds[c]
    BY <2>1 DEF WellFormed, BodyOK, Mirror
  <2>3. Owned(stack, mir)
    <3>1. CASE phase = "start"
      BY <2>2, <3>1 DEF BInv, EmptyBody, Blocks
    <3>2. CASE phase # "start"
      BY <3>2 DEF BInv, Built
    <3> QED
      BY <3>1, <3>2
  <2>4. c \notin mir.freed
    BY <2>2, <2>3 DEF Owned
  <2>5. ASSUME phase = "done" PROVE InLayout(mir, c)
    <3>1. stack = <<>>
      BY <2>5 DEF BInv, IInv, TypeOK
    <3>2. ~PendingIn(stack, c)
      BY <3>1 DEF PendingIn
    <3> QED
      BY <2>2, <2>3, <2>4, <3>2 DEF Owned
  <2> QED
    BY <2>4, <2>5
<1> QED
  BY <1>1, BlocksTracked, PTL

\* When the function is finished no block is lost, listed twice, or listed
\* after it was deleted; even 'until', which never deletes, loses none.
THEOREM EveryBlockOwned == Spec => []BlocksOwned
<1>1. BInv => BlocksOwned
  <2> SUFFICES ASSUME BInv, phase = "done", NEW b \in Blocks(mir)
               PROVE  IF b \in mir.freed
                      THEN ~InLayout(mir, b)
                      ELSE \E i \in 1 .. Len(mir.layout) :
                              \A j \in 1 .. Len(mir.layout) :
                                  mir.layout[j] = b <=> j = i
    BY DEF BlocksOwned
  <2>1. Owned(stack, mir) /\ stack = <<>>
    BY DEF BInv, Built, IInv, TypeOK
  <2>2. ~PendingIn(stack, b)
    BY <2>1 DEF PendingIn
  <2>3. CASE b \in mir.freed
    BY <2>1, <2>3 DEF Owned
  <2>4. CASE b \notin mir.freed
    <3>1. PICK i \in 1 .. Len(mir.layout) : mir.layout[i] = b
      BY <2>1, <2>2, <2>4 DEF Owned, InLayout
    <3>2. \A j \in 1 .. Len(mir.layout) : mir.layout[j] = b <=> j = i
      BY <2>1, <3>1 DEF Owned
    <3> QED
      BY <2>4, <3>2
  <2> QED
    BY <2>3, <2>4
<1> QED
  BY <1>1, BlocksTracked, PTL

\* No block branches to itself, the assertion of add_succ and add_pred, not
\* even the condition block of a loop with an empty body.
THEOREM NoBlockLoops == Spec => []NoSelfEdge
<1>1. BInv => NoSelfEdge
  <2> SUFFICES ASSUME BInv, NEW b \in Blocks(mir), b \in mir.succs[b]
               PROVE  FALSE
    BY DEF NoSelfEdge
  <2>1. WellFormed(mir)
    BY DEF BInv, IInv, TypeOK, EdgesMirror, WellFormed
  <2>2. b \in mir.preds[b]
    BY <2>1 DEF WellFormed, Mirror
  <2>3. phase # "start"
    BY DEF BInv, EmptyBody, Blocks
  <2> QED
    BY <2>2, <2>3 DEF BInv, Built, NoSelf
<1> QED
  BY <1>1, BlocksTracked, PTL

\* The insertion point never goes back to a block the function already has.
THEOREM NeverBack == Spec => ForwardOnly
<1>1. BInv /\ [Next]_cgnVars =>
        [mir'.insert # mir.insert => ~InLayout(mir, mir'.insert)]_cgnVars
  BY NextKept DEF Kept, Forward
<1> QED
  BY <1>1, BlocksTracked, PTL DEF Spec, ForwardOnly

\* As long as no left operand of && or || is itself an && or ||, or an
\* operator around one, the insertion point stands still while it is lowered,
\* and every phi is right for its block.
THEOREM PhisTracked ==
    ASSUME LhsPlain PROVE Spec => [](BInv /\ PInv)
<1>1. Init => BInv /\ PInv
  <2> SUFFICES ASSUME Init PROVE BInv /\ PInv
    OBVIOUS
  <2>1. BInv
    BY InitIInv DEF Init, BInv
  <2>2. Len(stack) = 0 /\ Blocks(mir) = {}
    BY DEF Init, EmptyBody, Blocks
  <2>3. PInv
    BY <2>2 DEF PInv, PhisBuilt, Straight
  <2> QED
    BY <2>1, <2>3
<1>2. (BInv /\ PInv) /\ [Next]_cgnVars => (BInv /\ PInv)'
  BY NextKept DEF Kept
<1> QED
  BY <1>1, <1>2, PTL DEF Spec

\* Then a phi has one entry for each predecessor of its block, however its
\* operands branch and whatever stands around it.
THEOREM PhisComplete ==
    ASSUME LhsPlain PROVE Spec => []PhiCoversPreds
<1>1. Spec => [](BInv /\ PInv)
  BY PhisTracked
<1>2. BInv /\ PInv => PhiCoversPreds
  <2> SUFFICES ASSUME PInv, NEW b \in Blocks(mir),
                      NEW i \in 1 .. Len(mir.code[b]),
                      mir.code[b][i].op = "phi"
               PROVE  {p.blk : p \in mir.code[b][i].inc} = mir.preds[b]
    BY DEF PhiCoversPreds
  <2>1. PhiIn(mir, b, mir.code[b][i])
    BY DEF PhiIn
  <2>2. PhiOK(mir, b, mir.code[b][i])
    BY <2>1 DEF PInv, PhisBuilt
  <2> QED
    BY <2>2 DEF PhiOK
<1> QED
  BY <1>1, <1>2, PTL

=============================================================================
