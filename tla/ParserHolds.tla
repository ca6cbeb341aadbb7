---------------------------- MODULE ParserHolds ----------------------------
(***************************************************************************)
(* What the functions of the parser hold while they run: the scopes that   *)
(* they opened, the flag that they set, the nodes that they were given and *)
(* have not yet made a node of, and the operators between those.           *)
(***************************************************************************)
EXTENDS ParserProofs, SequenceTheorems

\* A block that has been opened has a scope of its own; a specifier that reads
\* what it specifies has set m_AllowUnresolved.
HasScope(f) == f.fn = "block" /\ f.st # "open"
HasFlag(f)  == f.fn = "leaf" /\ f.st = "got"

Opened(s) == {j \in 1 .. Len(s) : HasScope(s[j])}
Depth(s)  == Cardinality(Opened(s))
Flagged(s) == \E j \in 1 .. Len(s) : HasFlag(s[j])

One(b) == IF b THEN 1 ELSE 0

-----------------------------------------------------------------------------
(* A frame more or less.                                                   *)

\* The places of a sequence that has got a new head.
LEMMA Pushed ==
    ASSUME NEW S, NEW s \in Seq(S), NEW f
    PROVE  /\ <<f>> \o s \in Seq(S \cup {f}) /\ Len(<<f>> \o s) = Len(s) + 1
           /\ (<<f>> \o s)[1] = f
           /\ \A j \in 1 .. Len(s) : (<<f>> \o s)[j + 1] = s[j]
OBVIOUS

\* A sequence with another entry at a place.
LEMMA EntryChanged ==
    ASSUME NEW S, NEW s \in Seq(S), NEW d, NEW x \in S
    PROVE  [s EXCEPT ![d] = x] \in Seq(S) /\ Len([s EXCEPT ![d] = x]) = Len(s)
<1> DEFINE n == Len(s)
           u == [s EXCEPT ![d] = x]
<1>1. n \in Nat /\ s \in [1 .. n -> S]
  OBVIOUS
<1>2. u \in [1 .. n -> S]
  <2> HIDE DEF n
  <2> QED
    BY <1>1
<1> HIDE DEF u, n
<1>3. u \in Seq(S) /\ Len(u) = n
  BY <1>1, <1>2
<1> QED
  BY <1>3 DEF u, n

\* Two on top are one on top of one on top.
LEMMA TwoOnTop ==
    ASSUME NEW S, NEW s \in Seq(S), NEW a, NEW f
    PROVE  <<a, f>> \o s = <<a>> \o (<<f>> \o s)
<1> DEFINE T == S \cup {a, f}
           u == <<a>>
           v == <<f>>
<1>1. s \in Seq(T) /\ u \in Seq(T) /\ v \in Seq(T) /\ a \in T /\ f \in T
  OBVIOUS
<1>2. u \o v = <<a, f>>
  BY <1>1, TwoFrames
<1> HIDE DEF T, u, v
<1>3. (u \o v) \o s = u \o (v \o s)
  BY <1>1, ConcatAssociative
<1> QED
  BY <1>2, <1>3 DEF u, v

\* The scopes of the frames are those of the head and those of the others.
LEMMA DepthPushed ==
    ASSUME NEW S, NEW s \in Seq(S), NEW f
    PROVE  /\ Depth(<<f>> \o s) = Depth(s) + One(HasScope(f)) /\ Depth(s) \in Nat
           /\ Flagged(<<f>> \o s) <=> HasFlag(f) \/ Flagged(s)
<1> DEFINE u == <<f>> \o s
           A == Opened(s)
           B == {j + 1 : j \in A}
           g == [j \in A |-> j + 1]
<1>1. /\ Len(s) \in Nat /\ Len(u) = Len(s) + 1 /\ u[1] = f
      /\ \A j \in 1 .. Len(s) : u[j + 1] = s[j]
  BY Pushed
<1> HIDE DEF u
<1>2. \A j \in 1 .. Len(u) : j = 1 \/ (j - 1 \in 1 .. Len(s) /\ (j - 1) + 1 = j)
  BY <1>1
<1>3. A \subseteq 1 .. Len(s) /\ IsFiniteSet(A) /\ Depth(s) \in Nat
  <2>1. A \subseteq 1 .. Len(s) /\ IsFiniteSet(1 .. Len(s))
    BY <1>1, FS_Interval DEF Opened
  <2>2. IsFiniteSet(A)
    BY <2>1, FS_Subset
  <2> QED
    BY <2>1, <2>2, FS_CardinalityType DEF Depth
<1>4. g \in Bijection(A, B)
  <2>1. g \in [A -> B]
    OBVIOUS
  <2>2. \A j, k \in A : g[j] = g[k] => j = k
    BY <1>3
  <2>3. \A k \in B : \E j \in A : g[j] = k
    OBVIOUS
  <2> QED
    BY <2>1, <2>2, <2>3 DEF Bijection, Injection, Surjection, IsInjective
<1>5. IsFiniteSet(B) /\ Cardinality(B) = Depth(s)
  BY <1>3, <1>4, FS_Bijection DEF ExistsBijection, Depth
<1>6. Opened(u) = IF HasScope(f) THEN B \cup {1} ELSE B
  <2>1. ASSUME NEW j \in Opened(u) PROVE j = 1 \/ j \in B
    <3>1. CASE j # 1
      <4>1. j - 1 \in 1 .. Len(s) /\ (j - 1) + 1 = j /\ HasScope(u[j])
        BY <1>2, <3>1 DEF Opened
      <4>2. j - 1 \in A
        BY <1>1, <4>1 DEF Opened
      <4> QED
        BY <4>1, <4>2
    <3> QED
      BY <3>1
  <2>2. ASSUME NEW j \in B PROVE j \in Opened(u) /\ j # 1
    <3>1. PICK i \in A : j = i + 1
      OBVIOUS
    <3>2. i \in 1 .. Len(s) /\ HasScope(s[i])
      BY DEF Opened
    <3>3. j \in 1 .. Len(u) /\ j # 1 /\ u[j] = s[i]
      BY <1>1, <3>1, <3>2
    <3> QED
      BY <3>2, <3>3 DEF Opened
  <2>3. 1 \in Opened(u) <=> HasScope(f)
    <3>1. 1 \in 1 .. Len(u)
      BY <1>1
    <3> QED
      BY <1>1, <3>1 DEF Opened
  <2> HIDE DEF B
  <2> DEFINE O == Opened(u)
  <2>4. /\ \A j \in O : j = 1 \/ j \in B
        /\ \A j \in B : j \in O
        /\ 1 \in O <=> HasScope(f)
    BY <2>1, <2>2, <2>3
  <2> HIDE DEF O
  <2>5. ASSUME HasScope(f) PROVE O = B \cup {1}
    BY <2>4, <2>5
  <2>6. ASSUME ~HasScope(f) PROVE O = B
    BY <2>4, <2>6
  <2> QED
    BY <2>5, <2>6 DEF O
<1>7. 1 \notin B
  BY <1>3
<1> HIDE DEF A, B, g
<1>8. Depth(u) = Depth(s) + One(HasScope(f))
  <2>1. Cardinality(B \cup {1}) = Cardinality(B) + 1
    BY <1>5, <1>7, FS_AddElement
  <2>2. CASE HasScope(f)
    BY <1>5, <1>6, <2>1, <2>2 DEF Depth, One
  <2>3. CASE ~HasScope(f)
    BY <1>3, <1>5, <1>6, <2>3 DEF Depth, One
  <2> QED
    BY <2>2, <2>3
<1>9. Flagged(u) <=> HasFlag(f) \/ Flagged(s)
  <2>1. ASSUME Flagged(u) PROVE HasFlag(f) \/ Flagged(s)
    <3>1. PICK j \in 1 .. Len(u) : HasFlag(u[j])
      BY <2>1 DEF Flagged
    <3>2. CASE j # 1
      <4>1. j - 1 \in 1 .. Len(s) /\ u[j] = s[j - 1]
        BY <1>1, <1>2, <3>2
      <4> QED
        BY <3>1, <4>1 DEF Flagged
    <3> QED
      BY <1>1, <3>1, <3>2
  <2>2. ASSUME HasFlag(f) PROVE Flagged(u)
    <3>1. 1 \in 1 .. Len(u)
      BY <1>1
    <3> QED
      BY <1>1, <2>2, <3>1 DEF Flagged
  <2>3. ASSUME Flagged(s) PROVE Flagged(u)
    <3>1. PICK j \in 1 .. Len(s) : HasFlag(s[j])
      BY <2>3 DEF Flagged
    <3>2. j + 1 \in 1 .. Len(u) /\ u[j + 1] = s[j]
      BY <1>1
    <3> QED
      BY <3>1, <3>2 DEF Flagged
  <2> QED
    BY <2>1, <2>2, <2>3
<1> QED
  BY <1>3, <1>8, <1>9 DEF u

-----------------------------------------------------------------------------
(* What becomes of the stack.                                              *)

Holding(f, g) == (HasScope(f) <=> HasScope(g)) /\ (HasFlag(f) <=> HasFlag(g))

\* The frame on top, and those below it.
LEMMA TopOver ==
    ASSUME PInv
    PROVE  /\ Depth(stack) = Depth(Rest) + One(HasScope(Top)) /\ Depth(Rest) \in Nat
           /\ Flagged(stack) <=> HasFlag(Top) \/ Flagged(Rest)
           /\ Rest \in Seq(Frames)
<1>1. stack \in Seq(Frames) /\ Len(stack) > 0
  BY TopFacts
<1>2. stack = <<Top>> \o Rest /\ Rest \in Seq(Frames)
  BY <1>1 DEF Top, Rest
<1> QED
  BY <1>2, DepthPushed

\* Another frame on top.
LEMMA Becoming ==
    ASSUME PInv, NEW f, Become(f)
    PROVE  /\ Depth(stack') = Depth(Rest) + One(HasScope(f))
           /\ Flagged(stack') <=> HasFlag(f) \/ Flagged(Rest)
<1>1. Rest \in Seq(Frames) /\ stack' = <<f>> \o Rest
  BY TopOver DEF Become
<1> HIDE DEF Rest
<1> QED
  BY <1>1, DepthPushed

\* Two frames on top, the first of which holds nothing.
LEMMA Pushing ==
    ASSUME PInv, NEW a, NEW f, stack' = <<a, f>> \o Rest, ~HasScope(a), ~HasFlag(a)
    PROVE  /\ Depth(stack') = Depth(Rest) + One(HasScope(f))
           /\ Flagged(stack') <=> HasFlag(f) \/ Flagged(Rest)
<1> DEFINE t == Rest
           v == <<f>> \o t
<1>1. t \in Seq(Frames)
  BY TopOver
<1> HIDE DEF t
<1>2. v \in Seq(Frames \cup {f}) /\ Depth(v) = Depth(t) + One(HasScope(f))
      /\ (Flagged(v) <=> HasFlag(f) \/ Flagged(t)) /\ Depth(t) \in Nat
  BY <1>1, DepthPushed, Pushed
<1>3. <<a, f>> \o t = <<a>> \o v
  BY <1>1, TwoOnTop
<1> HIDE DEF v
<1>4. /\ Depth(<<a>> \o v) = Depth(v) + One(HasScope(a)) /\ Depth(v) \in Nat
      /\ Flagged(<<a>> \o v) <=> HasFlag(a) \/ Flagged(v)
  BY <1>2, DepthPushed
<1>5. stack' = <<a>> \o v
  BY <1>3 DEF t
<1>6. Depth(stack') = Depth(t) + One(HasScope(f))
  <2>1. One(HasScope(a)) = 0
    BY DEF One
  <2>2. Depth(stack') = Depth(v) + 0
    BY <1>4, <1>5, <2>1
  <2>3. Depth(v) + 0 = Depth(v)
    BY <1>4
  <2> QED
    BY <1>2, <2>2, <2>3
<1>7. Flagged(stack') <=> HasFlag(f) \/ Flagged(t)
  BY <1>2, <1>4, <1>5
<1> QED
  BY <1>6, <1>7 DEF t

\* The frames of a call hold nothing.
LEMMA CalleeHolds ==
    ASSUME NEW fn \in Calling \cup {"block"}, NEW c
    PROVE  \/ \E a : /\ Callee(fn, c) = <<a>> /\ ~HasScope(a) /\ ~HasFlag(a)
           \/ \E a, b : /\ Callee(fn, c) = <<a, b>>
                        /\ ~HasScope(a) /\ ~HasFlag(a) /\ ~HasScope(b) /\ ~HasFlag(b)
<1>1. CASE fn = "expr"
  <2> DEFINE a == Frame("prefix", "start", c, <<>>)
             b == Frame("binary", "loop", c, <<>>)
  <2>1. Callee(fn, c) = <<a, b>>
    BY <1>1 DEF Callee, Lists
  <2>2. ~HasScope(a) /\ ~HasFlag(a) /\ ~HasScope(b) /\ ~HasFlag(b)
    BY DEF HasScope, HasFlag, Frame
  <2> QED
    BY <2>1, <2>2
<1>2. CASE fn = "block"
  <2> DEFINE a == Frame("block", "open", c, <<>>)
  <2>1. Callee(fn, c) = <<a>>
    BY <1>2 DEF Callee
  <2>2. ~HasScope(a) /\ ~HasFlag(a)
    BY DEF HasScope, HasFlag, Frame
  <2> QED
    BY <2>1, <2>2
<1>3. CASE fn \in Calling \ {"expr"}
  <2>1. PICK st \in States : /\ Callee(fn, c) = <<Frame(fn, st, c, <<>>)>>
                             /\ fn = "leaf" => st = "start"
    BY <1>3, CalleeIs
  <2> DEFINE a == Frame(fn, st, c, <<>>)
  <2>2. fn # "block"
    BY <1>3 DEF Calling, Callable
  <2>3. ~HasScope(a) /\ ~HasFlag(a)
    BY <2>1, <2>2 DEF HasScope, HasFlag, Frame
  <2> QED
    BY <2>1, <2>3
<1> QED
  BY <1>1, <1>2, <1>3

\* The frames of a call on others.
LEMMA CallOver ==
    ASSUME NEW fn \in Calling \cup {"block"}, NEW c, NEW S, NEW s \in Seq(S)
    PROVE  /\ Depth(Callee(fn, c) \o s) = Depth(s)
           /\ Flagged(Callee(fn, c) \o s) <=> Flagged(s)
<1>1. ASSUME NEW a, Callee(fn, c) = <<a>>, ~HasScope(a), ~HasFlag(a)
      PROVE  /\ Depth(Callee(fn, c) \o s) = Depth(s)
             /\ Flagged(Callee(fn, c) \o s) <=> Flagged(s)
  BY <1>1, DepthPushed DEF One
<1>2. ASSUME NEW a, NEW b, Callee(fn, c) = <<a, b>>,
             ~HasScope(a), ~HasFlag(a), ~HasScope(b), ~HasFlag(b)
      PROVE  /\ Depth(Callee(fn, c) \o s) = Depth(s)
             /\ Flagged(Callee(fn, c) \o s) <=> Flagged(s)
  <2> DEFINE v == <<b>> \o s
  <2>1. v \in Seq(S \cup {b}) /\ Depth(v) = Depth(s) /\ (Flagged(v) <=> Flagged(s))
    BY <1>2, DepthPushed, Pushed DEF One
  <2>2. <<a, b>> \o s = <<a>> \o v
    BY TwoOnTop
  <2> HIDE DEF v
  <2>3. Depth(<<a>> \o v) = Depth(v) /\ (Flagged(<<a>> \o v) <=> Flagged(v))
    BY <1>2, <2>1, DepthPushed DEF One
  <2> QED
    BY <1>2, <2>1, <2>2, <2>3
<1> QED
  BY <1>1, <1>2, CalleeHolds

\* A call.
LEMMA CallHolds ==
    ASSUME PInv, NEW f, NEW fn \in Calling, Call(f, fn)
    PROVE  /\ Depth(stack') = Depth(Rest) + One(HasScope(f))
           /\ Flagged(stack') <=> HasFlag(f) \/ Flagged(Rest)
<1> DEFINE t == Rest
           v == <<f>> \o t
           cs == Callee(fn, cur)
<1>1. t \in Seq(Frames)
  BY TopOver
<1>2. stack' = cs \o <<f>> \o t
  BY DEF Call
<1>3. cs \in Seq(Frames)
  BY CalleeFrames, TopFacts
<1> HIDE DEF t
<1>4. v \in Seq(Frames \cup {f}) /\ Depth(v) = Depth(t) + One(HasScope(f))
      /\ (Flagged(v) <=> HasFlag(f) \/ Flagged(t))
  BY <1>1, DepthPushed, Pushed
<1>5. cs \o <<f>> \o t = cs \o v
  <2> DEFINE T == Frames \cup {f}
             w == <<f>>
  <2>1. t \in Seq(T) /\ cs \in Seq(T) /\ w \in Seq(T)
    BY <1>1, <1>3
  <2> HIDE DEF T, cs, w
  <2>2. (cs \o w) \o t = cs \o (w \o t)
    BY <2>1, ConcatAssociative
  <2> QED
    BY <2>2 DEF w
<1> HIDE DEF v
<1>6. Depth(cs \o v) = Depth(v) /\ (Flagged(cs \o v) <=> Flagged(v))
  BY <1>4, CallOver
<1> HIDE DEF cs
<1> QED
  BY <1>2, <1>4, <1>5, <1>6 DEF t

\* A return.
LEMMA Returning ==
    ASSUME PInv, Top.fn # "unit", ReturnNothing \/ \E n : Return(n)
    PROVE  Depth(stack') = Depth(Rest) /\ (Flagged(stack') <=> Flagged(Rest))
<1>1. CASE ReturnNothing
  BY <1>1 DEF ReturnNothing
<1>2. ASSUME NEW n, Return(n)
      PROVE  Depth(stack') = Depth(Rest) /\ (Flagged(stack') <=> Flagged(Rest))
  <2> DEFINE t == Rest
             h == Head(t)
             r == Tail(t)
             g == [h EXCEPT !.kids = Append(@, n)]
  <2>1. t \in Seq(Frames) /\ Len(t) > 0
    <3>1. stack \in Seq(Frames) /\ Len(stack) > 0 /\ Len(stack) \in Nat /\ Top = stack[1]
      BY TopFacts DEF Top
    <3>2. Len(stack) = 1 => Frm(stack, 1).fn = "unit" /\ Frm(stack, 1) = stack[1]
      BY <3>1 DEF PInv, Stacked, StackOK, Frm
    <3>3. Tail(stack) \in Seq(Frames) /\ Len(Tail(stack)) = Len(stack) - 1
      BY <3>1
    <3>4. Len(stack) # 1
      BY <3>1, <3>2
    <3>5. Len(stack) - 1 > 0
      BY <3>1, <3>4
    <3> QED
      BY <3>3, <3>5 DEF Rest
  <2>2. stack' = <<g>> \o r
    BY <1>2 DEF Return, Deliver
  <2> HIDE DEF t
  <2>3. t = <<h>> \o r /\ h \in Frames /\ r \in Seq(Frames)
    BY <2>1
  <2>4. g.fn = h.fn /\ g.st = h.st
    <3> HIDE DEF h
    <3> QED
      BY <2>3 DEF Frames
  <2> HIDE DEF h, r, g
  <2>5. /\ Depth(stack') = Depth(r) + One(HasScope(g))
        /\ Flagged(stack') <=> HasFlag(g) \/ Flagged(r)
    BY <2>2, <2>3, DepthPushed
  <2>6. /\ Depth(t) = Depth(r) + One(HasScope(h))
        /\ Flagged(t) <=> HasFlag(h) \/ Flagged(r)
    BY <2>3, DepthPushed
  <2>7. Holding(g, h)
    BY <2>4 DEF Holding, HasScope, HasFlag
  <2> QED
    BY <2>5, <2>6, <2>7 DEF Holding, One, t
<1> QED
  BY <1>1, <1>2

-----------------------------------------------------------------------------
(* The scopes and the flag.                                                *)

Scoped == \E S : scopes \in Seq(S)

Balanced == Scoped /\ NothingLeft

\* The scopes match the blocks on the stack, the flag the specifiers on it.
LEMMA BalancedIs ==
    Balanced <=> /\ Scoped /\ Len(scopes) = 1 + Depth(stack)
                 /\ allow => Flagged(stack)
<1>1. Opened(stack) = {j \in 1 .. Len(stack) : stack[j].fn = "block" /\ stack[j].st # "open"}
  BY DEF Opened, HasScope
<1>2. Flagged(stack) <=> \E j \in 1 .. Len(stack) : stack[j].fn = "leaf" /\ stack[j].st = "got"
  BY DEF Flagged, HasFlag
<1> QED
  BY <1>1, <1>2 DEF Balanced, NothingLeft, Depth

\* It is so after a step whose scopes and flag match the stack it leaves.
LEMMA BalancedThen ==
    ASSUME Scoped', Len(scopes') = 1 + Depth(stack'), allow' => Flagged(stack')
    PROVE  Balanced'
<1>1. Opened(stack')
        = {j \in 1 .. Len(stack') : stack'[j].fn = "block" /\ stack'[j].st # "open"}
  BY DEF Opened, HasScope
<1>2. Flagged(stack')
        <=> \E j \in 1 .. Len(stack') : stack'[j].fn = "leaf" /\ stack'[j].st = "got"
  BY DEF Flagged, HasFlag
<1> QED
  BY <1>1, <1>2 DEF Balanced, NothingLeft, Depth

\* The frame on top becomes one that holds the same, or calls.
LEMMA HoldsSame ==
    ASSUME PInv, Balanced, Quiet, NEW f, Holding(f, Top),
           Depth(stack') = Depth(Rest) + One(HasScope(f)),
           Flagged(stack') <=> HasFlag(f) \/ Flagged(Rest)
    PROVE  Balanced'
<1>1. One(HasScope(f)) = One(HasScope(Top)) /\ (HasFlag(f) <=> HasFlag(Top))
  BY DEF Holding, One
<1>2. Depth(stack') = Depth(stack) /\ (Flagged(stack') <=> Flagged(stack))
  BY <1>1, TopOver
<1>3. scopes' = scopes /\ allow' = allow
  BY DEF Quiet
<1>4. Scoped' /\ Len(scopes') = 1 + Depth(stack') /\ (allow' => Flagged(stack'))
  BY <1>2, <1>3, BalancedIs DEF Scoped
<1> QED
  BY <1>4, BalancedThen

\* It goes on.
LEMMA BecomesSame ==
    ASSUME PInv, Balanced, Quiet, NEW f, Become(f), Holding(f, Top)
    PROVE  Balanced'
BY Becoming, HoldsSame

\* It starts another function, which holds nothing.
LEMMA PushesOn ==
    ASSUME PInv, Balanced, Quiet, NEW a, NEW f, stack' = <<a, f>> \o Rest,
           ~HasScope(a), ~HasFlag(a), Holding(f, Top)
    PROVE  Balanced'
BY Pushing, HoldsSame

\* It calls.
LEMMA CallsSame ==
    ASSUME PInv, Balanced, Quiet, NEW f, NEW fn \in Calling, Call(f, fn), Holding(f, Top)
    PROVE  Balanced'
BY CallHolds, HoldsSame

\* A function that holds neither ends.
LEMMA ReturnsNone ==
    ASSUME PInv, Balanced, Quiet, Top.fn \notin {"unit", "block", "leaf"},
           ReturnNothing \/ \E n : Return(n)
    PROVE  Balanced'
<1>1. ~HasScope(Top) /\ ~HasFlag(Top)
  BY DEF HasScope, HasFlag
<1>2. Depth(stack') = Depth(Rest) /\ (Flagged(stack') <=> Flagged(Rest))
  BY Returning
<1>3. One(HasScope(Top)) = 0
  BY <1>1 DEF One
<1>4. Depth(stack') = Depth(stack) /\ (Flagged(stack') <=> Flagged(stack))
  BY <1>1, <1>2, <1>3, TopOver
<1>5. scopes' = scopes /\ allow' = allow
  BY DEF Quiet
<1>6. Scoped' /\ Len(scopes') = 1 + Depth(stack') /\ (allow' => Flagged(stack'))
  BY <1>4, <1>5, BalancedIs DEF Scoped
<1> QED
  BY <1>6, BalancedThen

-----------------------------------------------------------------------------
(* The steps.                                                              *)

Neither(f) == ~HasScope(f) /\ ~HasFlag(f)

\* Only blocks and specifiers hold anything.
LEMMA NeitherOf ==
    ASSUME NEW f, f.fn \notin {"block", "leaf"}
    PROVE  Neither(f)
BY DEF Neither, HasScope, HasFlag

\* Two that hold neither hold the same.
LEMMA BothNeither ==
    ASSUME NEW f, NEW g, Neither(f), Neither(g)
    PROVE  Holding(f, g)
BY DEF Neither, Holding

\* Functions with a script or a list are neither blocks nor specifiers.
LEMMA NoHolder ==
    ASSUME PInv, Scripted \/ InList
    PROVE  Top.fn \notin {"unit", "block", "leaf"}
BY Named DEF Scripted, InList, Scripts, ListNames

\* A step that leaves the stack, the scopes and the flag alone.
LEMMA BalancedStays ==
    ASSUME Balanced, UNCHANGED <<stack, scopes, allow>>
    PROVE  Balanced'
BY DEF Balanced, Scoped, NothingLeft

\* A function that holds neither goes on.
LEMMA BecomesNone ==
    ASSUME PInv, Balanced, Quiet, NEW f, Become(f), f.fn \notin {"block", "leaf"},
           Top.fn \notin {"block", "leaf"}
    PROVE  Balanced'
BY NeitherOf, BothNeither, BecomesSame

\* It starts another one.
LEMMA PushesNone ==
    ASSUME PInv, Balanced, Quiet, NEW a, NEW f, stack' = <<a, f>> \o Rest,
           a.fn \notin {"block", "leaf"}, f.fn \notin {"block", "leaf"},
           Top.fn \notin {"block", "leaf"}
    PROVE  Balanced'
<1>1. Neither(a) /\ Holding(f, Top)
  BY NeitherOf, BothNeither
<1> QED
  BY <1>1, PushesOn DEF Neither

\* It calls.
LEMMA CallsNone ==
    ASSUME PInv, Balanced, Quiet, NEW f, NEW fn \in Calling, Call(f, fn),
           f.fn \notin {"block", "leaf"}, Top.fn \notin {"block", "leaf"}
    PROVE  Balanced'
BY NeitherOf, BothNeither, CallsSame

\* The scopes are as deep as the blocks that are open, and the flag is set only
\* within a specifier: the steps of all functions.
LEMMA BalancedKeeps == PInv /\ Balanced /\ Next => Balanced'
<1> SUFFICES ASSUME PInv, Balanced, Next PROVE Balanced'
  OBVIOUS
<1>0. Top \in Frames /\ Rest \in Seq(Frames) /\ cur \in Nat \ {0}
  BY TopFacts, TopOver
<1>1. CASE ScriptEat
  <2> DEFINE f == Step(1)
  <2>1. Scripted /\ Become(f) /\ Quiet
    BY <1>1 DEF ScriptEat
  <2>2. Top.fn \notin {"block", "leaf"}
    BY <2>1, NoHolder
  <2>3. f.fn = Top.fn
    BY <1>0 DEF Frames, Step
  <2> HIDE DEF f
  <2> QED
    BY <2>1, <2>2, <2>3, BecomesNone
<1>2. CASE ScriptChoose
  <2> DEFINE f == IF Taken(Element) THEN Step(1) ELSE Step(1 + Element.skip)
  <2>1. Scripted /\ Become(f) /\ Quiet
    BY <1>2 DEF ScriptChoose
  <2>2. Top.fn \notin {"block", "leaf"}
    BY <2>1, NoHolder
  <2>3. Step(1).fn = Top.fn /\ Step(1 + Element.skip).fn = Top.fn
    BY <1>0 DEF Frames, Step
  <2>4. f.fn = Top.fn
    BY <2>3
  <2> HIDE DEF f
  <2> QED
    BY <2>1, <2>2, <2>4, BecomesNone
<1>3. CASE ListComma
  <2> DEFINE f == [Top EXCEPT !.st = "open"]
  <2>1. InList /\ Become(f) /\ Quiet
    BY <1>3 DEF ListComma
  <2>2. Top.fn \notin {"block", "leaf"}
    BY <2>1, NoHolder
  <2>3. f.fn = Top.fn
    BY <1>0 DEF Frames
  <2> HIDE DEF f
  <2> QED
    BY <2>1, <2>2, <2>3, BecomesNone
<1>4. CASE PostfixOperator
  <2> DEFINE f == [Top EXCEPT !.kids = <<New>>]
  <2>1. Top.fn = "postfix" /\ Become(f) /\ Quiet
    BY <1>4 DEF PostfixOperator, Running
  <2>2. Top.fn \notin {"block", "leaf"}
    BY <2>1
  <2>3. f.fn = Top.fn
    BY <1>0 DEF Frames
  <2> HIDE DEF f
  <2> QED
    BY <2>1, <2>2, <2>3, BecomesNone
<1>5. CASE BinaryJoin
  <2> DEFINE f == [Top EXCEPT !.st = "loop", !.kids = <<New>>]
  <2>1. Top.fn = "binary" /\ Become(f) /\ Quiet
    BY <1>5 DEF BinaryJoin, Joining, Running
  <2>2. Top.fn \notin {"block", "leaf"}
    BY <2>1
  <2>3. f.fn = Top.fn
    BY <1>0 DEF Frames
  <2> HIDE DEF f
  <2> QED
    BY <2>1, <2>2, <2>3, BecomesNone
<1>6. CASE CaseSep
  <2> DEFINE f == [Top EXCEPT !.st = "start"]
  <2>1. Top.fn = "cases" /\ Become(f) /\ Quiet
    BY <1>6 DEF CaseSep, Running
  <2>2. Top.fn \notin {"block", "leaf"}
    BY <2>1
  <2>3. f.fn = Top.fn
    BY <1>0 DEF Frames
  <2> HIDE DEF f
  <2> QED
    BY <2>1, <2>2, <2>3, BecomesNone
<1>7. CASE PeekAfterName
  <2> DEFINE f == [Top EXCEPT !.st = "peek"]
  <2>1. Top.fn = "primary" /\ Become(f) /\ Quiet
    BY <1>7 DEF PeekAfterName, Running
  <2>2. Top.fn \notin {"block", "leaf"}
    BY <2>1
  <2>3. f.fn = Top.fn
    BY <1>0 DEF Frames
  <2> HIDE DEF f
  <2> QED
    BY <2>1, <2>2, <2>3, BecomesNone
<1>8. CASE DecideByPeek
  <2> DEFINE f == Frame(NamedBy(Token), "start", Top.lo, <<>>)
  <2>1. Top.fn = "primary" /\ Become(f) /\ Quiet
    BY <1>8 DEF DecideByPeek, Running
  <2>2. f.fn \notin {"block", "leaf"}
    BY DEF Frame, NamedBy
  <2> HIDE DEF f
  <2> QED
    BY <2>1, <2>2, BecomesNone
<1>9. CASE PrimaryBracketed
  <2> DEFINE f == Frame(Bracketed(Token), "start", cur, <<>>)
  <2>1. Top.fn = "primary" /\ Become(f) /\ Quiet
    BY <1>9 DEF PrimaryBracketed, Running
  <2>2. f.fn \notin {"block", "leaf"}
    BY DEF Frame, Bracketed
  <2> HIDE DEF f
  <2> QED
    BY <2>1, <2>2, BecomesNone
<1>10. CASE UseDecide
  <2> DEFINE f == Frame(IF Token = "{" THEN "init" ELSE "usespec", "start", Top.lo, <<>>)
  <2>1. Top.fn = "usespec" /\ Become(f) /\ Quiet
    BY <1>10 DEF UseDecide, Running
  <2>2. f.fn \notin {"block", "leaf"}
    BY DEF Frame
  <2> HIDE DEF f
  <2> QED
    BY <2>1, <2>2, BecomesNone
<1>11. CASE Known
  <2>1. PICK f : Become(f) /\ f.fn \in {"usespec", "ref"}
    BY <1>11 DEF Known, Frame
  <2>2. Top.fn = "primary" /\ Quiet
    BY <1>11 DEF Known, Running
  <2> QED
    BY <2>1, <2>2, BecomesNone
<1>12. CASE ScriptDone
  <2>1. Scripted /\ Quiet /\ (ReturnNothing \/ \E n : Return(n))
    BY <1>12 DEF ScriptDone
  <2>2. Top.fn \notin {"unit", "block", "leaf"}
    BY <2>1, NoHolder
  <2> QED
    BY <2>1, <2>2, ReturnsNone
<1>13. CASE ListEnd
  <2>1. InList /\ Quiet /\ (ReturnNothing \/ \E n : Return(n))
    BY <1>13 DEF ListEnd
  <2>2. Top.fn \notin {"unit", "block", "leaf"}
    BY <2>1, NoHolder
  <2> QED
    BY <2>1, <2>2, ReturnsNone
<1>14. CASE PrefixDone
  <2>1. Top.fn = "prefix" /\ Quiet /\ (ReturnNothing \/ \E n : Return(n))
    BY <1>14 DEF PrefixDone, Running
  <2>2. Top.fn \notin {"unit", "block", "leaf"}
    BY <2>1
  <2> QED
    BY <2>1, <2>2, ReturnsNone
<1>15. CASE PostfixDone
  <2>1. Top.fn = "postfix" /\ Quiet /\ (ReturnNothing \/ \E n : Return(n))
    BY <1>15 DEF PostfixDone, Running
  <2>2. Top.fn \notin {"unit", "block", "leaf"}
    BY <2>1
  <2> QED
    BY <2>1, <2>2, ReturnsNone
<1>16. CASE BinaryDone
  <2>1. Top.fn = "binary" /\ Quiet /\ (ReturnNothing \/ \E n : Return(n))
    BY <1>16 DEF BinaryDone, Running
  <2>2. Top.fn \notin {"unit", "block", "leaf"}
    BY <2>1
  <2> QED
    BY <2>1, <2>2, ReturnsNone
<1>17. CASE Literal
  <2>1. Top.fn = "primary" /\ Quiet /\ (ReturnNothing \/ \E n : Return(n))
    BY <1>17 DEF Literal, Running
  <2>2. Top.fn \notin {"unit", "block", "leaf"}
    BY <2>1
  <2> QED
    BY <2>1, <2>2, ReturnsNone
<1>18. CASE Ref
  <2>1. Top.fn = "ref" /\ Quiet /\ (ReturnNothing \/ \E n : Return(n))
    BY <1>18 DEF Ref, Running
  <2>2. Top.fn \notin {"unit", "block", "leaf"}
    BY <2>1
  <2> QED
    BY <2>1, <2>2, ReturnsNone
<1>19. CASE CasesEnd
  <2>1. Top.fn = "cases" /\ Quiet /\ (ReturnNothing \/ \E n : Return(n))
    BY <1>19 DEF CasesEnd, Running
  <2>2. Top.fn \notin {"unit", "block", "leaf"}
    BY <2>1
  <2> QED
    BY <2>1, <2>2, ReturnsNone
<1>20. CASE ScriptCall
  <2> DEFINE f == Step(1)
  <2>1. Scripted /\ Quiet /\ Call(f, Element.fn)
    BY <1>20 DEF ScriptCall
  <2>2. Top.fn \notin {"block", "leaf"}
    BY <2>1, NoHolder
  <2>3. f.fn = Top.fn
    BY <1>0 DEF Frames, Step
  <2>4. Element.fn \in Calling
    <3>1. Scripted /\ ~Ended /\ Element.do = "call"
      BY <1>20 DEF ScriptCall
    <3>2. ElementOK(Top.fn, Top.i, Element)
      BY <3>1, ScriptTop
    <3> QED
      BY <3>1, <3>2 DEF ElementOK, Calling
  <2> HIDE DEF f
  <2> QED
    BY <2>1, <2>2, <2>3, <2>4, CallsNone
<1>21. CASE ListItem
  <2> DEFINE f == [Top EXCEPT !.st = "sep"]
  <2>1. InList /\ Quiet /\ Call(f, Lists[Top.fn].item)
    BY <1>21 DEF ListItem
  <2>2. Top.fn \notin {"block", "leaf"}
    BY <2>1, NoHolder
  <2>3. f.fn = Top.fn
    BY <1>0 DEF Frames
  <2>4. Lists[Top.fn].item \in Calling
    <3>1. Top.fn \in ListNames
      BY <2>1, ListTop
    <3> QED
      BY <3>1, ListItems
  <2> HIDE DEF f
  <2> QED
    BY <2>1, <2>2, <2>3, <2>4, CallsNone
<1>22. CASE CaseStart
  <2> DEFINE f == [Top EXCEPT !.st = "sep"]
             fn == IF Token = "_" THEN "default" ELSE "case"
  <2>1. Top.fn = "cases" /\ Quiet /\ Call(f, fn)
    BY <1>22 DEF CaseStart, Running
  <2>2. f.fn = Top.fn
    BY <1>0 DEF Frames
  <2>3. fn \in Calling
    BY DEF Calling
  <2> HIDE DEF f, fn
  <2> QED
    BY <2>1, <2>2, <2>3, CallsNone
<1>23. CASE BlockStatement
  <2> DEFINE f == [Top EXCEPT !.st = "semi"]
  <2>1. Top.fn = "block" /\ Top.st = "loop" /\ Quiet /\ Call(f, "stmt")
    BY <1>23 DEF BlockStatement, Running
  <2>2. f.fn = Top.fn /\ f.st = "semi"
    BY <1>0 DEF Frames
  <2>3. "stmt" \in Calling
    BY DEF Calling
  <2> HIDE DEF f
  <2>4. Holding(f, Top)
    BY <2>1, <2>2 DEF Holding, HasScope, HasFlag
  <2> QED
    BY <2>1, <2>3, <2>4, CallsSame
<1>24. CASE PrefixOperator
  <2> DEFINE a == Frame("prefix", "start", cur + 1, <<>>)
             f == [Top EXCEPT !.st = "operand"]
  <2>1. Top.fn = "prefix" /\ Quiet /\ stack' = <<a, f>> \o Rest
    BY <1>24 DEF PrefixOperator, Running
  <2>2. a.fn \notin {"block", "leaf"}
    BY DEF Frame
  <2>3. f.fn = Top.fn
    BY <1>0 DEF Frames
  <2> HIDE DEF a, f
  <2> QED
    BY <2>1, <2>2, <2>3, PushesNone
<1>25. CASE PostfixTail
  <2> DEFINE a == Frame(IF Token = "[" THEN "index" ELSE "member", "start", Top.lo, Top.kids)
             f == [Top EXCEPT !.kids = <<>>]
  <2>1. Top.fn = "postfix" /\ Quiet /\ stack' = <<a, f>> \o Rest
    BY <1>25 DEF PostfixTail, Running
  <2>2. a.fn \notin {"block", "leaf"}
    BY DEF Frame
  <2>3. f.fn = Top.fn
    BY <1>0 DEF Frames
  <2> HIDE DEF a, f
  <2> QED
    BY <2>1, <2>2, <2>3, PushesNone
<1>26. CASE BinaryOperator
  <2> DEFINE a == Frame("prefix", "start", cur + 1, <<>>)
             f == [Top EXCEPT !.st = "rhs", !.at = cur]
  <2>1. Top.fn = "binary" /\ Quiet /\ stack' = <<a, f>> \o Rest
    BY <1>26 DEF BinaryOperator, Running
  <2>2. a.fn \notin {"block", "leaf"}
    BY DEF Frame
  <2>3. f.fn = Top.fn
    BY <1>0 DEF Frames
  <2> HIDE DEF a, f
  <2> QED
    BY <2>1, <2>2, <2>3, PushesNone
<1>27. CASE UseAhead
  <2> DEFINE a == Frame("typename", "start", cur, <<>>)
             f == [Top EXCEPT !.st = "named"]
  <2>1. Top.fn = "usespec" /\ Quiet /\ stack' = <<a, f>> \o Rest
    BY <1>27 DEF UseAhead, Running
  <2>2. a.fn \notin {"block", "leaf"}
    BY DEF Frame
  <2>3. f.fn = Top.fn
    BY <1>0 DEF Frames
  <2> HIDE DEF a, f
  <2> QED
    BY <2>1, <2>2, <2>3, PushesNone
<1>28. CASE TryTypeName
  <2> DEFINE a == Frame("typename", "start", Top.lo, <<>>)
             f == [Top EXCEPT !.st = "named"]
  <2>1. Top.fn = "primary" /\ Quiet /\ stack' = <<a, f>> \o Rest
    BY <1>28 DEF TryTypeName, Running
  <2>2. a.fn \notin {"block", "leaf"}
    BY DEF Frame
  <2>3. f.fn = Top.fn
    BY <1>0 DEF Frames
  <2> HIDE DEF a, f
  <2> QED
    BY <2>1, <2>2, <2>3, PushesNone
<1>29. CASE PrefixNone
  <2> DEFINE a == Frame("primary", "start", cur, <<>>)
             f == Frame("postfix", "loop", cur, <<>>)
  <2>1. Top.fn = "prefix" /\ Quiet /\ stack' = <<a, f>> \o Rest
    BY <1>29 DEF PrefixNone, Running
  <2>2. a.fn \notin {"block", "leaf"} /\ f.fn \notin {"block", "leaf"}
    BY DEF Frame
  <2> HIDE DEF a, f
  <2> QED
    BY <2>1, <2>2, PushesNone
<1>30. CASE BinaryNested
  <2> DEFINE b == Frame("binary", "loop", nodes[Top.kids[2]].lo, <<Top.kids[2]>>)
             a == [b EXCEPT !.prec = Top.prec + 1]
             f == [Top EXCEPT !.st = "nested", !.kids = <<Top.kids[1]>>]
  <2>1. Top.fn = "binary" /\ Quiet /\ stack' = <<a, f>> \o Rest
    BY <1>30 DEF BinaryNested, Running
  <2>2. a.fn = "binary"
    BY DEF Frame
  <2>3. f.fn = Top.fn
    BY <1>0 DEF Frames
  <2> HIDE DEF a, b, f
  <2> QED
    BY <2>1, <2>2, <2>3, PushesNone
<1>31. CASE StatementStart
  <2> DEFINE fn == Statement(Token)
             t == Rest
  <2>1. Top.fn = "stmt" /\ Quiet /\ stack' = Callee(fn, cur) \o t
    BY <1>31 DEF StatementStart, Running
  <2>2. fn \in Calling \cup {"block"}
    BY DEF Statement, Calling, Callable
  <2> HIDE DEF fn, t
  <2>3. t \in Seq(Frames)
    BY <1>0 DEF t
  <2>4. Depth(stack') = Depth(t) /\ (Flagged(stack') <=> Flagged(t))
    BY <2>1, <2>2, <2>3, CallOver
  <2>5. ~HasScope(Top) /\ ~HasFlag(Top) /\ One(HasScope(Top)) = 0
    BY <2>1 DEF HasScope, HasFlag, One
  <2>6. Depth(stack') = Depth(t) + One(HasScope(Top)) /\ Depth(t) \in Nat
    BY <2>4, <2>5, TopOver DEF t
  <2> QED
    BY <2>1, <2>4, <2>5, <2>6, HoldsSame DEF t, Holding
<1>32. CASE TypeSuffix
  <2>1. /\ Top.fn = "suffix" /\ Quiet
        /\ UNCHANGED stack \/ Call(Top, "bound") \/ ReturnNothing
    BY <1>32 DEF TypeSuffix, Running
  <2>2. CASE UNCHANGED stack
    BY <2>1, <2>2, BalancedStays DEF Quiet
  <2>3. CASE Call(Top, "bound")
    <3>1. "bound" \in Calling
      BY DEF Calling
    <3> QED
      BY <2>1, <2>3, <3>1, CallsNone
  <2>4. CASE ReturnNothing
    BY <2>1, <2>4, ReturnsNone
  <2> QED
    BY <2>1, <2>2, <2>3, <2>4
<1>33. CASE BlockSemi
  <2> DEFINE f == [Top EXCEPT !.st = "loop"]
  <2>1. /\ Top.fn = "block" /\ Top.st = "semi" /\ Quiet
        /\ UNCHANGED stack \/ Become(f)
    BY <1>33 DEF BlockSemi, Running
  <2>2. CASE UNCHANGED stack
    BY <2>1, <2>2, BalancedStays DEF Quiet
  <2>3. CASE Become(f)
    <3>1. f.fn = Top.fn /\ f.st = "loop"
      BY <1>0 DEF Frames
    <3> HIDE DEF f
    <3>2. Holding(f, Top)
      BY <2>1, <3>1 DEF Holding, HasScope, HasFlag
    <3> QED
      BY <2>1, <2>3, <3>2, BecomesSame
  <2> QED
    BY <2>1, <2>2, <2>3
<1>34. CASE BlockOpen
  <2> DEFINE f == [Top EXCEPT !.st = "loop"]
  <2>1. /\ Top.fn = "block" /\ Top.st = "open" /\ Become(f)
        /\ scopes' = Append(scopes, {}) /\ allow' = allow
    BY <1>34 DEF BlockOpen, Running
  <2>2. f.fn = "block" /\ f.st = "loop"
    BY <1>0, <2>1 DEF Frames
  <2> HIDE DEF f
  <2>3. /\ One(HasScope(f)) = 1 /\ One(HasScope(Top)) = 0
        /\ ~HasFlag(f) /\ ~HasFlag(Top)
    BY <2>1, <2>2 DEF One, HasScope, HasFlag
  <2>4. /\ Depth(stack') = Depth(Rest) + 1
        /\ Flagged(stack') <=> Flagged(Rest)
    BY <2>1, <2>3, Becoming
  <2>5. Depth(stack) = Depth(Rest) /\ (Flagged(stack) <=> Flagged(Rest)) /\ Depth(Rest) \in Nat
    BY <2>3, TopOver
  <2>6. Scoped' /\ Len(scopes') = Len(scopes) + 1 /\ Len(scopes) \in Nat
    <3>1. PICK S : scopes \in Seq(S)
      BY DEF Balanced, Scoped
    <3> DEFINE T == S \cup {{}}
    <3>2. scopes \in Seq(T) /\ {} \in T
      BY <3>1
    <3> HIDE DEF T
    <3>3. scopes' \in Seq(T) /\ Len(scopes') = Len(scopes) + 1 /\ Len(scopes) \in Nat
      BY <2>1, <3>2
    <3> QED
      BY <3>3 DEF Scoped
  <2>7. Len(scopes) = 1 + Depth(stack) /\ (allow => Flagged(stack))
    BY BalancedIs
  <2>8. Len(scopes') = 1 + Depth(stack')
    BY <2>4, <2>5, <2>6, <2>7
  <2> QED
    BY <2>1, <2>4, <2>5, <2>6, <2>7, <2>8, BalancedThen
<1>35. CASE BlockClose
  <2>1. /\ Top.fn = "block" /\ Top.st = "loop" /\ Return(New)
        /\ scopes' = SubSeq(scopes, 1, Len(scopes) - 1) /\ allow' = allow
    BY <1>35 DEF BlockClose, Running
  <2>2. One(HasScope(Top)) = 1 /\ ~HasFlag(Top)
    BY <2>1 DEF One, HasScope, HasFlag
  <2>3. Depth(stack') = Depth(Rest) /\ (Flagged(stack') <=> Flagged(Rest))
    BY <2>1, Returning
  <2>4. /\ Depth(stack) = Depth(Rest) + 1 /\ Depth(Rest) \in Nat
        /\ Flagged(stack) <=> Flagged(Rest)
    BY <2>2, TopOver
  <2>5. Len(scopes) = 1 + Depth(stack) /\ (allow => Flagged(stack))
    BY BalancedIs
  <2>6. Scoped' /\ Len(scopes') = Len(scopes) - 1
    <3>1. PICK S : scopes \in Seq(S)
      BY DEF Balanced, Scoped
    <3> DEFINE c == Len(scopes) - 1
    <3>2. c \in Nat /\ c <= Len(scopes) /\ Len(scopes) \in Nat
      BY <2>4, <2>5, <3>1
    <3>3. scopes' = SubSeq(scopes, 1, c)
      BY <2>1
    <3> HIDE DEF c
    <3>4. SubSeq(scopes, 1, c) \in Seq(S) /\ Len(SubSeq(scopes, 1, c)) = c
      BY <3>1, <3>2
    <3> QED
      BY <3>3, <3>4 DEF Scoped, c
  <2>7. Len(scopes') = 1 + Depth(stack')
    BY <2>3, <2>4, <2>5, <2>6
  <2> QED
    BY <2>1, <2>3, <2>4, <2>5, <2>6, <2>7, BalancedThen
<1>36. CASE Declare
  <2> DEFINE d == Len(scopes)
             x == scopes[Len(scopes)] \cup {toks[stack[2].lo + 1]}
  <2>1. /\ Top.fn = "declare" /\ ReturnNothing /\ scopes' = [scopes EXCEPT ![d] = x]
        /\ allow' = allow
    BY <1>36 DEF Declare, Running
  <2>2. ~HasScope(Top) /\ ~HasFlag(Top) /\ One(HasScope(Top)) = 0
    BY <2>1 DEF One, HasScope, HasFlag
  <2>3. Depth(stack') = Depth(Rest) /\ (Flagged(stack') <=> Flagged(Rest))
    BY <2>1, Returning
  <2>4. /\ Depth(stack) = Depth(Rest) /\ Depth(Rest) \in Nat
        /\ Flagged(stack) <=> Flagged(Rest)
    BY <2>2, TopOver
  <2>5. Len(scopes) = 1 + Depth(stack) /\ (allow => Flagged(stack))
    BY BalancedIs
  <2>6. Scoped' /\ Len(scopes') = Len(scopes)
    <3>1. PICK S : scopes \in Seq(S)
      BY DEF Balanced, Scoped
    <3> HIDE DEF x
    <3> DEFINE T == S \cup {x}
    <3>2. scopes \in Seq(T) /\ x \in T
      BY <3>1
    <3> HIDE DEF T, d
    <3>3. [scopes EXCEPT ![d] = x] \in Seq(T) /\ Len([scopes EXCEPT ![d] = x]) = Len(scopes)
      BY <3>2, EntryChanged
    <3> QED
      BY <2>1, <3>3 DEF Scoped
  <2> QED
    BY <2>1, <2>3, <2>4, <2>5, <2>6, BalancedThen
<1>37. CASE LeafStart
  <2> DEFINE a == Frame("primary", "start", cur, <<>>)
             f == [Top EXCEPT !.st = "got"]
  <2>1. Top.fn = "leaf" /\ Top.st = "start" /\ scopes' = scopes /\ stack' = <<a, f>> \o Rest
    BY <1>37 DEF LeafStart, Running
  <2>2. ~HasScope(a) /\ ~HasFlag(a)
    BY DEF Frame, HasScope, HasFlag
  <2>3. f.fn = "leaf" /\ f.st = "got"
    BY <1>0, <2>1 DEF Frames
  <2> HIDE DEF a, f
  <2>4. /\ One(HasScope(f)) = 0 /\ One(HasScope(Top)) = 0 /\ HasFlag(f)
    BY <2>1, <2>3 DEF One, HasScope, HasFlag
  <2>5. Depth(stack') = Depth(Rest) + One(HasScope(f)) /\ Flagged(stack')
    BY <2>1, <2>2, <2>4, Pushing
  <2>6. Depth(stack') = Depth(stack)
    BY <2>4, <2>5, TopOver
  <2>7. Scoped' /\ Len(scopes') = 1 + Depth(stack')
    BY <2>1, <2>5, <2>6, BalancedIs DEF Scoped
  <2> QED
    BY <2>5, <2>7, BalancedThen
<1>38. CASE LeafDone
  <2>1. /\ Top.fn = "leaf" /\ Return(Top.kids[1]) /\ scopes' = scopes /\ allow' = FALSE
    BY <1>38 DEF LeafDone, Running
  <2>2. One(HasScope(Top)) = 0
    BY <2>1 DEF One, HasScope
  <2>3. Depth(stack') = Depth(Rest)
    BY <2>1, Returning
  <2>4. Depth(stack) = Depth(Rest)
    BY <2>2, TopOver
  <2>5. Scoped' /\ Len(scopes') = 1 + Depth(stack')
    BY <2>1, <2>3, <2>4, BalancedIs DEF Scoped
  <2> QED
    BY <2>1, <2>5, BalancedThen
<1>39. CASE Finish \/ Reject \/ Stopped
  <2>1. UNCHANGED <<stack, scopes, allow>>
    BY <1>39 DEF Finish, Reject, Stopped, vars
  <2> QED
    BY <2>1, BalancedStays
<1> QED
  BY <1>1, <1>2, <1>3, <1>4, <1>5, <1>6, <1>7, <1>8, <1>9, <1>10, <1>11, <1>12,
     <1>13, <1>14, <1>15, <1>16, <1>17, <1>18, <1>19, <1>20, <1>21, <1>22,
     <1>23, <1>24, <1>25, <1>26, <1>27, <1>28, <1>29, <1>30, <1>31, <1>32,
     <1>33, <1>34, <1>35, <1>36, <1>37, <1>38, <1>39 DEF Next

-----------------------------------------------------------------------------
(* Nothing is left behind.                                                 *)

\* At first no block is open and no specifier runs.
LEMMA BalancedFirst == Init => Balanced
<1> SUFFICES ASSUME Init PROVE Balanced
  OBVIOUS
<1> DEFINE u == Frame("unit", "wait", 1, <<>>)
           t == <<u>>
<1>1. scopes = <<Declared>> /\ allow = FALSE
  BY DEF Init
<1>2. Scoped /\ Len(scopes) = 1
  <2> DEFINE s == <<Declared>>
  <2>1. s \in Seq({Declared}) /\ Len(s) = 1
    OBVIOUS
  <2> HIDE DEF s
  <2>2. scopes = s
    BY <1>1 DEF s
  <2> QED
    BY <2>1, <2>2 DEF Scoped
<1>3. Opened(t) = {}
  BY DEF Opened, HasScope, Frame
<1>4. Depth(t) = 0 /\ t \in Seq({u})
  BY <1>3, FS_EmptySet DEF Depth
<1> HIDE DEF t
<1>5. PICK fn \in Calling \cup {"block"} : stack = Callee(fn, 1) \o t
  <2>1. CASE lexicon.start = "expr"
    <3> DEFINE a == Frame("prefix", "start", 1, <<>>)
               b == Frame("binary", "loop", 1, <<>>)
    <3>1. stack = <<a, b, u>>
      BY <2>1 DEF Init
    <3>2. Callee("expr", 1) = <<a, b>>
      BY DEF Callee, Lists
    <3> HIDE DEF a, b, u
    <3>3. <<a, b>> \o <<u>> = <<a, b, u>>
      <4> DEFINE S == {a, b, u}
      <4>1. a \in S /\ b \in S /\ u \in S
        OBVIOUS
      <4> HIDE DEF S
      <4> QED
        BY <4>1, ThreeFrames
    <3>4. stack = Callee("expr", 1) \o t
      BY <3>1, <3>2, <3>3 DEF t
    <3> QED
      BY <3>4 DEF Calling, Callable
  <2>2. CASE lexicon.start # "expr"
    <3> DEFINE a == Frame("block", "open", 1, <<>>)
    <3>1. stack = <<a, u>>
      BY <2>2 DEF Init
    <3>2. Callee("block", 1) = <<a>>
      BY DEF Callee
    <3> HIDE DEF a, u
    <3>3. <<a>> \o <<u>> = <<a, u>>
      <4> DEFINE S == {a, u}
      <4>1. a \in S /\ u \in S
        OBVIOUS
      <4> HIDE DEF S
      <4> QED
        BY <4>1, TwoFrames
    <3>4. stack = Callee("block", 1) \o t
      BY <3>1, <3>2, <3>3 DEF t
    <3> QED
      BY <3>4
  <2> QED
    BY <2>1, <2>2
<1>6. Depth(stack) = 0
  BY <1>4, <1>5, CallOver
<1> QED
  BY <1>1, <1>2, <1>6, BalancedIs

\* Scopes and the flag m_AllowUnresolved are as deep as the functions that run:
\* a block or a specifier that ends leaves nothing behind.
THEOREM NothingIsLeft == Spec => []NothingLeft
<1>1. Init => IInv /\ Balanced
  BY InitHolds, BalancedFirst
<1>2. IInv /\ Balanced /\ [Next]_vars => (IInv /\ Balanced)'
  <2>1. ASSUME IInv, Balanced, Next PROVE Balanced'
    BY <2>1, BalancedKeeps DEF IInv
  <2>2. ASSUME Balanced, UNCHANGED vars PROVE Balanced'
    BY <2>2, BalancedStays DEF vars
  <2> QED
    BY <2>1, <2>2, StepHolds
<1>3. Balanced => NothingLeft
  BY DEF Balanced
<1> QED
  BY <1>1, <1>2, <1>3, PTL DEF Spec

-----------------------------------------------------------------------------
(* How often a node is held.                                               *)

Kids == Seq(Nat \ {0})

\* How often m is one of the kids, and one of the kids of some frame or node
Occ(ks, m) == Cardinality(Places(ks, m))
Held(s, m) == UNION {{<<j, k>> : k \in Places(s[j].kids, m)} : j \in 1 .. Len(s)}
Count(s, m) == Cardinality(Held(s, m))

Kidful(S) == \A x \in S : x.kids \in Kids

\* The places of m are finitely many.
LEMMA PlacesFinite ==
    ASSUME NEW ks \in Kids, NEW m
    PROVE  /\ IsFiniteSet(Places(ks, m)) /\ Places(ks, m) \subseteq 1 .. Len(ks)
           /\ Occ(ks, m) \in Nat
<1>1. Len(ks) \in Nat
  BY DEF Kids
<1>2. IsFiniteSet(1 .. Len(ks)) /\ Places(ks, m) \subseteq 1 .. Len(ks)
  BY <1>1, FS_Interval DEF Places
<1>3. IsFiniteSet(Places(ks, m))
  BY <1>2, FS_Subset
<1> QED
  BY <1>2, <1>3, FS_CardinalityType DEF Occ

\* In no kids, in one and in one more.
LEMMA OccOf ==
    ASSUME NEW m
    PROVE  /\ Occ(<<>>, m) = 0
           /\ \A n : Occ(<<n>>, m) = One(n = m)
<1>1. Places(<<>>, m) = {}
  BY DEF Places
<1>2. ASSUME NEW n PROVE Occ(<<n>>, m) = One(n = m)
  <2>1. CASE n = m
    <3>1. Places(<<n>>, m) = {1}
      BY <2>1 DEF Places
    <3> QED
      BY <2>1, <3>1, FS_Singleton DEF Occ, One
  <2>2. CASE n # m
    <3>1. Places(<<n>>, m) = {}
      BY <2>2 DEF Places
    <3> QED
      BY <2>2, <3>1, FS_EmptySet DEF Occ, One
  <2> QED
    BY <2>1, <2>2
<1> QED
  BY <1>1, <1>2, FS_EmptySet DEF Occ

\* One kid more.
LEMMA OccAppend ==
    ASSUME NEW ks \in Kids, NEW n, NEW m
    PROVE  Occ(Append(ks, n), m) = Occ(ks, m) + One(n = m)
<1> DEFINE c == Len(ks) + 1
           ms == Append(ks, n)
           A == Places(ks, m)
<1>1. Len(ks) \in Nat /\ c \in Nat
  BY DEF Kids
<1>2. Len(ms) = c /\ ms[c] = n /\ \A k \in 1 .. Len(ks) : ms[k] = ks[k]
  BY DEF Kids
<1>3. \A k \in 1 .. c : k \in 1 .. Len(ks) \/ k = c
  BY <1>1
<1>4. \A k \in 1 .. Len(ks) : k \in 1 .. c /\ k # c
  BY <1>1
<1>5. c \in 1 .. c
  BY <1>1
<1>6. IsFiniteSet(A) /\ A \subseteq 1 .. Len(ks) /\ Occ(ks, m) \in Nat
  BY PlacesFinite
<1> HIDE DEF ms, c
<1>7. Places(ms, m) = IF n = m THEN A \cup {c} ELSE A
  BY <1>2, <1>3, <1>4, <1>5 DEF Places
<1>8. c \notin A
  BY <1>4, <1>6
<1> HIDE DEF A
<1>9. Cardinality(A \cup {c}) = Cardinality(A) + 1
  BY <1>6, <1>8, FS_AddElement
<1>10. Cardinality(A) = Occ(ks, m)
  BY DEF Occ, A
<1>11. CASE n = m
  BY <1>7, <1>9, <1>10, <1>11 DEF Occ, One, ms
<1>12. CASE n # m
  <2>1. Occ(ms, m) = Occ(ks, m)
    BY <1>7, <1>10, <1>12 DEF Occ
  <2> QED
    BY <1>6, <1>12, <2>1 DEF One, ms
<1> QED
  BY <1>11, <1>12

\* The pairs of a place and a kid that are held.
LEMMA HeldIs ==
    ASSUME NEW s, NEW m
    PROVE  \A h : h \in Held(s, m) <=>
              \E j \in 1 .. Len(s) : \E k \in Places(s[j].kids, m) : h = <<j, k>>
BY DEF Held

\* The places of m in one of the kids are as many as the pairs that hold it there.
LEMMA PairsFinite ==
    ASSUME NEW ks \in Kids, NEW m, NEW j
    PROVE  /\ IsFiniteSet({<<j, k>> : k \in Places(ks, m)})
           /\ Cardinality({<<j, k>> : k \in Places(ks, m)}) = Occ(ks, m)
<1> DEFINE A == Places(ks, m)
           B == {<<j, k>> : k \in A}
           g == [k \in A |-> <<j, k>>]
<1>1. IsFiniteSet(A) /\ Cardinality(A) = Occ(ks, m)
  BY PlacesFinite DEF Occ
<1> HIDE DEF A
<1>2. g \in Bijection(A, B)
  <2>1. g \in [A -> B]
    OBVIOUS
  <2>2. \A i, k \in A : g[i] = g[k] => i = k
    OBVIOUS
  <2>3. \A h \in B : \E i \in A : g[i] = h
    OBVIOUS
  <2> QED
    BY <2>1, <2>2, <2>3 DEF Bijection, Injection, Surjection, IsInjective
<1> QED
  BY <1>1, <1>2, FS_Bijection DEF ExistsBijection, A

\* What is held is finite.
LEMMA HeldFinite ==
    ASSUME NEW S, Kidful(S), NEW s \in Seq(S), NEW m
    PROVE  IsFiniteSet(Held(s, m)) /\ Count(s, m) \in Nat
<1> DEFINE J == 1 .. Len(s)
           P(j) == {<<j, k>> : k \in Places(s[j].kids, m)}
           T == {P(j) : j \in J}
           g == [j \in J |-> P(j)]
<1>1. IsFiniteSet(J)
  BY FS_Interval
<1>2. \A j \in J : s[j].kids \in Kids
  BY DEF Kidful
<1>3. \A j \in J : IsFiniteSet(P(j))
  BY <1>2, PairsFinite
<1>4. Held(s, m) = UNION T
  BY DEF Held
<1> HIDE DEF P, J
<1>5. g \in Surjection(J, T)
  BY DEF Surjection
<1>6. IsFiniteSet(T) /\ \A x \in T : IsFiniteSet(x)
  BY <1>1, <1>3, <1>5, FS_Surjection
<1> HIDE DEF T
<1>7. IsFiniteSet(Held(s, m))
  BY <1>4, <1>6, FS_UNION
<1> QED
  BY <1>7, FS_CardinalityType DEF Count

\* A frame or a node more at the front: its kids and those of the others.
LEMMA CountPushed ==
    ASSUME NEW S, Kidful(S), NEW s \in Seq(S), NEW f, f.kids \in Kids, NEW m
    PROVE  Count(<<f>> \o s, m) = Occ(f.kids, m) + Count(s, m)
<1> DEFINE u == <<f>> \o s
           A == Held(s, m)
           B == {<<h[1] + 1, h[2]>> : h \in A}
           C == {<<1, k>> : k \in Places(f.kids, m)}
           g == [h \in A |-> <<h[1] + 1, h[2]>>]
<1>1. /\ Len(s) \in Nat /\ Len(u) = Len(s) + 1 /\ u[1] = f
      /\ \A j \in 1 .. Len(s) : u[j + 1] = s[j]
  BY Pushed
<1> HIDE DEF u
<1>2. \A j \in 1 .. Len(u) : j = 1 \/ (j - 1 \in 1 .. Len(s) /\ (j - 1) + 1 = j)
  BY <1>1
<1>3. \A j \in 1 .. Len(s) : j \in Nat /\ j + 1 # 1 /\ j + 1 \in 1 .. Len(u)
  BY <1>1
<1>4. IsFiniteSet(A) /\ Cardinality(A) \in Nat /\ Cardinality(A) = Count(s, m)
  BY HeldFinite DEF Count
<1>5. \A h \in A : h = <<h[1], h[2]>> /\ h[1] \in 1 .. Len(s) /\ h[2] \in Places(s[h[1]].kids, m)
  BY HeldIs
<1> HIDE DEF A
<1>6. g \in Bijection(A, B)
  <2>1. g \in [A -> B]
    OBVIOUS
  <2>2. ASSUME NEW h \in A, NEW i \in A, g[h] = g[i] PROVE h = i
    <3>1. h[1] + 1 = i[1] + 1 /\ h[2] = i[2]
      BY <2>2
    <3>2. h[1] = i[1]
      BY <1>3, <1>5, <3>1
    <3> QED
      BY <1>5, <3>1, <3>2
  <2>3. \A x \in B : \E h \in A : g[h] = x
    OBVIOUS
  <2> QED
    BY <2>1, <2>2, <2>3 DEF Bijection, Injection, Surjection, IsInjective
<1>7. IsFiniteSet(B) /\ Cardinality(B) = Count(s, m)
  BY <1>4, <1>6, FS_Bijection DEF ExistsBijection
<1>8. IsFiniteSet(C) /\ Cardinality(C) = Occ(f.kids, m) /\ Cardinality(C) \in Nat
  <2>1. IsFiniteSet(C) /\ Cardinality(C) = Occ(f.kids, m)
    BY PairsFinite
  <2>2. Occ(f.kids, m) \in Nat
    BY PlacesFinite
  <2> QED
    BY <2>1, <2>2
<1>9. B \cap C = {}
  <2>1. \A x \in B : x[1] # 1
    BY <1>3, <1>5
  <2>2. \A x \in C : x[1] = 1
    OBVIOUS
  <2> QED
    BY <2>1, <2>2
<1>10. Held(u, m) = B \cup C
  <2>1. ASSUME NEW x \in Held(u, m) PROVE x \in B \cup C
    <3>1. PICK j \in 1 .. Len(u) : \E k \in Places(u[j].kids, m) : x = <<j, k>>
      BY HeldIs
    <3>2. PICK k \in Places(u[j].kids, m) : x = <<j, k>>
      BY <3>1
    <3>3. CASE j = 1
      BY <1>1, <3>2, <3>3
    <3>4. CASE j # 1
      <4>1. j - 1 \in 1 .. Len(s) /\ (j - 1) + 1 = j
        BY <1>2, <3>4
      <4> DEFINE i == j - 1
      <4>2. i \in 1 .. Len(s) /\ i + 1 = j /\ u[j] = s[i]
        BY <1>1, <4>1
      <4> HIDE DEF i
      <4>3. <<i, k>> \in A
        BY <3>2, <4>2, HeldIs DEF A
      <4> QED
        BY <3>2, <4>2, <4>3
    <3> QED
      BY <3>3, <3>4
  <2>2. ASSUME NEW x \in C PROVE x \in Held(u, m)
    <3>1. 1 \in 1 .. Len(u)
      BY <1>1
    <3> QED
      BY <1>1, <3>1, HeldIs
  <2>3. ASSUME NEW x \in B PROVE x \in Held(u, m)
    <3>1. PICK h \in A : x = <<h[1] + 1, h[2]>>
      OBVIOUS
    <3>2. h[1] \in 1 .. Len(s) /\ h[2] \in Places(s[h[1]].kids, m)
      BY <1>5
    <3>3. h[1] + 1 \in 1 .. Len(u) /\ u[h[1] + 1] = s[h[1]]
      BY <1>1, <1>3, <3>2
    <3> QED
      BY <3>1, <3>2, <3>3, HeldIs
  <2> HIDE DEF B, C
  <2> QED
    BY <2>1, <2>2, <2>3
<1> HIDE DEF B, C
<1>11. Cardinality(B \cup C) = Cardinality(B) + Cardinality(C) - Cardinality(B \cap C)
  BY <1>7, <1>8, FS_Union
<1>12. Cardinality(B \cap C) = 0
  BY <1>9, FS_EmptySet
<1>13. Count(u, m) = Cardinality(B \cup C)
  BY <1>10 DEF Count
<1>14. Cardinality(B) \in Nat
  BY <1>7, FS_CardinalityType
<1> QED
  BY <1>7, <1>8, <1>11, <1>12, <1>13, <1>14 DEF u

\* A node more at the end.
LEMMA CountAppended ==
    ASSUME NEW S, Kidful(S), NEW s \in Seq(S), NEW x \in S, NEW m
    PROVE  Count(Append(s, x), m) = Count(s, m) + Occ(x.kids, m)
<1> DEFINE u == Append(s, x)
           c == Len(s) + 1
           A == Held(s, m)
           C == {<<c, k>> : k \in Places(x.kids, m)}
<1>1. /\ Len(s) \in Nat /\ c \in Nat /\ Len(u) = c /\ u[c] = x
      /\ \A j \in 1 .. Len(s) : u[j] = s[j]
  OBVIOUS
<1>2. \A j \in 1 .. c : j \in 1 .. Len(s) \/ j = c
  BY <1>1
<1>3. \A j \in 1 .. Len(s) : j \in 1 .. c /\ j # c
  BY <1>1
<1>4. c \in 1 .. c
  BY <1>1
<1> HIDE DEF u, c
<1>5. IsFiniteSet(A) /\ Cardinality(A) \in Nat /\ Cardinality(A) = Count(s, m)
  BY HeldFinite DEF Count
<1>6. IsFiniteSet(C) /\ Cardinality(C) = Occ(x.kids, m) /\ Cardinality(C) \in Nat
  <2>1. x.kids \in Kids
    BY DEF Kidful
  <2>2. IsFiniteSet(C) /\ Cardinality(C) = Occ(x.kids, m)
    BY <2>1, PairsFinite
  <2>3. Occ(x.kids, m) \in Nat
    BY <2>1, PlacesFinite
  <2> QED
    BY <2>2, <2>3
<1>7. A \cap C = {}
  <2>1. \A h \in A : h[1] \in 1 .. Len(s)
    BY HeldIs
  <2>2. \A h \in C : h[1] = c
    OBVIOUS
  <2> HIDE DEF A, C
  <2> QED
    BY <1>3, <2>1, <2>2
<1>8. Held(u, m) = A \cup C
  <2>1. ASSUME NEW h \in Held(u, m) PROVE h \in A \cup C
    <3>1. PICK j \in 1 .. Len(u) : \E k \in Places(u[j].kids, m) : h = <<j, k>>
      BY HeldIs
    <3>2. CASE j = c
      BY <1>1, <3>1, <3>2
    <3>3. CASE j # c
      <4>1. j \in 1 .. Len(s) /\ u[j] = s[j]
        BY <1>1, <1>2, <3>3
      <4>2. h \in A
        BY <3>1, <4>1, HeldIs
      <4> QED
        BY <4>2
    <3> QED
      BY <3>2, <3>3
  <2>2. ASSUME NEW h \in C PROVE h \in Held(u, m)
    BY <1>1, <1>4, HeldIs
  <2>3. ASSUME NEW h \in A PROVE h \in Held(u, m)
    BY <1>1, <1>3, HeldIs
  <2> HIDE DEF A, C
  <2> QED
    BY <2>1, <2>2, <2>3
<1> HIDE DEF A, C
<1>9. Cardinality(A \cup C) = Cardinality(A) + Cardinality(C) - Cardinality(A \cap C)
  BY <1>5, <1>6, FS_Union
<1>10. Cardinality(A \cap C) = 0
  BY <1>7, FS_EmptySet
<1>11. Count(u, m) = Cardinality(A \cup C)
  BY <1>8 DEF Count
<1> QED
  BY <1>5, <1>6, <1>9, <1>10, <1>11 DEF u

-----------------------------------------------------------------------------
(* What the frames hold.                                                   *)

\* Frames and nodes have kids.
LEMMA HaveKids ==
    /\ Kidful(Frames) /\ Kidful(NodeSet)
    /\ \A S, f : Kidful(S) /\ f.kids \in Kids => Kidful(S \cup {f})
BY FrameFields DEF Kidful, NodeSet, Kids

\* What the running function holds, and what those that wait for it do.
LEMMA CountTop ==
    ASSUME PInv, NEW m
    PROVE  /\ Count(stack, m) = Occ(Top.kids, m) + Count(Rest, m)
           /\ Occ(Top.kids, m) \in Nat /\ Count(Rest, m) \in Nat
           /\ Rest \in Seq(Frames) /\ Top.kids \in Kids
<1>1. stack \in Seq(Frames) /\ Len(stack) > 0 /\ Top \in Frames
  BY TopFacts
<1>2. stack = <<Top>> \o Rest /\ Rest \in Seq(Frames)
  BY <1>1 DEF Top, Rest
<1>3. Top.kids \in Kids
  BY <1>1, FrameFields DEF Kids
<1>4. Occ(Top.kids, m) \in Nat
  BY <1>3, PlacesFinite
<1>5. Count(Rest, m) \in Nat
  BY <1>2, HaveKids, HeldFinite
<1> HIDE DEF Top, Rest
<1>6. Count(<<Top>> \o Rest, m) = Occ(Top.kids, m) + Count(Rest, m)
  BY <1>2, <1>3, HaveKids, CountPushed
<1> QED
  BY <1>2, <1>3, <1>4, <1>5, <1>6

\* Another frame on top.
LEMMA CountBecomes ==
    ASSUME PInv, NEW f, Become(f), f.kids \in Kids, NEW m
    PROVE  Count(stack', m) = Occ(f.kids, m) + Count(Rest, m)
<1>1. Rest \in Seq(Frames) /\ stack' = <<f>> \o Rest
  BY CountTop DEF Become
<1> HIDE DEF Rest
<1> QED
  BY <1>1, HaveKids, CountPushed

\* Two frames on top.
LEMMA CountPushes ==
    ASSUME PInv, NEW a, NEW f, stack' = <<a, f>> \o Rest, a.kids \in Kids, f.kids \in Kids,
           NEW m
    PROVE  Count(stack', m) = Occ(a.kids, m) + Occ(f.kids, m) + Count(Rest, m)
<1> DEFINE t == Rest
           v == <<f>> \o t
           T == Frames \cup {f}
<1>1. t \in Seq(Frames) /\ Count(t, m) \in Nat
  BY CountTop
<1>2. stack' = <<a, f>> \o t
  OBVIOUS
<1> HIDE DEF t
<1>3. v \in Seq(T) /\ Kidful(T) /\ Count(v, m) = Occ(f.kids, m) + Count(t, m)
  BY <1>1, HaveKids, CountPushed, Pushed
<1>4. <<a, f>> \o t = <<a>> \o v
  BY <1>1, TwoOnTop
<1> HIDE DEF v, T
<1>5. Count(<<a>> \o v, m) = Occ(a.kids, m) + Count(v, m)
  BY <1>3, CountPushed
<1>6. Occ(a.kids, m) \in Nat /\ Occ(f.kids, m) \in Nat
  BY PlacesFinite
<1>7. stack' = <<a>> \o v
  BY <1>2, <1>4
<1>8. Count(stack', m) = Occ(a.kids, m) + (Occ(f.kids, m) + Count(t, m))
  BY <1>3, <1>5, <1>7
<1>9. Count(stack', m) = Occ(a.kids, m) + Occ(f.kids, m) + Count(t, m)
  <2>1. \A i, j, k \in Nat : i + (j + k) = i + j + k
    OBVIOUS
  <2> QED
    BY <1>1, <1>6, <1>8, <2>1
<1> QED
  BY <1>9 DEF t

\* A function that is called has read nothing yet.
LEMMA CalleeEmpty ==
    ASSUME NEW fn \in Calling \cup {"block"}, NEW c
    PROVE  \/ \E a : Callee(fn, c) = <<a>> /\ a.kids = <<>>
           \/ \E a, b : Callee(fn, c) = <<a, b>> /\ a.kids = <<>> /\ b.kids = <<>>
<1>1. CASE fn = "expr"
  <2> DEFINE a == Frame("prefix", "start", c, <<>>)
             b == Frame("binary", "loop", c, <<>>)
  <2>1. Callee(fn, c) = <<a, b>>
    BY <1>1 DEF Callee, Lists
  <2>2. a.kids = <<>> /\ b.kids = <<>>
    BY DEF Frame
  <2> HIDE DEF a, b
  <2> QED
    BY <2>1, <2>2
<1>2. CASE fn = "block"
  <2> DEFINE a == Frame("block", "open", c, <<>>)
  <2>1. Callee(fn, c) = <<a>>
    BY <1>2 DEF Callee
  <2>2. a.kids = <<>>
    BY DEF Frame
  <2> HIDE DEF a
  <2> QED
    BY <2>1, <2>2
<1>3. CASE fn \in Calling \ {"expr"}
  <2>1. PICK st \in States : Callee(fn, c) = <<Frame(fn, st, c, <<>>)>>
    BY <1>3, CalleeIs
  <2> DEFINE a == Frame(fn, st, c, <<>>)
  <2>2. a.kids = <<>>
    BY DEF Frame
  <2>3. Callee(fn, c) = <<a>>
    BY <2>1
  <2> HIDE DEF a
  <2> QED
    BY <2>2, <2>3
<1> QED
  BY <1>1, <1>2, <1>3

\* So a call holds what its caller does.
LEMMA CountCallee ==
    ASSUME NEW fn \in Calling \cup {"block"}, NEW c, NEW S, Kidful(S), NEW s \in Seq(S), NEW m
    PROVE  Count(Callee(fn, c) \o s, m) = Count(s, m)
<1>0. Count(s, m) \in Nat /\ Occ(<<>>, m) = 0 /\ <<>> \in Kids
  BY HeldFinite, OccOf DEF Kids
<1>1. ASSUME NEW a, Callee(fn, c) = <<a>>, a.kids = <<>>
      PROVE  Count(Callee(fn, c) \o s, m) = Count(s, m)
  <2>1. Count(<<a>> \o s, m) = Occ(a.kids, m) + Count(s, m)
    BY <1>0, <1>1, CountPushed
  <2> QED
    BY <1>0, <1>1, <2>1
<1>2. ASSUME NEW a, NEW b, Callee(fn, c) = <<a, b>>, a.kids = <<>>, b.kids = <<>>
      PROVE  Count(Callee(fn, c) \o s, m) = Count(s, m)
  <2> DEFINE v == <<b>> \o s
             T == S \cup {b}
  <2>1. v \in Seq(T) /\ Kidful(T) /\ Count(v, m) = Occ(b.kids, m) + Count(s, m)
    BY <1>0, <1>2, HaveKids, CountPushed, Pushed
  <2>2. <<a, b>> \o s = <<a>> \o v
    BY TwoOnTop
  <2> HIDE DEF v, T
  <2>3. Count(<<a>> \o v, m) = Occ(a.kids, m) + Count(v, m)
    BY <1>0, <1>2, <2>1, CountPushed
  <2>4. Count(<<a>> \o v, m) = Count(v, m) /\ Count(v, m) = Count(s, m)
    BY <1>0, <1>2, <2>1, <2>3
  <2> QED
    BY <1>2, <2>2, <2>4
<1>3. CASE \E a : Callee(fn, c) = <<a>> /\ a.kids = <<>>
  BY <1>1, <1>3
<1>4. CASE \E a, b : Callee(fn, c) = <<a, b>> /\ a.kids = <<>> /\ b.kids = <<>>
  BY <1>2, <1>4
<1> QED
  BY <1>3, <1>4, CalleeEmpty

\* A call.
LEMMA CountCalls ==
    ASSUME PInv, NEW f, NEW fn \in Calling, Call(f, fn), f.kids \in Kids, NEW m
    PROVE  Count(stack', m) = Occ(f.kids, m) + Count(Rest, m)
<1> DEFINE t == Rest
           v == <<f>> \o t
           cs == Callee(fn, cur)
           T == Frames \cup {f}
           w == <<f>>
<1>1. t \in Seq(Frames)
  BY CountTop
<1>2. stack' = cs \o w \o t
  BY DEF Call
<1>3. cs \in Seq(Frames)
  BY CalleeFrames, TopFacts
<1> HIDE DEF t, cs
<1>4. v \in Seq(T) /\ Kidful(T) /\ Count(v, m) = Occ(f.kids, m) + Count(t, m)
  BY <1>1, HaveKids, CountPushed, Pushed
<1>5. t \in Seq(T) /\ cs \in Seq(T) /\ w \in Seq(T)
  BY <1>1, <1>3
<1>6. v = w \o t
  OBVIOUS
<1> HIDE DEF v, T, w
<1>7. (cs \o w) \o t = cs \o (w \o t)
  BY <1>5, ConcatAssociative
<1>8. Count(cs \o v, m) = Count(v, m)
  BY <1>4, CountCallee DEF cs
<1> QED
  BY <1>2, <1>4, <1>6, <1>7, <1>8 DEF t

\* A return with a node.
LEMMA CountReturns ==
    ASSUME PInv, Top.fn # "unit", NEW n \in Nat \ {0}, Return(n), NEW m
    PROVE  Count(stack', m) = Count(Rest, m) + One(n = m)
<1> DEFINE t == Rest
           h == Head(t)
           r == Tail(t)
           g == [h EXCEPT !.kids = Append(@, n)]
<1>1. t \in Seq(Frames) /\ Len(t) > 0
  <2>1. stack \in Seq(Frames) /\ Len(stack) > 0 /\ Len(stack) \in Nat /\ Top = stack[1]
    BY TopFacts DEF Top
  <2>2. Len(stack) = 1 => Frm(stack, 1).fn = "unit" /\ Frm(stack, 1) = stack[1]
    BY <2>1 DEF PInv, Stacked, StackOK, Frm
  <2>3. Tail(stack) \in Seq(Frames) /\ Len(Tail(stack)) = Len(stack) - 1
    BY <2>1
  <2>4. Len(stack) # 1
    BY <2>1, <2>2
  <2>5. Len(stack) - 1 > 0
    <3>1. \A l \in Nat : l > 0 /\ l # 1 => l - 1 > 0
      OBVIOUS
    <3> QED
      BY <2>1, <2>4, <3>1
  <2> QED
    BY <2>3, <2>5 DEF Rest
<1>2. stack' = <<g>> \o r
  BY DEF Return, Deliver
<1> HIDE DEF t
<1>3. t = <<h>> \o r /\ h \in Frames /\ r \in Seq(Frames)
  BY <1>1
<1> HIDE DEF h, r
<1>4. g = Got(h, n)
  BY DEF Got
<1>5. g \in Frames /\ g.kids = Append(h.kids, n) /\ h.kids \in Kids /\ g.kids \in Kids
  <2>1. Got(h, n) \in Frames /\ Got(h, n).kids = Append(h.kids, n)
    BY <1>3, FrameGot
  <2>2. g \in Frames /\ g.kids = Append(h.kids, n)
    BY <1>4, <2>1
  <2> QED
    BY <1>3, <2>2, FrameFields DEF Kids
<1> HIDE DEF g
<1>6. /\ Count(stack', m) = Occ(g.kids, m) + Count(r, m)
      /\ Count(t, m) = Occ(h.kids, m) + Count(r, m)
  BY <1>2, <1>3, <1>5, HaveKids, CountPushed
<1>7. Occ(g.kids, m) = Occ(h.kids, m) + One(n = m)
  BY <1>5, OccAppend
<1>8. Occ(h.kids, m) \in Nat /\ Count(r, m) \in Nat
  BY <1>3, <1>5, PlacesFinite, HeldFinite, HaveKids
<1>9. One(n = m) \in Nat
  BY DEF One
<1> QED
  BY <1>6, <1>7, <1>8, <1>9 DEF t

-----------------------------------------------------------------------------
(* One holder.                                                             *)

Listed(m) == nodes[m].tag = "TARGS"

\* Of every node there is one holder, but for the type arguments that an access
\* may drop.
OneHolder ==
    \A m \in 1 .. Len(nodes) : ~Listed(m) => Count(stack, m) + Count(nodes, m) = 1

\* What is not made yet is held by nobody.
LEMMA Unheld ==
    ASSUME PInv
    PROVE  Count(stack, New) = 0 /\ Count(nodes, New) = 0
<1>1. stack \in Seq(Frames) /\ Len(stack) \in Nat /\ Len(nodes) \in Nat
  BY TopFacts
<1>2. \A k \in 1 .. Len(nodes) : k # New
  BY <1>1 DEF New
<1>3. ASSUME NEW j \in 1 .. Len(stack) PROVE Places(stack[j].kids, New) = {}
  <2>1. Ordered(stack[j], nodes)
    <3> DEFINE p == Len(stack) + 1 - j
    <3>1. p \in 1 .. Len(stack) /\ Len(stack) + 1 - p = j
      BY <1>1
    <3>2. Frm(stack, p) = stack[j]
      BY <3>1 DEF Frm
    <3> HIDE DEF p
    <3>3. Ordered(Frm(stack, p), nodes)
      BY <3>1 DEF PInv, Stacked, StackOK
    <3> QED
      BY <3>2, <3>3
  <2>2. \A k \in 1 .. Len(stack[j].kids) : stack[j].kids[k] \in 1 .. Len(nodes)
    BY <2>1 DEF Ordered
  <2> QED
    BY <1>2, <2>2 DEF Places
<1>4. ASSUME NEW n \in 1 .. Len(nodes) PROVE Places(nodes[n].kids, New) = {}
  <2>1. \A k \in 1 .. Len(nodes[n].kids) : nodes[n].kids[k] \in 1 .. (n - 1)
    BY DEF PInv, Grown, NodeOK
  <2>2. \A k \in 1 .. (n - 1) : k \in 1 .. Len(nodes)
    BY <1>1
  <2>3. \A k \in 1 .. Len(nodes[n].kids) : nodes[n].kids[k] # New
    BY <1>2, <2>1, <2>2
  <2> QED
    BY <2>3 DEF Places
<1>5. Held(stack, New) = {} /\ Held(nodes, New) = {}
  BY <1>3, <1>4, HeldIs
<1> QED
  BY <1>5, FS_EmptySet DEF Count

\* A step that makes nothing and holds what was held.
LEMMA HoldsOn ==
    ASSUME PInv, OneHolder, UNCHANGED nodes, \A m : Count(stack', m) = Count(stack, m)
    PROVE  OneHolder'
BY DEF OneHolder, Listed

\* A step that makes a node of kids that the frames no longer hold, and holds it.
LEMMA HoldsMade ==
    ASSUME PInv, OneHolder, NEW tag, NEW at, NEW lo, NEW hi, NEW ks \in Kids,
           Make(tag, at, lo, hi, ks),
           \A m \in 1 .. New : m = New \/ ~Listed(m) =>
              Count(stack', m) = Count(stack, m) + One(m = New) - Occ(ks, m)
    PROVE  OneHolder'
<1> DEFINE x == Node(tag, at, lo, hi, ks)
           T == NodeSet \cup {x}
<1>1. nodes \in Seq(NodeSet) /\ Len(nodes) \in Nat
  BY TopFacts
<1>2. nodes' = Append(nodes, x) /\ x.kids = ks
  BY DEF Make, Node
<1>3. Kidful(T)
  BY <1>2, HaveKids
<1>4. nodes \in Seq(T) /\ x \in T
  BY <1>1
<1> HIDE DEF x, T
<1>5. /\ Len(nodes') = Len(nodes) + 1
      /\ \A m \in 1 .. Len(nodes) : nodes'[m] = nodes[m]
  BY <1>1, <1>2, <1>4
<1>6. ASSUME NEW m PROVE Count(nodes', m) = Count(nodes, m) + Occ(ks, m)
  <2>1. Count(Append(nodes, x), m) = Count(nodes, m) + Occ(x.kids, m)
    BY <1>3, <1>4, CountAppended
  <2> QED
    BY <1>2, <2>1
<1>7. ASSUME NEW m PROVE /\ Count(nodes, m) \in Nat /\ Occ(ks, m) \in Nat
                         /\ Count(stack, m) \in Nat
  <2>1. Count(nodes, m) \in Nat
    BY <1>3, <1>4, HeldFinite
  <2>2. stack \in Seq(Frames)
    BY TopFacts
  <2>3. Count(stack, m) \in Nat
    BY <2>2, HaveKids, HeldFinite
  <2> QED
    BY <2>1, <2>3, PlacesFinite
<1>8. ASSUME NEW m \in 1 .. Len(nodes'), nodes'[m].tag # "TARGS"
      PROVE  Count(stack', m) + Count(nodes', m) = 1
  <2>1. m \in 1 .. New /\ (m = New \/ m \in 1 .. Len(nodes)) /\ New \notin 1 .. Len(nodes)
    BY <1>1, <1>5 DEF New
  <2>2. m = New \/ ~Listed(m)
    BY <1>5, <1>8, <2>1 DEF Listed
  <2>3. Count(stack', m) = Count(stack, m) + One(m = New) - Occ(ks, m)
    BY <2>1, <2>2
  <2>4. /\ Count(nodes, m) \in Nat /\ Occ(ks, m) \in Nat /\ Count(stack, m) \in Nat
        /\ Count(nodes', m) = Count(nodes, m) + Occ(ks, m)
    BY <1>6, <1>7
  <2>5. Count(stack, m) + One(m = New) + Count(nodes, m) = 1
    <3>1. CASE m = New
      <4>1. Count(stack, m) = 0 /\ Count(nodes, m) = 0 /\ One(m = New) = 1
        BY <3>1, Unheld DEF One
      <4> QED
        BY <4>1
    <3>2. CASE m # New
      <4>1. Count(stack, m) + Count(nodes, m) = 1 /\ One(m = New) = 0
        BY <2>1, <2>2, <3>2 DEF OneHolder, One
      <4> QED
        BY <2>4, <4>1
    <3> QED
      BY <3>1, <3>2
  <2>6. One(m = New) \in Nat
    BY DEF One
  <2> QED
    BY <2>3, <2>4, <2>5, <2>6
<1> QED
  BY <1>8 DEF OneHolder, Listed

\* The function on top goes on, or gives way to one that holds what it held.
LEMMA BecomesHolding ==
    ASSUME PInv, OneHolder, UNCHANGED nodes, NEW f, Become(f), f.kids = Top.kids
    PROVE  OneHolder'
<1>1. f.kids \in Kids
  BY CountTop
<1>2. ASSUME NEW m PROVE Count(stack', m) = Count(stack, m)
  BY <1>1, CountTop, CountBecomes
<1> QED
  BY <1>2, HoldsOn

\* It calls.
LEMMA CallsHolding ==
    ASSUME PInv, OneHolder, UNCHANGED nodes, NEW f, NEW fn \in Calling, Call(f, fn),
           f.kids = Top.kids
    PROVE  OneHolder'
<1>1. f.kids \in Kids
  BY CountTop
<1>2. ASSUME NEW m PROVE Count(stack', m) = Count(stack, m)
  BY <1>1, CountTop, CountCalls
<1> QED
  BY <1>2, HoldsOn

\* It starts another function, between which and itself it divides what it holds.
LEMMA PushesHolding ==
    ASSUME PInv, OneHolder, UNCHANGED nodes, NEW a, NEW f, stack' = <<a, f>> \o Rest,
           a.kids \in Kids, f.kids \in Kids,
           \A m : Occ(a.kids, m) + Occ(f.kids, m) = Occ(Top.kids, m)
    PROVE  OneHolder'
<1>1. ASSUME NEW m PROVE Count(stack', m) = Count(stack, m)
  <2>0. PInv /\ stack' = <<a, f>> \o Rest /\ a.kids \in Kids /\ f.kids \in Kids
    OBVIOUS
  <2>1. Count(stack', m) = Occ(a.kids, m) + Occ(f.kids, m) + Count(Rest, m)
    BY ONLY <2>0, CountPushes
  <2>2. Count(stack, m) = Occ(Top.kids, m) + Count(Rest, m)
    BY CountTop
  <2>3. Occ(a.kids, m) + Occ(f.kids, m) = Occ(Top.kids, m)
    OBVIOUS
  <2> QED
    BY ONLY <2>1, <2>2, <2>3
<1> QED
  BY <1>1, HoldsOn

\* It starts another function that has read nothing.
LEMMA PushesEmpty ==
    ASSUME PInv, OneHolder, UNCHANGED nodes, NEW a, NEW f, stack' = <<a, f>> \o Rest,
           a.kids = <<>>, f.kids = Top.kids
    PROVE  OneHolder'
<1>1. a.kids \in Kids /\ f.kids \in Kids
  BY CountTop DEF Kids
<1>2. ASSUME NEW m PROVE Occ(a.kids, m) + Occ(f.kids, m) = Occ(Top.kids, m)
  BY OccOf, CountTop
<1> QED
  BY <1>1, <1>2, PushesHolding

\* It returns the only node that it holds, or nothing when it holds nothing.
LEMMA ReturnsHeld ==
    ASSUME PInv, OneHolder, UNCHANGED nodes, Top.fn # "unit",
           NEW n \in Nat \ {0}, Return(n), Top.kids = <<n>>
    PROVE  OneHolder'
<1>1. ASSUME NEW m PROVE Count(stack', m) = Count(stack, m)
  <2>1. Occ(Top.kids, m) = One(n = m)
    BY OccOf
  <2>2. Count(stack', m) = Count(Rest, m) + One(n = m)
    BY CountReturns
  <2>3. One(n = m) \in Nat
    BY DEF One
  <2> QED
    BY <2>1, <2>2, <2>3, CountTop
<1> QED
  BY <1>1, HoldsOn

\* A function that returns nothing holds nothing.
LEMMA ReturnsNothing ==
    ASSUME PInv, OneHolder, UNCHANGED nodes, ReturnNothing, Top.kids = <<>>
    PROVE  OneHolder'
<1>1. ASSUME NEW m PROVE Count(stack', m) = Count(stack, m)
  <2>1. Count(stack', m) = Count(Rest, m)
    BY DEF ReturnNothing
  <2>2. Occ(Top.kids, m) = 0
    BY OccOf
  <2> QED
    BY <2>1, <2>2, CountTop
<1> QED
  BY <1>1, HoldsOn

\* It makes a node of all that it holds and returns it.
LEMMA ReturnsMade ==
    ASSUME PInv, OneHolder, Top.fn # "unit", NEW tag, NEW at, NEW lo, NEW hi, NEW ks \in Kids,
           Make(tag, at, lo, hi, ks), Return(New),
           \A m \in 1 .. New : m = New \/ ~Listed(m) => Occ(ks, m) = Occ(Top.kids, m)
    PROVE  OneHolder'
<1>1. New \in Nat \ {0}
  BY TopFacts DEF New
<1>2. ASSUME NEW m \in 1 .. New, m = New \/ ~Listed(m)
      PROVE  Count(stack', m) = Count(stack, m) + One(m = New) - Occ(ks, m)
  <2>1. Count(stack', m) = Count(Rest, m) + One(New = m)
    BY <1>1, CountReturns
  <2>2. Occ(ks, m) = Occ(Top.kids, m)
    BY <1>2
  <2>3. One(New = m) = One(m = New) /\ One(m = New) \in Nat
    BY DEF One
  <2> QED
    BY <2>1, <2>2, <2>3, CountTop
<1> QED
  BY <1>2, HoldsMade

\* It makes a node of all that it holds and keeps it.
LEMMA KeepsHeld ==
    ASSUME PInv, OneHolder, NEW tag, NEW at, NEW lo, NEW hi,
           Make(tag, at, lo, hi, Top.kids), NEW f, Become(f), f.kids = <<New>>
    PROVE  OneHolder'
<1>1. New \in Nat \ {0} /\ f.kids \in Kids
  BY TopFacts DEF New, Kids
<1>2. ASSUME NEW m \in 1 .. New, m = New \/ ~Listed(m)
      PROVE  Count(stack', m) = Count(stack, m) + One(m = New) - Occ(Top.kids, m)
  <2>1. Count(stack', m) = Occ(f.kids, m) + Count(Rest, m)
    BY <1>1, CountBecomes
  <2>2. Occ(f.kids, m) = One(New = m)
    <3>1. \A n : Occ(<<n>>, m) = One(n = m)
      BY OccOf
    <3>2. Occ(<<New>>, m) = One(New = m)
      BY ONLY <3>1, Zenon
    <3> QED
      BY <3>2
  <2>3. One(New = m) = One(m = New) /\ One(m = New) \in Nat
    BY DEF One
  <2> QED
    BY <2>1, <2>2, <2>3, CountTop
<1> QED
  BY <1>2, CountTop, HoldsMade

\* Functions that have read nothing hold nothing.
LEMMA HoldsNothing ==
    ASSUME PInv, Childless(Top)
    PROVE  Top.kids = <<>>
BY TopFacts DEF Ready

\* Only the base of an access counts, and what follows it are type arguments.
LEMMA OnlyTheBase ==
    ASSUME NEW ks \in Kids, ks # <<>>, NEW m,
           \A k \in 2 .. Len(ks) : ks[k] # m
    PROVE  Occ(<<ks[1]>>, m) = Occ(ks, m)
<1>1. Len(ks) \in Nat /\ 1 \in 1 .. Len(ks) /\ \A k \in 1 .. Len(ks) : k = 1 \/ k \in 2 .. Len(ks)
  BY DEF Kids
<1>2. CASE ks[1] = m
  <2>1. Places(ks, m) = {1}
    BY <1>1, <1>2 DEF Places
  <2>2. Occ(ks, m) = 1
    BY <2>1, FS_Singleton DEF Occ
  <2> QED
    BY <1>2, <2>2, OccOf DEF One
<1>3. CASE ks[1] # m
  <2>1. Places(ks, m) = {}
    BY <1>1, <1>3 DEF Places
  <2>2. Occ(ks, m) = 0
    BY <2>1, FS_EmptySet DEF Occ
  <2> QED
    BY <1>3, <2>2, OccOf DEF One
<1> QED
  BY <1>2, <1>3

\* Every node is held by one frame or node, type arguments apart: the steps of
\* all functions.
LEMMA OneHolderKeeps == PInv /\ OneHolder /\ Next => OneHolder'
<1> SUFFICES ASSUME PInv, OneHolder, Next PROVE OneHolder'
  OBVIOUS
<1>0. Top \in Frames /\ Rest \in Seq(Frames) /\ cur \in Nat \ {0} /\ Top.kids \in Kids
  BY TopFacts, CountTop
<1>1. CASE ScriptEat
  <2> DEFINE f == Step(1)
  <2>1. Become(f) /\ UNCHANGED nodes
    BY <1>1 DEF ScriptEat
  <2>2. f.kids = Top.kids
    BY <1>0 DEF Frames, Step
  <2> HIDE DEF f
  <2> QED
    BY <2>1, <2>2, BecomesHolding
<1>2. CASE ScriptChoose
  <2> DEFINE f == IF Taken(Element) THEN Step(1) ELSE Step(1 + Element.skip)
  <2>1. Become(f) /\ UNCHANGED nodes
    BY <1>2 DEF ScriptChoose
  <2>2. Step(1).kids = Top.kids /\ Step(1 + Element.skip).kids = Top.kids
    BY <1>0 DEF Frames, Step
  <2>3. f.kids = Top.kids
    BY <2>2
  <2> HIDE DEF f
  <2> QED
    BY <2>1, <2>3, BecomesHolding
<1>3. CASE ListComma
  <2> DEFINE f == [Top EXCEPT !.st = "open"]
  <2>1. Become(f) /\ UNCHANGED nodes
    BY <1>3 DEF ListComma
  <2>2. f.kids = Top.kids
    BY <1>0 DEF Frames
  <2> HIDE DEF f
  <2> QED
    BY <2>1, <2>2, BecomesHolding
<1>4. CASE CaseSep
  <2> DEFINE f == [Top EXCEPT !.st = "start"]
  <2>1. Become(f) /\ UNCHANGED nodes
    BY <1>4 DEF CaseSep
  <2>2. f.kids = Top.kids
    BY <1>0 DEF Frames
  <2> HIDE DEF f
  <2> QED
    BY <2>1, <2>2, BecomesHolding
<1>5. CASE PeekAfterName
  <2> DEFINE f == [Top EXCEPT !.st = "peek"]
  <2>1. Become(f) /\ UNCHANGED nodes
    BY <1>5 DEF PeekAfterName
  <2>2. f.kids = Top.kids
    BY <1>0 DEF Frames
  <2> HIDE DEF f
  <2> QED
    BY <2>1, <2>2, BecomesHolding
<1>6. CASE BlockOpen
  <2> DEFINE f == [Top EXCEPT !.st = "loop"]
  <2>1. Become(f) /\ UNCHANGED nodes
    BY <1>6 DEF BlockOpen
  <2>2. f.kids = Top.kids
    BY <1>0 DEF Frames
  <2> HIDE DEF f
  <2> QED
    BY <2>1, <2>2, BecomesHolding
<1>7. CASE DecideByPeek
  <2> DEFINE f == Frame(NamedBy(Token), "start", Top.lo, <<>>)
  <2>1. Top.fn = "primary" /\ Become(f) /\ UNCHANGED nodes
    BY <1>7 DEF DecideByPeek, Running
  <2>2. f.kids = <<>>
    BY DEF Frame
  <2> HIDE DEF f
  <2>3. Childless(Top)
    BY <2>1 DEF Childless, Deciding
  <2> QED
    BY <2>1, <2>2, <2>3, HoldsNothing, BecomesHolding
<1>8. CASE PrimaryBracketed
  <2> DEFINE f == Frame(Bracketed(Token), "start", cur, <<>>)
  <2>1. Top.fn = "primary" /\ Become(f) /\ UNCHANGED nodes
    BY <1>8 DEF PrimaryBracketed, Running
  <2>2. f.kids = <<>>
    BY DEF Frame
  <2> HIDE DEF f
  <2>3. Childless(Top)
    BY <2>1 DEF Childless, Deciding
  <2> QED
    BY <2>1, <2>2, <2>3, HoldsNothing, BecomesHolding
<1>9. CASE UseDecide
  <2> DEFINE f == Frame(IF Token = "{" THEN "init" ELSE "usespec", "start", Top.lo, <<>>)
  <2>1. Top.fn = "usespec" /\ Top.st = "named" /\ Become(f) /\ UNCHANGED nodes
    BY <1>9 DEF UseDecide, Running
  <2>2. f.kids = <<>>
    BY DEF Frame
  <2> HIDE DEF f
  <2>3. Childless(Top)
    BY <2>1 DEF Childless, Deciding
  <2> QED
    BY <2>1, <2>2, <2>3, HoldsNothing, BecomesHolding
<1>10. CASE Known
  <2>1. PICK f : Become(f) /\ f.kids = <<>>
    BY <1>10 DEF Known, Frame
  <2>2. Childless(Top) /\ UNCHANGED nodes
    BY <1>10 DEF Known, Running, Childless, Deciding
  <2> QED
    BY <2>1, <2>2, HoldsNothing, BecomesHolding
<1>11. CASE BlockSemi
  <2> DEFINE f == [Top EXCEPT !.st = "loop"]
  <2>1. UNCHANGED nodes /\ (UNCHANGED stack \/ Become(f))
    BY <1>11 DEF BlockSemi
  <2>2. CASE UNCHANGED stack
    BY <2>1, <2>2, HoldsOn
  <2>3. CASE Become(f)
    <3>1. f.kids = Top.kids
      BY <1>0 DEF Frames
    <3> HIDE DEF f
    <3> QED
      BY <2>1, <2>3, <3>1, BecomesHolding
  <2> QED
    BY <2>1, <2>2, <2>3
<1>12. CASE ScriptCall
  <2> DEFINE f == Step(1)
  <2>1. Call(f, Element.fn) /\ UNCHANGED nodes
    BY <1>12 DEF ScriptCall
  <2>2. f.kids = Top.kids
    BY <1>0 DEF Frames, Step
  <2>3. Element.fn \in Calling
    <3>1. Scripted /\ ~Ended /\ Element.do = "call"
      BY <1>12 DEF ScriptCall
    <3>2. ElementOK(Top.fn, Top.i, Element)
      BY <3>1, ScriptTop
    <3> QED
      BY <3>1, <3>2 DEF ElementOK, Calling
  <2> HIDE DEF f
  <2> QED
    BY <2>1, <2>2, <2>3, CallsHolding
<1>13. CASE ListItem
  <2> DEFINE f == [Top EXCEPT !.st = "sep"]
  <2>1. InList /\ Call(f, Lists[Top.fn].item) /\ UNCHANGED nodes
    BY <1>13 DEF ListItem
  <2>2. f.kids = Top.kids
    BY <1>0 DEF Frames
  <2>3. Lists[Top.fn].item \in Calling
    <3>1. Top.fn \in ListNames
      BY <2>1, ListTop
    <3> QED
      BY <3>1, ListItems
  <2> HIDE DEF f
  <2> QED
    BY <2>1, <2>2, <2>3, CallsHolding
<1>14. CASE CaseStart
  <2> DEFINE f == [Top EXCEPT !.st = "sep"]
             fn == IF Token = "_" THEN "default" ELSE "case"
  <2>1. Call(f, fn) /\ UNCHANGED nodes
    BY <1>14 DEF CaseStart
  <2>2. f.kids = Top.kids
    BY <1>0 DEF Frames
  <2>3. fn \in Calling
    BY DEF Calling
  <2> HIDE DEF f, fn
  <2> QED
    BY <2>1, <2>2, <2>3, CallsHolding
<1>15. CASE BlockStatement
  <2> DEFINE f == [Top EXCEPT !.st = "semi"]
  <2>1. Call(f, "stmt") /\ UNCHANGED nodes
    BY <1>15 DEF BlockStatement
  <2>2. f.kids = Top.kids
    BY <1>0 DEF Frames
  <2>3. "stmt" \in Calling
    BY DEF Calling
  <2> HIDE DEF f
  <2> QED
    BY <2>1, <2>2, <2>3, CallsHolding
<1>16. CASE PrefixOperator
  <2> DEFINE a == Frame("prefix", "start", cur + 1, <<>>)
             f == [Top EXCEPT !.st = "operand"]
  <2>1. stack' = <<a, f>> \o Rest /\ UNCHANGED nodes
    BY <1>16 DEF PrefixOperator
  <2>2. a.kids = <<>>
    BY DEF Frame
  <2>3. f.kids = Top.kids
    BY <1>0 DEF Frames
  <2> HIDE DEF a, f
  <2> QED
    BY <2>1, <2>2, <2>3, PushesEmpty
<1>17. CASE BinaryOperator
  <2> DEFINE a == Frame("prefix", "start", cur + 1, <<>>)
             f == [Top EXCEPT !.st = "rhs", !.at = cur]
  <2>1. stack' = <<a, f>> \o Rest /\ UNCHANGED nodes
    BY <1>17 DEF BinaryOperator
  <2>2. a.kids = <<>>
    BY DEF Frame
  <2>3. f.kids = Top.kids
    BY <1>0 DEF Frames
  <2> HIDE DEF a, f
  <2> QED
    BY <2>1, <2>2, <2>3, PushesEmpty
<1>18. CASE TryTypeName
  <2> DEFINE a == Frame("typename", "start", Top.lo, <<>>)
             f == [Top EXCEPT !.st = "named"]
  <2>1. stack' = <<a, f>> \o Rest /\ UNCHANGED nodes
    BY <1>18 DEF TryTypeName
  <2>2. a.kids = <<>>
    BY DEF Frame
  <2>3. f.kids = Top.kids
    BY <1>0 DEF Frames
  <2> HIDE DEF a, f
  <2> QED
    BY <2>1, <2>2, <2>3, PushesEmpty
<1>19. CASE UseAhead
  <2> DEFINE a == Frame("typename", "start", cur, <<>>)
             f == [Top EXCEPT !.st = "named"]
  <2>1. stack' = <<a, f>> \o Rest /\ UNCHANGED nodes
    BY <1>19 DEF UseAhead
  <2>2. a.kids = <<>>
    BY DEF Frame
  <2>3. f.kids = Top.kids
    BY <1>0 DEF Frames
  <2> HIDE DEF a, f
  <2> QED
    BY <2>1, <2>2, <2>3, PushesEmpty
<1>20. CASE LeafStart
  <2> DEFINE a == Frame("primary", "start", cur, <<>>)
             f == [Top EXCEPT !.st = "got"]
  <2>1. stack' = <<a, f>> \o Rest /\ UNCHANGED nodes
    BY <1>20 DEF LeafStart
  <2>2. a.kids = <<>>
    BY DEF Frame
  <2>3. f.kids = Top.kids
    BY <1>0 DEF Frames
  <2> HIDE DEF a, f
  <2> QED
    BY <2>1, <2>2, <2>3, PushesEmpty
<1>21. CASE PrefixNone
  <2> DEFINE a == Frame("primary", "start", cur, <<>>)
             f == Frame("postfix", "loop", cur, <<>>)
  <2>1. /\ Top.fn = "prefix" /\ Top.st = "start"
        /\ stack' = <<a, f>> \o Rest /\ UNCHANGED nodes
    BY <1>21 DEF PrefixNone, Running
  <2>2. a.kids = <<>> /\ f.kids = <<>>
    BY DEF Frame
  <2> HIDE DEF a, f
  <2>3. Childless(Top)
    BY <2>1 DEF Childless, Fresh
  <2> QED
    BY <2>1, <2>2, <2>3, HoldsNothing, PushesEmpty
<1>22. CASE PostfixTail
  <2> DEFINE a == Frame(IF Token = "[" THEN "index" ELSE "member", "start", Top.lo, Top.kids)
             f == [Top EXCEPT !.kids = <<>>]
  <2>1. stack' = <<a, f>> \o Rest /\ UNCHANGED nodes
    BY <1>22 DEF PostfixTail
  <2>2. a.kids = Top.kids
    BY DEF Frame
  <2>3. f.kids = <<>>
    BY <1>0 DEF Frames
  <2> HIDE DEF a, f
  <2>4. a.kids \in Kids /\ f.kids \in Kids
    BY <1>0, <2>2, <2>3 DEF Kids
  <2>5. ASSUME NEW m PROVE Occ(a.kids, m) + Occ(f.kids, m) = Occ(Top.kids, m)
    BY <2>2, <2>3, OccOf, CountTop
  <2> QED
    BY <2>1, <2>4, <2>5, PushesHolding
<1>23. CASE BinaryNested
  <2> DEFINE x == Top.kids[1]
             y == Top.kids[2]
             b == Frame("binary", "loop", nodes[y].lo, <<y>>)
             a == [b EXCEPT !.prec = Top.prec + 1]
             f == [Top EXCEPT !.st = "nested", !.kids = <<x>>]
  <2>1. /\ Top.fn = "binary" /\ Len(Top.kids) = 2
        /\ stack' = <<a, f>> \o Rest /\ UNCHANGED nodes
    BY <1>23 DEF BinaryNested, Running
  <2>2. a.kids = <<y>>
    BY DEF Frame
  <2>3. f.kids = <<x>>
    BY <1>0 DEF Frames
  <2>4. x \in Nat \ {0} /\ y \in Nat \ {0} /\ Top.kids = Append(<<x>>, y)
    <3>1. Top.kids \in Seq(Nat \ {0}) /\ Len(Top.kids) = 2
      BY <2>1, BinaryTop
    <3> QED
      BY <3>1
  <2> HIDE DEF a, b, f, x, y
  <2>5. a.kids \in Kids /\ f.kids \in Kids /\ <<x>> \in Kids
    BY <2>2, <2>3, <2>4 DEF Kids
  <2>6. ASSUME NEW m PROVE Occ(a.kids, m) + Occ(f.kids, m) = Occ(Top.kids, m)
    <3>1. Occ(Top.kids, m) = Occ(<<x>>, m) + One(y = m)
      BY <2>4, <2>5, OccAppend
    <3>2. Occ(<<y>>, m) = One(y = m) /\ Occ(<<x>>, m) = One(x = m)
      BY OccOf
    <3>3. One(x = m) \in Nat /\ One(y = m) \in Nat
      BY DEF One
    <3> QED
      BY <2>2, <2>3, <3>1, <3>2, <3>3
  <2> QED
    BY <2>1, <2>5, <2>6, PushesHolding
<1>24. CASE PostfixDone
  <2>1. Top.fn = "postfix" /\ Return(Top.kids[1]) /\ UNCHANGED nodes
    BY <1>24 DEF PostfixDone, Running
  <2>2. Len(Top.kids) = 1
    BY <2>1, PostfixTop
  <2>3. Top.kids = <<Top.kids[1]>> /\ Top.kids[1] \in Nat \ {0}
    BY <1>0, <2>2 DEF Kids
  <2>4. Top.fn # "unit"
    BY <2>1
  <2> QED
    BY <2>1, <2>3, <2>4, ReturnsHeld
<1>25. CASE BinaryDone
  <2>1. Top.fn = "binary" /\ Return(Top.kids[1]) /\ UNCHANGED nodes /\ Len(Top.kids) = 1
    BY <1>25 DEF BinaryDone, Running
  <2>2. Len(Top.kids) = 1
    BY <2>1, BinaryTop
  <2>3. Top.kids = <<Top.kids[1]>> /\ Top.kids[1] \in Nat \ {0}
    BY <1>0, <2>2 DEF Kids
  <2>4. Top.fn # "unit"
    BY <2>1
  <2> QED
    BY <2>1, <2>3, <2>4, ReturnsHeld
<1>26. CASE LeafDone
  <2>1. Top.fn = "leaf" /\ Return(Top.kids[1]) /\ UNCHANGED nodes /\ Top.st = "got"
    BY <1>26 DEF LeafDone, Running
  <2>2. Len(Top.kids) = 1
    BY <2>1, TopFacts DEF Ready
  <2>3. Top.kids = <<Top.kids[1]>> /\ Top.kids[1] \in Nat \ {0}
    BY <1>0, <2>2 DEF Kids
  <2>4. Top.fn # "unit"
    BY <2>1
  <2> QED
    BY <2>1, <2>3, <2>4, ReturnsHeld
<1>27. CASE PrefixDone
  <2>1. Make("un", Top.lo, Top.lo, cur - 1, Top.kids) /\ Return(New) /\ Top.fn = "prefix"
    BY <1>27 DEF PrefixDone, Running
  <2>2. Top.fn # "unit"
    BY <2>1
  <2> QED
    BY <1>0, <2>1, <2>2, ReturnsMade
<1>28. CASE BlockClose
  <2>1. Make("block", 0, Top.lo, cur, Top.kids) /\ Return(New) /\ Top.fn = "block"
    BY <1>28 DEF BlockClose, Running
  <2>2. Top.fn # "unit"
    BY <2>1
  <2> QED
    BY <1>0, <2>1, <2>2, ReturnsMade
<1>29. CASE CasesEnd
  <2>1. Make("cases", 0, Top.lo, cur - 1, Top.kids) /\ Return(New) /\ Top.fn = "cases"
    BY <1>29 DEF CasesEnd, Running
  <2>2. Top.fn # "unit"
    BY <2>1
  <2> QED
    BY <1>0, <2>1, <2>2, ReturnsMade
<1>30. CASE Literal
  <2>1. Make("lit", 0, cur, cur, <<>>) /\ Return(New) /\ Top.fn = "primary"
    BY <1>30 DEF Literal, Running
  <2>2. Top.fn # "unit" /\ Childless(Top)
    BY <2>1 DEF Childless, Deciding, Fresh
  <2>3. Top.kids = <<>>
    BY <2>2, HoldsNothing
  <2>4. Make("lit", 0, cur, cur, Top.kids)
    BY <2>1, <2>3
  <2> QED
    BY <1>0, <2>1, <2>2, <2>4, ReturnsMade
<1>31. CASE Ref
  <2>1. Make("ref", 0, cur, cur, <<>>) /\ Return(New) /\ Top.fn = "ref"
    BY <1>31 DEF Ref, Running
  <2>2. Top.fn # "unit" /\ Childless(Top)
    BY <2>1 DEF Childless, Deciding, Fresh
  <2>3. Top.kids = <<>>
    BY <2>2, HoldsNothing
  <2>4. Make("ref", 0, cur, cur, Top.kids)
    BY <2>1, <2>3
  <2> QED
    BY <1>0, <2>1, <2>2, <2>4, ReturnsMade
<1>32. CASE PostfixOperator
  <2> DEFINE f == [Top EXCEPT !.kids = <<New>>]
             at == cur
             hi == cur
  <2>1. Make("post", at, Top.lo, hi, Top.kids) /\ Become(f)
    BY <1>32 DEF PostfixOperator
  <2>2. f.kids = <<New>>
    BY <1>0 DEF Frames
  <2> HIDE DEF f, at, hi
  <2> QED
    BY <2>1, <2>2, KeepsHeld
<1>33. CASE BinaryJoin
  <2> DEFINE f == [Top EXCEPT !.st = "loop", !.kids = <<New>>]
             at == Top.at
             hi == cur - 1
  <2>1. Make("bin", at, Top.lo, hi, Top.kids) /\ Become(f)
    BY <1>33 DEF BinaryJoin, Joining
  <2>2. f.kids = <<New>>
    BY <1>0 DEF Frames
  <2> HIDE DEF f, at, hi
  <2> QED
    BY <2>1, <2>2, KeepsHeld
<1>34. CASE ListEnd
  <2>1. InList /\ Top.fn # "unit"
    BY <1>34, ListTop DEF ListEnd
  <2>2. CASE Top.fn \in Nodeless
    <3>1. ReturnNothing /\ UNCHANGED nodes
      BY <1>34, <2>2 DEF ListEnd
    <3>2. Top.kids = <<>>
      BY <2>2, HoldsNothing DEF Childless
    <3> QED
      BY <3>1, <3>2, ReturnsNothing
  <2>3. CASE Top.fn \notin Nodeless
    <3>1. Make(Top.fn, 0, Top.lo, cur - 1, Top.kids) /\ Return(New)
      BY <1>34, <2>3 DEF ListEnd
    <3> QED
      BY <1>0, <2>1, <3>1, ReturnsMade
  <2> QED
    BY <2>2, <2>3
<1>35. CASE ScriptDone
  <2>1. Scripted /\ Ended /\ Top.fn # "unit" /\ Top.fn \in Scripts
    BY <1>35, ScriptTop DEF ScriptDone, Scripts
  <2>2. CASE Top.fn \in Nodeless
    <3>1. ReturnNothing /\ UNCHANGED nodes
      BY <1>35, <2>2 DEF ScriptDone
    <3>2. Top.kids = <<>>
      BY <2>2, HoldsNothing DEF Childless
    <3> QED
      BY <3>1, <3>2, ReturnsNothing
  <2>3. CASE Top.fn \notin Nodeless
    <3> DEFINE called == toks[cur - 1] = ")"
               access == Top.fn = "member" /\ ~called
               tag == CASE access -> "access"
                        [] Top.fn = "member" /\ called -> "mcall"
                        [] OTHER -> Top.fn
               ks == IF access THEN <<Top.kids[1]>> ELSE Top.kids
    <3>1. Make(tag, 0, Top.lo, cur - 1, ks) /\ Return(New)
      BY <1>35, <2>3 DEF ScriptDone
    <3> HIDE DEF tag
    <3>2. CASE ~access
      <4>1. ks = Top.kids
        BY <3>2
      <4> HIDE DEF ks, access
      <4> QED
        BY <1>0, <2>1, <3>1, <4>1, ReturnsMade
    <3>3. CASE access
      <4>1. /\ Top.fn = "member" /\ Top.kids # <<>> /\ Top.i = 11
            /\ Len(nodes) \in Nat /\ Ordered(Top, nodes)
            /\ TargsOnly(Top, nodes)
        <5>1. Top.i \in 1 .. 11 /\ Len(Script[Top.fn]) = 10 /\ Top.i > Len(Script[Top.fn])
          BY <2>1, <3>3, ScriptTop, Lengths DEF Ended
        <5>2. Top.i = 11
          BY <5>1
        <5>3. Last # ")"
          BY <3>3 DEF Last
        <5> HIDE DEF access
        <5> QED
          BY <3>3, <5>2, <5>3, TopFacts DEF Ready, access
      <4>2. ks = <<Top.kids[1]>> /\ ks \in Kids
        <5>1. Top.kids[1] \in Nat \ {0}
          BY <1>0, <4>1 DEF Kids
        <5> QED
          BY <3>3, <5>1 DEF Kids
      <4>3. ASSUME NEW m \in 1 .. New, m = New \/ ~Listed(m)
            PROVE  Occ(ks, m) = Occ(Top.kids, m)
        <5>1. ASSUME NEW k \in 2 .. Len(Top.kids) PROVE Top.kids[k] # m
          <6>1. nodes[Top.kids[k]].tag = "TARGS"
            BY <4>1 DEF TargsOnly
          <6>2. k \in 1 .. Len(Top.kids)
            OBVIOUS
          <6>3. Top.kids[k] \in 1 .. Len(nodes)
            BY <4>1, <6>2 DEF Ordered
          <6>4. New \notin 1 .. Len(nodes)
            BY <4>1 DEF New
          <6> QED
            BY <4>3, <6>1, <6>3, <6>4 DEF Listed
        <5> HIDE DEF ks
        <5> QED
          BY <1>0, <4>1, <4>2, <5>1, OnlyTheBase
      <4> HIDE DEF ks, access
      <4> QED
        BY <2>1, <3>1, <4>2, <4>3, ReturnsMade
    <3> QED
      BY <3>2, <3>3
  <2> QED
    BY <2>2, <2>3
<1>36. CASE StatementStart
  <2> DEFINE fn == Statement(Token)
             t == Rest
  <2>1. Top.fn = "stmt" /\ UNCHANGED nodes /\ stack' = Callee(fn, cur) \o t
    BY <1>36 DEF StatementStart, Running
  <2>2. fn \in Calling \cup {"block"}
    BY DEF Statement, Calling, Callable
  <2> HIDE DEF fn, t
  <2>3. Top.kids = <<>>
    BY <2>1, HoldsNothing DEF Childless, Fresh
  <2>4. ASSUME NEW m PROVE Count(stack', m) = Count(stack, m)
    <3>0. t \in Seq(Frames) /\ Kidful(Frames)
      BY <1>0, HaveKids DEF t
    <3>1. Count(stack', m) = Count(t, m)
      BY <2>1, <2>2, <3>0, CountCallee
    <3>2. Occ(Top.kids, m) = 0
      BY <2>3, OccOf
    <3> QED
      BY <3>1, <3>2, CountTop DEF t
  <2> QED
    BY <2>1, <2>4, HoldsOn
<1>37. CASE TypeSuffix
  <2>1. /\ Top.fn = "suffix" /\ UNCHANGED nodes
        /\ UNCHANGED stack \/ Call(Top, "bound") \/ ReturnNothing
    BY <1>37 DEF TypeSuffix, Running
  <2>2. CASE UNCHANGED stack
    BY <2>1, <2>2, HoldsOn
  <2>3. CASE Call(Top, "bound")
    <3>1. "bound" \in Calling
      BY DEF Calling
    <3> QED
      BY <2>1, <2>3, <3>1, CallsHolding
  <2>4. CASE ReturnNothing
    <3>1. Top.kids = <<>>
      BY <2>1, HoldsNothing DEF Childless, Nodeless
    <3> QED
      BY <2>1, <2>4, <3>1, ReturnsNothing
  <2> QED
    BY <2>1, <2>2, <2>3, <2>4
<1>38. CASE Declare
  <2>1. Top.fn = "declare" /\ UNCHANGED nodes /\ ReturnNothing
    BY <1>38 DEF Declare, Running
  <2>2. Top.kids = <<>>
    BY <2>1, HoldsNothing DEF Childless, Nodeless
  <2> QED
    BY <2>1, <2>2, ReturnsNothing
<1>39. CASE Finish \/ Reject \/ Stopped
  <2>1. UNCHANGED <<stack, nodes>>
    BY <1>39 DEF Finish, Reject, Stopped, vars
  <2> QED
    BY <2>1, HoldsOn
<1> QED
  BY <1>1, <1>2, <1>3, <1>4, <1>5, <1>6, <1>7, <1>8, <1>9, <1>10, <1>11, <1>12,
     <1>13, <1>14, <1>15, <1>16, <1>17, <1>18, <1>19, <1>20, <1>21, <1>22, <1>23,
     <1>24, <1>25, <1>26, <1>27, <1>28, <1>29, <1>30, <1>31, <1>32, <1>33, <1>34,
     <1>35, <1>36, <1>37, <1>38, <1>39 DEF Next

Tagged(t, s, m) ==
    UNION {{<<t, j, k>> : k \in Places(s[j].kids, m)} : j \in 1 .. Len(s)}

\* The holders that are frames, and those that are nodes, are as many as counted.
LEMMA HoldersTagged ==
    ASSUME NEW S, Kidful(S), NEW s \in Seq(S), NEW m, NEW t
    PROVE  /\ IsFiniteSet(Tagged(t, s, m)) /\ Cardinality(Tagged(t, s, m)) = Count(s, m)
           /\ \A x \in Tagged(t, s, m) : x[1] = t
<1> DEFINE H == Tagged(t, s, m)
           A == Held(s, m)
           g == [h \in A |-> <<t, h[1], h[2]>>]
<1>1. IsFiniteSet(A) /\ Cardinality(A) = Count(s, m)
  BY HeldFinite DEF Count
<1>2. \A h \in A : /\ h = <<h[1], h[2]>> /\ h[1] \in 1 .. Len(s)
                   /\ h[2] \in Places(s[h[1]].kids, m)
  BY HeldIs
<1>3. ASSUME NEW x \in H PROVE \E h \in A : x = <<t, h[1], h[2]>>
  <2>1. PICK j \in 1 .. Len(s) : \E k \in Places(s[j].kids, m) : x = <<t, j, k>>
    BY DEF Tagged
  <2>2. PICK k \in Places(s[j].kids, m) : x = <<t, j, k>>
    BY <2>1
  <2>3. <<j, k>> \in A
    BY HeldIs
  <2> QED
    BY <2>2, <2>3
<1>4. ASSUME NEW h \in A PROVE <<t, h[1], h[2]>> \in H
  BY <1>2 DEF Tagged
<1> HIDE DEF A, H
<1>5. g \in Bijection(A, H)
  <2>1. g \in [A -> H]
    BY <1>4
  <2>2. \A h, i \in A : g[h] = g[i] => h = i
    BY <1>2
  <2>3. \A x \in H : \E h \in A : g[h] = x
    BY <1>3
  <2> QED
    BY <2>1, <2>2, <2>3 DEF Bijection, Injection, Surjection, IsInjective
<1>6. IsFiniteSet(H) /\ Cardinality(H) = Count(s, m)
  BY <1>1, <1>5, FS_Bijection DEF ExistsBijection
<1> QED
  BY <1>3, <1>6 DEF H

\* To have one holder is to be held once.
LEMMA OneHolderIs == PInv /\ OneHolder => HeldOnce
<1> SUFFICES ASSUME PInv, OneHolder, NEW m \in 1 .. Len(nodes), nodes[m].tag # "TARGS"
             PROVE  Cardinality(Holders(m)) = 1
  BY DEF HeldOnce
<1> DEFINE A == Tagged("node", nodes, m)
           B == Tagged("frame", stack, m)
<1>1. Holders(m) = A \cup B
  <2>1. A = UNION {{<<"node", n, k>> : k \in Places(nodes[n].kids, m)} : n \in 1 .. Len(nodes)}
    BY Zenon DEF Tagged
  <2>2. B = UNION {{<<"frame", j, k>> : k \in Places(stack[j].kids, m)} : j \in 1 .. Len(stack)}
    BY Zenon DEF Tagged
  <2> HIDE DEF A, B
  <2> QED
    BY <2>1, <2>2, Zenon DEF Holders
<1>2. nodes \in Seq(NodeSet) /\ stack \in Seq(Frames) /\ Kidful(NodeSet) /\ Kidful(Frames)
  BY TopFacts, HaveKids
<1>3. IsFiniteSet(A) /\ Cardinality(A) = Count(nodes, m) /\ \A x \in A : x[1] = "node"
  BY <1>2, HoldersTagged
<1>4. IsFiniteSet(B) /\ Cardinality(B) = Count(stack, m) /\ \A x \in B : x[1] = "frame"
  BY <1>2, HoldersTagged
<1> HIDE DEF A, B
<1>5. A \cap B = {}
  BY <1>3, <1>4
<1>6. Cardinality(A \cup B) = Cardinality(A) + Cardinality(B) - Cardinality(A \cap B)
  BY <1>3, <1>4, FS_Union
<1>7. Cardinality(A \cap B) = 0 /\ Cardinality(A) \in Nat /\ Cardinality(B) \in Nat
  BY <1>3, <1>4, <1>5, FS_EmptySet, FS_CardinalityType
<1>8. Count(stack, m) + Count(nodes, m) = 1
  BY DEF OneHolder, Listed
<1> QED
  BY <1>1, <1>3, <1>4, <1>6, <1>7, <1>8

\* Nothing that was read is lost or used twice, however results go from frame to
\* frame and the parser goes back: every node is the kid of one node, or waits in
\* one frame, but for the type arguments that an access drops.
THEOREM EachHeldOnce == Spec => []HeldOnce
<1>1. Init => IInv /\ OneHolder
  <2>1. ASSUME Init PROVE OneHolder
    <3>1. nodes = <<>>
      BY <2>1 DEF Init
    <3>2. 1 .. Len(nodes) = {}
      BY <3>1
    <3> QED
      BY <3>2 DEF OneHolder
  <2> QED
    BY <2>1, InitHolds
<1>2. IInv /\ OneHolder /\ [Next]_vars => (IInv /\ OneHolder)'
  <2>1. ASSUME IInv, OneHolder, Next PROVE OneHolder'
    BY <2>1, OneHolderKeeps DEF IInv
  <2>2. ASSUME OneHolder, UNCHANGED vars PROVE OneHolder'
    BY <2>2 DEF vars, OneHolder, Listed
  <2> QED
    BY <2>1, <2>2, StepHolds
<1>3. IInv /\ OneHolder => HeldOnce
  BY OneHolderIs DEF IInv
<1> QED
  BY <1>1, <1>2, <1>3, PTL DEF Spec

-----------------------------------------------------------------------------
(* What binds tighter: what the calls of parse_binary have in common.  One *)
(* that is reading the right operand of its operator may have been called  *)
(* by another that does, to extend what that one has read; there is no     *)
(* other way to be parsing binary operators from where an operand began.   *)

Binds(t, k)  == BinPrecedence(t[k])
Binary(n, d) == d[n].tag = "bin"
Full(n, d)   == d[n].lo <= d[n].hi

\* f has eaten an operator and reads what is right of it, or extends that.
Acting(f)    == f.fn = "binary" /\ f.st \in {"rhs", "nested"}
Extending(f) == f.fn = "binary" /\ f.st = "nested"

\* f is past the token that it began at; a few functions begin with a call.
Late(f) == f.fn \in Scripts /\ f.i > (IF f.fn \in {"spec", "init", "case"} THEN 2 ELSE 1)

\* The functions that may read an expression from where they begin, and those
\* that may make a node without tokens
Wide   == ListNames \cup {"binary", "stmt", "block", "case", "cases", "unit"}
Hollow == ListNames \cup {"cases"}

\* g is above f.
Under(f, g) == f.lo <= g.lo /\ (Acting(f) => f.at < g.lo)
Apart(f, g) == Acting(f) /\ g.lo = f.at + 1 => g.fn \notin Wide

\* g extends the right operand of f, which an operator that binds tighter follows.
Prolongs(f, g, d, t, c) ==
    /\ g.fn = "binary" /\ g.kids # <<>> /\ g.prec = f.prec + 1 /\ g.lo = f.at + 1
    /\ \/ Binary(g.kids[1], d)
       \/ Binds(t, IF Acting(g) THEN g.at ELSE c) > Binds(t, f.at)

\* g was called by f.
WasCalled(f, g, d, t, c) ==
    /\ Late(f) => f.lo < g.lo
    /\ g.fn \in Hollow => f.fn \in Scripts
    /\ f.fn = "binary" /\ ~Acting(f) => f.kids = <<>>
    /\ Extending(f) => Prolongs(f, g, d, t, c)

\* No operator was read where f's is, or before f; those that f's right operand
\* begins with bind tighter than f's.
Operands(f, d, t) ==
    /\ \A k \in 1 .. Len(f.kids) :
          f.kids[k] \in 1 .. Len(d) /\ (f.fn \notin Scripts => Full(f.kids[k], d))
    /\ f.fn = "binary" => \A m \in 1 .. Len(d) : Binary(m, d) => d[m].at # f.lo - 1
    /\ Extending(f) /\ Len(f.kids) = 2 => Binary(f.kids[2], d)
    /\ Acting(f) =>
          /\ f.lo <= f.at /\ f.at \in 1 .. Len(t) /\ Binds(t, f.at) >= f.prec
          /\ \A m \in 1 .. Len(d) : Binary(m, d) =>
                /\ d[m].at # f.at
                /\ d[m].lo = f.at + 1 /\ ~Binary(d[m].kids[1], d)
                      => Binds(t, f.at) < Binds(t, d[m].at)

\* What OperandToTighter says, of nodes d and tokens t
RightTo(n, d, t) == ~Binary(d[n].kids[2], d) => Binds(t, d[n].at) >= Binds(t, d[n].hi + 1)
LeftTo(n, d, t) ==
    ~Binary(d[n].kids[1], d) =>
        \A m \in 1 .. Len(d) :
            Binary(m, d) /\ d[m].at = d[n].lo - 1 => Binds(t, d[m].at) < Binds(t, d[n].at)

Ranked(d, t) ==
    \A n \in 1 .. Len(d) : Binary(n, d) =>
        /\ d[n].kids[1] \in 1 .. Len(d) /\ d[n].kids[2] \in 1 .. Len(d)
        /\ d[n].at \in 1 .. Len(t) /\ d[n].at < d[n].hi /\ d[n].hi + 1 \in 1 .. Len(t)
        /\ RightTo(n, d, t) /\ LeftTo(n, d, t)

RanksOK(s, d, t, c) ==
    /\ \A p, q \in 1 .. Len(s) : p < q =>
          /\ Under(Frm(s, p), Frm(s, q))
          /\ Apart(Frm(s, p), Frm(s, q)) \/ (q = p + 1 /\ Extending(Frm(s, p)))
    /\ \A p \in 1 .. Len(s) - 1 : WasCalled(Frm(s, p), Frm(s, p + 1), d, t, c)
    /\ \A p \in 1 .. Len(s) : Operands(Frm(s, p), d, t)
    /\ Late(Frm(s, Len(s))) => Frm(s, Len(s)).lo < c
    /\ Ranked(d, t)

Ranks == RanksOK(stack, nodes, toks, cur)

\* More tokens, and more nodes of which none is binary
Longer(t, u) ==
    /\ Len(t) \in Nat /\ Len(u) \in Nat /\ Len(t) <= Len(u)
    /\ \A i \in 1 .. Len(t) : u[i] = t[i]
Wider(d, e) ==
    /\ Len(d) \in Nat /\ Len(e) \in Nat /\ Extends(d, e)
    /\ \A n \in 1 .. Len(e) : Binary(n, e) => n \in 1 .. Len(d)

\* They change nothing about the nodes there were.
LEMMA RankedOn ==
    ASSUME NEW d, NEW e, NEW t, NEW u, Wider(d, e), Longer(t, u), Ranked(d, t)
    PROVE  Ranked(e, u)
<1> SUFFICES ASSUME NEW n \in 1 .. Len(e), Binary(n, e)
             PROVE  /\ e[n].kids[1] \in 1 .. Len(e) /\ e[n].kids[2] \in 1 .. Len(e)
                    /\ e[n].at \in 1 .. Len(u) /\ e[n].at < e[n].hi
                    /\ e[n].hi + 1 \in 1 .. Len(u)
                    /\ RightTo(n, e, u) /\ LeftTo(n, e, u)
  BY DEF Ranked
<1>1. /\ \A m \in 1 .. Len(d) : m \in 1 .. Len(e) /\ e[m] = d[m]
      /\ \A k \in 1 .. Len(t) : k \in 1 .. Len(u) /\ u[k] = t[k]
  BY DEF Wider, Longer, Extends
<1>2. n \in 1 .. Len(d) /\ e[n] = d[n] /\ Binary(n, d)
  BY <1>1 DEF Wider, Binary
<1>3. /\ d[n].kids[1] \in 1 .. Len(d) /\ d[n].kids[2] \in 1 .. Len(d)
      /\ d[n].at \in 1 .. Len(t) /\ d[n].at < d[n].hi /\ d[n].hi + 1 \in 1 .. Len(t)
      /\ RightTo(n, d, t) /\ LeftTo(n, d, t)
  BY <1>2 DEF Ranked
<1>4. RightTo(n, e, u)
  <2>1. e[n].kids[2] = d[n].kids[2] /\ e[d[n].kids[2]] = d[d[n].kids[2]]
    BY <1>1, <1>2, <1>3
  <2>2. u[d[n].at] = t[d[n].at] /\ u[d[n].hi + 1] = t[d[n].hi + 1]
    BY <1>1, <1>3
  <2> QED
    BY <1>2, <1>3, <2>1, <2>2 DEF RightTo, Binary, Binds
<1>5. LeftTo(n, e, u)
  <2> SUFFICES ASSUME ~Binary(e[n].kids[1], e), NEW m \in 1 .. Len(e),
                      Binary(m, e), e[m].at = e[n].lo - 1
               PROVE  Binds(u, e[m].at) < Binds(u, e[n].at)
    BY DEF LeftTo
  <2>1. m \in 1 .. Len(d) /\ e[m] = d[m] /\ Binary(m, d)
    BY <1>1 DEF Wider, Binary
  <2>2. ~Binary(d[n].kids[1], d)
    BY <1>1, <1>2, <1>3 DEF Binary
  <2>3. Binds(t, d[m].at) < Binds(t, d[n].at)
    BY <1>2, <1>3, <2>1, <2>2 DEF LeftTo
  <2>4. d[m].at \in 1 .. Len(t)
    BY <2>1 DEF Ranked
  <2> QED
    BY <1>1, <1>2, <1>3, <2>1, <2>3, <2>4 DEF Binds
<1> QED
  BY <1>1, <1>2, <1>3, <1>4, <1>5

\* nor about a frame,
LEMMA OperandsOn ==
    ASSUME NEW d, NEW e, NEW t, NEW u, Wider(d, e), Longer(t, u), Ranked(d, t),
           NEW f, Operands(f, d, t), f.kids \in Seq(Nat \ {0})
    PROVE  Operands(f, e, u)
<1>1. /\ \A m \in 1 .. Len(d) : m \in 1 .. Len(e) /\ e[m] = d[m]
      /\ \A k \in 1 .. Len(t) : k \in 1 .. Len(u) /\ u[k] = t[k]
      /\ \A m \in 1 .. Len(e) : Binary(m, e) => m \in 1 .. Len(d) /\ e[m] = d[m] /\ Binary(m, d)
  <2>1. /\ \A m \in 1 .. Len(d) : m \in 1 .. Len(e) /\ e[m] = d[m]
        /\ \A k \in 1 .. Len(t) : k \in 1 .. Len(u) /\ u[k] = t[k]
    BY DEF Wider, Longer, Extends
  <2> QED
    BY <2>1 DEF Wider, Binary
<1>2. \A k \in 1 .. Len(f.kids) :
         f.kids[k] \in 1 .. Len(e) /\ (f.fn \notin Scripts => Full(f.kids[k], e))
  BY <1>1 DEF Operands, Full
<1>3. f.fn = "binary" => \A m \in 1 .. Len(e) : Binary(m, e) => e[m].at # f.lo - 1
  BY <1>1 DEF Operands
<1>4. Extending(f) /\ Len(f.kids) = 2 => Binary(f.kids[2], e)
  <2>1. Len(f.kids) = 2 => 2 \in 1 .. Len(f.kids)
    OBVIOUS
  <2>2. Len(f.kids) = 2 => e[f.kids[2]] = d[f.kids[2]]
    BY <1>1, <2>1 DEF Operands
  <2> QED
    BY <2>2 DEF Operands, Binary
<1>5. ASSUME Acting(f)
      PROVE  /\ f.lo <= f.at /\ f.at \in 1 .. Len(u) /\ Binds(u, f.at) >= f.prec
             /\ \A m \in 1 .. Len(e) : Binary(m, e) =>
                   /\ e[m].at # f.at
                   /\ e[m].lo = f.at + 1 /\ ~Binary(e[m].kids[1], e)
                         => Binds(u, f.at) < Binds(u, e[m].at)
  <2>1. f.lo <= f.at /\ f.at \in 1 .. Len(t) /\ Binds(t, f.at) >= f.prec
    BY <1>5 DEF Operands
  <2>2. f.at \in 1 .. Len(u) /\ Binds(u, f.at) = Binds(t, f.at)
    BY <1>1, <2>1 DEF Binds
  <2>3. ASSUME NEW m \in 1 .. Len(e), Binary(m, e)
        PROVE  /\ e[m].at # f.at
               /\ e[m].lo = f.at + 1 /\ ~Binary(e[m].kids[1], e)
                     => Binds(u, f.at) < Binds(u, e[m].at)
    <3>1. m \in 1 .. Len(d) /\ e[m] = d[m] /\ Binary(m, d)
      BY <1>1, <2>3
    <3>2. d[m].kids[1] \in 1 .. Len(d) /\ d[m].at \in 1 .. Len(t)
      BY <3>1 DEF Ranked
    <3>3. /\ d[m].at # f.at
          /\ d[m].lo = f.at + 1 /\ ~Binary(d[m].kids[1], d)
                => Binds(t, f.at) < Binds(t, d[m].at)
      BY <1>5, <3>1 DEF Operands
    <3>4. Binary(d[m].kids[1], e) <=> Binary(d[m].kids[1], d)
      BY <1>1, <3>2 DEF Binary
    <3>5. Binds(u, d[m].at) = Binds(t, d[m].at)
      BY <1>1, <3>2 DEF Binds
    <3> QED
      BY <2>2, <3>1, <3>3, <3>4, <3>5
  <2> QED
    BY <2>1, <2>2, <2>3
<1> QED
  BY <1>2, <1>3, <1>4, <1>5 DEF Operands

\* nor about two frames, the upper of which has called another one.
LEMMA WasCalledOn ==
    ASSUME NEW d, NEW e, NEW t, NEW u, Len(d) <= Len(e), Len(d) \in Nat, Len(e) \in Nat,
           Extends(d, e), Longer(t, u),
           NEW f, NEW g, g.kids \in Seq(Nat \ {0}), Operands(f, d, t), Operands(g, d, t),
           g.fn = "binary" /\ ~Acting(g) => g.kids = <<>>,
           NEW c, NEW c2, WasCalled(f, g, d, t, c)
    PROVE  WasCalled(f, g, e, u, c2)
<1> SUFFICES ASSUME Extending(f) PROVE Prolongs(f, g, e, u, c2)
  BY DEF WasCalled
<1>1. Prolongs(f, g, d, t, c)
  BY DEF WasCalled
<1>2. Acting(g) /\ Acting(f)
  BY <1>1 DEF Prolongs, Extending, Acting
<1>3. g.at \in 1 .. Len(t) /\ f.at \in 1 .. Len(t)
  BY <1>2 DEF Operands
<1>4. Binds(u, g.at) = Binds(t, g.at) /\ Binds(u, f.at) = Binds(t, f.at)
  BY <1>3 DEF Longer, Binds
<1>5. 1 \in 1 .. Len(g.kids)
  BY <1>1 DEF Prolongs
<1>6. g.kids[1] \in 1 .. Len(d)
  BY <1>5 DEF Operands
<1>7. Binary(g.kids[1], d) <=> Binary(g.kids[1], e)
  BY <1>6 DEF Extends, Binary
<1> QED
  BY <1>1, <1>2, <1>4, <1>7 DEF Prolongs

-----------------------------------------------------------------------------
(* What becomes of the stack.                                              *)

\* g does not begin before h; only a function that may read an expression from
\* where it begins has another one do that.
Follows(h, g) == h.lo <= g.lo /\ (g.lo = h.lo /\ g.fn \in Wide => h.fn \in Wide)

\* f takes the place of h.
Replaces(f, h, d, e, t, u, c, c2) ==
    /\ Follows(h, f) /\ (h.fn = "binary" => f.fn = "binary" /\ f.lo = h.lo)
    /\ f.fn \in Hollow => h.fn \in Hollow
    /\ Late(f) => f.lo < c2
    /\ Operands(f, e, u)
    /\ \A g : g.at \in 1 .. Len(t) /\ Prolongs(g, h, d, t, c) => Prolongs(g, f, e, u, c2)

\* The numbers of a frame.
LEMMA FrameNumbers ==
    ASSUME NEW f \in Frames
    PROVE  f.lo \in Nat \ {0} /\ f.at \in Nat /\ f.i \in Nat \ {0} /\ f.prec \in Nat
BY DEF Frames

\* A stack with another frame in the place of its top
LEMMA OtherTop ==
    ASSUME NEW s \in Seq(Frames), Len(s) > 0, NEW f \in Frames
    PROVE  /\ Len(<<f>> \o Tail(s)) = Len(s) /\ Frm(<<f>> \o Tail(s), Len(s)) = f
           /\ \A p \in 1 .. Len(s) - 1 : Frm(<<f>> \o Tail(s), p) = Frm(s, p)
<1> DEFINE gs == <<f>>
           n == Len(s)
<1>0. s \in Seq(Frames) /\ Len(s) > 0 /\ gs \in Seq(Frames)
  OBVIOUS
<1>1. Len(gs) = 1 /\ gs[1] = f /\ 1 \in 1 .. Len(gs)
  OBVIOUS
<1> HIDE DEF gs
<1>2. /\ Len(gs \o Tail(s)) = Len(s) - 1 + Len(gs) /\ Len(s) \in Nat \ {0}
      /\ \A p \in 1 .. Len(s) - 1 : Frm(gs \o Tail(s), p) = Frm(s, p)
      /\ \A i \in 1 .. Len(gs) : Frm(gs \o Tail(s), Len(s) + Len(gs) - i) = gs[i]
  BY <1>0, Replaced
<1> HIDE DEF n
<1>3. Frm(gs \o Tail(s), n + Len(gs) - 1) = f
  BY <1>1, <1>2 DEF n
<1>4. n + Len(gs) - 1 = n /\ n - 1 + Len(gs) = n
  BY <1>1, <1>2 DEF n
<1> QED
  BY <1>2, <1>3, <1>4 DEF gs, n

\* Another frame on top, of which the others can tell no difference.
LEMMA RanksReplace ==
    ASSUME NEW s \in Seq(Frames), Len(s) > 0, NEW d, NEW e, NEW t, NEW u, NEW c, NEW c2,
           RanksOK(s, d, t, c),
           Len(d) <= Len(e), Len(d) \in Nat, Len(e) \in Nat, Extends(d, e), Longer(t, u),
           \A p \in 1 .. Len(s) - 1 : Operands(Frm(s, p), e, u), Ranked(e, u),
           NEW f \in Frames, Replaces(f, Head(s), d, e, t, u, c, c2)
    PROVE  RanksOK(<<f>> \o Tail(s), e, u, c2)
<1> DEFINE v == <<f>> \o Tail(s)
           n == Len(s)
           h == Head(s)
<1>1. /\ n \in Nat \ {0} /\ h = Frm(s, n) /\ h \in Frames
      /\ \A p \in 1 .. n : Frm(s, p) \in Frames
  BY Ends12
<1>2. Len(v) = n /\ Frm(v, n) = f /\ \A p \in 1 .. n - 1 : Frm(v, p) = Frm(s, p)
  BY OtherTop
<1> HIDE DEF v, n, h
<1>3. \A p \in 1 .. n : p \in 1 .. n - 1 \/ p = n
  BY <1>1
<1>4. /\ \A p, q \in 1 .. n : p < q =>
            /\ Under(Frm(s, p), Frm(s, q))
            /\ Apart(Frm(s, p), Frm(s, q)) \/ (q = p + 1 /\ Extending(Frm(s, p)))
      /\ \A p \in 1 .. n - 1 : WasCalled(Frm(s, p), Frm(s, p + 1), d, t, c)
      /\ \A p \in 1 .. n : Operands(Frm(s, p), d, t)
  BY DEF RanksOK, n
<1>5. /\ Follows(h, f) /\ (h.fn = "binary" => f.fn = "binary" /\ f.lo = h.lo)
      /\ f.fn \in Hollow => h.fn \in Hollow
      /\ Late(f) => f.lo < c2
      /\ Operands(f, e, u)
      /\ \A g : g.at \in 1 .. Len(t) /\ Prolongs(g, h, d, t, c) => Prolongs(g, f, e, u, c2)
  BY DEF Replaces, h
<1>6. ASSUME NEW p \in 1 .. n - 1
      PROVE  /\ Under(Frm(s, p), f)
             /\ Apart(Frm(s, p), f) \/ (n = p + 1 /\ Extending(Frm(s, p)))
  <2> DEFINE g == Frm(s, p)
  <2>1. g \in Frames /\ p < n /\ p \in 1 .. n /\ n \in 1 .. n
    BY <1>1
  <2>2. Under(g, h) /\ (Apart(g, h) \/ (n = p + 1 /\ Extending(g)))
    BY <1>1, <1>4, <2>1
  <2>3. g.lo \in Nat /\ g.at \in Nat /\ h.lo \in Nat /\ f.lo \in Nat
    BY <1>1, <2>1, FrameNumbers
  <2> HIDE DEF g
  <2>4. Under(g, f)
    BY <1>5, <2>2, <2>3 DEF Under, Follows
  <2>5. ASSUME Apart(g, h) PROVE Apart(g, f)
    <3> SUFFICES ASSUME Acting(g), f.lo = g.at + 1, f.fn \in Wide PROVE FALSE
      BY DEF Apart
    <3>1. h.lo = f.lo
      BY <1>5, <2>2, <2>3 DEF Under, Follows
    <3>2. h.fn \in Wide
      BY <1>5, <3>1 DEF Follows
    <3> QED
      BY <2>5, <3>1, <3>2 DEF Apart
  <2> QED
    BY <2>2, <2>4, <2>5 DEF g
<1>7. ASSUME NEW p \in 1 .. n, NEW q \in 1 .. n, p < q
      PROVE  /\ Under(Frm(v, p), Frm(v, q))
             /\ Apart(Frm(v, p), Frm(v, q)) \/ (q = p + 1 /\ Extending(Frm(v, p)))
  <2>1. p \in 1 .. n - 1
    BY <1>1, <1>7
  <2>2. CASE q = n
    BY <1>2, <1>6, <2>1, <2>2
  <2>3. CASE q \in 1 .. n - 1
    BY <1>2, <1>4, <1>7, <2>1, <2>3
  <2> QED
    BY <1>3, <2>2, <2>3
<1>8. ASSUME NEW p \in 1 .. n - 1 PROVE WasCalled(Frm(v, p), Frm(v, p + 1), e, u, c2)
  <2> DEFINE g == Frm(s, p)
  <2>1. g \in Frames /\ Frm(v, p) = g /\ p \in 1 .. n
    BY <1>1, <1>2
  <2>2. CASE p + 1 = n
    <3>1. WasCalled(g, h, d, t, c) /\ Operands(g, d, t) /\ Frm(v, p + 1) = f
      BY <1>1, <1>2, <1>4, <2>1, <2>2
    <3>2. g.lo \in Nat /\ h.lo \in Nat /\ f.lo \in Nat
      BY <1>1, <2>1, FrameNumbers
    <3> HIDE DEF g
    <3>3. Late(g) => g.lo < f.lo
      BY <1>5, <3>1, <3>2 DEF WasCalled, Follows
    <3>4. Extending(g) => Prolongs(g, f, e, u, c2)
      <4>1. Extending(g) => Acting(g)
        BY DEF Extending, Acting
      <4>2. Extending(g) => g.at \in 1 .. Len(t)
        BY <3>1, <4>1 DEF Operands
      <4> QED
        BY <1>5, <3>1, <4>2 DEF WasCalled
    <3> QED
      BY <1>5, <2>1, <3>1, <3>3, <3>4 DEF WasCalled
  <2>3. CASE p + 1 # n
    <3>1. p + 1 \in 1 .. n - 1 /\ p + 1 \in 1 .. n
      BY <1>1, <2>3
    <3> DEFINE k == Frm(s, p + 1)
    <3>2. k \in Frames /\ Frm(v, p + 1) = k
      BY <1>1, <1>2, <3>1
    <3>3. WasCalled(g, k, d, t, c) /\ Operands(g, d, t) /\ Operands(k, d, t)
      BY <1>4, <2>1, <3>1
    <3>4. k.fn = "binary" /\ ~Acting(k) => k.kids = <<>>
      BY <1>4, <3>1 DEF WasCalled
    <3>5. k.kids \in Seq(Nat \ {0})
      BY <3>2, FrameFields
    <3> HIDE DEF g, k
    <3>6. WasCalled(g, k, e, u, c2)
      BY <3>3, <3>4, <3>5, WasCalledOn
    <3> QED
      BY <2>1, <3>2, <3>6
  <2> QED
    BY <2>2, <2>3
<1>9. ASSUME NEW p \in 1 .. n PROVE Operands(Frm(v, p), e, u)
  <2>1. CASE p = n
    BY <1>2, <1>5, <2>1
  <2>2. CASE p \in 1 .. n - 1
    BY <1>2, <2>2 DEF n
  <2> QED
    BY <1>3, <2>1, <2>2
<1>10. Late(Frm(v, n)) => Frm(v, n).lo < c2
  BY <1>2, <1>5
<1>11. RanksOK(v, e, u, c2)
  BY <1>2, <1>7, <1>8, <1>9, <1>10 DEF RanksOK
<1> QED
  BY <1>11 DEF v

\* a is called by f.
MayCall(f, a, d, t, c) ==
    /\ Follows(f, a)
    /\ f.fn = "binary" => a.lo > f.lo \/ f.kids = <<>>
    /\ Acting(f) => f.at < a.lo /\ (Apart(f, a) \/ Extending(f))
    /\ Late(a) => a.lo < c
    /\ Operands(a, d, t)
    /\ WasCalled(f, a, d, t, c)

\* One frame more.
LEMMA RanksPush ==
    ASSUME NEW s \in Seq(Frames), Len(s) > 0, NEW d, NEW t, NEW c, RanksOK(s, d, t, c),
           Len(d) \in Nat, Longer(t, t),
           NEW a \in Frames, MayCall(Head(s), a, d, t, c)
    PROVE  RanksOK(<<a>> \o s, d, t, c)
<1> DEFINE v == <<a>> \o s
           n == Len(s)
           f == Head(s)
<1>1. /\ n \in Nat \ {0} /\ f = Frm(s, n) /\ f \in Frames
      /\ \A p \in 1 .. n : Frm(s, p) \in Frames
  BY Ends12
<1>2. Len(v) = n + 1 /\ Frm(v, n + 1) = a /\ \A p \in 1 .. n : Frm(v, p) = Frm(s, p)
  <2>1. Len(v) = n + 1 /\ v[1] = a /\ \A j \in 1 .. n : v[j + 1] = s[j]
    BY Pushed
  <2> HIDE DEF v, n
  <2>2. Frm(v, n + 1) = a
    <3>1. n + 1 + 1 - (n + 1) = 1
      BY <1>1
    <3> QED
      BY <2>1, <3>1 DEF Frm
  <2>3. ASSUME NEW p \in 1 .. n PROVE Frm(v, p) = Frm(s, p)
    <3>1. n + 1 - p \in 1 .. n /\ (n + 1 - p) + 1 = n + 1 + 1 - p
      BY <1>1
    <3>2. v[(n + 1 - p) + 1] = s[n + 1 - p]
      BY <2>1, <3>1
    <3> QED
      BY <2>1, <3>1, <3>2 DEF Frm, n
  <2> QED
    BY <2>1, <2>2, <2>3
<1> HIDE DEF v, n, f
<1>3. \A p \in 1 .. n + 1 : p \in 1 .. n \/ p = n + 1
  BY <1>1
<1>4. /\ \A p, q \in 1 .. n : p < q =>
            /\ Under(Frm(s, p), Frm(s, q))
            /\ Apart(Frm(s, p), Frm(s, q)) \/ (q = p + 1 /\ Extending(Frm(s, p)))
      /\ \A p \in 1 .. n - 1 : WasCalled(Frm(s, p), Frm(s, p + 1), d, t, c)
      /\ \A p \in 1 .. n : Operands(Frm(s, p), d, t)
      /\ Ranked(d, t)
  BY DEF RanksOK, n
<1>5. /\ Follows(f, a) /\ (f.fn = "binary" => a.lo > f.lo \/ f.kids = <<>>)
      /\ Acting(f) => f.at < a.lo /\ (Apart(f, a) \/ Extending(f))
      /\ Late(a) => a.lo < c
      /\ Operands(a, d, t)
      /\ WasCalled(f, a, d, t, c)
  BY DEF MayCall, f
<1>6. ASSUME NEW p \in 1 .. n - 1 PROVE Under(Frm(s, p), a) /\ Apart(Frm(s, p), a)
  <2> DEFINE g == Frm(s, p)
  <2>1. g \in Frames /\ p < n /\ p \in 1 .. n /\ n \in 1 .. n
    BY <1>1
  <2>2. Under(g, f) /\ (Apart(g, f) \/ (n = p + 1 /\ Extending(g)))
    BY <1>1, <1>4, <2>1
  <2>3. g.lo \in Nat /\ g.at \in Nat /\ f.lo \in Nat /\ a.lo \in Nat
    BY <1>1, <2>1, FrameNumbers
  <2>7. n = p + 1 => WasCalled(g, f, d, t, c)
    BY <1>1, <1>4
  <2> HIDE DEF g
  <2>4. Under(g, a)
    BY <1>5, <2>2, <2>3 DEF Under, Follows
  <2>5. ASSUME Acting(g), a.lo = g.at + 1 PROVE a.lo = f.lo
    BY <1>5, <2>2, <2>3, <2>5 DEF Under, Follows
  <2>6. Apart(g, a)
    <3> SUFFICES ASSUME Acting(g), a.lo = g.at + 1, a.fn \in Wide PROVE FALSE
      BY DEF Apart
    <3>1. a.lo = f.lo /\ f.fn \in Wide
      BY <1>5, <2>5 DEF Follows
    <3>2. ~Apart(g, f)
      BY <3>1 DEF Apart
    <3>3. Prolongs(g, f, d, t, c)
      BY <2>2, <2>7, <3>2 DEF WasCalled
    <3>4. ~(a.lo > f.lo)
      BY <2>3, <3>1
    <3> QED
      BY <1>5, <3>3, <3>4 DEF Prolongs
  <2> QED
    BY <2>4, <2>6 DEF g
<1>7. ASSUME NEW p \in 1 .. n + 1, NEW q \in 1 .. n + 1, p < q
      PROVE  /\ Under(Frm(v, p), Frm(v, q))
             /\ Apart(Frm(v, p), Frm(v, q)) \/ (q = p + 1 /\ Extending(Frm(v, p)))
  <2>1. p \in 1 .. n
    BY <1>1, <1>7
  <2>2. CASE q = n + 1 /\ p = n
    <3>1. f.lo \in Nat /\ a.lo \in Nat /\ Frm(v, p) = f /\ Frm(v, q) = a
      BY <1>1, <1>2, <2>1, <2>2, FrameNumbers
    <3>2. Under(f, a)
      BY <1>5 DEF Under, Follows
    <3>3. Apart(f, a) \/ Extending(f)
      BY <1>5 DEF Apart
    <3> QED
      BY <2>2, <3>1, <3>2, <3>3
  <2>3. CASE q = n + 1 /\ p # n
    <3>1. p \in 1 .. n - 1
      BY <1>1, <2>1, <2>3
    <3> QED
      BY <1>2, <1>6, <2>1, <2>3, <3>1
  <2>4. CASE q \in 1 .. n
    BY <1>2, <1>4, <1>7, <2>1, <2>4
  <2> QED
    BY <1>3, <2>2, <2>3, <2>4
<1>8. ASSUME NEW p \in 1 .. (n + 1) - 1 PROVE WasCalled(Frm(v, p), Frm(v, p + 1), d, t, c)
  <2>0. p \in 1 .. n
    BY <1>1
  <2>1. CASE p = n
    BY <1>1, <1>2, <1>5, <2>0, <2>1
  <2>2. CASE p # n
    <3>1. p \in 1 .. n - 1 /\ p + 1 \in 1 .. n
      BY <1>1, <2>0, <2>2
    <3>2. Frm(v, p) = Frm(s, p) /\ Frm(v, p + 1) = Frm(s, p + 1)
      BY <1>2, <2>0, <3>1
    <3>3. WasCalled(Frm(s, p), Frm(s, p + 1), d, t, c)
      BY <1>4, <3>1
    <3> QED
      BY <3>2, <3>3
  <2> QED
    BY <2>1, <2>2
<1>9. ASSUME NEW p \in 1 .. n + 1 PROVE Operands(Frm(v, p), d, t)
  BY <1>2, <1>3, <1>4, <1>5
<1>10. Late(Frm(v, n + 1)) => Frm(v, n + 1).lo < c
  BY <1>2, <1>5
<1>11. RanksOK(v, d, t, c)
  BY <1>2, <1>4, <1>7, <1>8, <1>9, <1>10 DEF RanksOK
<1> QED
  BY <1>11 DEF v

\* One frame less.
LEMMA RanksDrop ==
    ASSUME NEW s \in Seq(Frames), Len(s) > 1, NEW d, NEW t, NEW c \in Nat, RanksOK(s, d, t, c),
           Head(s).lo <= c, Len(d) \in Nat, Longer(t, t)
    PROVE  RanksOK(Tail(s), d, t, c)
<1> DEFINE v == Tail(s)
           n == Len(s)
           h == Head(s)
<1>1. /\ n \in Nat /\ n > 1 /\ h = Frm(s, n) /\ h \in Frames
      /\ Len(v) = n - 1 /\ \A p \in 1 .. n - 1 : Frm(v, p) = Frm(s, p)
      /\ \A p \in 1 .. n : Frm(s, p) \in Frames
  BY Ends12
<1>2. h.lo <= c
  OBVIOUS
<1> HIDE DEF v, n, h
<1>4. /\ \A p, q \in 1 .. n : p < q =>
            /\ Under(Frm(s, p), Frm(s, q))
            /\ Apart(Frm(s, p), Frm(s, q)) \/ (q = p + 1 /\ Extending(Frm(s, p)))
      /\ \A p \in 1 .. n - 1 : WasCalled(Frm(s, p), Frm(s, p + 1), d, t, c)
      /\ \A p \in 1 .. n : Operands(Frm(s, p), d, t)
      /\ Ranked(d, t)
  BY DEF RanksOK, n
<1>5. /\ n - 1 \in 1 .. n - 1 /\ n - 1 \in 1 .. n /\ (n - 1) + 1 = n
      /\ \A p \in 1 .. n - 1 : p \in 1 .. n
      /\ \A p \in 1 .. (n - 1) - 1 : p \in 1 .. n - 1 /\ p + 1 \in 1 .. n - 1
  BY <1>1
<1>6. \A p, q \in 1 .. n - 1 : p < q =>
            /\ Under(Frm(v, p), Frm(v, q))
            /\ Apart(Frm(v, p), Frm(v, q)) \/ (q = p + 1 /\ Extending(Frm(v, p)))
  BY <1>1, <1>4, <1>5
<1>7. ASSUME NEW p \in 1 .. (n - 1) - 1 PROVE WasCalled(Frm(v, p), Frm(v, p + 1), d, t, c)
  BY <1>1, <1>4, <1>5
<1>8. \A p \in 1 .. n - 1 : Operands(Frm(v, p), d, t)
  BY <1>1, <1>4, <1>5
<1>9. Late(Frm(v, n - 1)) => Frm(v, n - 1).lo < c
  <2> DEFINE g == Frm(s, n - 1)
  <2>1. WasCalled(g, h, d, t, c) /\ Frm(v, n - 1) = g /\ g \in Frames
    BY <1>1, <1>4, <1>5
  <2>2. g.lo \in Nat /\ h.lo \in Nat
    BY <1>1, <2>1, FrameNumbers
  <2> HIDE DEF g
  <2> QED
    BY <1>2, <2>1, <2>2 DEF WasCalled
<1>10. RanksOK(v, d, t, c)
  BY <1>1, <1>4, <1>6, <1>7, <1>8, <1>9 DEF RanksOK
<1> QED
  BY <1>10 DEF v

\* The tokens and the nodes after a step that makes no binary node
Going == /\ PInv /\ Ranks
         /\ Stay \/ Restore \/ Advance
         /\ \/ UNCHANGED nodes
            \/ \E tag, at, lo, hi, kids : tag # "bin" /\ Make(tag, at, lo, hi, kids)

\* They say the same about what there was.
LEMMA GoesWider ==
    ASSUME Going
    PROVE  /\ Wider(nodes, nodes') /\ Longer(toks, toks')
           /\ Longer(toks, toks) /\ Longer(toks', toks')
           /\ Len(nodes) \in Nat /\ Len(nodes') \in Nat /\ Len(nodes) <= Len(nodes')
           /\ Extends(nodes, nodes')
           /\ nodes \in Seq(NodeSet) /\ toks \in Seq(Alphabet)
<1>1. nodes \in Seq(NodeSet) /\ toks \in Seq(Alphabet) /\ Kept
  BY TokensKept DEF Going, PInv, Grown, Reads
<1>2. Len(nodes) \in Nat /\ Len(toks) \in Nat
  BY <1>1
<1>3. Len(toks') \in Nat
  <2>1. CASE UNCHANGED toks
    BY <1>2, <2>1
  <2>2. CASE \E t \in Lexed(cur + 1) : toks' = Append(toks, t)
    BY <1>1, <2>2
  <2> QED
    BY <2>1, <2>2 DEF Going, Stay, Restore, Advance
<1>4. Wider(nodes, nodes') /\ Len(nodes') \in Nat /\ Len(nodes) <= Len(nodes')
  <2>1. CASE UNCHANGED nodes
    BY <1>2, <2>1 DEF Wider, Extends
  <2>2. ASSUME NEW tag, NEW at, NEW lo, NEW hi, NEW kids, tag # "bin",
               Make(tag, at, lo, hi, kids)
        PROVE  Wider(nodes, nodes') /\ Len(nodes') \in Nat /\ Len(nodes) <= Len(nodes')
    <3> DEFINE x == Node(tag, at, lo, hi, kids)
               n == Len(nodes)
    <3>1. nodes' = Append(nodes, x) /\ x.tag # "bin"
      BY <2>2 DEF Make, Node
    <3> HIDE DEF x
    <3>2. /\ Len(nodes') = n + 1 /\ nodes'[n + 1] = x
          /\ \A k \in 1 .. n : nodes'[k] = nodes[k]
      BY <1>1, <3>1
    <3>3. n \in Nat
      BY <1>2
    <3> HIDE DEF n
    <3>4. \A k \in 1 .. n + 1 : k \in 1 .. n \/ k = n + 1
      BY <3>3
    <3>5. \A k \in 1 .. Len(nodes') : Binary(k, nodes') => k \in 1 .. n
      BY <3>1, <3>2, <3>4 DEF Binary
    <3>6. n <= Len(nodes') /\ Len(nodes') \in Nat
      BY <3>2, <3>3
    <3> QED
      BY <3>2, <3>3, <3>5, <3>6 DEF Wider, Extends, n
  <2> QED
    BY <2>1, <2>2 DEF Going
<1>5. Longer(toks, toks') /\ Longer(toks, toks) /\ Longer(toks', toks')
  BY <1>1, <1>2, <1>3 DEF Longer, Kept
<1> QED
  BY <1>1, <1>4, <1>5 DEF Wider

\* What is so of the function on top, and of those below it.
LEMMA RanksTop ==
    ASSUME PInv, Ranks
    PROVE  /\ Operands(Top, nodes, toks) /\ (Late(Top) => Top.lo < cur)
           /\ Ranked(nodes, toks) /\ Top \in Frames /\ Top = Head(stack)
           /\ \A p \in 1 .. Len(stack) - 1 : /\ Operands(Frm(stack, p), nodes, toks)
                                             /\ Frm(stack, p).kids \in Seq(Nat \ {0})
           /\ stack \in Seq(Frames) /\ Len(stack) > 0 /\ cur \in Nat \ {0}
           /\ RanksOK(stack, nodes, toks, cur) /\ Rest = Tail(stack)
           /\ Top.kids \in Seq(Nat \ {0})
<1>1. stack \in Seq(Frames) /\ Len(stack) > 0 /\ Top \in Frames /\ cur \in Nat \ {0}
  BY TopFacts
<1>2. Top = Head(stack) /\ Rest = Tail(stack)
  BY DEF Top, Rest
<1>3. RanksOK(stack, nodes, toks, cur)
  BY DEF Ranks
<1>4. /\ Len(stack) \in Nat \ {0} /\ Head(stack) = Frm(stack, Len(stack))
      /\ \A p \in 1 .. Len(stack) : Frm(stack, p) \in Frames
  BY <1>1, Ends12
<1>5. Len(stack) \in 1 .. Len(stack) /\ \A p \in 1 .. Len(stack) - 1 : p \in 1 .. Len(stack)
  BY <1>4
<1>6. /\ \A p \in 1 .. Len(stack) : Operands(Frm(stack, p), nodes, toks)
      /\ Late(Frm(stack, Len(stack))) => Frm(stack, Len(stack)).lo < cur
      /\ Ranked(nodes, toks)
  BY <1>3 DEF RanksOK
<1>7. \A p \in 1 .. Len(stack) - 1 : /\ Operands(Frm(stack, p), nodes, toks)
                                     /\ Frm(stack, p).kids \in Seq(Nat \ {0})
  BY <1>4, <1>5, <1>6, FrameFields
<1> QED
  BY <1>1, <1>2, <1>3, <1>4, <1>5, <1>6, <1>7, FrameFields

\* Another frame on top.
LEMMA RanksBecome ==
    ASSUME Going, NEW f \in Frames,
           Replaces(f, Top, nodes, nodes', toks, toks', cur, cur')
    PROVE  RanksOK(<<f>> \o Rest, nodes', toks', cur')
<1>1. /\ Wider(nodes, nodes') /\ Longer(toks, toks')
      /\ Len(nodes) \in Nat /\ Len(nodes') \in Nat /\ Len(nodes) <= Len(nodes')
      /\ Extends(nodes, nodes')
  BY GoesWider
<1>2. /\ Ranked(nodes, toks) /\ Top = Head(stack)
      /\ \A p \in 1 .. Len(stack) - 1 : /\ Operands(Frm(stack, p), nodes, toks)
                                        /\ Frm(stack, p).kids \in Seq(Nat \ {0})
      /\ stack \in Seq(Frames) /\ Len(stack) > 0
      /\ RanksOK(stack, nodes, toks, cur) /\ Rest = Tail(stack)
  BY RanksTop DEF Going
<1>3. \A p \in 1 .. Len(stack) - 1 : Operands(Frm(stack, p), nodes', toks')
  BY <1>1, <1>2, OperandsOn
<1>4. Ranked(nodes', toks')
  BY <1>1, <1>2, RankedOn
<1>5. Replaces(f, Head(stack), nodes, nodes', toks, toks', cur, cur')
  BY <1>2
<1>6. RanksOK(<<f>> \o Tail(stack), nodes', toks', cur')
  BY <1>1, <1>2, <1>3, <1>4, <1>5, RanksReplace
<1> QED
  BY <1>2, <1>6

\* The function on top goes on as f, and calls a.
LEMMA RanksPushes ==
    ASSUME Going, NEW a \in Frames, NEW f \in Frames,
           Replaces(f, Top, nodes, nodes', toks, toks', cur, cur'),
           MayCall(f, a, nodes', toks', cur')
    PROVE  RanksOK(<<a, f>> \o Rest, nodes', toks', cur')
<1> DEFINE v == <<f>> \o Rest
<1>1. Longer(toks', toks') /\ Len(nodes') \in Nat
  BY GoesWider
<1>6. RanksOK(v, nodes', toks', cur')
  BY RanksBecome
<1>7. Rest \in Seq(Frames)
  BY TopOver DEF Going
<1>8. v \in Seq(Frames) /\ Len(v) > 0 /\ Head(v) = f
  BY <1>7
<1>9. <<a, f>> \o Rest = <<a>> \o v
  BY <1>7, TwoOnTop
<1> HIDE DEF v
<1>10. RanksOK(<<a>> \o v, nodes', toks', cur')
  BY <1>1, <1>6, <1>8, RanksPush
<1> QED
  BY <1>9, <1>10

\* Any function was called, but that which reads the whole text.
LEMMA NotAlone ==
    ASSUME PInv, Top.fn # "unit"
    PROVE  Len(stack) > 1 /\ Len(stack) \in Nat
<1> DEFINE n == Len(stack)
<1>1. stack \in Seq(Frames) /\ Len(stack) > 0
  BY TopFacts
<1>2. n \in Nat \ {0} /\ Top = Frm(stack, n) /\ n \in 1 .. n
  BY <1>1, Ends12 DEF Top
<1>3. Frm(stack, n).fn = "unit" <=> n = 1
  BY <1>2 DEF PInv, Stacked, StackOK
<1> HIDE DEF n
<1>4. n # 1
  BY <1>2, <1>3
<1>5. n > 1 /\ n \in Nat
  BY <1>2, <1>4
<1> QED
  BY <1>5 DEF n

\* Node n is what h may return.
Yields(h, n, d, e, t, c) ==
    /\ n \in 1 .. Len(e)
    /\ h.fn \notin Hollow => Full(n, e)
    /\ \A f \in Frames : Prolongs(f, h, d, t, c) /\ Binds(t, f.at) >= f.prec => Binary(n, e)

\* The function on top returns.
LEMMA RanksReturn ==
    ASSUME Going, Top.fn # "unit", cur' \in Nat, cur <= cur',
           NEW n, Return(n), Yields(Top, n, nodes, nodes', toks, cur)
    PROVE  Ranks'
<1> DEFINE s == Rest
           F == Head(s)
           G == Got(F, n)
           d == nodes
           e == nodes'
           t == toks
           u == toks'
<1>1. /\ Wider(d, e) /\ Longer(t, u) /\ Longer(t, t)
      /\ Len(d) \in Nat /\ Len(e) \in Nat /\ Len(d) <= Len(e) /\ Extends(d, e)
  BY GoesWider
<1>2. /\ Ranked(d, t) /\ Top = Head(stack) /\ Top \in Frames
      /\ stack \in Seq(Frames) /\ Len(stack) > 0 /\ cur \in Nat \ {0}
      /\ RanksOK(stack, d, t, cur) /\ s = Tail(stack)
  BY RanksTop DEF Going
<1>3. Len(stack) > 1 /\ Len(stack) \in Nat
  BY NotAlone DEF Going
<1>4. Top.lo <= cur
  BY TopFacts DEF Going
<1>5. RanksOK(s, d, t, cur)
  BY <1>1, <1>2, <1>3, <1>4, RanksDrop
<1>6. /\ s \in Seq(Frames) /\ Len(s) > 0 /\ F \in Frames /\ Len(s) = Len(stack) - 1
      /\ F = Frm(stack, Len(stack) - 1)
  <2>1. /\ s \in Seq(Frames) /\ Len(s) = Len(stack) - 1 /\ Len(stack) - 1 \in 1 .. Len(stack) - 1
        /\ \A p \in 1 .. Len(stack) - 1 : Frm(s, p) = Frm(stack, p)
    BY <1>2, <1>3, Ends12
  <2>2. Len(s) > 0 /\ s \in Seq(Frames)
    BY <1>3, <2>1
  <2>3. F = Frm(s, Len(s)) /\ F \in Frames
    BY <2>2, Ends12
  <2> QED
    BY <2>1, <2>2, <2>3
<1>7. WasCalled(F, Top, d, t, cur) /\ Operands(F, d, t)
  <2>1. Len(stack) - 1 \in 1 .. Len(stack) - 1 /\ (Len(stack) - 1) + 1 = Len(stack)
        /\ Len(stack) - 1 \in 1 .. Len(stack)
    BY <1>3
  <2>2. Top = Frm(stack, Len(stack))
    BY <1>2, Ends12
  <2>3. /\ \A p \in 1 .. Len(stack) - 1 : WasCalled(Frm(stack, p), Frm(stack, p + 1), d, t, cur)
        /\ \A p \in 1 .. Len(stack) : Operands(Frm(stack, p), d, t)
    BY <1>2 DEF RanksOK
  <2> QED
    BY <1>6, <2>1, <2>2, <2>3
<1>8. stack' = <<G>> \o Tail(s)
  BY DEF Return, Deliver, Got
<1>9. n \in 1 .. Len(e) /\ (Top.fn \notin Hollow => Full(n, e)) /\ n \in Nat \ {0}
  BY <1>1 DEF Yields
<1>10. /\ G \in Frames /\ G.fn = F.fn /\ G.st = F.st /\ G.i = F.i /\ G.lo = F.lo /\ G.at = F.at
       /\ Len(G.kids) = Len(F.kids) + 1 /\ G.kids[Len(F.kids) + 1] = n /\ G.kids # <<>>
       /\ \A j \in 1 .. Len(F.kids) : G.kids[j] = F.kids[j]
       /\ Len(F.kids) \in Nat /\ F.kids \in Seq(Nat \ {0})
  <2>1. F \in Frames /\ n \in Nat \ {0} /\ G = Got(F, n)
    BY <1>6, <1>9
  <2> HIDE DEF F, G
  <2>2. Len(F.kids) \in Nat /\ F.kids \in Seq(Nat \ {0})
    BY <2>1, FrameFields
  <2>3. /\ Got(F, n) \in Frames /\ Got(F, n).fn = F.fn /\ Got(F, n).st = F.st
        /\ Got(F, n).i = F.i /\ Got(F, n).lo = F.lo /\ Got(F, n).at = F.at
        /\ Len(Got(F, n).kids) = Len(F.kids) + 1 /\ Got(F, n).kids[Len(F.kids) + 1] = n
        /\ Got(F, n).kids # <<>>
        /\ \A j \in 1 .. Len(F.kids) : Got(F, n).kids[j] = F.kids[j]
    BY <2>1, FrameGot
  <2> QED
    BY <2>1, <2>2, <2>3
<1>11. G.prec = F.prec
  BY <1>6 DEF Got, Frames
<1>12. F.lo \in Nat \ {0} /\ Top.lo \in Nat \ {0} /\ F.prec \in Nat /\ F.at \in Nat
  BY <1>2, <1>6, FrameNumbers
<1> HIDE DEF s, F, G
<1>13. Acting(G) <=> Acting(F)
  BY <1>10 DEF Acting
<1>14. Late(G) => G.lo < cur'
  <2>1. Late(F) => F.lo < Top.lo
    BY <1>7 DEF WasCalled
  <2> QED
    BY <1>2, <1>4, <1>10, <1>12, <2>1 DEF Late
<1>15. Operands(F, e, u)
  BY <1>1, <1>2, <1>7, <1>10, OperandsOn
<1>16. Operands(G, e, u)
  <2>1. \A k \in 1 .. Len(G.kids) :
           G.kids[k] \in 1 .. Len(e) /\ (G.fn \notin Scripts => Full(G.kids[k], e))
    <3>1. \A k \in 1 .. Len(G.kids) : k \in 1 .. Len(F.kids) \/ k = Len(F.kids) + 1
      BY <1>10
    <3>2. F.fn \notin Scripts => Full(n, e)
      BY <1>7, <1>9 DEF WasCalled
    <3>3. \A k \in 1 .. Len(F.kids) :
             F.kids[k] \in 1 .. Len(e) /\ (F.fn \notin Scripts => Full(F.kids[k], e))
      BY <1>15 DEF Operands
    <3> QED
      BY <1>9, <1>10, <3>1, <3>2, <3>3
  <2>2. Extending(G) /\ Len(G.kids) = 2 => Binary(G.kids[2], e)
    <3> SUFFICES ASSUME Extending(G), Len(G.kids) = 2 PROVE Binary(G.kids[2], e)
      OBVIOUS
    <3>1. Extending(F) /\ Acting(F)
      BY <1>10 DEF Extending, Acting
    <3>2. Prolongs(F, Top, d, t, cur) /\ Binds(t, F.at) >= F.prec
      BY <1>7, <3>1 DEF WasCalled, Operands
    <3>3. Binary(n, e)
      BY <1>6, <3>2 DEF Yields
    <3>4. Len(F.kids) + 1 = 2
      BY <1>10
    <3> QED
      BY <1>10, <3>3, <3>4
  <2> QED
    BY <1>10, <1>11, <1>13, <1>15, <2>1, <2>2 DEF Operands
<1>17. ASSUME NEW g, g.at \in 1 .. Len(t), Prolongs(g, F, d, t, cur)
       PROVE  Prolongs(g, G, e, u, cur')
  <2>1. F.fn = "binary" /\ F.kids # <<>> /\ F.prec = g.prec + 1 /\ F.lo = g.at + 1
    BY <1>17 DEF Prolongs
  <2>2. Acting(F)
    BY <1>7, <2>1 DEF WasCalled
  <2>3. F.at \in 1 .. Len(t)
    BY <1>7, <2>2 DEF Operands
  <2>4. Binds(u, F.at) = Binds(t, F.at) /\ Binds(u, g.at) = Binds(t, g.at)
    BY <1>1, <1>17, <2>3 DEF Longer, Binds
  <2>5. 1 \in 1 .. Len(F.kids)
    BY <1>10, <2>1
  <2>6. F.kids[1] \in 1 .. Len(d) /\ G.kids[1] = F.kids[1]
    BY <1>7, <1>10, <2>5 DEF Operands
  <2>7. Binary(F.kids[1], d) <=> Binary(G.kids[1], e)
    BY <1>1, <2>6 DEF Extends, Binary
  <2> QED
    BY <1>10, <1>11, <1>13, <1>17, <2>1, <2>2, <2>4, <2>7 DEF Prolongs
<1>18. Replaces(G, F, d, e, t, u, cur, cur')
  <2>1. Follows(F, G)
    BY <1>10, <1>12 DEF Follows
  <2> QED
    BY <1>10, <1>14, <1>16, <1>17, <2>1 DEF Replaces
<1>19. /\ \A p \in 1 .. Len(s) - 1 : Operands(Frm(s, p), e, u)
       /\ Ranked(e, u)
  <2>1. ASSUME NEW p \in 1 .. Len(s) - 1 PROVE Operands(Frm(s, p), e, u)
    <3>1. p \in 1 .. Len(s) /\ Frm(s, p) \in Frames
      BY <1>3, <1>6, Ends12
    <3>2. Operands(Frm(s, p), d, t) /\ Frm(s, p).kids \in Seq(Nat \ {0})
      BY <1>5, <3>1, FrameFields DEF RanksOK
    <3> QED
      BY <1>1, <1>2, <3>2, OperandsOn
  <2> QED
    BY <1>1, <1>2, <2>1, RankedOn
<1>20. RanksOK(<<G>> \o Tail(s), e, u, cur')
  <2>1. Replaces(G, Head(s), d, e, t, u, cur, cur')
    BY <1>18 DEF F
  <2> QED
    BY <1>1, <1>5, <1>6, <1>10, <1>19, <2>1, RanksReplace
<1> QED
  BY <1>8, <1>20 DEF Ranks

\* It returns nothing.
LEMMA RanksReturnNone ==
    ASSUME PInv, Ranks, Top.fn # "unit", Stay, UNCHANGED nodes, ReturnNothing
    PROVE  Ranks'
<1>1. /\ Top = Head(stack) /\ stack \in Seq(Frames) /\ Len(stack) > 0 /\ cur \in Nat
      /\ RanksOK(stack, nodes, toks, cur) /\ Rest = Tail(stack)
  BY RanksTop
<1>2. Len(stack) > 1
  BY NotAlone
<1>3. Top.lo <= cur /\ Len(nodes) \in Nat
  BY TopFacts
<1>4. Longer(toks, toks)
  BY GoesWider DEF Going
<1>5. RanksOK(Tail(stack), nodes, toks, cur)
  BY <1>1, <1>2, <1>3, <1>4, RanksDrop
<1> QED
  BY <1>1, <1>5 DEF Ranks, ReturnNothing, Stay

-----------------------------------------------------------------------------
(* The functions without loops: which of them call before they take a      *)
(* token.                                                                  *)

Early(fn) == IF fn \in {"spec", "init", "case"} THEN 2 ELSE 1

\* How a script begins.
Begins(fn) ==
    /\ Len(Script[fn]) \in Nat /\ Len(Script[fn]) > Early(fn)
    /\ fn \notin {"spec", "init", "case"} => Script[fn][1].do = "eat"
    /\ fn \in {"spec", "init", "case"} =>
          /\ Script[fn][1].do = "call" /\ Script[fn][2].do = "eat"
          /\ fn \in {"spec", "init"} => Script[fn][1].fn = "type"

\* All do so.
LEMMA Beginnings ==
    ASSUME NEW fn \in Scripts
    PROVE  Begins(fn)
<1>1. fn = "paren" => Begins(fn)
  <2> SUFFICES ASSUME fn = "paren" PROVE Begins(fn)
    OBVIOUS
  <2>1. Len(ParenScript) = 3 /\ ParenScript[1].do = "eat"
    BY DEF ParenScript, Eat
  <2>2. Script[fn] = ParenScript
    BY DEF Script
  <2>3. Early(fn) = 1
    BY DEF Early
  <2>4. Script[fn][1].do = "eat"
    BY <2>1, <2>2
  <2>5. Len(Script[fn]) = 3
    BY <2>1, <2>2
  <2>6. fn \notin {"spec", "init", "case"}
    OBVIOUS
  <2> QED
    BY <2>3, <2>4, <2>5, <2>6 DEF Begins
<1>2. fn = "cast" => Begins(fn)
  <2> SUFFICES ASSUME fn = "cast" PROVE Begins(fn)
    OBVIOUS
  <2>1. Len(CastScript) = 5 /\ CastScript[1].do = "eat"
    BY DEF CastScript, Eat
  <2>2. Script[fn] = CastScript
    BY DEF Script
  <2>3. Early(fn) = 1
    BY DEF Early
  <2>4. Script[fn][1].do = "eat"
    BY <2>1, <2>2
  <2>5. Len(Script[fn]) = 5
    BY <2>1, <2>2
  <2>6. fn \notin {"spec", "init", "case"}
    OBVIOUS
  <2> QED
    BY <2>3, <2>4, <2>5, <2>6 DEF Begins
<1>3. fn = "sizeof" => Begins(fn)
  <2> SUFFICES ASSUME fn = "sizeof" PROVE Begins(fn)
    OBVIOUS
  <2>1. Len(SizeofScript) = 4 /\ SizeofScript[1].do = "eat"
    BY DEF SizeofScript, Eat
  <2>2. Script[fn] = SizeofScript
    BY DEF Script
  <2>3. Early(fn) = 1
    BY DEF Early
  <2>4. Script[fn][1].do = "eat"
    BY <2>1, <2>2
  <2>5. Len(Script[fn]) = 4
    BY <2>1, <2>2
  <2>6. fn \notin {"spec", "init", "case"}
    OBVIOUS
  <2> QED
    BY <2>3, <2>4, <2>5, <2>6 DEF Begins
<1>4. fn = "array" => Begins(fn)
  <2> SUFFICES ASSUME fn = "array" PROVE Begins(fn)
    OBVIOUS
  <2>1. Len(ArrayScript) = 3 /\ ArrayScript[1].do = "eat"
    BY DEF ArrayScript, Eat
  <2>2. Script[fn] = ArrayScript
    BY DEF Script
  <2>3. Early(fn) = 1
    BY DEF Early
  <2>4. Script[fn][1].do = "eat"
    BY <2>1, <2>2
  <2>5. Len(Script[fn]) = 3
    BY <2>1, <2>2
  <2>6. fn \notin {"spec", "init", "case"}
    OBVIOUS
  <2> QED
    BY <2>3, <2>4, <2>5, <2>6 DEF Begins
<1>5. fn = "call" => Begins(fn)
  <2> SUFFICES ASSUME fn = "call" PROVE Begins(fn)
    OBVIOUS
  <2>1. Len(CallScript) = 8 /\ CallScript[1].do = "eat"
    BY DEF CallScript, Eat
  <2>2. Script[fn] = CallScript
    BY DEF Script
  <2>3. Early(fn) = 1
    BY DEF Early
  <2>4. Script[fn][1].do = "eat"
    BY <2>1, <2>2
  <2>5. Len(Script[fn]) = 8
    BY <2>1, <2>2
  <2>6. fn \notin {"spec", "init", "case"}
    OBVIOUS
  <2> QED
    BY <2>3, <2>4, <2>5, <2>6 DEF Begins
<1>6. fn = "usespec" => Begins(fn)
  <2> SUFFICES ASSUME fn = "usespec" PROVE Begins(fn)
    OBVIOUS
  <2>1. Len(UseSpecScript) = 3 /\ UseSpecScript[1].do = "eat"
    BY DEF UseSpecScript, Eat
  <2>2. Script[fn] = UseSpecScript
    BY DEF Script
  <2>3. Early(fn) = 1
    BY DEF Early
  <2>4. Script[fn][1].do = "eat"
    BY <2>1, <2>2
  <2>5. Len(Script[fn]) = 3
    BY <2>1, <2>2
  <2>6. fn \notin {"spec", "init", "case"}
    OBVIOUS
  <2> QED
    BY <2>3, <2>4, <2>5, <2>6 DEF Begins
<1>7. fn = "spec" => Begins(fn)
  <2> SUFFICES ASSUME fn = "spec" PROVE Begins(fn)
    OBVIOUS
  <2>1. Len(SpecScript) = 3 /\ SpecScript[1] = Do("type") /\ SpecScript[2].do = "eat"
    BY DEF SpecScript, Eat
  <2>2. Script[fn] = SpecScript /\ Do("type").do = "call" /\ Do("type").fn = "type"
    BY DEF Script, Do
  <2>3. Early(fn) = 2
    BY DEF Early
  <2>4. Script[fn][1].do = "call" /\ Script[fn][2].do = "eat" /\ Script[fn][1].fn = "type"
    BY <2>1, <2>2
  <2>5. Len(Script[fn]) = 3
    BY <2>1, <2>2
  <2>6. fn \in {"spec", "init", "case"}
    OBVIOUS
  <2> QED
    BY <2>3, <2>4, <2>5, <2>6 DEF Begins
<1>8. fn = "init" => Begins(fn)
  <2> SUFFICES ASSUME fn = "init" PROVE Begins(fn)
    OBVIOUS
  <2>1. Len(InitScript) = 4 /\ InitScript[1] = Do("type") /\ InitScript[2].do = "eat"
    BY DEF InitScript, Eat
  <2>2. Script[fn] = InitScript /\ Do("type").do = "call" /\ Do("type").fn = "type"
    BY DEF Script, Do
  <2>3. Early(fn) = 2
    BY DEF Early
  <2>4. Script[fn][1].do = "call" /\ Script[fn][2].do = "eat" /\ Script[fn][1].fn = "type"
    BY <2>1, <2>2
  <2>5. Len(Script[fn]) = 4
    BY <2>1, <2>2
  <2>6. fn \in {"spec", "init", "case"}
    OBVIOUS
  <2> QED
    BY <2>3, <2>4, <2>5, <2>6 DEF Begins
<1>9. fn = "field" => Begins(fn)
  <2> SUFFICES ASSUME fn = "field" PROVE Begins(fn)
    OBVIOUS
  <2>1. Len(FieldScript) = 3 /\ FieldScript[1].do = "eat"
    BY DEF FieldScript, Eat
  <2>2. Script[fn] = FieldScript
    BY DEF Script
  <2>3. Early(fn) = 1
    BY DEF Early
  <2>4. Script[fn][1].do = "eat"
    BY <2>1, <2>2
  <2>5. Len(Script[fn]) = 3
    BY <2>1, <2>2
  <2>6. fn \notin {"spec", "init", "case"}
    OBVIOUS
  <2> QED
    BY <2>3, <2>4, <2>5, <2>6 DEF Begins
<1>10. fn = "rune" => Begins(fn)
  <2> SUFFICES ASSUME fn = "rune" PROVE Begins(fn)
    OBVIOUS
  <2>1. Len(RuneScript) = 8 /\ RuneScript[1].do = "eat"
    BY DEF RuneScript, Eat
  <2>2. Script[fn] = RuneScript
    BY DEF Script
  <2>3. Early(fn) = 1
    BY DEF Early
  <2>4. Script[fn][1].do = "eat"
    BY <2>1, <2>2
  <2>5. Len(Script[fn]) = 8
    BY <2>1, <2>2
  <2>6. fn \notin {"spec", "init", "case"}
    OBVIOUS
  <2> QED
    BY <2>3, <2>4, <2>5, <2>6 DEF Begins
<1>11. fn = "index" => Begins(fn)
  <2> SUFFICES ASSUME fn = "index" PROVE Begins(fn)
    OBVIOUS
  <2>1. Len(IndexScript) = 3 /\ IndexScript[1].do = "eat"
    BY DEF IndexScript, Eat
  <2>2. Script[fn] = IndexScript
    BY DEF Script
  <2>3. Early(fn) = 1
    BY DEF Early
  <2>4. Script[fn][1].do = "eat"
    BY <2>1, <2>2
  <2>5. Len(Script[fn]) = 3
    BY <2>1, <2>2
  <2>6. fn \notin {"spec", "init", "case"}
    OBVIOUS
  <2> QED
    BY <2>3, <2>4, <2>5, <2>6 DEF Begins
<1>12. fn = "member" => Begins(fn)
  <2> SUFFICES ASSUME fn = "member" PROVE Begins(fn)
    OBVIOUS
  <2>1. Len(MemberScript) = 10 /\ MemberScript[1].do = "eat"
    BY DEF MemberScript, Eat
  <2>2. Script[fn] = MemberScript
    BY DEF Script
  <2>3. Early(fn) = 1
    BY DEF Early
  <2>4. Script[fn][1].do = "eat"
    BY <2>1, <2>2
  <2>5. Len(Script[fn]) = 10
    BY <2>1, <2>2
  <2>6. fn \notin {"spec", "init", "case"}
    OBVIOUS
  <2> QED
    BY <2>3, <2>4, <2>5, <2>6 DEF Begins
<1>13. fn = "type" => Begins(fn)
  <2> SUFFICES ASSUME fn = "type" PROVE Begins(fn)
    OBVIOUS
  <2>1. Len(TypeScript) = 9 /\ TypeScript[1].do = "eat"
    BY DEF TypeScript, Eat
  <2>2. Script[fn] = TypeScript
    BY DEF Script
  <2>3. Early(fn) = 1
    BY DEF Early
  <2>4. Script[fn][1].do = "eat"
    BY <2>1, <2>2
  <2>5. Len(Script[fn]) = 9
    BY <2>1, <2>2
  <2>6. fn \notin {"spec", "init", "case"}
    OBVIOUS
  <2> QED
    BY <2>3, <2>4, <2>5, <2>6 DEF Begins
<1>14. fn = "typename" => Begins(fn)
  <2> SUFFICES ASSUME fn = "typename" PROVE Begins(fn)
    OBVIOUS
  <2>1. Len(TypeNameScript) = 10 /\ TypeNameScript[1].do = "eat"
    BY DEF TypeNameScript, Eat
  <2>2. Script[fn] = TypeNameScript
    BY DEF Script
  <2>3. Early(fn) = 1
    BY DEF Early
  <2>4. Script[fn][1].do = "eat"
    BY <2>1, <2>2
  <2>5. Len(Script[fn]) = 10
    BY <2>1, <2>2
  <2>6. fn \notin {"spec", "init", "case"}
    OBVIOUS
  <2> QED
    BY <2>3, <2>4, <2>5, <2>6 DEF Begins
<1>15. fn = "bound" => Begins(fn)
  <2> SUFFICES ASSUME fn = "bound" PROVE Begins(fn)
    OBVIOUS
  <2>1. Len(BoundScript) = 3 /\ BoundScript[1].do = "eat"
    BY DEF BoundScript, Eat
  <2>2. Script[fn] = BoundScript
    BY DEF Script
  <2>3. Early(fn) = 1
    BY DEF Early
  <2>4. Script[fn][1].do = "eat"
    BY <2>1, <2>2
  <2>5. Len(Script[fn]) = 3
    BY <2>1, <2>2
  <2>6. fn \notin {"spec", "init", "case"}
    OBVIOUS
  <2> QED
    BY <2>3, <2>4, <2>5, <2>6 DEF Begins
<1>16. fn = "break" => Begins(fn)
  <2> SUFFICES ASSUME fn = "break" PROVE Begins(fn)
    OBVIOUS
  <2>1. Len(BreakScript) = 2 /\ BreakScript[1].do = "eat"
    BY DEF BreakScript, Eat
  <2>2. Script[fn] = BreakScript
    BY DEF Script
  <2>3. Early(fn) = 1
    BY DEF Early
  <2>4. Script[fn][1].do = "eat"
    BY <2>1, <2>2
  <2>5. Len(Script[fn]) = 2
    BY <2>1, <2>2
  <2>6. fn \notin {"spec", "init", "case"}
    OBVIOUS
  <2> QED
    BY <2>3, <2>4, <2>5, <2>6 DEF Begins
<1>17. fn = "if" => Begins(fn)
  <2> SUFFICES ASSUME fn = "if" PROVE Begins(fn)
    OBVIOUS
  <2>1. Len(IfScript) = 6 /\ IfScript[1].do = "eat"
    BY DEF IfScript, Eat
  <2>2. Script[fn] = IfScript
    BY DEF Script
  <2>3. Early(fn) = 1
    BY DEF Early
  <2>4. Script[fn][1].do = "eat"
    BY <2>1, <2>2
  <2>5. Len(Script[fn]) = 6
    BY <2>1, <2>2
  <2>6. fn \notin {"spec", "init", "case"}
    OBVIOUS
  <2> QED
    BY <2>3, <2>4, <2>5, <2>6 DEF Begins
<1>18. fn = "match" => Begins(fn)
  <2> SUFFICES ASSUME fn = "match" PROVE Begins(fn)
    OBVIOUS
  <2>1. Len(MatchScript) = 5 /\ MatchScript[1].do = "eat"
    BY DEF MatchScript, Eat
  <2>2. Script[fn] = MatchScript
    BY DEF Script
  <2>3. Early(fn) = 1
    BY DEF Early
  <2>4. Script[fn][1].do = "eat"
    BY <2>1, <2>2
  <2>5. Len(Script[fn]) = 5
    BY <2>1, <2>2
  <2>6. fn \notin {"spec", "init", "case"}
    OBVIOUS
  <2> QED
    BY <2>3, <2>4, <2>5, <2>6 DEF Begins
<1>19. fn = "case" => Begins(fn)
  <2> SUFFICES ASSUME fn = "case" PROVE Begins(fn)
    OBVIOUS
  <2>1. Len(CaseScript) = 3 /\ CaseScript[1].do = "call" /\ CaseScript[2].do = "eat"
    BY DEF CaseScript, Eat, Do
  <2>2. Script[fn] = CaseScript
    BY DEF Script
  <2>3. Early(fn) = 2
    BY DEF Early
  <2>4. Script[fn][1].do = "call" /\ Script[fn][2].do = "eat"
    BY <2>1, <2>2
  <2>5. Len(Script[fn]) = 3
    BY <2>1, <2>2
  <2>6. fn \in {"spec", "init", "case"} /\ fn \notin {"spec", "init"}
    OBVIOUS
  <2> QED
    BY <2>3, <2>4, <2>5, <2>6 DEF Begins
<1>20. fn = "default" => Begins(fn)
  <2> SUFFICES ASSUME fn = "default" PROVE Begins(fn)
    OBVIOUS
  <2>1. Len(DefaultScript) = 3 /\ DefaultScript[1].do = "eat"
    BY DEF DefaultScript, Eat
  <2>2. Script[fn] = DefaultScript
    BY DEF Script
  <2>3. Early(fn) = 1
    BY DEF Early
  <2>4. Script[fn][1].do = "eat"
    BY <2>1, <2>2
  <2>5. Len(Script[fn]) = 3
    BY <2>1, <2>2
  <2>6. fn \notin {"spec", "init", "case"}
    OBVIOUS
  <2> QED
    BY <2>3, <2>4, <2>5, <2>6 DEF Begins
<1>21. fn = "ret" => Begins(fn)
  <2> SUFFICES ASSUME fn = "ret" PROVE Begins(fn)
    OBVIOUS
  <2>1. Len(RetScript) = 4 /\ RetScript[1].do = "eat"
    BY DEF RetScript, Eat
  <2>2. Script[fn] = RetScript
    BY DEF Script
  <2>3. Early(fn) = 1
    BY DEF Early
  <2>4. Script[fn][1].do = "eat"
    BY <2>1, <2>2
  <2>5. Len(Script[fn]) = 4
    BY <2>1, <2>2
  <2>6. fn \notin {"spec", "init", "case"}
    OBVIOUS
  <2> QED
    BY <2>3, <2>4, <2>5, <2>6 DEF Begins
<1>22. fn = "until" => Begins(fn)
  <2> SUFFICES ASSUME fn = "until" PROVE Begins(fn)
    OBVIOUS
  <2>1. Len(UntilScript) = 3 /\ UntilScript[1].do = "eat"
    BY DEF UntilScript, Eat
  <2>2. Script[fn] = UntilScript
    BY DEF Script
  <2>3. Early(fn) = 1
    BY DEF Early
  <2>4. Script[fn][1].do = "eat"
    BY <2>1, <2>2
  <2>5. Len(Script[fn]) = 3
    BY <2>1, <2>2
  <2>6. fn \notin {"spec", "init", "case"}
    OBVIOUS
  <2> QED
    BY <2>3, <2>4, <2>5, <2>6 DEF Begins
<1>23. fn = "var" => Begins(fn)
  <2> SUFFICES ASSUME fn = "var" PROVE Begins(fn)
    OBVIOUS
  <2>1. Len(VarScript) = 12 /\ VarScript[1].do = "eat"
    BY DEF VarScript, Eat
  <2>2. Script[fn] = VarScript
    BY DEF Script
  <2>3. Early(fn) = 1
    BY DEF Early
  <2>4. Script[fn][1].do = "eat"
    BY <2>1, <2>2
  <2>5. Len(Script[fn]) = 12
    BY <2>1, <2>2
  <2>6. fn \notin {"spec", "init", "case"}
    OBVIOUS
  <2> QED
    BY <2>3, <2>4, <2>5, <2>6 DEF Begins
<1> QED
  BY <1>1, <1>2, <1>3, <1>4, <1>5, <1>6, <1>7, <1>8, <1>9, <1>10,
     <1>11, <1>12, <1>13, <1>14, <1>15, <1>16, <1>17, <1>18, <1>19, <1>20,
     <1>21, <1>22, <1>23 DEF Scripts

\* One that runs: it has taken a token, is at one that it takes, or calls at once.
LEMMA EarlyScript ==
    ASSUME PInv, Ranks, Scripted
    PROVE  /\ Late(Top) => Top.lo < cur
           /\ Late(Top) <=> Top.i > Early(Top.fn)
           /\ Ended => Top.lo < cur
           /\ ~Ended /\ Element.do # "eat" =>
                 \/ Late(Top)
                 \/ /\ Top.i = 1 /\ Element.do = "call"
                    /\ \/ Top.fn \in {"spec", "init"} /\ Element.fn = "type"
                       \/ Top.fn = "case"
<1>1. Top.fn \in Scripts /\ Top.i \in Nat \ {0}
  BY ScriptTop
<1>2. Begins(Top.fn) /\ (Late(Top) => Top.lo < cur)
  BY <1>1, Beginnings, RanksTop
<1>3. Late(Top) <=> Top.i > Early(Top.fn)
  BY <1>1 DEF Late, Early
<1>4. Ended => Top.i > Early(Top.fn)
  <2>1. Early(Top.fn) \in Nat /\ Len(Script[Top.fn]) \in Nat /\ Len(Script[Top.fn]) > Early(Top.fn)
    BY <1>2 DEF Begins, Early
  <2> QED
    BY <1>1, <2>1 DEF Ended
<1>5. ASSUME ~Ended, Element.do # "eat", ~Late(Top)
      PROVE  /\ Top.i = 1 /\ Element.do = "call"
             /\ \/ Top.fn \in {"spec", "init"} /\ Element.fn = "type"
                \/ Top.fn = "case"
  <2>1. Element = Script[Top.fn][Top.i]
    BY DEF Element
  <2>2. Top.i = 1 \/ (Top.i = 2 /\ Top.fn \in {"spec", "init", "case"})
    BY <1>1, <1>3, <1>5 DEF Early
  <2> QED
    BY <1>2, <1>5, <2>1, <2>2 DEF Begins
<1> QED
  BY <1>2, <1>3, <1>4, <1>5

-----------------------------------------------------------------------------
(* What the steps of the functions other than parse_binary have in common. *)

\* No operator was read at the last token, or after it.
LEMMA NoOperatorAt ==
    ASSUME PInv, Ranks, NEW m \in 1 .. Len(nodes), Binary(m, nodes)
    PROVE  nodes[m].at < cur - 1 /\ nodes[m].at \in Nat /\ nodes[m].hi < cur
<1>1. Ranked(nodes, toks) /\ cur \in Nat
  BY RanksTop
<1>2. nodes[m].at < nodes[m].hi
  BY <1>1 DEF Ranked
<1>3. nodes[m].hi < cur
  BY NodesBefore
<1>4. nodes \in Seq(NodeSet)
  BY TopFacts
<1>5. nodes[m].at \in Nat /\ nodes[m].hi \in Nat
  BY <1>4, NodeFields
<1> QED
  BY <1>1, <1>2, <1>3, <1>5

\* A function that goes on with what it has
LEMMA GoesOnAs ==
    ASSUME Going, NEW f \in Frames, Top.fn # "binary",
           f.fn = Top.fn, f.lo = Top.lo, f.kids = Top.kids, Late(f) => f.lo < cur'
    PROVE  Replaces(f, Top, nodes, nodes', toks, toks', cur, cur')
<1>1. /\ Wider(nodes, nodes') /\ Longer(toks, toks')
  BY GoesWider
<1>2. /\ Ranked(nodes, toks) /\ Operands(Top, nodes, toks) /\ Top.kids \in Seq(Nat \ {0})
      /\ Top \in Frames
  BY RanksTop DEF Going
<1>3. Operands(Top, nodes', toks')
  BY <1>1, <1>2, OperandsOn
<1>4. Operands(f, nodes', toks')
  BY <1>3 DEF Operands, Acting, Extending
<1>5. Top.lo \in Nat
  BY <1>2, FrameNumbers
<1>6. Follows(Top, f)
  BY <1>5 DEF Follows
<1>7. \A g : ~Prolongs(g, Top, nodes, toks, cur)
  BY DEF Prolongs
<1>8. f.fn \in Hollow => Top.fn \in Hollow
  OBVIOUS
<1> QED
  BY <1>4, <1>6, <1>7, <1>8 DEF Replaces

\* A function in whose place another one begins
LEMMA GoesOnWith ==
    ASSUME Going, NEW f \in Frames, Top.fn # "binary", f.fn # "binary",
           f.i = 1, f.kids = <<>>, Top.lo <= f.lo, f.fn \notin Hollow,
           f.fn \in Wide => Top.fn \in Wide
    PROVE  Replaces(f, Top, nodes, nodes', toks, toks', cur, cur')
<1>1. Follows(Top, f)
  BY DEF Follows
<1>2. ~Late(f)
  BY DEF Late
<1>3. Len(f.kids) = 0
  OBVIOUS
<1>4. Operands(f, nodes', toks')
  BY <1>3 DEF Operands, Acting, Extending
<1>5. \A g : ~Prolongs(g, Top, nodes, toks, cur)
  BY DEF Prolongs
<1> QED
  BY <1>1, <1>2, <1>4, <1>5 DEF Replaces

\* A function that f calls, which has nothing yet
LEMMA BeginsUnder ==
    ASSUME NEW f \in Frames, NEW a \in Frames, NEW d, NEW t, NEW c,
           f.fn # "binary", a.fn # "binary", a.kids = <<>>, a.i = 1,
           f.lo <= a.lo, a.fn \in Wide /\ a.lo = f.lo => f.fn \in Wide,
           Late(f) => f.lo < a.lo, a.fn \in Hollow => f.fn \in Scripts
    PROVE  MayCall(f, a, d, t, c)
<1>1. Follows(f, a)
  BY DEF Follows
<1>2. ~Late(a) /\ ~Acting(f) /\ ~Extending(f)
  BY DEF Late, Acting, Extending
<1>3. Len(a.kids) = 0
  OBVIOUS
<1>4. Operands(a, d, t)
  BY <1>3 DEF Operands, Acting, Extending
<1>5. WasCalled(f, a, d, t, c)
  BY <1>2 DEF WasCalled
<1> QED
  BY <1>1, <1>2, <1>4, <1>5 DEF MayCall

\* parse_binary begins, and its first operand with it.
LEMMA FirstOperand ==
    ASSUME PInv, Ranks, Stay, UNCHANGED nodes
    PROVE  LET a == Frame("prefix", "start", cur, <<>>)
               b == Frame("binary", "loop", cur, <<>>)
           IN  /\ a \in Frames /\ b \in Frames
               /\ b.fn = "binary" /\ b.lo = cur /\ b.kids = <<>> /\ b.i = 1 /\ b.st = "loop"
               /\ Operands(b, nodes', toks')
               /\ MayCall(b, a, nodes', toks', cur')
<1> DEFINE a == Frame("prefix", "start", cur, <<>>)
           b == Frame("binary", "loop", cur, <<>>)
<1>1. cur \in Nat \ {0} /\ nodes' = nodes /\ toks' = toks /\ cur' = cur
  BY RanksTop DEF Stay
<1>2. "binary" \in Functions /\ "prefix" \in Functions /\ "loop" \in States /\ "start" \in States
  BY Named DEF States
<1>3. a \in Frames /\ a.fn = "prefix" /\ a.lo = cur /\ a.kids = <<>>
  BY <1>1, <1>2, NewEmpty
<1>4. b \in Frames /\ b.fn = "binary" /\ b.st = "loop" /\ b.lo = cur /\ b.kids = <<>>
  BY <1>1, <1>2, NewEmpty
<1>5. a.i = 1 /\ b.i = 1
  BY DEF Frame
<1> HIDE DEF a, b
<1>6. ~Acting(b) /\ ~Extending(b) /\ ~Late(b) /\ ~Late(a) /\ Len(b.kids) = 0 /\ Len(a.kids) = 0
  BY <1>3, <1>4, <1>5 DEF Acting, Extending, Late, Scripts
<1>7. \A m \in 1 .. Len(nodes) : Binary(m, nodes) => nodes[m].at # b.lo - 1
  <2> TAKE m \in 1 .. Len(nodes)
  <2> HAVE Binary(m, nodes)
  <2>1. nodes[m].at < cur - 1 /\ nodes[m].at \in Nat
    BY NoOperatorAt
  <2> QED
    BY <1>1, <1>4, <2>1
<1>8. Operands(b, nodes', toks')
  BY <1>1, <1>6, <1>7 DEF Operands
<1>9. Operands(a, nodes', toks')
  BY <1>3, <1>6 DEF Operands, Acting, Extending
<1>10. Follows(b, a)
  BY <1>1, <1>3, <1>4 DEF Follows, Wide, ListNames
<1>11. WasCalled(b, a, nodes', toks', cur')
  BY <1>3, <1>4, <1>6 DEF WasCalled, Hollow, ListNames
<1>12. MayCall(b, a, nodes', toks', cur')
  BY <1>4, <1>6, <1>9, <1>10, <1>11 DEF MayCall
<1> QED
  BY <1>3, <1>4, <1>5, <1>8, <1>12 DEF a, b

\* The function on top goes on as f, and another one begins.
LEMMA RanksCalls ==
    ASSUME PInv, Ranks, Stay, UNCHANGED nodes, NEW f \in Frames, NEW fn \in Calling,
           Call(f, fn), Top.fn # "binary", f.fn # "binary", f.lo <= cur,
           Replaces(f, Top, nodes, nodes', toks, toks', cur, cur'),
           Late(f) => f.lo < cur,
           fn \in Wide \cup {"expr"} /\ f.lo = cur => f.fn \in Wide,
           fn \in Hollow => f.fn \in Scripts
    PROVE  Ranks'
<1>1. Going /\ cur \in Nat \ {0}
  BY RanksTop DEF Going
<1>2. f.lo \in Nat
  BY FrameNumbers
<1>3. CASE fn # "expr"
  <2>1. PICK st \in States : Callee(fn, cur) = <<Frame(fn, st, cur, <<>>)>>
    BY <1>3, CalleeIs
  <2> DEFINE a == Frame(fn, st, cur, <<>>)
  <2>2. fn \in Functions /\ fn # "binary"
    BY <1>3, Named DEF Calling, Callable, Scripts, ListNames
  <2>3. a \in Frames /\ a.fn = fn /\ a.lo = cur /\ a.kids = <<>>
    BY <1>1, <2>2, NewEmpty
  <2>4. a.i = 1
    BY DEF Frame
  <2>5. stack' = <<a>> \o <<f>> \o Rest
    BY <2>1 DEF Call
  <2> HIDE DEF a
  <2>6. <<a>> \o <<f>> = <<a, f>>
    BY <2>3, TwoFrames
  <2>7. MayCall(f, a, nodes', toks', cur')
    <3>1. f.lo <= a.lo
      BY <2>3
    <3>2. a.fn \in Wide /\ a.lo = f.lo => f.fn \in Wide
      BY <2>3
    <3>3. Late(f) => f.lo < a.lo
      BY <2>3
    <3>4. a.fn \in Hollow => f.fn \in Scripts
      BY <2>3
    <3> QED
      BY <2>2, <2>3, <2>4, <3>1, <3>2, <3>3, <3>4, BeginsUnder
  <2>8. RanksOK(<<a, f>> \o Rest, nodes', toks', cur')
    BY <1>1, <2>3, <2>7, RanksPushes
  <2> QED
    BY <2>5, <2>6, <2>8 DEF Ranks
<1>4. CASE fn = "expr"
  <2> DEFINE a == Frame("prefix", "start", cur, <<>>)
             b == Frame("binary", "loop", cur, <<>>)
  <2>1. /\ a \in Frames /\ b \in Frames
        /\ b.fn = "binary" /\ b.lo = cur /\ b.kids = <<>> /\ b.i = 1 /\ b.st = "loop"
        /\ Operands(b, nodes', toks')
        /\ MayCall(b, a, nodes', toks', cur')
    BY FirstOperand
  <2>2. stack' = (<<a, b>> \o <<f>>) \o Rest
    <3>1. Callee(fn, cur) = <<a, b>>
      BY <1>4 DEF Callee, Lists
    <3> QED
      BY <3>1 DEF Call
  <2> HIDE DEF a, b
  <2>4. ~Late(b) /\ ~Acting(f) /\ ~Extending(f) /\ b.fn \notin Hollow
    BY <2>1 DEF Late, Acting, Extending, Hollow, Scripts, ListNames
  <2>5. MayCall(f, b, nodes', toks', cur')
    <3>1. Follows(f, b)
      BY <1>4, <2>1 DEF Follows
    <3>2. WasCalled(f, b, nodes', toks', cur')
      BY <2>1, <2>4 DEF WasCalled
    <3> QED
      BY <2>1, <2>4, <3>1, <3>2 DEF MayCall
  <2> DEFINE v == <<b, f>> \o Rest
  <2>6. RanksOK(v, nodes', toks', cur')
    BY <1>1, <2>1, <2>5, RanksPushes
  <2>7. Rest \in Seq(Frames) /\ Longer(toks', toks') /\ Len(nodes') \in Nat
    BY <1>1, TopOver, GoesWider
  <2>8. v \in Seq(Frames) /\ Len(v) > 0 /\ Head(v) = b
    BY <2>1, <2>7
  <2>9. stack' = <<a>> \o v
    <3> DEFINE w == <<f>> \o Rest
    <3>1. <<a, b>> \in Seq(Frames) /\ <<f>> \in Seq(Frames) /\ w \in Seq(Frames)
      BY <2>1, <2>7
    <3>2. (<<a, b>> \o <<f>>) \o Rest = <<a, b>> \o w
      BY <2>7, <3>1, ConcatAssociative
    <3>3. <<b, f>> \o Rest = <<b>> \o w
      BY <2>7, TwoOnTop
    <3> HIDE DEF w
    <3>4. <<a, b>> \o w = <<a>> \o (<<b>> \o w)
      BY <3>1, TwoOnTop
    <3> QED
      BY <2>2, <3>2, <3>3, <3>4
  <2> HIDE DEF v
  <2>10. MayCall(Head(v), a, nodes', toks', cur')
    BY <2>1, <2>8
  <2>11. RanksOK(<<a>> \o v, nodes', toks', cur')
    BY <2>1, <2>6, <2>7, <2>8, <2>10, RanksPush
  <2> QED
    BY <2>9, <2>11 DEF Ranks
<1> QED
  BY <1>3, <1>4

\* It goes on.
LEMMA RanksGoOn ==
    ASSUME Going, NEW f \in Frames, Become(f),
           Replaces(f, Top, nodes, nodes', toks, toks', cur, cur')
    PROVE  Ranks'
BY RanksBecome DEF Ranks, Become

\* It stays as it is.
LEMMA RanksStays ==
    ASSUME Going, UNCHANGED stack, Top.fn # "binary", Top.fn \notin Scripts
    PROVE  Ranks'
<1>1. Top \in Frames /\ stack \in Seq(Frames) /\ Len(stack) > 0
  BY RanksTop DEF Going
<1>2. ~Late(Top)
  BY DEF Late
<1>3. Replaces(Top, Top, nodes, nodes', toks, toks', cur, cur')
  BY <1>1, <1>2, GoesOnAs
<1>4. Become(Top)
  BY <1>1 DEF Become, Top, Rest
<1> QED
  BY <1>1, <1>3, <1>4, RanksGoOn

\* It starts another one.
LEMMA RanksStarts ==
    ASSUME Going, NEW a \in Frames, NEW f \in Frames, stack' = <<a, f>> \o Rest,
           Replaces(f, Top, nodes, nodes', toks, toks', cur, cur'),
           MayCall(f, a, nodes', toks', cur')
    PROVE  Ranks'
BY RanksPushes DEF Ranks

\* It returns a node that it makes.
LEMMA RanksReturnMade ==
    ASSUME PInv, Ranks, Stay \/ Advance, Top.fn \notin {"unit", "binary"},
           NEW tag, tag # "bin", NEW at, NEW hi, NEW kids,
           Make(tag, at, Top.lo, hi, kids), Return(New),
           Top.fn \notin Hollow => Top.lo <= hi
    PROVE  Ranks'
<1>1. Going
  BY DEF Going
<1>2. cur \in Nat /\ nodes \in Seq(NodeSet)
  BY RanksTop, TopFacts
<1>3. cur' \in Nat /\ cur <= cur'
  BY <1>2 DEF Stay, Advance
<1> DEFINE x == Node(tag, at, Top.lo, hi, kids)
<1>4. x.lo = Top.lo /\ x.hi = hi
  BY DEF Node
<1>5. nodes' = Append(nodes, x)
  BY DEF Make
<1> HIDE DEF x
<1>6. New \in 1 .. Len(nodes') /\ nodes'[New] = x
  BY <1>2, <1>5 DEF New
<1>7. Yields(Top, New, nodes, nodes', toks, cur)
  BY <1>4, <1>6 DEF Yields, Full, Prolongs
<1> QED
  BY <1>1, <1>3, <1>7, RanksReturn

\* It returns what it was given.
LEMMA RanksReturnKid ==
    ASSUME PInv, Ranks, Stay, UNCHANGED nodes, Top.fn \notin Scripts \cup {"unit", "binary"},
           Top.kids # <<>>, Return(Top.kids[1])
    PROVE  Ranks'
<1>1. Going
  BY DEF Going
<1>2. cur \in Nat /\ Operands(Top, nodes, toks) /\ Top.kids \in Seq(Nat \ {0})
  BY RanksTop
<1>3. cur' \in Nat /\ cur <= cur'
  BY <1>2 DEF Stay
<1>4. 1 \in 1 .. Len(Top.kids)
  BY <1>2
<1>5. Top.kids[1] \in 1 .. Len(nodes) /\ Full(Top.kids[1], nodes)
  BY <1>2, <1>4 DEF Operands
<1>6. Yields(Top, Top.kids[1], nodes, nodes', toks, cur)
  BY <1>5 DEF Yields, Prolongs
<1> QED
  BY <1>1, <1>3, <1>6, RanksReturn

\* The frame of a function that has just begun
LEMMA FrameBegun ==
    ASSUME NEW fn \in Functions, NEW st \in States, NEW lo \in Nat \ {0}
    PROVE  LET a == Frame(fn, st, lo, <<>>)
           IN  a \in Frames /\ a.fn = fn /\ a.st = st /\ a.lo = lo /\ a.kids = <<>> /\ a.i = 1
<1>1. Frame(fn, st, lo, <<>>).i = 1
  BY DEF Frame
<1> QED
  BY <1>1, NewEmpty

\* The frame on top, in another state
LEMMA TopIn ==
    ASSUME PInv, NEW st \in States
    PROVE  LET g == [Top EXCEPT !.st = st]
           IN  /\ g \in Frames /\ g.fn = Top.fn /\ g.lo = Top.lo /\ g.at = Top.at
               /\ g.kids = Top.kids /\ g.i = Top.i /\ g.st = st
<1> DEFINE g == [Top EXCEPT !.st = st]
<1>1. Top \in FramesOf(Len(toks))
  BY TopFacts
<1>2. /\ g \in FramesOf(Len(toks)) /\ g.fn = Top.fn /\ g.lo = Top.lo /\ g.at = Top.at
      /\ g.kids = Top.kids /\ g.i = Top.i /\ g.st = st
  BY <1>1, StFrame
<1> HIDE DEF g
<1> QED
  BY <1>2 DEF FramesOf, g

\* A function with loops goes on in another state.
LEMMA GoesOnIn ==
    ASSUME Going, NEW st \in States, Top.fn \notin Scripts \cup {"binary"}
    PROVE  LET g == [Top EXCEPT !.st = st]
           IN  /\ g \in Frames /\ g.fn = Top.fn /\ g.lo = Top.lo /\ ~Late(g)
               /\ Replaces(g, Top, nodes, nodes', toks, toks', cur, cur')
<1> DEFINE g == [Top EXCEPT !.st = st]
<1>1. g \in Frames /\ g.fn = Top.fn /\ g.lo = Top.lo /\ g.kids = Top.kids
  BY TopIn DEF Going
<1> HIDE DEF g
<1>2. ~Late(g)
  BY <1>1 DEF Late
<1>3. Replaces(g, Top, nodes, nodes', toks, toks', cur, cur')
  BY <1>1, <1>2, GoesOnAs
<1> QED
  BY <1>1, <1>2, <1>3 DEF g

\* Another one takes its place.
LEMMA RanksGiveWay ==
    ASSUME Going, NEW fn \in Functions, NEW lo \in Nat \ {0},
           Become(Frame(fn, "start", lo, <<>>)) \/ Become(Frame(fn, "ahead", lo, <<>>)),
           Top.fn # "binary", fn # "binary", fn \notin Wide, Top.lo <= lo
    PROVE  Ranks'
<1>1. PICK st \in {"start", "ahead"} : Become(Frame(fn, st, lo, <<>>))
  OBVIOUS
<1> DEFINE f == Frame(fn, st, lo, <<>>)
<1>2. st \in States
  BY DEF States
<1>3. f \in Frames /\ f.fn = fn /\ f.lo = lo /\ f.kids = <<>> /\ f.i = 1
  BY <1>2, FrameBegun
<1>4. Become(f)
  BY <1>1
<1> HIDE DEF f
<1>5. f.fn \notin Hollow /\ f.fn \notin Wide
  BY <1>3 DEF Hollow, Wide
<1>6. Replaces(f, Top, nodes, nodes', toks, toks', cur, cur')
  BY <1>3, <1>5, GoesOnWith
<1> QED
  BY <1>3, <1>4, <1>6, RanksGoOn

\* One begins that can neither read an expression at once nor be without tokens.
LEMMA RanksBegins ==
    ASSUME Going, NEW fn \in Functions, NEW lo \in Nat \ {0}, NEW f \in Frames,
           stack' = <<Frame(fn, "start", lo, <<>>), f>> \o Rest,
           Replaces(f, Top, nodes, nodes', toks, toks', cur, cur'),
           f.fn # "binary", fn # "binary", fn \notin Wide, f.lo <= lo, Late(f) => f.lo < lo
    PROVE  Ranks'
<1> DEFINE a == Frame(fn, "start", lo, <<>>)
<1>1. "start" \in States
  BY DEF States
<1>2. a \in Frames /\ a.fn = fn /\ a.lo = lo /\ a.kids = <<>> /\ a.i = 1
  BY <1>1, FrameBegun
<1>3. stack' = <<a, f>> \o Rest
  OBVIOUS
<1> HIDE DEF a
<1>4. a.fn \notin Hollow /\ a.fn \notin Wide
  BY <1>2 DEF Hollow, Wide
<1>5. MayCall(f, a, nodes', toks', cur')
  BY <1>2, <1>4, BeginsUnder
<1> QED
  BY <1>2, <1>3, <1>5, RanksStarts

\* Scripts and lists are neither parse_binary nor the start of all.
LEMMA NoBinary ==
    ASSUME PInv, Scripted \/ InList
    PROVE  Top.fn \notin {"unit", "binary"}
BY Named DEF Scripted, InList, Scripts, ListNames

\* The functions without loops.
LEMMA RanksScripts ==
    ASSUME PInv, Ranks, ScriptEat \/ ScriptChoose \/ ScriptCall \/ ScriptDone
    PROVE  Ranks'
<1>0. Top \in Frames /\ Top.lo \in Nat \ {0} /\ Top.lo <= cur /\ cur \in Nat \ {0}
  BY TopFacts
<1>1. Scripted
  BY DEF ScriptEat, ScriptChoose, ScriptCall, ScriptDone
<1>2. Top.fn \notin {"unit", "binary"} /\ Top.fn \in Scripts /\ Top.i \in Nat \ {0}
  BY <1>1, NoBinary, ScriptTop
<1>3. \A k \in Nat : /\ Step(k) \in Frames /\ Step(k).fn = Top.fn /\ Step(k).lo = Top.lo
                     /\ Step(k).kids = Top.kids /\ Step(k).i = Top.i + k
  <2> TAKE k \in Nat
  <2>1. /\ Step(k) \in FramesOf(Len(toks)) /\ Step(k).fn = Top.fn /\ Step(k).lo = Top.lo
        /\ Step(k).kids = Top.kids /\ Step(k).i = Top.i + k
    BY <1>1, ScriptSteps
  <2> QED
    BY <2>1 DEF FramesOf
<1>4. CASE ScriptEat
  <2> DEFINE f == Step(1)
  <2>1. Become(f) /\ Advance /\ UNCHANGED nodes
    BY <1>4 DEF ScriptEat
  <2>2. f \in Frames /\ f.fn = Top.fn /\ f.lo = Top.lo /\ f.kids = Top.kids
    BY <1>3
  <2> HIDE DEF f
  <2>3. Going
    BY <2>1 DEF Going
  <2>4. f.lo < cur'
    BY <1>0, <2>1, <2>2 DEF Advance
  <2>5. Replaces(f, Top, nodes, nodes', toks, toks', cur, cur')
    BY <1>2, <2>2, <2>3, <2>4, GoesOnAs
  <2> QED
    BY <2>1, <2>2, <2>3, <2>5, RanksGoOn
<1>5. CASE ScriptChoose
  <2>1. /\ Element.do \in {"opt", "unless", "ofuse", "init", "isuse"} /\ ~Ended
        /\ Become(IF Taken(Element) THEN Step(1) ELSE Step(1 + Element.skip))
        /\ Stay /\ UNCHANGED nodes
    BY <1>5 DEF ScriptChoose
  <2>2. Element.skip \in Nat
    BY <1>1, <2>1, ScriptTop DEF ElementOK
  <2>3. 1 + Element.skip \in Nat /\ 1 \in Nat
    BY <2>2
  <2>4. PICK k \in Nat : Become(Step(k))
    BY <2>1, <2>3
  <2> DEFINE f == Step(k)
  <2>5. f \in Frames /\ f.fn = Top.fn /\ f.lo = Top.lo /\ f.kids = Top.kids /\ Become(f)
    BY <1>3, <2>4
  <2> HIDE DEF f
  <2>6. Going
    BY <2>1 DEF Going
  <2>7. Top.lo < cur
    <3>1. Element.do # "eat" /\ Element.do # "call"
      BY <2>1
    <3> QED
      BY <1>1, <2>1, <3>1, EarlyScript
  <2>8. f.lo < cur'
    BY <2>1, <2>5, <2>7 DEF Stay
  <2>9. Replaces(f, Top, nodes, nodes', toks, toks', cur, cur')
    BY <1>2, <2>5, <2>6, <2>8, GoesOnAs
  <2> QED
    BY <2>5, <2>6, <2>9, RanksGoOn
<1>6. CASE ScriptCall
  <2> DEFINE f == Step(1)
             fn == Element.fn
  <2>1. Element.do = "call" /\ ~Ended /\ Call(f, fn) /\ Stay /\ UNCHANGED nodes
    BY <1>6 DEF ScriptCall
  <2>2. f \in Frames /\ f.fn = Top.fn /\ f.lo = Top.lo /\ f.kids = Top.kids /\ f.i = Top.i + 1
    BY <1>3
  <2>3. fn \in Calling
    <3>1. ElementOK(Top.fn, Top.i, Element)
      BY <1>1, <2>1, ScriptTop
    <3> QED
      BY <2>1, <3>1 DEF ElementOK, Calling
  <2>4. \/ Top.lo < cur
        \/ Top.i = 1 /\ ((Top.fn \in {"spec", "init"} /\ fn = "type") \/ Top.fn = "case")
    <3>1. Element.do # "eat"
      BY <2>1
    <3> QED
      BY <1>1, <2>1, <3>1, EarlyScript
  <2> HIDE DEF f, fn
  <2>5. Late(f) => f.lo < cur
    BY <2>2, <2>4 DEF Late
  <2>6. fn \in Wide \cup {"expr"} /\ f.lo = cur => f.fn \in Wide
    BY <1>0, <2>2, <2>4 DEF Wide, ListNames
  <2>7. Going /\ cur' = cur
    BY <2>1 DEF Going, Stay
  <2>8. Replaces(f, Top, nodes, nodes', toks, toks', cur, cur')
    BY <1>2, <2>2, <2>5, <2>7, GoesOnAs
  <2>9. f.fn # "binary" /\ f.lo <= cur /\ f.fn \in Scripts /\ Top.fn # "binary"
    BY <1>0, <1>2, <2>2
  <2> QED
    BY <2>1, <2>2, <2>3, <2>5, <2>6, <2>8, <2>9, RanksCalls
<1>7. CASE ScriptDone
  <2>1. Stay /\ Ended
    BY <1>7 DEF ScriptDone
  <2>2. CASE Top.fn \in Nodeless
    <3>1. ReturnNothing /\ UNCHANGED nodes
      BY <1>7, <2>2 DEF ScriptDone
    <3> QED
      BY <1>2, <2>1, <3>1, RanksReturnNone
  <2>3. CASE Top.fn \notin Nodeless
    <3> DEFINE called == toks[cur - 1] = ")"
               access == Top.fn = "member" /\ ~called
               tag == CASE access -> "access"
                        [] Top.fn = "member" /\ called -> "mcall"
                        [] OTHER -> Top.fn
               kids == IF access THEN <<Top.kids[1]>> ELSE Top.kids
    <3>1. Make(tag, 0, Top.lo, cur - 1, kids) /\ Return(New)
      BY <1>7, <2>3 DEF ScriptDone
    <3>2. tag \in {"access", "mcall", Top.fn}
      OBVIOUS
    <3> HIDE DEF tag, kids
    <3>3. tag # "bin"
      BY <1>2, <3>2 DEF Scripts
    <3>4. Top.lo < cur
      BY <1>1, <2>1, EarlyScript
    <3>5. Top.lo <= cur - 1
      BY <1>0, <3>4
    <3> QED
      BY <1>2, <2>1, <3>1, <3>3, <3>5, RanksReturnMade
  <2> QED
    BY <2>2, <2>3
<1> QED
  BY <1>4, <1>5, <1>6, <1>7

\* The lists, and the suffixes of types.
LEMMA RanksLists ==
    ASSUME PInv, Ranks, ListItem \/ ListComma \/ ListEnd \/ TypeSuffix
    PROVE  Ranks'
<1>0. Top \in Frames /\ Top.lo \in Nat \ {0} /\ Top.lo <= cur /\ cur \in Nat \ {0}
  BY TopFacts
<1>1. InList => Top.fn \notin {"unit", "binary"} /\ Top.fn \in ListNames /\ Top.fn \notin Scripts
  BY NoBinary, ListTop
<1>2. CASE ListItem
  <2> DEFINE f == [Top EXCEPT !.st = "sep"]
             fn == Lists[Top.fn].item
  <2>1. InList /\ Call(f, fn) /\ Stay /\ UNCHANGED nodes
    BY <1>2 DEF ListItem
  <2>2. fn \in {"expr", "type", "field", "typename"}
    <3>1. Top.fn \in {"ARGS", "ELEMS", "TARGS", "FIELDS", "TYPES", "NAMES"}
      BY <1>1, <2>1 DEF ListNames
    <3>2. Lists["ARGS"].item = "expr" /\ Lists["ELEMS"].item = "expr"
      BY DEF Lists
    <3>3. Lists["TARGS"].item = "type" /\ Lists["TYPES"].item = "type"
      BY DEF Lists
    <3>4. Lists["FIELDS"].item = "field" /\ Lists["NAMES"].item = "typename"
      BY DEF Lists
    <3> QED
      BY <3>1, <3>2, <3>3, <3>4
  <2>3. Going /\ "sep" \in States
    BY <2>1 DEF Going, States
  <2>4. /\ f \in Frames /\ f.fn = Top.fn /\ f.lo = Top.lo /\ ~Late(f)
        /\ Replaces(f, Top, nodes, nodes', toks, toks', cur, cur')
    BY <1>1, <2>1, <2>3, GoesOnIn
  <2> HIDE DEF f, fn
  <2>5. fn \in Calling
    BY <2>2 DEF Calling, Callable
  <2>6. fn \notin Hollow
    BY <2>2 DEF Hollow, ListNames
  <2>7. f.fn \in Wide /\ f.fn # "binary" /\ Top.fn # "binary" /\ f.lo <= cur
    BY <1>0, <1>1, <2>1, <2>4 DEF Wide
  <2> QED
    BY <2>1, <2>4, <2>5, <2>6, <2>7, RanksCalls
<1>3. CASE ListComma
  <2> DEFINE f == [Top EXCEPT !.st = "open"]
  <2>1. InList /\ Become(f) /\ Advance /\ UNCHANGED nodes
    BY <1>3 DEF ListComma
  <2>2. Going /\ "open" \in States
    BY <2>1 DEF Going, States
  <2>3. f \in Frames /\ Replaces(f, Top, nodes, nodes', toks, toks', cur, cur')
    BY <1>1, <2>1, <2>2, GoesOnIn
  <2> HIDE DEF f
  <2> QED
    BY <2>1, <2>2, <2>3, RanksGoOn
<1>4. CASE ListEnd
  <2>1. InList /\ Stay
    BY <1>4 DEF ListEnd
  <2>2. CASE Top.fn \in Nodeless
    <3>1. ReturnNothing /\ UNCHANGED nodes
      BY <1>4, <2>2 DEF ListEnd
    <3> QED
      BY <1>1, <2>1, <3>1, RanksReturnNone
  <2>3. CASE Top.fn \notin Nodeless
    <3>1. Make(Top.fn, 0, Top.lo, cur - 1, Top.kids) /\ Return(New)
      BY <1>4, <2>3 DEF ListEnd
    <3>2. Top.fn # "bin" /\ Top.fn \in Hollow
      BY <1>1, <2>1 DEF ListNames, Hollow
    <3> QED
      BY <1>1, <2>1, <3>1, <3>2, RanksReturnMade
  <2> QED
    BY <2>2, <2>3
<1>5. CASE TypeSuffix
  <2>1. Top.fn = "suffix" /\ UNCHANGED nodes
    BY <1>5 DEF TypeSuffix, Running
  <2>2. Top.fn \notin Scripts \cup {"binary", "unit"}
    BY <2>1 DEF Scripts
  <2>3. \/ Advance /\ UNCHANGED stack
        \/ Call(Top, "bound") /\ Stay
        \/ ReturnNothing /\ Stay
    BY <1>5 DEF TypeSuffix
  <2>4. CASE Advance /\ UNCHANGED stack
    <3>1. Going
      BY <2>1, <2>4 DEF Going
    <3> QED
      BY <2>2, <2>4, <3>1, RanksStays
  <2>5. CASE Call(Top, "bound") /\ Stay
    <3>1. Going
      BY <2>1, <2>5 DEF Going
    <3>2. ~Late(Top)
      BY <2>2 DEF Late
    <3>3. Replaces(Top, Top, nodes, nodes', toks, toks', cur, cur')
      BY <1>0, <2>2, <3>1, <3>2, GoesOnAs
    <3>4. "bound" \in Calling /\ "bound" \notin Wide \cup {"expr"} /\ "bound" \notin Hollow
      BY DEF Calling, Wide, Hollow, ListNames
    <3> QED
      BY <1>0, <2>1, <2>2, <2>5, <3>2, <3>3, <3>4, RanksCalls
  <2>6. CASE ReturnNothing /\ Stay
    BY <2>1, <2>2, <2>6, RanksReturnNone
  <2> QED
    BY <2>3, <2>4, <2>5, <2>6
<1> QED
  BY <1>2, <1>3, <1>4, <1>5

\* The parsers of unary and of primary expressions.
LEMMA RanksUnary ==
    ASSUME PInv, Ranks,
           \/ PrefixOperator \/ PrefixDone \/ PrefixNone
           \/ PostfixOperator \/ PostfixTail \/ PostfixDone
    PROVE  Ranks'
<1>0. /\ Top \in Frames /\ Top.lo \in Nat \ {0} /\ Top.lo <= cur /\ cur \in Nat \ {0}
      /\ Ready(Top, nodes, cur, Token, Last)
  BY TopFacts
<1>1. CASE PrefixOperator
  <2> DEFINE f == [Top EXCEPT !.st = "operand"]
             lo == cur + 1
  <2>1. /\ Top.fn = "prefix" /\ Advance /\ UNCHANGED nodes
        /\ stack' = <<Frame("prefix", "start", lo, <<>>), f>> \o Rest
    BY <1>1 DEF PrefixOperator, Running
  <2>2. Going /\ "operand" \in States /\ "prefix" \in Functions
    BY <2>1, Named DEF Going, States
  <2>3. Top.fn \notin Scripts \cup {"binary"} /\ "prefix" \notin Wide
    BY <2>1 DEF Scripts, Wide, ListNames
  <2>4. /\ f \in Frames /\ f.fn = Top.fn /\ f.lo = Top.lo /\ ~Late(f)
        /\ Replaces(f, Top, nodes, nodes', toks, toks', cur, cur')
    BY <2>2, <2>3, GoesOnIn
  <2>5. lo \in Nat \ {0} /\ Top.lo <= lo
    BY <1>0
  <2> HIDE DEF f, lo
  <2> QED
    BY <2>1, <2>2, <2>3, <2>4, <2>5, RanksBegins
<1>2. CASE PrefixDone
  <2>1. /\ Top.fn = "prefix" /\ Top.st = "operand" /\ Stay /\ Return(New)
        /\ Make("un", Top.lo, Top.lo, cur - 1, Top.kids)
    BY <1>2 DEF PrefixDone, Running
  <2>2. Top.lo <= cur - 1
    <3> DEFINE k == Top.kids[1]
    <3>1. Len(Top.kids) = 1 /\ Top.lo < nodes[k].lo
      BY <1>0, <2>1 DEF Ready
    <3>2. 1 \in 1 .. Len(Top.kids)
      BY <3>1
    <3>3. k \in 1 .. Len(nodes)
      BY <3>2, TopFacts DEF Ordered
    <3>4. nodes[k].hi < cur /\ nodes[k].lo <= nodes[k].hi + 1
      BY <3>3, NodesBefore
    <3>5. nodes[k].hi \in Nat /\ nodes[k].lo \in Nat
      BY <3>3, TopFacts, NodeFields
    <3> HIDE DEF k
    <3> QED
      BY <1>0, <3>1, <3>4, <3>5
  <2>3. Top.fn \notin {"unit", "binary"}
    BY <2>1
  <2> QED
    BY <2>1, <2>2, <2>3, RanksReturnMade
<1>3. CASE PrefixNone
  <2> DEFINE f == Frame("postfix", "loop", cur, <<>>)
  <2>1. /\ Top.fn = "prefix" /\ Stay /\ UNCHANGED nodes
        /\ stack' = <<Frame("primary", "start", cur, <<>>), f>> \o Rest
    BY <1>3 DEF PrefixNone, Running
  <2>2. /\ Going /\ "loop" \in States /\ "primary" \in Functions /\ "postfix" \in Functions
    BY <2>1, Named DEF Going, States
  <2>3. f \in Frames /\ f.fn = "postfix" /\ f.lo = cur /\ f.kids = <<>> /\ f.i = 1
    BY <1>0, <2>2, FrameBegun
  <2> HIDE DEF f
  <2>4. f.fn \notin Wide /\ f.fn \notin Hollow /\ "primary" \notin Wide
    BY <2>3 DEF Wide, Hollow, ListNames
  <2>5. Replaces(f, Top, nodes, nodes', toks, toks', cur, cur')
    BY <1>0, <2>1, <2>2, <2>3, <2>4, GoesOnWith
  <2>6. ~Late(f) /\ f.fn # "binary" /\ f.lo <= cur
    BY <1>0, <2>3 DEF Late
  <2> QED
    BY <1>0, <2>1, <2>2, <2>3, <2>4, <2>5, <2>6, RanksBegins
<1>4. CASE PostfixOperator
  <2> DEFINE ks == <<New>>
             f == [Top EXCEPT !.kids = ks]
             x == Node("post", cur, Top.lo, cur, Top.kids)
  <2>1. /\ Top.fn = "postfix" /\ Make("post", cur, Top.lo, cur, Top.kids) /\ Become(f) /\ Advance
    BY <1>4 DEF PostfixOperator, Running
  <2>2. Going
    BY <2>1 DEF Going
  <2>3. nodes \in Seq(NodeSet) /\ Len(nodes) \in Nat /\ Top \in FramesOf(Len(toks))
    BY TopFacts
  <2>4. nodes' = Append(nodes, x) /\ x.lo = Top.lo /\ x.hi = cur
    BY <2>1 DEF Make, Node
  <2> HIDE DEF x
  <2>5. New \in 1 .. Len(nodes') /\ nodes'[New] = x /\ New \in Nat \ {0}
    BY <2>3, <2>4 DEF New
  <2>6. ks \in Seq(Nat \ {0}) /\ Len(ks) = 1 /\ ks[1] = New
    BY <2>5
  <2> HIDE DEF ks
  <2>7. f \in FramesOf(Len(toks)) /\ f.fn = Top.fn /\ f.lo = Top.lo /\ f.kids = ks
    BY <2>3, <2>6, KidsFrame
  <2> HIDE DEF f
  <2>8. f \in Frames
    BY <2>7 DEF FramesOf
  <2>9. Full(New, nodes')
    BY <1>0, <2>4, <2>5 DEF Full
  <2>10. \A k \in 1 .. Len(f.kids) : f.kids[k] = New
    <3>1. Len(f.kids) = 1 /\ f.kids[1] = New
      BY <2>6, <2>7
    <3>2. \A k \in 1 .. Len(f.kids) : k = 1
      BY <3>1
    <3> QED
      BY <3>1, <3>2
  <2>11. Operands(f, nodes', toks')
    BY <2>1, <2>5, <2>7, <2>9, <2>10 DEF Operands, Acting, Extending
  <2>12. Follows(Top, f) /\ ~Late(f) /\ f.fn \notin Hollow
    BY <1>0, <2>1, <2>7 DEF Follows, Late, Scripts, Hollow, ListNames
  <2>13. \A g : ~Prolongs(g, Top, nodes, toks, cur)
    BY <2>1 DEF Prolongs
  <2>14. Replaces(f, Top, nodes, nodes', toks, toks', cur, cur')
    BY <2>1, <2>11, <2>12, <2>13 DEF Replaces
  <2> QED
    BY <2>1, <2>2, <2>8, <2>14, RanksGoOn
<1>5. CASE PostfixTail
  <2> DEFINE fn == IF Token = "[" THEN "index" ELSE "member"
             a == Frame(fn, "start", Top.lo, Top.kids)
             ks == <<>>
             f == [Top EXCEPT !.kids = ks]
  <2>1. Top.fn = "postfix" /\ Stay /\ UNCHANGED nodes /\ stack' = <<a, f>> \o Rest
    BY <1>5 DEF PostfixTail, Running
  <2>2. Going /\ nodes' = nodes /\ toks' = toks /\ cur' = cur
    BY <2>1 DEF Going, Stay
  <2>3. fn \in {"index", "member"}
    OBVIOUS
  <2> HIDE DEF fn
  <2>4. fn \in Functions /\ fn \in Scripts /\ "start" \in States /\ fn \notin Wide
    BY <2>3, Named DEF Scripts, States, Wide, ListNames
  <2>5. Top.kids \in Seq(Nat \ {0}) /\ Operands(Top, nodes, toks) /\ Top \in FramesOf(Len(toks))
    BY RanksTop, TopFacts
  <2>6. a \in Frames /\ a.fn = fn /\ a.lo = Top.lo /\ a.kids = Top.kids /\ a.i = 1
    BY <1>0, <2>4, <2>5, NewFrame
  <2> HIDE DEF a
  <2>7. ks \in Seq(Nat \ {0}) /\ Len(ks) = 0
    OBVIOUS
  <2> HIDE DEF ks
  <2>8. f \in FramesOf(Len(toks)) /\ f.fn = Top.fn /\ f.lo = Top.lo /\ f.kids = ks
    <3>1. ks \in Seq(Nat \ {0}) /\ Top \in FramesOf(Len(toks))
      BY <2>5, <2>7
    <3> QED
      BY <3>1, KidsFrame
  <2> HIDE DEF f
  <2>9. f \in Frames /\ ~Late(f) /\ f.fn \notin Hollow /\ ~Acting(f) /\ ~Extending(f)
    BY <2>1, <2>8 DEF FramesOf, Late, Scripts, Hollow, ListNames, Acting, Extending
  <2>10. Operands(f, nodes', toks')
    BY <2>1, <2>7, <2>8, <2>9 DEF Operands
  <2>11. Operands(a, nodes', toks')
    BY <2>2, <2>3, <2>4, <2>5, <2>6 DEF Operands, Acting, Extending
  <2>12. \A g : ~Prolongs(g, Top, nodes, toks, cur)
    BY <2>1 DEF Prolongs
  <2>13. Replaces(f, Top, nodes, nodes', toks, toks', cur, cur')
    <3>1. Follows(Top, f)
      BY <1>0, <2>8 DEF Follows
    <3> QED
      BY <2>1, <2>8, <2>9, <2>10, <2>12, <3>1 DEF Replaces
  <2>14. MayCall(f, a, nodes', toks', cur')
    <3>1. Follows(f, a)
      BY <1>0, <2>4, <2>6, <2>8 DEF Follows
    <3>2. ~Late(a)
      BY <2>6 DEF Late
    <3>3. a.fn \notin Hollow
      BY <2>4, <2>6 DEF Wide, Hollow
    <3>4. WasCalled(f, a, nodes', toks', cur')
      BY <2>1, <2>8, <2>9, <3>3 DEF WasCalled
    <3> QED
      BY <2>1, <2>8, <2>9, <2>11, <3>1, <3>2, <3>4 DEF MayCall
  <2> QED
    BY <2>1, <2>2, <2>6, <2>9, <2>13, <2>14, RanksStarts
<1>6. CASE PostfixDone
  <2>1. Top.fn = "postfix" /\ Stay /\ UNCHANGED nodes /\ Return(Top.kids[1])
    BY <1>6 DEF PostfixDone, Running
  <2>2. Top.fn \notin Scripts \cup {"unit", "binary"} /\ Top.kids # <<>>
    <3>1. Len(Top.kids) = 1
      BY <2>1, PostfixTop
    <3> QED
      BY <2>1, <3>1 DEF Scripts
  <2> QED
    BY <2>1, <2>2, RanksReturnKid
<1> QED
  BY <1>1, <1>2, <1>3, <1>4, <1>5, <1>6

\* Primary expressions.
LEMMA RanksPrimary ==
    ASSUME PInv, Ranks,
           \/ Literal \/ PrimaryBracketed \/ Known \/ PeekAfterName
           \/ TryTypeName \/ DecideByPeek \/ UseAhead \/ UseDecide
           \/ Ref \/ LeafStart \/ LeafDone
    PROVE  Ranks'
<1>0. /\ Top \in Frames /\ Top.lo \in Nat \ {0} /\ Top.lo <= cur /\ cur \in Nat \ {0}
      /\ Ready(Top, nodes, cur, Token, Last)
  BY TopFacts
<1>1. CASE Literal
  <2>1. Top.fn = "primary" /\ Top.st = "start"
        /\ Make("lit", 0, cur, cur, <<>>) /\ Return(New) /\ Advance
    BY <1>1 DEF Literal, Running
  <2>2. Top.lo = cur
    BY <1>0, <2>1 DEF Ready, Fresh
  <2>3. Make("lit", 0, Top.lo, cur, <<>>) /\ Top.lo <= cur /\ Top.fn \notin {"unit", "binary"}
    BY <1>0, <2>1, <2>2
  <2> QED
    BY <2>1, <2>3, RanksReturnMade
<1>2. CASE PrimaryBracketed
  <2> DEFINE fn == Bracketed(Token)
  <2>1. /\ Top.fn = "primary" /\ fn # "none" /\ Become(Frame(fn, "start", cur, <<>>))
        /\ Stay /\ UNCHANGED nodes
    BY <1>2 DEF PrimaryBracketed, Running
  <2>2. fn \in {"paren", "array", "rune", "cast", "sizeof"}
    BY <2>1 DEF Bracketed
  <2> HIDE DEF fn
  <2>3. fn \in Functions /\ fn \notin Wide /\ fn # "binary"
    BY <2>2, Named DEF Scripts, Wide, ListNames
  <2>4. Going
    BY <2>1 DEF Going
  <2> QED
    BY <1>0, <2>1, <2>3, <2>4, RanksGiveWay
<1>3. CASE Known
  <2>1. Top.fn = "primary" /\ Stay /\ UNCHANGED nodes
    BY <1>3 DEF Known, Running
  <2>2. \/ Become(Frame("usespec", "ahead", cur, <<>>))
        \/ Become(Frame("ref", "start", cur, <<>>))
    BY <1>3 DEF Known
  <2>3. /\ "usespec" \in Functions /\ "usespec" \notin Wide
        /\ "ref" \in Functions /\ "ref" \notin Wide
    BY Named DEF Scripts, Wide, ListNames
  <2>4. Going
    BY <2>1 DEF Going
  <2>5. CASE Become(Frame("usespec", "ahead", cur, <<>>))
    BY <1>0, <2>1, <2>3, <2>4, <2>5, RanksGiveWay
  <2>6. CASE Become(Frame("ref", "start", cur, <<>>))
    BY <1>0, <2>1, <2>3, <2>4, <2>6, RanksGiveWay
  <2> QED
    BY <2>2, <2>5, <2>6
<1>4. CASE PeekAfterName
  <2> DEFINE f == [Top EXCEPT !.st = "peek"]
  <2>1. Top.fn = "primary" /\ Become(f) /\ Advance /\ UNCHANGED nodes
    BY <1>4 DEF PeekAfterName, Running
  <2>2. Going /\ "peek" \in States /\ Top.fn \notin Scripts \cup {"binary"}
    BY <2>1 DEF Going, States, Scripts
  <2>3. f \in Frames /\ Replaces(f, Top, nodes, nodes', toks, toks', cur, cur')
    BY <2>2, GoesOnIn
  <2> HIDE DEF f
  <2> QED
    BY <2>1, <2>2, <2>3, RanksGoOn
<1>5. CASE TryTypeName
  <2> DEFINE f == [Top EXCEPT !.st = "named"]
  <2>1. /\ Top.fn = "primary" /\ Restore /\ UNCHANGED nodes
        /\ stack' = <<Frame("typename", "start", Top.lo, <<>>), f>> \o Rest
    BY <1>5 DEF TryTypeName, Running
  <2>2. Going /\ "named" \in States /\ Top.fn \notin Scripts \cup {"binary"}
    BY <2>1 DEF Going, States, Scripts
  <2>3. /\ f \in Frames /\ f.fn = Top.fn /\ f.lo = Top.lo /\ ~Late(f)
        /\ Replaces(f, Top, nodes, nodes', toks, toks', cur, cur')
    BY <2>2, GoesOnIn
  <2>4. "typename" \in Functions /\ "typename" \notin Wide
    BY Named DEF Scripts, Wide, ListNames
  <2>5. f.fn # "binary" /\ f.lo <= Top.lo
    BY <1>0, <2>1, <2>3
  <2> HIDE DEF f
  <2> QED
    BY <1>0, <2>1, <2>2, <2>3, <2>4, <2>5, RanksBegins
<1>6. CASE DecideByPeek
  <2> DEFINE fn == NamedBy(Token)
  <2>1. /\ Top.fn = "primary" /\ Restore /\ UNCHANGED nodes
        /\ Become(Frame(fn, "start", Top.lo, <<>>))
    BY <1>6 DEF DecideByPeek, Running
  <2>2. fn \in {"call", "init", "spec", "ref"}
    BY DEF NamedBy
  <2> HIDE DEF fn
  <2>3. fn \in Functions /\ fn \notin Wide /\ fn # "binary"
    BY <2>2, Named DEF Scripts, Wide, ListNames
  <2>4. Going /\ Top.lo <= Top.lo
    BY <1>0, <2>1 DEF Going
  <2> QED
    BY <1>0, <2>1, <2>3, <2>4, RanksGiveWay
<1>7. CASE UseAhead
  <2> DEFINE f == [Top EXCEPT !.st = "named"]
  <2>1. /\ Top.fn = "usespec" /\ Stay /\ UNCHANGED nodes
        /\ stack' = <<Frame("typename", "start", cur, <<>>), f>> \o Rest
    BY <1>7 DEF UseAhead, Running
  <2>2. Going /\ "named" \in States /\ cur' = cur
    BY <2>1 DEF Going, States, Stay
  <2>3. f \in Frames /\ f.fn = Top.fn /\ f.lo = Top.lo /\ f.kids = Top.kids /\ f.i = Top.i
    BY <2>2, TopIn
  <2> HIDE DEF f
  <2>4. Late(f) => f.lo < cur
    BY <2>3, RanksTop DEF Late
  <2>5. Replaces(f, Top, nodes, nodes', toks, toks', cur, cur')
    BY <2>1, <2>2, <2>3, <2>4, GoesOnAs
  <2>6. "typename" \in Functions /\ "typename" \notin Wide
    BY Named DEF Scripts, Wide, ListNames
  <2>7. f.fn # "binary" /\ f.lo <= cur
    BY <1>0, <2>1, <2>3
  <2> QED
    BY <1>0, <2>1, <2>2, <2>3, <2>4, <2>5, <2>6, <2>7, RanksBegins
<1>8. CASE UseDecide
  <2> DEFINE fn == IF Token = "{" THEN "init" ELSE "usespec"
  <2>1. /\ Top.fn = "usespec" /\ Restore /\ UNCHANGED nodes
        /\ Become(Frame(fn, "start", Top.lo, <<>>))
    BY <1>8 DEF UseDecide, Running
  <2>2. fn \in {"init", "usespec"}
    OBVIOUS
  <2> HIDE DEF fn
  <2>3. fn \in Functions /\ fn \notin Wide /\ fn # "binary"
    BY <2>2, Named DEF Scripts, Wide, ListNames
  <2>4. Going /\ Top.lo <= Top.lo
    BY <1>0, <2>1 DEF Going
  <2> QED
    BY <1>0, <2>1, <2>3, <2>4, RanksGiveWay
<1>9. CASE Ref
  <2>1. Top.fn = "ref" /\ Make("ref", 0, cur, cur, <<>>) /\ Return(New) /\ Advance
    BY <1>9 DEF Ref, Running
  <2>2. Top.lo = cur
    BY <1>0, <2>1 DEF Ready, Fresh
  <2>3. Make("ref", 0, Top.lo, cur, <<>>) /\ Top.lo <= cur /\ Top.fn \notin {"unit", "binary"}
    BY <1>0, <2>1, <2>2
  <2> QED
    BY <2>1, <2>3, RanksReturnMade
<1>10. CASE LeafStart
  <2> DEFINE f == [Top EXCEPT !.st = "got"]
  <2>1. /\ Top.fn = "leaf" /\ Stay /\ UNCHANGED nodes
        /\ stack' = <<Frame("primary", "start", cur, <<>>), f>> \o Rest
    BY <1>10 DEF LeafStart, Running
  <2>2. Going /\ "got" \in States /\ Top.fn \notin Scripts \cup {"binary"}
    BY <2>1 DEF Going, States, Scripts
  <2>3. /\ f \in Frames /\ f.fn = Top.fn /\ f.lo = Top.lo /\ ~Late(f)
        /\ Replaces(f, Top, nodes, nodes', toks, toks', cur, cur')
    BY <2>2, GoesOnIn
  <2>4. "primary" \in Functions /\ "primary" \notin Wide
    BY Named DEF Wide, ListNames
  <2>5. f.fn # "binary" /\ f.lo <= cur
    BY <1>0, <2>1, <2>3
  <2> HIDE DEF f
  <2> QED
    BY <1>0, <2>1, <2>2, <2>3, <2>4, <2>5, RanksBegins
<1>11. CASE LeafDone
  <2>1. Top.fn = "leaf" /\ Stay /\ UNCHANGED nodes /\ Return(Top.kids[1]) /\ Top.kids # <<>>
    BY <1>11 DEF LeafDone, Running
  <2>2. Top.fn \notin Scripts \cup {"unit", "binary"}
    BY <2>1 DEF Scripts
  <2> QED
    BY <2>1, <2>2, RanksReturnKid
<1> QED
  BY <1>1, <1>2, <1>3, <1>4, <1>5, <1>6, <1>7, <1>8, <1>9, <1>10, <1>11

\* Statements.
LEMMA RanksStatements ==
    ASSUME PInv, Ranks,
           \/ StatementStart \/ BlockOpen \/ BlockStatement \/ BlockSemi \/ BlockClose
           \/ Declare \/ CaseStart \/ CaseSep \/ CasesEnd
    PROVE  Ranks'
<1>0. /\ Top \in Frames /\ Top.lo \in Nat \ {0} /\ Top.lo <= cur /\ cur \in Nat \ {0}
  BY TopFacts
<1>1. CASE StatementStart
  <2> DEFINE fn == Statement(Token)
  <2>1. Top.fn = "stmt" /\ stack' = Callee(fn, cur) \o Rest /\ Stay /\ UNCHANGED nodes
    BY <1>1 DEF StatementStart, Running
  <2>2. fn \in {"block", "break", "var", "if", "match", "ret", "until", "expr"}
    BY DEF Statement
  <2>3. Going
    BY <2>1 DEF Going
  <2> HIDE DEF fn
  <2>4. CASE fn = "expr"
    <3> DEFINE a == Frame("prefix", "start", cur, <<>>)
               b == Frame("binary", "loop", cur, <<>>)
    <3>1. /\ a \in Frames /\ b \in Frames
          /\ b.fn = "binary" /\ b.lo = cur /\ b.kids = <<>> /\ b.i = 1 /\ b.st = "loop"
          /\ Operands(b, nodes', toks')
          /\ MayCall(b, a, nodes', toks', cur')
      BY <2>1, FirstOperand
    <3>2. Callee(fn, cur) = <<a, b>>
      BY <2>4 DEF Callee, Lists
    <3> HIDE DEF a, b
    <3>3. stack' = <<a, b>> \o Rest
      BY <2>1, <3>2
    <3>4. Follows(Top, b)
      BY <1>0, <2>1, <3>1 DEF Follows, Wide
    <3>5. \A g : ~Prolongs(g, Top, nodes, toks, cur)
      BY <2>1 DEF Prolongs
    <3>6. b.fn \notin Hollow /\ ~Late(b)
      BY <3>1 DEF Hollow, ListNames, Late
    <3>7. Replaces(b, Top, nodes, nodes', toks, toks', cur, cur')
      BY <2>1, <3>1, <3>4, <3>5, <3>6 DEF Replaces
    <3> QED
      BY <2>3, <3>1, <3>3, <3>7, RanksStarts
  <2>5. CASE fn # "expr"
    <3>1. fn \in Functions
      BY <2>2, <2>5, Named DEF Scripts
    <3>2. PICK st \in States : Callee(fn, cur) = <<Frame(fn, st, cur, <<>>)>>
      <4>1. CASE fn = "block"
        <5>1. Callee(fn, cur) = <<Frame(fn, "open", cur, <<>>)>>
          BY <4>1 DEF Callee
        <5> QED
          BY <5>1 DEF States
      <4>2. CASE fn # "block"
        <5>1. fn \in Calling \ {"expr"}
          BY <2>2, <2>5, <4>2 DEF Calling, Callable
        <5> QED
          BY <5>1, CalleeIs
      <4> QED
        BY <4>1, <4>2
    <3> DEFINE f == Frame(fn, st, cur, <<>>)
    <3>3. f \in Frames /\ f.fn = fn /\ f.lo = cur /\ f.kids = <<>> /\ f.i = 1
      BY <1>0, <3>1, FrameBegun
    <3>4. Become(f)
      BY <2>1, <3>2 DEF Become
    <3> HIDE DEF f
    <3>5. f.fn \notin Hollow /\ f.fn # "binary" /\ Top.fn \in Wide /\ Top.fn # "binary"
      BY <2>1, <2>2, <3>3 DEF Hollow, ListNames, Wide
    <3>6. Replaces(f, Top, nodes, nodes', toks, toks', cur, cur')
      BY <1>0, <2>3, <3>3, <3>5, GoesOnWith
    <3> QED
      BY <2>3, <3>3, <3>4, <3>6, RanksGoOn
  <2> QED
    BY <2>4, <2>5
<1>2. CASE BlockOpen
  <2> DEFINE f == [Top EXCEPT !.st = "loop"]
  <2>1. Top.fn = "block" /\ Become(f) /\ Advance /\ UNCHANGED nodes
    BY <1>2 DEF BlockOpen, Running
  <2>2. Going /\ "loop" \in States /\ Top.fn \notin Scripts \cup {"binary"}
    BY <2>1 DEF Going, States, Scripts
  <2>3. f \in Frames /\ Replaces(f, Top, nodes, nodes', toks, toks', cur, cur')
    BY <2>2, GoesOnIn
  <2> HIDE DEF f
  <2> QED
    BY <2>1, <2>2, <2>3, RanksGoOn
<1>3. CASE BlockStatement
  <2> DEFINE f == [Top EXCEPT !.st = "semi"]
  <2>1. Top.fn = "block" /\ Call(f, "stmt") /\ Stay /\ UNCHANGED nodes
    BY <1>3 DEF BlockStatement, Running
  <2>2. Going /\ "semi" \in States /\ Top.fn \notin Scripts \cup {"binary"}
    BY <2>1 DEF Going, States, Scripts
  <2>3. /\ f \in Frames /\ f.fn = Top.fn /\ f.lo = Top.lo /\ ~Late(f)
        /\ Replaces(f, Top, nodes, nodes', toks, toks', cur, cur')
    BY <2>2, GoesOnIn
  <2> HIDE DEF f
  <2>4. /\ "stmt" \in Calling /\ "stmt" \notin Hollow
        /\ f.fn \in Wide /\ f.fn # "binary" /\ Top.fn # "binary" /\ f.lo <= cur
    BY <1>0, <2>1, <2>3 DEF Calling, Hollow, ListNames, Wide
  <2> QED
    BY <2>1, <2>3, <2>4, RanksCalls
<1>4. CASE BlockSemi
  <2> DEFINE f == [Top EXCEPT !.st = "loop"]
  <2>1. /\ Top.fn = "block" /\ UNCHANGED nodes
        /\ \/ Advance /\ UNCHANGED stack
           \/ Stay /\ Become(f)
    BY <1>4 DEF BlockSemi, Running
  <2>2. Going /\ "loop" \in States /\ Top.fn \notin Scripts \cup {"binary"}
    BY <2>1 DEF Going, States, Scripts
  <2>3. f \in Frames /\ Replaces(f, Top, nodes, nodes', toks, toks', cur, cur')
    BY <2>2, GoesOnIn
  <2> HIDE DEF f
  <2>4. CASE UNCHANGED stack
    BY <2>2, <2>4, RanksStays
  <2>5. CASE Become(f)
    BY <2>2, <2>3, <2>5, RanksGoOn
  <2> QED
    BY <2>1, <2>4, <2>5
<1>5. CASE BlockClose
  <2>1. /\ Top.fn = "block" /\ Make("block", 0, Top.lo, cur, Top.kids) /\ Return(New)
        /\ Advance
    BY <1>5 DEF BlockClose, Running
  <2>2. Top.fn \notin {"unit", "binary"} /\ Top.lo <= cur
    BY <1>0, <2>1
  <2> QED
    BY <2>1, <2>2, RanksReturnMade
<1>6. CASE Declare
  <2>1. Top.fn = "declare" /\ ReturnNothing /\ Stay /\ UNCHANGED nodes
    BY <1>6 DEF Declare, Running
  <2>2. Top.fn # "unit"
    BY <2>1
  <2> QED
    BY <2>1, <2>2, RanksReturnNone
<1>7. CASE CaseStart
  <2> DEFINE f == [Top EXCEPT !.st = "sep"]
             fn == IF Token = "_" THEN "default" ELSE "case"
  <2>1. Top.fn = "cases" /\ Call(f, fn) /\ Stay /\ UNCHANGED nodes
    BY <1>7 DEF CaseStart, Running
  <2>2. Going /\ "sep" \in States /\ Top.fn \notin Scripts \cup {"binary"}
    BY <2>1 DEF Going, States, Scripts
  <2>3. /\ f \in Frames /\ f.fn = Top.fn /\ f.lo = Top.lo /\ ~Late(f)
        /\ Replaces(f, Top, nodes, nodes', toks, toks', cur, cur')
    BY <2>2, GoesOnIn
  <2>4. fn \in {"default", "case"}
    OBVIOUS
  <2> HIDE DEF f, fn
  <2>5. /\ fn \in Calling /\ fn \notin Hollow
        /\ f.fn \in Wide /\ f.fn # "binary" /\ Top.fn # "binary" /\ f.lo <= cur
    BY <1>0, <2>1, <2>3, <2>4 DEF Calling, Hollow, ListNames, Wide
  <2> QED
    BY <2>1, <2>3, <2>5, RanksCalls
<1>8. CASE CaseSep
  <2> DEFINE f == [Top EXCEPT !.st = "start"]
  <2>1. Top.fn = "cases" /\ Become(f) /\ (Advance \/ Stay) /\ UNCHANGED nodes
    BY <1>8 DEF CaseSep, Running
  <2>2. Going /\ "start" \in States /\ Top.fn \notin Scripts \cup {"binary"}
    BY <2>1 DEF Going, States, Scripts
  <2>3. f \in Frames /\ Replaces(f, Top, nodes, nodes', toks, toks', cur, cur')
    BY <2>2, GoesOnIn
  <2> HIDE DEF f
  <2> QED
    BY <2>1, <2>2, <2>3, RanksGoOn
<1>9. CASE CasesEnd
  <2>1. /\ Top.fn = "cases" /\ Make("cases", 0, Top.lo, cur - 1, Top.kids) /\ Return(New)
        /\ Stay
    BY <1>9 DEF CasesEnd, Running
  <2>2. Top.fn \notin {"unit", "binary"} /\ Top.fn \in Hollow
    BY <2>1 DEF Hollow
  <2> QED
    BY <2>1, <2>2, RanksReturnMade
<1> QED
  BY <1>1, <1>2, <1>3, <1>4, <1>5, <1>6, <1>7, <1>8, <1>9

-----------------------------------------------------------------------------
(* parse_binary itself.                                                    *)

\* An operator is eaten.
LEMMA RanksOperator ==
    ASSUME PInv, Ranks, BinaryOperator
    PROVE  Ranks'
<1> DEFINE lo == cur + 1
           a == Frame("prefix", "start", lo, <<>>)
           f == [Top EXCEPT !.st = "rhs", !.at = cur]
<1>1. /\ Top.fn = "binary" /\ Top.st = "loop" /\ Binds(toks, cur) >= Top.prec
      /\ Advance /\ nodes' = nodes /\ stack' = <<a, f>> \o Rest
  BY DEF BinaryOperator, Running, Binds, Token
<1>2. /\ Top \in Frames /\ Top.lo \in Nat \ {0} /\ Top.lo <= cur /\ cur \in Nat \ {0}
      /\ cur <= Len(toks) /\ Len(toks) \in Nat
  BY TopFacts
<1>3. /\ f \in Frames /\ f.fn = "binary" /\ f.st = "rhs" /\ f.at = cur /\ f.lo = Top.lo
      /\ f.prec = Top.prec /\ f.kids = Top.kids
  <2>1. "rhs" \in States /\ cur \in Nat
    BY <1>2 DEF States
  <2> QED
    BY <1>1, <1>2, <2>1 DEF Frames
<1>4. lo \in Nat \ {0} /\ Top.lo < lo /\ cur < lo
  BY <1>2
<1>5. a \in Frames /\ a.fn = "prefix" /\ a.lo = lo /\ a.kids = <<>> /\ a.i = 1
  <2>1. "start" \in States /\ "prefix" \in Functions
    BY Named DEF States
  <2> HIDE DEF lo
  <2> QED
    BY <1>4, <2>1, FrameBegun
<1> HIDE DEF a, f
<1>6. Going
  BY <1>1 DEF Going
<1>7. /\ Wider(nodes, nodes') /\ Longer(toks, toks')
      /\ cur \in 1 .. Len(toks) /\ cur \in 1 .. Len(toks') /\ Binds(toks', cur) = Binds(toks, cur)
  <2>1. Wider(nodes, nodes') /\ Longer(toks, toks')
    BY <1>6, GoesWider
  <2>2. cur \in 1 .. Len(toks)
    BY <1>2
  <2>3. toks'[cur] = toks[cur] /\ cur \in 1 .. Len(toks')
    BY <2>1, <2>2 DEF Longer
  <2> QED
    BY <2>1, <2>2, <2>3 DEF Binds
<1>8. Operands(Top, nodes', toks')
  BY <1>6, <1>7, RanksTop, OperandsOn
<1>9. Acting(f) /\ ~Extending(f) /\ ~Acting(Top)
  BY <1>1, <1>3 DEF Acting, Extending
<1>10. Operands(f, nodes', toks')
  <2>1. ASSUME NEW m \in 1 .. Len(nodes'), Binary(m, nodes')
        PROVE  nodes'[m].at # cur /\ nodes'[m].lo # cur + 1
    <3>1. m \in 1 .. Len(nodes) /\ Binary(m, nodes)
      BY <1>1, <2>1
    <3>2. nodes[m].at < cur - 1 /\ nodes[m].at \in Nat /\ nodes[m].hi < cur
      BY <3>1, NoOperatorAt
    <3>3. nodes[m].lo <= nodes[m].hi + 1 /\ nodes[m].lo \in Nat /\ nodes[m].hi \in Nat
      BY <3>1, NodesBefore, TopFacts, NodeFields
    <3> QED
      BY <1>1, <1>2, <3>2, <3>3
  <2>2. f.lo <= f.at /\ f.at \in 1 .. Len(toks') /\ Binds(toks', f.at) >= f.prec
    BY <1>1, <1>2, <1>3, <1>7
  <2> QED
    BY <1>1, <1>3, <1>8, <1>9, <2>1, <2>2 DEF Operands
<1>11. ASSUME NEW g, g.at \in 1 .. Len(toks), Prolongs(g, Top, nodes, toks, cur)
       PROVE  Prolongs(g, f, nodes', toks', cur')
  <2>1. Binds(toks', g.at) = Binds(toks, g.at)
    BY <1>7, <1>11 DEF Longer, Binds
  <2> QED
    BY <1>1, <1>3, <1>7, <1>9, <1>11, <2>1 DEF Prolongs
<1>12. Replaces(f, Top, nodes, nodes', toks, toks', cur, cur')
  <2>1. Follows(Top, f)
    BY <1>1, <1>2, <1>3 DEF Follows
  <2>2. ~Late(f) /\ f.fn \notin Hollow
    BY <1>3 DEF Late, Scripts, Hollow, ListNames
  <2> QED
    BY <1>3, <1>10, <1>11, <2>1, <2>2 DEF Replaces
<1>13. MayCall(f, a, nodes', toks', cur')
  <2>1. a.fn \notin Wide /\ a.fn \notin Hollow /\ ~Late(a) /\ ~Late(f)
    BY <1>3, <1>5 DEF Wide, Hollow, ListNames, Late, Scripts
  <2>2. Follows(f, a) /\ Apart(f, a) /\ f.lo < a.lo /\ f.at < a.lo
    BY <1>2, <1>3, <1>4, <1>5, <2>1 DEF Follows, Apart
  <2>3. Operands(a, nodes', toks')
    <3>1. Len(a.kids) = 0
      BY <1>5
    <3> QED
      BY <1>5, <3>1 DEF Operands, Acting, Extending
  <2>4. WasCalled(f, a, nodes', toks', cur')
    BY <1>9, <2>1 DEF WasCalled
  <2>5. a.lo > f.lo
    BY <1>2, <1>3, <1>4, <1>5
  <2> QED
    BY <2>1, <2>2, <2>3, <2>4, <2>5 DEF MayCall
<1> QED
  BY <1>1, <1>3, <1>5, <1>6, <1>12, <1>13, RanksStarts

\* What is right of an operator is extended.
LEMMA RanksNested ==
    ASSUME PInv, Ranks, BinaryNested
    PROVE  Ranks'
<1> DEFINE k1 == Top.kids[1]
           k2 == Top.kids[2]
           lo == nodes[k2].lo
           ls == <<k2>>
           fs == <<k1>>
           a == [Frame("binary", "loop", lo, ls) EXCEPT !.prec = Top.prec + 1]
           f == [Top EXCEPT !.st = "nested", !.kids = fs]
<1>1. /\ Top.fn = "binary" /\ Top.st = "rhs" /\ Len(Top.kids) = 2
      /\ Binds(toks, Top.at) < Binds(toks, cur)
      /\ Stay /\ nodes' = nodes /\ stack' = <<a, f>> \o Rest
  BY DEF BinaryNested, Running, Binds, Token
<1>2. /\ Top \in Frames /\ Top.lo \in Nat \ {0} /\ cur \in Nat \ {0}
      /\ toks' = toks /\ cur' = cur
  BY <1>1, TopFacts DEF Stay
<1>3. /\ lo = Top.at + 1 /\ Top.prec \in Nat /\ Top.at \in Nat
      /\ k1 \in 1 .. Len(nodes) /\ k2 \in 1 .. Len(nodes) /\ k1 \in Nat \ {0} /\ k2 \in Nat \ {0}
      /\ 1 \in 1 .. Len(Top.kids) /\ 2 \in 1 .. Len(Top.kids)
  BY <1>1, BinaryTop DEF Spans
<1>4. /\ Operands(Top, nodes, toks) /\ Acting(Top)
  BY <1>1, RanksTop DEF Acting
<1>5. /\ Full(k1, nodes) /\ Full(k2, nodes)
      /\ \A m \in 1 .. Len(nodes) : Binary(m, nodes) =>
            /\ nodes[m].at # Top.lo - 1 /\ nodes[m].at # Top.at
            /\ nodes[m].lo = Top.at + 1 /\ ~Binary(nodes[m].kids[1], nodes)
                  => Binds(toks, Top.at) < Binds(toks, nodes[m].at)
      /\ Top.lo <= Top.at /\ Top.at \in 1 .. Len(toks) /\ Binds(toks, Top.at) >= Top.prec
  BY <1>1, <1>3, <1>4 DEF Operands, Scripts
<1> HIDE DEF k1, k2
<1>6. ls \in Seq(Nat \ {0}) /\ Len(ls) = 1 /\ ls[1] = k2 /\ ls # <<>>
  BY <1>3
<1>7. fs \in Seq(Nat \ {0}) /\ Len(fs) = 1 /\ fs[1] = k1 /\ fs # <<>>
  BY <1>3
<1> HIDE DEF ls, fs, lo
<1>8. /\ f \in Frames /\ f.fn = "binary" /\ f.st = "nested" /\ f.at = Top.at /\ f.lo = Top.lo
      /\ f.prec = Top.prec /\ f.kids = fs
  <2>1. "nested" \in States
    BY DEF States
  <2> QED
    BY <1>1, <1>2, <1>7, <2>1 DEF Frames
<1>9. /\ a \in Frames /\ a.fn = "binary" /\ a.st = "loop" /\ a.lo = lo /\ a.kids = ls
      /\ a.prec = Top.prec + 1
  <2>1. "loop" \in States /\ "binary" \in Functions /\ lo \in Nat \ {0} /\ Top.prec + 1 \in Nat
    BY <1>3, Named DEF States
  <2> DEFINE fn == "binary"
             st == "loop"
             b == Frame(fn, st, lo, ls)
             pr == Top.prec + 1
  <2>2. b \in Frames /\ b.fn = fn /\ b.st = st /\ b.lo = lo /\ b.kids = ls
    <3>1. fn \in Functions /\ st \in States /\ lo \in Nat \ {0} /\ ls \in Seq(Nat \ {0})
      BY <1>6, <2>1
    <3> HIDE DEF fn, st
    <3> QED
      BY <3>1, NewFrame
  <2>3. a = [b EXCEPT !.prec = pr] /\ pr \in Nat
    BY <2>1
  <2> HIDE DEF a, b, pr
  <2>4. a \in Frames /\ a.fn = b.fn /\ a.st = b.st /\ a.lo = b.lo /\ a.kids = b.kids
        /\ a.prec = pr
    BY <2>2, <2>3 DEF Frames
  <2> QED
    BY <2>2, <2>4 DEF pr
<1> HIDE DEF a, f
<1>10. Going
  BY <1>1 DEF Going
<1>11. Acting(f) /\ Extending(f) /\ ~Acting(a) /\ ~Extending(a)
  BY <1>8, <1>9 DEF Acting, Extending
<1>12. Operands(f, nodes', toks')
  <2>1. \A k \in 1 .. Len(f.kids) : f.kids[k] = k1
    <3>1. Len(f.kids) = 1 /\ f.kids[1] = k1
      BY <1>7, <1>8
    <3>2. \A k \in 1 .. Len(f.kids) : k = 1
      BY <3>1
    <3> QED
      BY <3>1, <3>2
  <2>2. Len(f.kids) # 2
    <3>1. Len(f.kids) = 1
      BY <1>7, <1>8
    <3> QED
      BY <3>1
  <2> QED
    BY <1>1, <1>2, <1>3, <1>5, <1>8, <2>1, <2>2 DEF Operands
<1>13. Operands(a, nodes', toks')
  <2>1. \A k \in 1 .. Len(a.kids) : a.kids[k] = k2
    <3>1. Len(a.kids) = 1 /\ a.kids[1] = k2
      BY <1>6, <1>9
    <3>2. \A k \in 1 .. Len(a.kids) : k = 1
      BY <3>1
    <3> QED
      BY <3>1, <3>2
  <2>2. a.lo - 1 = Top.at
    BY <1>3, <1>9
  <2> QED
    BY <1>1, <1>3, <1>5, <1>11, <2>1, <2>2 DEF Operands
<1>14. ASSUME NEW g, Prolongs(g, Top, nodes, toks, cur)
       PROVE  Prolongs(g, f, nodes', toks', cur')
  <2>1. f.kids # <<>> /\ f.kids[1] = k1
    BY <1>7, <1>8
  <2> QED
    BY <1>1, <1>2, <1>4, <1>8, <1>11, <1>14, <2>1 DEF Prolongs, k1
<1>15. ~Late(f) /\ f.fn \notin Hollow /\ ~Late(a) /\ a.fn \notin Hollow
  BY <1>8, <1>9 DEF Late, Scripts, Hollow, ListNames
<1>16. Replaces(f, Top, nodes, nodes', toks, toks', cur, cur')
  <2>1. Follows(Top, f)
    BY <1>1, <1>2, <1>8 DEF Follows
  <2> QED
    BY <1>8, <1>12, <1>14, <1>15, <2>1 DEF Replaces
<1>17. MayCall(f, a, nodes', toks', cur')
  <2>1. f.lo < a.lo /\ f.at < a.lo /\ f.lo <= a.lo /\ f.lo # a.lo /\ a.lo > f.lo
    BY <1>2, <1>3, <1>5, <1>8, <1>9
  <2>2. Prolongs(f, a, nodes', toks', cur')
    BY <1>1, <1>2, <1>3, <1>6, <1>8, <1>9, <1>11 DEF Prolongs
  <2>3. WasCalled(f, a, nodes', toks', cur')
    BY <1>11, <1>15, <2>2 DEF WasCalled
  <2>4. Follows(f, a)
    BY <2>1 DEF Follows
  <2> QED
    BY <1>11, <1>13, <1>15, <2>1, <2>3, <2>4 DEF MayCall
<1> QED
  BY <1>1, <1>8, <1>9, <1>10, <1>16, <1>17, RanksStarts

\* The operator gets its operands.
LEMMA RanksJoin ==
    ASSUME PInv, Ranks, BinaryJoin
    PROVE  Ranks'
<1> DEFINE d == nodes
           e == nodes'
           t == toks
           c == cur
           at == Top.at
           x == Node("bin", Top.at, Top.lo, cur - 1, Top.kids)
           n == Len(nodes)
           m1 == n + 1
           k1 == Top.kids[1]
           k2 == Top.kids[2]
           fs == <<m1>>
           f == [Top EXCEPT !.st = "loop", !.kids = fs]
<1>1. /\ Top.fn = "binary" /\ Top.st \in {"rhs", "nested"} /\ Len(Top.kids) = 2
      /\ Top.st = "rhs" => Binds(t, at) >= Binds(t, c)
      /\ e = Append(d, x) /\ stack' = <<f>> \o Rest /\ toks' = t /\ cur' = c
  BY DEF BinaryJoin, Joining, Running, Binds, Token, Make, Become, Stay, New
<1>2. x.tag = "bin" /\ x.at = at /\ x.lo = Top.lo /\ x.hi = c - 1 /\ x.kids = Top.kids
  BY DEF Node
<1>3. /\ Top \in Frames /\ Top.lo \in Nat \ {0} /\ c \in Nat \ {0} /\ c <= Len(t)
      /\ Len(t) \in Nat /\ d \in Seq(NodeSet) /\ n \in Nat
  BY TopFacts
<1>4. /\ d[k1].lo = Top.lo /\ d[k2].lo = at + 1 /\ d[k2].hi = c - 1 /\ at \in Nat
      /\ k1 \in 1 .. n /\ k2 \in 1 .. n /\ 1 \in 1 .. Len(Top.kids) /\ 2 \in 1 .. Len(Top.kids)
  BY <1>1, BinaryTop DEF Spans
<1>5. /\ Operands(Top, d, t) /\ Ranked(d, t) /\ Acting(Top) /\ Top = Head(stack)
      /\ stack \in Seq(Frames) /\ Len(stack) > 0 /\ RanksOK(stack, d, t, c) /\ Rest = Tail(stack)
  BY <1>1, RanksTop DEF Acting
<1>6. /\ Full(k2, d)
      /\ \A m \in 1 .. n : Binary(m, d) =>
            /\ d[m].at # Top.lo - 1 /\ d[m].at # at
            /\ d[m].lo = at + 1 /\ ~Binary(d[m].kids[1], d) => Binds(t, at) < Binds(t, d[m].at)
      /\ Top.lo <= at /\ at \in 1 .. Len(t)
      /\ Top.st = "nested" => Binary(k2, d)
  BY <1>1, <1>4, <1>5 DEF Operands, Scripts, Extending
<1> HIDE DEF x, k1, k2
<1>7. /\ Len(e) = m1 /\ e[m1] = x /\ \A k \in 1 .. n : e[k] = d[k]
  BY <1>1, <1>3
<1>8. at < x.hi /\ x.hi + 1 = c /\ c \in 1 .. Len(t) /\ Top.lo <= x.hi
  BY <1>2, <1>3, <1>4, <1>6 DEF Full
<1> HIDE DEF n
<1>9. /\ \A k \in 1 .. Len(e) : k \in 1 .. n \/ k = m1
      /\ m1 \in 1 .. Len(e) /\ m1 \in Nat \ {0} /\ \A k \in 1 .. n : k \in 1 .. Len(e)
      /\ n <= Len(e) /\ Len(e) \in Nat
  BY <1>3, <1>7
<1>10. Binary(m1, e) /\ \A k \in 1 .. n : Binary(k, e) <=> Binary(k, d)
  BY <1>2, <1>7 DEF Binary
<1> HIDE DEF m1
<1>11. Longer(t, t) /\ Extends(d, e)
  BY <1>3, <1>7, <1>9 DEF Longer, Extends, n
<1>12. fs \in Seq(Nat \ {0}) /\ Len(fs) = 1 /\ fs[1] = m1 /\ fs # <<>>
  BY <1>9
<1> HIDE DEF fs
<1>13. /\ f \in Frames /\ f.fn = "binary" /\ f.st = "loop" /\ f.at = at /\ f.lo = Top.lo
       /\ f.prec = Top.prec /\ f.kids = fs
  <2>1. "loop" \in States
    BY DEF States
  <2> QED
    BY <1>1, <1>3, <1>12, <2>1 DEF Frames
<1> HIDE DEF f
<1>14. Ranked(e, t)
  <2>1. ASSUME NEW k \in 1 .. n, Binary(k, e)
        PROVE  /\ e[k].kids[1] \in 1 .. Len(e) /\ e[k].kids[2] \in 1 .. Len(e)
               /\ e[k].at \in 1 .. Len(t) /\ e[k].at < e[k].hi /\ e[k].hi + 1 \in 1 .. Len(t)
               /\ RightTo(k, e, t) /\ LeftTo(k, e, t)
    <3>1. /\ d[k].kids[1] \in 1 .. n /\ d[k].kids[2] \in 1 .. n
          /\ d[k].at \in 1 .. Len(t) /\ d[k].at < d[k].hi /\ d[k].hi + 1 \in 1 .. Len(t)
          /\ RightTo(k, d, t) /\ LeftTo(k, d, t) /\ e[k] = d[k] /\ Binary(k, d)
      BY <1>5, <1>7, <1>10, <2>1 DEF Ranked, n
    <3>2. RightTo(k, e, t)
      BY <1>10, <3>1 DEF RightTo
    <3>3. LeftTo(k, e, t)
      <4> SUFFICES ASSUME ~Binary(d[k].kids[1], d), NEW m \in 1 .. Len(e), Binary(m, e),
                          e[m].at = d[k].lo - 1
                   PROVE  Binds(t, e[m].at) < Binds(t, d[k].at)
        BY <1>10, <3>1 DEF LeftTo
      <4>1. CASE m \in 1 .. n
        <5>1. e[m] = d[m] /\ Binary(m, d)
          BY <1>7, <1>10, <4>1
        <5> QED
          BY <3>1, <4>1, <5>1 DEF LeftTo, n
      <4>2. CASE m = m1
        <5>1. d[k].lo \in Nat
          BY <1>3, NodeFields DEF n
        <5>2. d[k].lo = at + 1 /\ e[m].at = at
          BY <1>2, <1>4, <1>7, <4>2, <5>1
        <5> QED
          BY <1>6, <3>1, <5>2
      <4> QED
        BY <1>9, <4>1, <4>2
    <3> QED
      BY <1>9, <3>1, <3>2, <3>3
  <2>2. /\ e[m1].kids[1] \in 1 .. Len(e) /\ e[m1].kids[2] \in 1 .. Len(e)
        /\ e[m1].at \in 1 .. Len(t) /\ e[m1].at < e[m1].hi /\ e[m1].hi + 1 \in 1 .. Len(t)
    BY <1>2, <1>4, <1>6, <1>7, <1>8, <1>9 DEF k1, k2
  <2>3. RightTo(m1, e, t)
    <3>1. e[m1].kids[2] = k2 /\ e[m1].at = at /\ e[m1].hi + 1 = c
      BY <1>2, <1>7, <1>8 DEF k2
    <3>2. CASE Top.st = "rhs"
      BY <1>1, <3>1, <3>2 DEF RightTo
    <3>3. CASE Top.st = "nested"
      BY <1>4, <1>6, <1>10, <3>1, <3>3 DEF RightTo
    <3> QED
      BY <1>1, <3>2, <3>3
  <2>4. LeftTo(m1, e, t)
    <3> SUFFICES ASSUME NEW m \in 1 .. Len(e), Binary(m, e) PROVE e[m].at # x.lo - 1
      BY <1>7 DEF LeftTo
    <3>1. CASE m \in 1 .. n
      BY <1>2, <1>6, <1>7, <1>10, <3>1
    <3>2. CASE m = m1
      BY <1>2, <1>3, <1>4, <1>6, <1>7, <3>2
    <3> QED
      BY <1>9, <3>1, <3>2
  <2> QED
    BY <1>9, <2>1, <2>2, <2>3, <2>4 DEF Ranked
<1>15. ASSUME NEW p \in 1 .. Len(stack) - 1 PROVE Operands(Frm(stack, p), e, t)
  <2> DEFINE g == Frm(stack, p)
             z == Len(stack)
  <2>1. z \in Nat \ {0} /\ Top = Frm(stack, z) /\ \A q \in 1 .. z : Frm(stack, q) \in Frames
    BY <1>5, Ends12
  <2>2. p < z /\ p \in 1 .. z /\ z \in 1 .. z
    BY <2>1
  <2>3. /\ Under(g, Top) /\ (Apart(g, Top) \/ (z = p + 1 /\ Extending(g)))
        /\ Operands(g, d, t) /\ g \in Frames
        /\ z = p + 1 => WasCalled(g, Top, d, t, c)
    BY <1>5, <2>1, <2>2 DEF RanksOK
  <2>4. g.lo \in Nat /\ g.at \in Nat /\ Len(g.kids) \in Nat
    BY <2>3, FrameNumbers, FrameFields
  <2> HIDE DEF g, z
  <2>5. \A k \in 1 .. Len(g.kids) :
           g.kids[k] \in 1 .. Len(e) /\ (g.fn \notin Scripts => Full(g.kids[k], e))
    <3>1. \A k \in 1 .. Len(g.kids) :
             g.kids[k] \in 1 .. n /\ (g.fn \notin Scripts => Full(g.kids[k], d))
      BY <2>3 DEF Operands, n
    <3> QED
      BY <1>7, <1>9, <3>1 DEF Full
  <2>6. g.fn = "binary" => \A m \in 1 .. Len(e) : Binary(m, e) => e[m].at # g.lo - 1
    <3> SUFFICES ASSUME g.fn = "binary", NEW m \in 1 .. Len(e), Binary(m, e)
                 PROVE  e[m].at # g.lo - 1
      OBVIOUS
    <3>1. CASE m \in 1 .. n
      BY <1>7, <1>10, <2>3, <3>1 DEF Operands, n
    <3>2. CASE m = m1
      <4>1. e[m].at = at
        BY <1>2, <1>7, <3>2
      <4>2. g.lo <= Top.lo /\ Top.lo <= at
        BY <1>6, <2>3 DEF Under
      <4> HIDE DEF at
      <4>3. at \in Nat /\ Top.lo \in Nat /\ g.lo \in Nat
        BY <1>3, <1>4, <2>4
      <4>4. g.lo <= at /\ at # g.lo - 1
        BY <4>2, <4>3
      <4> QED
        BY <4>1, <4>4
    <3> QED
      BY <1>9, <3>1, <3>2
  <2>7. Extending(g) /\ Len(g.kids) = 2 => Binary(g.kids[2], e)
    <3>1. Len(g.kids) = 2 => 2 \in 1 .. Len(g.kids)
      OBVIOUS
    <3>2. Len(g.kids) = 2 => g.kids[2] \in 1 .. n
      BY <2>3, <3>1 DEF Operands, n
    <3> QED
      BY <1>10, <2>3, <3>2 DEF Operands
  <2>8. ASSUME Acting(g)
        PROVE  /\ g.lo <= g.at /\ g.at \in 1 .. Len(t) /\ Binds(t, g.at) >= g.prec
               /\ \A m \in 1 .. Len(e) : Binary(m, e) =>
                     /\ e[m].at # g.at
                     /\ e[m].lo = g.at + 1 /\ ~Binary(e[m].kids[1], e)
                           => Binds(t, g.at) < Binds(t, e[m].at)
    <3>1. ASSUME NEW m \in 1 .. n, Binary(m, e)
          PROVE  /\ e[m].at # g.at
                 /\ e[m].lo = g.at + 1 /\ ~Binary(e[m].kids[1], e)
                       => Binds(t, g.at) < Binds(t, e[m].at)
      <4>1. e[m] = d[m] /\ Binary(m, d) /\ m \in 1 .. Len(d)
        BY <1>7, <1>10, <3>1 DEF n
      <4>2. d[m].kids[1] \in 1 .. n
        BY <1>5, <4>1 DEF Ranked, n
      <4>3. Binary(d[m].kids[1], e) <=> Binary(d[m].kids[1], d)
        BY <1>10, <4>2
      <4> QED
        BY <2>3, <2>8, <4>1, <4>3 DEF Operands
    <3>2. e[m1].at # g.at
      <4>1. g.at < Top.lo /\ e[m1].at = at
        BY <1>2, <1>7, <2>3, <2>8 DEF Under
      <4> QED
        BY <1>3, <1>4, <1>6, <2>4, <4>1
    <3>3. ASSUME e[m1].lo = g.at + 1, ~Binary(e[m1].kids[1], e)
          PROVE  Binds(t, g.at) < Binds(t, e[m1].at)
      <4>1. Top.lo = g.at + 1 /\ e[m1].at = at /\ e[m1].kids[1] = k1
        BY <1>2, <1>7, <3>3 DEF k1
      <4>2. ~Binary(k1, d)
        BY <1>4, <1>10, <3>3, <4>1
      <4>3. ~Apart(g, Top)
        BY <1>1, <2>8, <4>1 DEF Apart, Wide
      <4>4. Prolongs(g, Top, d, t, c)
        BY <2>3, <4>3 DEF WasCalled
      <4>5. Binds(t, at) > Binds(t, g.at)
        BY <1>5, <4>2, <4>4 DEF Prolongs, k1
      <4>6. Binds(t, at) \in Int /\ Binds(t, g.at) \in Int
        BY Operators DEF Binds
      <4> QED
        BY <4>1, <4>5, <4>6
    <3>4. g.lo <= g.at /\ g.at \in 1 .. Len(t) /\ Binds(t, g.at) >= g.prec
      BY <2>3, <2>8 DEF Operands
    <3> QED
      BY <1>9, <3>1, <3>2, <3>3, <3>4
  <2> QED
    BY <2>5, <2>6, <2>7, <2>8 DEF Operands, g
<1>16. ~Acting(f) /\ ~Extending(f) /\ ~Late(f) /\ f.fn \notin Hollow
  BY <1>13 DEF Acting, Extending, Late, Scripts, Hollow, ListNames
<1>17. Operands(f, e, t)
  <2>1. \A k \in 1 .. Len(f.kids) : f.kids[k] = m1
    <3>1. Len(f.kids) = 1 /\ f.kids[1] = m1
      BY <1>12, <1>13
    <3>2. \A k \in 1 .. Len(f.kids) : k = 1
      BY <3>1
    <3> QED
      BY <3>1, <3>2
  <2>2. Full(m1, e)
    BY <1>2, <1>7, <1>8 DEF Full
  <2>3. ASSUME NEW m \in 1 .. Len(e), Binary(m, e) PROVE e[m].at # f.lo - 1
    <3>1. CASE m \in 1 .. n
      BY <1>6, <1>7, <1>10, <1>13, <2>3, <3>1
    <3>2. CASE m = m1
      BY <1>2, <1>3, <1>4, <1>6, <1>7, <1>13, <3>2
    <3> QED
      BY <1>9, <3>1, <3>2
  <2> QED
    BY <1>9, <1>16, <2>1, <2>2, <2>3 DEF Operands
<1>18. ASSUME NEW g, Prolongs(g, Top, d, t, c) PROVE Prolongs(g, f, e, t, c)
  <2>1. f.kids # <<>> /\ f.kids[1] = m1
    BY <1>12, <1>13
  <2> QED
    BY <1>10, <1>13, <1>18, <2>1 DEF Prolongs
<1>19. Replaces(f, Head(stack), d, e, t, t, c, c)
  <2>1. Follows(Top, f)
    BY <1>1, <1>3, <1>13 DEF Follows
  <2> QED
    BY <1>5, <1>13, <1>16, <1>17, <1>18, <2>1 DEF Replaces
<1>20. Len(d) \in Nat /\ Len(d) <= Len(e)
  BY <1>3, <1>9 DEF n
<1>21. RanksOK(<<f>> \o Tail(stack), e, t, c)
  BY <1>5, <1>9, <1>11, <1>13, <1>14, <1>15, <1>19, <1>20, RanksReplace
<1> QED
  BY <1>1, <1>5, <1>21 DEF Ranks

\* No operator that binds as tightly as asked for follows.
LEMMA RanksEnds ==
    ASSUME PInv, Ranks, BinaryDone
    PROVE  Ranks'
<1> DEFINE k1 == Top.kids[1]
<1>1. /\ Top.fn = "binary" /\ Top.st = "loop" /\ Binds(toks, cur) < Top.prec
      /\ Return(k1) /\ Stay /\ nodes' = nodes /\ Top.fn # "unit"
  BY DEF BinaryDone, Running, Binds, Token
<1>2. Going /\ cur' = cur /\ cur \in Nat
  BY <1>1, TopFacts DEF Going, Stay
<1>3. 1 \in 1 .. Len(Top.kids) /\ k1 \in 1 .. Len(nodes)
  BY <1>1, BinaryTop
<1>4. Full(k1, nodes)
  BY <1>1, <1>3, RanksTop DEF Operands, Scripts
<1>5. ASSUME NEW f \in Frames, Prolongs(f, Top, nodes, toks, cur), Binds(toks, f.at) >= f.prec
      PROVE  Binary(k1, nodes)
  <2>1. ~Acting(Top) /\ Top.prec = f.prec + 1 /\ f.prec \in Nat
    BY <1>1, <1>5, FrameNumbers DEF Acting, Prolongs
  <2>2. Binds(toks, cur) \in Int /\ Binds(toks, f.at) \in Int
    BY Operators DEF Binds
  <2>3. ~(Binds(toks, cur) > Binds(toks, f.at))
    BY <1>1, <1>5, <2>1, <2>2
  <2> QED
    BY <1>5, <2>1, <2>3 DEF Prolongs
<1> HIDE DEF k1
<1>6. Yields(Top, k1, nodes, nodes', toks, cur)
  BY <1>1, <1>3, <1>4, <1>5 DEF Yields
<1>7. cur' \in Nat /\ cur <= cur'
  BY <1>2
<1> QED
  BY <1>1, <1>2, <1>6, <1>7, RanksReturn

-----------------------------------------------------------------------------
(* Every step keeps all that, and it says what operands belong to.         *)

\* Every step of the parser keeps Ranks.
LEMMA RanksKeeps == PInv /\ Ranks /\ Next => Ranks'
<1> SUFFICES ASSUME PInv, Ranks, Next PROVE Ranks'
  OBVIOUS
<1>1. CASE ScriptEat \/ ScriptChoose \/ ScriptCall \/ ScriptDone
  BY <1>1, RanksScripts
<1>2. CASE ListItem \/ ListComma \/ ListEnd \/ TypeSuffix
  BY <1>2, RanksLists
<1>3. CASE \/ PrefixOperator \/ PrefixDone \/ PrefixNone
           \/ PostfixOperator \/ PostfixTail \/ PostfixDone
  BY <1>3, RanksUnary
<1>4. CASE BinaryOperator \/ BinaryNested \/ BinaryJoin \/ BinaryDone
  BY <1>4, RanksOperator, RanksNested, RanksJoin, RanksEnds
<1>5. CASE \/ Literal \/ PrimaryBracketed \/ Known \/ PeekAfterName
           \/ TryTypeName \/ DecideByPeek \/ UseAhead \/ UseDecide
           \/ Ref \/ LeafStart \/ LeafDone
  BY <1>5, RanksPrimary
<1>6. CASE \/ StatementStart \/ BlockOpen \/ BlockStatement \/ BlockSemi \/ BlockClose
           \/ Declare \/ CaseStart \/ CaseSep \/ CasesEnd
  BY <1>6, RanksStatements
<1>7. CASE Finish \/ Reject \/ Stopped
  <2>1. stack' = stack /\ nodes' = nodes /\ toks' = toks /\ cur' = cur
    BY <1>7 DEF Finish, Reject, Stopped, vars, Stay
  <2> QED
    BY <2>1 DEF Ranks
<1> QED
  BY <1>1, <1>2, <1>3, <1>4, <1>5, <1>6, <1>7 DEF Next

\* At first there are no operators, and no function has been called by parse_binary
\* to extend what another one has read.
LEMMA RanksFirst == Init => Ranks
<1> SUFFICES ASSUME Init PROVE Ranks
  OBVIOUS
<1> DEFINE a == Frame("prefix", "start", 1, <<>>)
           b == Frame("binary", "loop", 1, <<>>)
           o == Frame("block", "open", 1, <<>>)
           r == Frame("unit", "wait", 1, <<>>)
<1>1. nodes = <<>> /\ Len(nodes) = 0
  BY DEF Init
<1>2. stack = <<a, b, r>> \/ stack = <<o, r>>
  BY DEF Init
<1>3. /\ a.fn = "prefix" /\ a.lo = 1 /\ a.kids = <<>>
      /\ b.fn = "binary" /\ b.st = "loop" /\ b.lo = 1 /\ b.kids = <<>>
      /\ o.fn = "block" /\ o.lo = 1 /\ o.kids = <<>>
      /\ r.fn = "unit" /\ r.lo = 1 /\ r.kids = <<>>
  BY DEF Frame
<1> HIDE DEF a, b, o, r
<1>4. \A f \in {a, b, o, r} :
         /\ f.lo = 1 /\ f.kids = <<>> /\ Len(f.kids) = 0 /\ ~Acting(f) /\ ~Extending(f) /\ ~Late(f)
         /\ f.fn \notin Hollow
  BY <1>3 DEF Acting, Extending, Late, Scripts, Hollow, ListNames
<1>5. \A f \in {a, b, o, r} : Operands(f, nodes, toks)
  BY <1>1, <1>4 DEF Operands
<1>6. \A f, g \in {a, b, o, r} : /\ Under(f, g) /\ Apart(f, g)
                                /\ WasCalled(f, g, nodes, toks, cur)
  BY <1>4 DEF Under, Apart, WasCalled
<1>7. Ranked(nodes, toks)
  BY <1>1 DEF Ranked
<1>8. Len(stack) \in Nat \ {0} /\ \A p \in 1 .. Len(stack) : Frm(stack, p) \in {a, b, o, r}
  <2> DEFINE S == {a, b, o, r}
  <2>1. a \in S /\ b \in S /\ o \in S /\ r \in S
    OBVIOUS
  <2> HIDE DEF S
  <2>2. /\ <<a, b, r>> \in Seq(S) /\ Len(<<a, b, r>>) > 0
        /\ <<o, r>> \in Seq(S) /\ Len(<<o, r>>) > 0
    BY <2>1
  <2>3. stack \in Seq(S) /\ Len(stack) > 0
    BY <1>2, <2>2
  <2>4. Len(stack) \in Nat \ {0} /\ \A p \in 1 .. Len(stack) : Frm(stack, p) \in S
    BY <2>3, Ends12
  <2> QED
    BY <2>4 DEF S
<1> DEFINE z == Len(stack)
<1>9. z \in 1 .. z /\ \A p \in 1 .. z - 1 : p \in 1 .. z /\ p + 1 \in 1 .. z
  BY <1>8
<1> QED
  BY <1>4, <1>5, <1>6, <1>7, <1>8, <1>9 DEF Ranks, RanksOK

\* What Ranked says of the nodes is what OperandToTighter says of them.
LEMMA RanksMean == Ranks => OperandToTighter
<1> SUFFICES ASSUME Ranks, NEW n \in Bins
             PROVE  /\ ~IsBin(Right(n)) /\ nodes[n].hi < cur
                          => Prec(n) >= BinPrecedence(toks[nodes[n].hi + 1])
                    /\ ~IsBin(Left(n)) =>
                          \A m \in Bins : nodes[m].at = nodes[n].lo - 1 => Prec(m) < Prec(n)
  BY DEF OperandToTighter
<1>1. n \in 1 .. Len(nodes) /\ Binary(n, nodes)
  BY DEF Bins, IsBin, Binary
<1>2. RightTo(n, nodes, toks) /\ LeftTo(n, nodes, toks)
  BY <1>1 DEF Ranks, RanksOK, Ranked
<1>3. \A m \in Bins : m \in 1 .. Len(nodes) /\ Binary(m, nodes)
  BY DEF Bins, IsBin, Binary
<1> QED
  BY <1>2, <1>3 DEF RightTo, LeftTo, IsBin, Left, Right, Prec, Binary, Binds

\* An operand between two binary operators goes to the one that binds tighter,
\* and to the left one of two that bind alike, whatever is nested in what and
\* however often the parser looks ahead and goes back.
THEOREM OperandsGoToTighter == Spec => []OperandToTighter
<1>1. Init => IInv /\ Ranks
  BY InitHolds, RanksFirst
<1>2. IInv /\ Ranks /\ [Next]_vars => (IInv /\ Ranks)'
  <2>1. ASSUME IInv, Ranks, Next PROVE Ranks'
    BY <2>1, RanksKeeps DEF IInv
  <2>2. ASSUME Ranks, UNCHANGED vars PROVE Ranks'
    BY <2>2 DEF vars, Ranks
  <2> QED
    BY <2>1, <2>2, StepHolds
<1>3. Ranks => OperandToTighter
  BY RanksMean
<1> QED
  BY <1>1, <1>2, <1>3, PTL DEF Spec

=============================================================================
