----------------------------- MODULE TypingProofs ------------------------------
(***************************************************************************)
(* Proofs about module Typing, for every family of statements and every    *)
(* width of the integers: its type correctness; that a nullptr is followed *)
(* only where an operation is read before it has a type (NullDeref); that  *)
(* the types in the tree are those of the values (LabelsTrue); that        *)
(* instructions have operands of their type (WellTyped); and that what the *)
(* analysis accepts is lowered (AcceptedIsLowered), but for what these     *)
(* properties name.                                                        *)
(***************************************************************************)
EXTENDS Typing, SequenceTheorems, TLAPS

-----------------------------------------------------------------------------
(* The tree.                                                               *)

\* The empty text: no operator, no verdict yet.
Nil == ""

Operations == BinOps \cup UnOps \cup {Nil}
Compounds  == {Nil} \cup (BinOps \ (Comparisons \cup {"land", "lor"}))

NodeType == [kind : Kinds, op : Operations, t : Types, bits : Nat,
             l : Nat, r : Nat, lo : Nat, bare : BOOLEAN, born : Types]

Leafs   == {"lit", "ref"}
Primary == {"lit", "ref", "paren", "un", "cast"}

\* The nodes that are no operand yet are the roots of a forest that stands in
\* the order of the text.
Forest ==
    /\ nodes \in Seq(NodeType) /\ open \in Seq(Nat)
    /\ (open = <<>>) = (nodes = <<>>)
    /\ open # <<>> => open[Len(open)] = Len(nodes) /\ nodes[open[1]].lo = 1
    /\ \A i \in 1..Len(open) : open[i] \in 1..Len(nodes)
    /\ \A i \in 2..Len(open) : nodes[open[i]].lo = open[i - 1] + 1

\* What a node may be of, and the type it is made with.
Operands(n, k) ==
    /\ n.kind \notin Leafs =>
          /\ n.l \in 1..k - 1 /\ n.lo = nodes[n.l].lo
          /\ nodes[n.l].kind \notin Roots
          /\ nodes[n.l].kind = "asn" => n.kind = "eval"
    /\ n.kind \in Pairs =>
          /\ n.r \in 1..k - 1 /\ n.l < n.r /\ nodes[n.r].lo = n.l + 1
          /\ nodes[n.r].kind \notin Roots \cup {"asn"}
    /\ n.kind = "asn" => nodes[n.l].kind = "ref"
    /\ n.kind = "un" => /\ nodes[n.l].kind \in Primary
                        /\ n.op \in {"inc", "dec"} => nodes[n.l].kind = "ref"

Made(n) ==
    /\ n.kind \in Leafs \cup {"cast", "init"} => n.t # None
    /\ n.kind = "un" => n.op \in UnOps
    /\ n.kind = "bin" => n.op \in BinOps
    /\ n.kind = "asn" => n.op \in Compounds
    /\ n.kind \in {"bin", "asn", "paren"} => n.born = nodes[n.l].born
    /\ n.kind \in {"lit", "cast", "init"} => n.born = n.t
    /\ n.kind \in {"ref", "un", "infer", "cond", "eval", "case"} => n.born = None

Node(k) ==
    LET n == nodes[k] IN
    /\ n.l \in 0..k - 1 /\ n.r \in 0..k - 1 /\ n.lo \in 1..k
    /\ Operands(n, k) /\ Made(n)

\* Two subtrees are apart, or one is within the other.
Nests == \A a, b \in 1..Len(nodes) : a < b => a < nodes[b].lo \/ nodes[b].lo <= nodes[a].lo

\* The statement is the last node, and an assignment stands right before it.
Rooted ==
    /\ \A k \in 1..Len(nodes) :
          /\ nodes[k].kind \in Roots => k = Len(nodes)
          /\ nodes[k].kind = "asn" => k = Len(nodes) \/ (k = Len(nodes) - 1 /\ nodes[Len(nodes)].kind \in Roots)
    /\ pass # "parse" => nodes # <<>> /\ nodes[Len(nodes)].kind \in Roots

Shape == Forest /\ (\A k \in 1..Len(nodes) : Node(k)) /\ Nests /\ Rooted

-----------------------------------------------------------------------------
(* The passes.                                                             *)

Passes == {"parse", "resolve", "analyse", "lower", "done"}

Progress ==
    /\ family \in Families /\ arg \in family.args
    /\ pass \in Passes /\ verdict \in Verdicts
    /\ at \in Nat /\ at > 0
    /\ pass = "parse" => at = 1
    /\ pass # "parse" => at <= Len(nodes)
    /\ pass # "done" => verdict = Nil
    /\ ty \in [1..Len(nodes) -> Types] /\ wraps \in [1..Len(nodes) -> Types]
    /\ Len(vals) <= Len(nodes)
    /\ pass \in {"parse", "resolve", "analyse"} => vals = <<>>
    /\ pass = "lower" => Len(vals) = at - 1
    /\ ill \subseteq 1..Len(vals)

-----------------------------------------------------------------------------
(* The types of the nodes.                                                 *)

\* Node k has been visited by the analysis, or passed over.
Seen(k) == pass = "lower" \/ (pass = "analyse" /\ k < at)

\* The analysis has not recorded a type for it.
Raw(k) == pass # "done" /\ (~Seen(k) \/ UnderCast(k))

\* A type that has been known from the start is kept until the analysis.
Kept(k) ==
    /\ nodes[k].kind \in {"lit", "cast", "init", "cond", "eval", "case"} => ty[k] = nodes[k].born
    /\ nodes[k].kind = "paren" /\ nodes[k].born # None => ty[k] = nodes[k].born
    /\ nodes[k].kind \in {"bin", "asn"} /\ Raw(k) => ty[k] = nodes[k].born
    /\ pass = "parse" => ty[k] = nodes[k].born

\* Name resolution has been at k.
Resolved(k) == pass \in {"analyse", "lower"} \/ (pass = "resolve" /\ k < at)

Early == \E k \in 1..Len(nodes) : ReadTooEarly(k)

\* What has a type, if no operation is read before it has one.
Known(k) ==
    /\ Resolved(k) /\ nodes[k].kind \in {"lit", "ref", "cast", "paren", "un", "init", "infer"} => ty[k] # None
    /\ Seen(k) /\ nodes[k].kind \in {"bin", "asn"} => ty[k] # None

\* A comparison or a ! whose record is read in a parenthesis or a cast.
Odd(k) == (IsOp(k, Comparisons) \/ (nodes[k].kind = "un" /\ nodes[k].op = "lnot")) /\ Enclosed(k)

Even(k) == \A j \in Tree(k) : ~Odd(j)

\* How the type of a node is that of its operand.
Steady(k) ==
    LET n == nodes[k] IN
    /\ n.kind = "ref" /\ Resolved(k) => ty[k] = n.t
    /\ n.kind = "un" /\ n.op \in {"inc", "dec"} /\ Resolved(k) => ty[k] = nodes[n.l].t
    /\ Resolved(k) /\ n.kind = "paren" /\ ty[k] # None => ty[k] = ty[n.l]
    /\ Resolved(k) /\ n.kind = "un" /\ n.op # "lnot" /\ ty[k] # None /\ (Enclosed(k) \/ Seen(k)) => ty[k] = ty[n.l]
    /\ Seen(k) /\ n.kind = "un" /\ n.op = "lnot" /\ ~UnderCast(k) => ty[k] = "bool"
    /\ n.kind = "bin" /\ n.op \notin Comparisons
       /\ (\/ Enclosed(k) /\ n.born # None /\ pass \in {"resolve", "analyse", "lower"}
           \/ Seen(k) /\ ~UnderCast(k)) => ty[k] = ty[n.l]
    /\ Seen(k) /\ n.kind = "bin" /\ n.op \in Comparisons /\ ~UnderCast(k) => ty[k] = "bool"
    /\ Seen(k) /\ n.kind = "asn" => ty[k] = ty[n.l]

\* The cast that the analysis puts in.
Wrapped(k) ==
    /\ pass # "done" /\ ~Seen(k) => wraps[k] = None
    /\ pass \notin {"parse", "done"} /\ UnderCast(k) => wraps[k] = None
    /\ nodes[k].kind \notin Pairs \cup Targets => wraps[k] = None
    /\ Seen(k) /\ ~UnderCast(k) /\ nodes[k].kind \in Pairs \cup Targets =>
          \/ Check(k) = "same" /\ wraps[k] = None
          \/ Check(k) = "cast" /\ wraps[k] = Expected(k)
    /\ Seen(k) /\ ~UnderCast(k) /\ nodes[k].kind = "cast" =>
          ty[nodes[k].l] # None /\ CanCastTo(ty[nodes[k].l], nodes[k].t)

\* A type that is a template's parameter is written within.
Given(k) ==
    "T" \in {nodes[k].born, ty[k], wraps[k]} => \E j \in Tree(k) : Dependent(j)

Typed ==
    \A k \in 1..Len(nodes) :
        /\ Kept(k)
        /\ Early \/ Known(k)
        /\ Even(k) => Steady(k)
        /\ Wrapped(k)
        /\ Given(k)

-----------------------------------------------------------------------------
(* The values.                                                             *)

MirTypes == MirInts \cup Floats \cup Pointers

Valued == \A k \in 1..Len(vals) : vals[k].ty \in MirTypes \/ \E j \in Tree(k) : Dependent(j)

\* What is promised of the values and of how the compiler ends.
Outcome == NullDeref /\ Valued /\ LabelsTrue /\ WellTyped /\ AcceptedIsLowered

IInv == Shape /\ Progress /\ Typed /\ Outcome

-----------------------------------------------------------------------------
(* The tree grows.                                                         *)

\* Node x is put on the last n of the open ones: what Make does to the tree.
Joins(n, x) ==
    /\ x \in NodeType /\ n \in 0..2 /\ n <= Len(open)
    /\ n = 0 => x.kind \in Leafs /\ x.l = 0 /\ x.lo = Len(nodes) + 1
    /\ n > 0 => x.kind \notin Leafs /\ x.l = open[Len(open) - n + 1] /\ x.lo = nodes[x.l].lo
    /\ IF n = 2 THEN x.kind \in Pairs /\ x.r = Top ELSE x.kind \notin Pairs /\ x.r = 0
    /\ x.kind \in Roots => n = Len(open)
    /\ open # <<>> /\ nodes[Top].kind = "asn" => x.kind = "eval"
    /\ x.kind = "asn" => nodes[x.l].kind = "ref"
    /\ x.kind = "un" => nodes[x.l].kind \in Primary /\ (x.op \in {"inc", "dec"} => nodes[x.l].kind = "ref")
    /\ Made(x)
    /\ nodes' = Append(nodes, x)
    /\ open' = Append(SubSeq(open, 1, Len(open) - n), Len(nodes) + 1)
    /\ ty' = Append(ty, x.born) /\ wraps' = Append(wraps, None)
    /\ pass' = IF x.kind \in Roots THEN "resolve" ELSE "parse"
    /\ UNCHANGED <<family, arg, at, vals, ill, verdict>>

\* What is known of the open nodes while a statement is written: the last one
\* is the last node, the ones before it stand right before its first node.
LEMMA OpenNodes ==
    ASSUME Shape, open # <<>>
    PROVE  /\ Len(open) \in Nat \ {0} /\ Len(nodes) \in Nat \ {0}
           /\ Top = Len(nodes)
           /\ Len(open) > 1 => /\ Second \in 1..Len(nodes) /\ Second < Top
                               /\ nodes[Top].lo = Second + 1
<1>1. Len(open) \in Nat \ {0} /\ Len(nodes) \in Nat \ {0}
  BY DEF Shape, Forest
<1>2. Top = Len(nodes)
  BY DEF Shape, Forest, Top
<1>3. ASSUME Len(open) > 1
      PROVE  /\ Second \in 1..Len(nodes) /\ Second < Top
             /\ nodes[Top].lo = Second + 1
  <2>1. Len(open) \in 2..Len(open) /\ Len(open) - 1 \in 1..Len(open)
    BY <1>1, <1>3
  <2>2. nodes[Top].lo = Second + 1
    BY <2>1 DEF Shape, Forest, Top, Second
  <2>3. Second \in 1..Len(nodes)
    BY <2>1 DEF Shape, Forest, Second
  <2>4. nodes[Len(nodes)].lo \in 1..Len(nodes)
    BY <1>1 DEF Shape, Node
  <2> QED BY <1>1, <1>2, <2>2, <2>3, <2>4
<1> QED BY <1>1, <1>2, <1>3

\* The nodes that were there are as they were.
LEMMA Appended ==
    ASSUME Shape, NEW x \in NodeType, nodes' = Append(nodes, x)
    PROVE  /\ Len(nodes) \in Nat /\ Len(nodes') = Len(nodes) + 1
           /\ nodes' \in Seq(NodeType)
           /\ \A i \in 1..Len(nodes) : nodes'[i] = nodes[i]
           /\ nodes'[Len(nodes) + 1] = x
  BY DEF Shape, Forest

\* The open nodes that are no operands of the new one stay, and it is the last.
LEMMA Reopened ==
    ASSUME Shape, NEW x, NEW n \in 0..2, Joins(n, x)
    PROVE  /\ Len(open') = Len(open) - n + 1 /\ Len(open) \in Nat
           /\ open' \in Seq(Nat)
           /\ \A i \in 1..Len(open) - n : open'[i] = open[i]
           /\ open'[Len(open) - n + 1] = Len(nodes) + 1
<1>1. open \in Seq(Nat) /\ n <= Len(open) /\ Len(nodes) \in Nat /\ Len(open) \in Nat
  BY DEF Shape, Forest, Joins
<1>2. open' = Append(SubSeq(open, 1, Len(open) - n), Len(nodes) + 1)
  BY DEF Joins
<1> DEFINE s == SubSeq(open, 1, Len(open) - n)
<1>3. s \in Seq(Nat) /\ Len(s) = Len(open) - n /\ \A i \in 1..Len(open) - n : s[i] = open[i]
  BY <1>1
<1> HIDE DEF s
<1>4. open' = Append(s, Len(nodes) + 1)
  BY <1>2 DEF s
<1> QED BY <1>1, <1>3, <1>4

\* The forest stays one.
LEMMA GrowForest ==
    ASSUME Shape, pass = "parse", NEW x, NEW n \in 0..2, Joins(n, x)
    PROVE  Forest'
<1> DEFINE N0 == Len(nodes)
           m  == Len(open)
<1>1. x \in NodeType /\ nodes' = Append(nodes, x) /\ n <= m
  BY DEF Joins
<1>2. /\ N0 \in Nat /\ Len(nodes') = N0 + 1 /\ nodes' \in Seq(NodeType)
      /\ \A i \in 1..N0 : nodes'[i] = nodes[i]
      /\ nodes'[N0 + 1] = x
  BY <1>1, Appended
<1>3. /\ Len(open') = m - n + 1 /\ m \in Nat /\ open' \in Seq(Nat)
      /\ \A i \in 1..m - n : open'[i] = open[i]
      /\ open'[m - n + 1] = N0 + 1
  BY Reopened
<1>4. /\ \A i \in 1..m : open[i] \in 1..N0
      /\ m > 0 => nodes[open[1]].lo = 1 /\ open[m] = N0
      /\ m = 0 => N0 = 0
      /\ \A i \in 2..m : nodes[open[i]].lo = open[i - 1] + 1
  BY DEF Shape, Forest
<1>5. /\ n = 0 => x.lo = N0 + 1
      /\ n > 0 => x.lo = nodes[open[m - n + 1]].lo
  BY DEF Joins
<1> HIDE DEF N0, m
<1>6. open' # <<>> /\ nodes' # <<>>
  <2>1. Len(open') > 0 /\ Len(nodes') > 0
    BY <1>1, <1>2, <1>3
  <2> QED BY <2>1
<1>7. ASSUME NEW i \in 1..m - n + 1
      PROVE  open'[i] \in 1..N0 + 1
  <2>1. CASE i = m - n + 1
    BY <2>1, <1>2, <1>3
  <2>2. CASE i # m - n + 1
    <3>1. i \in 1..m - n /\ i \in 1..m
      BY <2>2, <1>1, <1>3
    <3>2. open[i] \in 1..N0 /\ open'[i] = open[i]
      BY <3>1, <1>3, <1>4
    <3> QED BY <3>2, <1>2
  <2> QED BY <2>1, <2>2
<1>8. nodes'[open'[1]].lo = 1
  <2>1. CASE m = n
    <3>1. open'[1] = N0 + 1 /\ nodes'[open'[1]] = x
      BY <2>1, <1>2, <1>3
    <3>2. CASE n = 0
      BY <2>1, <3>1, <3>2, <1>4, <1>5
    <3>3. CASE n > 0
      BY <2>1, <3>1, <3>3, <1>4, <1>5
    <3> QED BY <3>2, <3>3
  <2>2. CASE m # n
    <3>1. 1 \in 1..m - n /\ 1 \in 1..m /\ open'[1] = open[1]
      BY <2>2, <1>1, <1>3
    <3>2. nodes'[open[1]] = nodes[open[1]]
      BY <3>1, <1>2, <1>4
    <3> QED BY <3>1, <3>2, <1>3, <1>4
  <2> QED BY <2>1, <2>2
<1>9. ASSUME NEW i \in 2..m - n + 1
      PROVE  nodes'[open'[i]].lo = open'[i - 1] + 1
  <2>1. i - 1 \in 1..m - n /\ open'[i - 1] = open[i - 1]
    BY <1>1, <1>3
  <2>2. CASE i = m - n + 1
    <3>1. nodes'[open'[i]] = x
      BY <2>2, <1>2, <1>3
    <3>2. CASE n = 0
      <4>1. i - 1 = m /\ m > 0
        BY <2>2, <3>2, <1>3
      <4> QED BY <4>1, <2>1, <3>1, <3>2, <1>4, <1>5
    <3>3. CASE n > 0
      <4>1. m - n + 1 \in 2..m /\ (m - n + 1) - 1 = i - 1
        BY <2>2, <3>3, <1>1, <1>3
      <4>2. nodes[open[m - n + 1]].lo = open[i - 1] + 1
        BY <4>1, <1>4
      <4> QED BY <4>2, <2>1, <3>1, <3>3, <1>5
    <3> QED BY <3>2, <3>3
  <2>3. CASE i # m - n + 1
    <3>1. i \in 1..m - n /\ i \in 2..m /\ open'[i] = open[i] /\ open[i] \in 1..N0
      <4>1. i \in 1..m - n /\ i \in 2..m /\ i \in 1..m
        BY <2>3, <1>1, <1>3
      <4> QED BY <4>1, <1>3, <1>4
    <3>2. nodes'[open[i]] = nodes[open[i]]
      BY <3>1, <1>2
    <3> QED BY <3>1, <3>2, <2>1, <1>4
  <2> QED BY <2>2, <2>3
<1> QED BY <1>2, <1>3, <1>6, <1>7, <1>8, <1>9 DEF Forest

\* The nodes that were there are of what they were, and the new one is well made.
LEMMA GrowNodes ==
    ASSUME Shape, pass = "parse", NEW x, NEW n \in 0..2, Joins(n, x),
           open # <<>> => nodes[Top].kind \notin Roots
    PROVE  \A k \in 1..Len(nodes') : Node(k)'
<1> DEFINE N0 == Len(nodes)
<1>1. x \in NodeType /\ nodes' = Append(nodes, x) /\ n <= Len(open)
  BY DEF Joins
<1>2. /\ N0 \in Nat /\ Len(nodes') = N0 + 1
      /\ \A i \in 1..N0 : nodes'[i] = nodes[i]
      /\ nodes'[N0 + 1] = x
  BY <1>1, Appended
<1>3. ASSUME NEW k \in 1..N0
      PROVE  Node(k)'
  <2>1. Node(k)
    BY DEF Shape
  <2>2. nodes'[k] = nodes[k]
    BY <1>2
  <2>3. nodes[k].l \in 1..N0 => nodes'[nodes[k].l] = nodes[nodes[k].l]
    BY <1>2
  <2>4. nodes[k].r \in 1..N0 => nodes'[nodes[k].r] = nodes[nodes[k].r]
    BY <1>2
  <2>5. nodes[k].l \in 1..k - 1 => nodes[k].l \in 1..N0
    BY <1>2
  <2>6. nodes[k].r \in 1..k - 1 => nodes[k].r \in 1..N0
    BY <1>2
  <2>7. nodes[k].kind \in Pairs \cup {"asn", "un", "bin", "paren"} => nodes[k].kind \notin Leafs
    BY DEF Pairs, Leafs
  <2>8. Operands(nodes[k], k)'
    BY <2>1, <2>2, <2>3, <2>4, <2>5, <2>6, <2>7 DEF Node, Operands
  <2>9. nodes[k].kind \in {"bin", "asn", "paren"} => nodes'[nodes[k].l] = nodes[nodes[k].l]
    BY <2>1, <2>3, <2>5, <2>7 DEF Node, Operands
  <2>10. Made(nodes[k])'
    BY <2>1, <2>2, <2>9 DEF Node, Made
  <2> QED BY <2>1, <2>2, <2>8, <2>10 DEF Node
<1>4. ASSUME NEW k, k = N0 + 1
      PROVE  Node(k)'
  <2>1. CASE n = 0
    <3>1. x.l = 0 /\ x.r = 0 /\ x.lo = k /\ x.kind \in {"lit", "ref"}
      BY <2>1, <1>1, <1>4 DEF Joins, Leafs
    <3>2. Made(x)' /\ Operands(x, k)'
      BY <3>1 DEF Joins, Made, Operands, Leafs, Pairs
    <3> QED BY <3>1, <3>2, <1>2, <1>4 DEF Node
  <2>2. CASE n > 0
    <3>1. open # <<>>
      BY <2>2, <1>1 DEF Shape, Forest
    <3>2. /\ Len(open) \in Nat \ {0} /\ N0 \in Nat \ {0} /\ Top = N0
          /\ Len(open) > 1 => Second \in 1..N0 /\ Second < Top /\ nodes[Top].lo = Second + 1
      BY <3>1, OpenNodes
    <3>3. /\ x.kind \notin Leafs /\ x.l \in 1..N0 /\ x.lo = nodes[x.l].lo
          /\ n = 1 => x.l = Top
          /\ n = 2 => x.l = Second /\ x.r = Top /\ Len(open) > 1
      <4>1. CASE n = 1
        BY <2>2, <3>2, <4>1 DEF Joins, Top
      <4>2. CASE n = 2
        BY <2>2, <3>2, <4>2, <1>1 DEF Joins, Second
      <4> QED BY <4>1, <4>2, <2>2
    <3>4. \A i \in 1..N0 : nodes[i].kind \notin Roots
      BY <3>1, <3>2 DEF Shape, Rooted
    <3>5. nodes'[x.l] = nodes[x.l] /\ Node(x.l)
      BY <3>3, <1>2 DEF Shape
    <3>6. Made(x)'
      BY <3>5 DEF Joins, Made
    <3>7. x.lo \in 1..k
      BY <3>3, <3>5, <1>2, <1>4 DEF Node
    <3>8. nodes[x.l].kind = "asn" => x.kind = "eval"
      <4>1. ASSUME nodes[x.l].kind = "asn"
            PROVE  x.l = N0
        BY <4>1, <3>2, <3>3, <3>4 DEF Shape, Rooted
      <4> QED BY <4>1, <3>1, <3>2 DEF Joins
    <3>9. n = 2 => /\ x.r \in 1..N0 /\ x.l < x.r /\ nodes[x.r].lo = x.l + 1
                   /\ nodes'[x.r] = nodes[x.r] /\ nodes[x.r].kind \notin Roots \cup {"asn"}
      <4>1. n = 2 => nodes[Top].kind # "asn"
        BY <3>1 DEF Joins, Pairs
      <4> QED BY <4>1, <3>2, <3>3, <3>4, <1>2
    <3>10. x.r \in 0..N0
      BY <3>2, <3>3, <2>2 DEF Joins
    <3>11. Operands(x, k)'
      <4>1. x.kind \in Pairs => n = 2
        BY DEF Joins
      <4>2. x.kind \notin Leafs =>
               /\ x.l \in 1..k - 1 /\ x.lo = nodes'[x.l].lo /\ nodes'[x.l].kind \notin Roots
               /\ nodes'[x.l].kind = "asn" => x.kind = "eval"
        BY <3>3, <3>4, <3>8, <1>2, <1>4 DEF Joins
      <4>3. x.kind \in Pairs =>
               /\ x.r \in 1..k - 1 /\ x.l < x.r /\ nodes'[x.r].lo = x.l + 1
               /\ nodes'[x.r].kind \notin Roots \cup {"asn"}
        BY <4>1, <3>2, <3>9, <1>2, <1>4
      <4>4. /\ x.kind = "asn" => nodes'[x.l].kind = "ref"
            /\ x.kind = "un" => /\ nodes'[x.l].kind \in Primary
                                /\ x.op \in {"inc", "dec"} => nodes'[x.l].kind = "ref"
        BY <3>3, <3>4, <3>5, <1>2 DEF Joins
      <4> QED BY <4>2, <4>3, <4>4 DEF Operands
    <3> QED BY <3>3, <3>6, <3>7, <3>10, <3>11, <1>2, <1>4 DEF Node
  <2> QED BY <2>1, <2>2
<1> QED
  <2>1. ASSUME NEW k \in 1..Len(nodes')
        PROVE  Node(k)'
    BY <1>2, <1>3, <1>4
  <2> QED BY <2>1

\* Subtrees stay nested.
LEMMA GrowNests ==
    ASSUME Shape, pass = "parse", NEW x, NEW n \in 0..2, Joins(n, x)
    PROVE  Nests'
<1> DEFINE N0 == Len(nodes)
<1>1. x \in NodeType /\ nodes' = Append(nodes, x) /\ n <= Len(open)
  BY DEF Joins
<1>2. /\ N0 \in Nat /\ Len(nodes') = N0 + 1
      /\ \A i \in 1..N0 : nodes'[i] = nodes[i]
      /\ nodes'[N0 + 1] = x
  BY <1>1, Appended
<1>3. \A i \in 1..N0 : nodes[i].lo \in 1..i
  BY DEF Shape, Node
<1>4. \A a, b \in 1..N0 : a < b => a < nodes[b].lo \/ nodes[b].lo <= nodes[a].lo
  BY DEF Shape, Nests
<1>5. ASSUME NEW a \in 1..N0
      PROVE  a < x.lo \/ x.lo <= nodes[a].lo
  <2>1. CASE n = 0
    <3>1. x.lo = N0 + 1
      BY <2>1 DEF Joins
    <3> QED BY <3>1, <1>2
  <2>2. CASE n > 0
    <3>1. open # <<>>
      BY <2>2, <1>1 DEF Shape, Forest
    <3>2. /\ Len(open) \in Nat \ {0} /\ N0 \in Nat \ {0} /\ Top = N0
          /\ Len(open) > 1 => Second \in 1..N0 /\ Second < Top /\ nodes[Top].lo = Second + 1
      BY <3>1, OpenNodes
    <3>3. CASE n = 1
      <4>1. x.lo = nodes[N0].lo
        BY <3>2, <3>3 DEF Joins, Top
      <4> QED BY <4>1, <3>2, <1>2, <1>3, <1>4
    <3>4. CASE n = 2
      <4>1. x.lo = nodes[Second].lo /\ Len(open) > 1
        BY <3>2, <3>4, <1>1 DEF Joins, Second
      <4>2. Second \in 1..N0 /\ Second < N0 /\ nodes[N0].lo = Second + 1
        BY <4>1, <3>2
      <4>3. CASE a <= Second
        BY <4>1, <4>2, <4>3, <1>3, <1>4
      <4>4. CASE a > Second
        <5>1. nodes[N0].lo <= nodes[a].lo
          BY <4>2, <4>4, <1>2, <1>4
        <5>2. nodes[Second].lo \in 1..Second /\ nodes[a].lo \in 1..a
          BY <4>2, <1>3
        <5> QED BY <4>1, <4>2, <5>1, <5>2
      <4> QED BY <4>2, <4>3, <4>4
    <3> QED BY <2>2, <3>3, <3>4
  <2> QED BY <2>1, <2>2
<1> HIDE DEF N0
<1>6. ASSUME NEW a \in 1..N0 + 1, NEW b \in 1..N0 + 1, a < b
      PROVE  a < nodes'[b].lo \/ nodes'[b].lo <= nodes'[a].lo
  <2>1. a \in 1..N0 /\ nodes'[a] = nodes[a]
    BY <1>2, <1>6
  <2>2. CASE b = N0 + 1
    BY <2>1, <2>2, <1>2, <1>5
  <2>3. CASE b # N0 + 1
    <3>1. b \in 1..N0 /\ nodes'[b] = nodes[b]
      BY <2>3, <1>2
    <3> QED BY <3>1, <2>1, <1>4, <1>6
  <2> QED BY <2>2, <2>3
<1> QED BY <1>2, <1>6 DEF Nests

\* The statement, when it is complete, is the last node.
LEMMA GrowRooted ==
    ASSUME Shape, pass = "parse", NEW x, NEW n \in 0..2, Joins(n, x),
           open # <<>> => nodes[Top].kind \notin Roots
    PROVE  Rooted'
<1> DEFINE N0 == Len(nodes)
<1>1. x \in NodeType /\ nodes' = Append(nodes, x) /\ n <= Len(open)
  BY DEF Joins
<1>2. /\ N0 \in Nat /\ Len(nodes') = N0 + 1 /\ nodes' # <<>>
      /\ \A i \in 1..N0 : nodes'[i] = nodes[i]
      /\ nodes'[N0 + 1] = x
  BY <1>1, Appended
<1>3. N0 > 0 => open # <<>> /\ Top = N0
  <2>1. N0 > 0 => open # <<>>
    BY <1>2 DEF Shape, Forest
  <2> QED BY <2>1, OpenNodes
<1>4. \A i \in 1..N0 : nodes[i].kind \notin Roots /\ (nodes[i].kind = "asn" => i = N0 /\ x.kind = "eval")
  <2>1. ASSUME NEW i \in 1..N0
        PROVE  nodes[i].kind \notin Roots /\ (nodes[i].kind = "asn" => i = N0 /\ x.kind = "eval")
    <3>1. N0 > 0 /\ nodes[N0].kind \notin Roots
      BY <1>2, <1>3
    <3>2. /\ nodes[i].kind \in Roots => i = N0
          /\ nodes[i].kind = "asn" => i = N0
      BY <3>1 DEF Shape, Rooted
    <3>3. nodes[N0].kind = "asn" => x.kind = "eval"
      BY <3>1, <1>3 DEF Joins
    <3> QED BY <3>1, <3>2, <3>3
  <2> QED BY <2>1
<1>5. "eval" \in Roots
  BY DEF Roots
<1>6. pass' # "parse" => x.kind \in Roots
  BY DEF Joins
<1> HIDE DEF N0
<1>7. ASSUME NEW k \in 1..N0 + 1
      PROVE  /\ nodes'[k].kind \in Roots => k = N0 + 1
             /\ nodes'[k].kind = "asn" => k = N0 + 1 \/ (k = N0 + 1 - 1 /\ x.kind \in Roots)
  <2>1. CASE k = N0 + 1
    BY <2>1
  <2>2. CASE k # N0 + 1
    <3>1. k \in 1..N0 /\ nodes'[k] = nodes[k]
      BY <2>2, <1>2
    <3> QED BY <3>1, <1>2, <1>4, <1>5
  <2> QED BY <2>1, <2>2
<1> QED BY <1>2, <1>6, <1>7 DEF Rooted

\* What Make does keeps the shape of the tree.
LEMMA Growing ==
    ASSUME Shape, pass = "parse", NEW x, NEW n \in 0..2, Joins(n, x),
           open # <<>> => nodes[Top].kind \notin Roots
    PROVE  Shape'
  BY GrowForest, GrowNodes, GrowNests, GrowRooted DEF Shape

\* The operands that Make gives to a node of n of the open ones.
FirstTaken(n)  == IF n = 0 THEN 0 ELSE open[Len(open) - n + 1]
SecondTaken(n) == IF n = 2 THEN Top ELSE 0
LowTaken(n)    == IF n = 0 THEN Len(nodes) + 1 ELSE nodes[FirstTaken(n)].lo

\* They are the last open ones.
LEMMA Taken ==
    ASSUME Shape, NEW n \in 0..2, n <= Len(open)
    PROVE  /\ Len(nodes) \in Nat /\ Len(open) \in Nat
           /\ FirstTaken(n) \in Nat /\ SecondTaken(n) \in Nat /\ LowTaken(n) \in Nat
           /\ n = 0 => FirstTaken(n) = 0 /\ LowTaken(n) = Len(nodes) + 1
           /\ n > 0 => /\ FirstTaken(n) = open[Len(open) - n + 1]
                       /\ LowTaken(n) = nodes[FirstTaken(n)].lo
           /\ n = 1 => FirstTaken(n) = Top
           /\ n = 2 => FirstTaken(n) = Second /\ SecondTaken(n) = Top
           /\ n # 2 => SecondTaken(n) = 0
<1>1. Len(nodes) \in Nat /\ Len(open) \in Nat
  BY DEF Shape, Forest
<1>2. CASE n = 0
  BY <1>1, <1>2 DEF FirstTaken, SecondTaken, LowTaken
<1>3. CASE n > 0
  <2>1. open # <<>>
    BY <1>1, <1>3
  <2>2. /\ Len(open) \in Nat \ {0} /\ Len(nodes) \in Nat \ {0} /\ Top = Len(nodes)
        /\ Len(open) > 1 => Second \in 1..Len(nodes) /\ Second < Top /\ nodes[Top].lo = Second + 1
    BY <2>1, OpenNodes
  <2>3. n = 1 => FirstTaken(n) = Top
    BY <2>2 DEF Top, FirstTaken
  <2>4. n = 2 => FirstTaken(n) = Second
    BY <2>2 DEF Second, FirstTaken
  <2>5. FirstTaken(n) \in 1..Len(nodes)
    BY <2>2, <2>3, <2>4, <1>3
  <2>6. nodes[FirstTaken(n)].lo \in Nat
    BY <2>5, <1>1 DEF Shape, Node
  <2> QED BY <2>2, <2>3, <2>4, <2>5, <2>6, <1>1, <1>3 DEF FirstTaken, SecondTaken, LowTaken
<1> QED BY <1>2, <1>3

\* What Make is called with.
Ranges(n, kind, op, written, bits, t) ==
    /\ n \in 0..2 /\ n <= Len(open)
    /\ kind \in Kinds /\ op \in Operations /\ written \in Types
    /\ bits \in Nat /\ t \in Types

Takes(n, kind, op) ==
    /\ n = 0 => kind \in Leafs
    /\ n > 0 => kind \notin Leafs
    /\ n = 2 => kind \in Pairs
    /\ n # 2 => kind \notin Pairs
    /\ kind \in Roots => n = Len(open)
    /\ open # <<>> /\ nodes[Top].kind = "asn" => kind = "eval"
    /\ kind = "asn" => nodes[Second].kind = "ref" /\ op \in Compounds
    /\ kind = "un" => /\ n = 1 /\ op \in UnOps /\ nodes[Top].kind \in Primary
                      /\ op \in {"inc", "dec"} => nodes[Top].kind = "ref"
    /\ kind = "bin" => op \in BinOps
    /\ pass' = IF kind \in Roots THEN "resolve" ELSE "parse"

Marks(n, kind, written, t) ==
    /\ kind \in Leafs \cup {"cast", "init"} => written # None
    /\ kind \in {"bin", "asn"} => t = nodes[Second].born
    /\ kind = "paren" => n = 1 /\ t = nodes[Top].born
    /\ kind \in {"lit", "cast", "init"} => t = written
    /\ kind \in {"ref", "un", "infer", "cond", "eval", "case"} => t = None

Fits(n, kind, op, written, bits, t) ==
    Ranges(n, kind, op, written, bits, t) /\ Takes(n, kind, op) /\ Marks(n, kind, written, t)

\* A node that Make makes joins the tree.
LEMMA MakeJoins ==
    ASSUME Shape, NEW n, NEW kind, NEW op, NEW written, NEW bits, NEW t, NEW bare, bare \in BOOLEAN,
           Fits(n, kind, op, written, bits, t),
           Make(n, kind, op, written, bits, t, bare)
    PROVE  \E x : Joins(n, x)
<1> DEFINE x == [kind |-> kind, op |-> op, t |-> written, bits |-> bits,
                 l |-> FirstTaken(n), r |-> SecondTaken(n), lo |-> LowTaken(n), bare |-> bare, born |-> t]
<1>1. /\ nodes' = Append(nodes, x)
      /\ open' = Append(SubSeq(open, 1, Len(open) - n), Len(nodes) + 1)
      /\ ty' = Append(ty, t)
      /\ wraps' = Append(wraps, None)
      /\ UNCHANGED <<family, arg, at, vals, ill, verdict>>
  BY ONLY Make(n, kind, op, written, bits, t, bare) DEF Make, FirstTaken, SecondTaken, LowTaken
<1>2. /\ Len(nodes) \in Nat /\ Len(open) \in Nat
      /\ FirstTaken(n) \in Nat /\ SecondTaken(n) \in Nat /\ LowTaken(n) \in Nat
      /\ n = 0 => FirstTaken(n) = 0 /\ LowTaken(n) = Len(nodes) + 1
      /\ n > 0 => /\ FirstTaken(n) = open[Len(open) - n + 1]
                  /\ LowTaken(n) = nodes[FirstTaken(n)].lo
      /\ n = 1 => FirstTaken(n) = Top
      /\ n = 2 => FirstTaken(n) = Second /\ SecondTaken(n) = Top
      /\ n # 2 => SecondTaken(n) = 0
  BY Taken DEF Fits, Ranges, Takes, Marks
<1>3. x \in NodeType
  BY ONLY <1>2, bare \in BOOLEAN, Fits(n, kind, op, written, bits, t) DEF NodeType, Fits, Ranges, Takes, Marks
<1>4. /\ x.kind = kind /\ x.op = op /\ x.t = written /\ x.l = FirstTaken(n)
      /\ x.r = SecondTaken(n) /\ x.lo = LowTaken(n) /\ x.born = t
  BY ONLY TRUE
<1> HIDE DEF x
<1>5. kind \in {"bin", "asn"} => n = 2
  BY DEF Fits, Ranges, Takes, Marks, Pairs
<1>6. Made(x)
  <2>1. kind \in {"bin", "asn", "paren"} => t = nodes[FirstTaken(n)].born
    BY <1>2, <1>5 DEF Fits, Ranges, Takes, Marks
  <2> QED BY <2>1, <1>4 DEF Made, Fits, Ranges, Takes, Marks
<1>7. /\ kind = "asn" => nodes[FirstTaken(n)].kind = "ref"
      /\ kind = "un" => /\ nodes[FirstTaken(n)].kind \in Primary
                        /\ op \in {"inc", "dec"} => nodes[FirstTaken(n)].kind = "ref"
  BY <1>2, <1>5 DEF Fits, Ranges, Takes, Marks
<1>8. Joins(n, x)
  BY <1>1, <1>2, <1>3, <1>4, <1>6, <1>7 DEF Joins, Fits, Ranges, Takes, Marks
<1> QED BY <1>8

\* What every action that writes is: a node joins a tree that is not complete.
Joined == \E n \in 0..2 : \E x : Joins(n, x)

\* No operator is one of them.
LEMMA NoOperation == Nil \in Operations
  BY DEF Operations, Nil

\* A type that a node was made with is one.
LEMMA OpenTyped ==
    ASSUME Shape, Progress, Typed, pass = "parse", NEW k \in 1..Len(nodes)
    PROVE  ty[k] = nodes[k].born /\ ty[k] \in Types
  BY DEF Typed, Kept, Progress

\* A literal or a name joins.
LEMMA LeafJoins ==
    ASSUME Shape, Progress, Typed, Leaf
    PROVE  Joined
<1>1. PICK f \in family.leaves :
       /\ Writing /\ Room(2) /\ (open # <<>> => nodes[Top].kind # "asn")
       /\ Make(0, f.kind, Nil, f.t, f.bits, IF f.kind = "lit" THEN f.t ELSE None, FALSE)
       /\ UNCHANGED pass
  BY DEF Leaf, Nil
<1>2. /\ Writing /\ Room(2) /\ (open # <<>> => nodes[Top].kind # "asn")
      /\ UNCHANGED pass
  BY <1>1
<1>3. Make(0, f.kind, Nil, f.t, f.bits, IF f.kind = "lit" THEN f.t ELSE None, FALSE)
  BY <1>1
<1>4. f \in [kind : {"lit", "ref"}, t : ScalarTypes, bits : Nat]
  BY <1>2, FamiliesAssumption DEF Progress
<1>5. f.kind \in {"lit", "ref"} /\ f.t \in ScalarTypes /\ f.bits \in Nat
  BY <1>2, <1>4
<1>6. None \notin ScalarTypes /\ ScalarTypes \subseteq Types /\ None \in Types
  BY <1>2 DEF None, ScalarTypes, Types, Primitives, Pointers, SInts, UInts, Floats
<1>7. /\ f.kind \in Kinds /\ f.kind \in Leafs /\ f.kind \notin Pairs /\ f.kind \notin Roots
      /\ f.kind \notin {"asn", "un", "bin", "paren", "cast", "init", "eval"}
  BY <1>2, <1>5 DEF Kinds, Leafs, Pairs, Roots
<1> DEFINE t == IF f.kind = "lit" THEN f.t ELSE None
<1>8. t \in Types /\ (f.kind = "lit" => t = f.t) /\ (f.kind = "ref" => t = None)
  BY <1>2, <1>5, <1>6, <1>7
<1>9. Make(0, f.kind, Nil, f.t, f.bits, t, FALSE)
  BY <1>3
<1> HIDE DEF t
<1>10. pass = "parse" /\ pass' = "parse" /\ 0 <= Len(open)
  <2>1. Len(open) \in Nat
    BY <1>2 DEF Shape, Forest
  <2> QED BY <1>2, <2>1 DEF Writing
<1>11. f.t \in Types /\ f.t # None
  BY <1>2, <1>5, <1>6
<1>12. f.kind \in {"infer", "cond", "eval", "case", "un"} => t = None
  BY <1>2, <1>5
<1>13. open # <<>> => nodes[Top].kind # "asn"
  BY <1>2
<1>14. Fits(0, f.kind, Nil, f.t, f.bits, t)
  <2>1. Ranges(0, f.kind, Nil, f.t, f.bits, t)
    BY <1>13, <1>5, <1>7, <1>8, <1>10, <1>11, <1>12, NoOperation DEF Ranges
  <2>2. Takes(0, f.kind, Nil)
    BY <1>13, <1>5, <1>7, <1>8, <1>10, <1>11, <1>12 DEF Takes
  <2>3. Marks(0, f.kind, f.t, t)
    BY <1>13, <1>5, <1>7, <1>8, <1>10, <1>11, <1>12 DEF Marks
  <2> QED BY <2>1, <2>2, <2>3 DEF Fits
<1>15. \E x : Joins(0, x)
  BY <1>3, <1>9, <1>14, MakeJoins, Zenon
<1> QED BY <1>15 DEF Joined

\* A parenthesis joins.
LEMMA ParenJoins ==
    ASSUME Shape, Progress, Typed, Paren
    PROVE  Joined
<1>1. /\ pass = "parse" /\ open # <<>> /\ pass' = pass
      /\ nodes[Top].kind \notin {"paren", "asn"}
  BY DEF Paren, Writing
<1>2. Make(1, "paren", Nil, None, 0, ty[Top], FALSE)
  BY DEF Paren, Nil
<1>3. Len(open) \in Nat \ {0} /\ Len(nodes) \in Nat \ {0} /\ Top = Len(nodes)
  BY <1>1, OpenNodes
<1>4. ty[Top] = nodes[Top].born /\ ty[Top] \in Types
  BY <1>1, <1>3, OpenTyped
<1>5. "paren" \in Kinds /\ "paren" \notin Leafs /\ "paren" \notin Pairs /\ "paren" \notin Roots /\ None \in Types
  BY DEF Kinds, Leafs, Pairs, Roots, Types
<1>6. Fits(1, "paren", Nil, None, 0, ty[Top])
  <2>1. Ranges(1, "paren", Nil, None, 0, ty[Top])
    BY <1>1, <1>3, <1>4, <1>5, NoOperation DEF Ranges
  <2>2. Takes(1, "paren", Nil)
    BY <1>1, <1>3, <1>4, <1>5 DEF Takes
  <2>3. Marks(1, "paren", None, ty[Top])
    BY <1>1, <1>3, <1>4, <1>5 DEF Marks
  <2> QED BY <2>1, <2>2, <2>3 DEF Fits
<1>7. \E x : Joins(1, x)
  BY <1>2, <1>6, MakeJoins, Zenon
<1> QED BY <1>7 DEF Joined

\* A cast joins.
LEMMA CastJoins ==
    ASSUME Shape, Progress, Typed, Cast
    PROVE  Joined
<1>1. PICK t \in family.casts :
       /\ Writing /\ open # <<>> /\ nodes[Top].kind # "asn"
       /\ Make(1, "cast", Nil, t, 0, t, TRUE) /\ UNCHANGED pass
  BY DEF Cast, Nil
<1>2. /\ Writing /\ open # <<>> /\ nodes[Top].kind # "asn"
      /\ UNCHANGED pass
  BY <1>1
<1>3. Make(1, "cast", Nil, t, 0, t, TRUE)
  BY <1>1
<1>4. pass = "parse" /\ pass' = "parse"
  BY <1>2 DEF Writing
<1>5. Len(open) \in Nat \ {0} /\ Len(nodes) \in Nat \ {0} /\ Top = Len(nodes)
  BY <1>2, OpenNodes
<1>6. t \in Types /\ t # None
  <2>1. t \in ScalarTypes
    BY <1>2, FamiliesAssumption DEF Progress
  <2> QED BY <1>2, <2>1 DEF None, ScalarTypes, Types, Primitives, Pointers, SInts, UInts, Floats
<1>7. "cast" \in Kinds /\ "cast" \notin Leafs /\ "cast" \notin Pairs /\ "cast" \notin Roots
  BY <1>2 DEF Kinds, Leafs, Pairs, Roots
<1>8. Fits(1, "cast", Nil, t, 0, t)
  <2>1. Ranges(1, "cast", Nil, t, 0, t)
    BY <1>2, <1>4, <1>5, <1>6, <1>7, NoOperation DEF Ranges
  <2>2. Takes(1, "cast", Nil)
    BY <1>2, <1>4, <1>5, <1>6, <1>7 DEF Takes
  <2>3. Marks(1, "cast", t, t)
    BY <1>2, <1>4, <1>5, <1>6, <1>7 DEF Marks
  <2> QED BY <2>1, <2>2, <2>3 DEF Fits
<1>9. \E x : Joins(1, x)
  BY <1>3, <1>8, MakeJoins, Zenon
<1> QED BY <1>2, <1>9 DEF Joined

\* A unary operator joins.
LEMMA OperatorJoins ==
    ASSUME Shape, Progress, Typed, Operator
    PROVE  Joined
<1>1. PICK op \in family.uns :
       /\ Writing /\ open # <<>> /\ Unary(Top) /\ (op \in {"inc", "dec"} => nodes[Top].kind = "ref")
       /\ Make(1, "un", op, None, 0, None, nodes[Top].bare) /\ UNCHANGED pass
  BY DEF Operator
<1>2. /\ Writing /\ open # <<>> /\ Unary(Top) /\ (op \in {"inc", "dec"} => nodes[Top].kind = "ref")
      /\ UNCHANGED pass
  BY <1>1
<1>3. Make(1, "un", op, None, 0, None, nodes[Top].bare)
  BY <1>1
<1>4. pass = "parse" /\ pass' = "parse" /\ nodes[Top].kind \in Primary /\ nodes[Top].kind # "asn"
  BY <1>2 DEF Writing, Unary, Primary
<1>5. Len(open) \in Nat \ {0} /\ Len(nodes) \in Nat \ {0} /\ Top = Len(nodes)
  BY <1>2, OpenNodes
<1>6. op \in UnOps /\ op \in Operations
  BY <1>2, FamiliesAssumption DEF Progress, Operations
<1>7. nodes[Top].bare \in BOOLEAN
  <2>1. nodes[Top] \in NodeType
    BY <1>2, <1>5 DEF Shape, Forest
  <2> QED BY <1>2, <2>1 DEF NodeType
<1>8. "un" \in Kinds /\ "un" \notin Leafs /\ "un" \notin Pairs /\ "un" \notin Roots /\ None \in Types
  BY <1>2 DEF Kinds, Leafs, Pairs, Roots, Types
<1>9. open # <<>> /\ (op \in {"inc", "dec"} => nodes[Top].kind = "ref")
  BY <1>2
<1>10. Fits(1, "un", op, None, 0, None)
  <2>1. Ranges(1, "un", op, None, 0, None)
    BY <1>4, <1>5, <1>6, <1>8, <1>9, NoOperation DEF Ranges
  <2>2. Takes(1, "un", op)
    BY <1>4, <1>5, <1>6, <1>8, <1>9 DEF Takes
  <2>3. Marks(1, "un", None, None)
    BY <1>4, <1>5, <1>6, <1>8, <1>9 DEF Marks
  <2> QED BY <2>1, <2>2, <2>3 DEF Fits
<1>11. \E x : Joins(1, x)
  BY <1>3, <1>7, <1>10, MakeJoins, Zenon
<1> QED BY <1>2, <1>11 DEF Joined

\* A binary operator joins.
LEMMA BinaryJoins ==
    ASSUME Shape, Progress, Typed, Binary
    PROVE  Joined
<1>1. PICK op \in family.bins :
       /\ Writing /\ Len(open) > 1 /\ nodes[Top].kind # "asn"
       /\ Make(2, "bin", op, None, 0, ty[Second], nodes[Top].bare) /\ UNCHANGED pass
  BY DEF Binary
<1>2. /\ Writing /\ Len(open) > 1 /\ nodes[Top].kind # "asn"
      /\ UNCHANGED pass
  BY <1>1
<1>3. Make(2, "bin", op, None, 0, ty[Second], nodes[Top].bare)
  BY <1>1
<1>4. pass = "parse" /\ pass' = "parse"
  BY <1>2 DEF Writing
<1>5. open # <<>>
  BY <1>2 DEF Shape, Forest
<1>6. /\ Len(open) \in Nat \ {0} /\ Len(nodes) \in Nat \ {0} /\ Top = Len(nodes)
      /\ Second \in 1..Len(nodes) /\ Second < Top /\ nodes[Top].lo = Second + 1
  BY <1>2, <1>5, OpenNodes
<1>7. op \in BinOps /\ op \in Operations
  BY <1>2, FamiliesAssumption DEF Progress, Operations
<1>8. nodes[Top].bare \in BOOLEAN
  <2>1. nodes[Top] \in NodeType
    BY <1>2, <1>6 DEF Shape, Forest
  <2> QED BY <1>2, <2>1 DEF NodeType
<1>9. ty[Second] = nodes[Second].born /\ ty[Second] \in Types
  BY <1>2, <1>4, <1>6, OpenTyped
<1>10. "bin" \in Kinds /\ "bin" \notin Leafs /\ "bin" \in Pairs /\ "bin" \notin Roots /\ None \in Types
  BY <1>2 DEF Kinds, Leafs, Pairs, Roots, Types
<1>11. Len(open) > 1 /\ nodes[Top].kind # "asn"
  BY <1>2
<1>12. Fits(2, "bin", op, None, 0, ty[Second])
  <2>1. Ranges(2, "bin", op, None, 0, ty[Second])
    BY <1>4, <1>5, <1>11, <1>6, <1>7, <1>9, <1>10, NoOperation DEF Ranges
  <2>2. Takes(2, "bin", op)
    BY <1>4, <1>5, <1>11, <1>6, <1>7, <1>9, <1>10 DEF Takes
  <2>3. Marks(2, "bin", None, ty[Second])
    BY <1>4, <1>5, <1>11, <1>6, <1>7, <1>9, <1>10 DEF Marks
  <2> QED BY <2>1, <2>2, <2>3 DEF Fits
<1>13. \E x : Joins(2, x)
  BY <1>3, <1>8, <1>12, MakeJoins, Zenon
<1> QED BY <1>2, <1>13 DEF Joined

\* An assignment joins.
LEMMA AssignmentJoins ==
    ASSUME Shape, Progress, Typed, Assignment
    PROVE  Joined
<1>1. PICK op \in family.asns :
       /\ Writing /\ Len(open) = 2 /\ nodes[Second].kind = "ref" /\ nodes[Top].kind # "asn"
       /\ Make(2, "asn", op, None, 0, ty[Second], FALSE) /\ UNCHANGED pass
  BY DEF Assignment
<1>2. /\ Writing /\ Len(open) = 2 /\ nodes[Second].kind = "ref" /\ nodes[Top].kind # "asn"
      /\ UNCHANGED pass
  BY <1>1
<1>3. Make(2, "asn", op, None, 0, ty[Second], FALSE)
  BY <1>1
<1>4. pass = "parse" /\ pass' = "parse"
  BY <1>2 DEF Writing
<1>5. open # <<>>
  BY <1>2 DEF Shape, Forest
<1>6. /\ Len(open) \in Nat \ {0} /\ Len(nodes) \in Nat \ {0} /\ Top = Len(nodes)
      /\ Second \in 1..Len(nodes) /\ Second < Top /\ nodes[Top].lo = Second + 1
  BY <1>2, <1>5, OpenNodes
<1>7. op \in Compounds /\ op \in Operations
  BY <1>2, FamiliesAssumption DEF Progress, Operations, Compounds, Nil
<1>8. ty[Second] = nodes[Second].born /\ ty[Second] \in Types
  BY <1>2, <1>4, <1>6, OpenTyped
<1>9. "asn" \in Kinds /\ "asn" \notin Leafs /\ "asn" \in Pairs /\ "asn" \notin Roots /\ None \in Types
  BY <1>2 DEF Kinds, Leafs, Pairs, Roots, Types
<1>11. Len(open) = 2 /\ nodes[Second].kind = "ref" /\ nodes[Top].kind # "asn"
  BY <1>2
<1>12. Fits(2, "asn", op, None, 0, ty[Second])
  <2>1. Ranges(2, "asn", op, None, 0, ty[Second])
    BY <1>4, <1>5, <1>11, <1>6, <1>7, <1>8, <1>9, NoOperation DEF Ranges
  <2>2. Takes(2, "asn", op)
    BY <1>4, <1>5, <1>11, <1>6, <1>7, <1>8, <1>9 DEF Takes
  <2>3. Marks(2, "asn", None, ty[Second])
    BY <1>4, <1>5, <1>11, <1>6, <1>7, <1>8, <1>9 DEF Marks
  <2> QED BY <2>1, <2>2, <2>3 DEF Fits
<1>13. \E x : Joins(2, x)
  BY <1>3, <1>12, MakeJoins, Zenon
<1> QED BY <1>2, <1>13 DEF Joined

\* The root joins.
LEMMA StatementJoins ==
    ASSUME Shape, Progress, Typed, Statement
    PROVE  Joined
<1>1. PICK root \in family.roots :
       /\ Writing /\ Len(open) = (IF root.kind = "case" THEN 2 ELSE 1)
       /\ nodes[Top].kind = "asn" => root.kind = "eval"
       /\ Make(Len(open), root.kind, Nil, root.t, 0, IF root.kind = "init" THEN root.t ELSE None, FALSE)
       /\ pass' = "resolve"
  BY DEF Statement, Nil
<1>2. /\ Writing /\ Len(open) = (IF root.kind = "case" THEN 2 ELSE 1)
      /\ nodes[Top].kind = "asn" => root.kind = "eval"
      /\ pass' = "resolve"
  BY <1>1
<1>3. Make(Len(open), root.kind, Nil, root.t, 0, IF root.kind = "init" THEN root.t ELSE None, FALSE)
  BY <1>1
<1>4. root.kind \in Roots /\ root.t \in Types /\ (root.kind = "init" => root.t # None)
  BY <1>2, FamiliesAssumption DEF Progress
<1>5. /\ root.kind \in Kinds /\ root.kind \notin Leafs
      /\ root.kind \notin {"asn", "un", "bin", "paren", "cast"}
      /\ root.kind = "case" => root.kind \in Pairs
      /\ root.kind # "case" => root.kind \notin Pairs
      /\ None \in Types
  BY ONLY <1>4 DEF Kinds, Leafs, Pairs, Roots, Types
<1>6. /\ root.kind = "case" => Len(open) = 2
      /\ root.kind # "case" => Len(open) = 1
  BY <1>2
<1> DEFINE t == IF root.kind = "init" THEN root.t ELSE None
<1>7. /\ t \in Types
      /\ root.kind = "init" => t = root.t
      /\ root.kind # "init" => t = None
  BY ONLY <1>4, <1>5
<1>8. Make(Len(open), root.kind, Nil, root.t, 0, t, FALSE)
  BY <1>3
<1> HIDE DEF t
<1>9. Len(open) \in 0..2 /\ Len(open) <= Len(open)
  BY <1>6
<1>10. root.kind \in Leafs \cup {"cast", "init"} => root.t # None
  BY <1>2, <1>4, <1>5
<1>11. open # <<>> /\ nodes[Top].kind = "asn" => root.kind = "eval"
  BY <1>2
<1>12. pass' = "resolve"
  BY <1>2
<1>13. Fits(Len(open), root.kind, Nil, root.t, 0, t)
  <2>1. Ranges(Len(open), root.kind, Nil, root.t, 0, t)
    BY <1>11, <1>12, <1>6, <1>4, <1>5, <1>7, <1>9, <1>10, NoOperation DEF Ranges
  <2>2. Takes(Len(open), root.kind, Nil)
    <3> DEFINE n == Len(open)
    <3>1. n = 2 => root.kind \in Pairs
      BY ONLY <1>5, <1>6
    <3>2. n # 2 => root.kind \notin Pairs
      BY ONLY <1>5, <1>6
    <3>3. n \in Nat /\ (n = 0 => root.kind \in Leafs)
      BY ONLY <1>6, <1>9
    <3>4. root.kind \notin Leafs /\ root.kind \in Roots /\ root.kind \notin {"asn", "un", "bin"}
      BY ONLY <1>4, <1>5
    <3> HIDE DEF n
    <3>5. pass' = IF root.kind \in Roots THEN "resolve" ELSE "parse"
      BY ONLY <1>12, <3>4
    <3>6. n = Len(open)
      BY ONLY TRUE DEF n
    <3>7. Takes(n, root.kind, Nil)
      BY ONLY <3>1, <3>2, <3>3, <3>4, <3>5, <3>6, <1>11, Zenon DEF Takes
    <3> QED BY ONLY <3>6, <3>7
  <2>3. Marks(Len(open), root.kind, root.t, t)
    BY ONLY <1>4, <1>5, <1>7, <1>10 DEF Marks, Leafs
  <2> QED BY <2>1, <2>2, <2>3 DEF Fits
<1>14. \E x : Joins(Len(open), x)
  BY <1>8, <1>13, MakeJoins, Zenon
<1> QED BY <1>2, <1>9, <1>14 DEF Joined

Writes == Leaf \/ Paren \/ Cast \/ Operator \/ Binary \/ Assignment \/ Statement

\* Whatever is written next joins the tree, which is not complete.
LEMMA WritesJoin ==
    ASSUME Shape, Progress, Typed, Writes
    PROVE  Joined /\ pass = "parse" /\ (open # <<>> => nodes[Top].kind \notin Roots)
<1>1. Writing
  BY DEF Writes, Leaf, Paren, Cast, Operator, Binary, Assignment, Statement
<1>2. Joined
  BY LeafJoins, ParenJoins, CastJoins, OperatorJoins, BinaryJoins, AssignmentJoins, StatementJoins DEF Writes
<1> QED BY <1>1, <1>2 DEF Writing

-----------------------------------------------------------------------------
(* Subtrees.                                                               *)

\* The operands of a node.
Under(k) == IF nodes[k].kind \in Leafs THEN {}
            ELSE IF nodes[k].kind \in Pairs THEN {nodes[k].l, nodes[k].r} ELSE {nodes[k].l}

\* A node's subtree has those of its operands, and what is around it is around
\* them.
LEMMA Within ==
    ASSUME Shape, NEW k \in 1..Len(nodes), NEW o \in Under(k)
    PROVE  /\ Len(nodes) \in Nat
           /\ o \in 1..k - 1 /\ o \in 1..Len(nodes) /\ o < k
           /\ o \in Tree(o) /\ o \in Tree(k) /\ k \in Tree(k)
           /\ Tree(o) \subseteq Tree(k)
           /\ nodes[k].lo <= nodes[o].lo
           /\ nodes[o].kind \notin Roots
           /\ nodes[k].kind # "eval" => nodes[o].kind # "asn"
<1>1. Len(nodes) \in Nat /\ Node(k)
  BY DEF Shape, Forest
<1>2. nodes[k].kind \notin Leafs /\ (o = nodes[k].l \/ (nodes[k].kind \in Pairs /\ o = nodes[k].r))
  BY DEF Under
<1>3. nodes[k].l \in 1..k - 1 /\ nodes[k].lo = nodes[nodes[k].l].lo /\ nodes[k].lo \in 1..k
  BY <1>1, <1>2 DEF Node, Operands
<1>4. nodes[nodes[k].l].lo \in 1..nodes[k].l
  <2>1. nodes[k].l \in 1..Len(nodes)
    BY <1>1, <1>3
  <2> QED BY <2>1 DEF Shape, Node
<1>5. /\ o \in 1..k - 1
      /\ nodes[o].kind \notin Roots
      /\ nodes[k].kind # "eval" => nodes[o].kind # "asn"
      /\ o = nodes[k].l \/ (nodes[k].l < o /\ nodes[o].lo = nodes[k].l + 1)
  BY <1>1, <1>2, <1>3 DEF Node, Operands
<1>6. o \in 1..Len(nodes)
  BY <1>1, <1>5
<1>7. nodes[o].lo \in 1..o
  BY <1>6 DEF Shape, Node
<1>8. nodes[k].lo <= nodes[o].lo
  BY <1>3, <1>4, <1>5, <1>7
<1> QED BY <1>1, <1>3, <1>5, <1>6, <1>7, <1>8 DEF Tree

\* A node is in its subtree.
LEMMA InTree ==
    ASSUME Shape, NEW k \in 1..Len(nodes)
    PROVE  k \in Tree(k) /\ Tree(k) \subseteq 1..Len(nodes)
<1>1. nodes[k].lo \in 1..k /\ Len(nodes) \in Nat
  BY DEF Shape, Forest, Node
<1> QED BY <1>1 DEF Tree

\* A parenthesis or a cast around a node is around its operands, and it is
\* around its own.
LEMMA AroundOperand ==
    ASSUME Shape, NEW k \in 1..Len(nodes), NEW o \in Under(k)
    PROVE  /\ Enclosed(k) => Enclosed(o)
           /\ UnderCast(k) => UnderCast(o)
           /\ nodes[k].kind \in {"paren", "cast"} => Enclosed(o)
           /\ nodes[k].kind = "cast" => UnderCast(o)
<1>1. /\ Len(nodes) \in Nat /\ o \in 1..Len(nodes) /\ o < k /\ o \in Tree(o)
      /\ nodes[k].lo <= nodes[o].lo
  BY Within
<1>2. nodes[k].lo <= o /\ nodes[k].lo \in 1..k /\ nodes[o].lo \in 1..o
  BY <1>1 DEF Shape, Node
<1>3. ASSUME NEW c \in k + 1..Len(nodes), nodes[c].lo <= k
      PROVE  c \in o + 1..Len(nodes) /\ nodes[c].lo <= o
  <2>1. c \in 1..Len(nodes) /\ k < c
    BY <1>1
  <2>2. nodes[c].lo \in 1..c
    BY <2>1 DEF Shape, Node
  <2>3. k < nodes[c].lo \/ nodes[c].lo <= nodes[k].lo
    BY <2>1 DEF Shape, Nests
  <2> QED BY <1>1, <1>2, <1>3, <2>1, <2>2, <2>3
<1>4. k \in o + 1..Len(nodes)
  BY <1>1
<1>5. Enclosed(k) => Enclosed(o)
  BY <1>3 DEF Enclosed
<1>6. UnderCast(k) => UnderCast(o)
  BY <1>3 DEF UnderCast
<1> QED BY <1>2, <1>4, <1>5, <1>6 DEF Enclosed, UnderCast

\* What is in a cast is enclosed.
LEMMA CastEncloses ==
    ASSUME NEW k, UnderCast(k)
    PROVE  Enclosed(k)
  BY DEF UnderCast, Enclosed

\* Nothing is around a statement or an assignment.
LEMMA Outermost ==
    ASSUME Shape, NEW k \in 1..Len(nodes), nodes[k].kind \in Roots \cup {"asn"}
    PROVE  ~Enclosed(k) /\ ~UnderCast(k)
<1>1. Len(nodes) \in Nat
  BY DEF Shape, Forest
<1>2. k = Len(nodes) \/ (k = Len(nodes) - 1 /\ nodes[Len(nodes)].kind \in Roots)
  BY DEF Shape, Rooted
<1>3. "paren" \notin Roots /\ "cast" \notin Roots
  BY DEF Roots
<1>4. ~Enclosed(k)
  BY <1>1, <1>2, <1>3 DEF Enclosed
<1> QED BY <1>4, CastEncloses

\* The kinds of nodes.
LEMMA KindOf ==
    ASSUME Shape, NEW k \in 1..Len(nodes)
    PROVE  /\ nodes[k] \in NodeType /\ Node(k) /\ nodes[k].kind \in Kinds
           /\ nodes[k].kind \notin Leafs => nodes[k].l \in Under(k)
           /\ nodes[k].kind \in Pairs => nodes[k].l \in Under(k) /\ nodes[k].r \in Under(k) /\ nodes[k].kind \notin Leafs
<1>1. nodes[k] \in NodeType /\ Node(k)
  BY DEF Shape, Forest
<1>2. nodes[k].kind \in Kinds
  BY <1>1 DEF NodeType
<1>3. nodes[k].kind \in Pairs => nodes[k].kind \notin Leafs
  BY DEF Pairs, Leafs
<1> QED BY <1>1, <1>2, <1>3 DEF Under

-----------------------------------------------------------------------------
(* Writing keeps the invariant.                                            *)

\* A type is added for the node that is.
LEMMA AddedType ==
    ASSUME NEW n \in Nat, NEW S, NEW f \in [1..n -> S], NEW e \in S
    PROVE  /\ Append(f, e) \in [1..n + 1 -> S]
           /\ \A i \in 1..n : Append(f, e)[i] = f[i]
           /\ Append(f, e)[n + 1] = e
<1>1. f \in Seq(S) /\ Len(f) = n
  OBVIOUS
<1>2. Append(f, e) \in Seq(S) /\ Len(Append(f, e)) = n + 1
  BY <1>1
<1>3. Append(f, e) \in [1..Len(Append(f, e)) -> S]
  BY <1>2, LenProperties
<1> QED BY <1>1, <1>2, <1>3

\* Each node has the type that it was made with, and no cast around it.
LEMMA GrowBorn ==
    ASSUME Shape, Progress, Typed, pass = "parse", NEW x, NEW n \in 0..2, Joins(n, x)
    PROVE  /\ ty' \in [1..Len(nodes') -> Types] /\ wraps' \in [1..Len(nodes') -> Types]
           /\ \A k \in 1..Len(nodes') : ty'[k] = nodes'[k].born /\ wraps'[k] = None
<1>1. /\ x \in NodeType /\ nodes' = Append(nodes, x)
      /\ ty' = Append(ty, x.born) /\ wraps' = Append(wraps, None)
  BY DEF Joins
<1>2. /\ Len(nodes) \in Nat /\ Len(nodes') = Len(nodes) + 1
      /\ \A i \in 1..Len(nodes) : nodes'[i] = nodes[i]
      /\ nodes'[Len(nodes) + 1] = x
  BY <1>1, Appended
<1>3. x.born \in Types /\ None \in Types
  BY <1>1 DEF NodeType, Types
<1>4. ty \in [1..Len(nodes) -> Types] /\ wraps \in [1..Len(nodes) -> Types]
  BY DEF Progress
<1>5. /\ ty' \in [1..Len(nodes) + 1 -> Types]
      /\ \A i \in 1..Len(nodes) : ty'[i] = ty[i]
      /\ ty'[Len(nodes) + 1] = x.born
  <2>0. Len(nodes) \in Nat /\ x.born \in Types /\ ty \in [1..Len(nodes) -> Types]
    BY <1>2, <1>3, <1>4
  <2>1. /\ Append(ty, x.born) \in [1..Len(nodes) + 1 -> Types]
        /\ \A i \in 1..Len(nodes) : Append(ty, x.born)[i] = ty[i]
        /\ Append(ty, x.born)[Len(nodes) + 1] = x.born
    BY ONLY <2>0, AddedType
  <2> QED BY ONLY <2>1, <1>1
<1>6. /\ wraps' \in [1..Len(nodes) + 1 -> Types]
      /\ \A i \in 1..Len(nodes) : wraps'[i] = wraps[i]
      /\ wraps'[Len(nodes) + 1] = None
  <2>1. wraps \in Seq(Types) /\ Len(wraps) = Len(nodes)
    BY ONLY <1>2, <1>4
  <2>2. wraps' \in Seq(Types) /\ Len(wraps') = Len(nodes) + 1
    BY ONLY <2>1, <1>1, <1>2, <1>3
  <2>3. wraps' \in [1..Len(wraps') -> Types]
    BY <2>2, LenProperties
  <2> QED BY ONLY <2>1, <2>2, <2>3, <1>1, <1>2, <1>3
<1>7. \A i \in 1..Len(nodes) : ty[i] = nodes[i].born /\ wraps[i] = None
  BY DEF Typed, Kept, Wrapped, Seen
<1> QED BY <1>2, <1>5, <1>6, <1>7

\* The types of a tree that has just been written.
LEMMA GrowTyped ==
    ASSUME Shape, Progress, Typed, pass = "parse", NEW x, NEW n \in 0..2, Joins(n, x), Shape'
    PROVE  Typed'
<1>1. /\ x \in NodeType /\ nodes' = Append(nodes, x)
      /\ pass' \in {"parse", "resolve"} /\ at' = 1
  BY DEF Joins, Progress
<1>2. /\ Len(nodes) \in Nat /\ Len(nodes') = Len(nodes) + 1
      /\ \A i \in 1..Len(nodes) : nodes'[i] = nodes[i]
      /\ nodes'[Len(nodes) + 1] = x
  BY <1>1, Appended
<1>3. \A k \in 1..Len(nodes') : ty'[k] = nodes'[k].born /\ wraps'[k] = None
  BY GrowBorn
<1>4. \A k \in 1..Len(nodes') : Node(k)'
  BY DEF Shape
<1>5. ASSUME NEW k \in 1..Len(nodes')
      PROVE  Kept(k)'
  BY <1>3 DEF Kept
<1>6. ASSUME NEW k \in 1..Len(nodes')
      PROVE  ~Resolved(k)' /\ ~Seen(k)'
  BY <1>1, <1>2 DEF Resolved, Seen
<1>7. ASSUME NEW k \in 1..Len(nodes')
      PROVE  Steady(k)'
  <2>1. nodes'[k].kind = "bin" => ty'[k] = ty'[nodes'[k].l]
    <3>1. ASSUME nodes'[k].kind = "bin"
          PROVE  nodes'[k].l \in 1..Len(nodes') /\ nodes'[k].born = nodes'[nodes'[k].l].born
      <4>1. Node(k)' /\ nodes'[k].kind \notin Leafs
        BY <3>1, <1>4 DEF Leafs
      <4>2. nodes'[k].l \in 1..k - 1
        BY <4>1 DEF Node, Operands
      <4>3. nodes'[k].born = nodes'[nodes'[k].l].born
        BY <3>1, <4>1 DEF Node, Made
      <4> QED BY <4>2, <4>3, <1>2
    <3> QED BY <3>1, <1>3
  <2> QED BY <2>1, <1>6 DEF Steady
<1>8. ASSUME NEW k \in 1..Len(nodes')
      PROVE  Wrapped(k)'
  BY <1>3, <1>6 DEF Wrapped
<1>9. \A k \in 1..Len(nodes) : nodes[k].born = "T" => \E j \in Tree(k) : Dependent(j)
  <2>1. ASSUME NEW k \in 1..Len(nodes), nodes[k].born = "T"
        PROVE  \E j \in Tree(k) : Dependent(j)
    <3>1. ty[k] = nodes[k].born /\ Given(k)
      BY DEF Typed, Kept
    <3> QED BY <3>1, <2>1 DEF Given
  <2> QED BY <2>1
<1>10. ASSUME NEW k \in 1..Len(nodes), nodes[k].born = "T"
       PROVE  \E j \in nodes[k].lo..k : IsParamDependent(nodes'[j].t)
  <2>1. PICK j \in Tree(k) : Dependent(j)
    BY <1>9, <1>10
  <2>2. j \in 1..Len(nodes)
    BY InTree
  <2> QED BY <2>1, <2>2, <1>2 DEF Tree, Dependent
<1>11. ASSUME NEW k \in 1..Len(nodes'), nodes'[k].born = "T"
       PROVE  \E j \in nodes'[k].lo..k : IsParamDependent(nodes'[j].t)
  <2>1. CASE k \in 1..Len(nodes)
    BY <2>1, <1>2, <1>10, <1>11
  <2>2. CASE k = Len(nodes) + 1
    <3>1. nodes'[k] = x /\ x.born = "T" /\ Made(x) /\ Node(k)' /\ x.kind \in Kinds
      BY <2>2, <1>1, <1>2, <1>4, <1>11 DEF Joins, NodeType
    <3>2. CASE x.kind \in {"lit", "cast", "init"}
      <4>1. x.t = "T" /\ x.lo \in 1..k
        BY <3>1, <3>2 DEF Made, Node
      <4> QED BY <4>1, <3>1 DEF IsParamDependent
    <3>3. CASE x.kind \in {"bin", "asn", "paren"}
      <4>1. nodes[x.l].born = "T" /\ x.kind \notin Leafs
        BY <3>1, <3>3 DEF Made, Leafs
      <4>2. x.l \in 1..Len(nodes) /\ x.lo = nodes'[x.l].lo
        BY <4>1, <3>1, <2>2, <1>2 DEF Node, Operands
      <4>3. nodes'[x.l].lo = nodes[x.l].lo /\ nodes[x.l].lo \in Nat
        BY <4>2, <1>2 DEF Shape, Node
      <4>4. PICK j \in nodes[x.l].lo..x.l : IsParamDependent(nodes'[j].t)
        BY <4>1, <4>2, <1>10
      <4>5. j \in x.lo..k
        BY <4>2, <4>3, <4>4, <2>2, <1>2
      <4> QED BY <4>4, <4>5, <3>1
    <3>4. CASE x.kind \in {"ref", "un", "infer", "cond", "eval", "case"}
      <4>1. None # "T"
        BY DEF None
      <4> QED BY <4>1, <3>1, <3>4 DEF Made
    <3> QED BY <3>1, <3>2, <3>3, <3>4 DEF Kinds, Roots
  <2> QED BY <2>1, <2>2, <1>2
<1>12. ASSUME NEW k \in 1..Len(nodes')
       PROVE  Given(k)'
  <2>1. None # "T"
    BY DEF None
  <2> QED BY <2>1, <1>3, <1>11 DEF Given, Tree, Dependent
<1> QED BY <1>5, <1>6, <1>7, <1>8, <1>12 DEF Typed, Known

\* Before the lowering there is nothing to be promised.
LEMMA BeforeLowering ==
    ASSUME vals' = <<>>, ill' = {}, verdict' = Nil
    PROVE  Outcome'
<1>1. 1..Len(vals') = {}
  OBVIOUS
<1>2. verdict' \notin {"crash", "refused", "asserted"}
  BY DEF Nil
<1> QED BY <1>1, <1>2 DEF Outcome, NullDeref, Valued, LabelsTrue, WellTyped, AcceptedIsLowered

\* Where the passes are, when a node has joined.
LEMMA GrowProgress ==
    ASSUME Shape, Progress, Typed, pass = "parse", NEW x, NEW n \in 0..2, Joins(n, x)
    PROVE  Progress' /\ vals' = <<>> /\ ill' = {} /\ verdict' = Nil
<1>1. /\ x \in NodeType /\ nodes' = Append(nodes, x)
      /\ pass' \in {"parse", "resolve"} /\ at' = 1
      /\ UNCHANGED <<family, arg, at, vals, ill, verdict>>
  BY DEF Joins, Progress
<1>2. Len(nodes) \in Nat /\ Len(nodes') = Len(nodes) + 1
  BY <1>1, Appended
<1>3. ty' \in [1..Len(nodes') -> Types] /\ wraps' \in [1..Len(nodes') -> Types]
  BY GrowBorn
<1>4. vals' = <<>> /\ verdict' = Nil /\ family' \in Families /\ arg' \in (family').args /\ verdict' \in Verdicts
  BY <1>1 DEF Progress
<1>5. ill' = {} /\ Len(vals') = 0
  <2>1. ill \subseteq 1..Len(vals) /\ vals = <<>>
    BY DEF Progress
  <2>2. 1..Len(vals) = {}
    BY <2>1
  <2> QED BY <2>1, <2>2, <1>1
<1>6. pass' \in Passes /\ pass' # "done" /\ pass' # "lower"
  BY <1>1 DEF Passes
<1> QED BY <1>1, <1>2, <1>3, <1>4, <1>5, <1>6 DEF Progress

\* Writing a node.
LEMMA WriteStep ==
    ASSUME IInv, Writes
    PROVE  IInv'
<1>1. Shape /\ Progress /\ Typed
  BY DEF IInv
<1>2. Joined /\ pass = "parse" /\ (open # <<>> => nodes[Top].kind \notin Roots)
  BY <1>1, WritesJoin
<1>3. PICK n \in 0..2 : \E x : Joins(n, x)
  BY <1>2 DEF Joined
<1>4. PICK x : Joins(n, x)
  BY <1>3
<1>5. Shape'
  BY <1>1, <1>2, <1>4, Growing
<1>6. Progress' /\ vals' = <<>> /\ ill' = {} /\ verdict' = Nil
  BY <1>1, <1>2, <1>4, GrowProgress
<1>7. Typed'
  BY <1>1, <1>2, <1>5, <1>4, GrowTyped
<1>8. Outcome'
  BY <1>6, BeforeLowering
<1> QED BY <1>5, <1>6, <1>7, <1>8 DEF IInv

\* Nothing is written yet.
LEMMA InitInv == Init => IInv
<1> SUFFICES ASSUME Init
             PROVE  IInv
  OBVIOUS
<1>1. /\ family \in Families /\ arg \in family.args
      /\ nodes = <<>> /\ open = <<>> /\ ty = <<>> /\ wraps = <<>>
      /\ pass = "parse" /\ at = 1 /\ vals = <<>> /\ ill = {} /\ verdict = Nil
  BY DEF Init, Nil
<1>2. Len(nodes) = 0 /\ Len(vals) = 0 /\ 1..Len(nodes) = {} /\ 1..Len(vals) = {} /\ 1..Len(open) = {} /\ 2..Len(open) = {}
  BY <1>1
<1>3. Shape
  BY <1>1, <1>2 DEF Shape, Forest, Nests, Rooted
<1>4. ty \in [1..Len(nodes) -> Types] /\ wraps \in [1..Len(nodes) -> Types]
  BY <1>1, <1>2
<1>5. verdict \in Verdicts /\ pass \in Passes
  BY <1>1 DEF Verdicts, Passes, Nil
<1>6. Progress
  BY <1>1, <1>2, <1>4, <1>5 DEF Progress
<1>7. Typed
  BY <1>2 DEF Typed
<1>8. verdict \notin {"crash", "refused", "asserted"}
  BY <1>1 DEF Nil
<1>9. Outcome
  BY <1>1, <1>2, <1>8 DEF Outcome, NullDeref, Valued, LabelsTrue, WellTyped, AcceptedIsLowered
<1> QED BY <1>3, <1>6, <1>7, <1>9 DEF IInv

-----------------------------------------------------------------------------
(* The visits keep the invariant.                                          *)

\* The passes leave the tree alone.
LEMMA SameShape ==
    ASSUME Shape, pass # "parse", UNCHANGED <<nodes, open>>
    PROVE  Shape'
  BY DEF Shape, Forest, Node, Operands, Made, Nests, Rooted

\* And what is said of it alone.
LEMMA SameTree ==
    ASSUME UNCHANGED nodes, NEW k
    PROVE  /\ Tree(k)' = Tree(k) /\ Under(k)' = Under(k)
           /\ Enclosed(k)' <=> Enclosed(k)
           /\ UnderCast(k)' <=> UnderCast(k)
           /\ Dependent(k)' <=> Dependent(k)
           /\ Odd(k)' <=> Odd(k)
           /\ ReadTooEarly(k)' <=> ReadTooEarly(k)
  BY DEF Tree, Under, Enclosed, UnderCast, Dependent, Odd, IsOp, ReadTooEarly

\* So for the whole of a subtree, and of the tree.
LEMMA SameTrees ==
    ASSUME UNCHANGED nodes, NEW k
    PROVE  /\ Even(k)' <=> Even(k)
           /\ (\E j \in Tree(k) : Dependent(j))' <=> (\E j \in Tree(k) : Dependent(j))
           /\ Early' <=> Early
  BY SameTree DEF Even, Early

\* Where a visit goes on.
LEMMA Stepping ==
    ASSUME Shape, Progress, pass \in {"resolve", "analyse", "lower"}, NEW next, Step(next)
    PROVE  /\ Len(nodes) \in Nat /\ at \in 1..Len(nodes) /\ at' \in 1..Len(nodes)
           /\ \/ at = Len(nodes) /\ at' = 1 /\ pass' = next
              \/ at < Len(nodes) /\ at' = at + 1 /\ pass' = pass
<1>1. Len(nodes) \in Nat /\ at \in Nat /\ at > 0 /\ at <= Len(nodes)
  BY DEF Shape, Forest, Progress
<1> QED BY <1>1 DEF Step

\* A type of an operand that is a parameter is one written in the node.
LEMMA GivenBelow ==
    ASSUME Shape, Typed, NEW k \in 1..Len(nodes), NEW o \in Under(k), ty[o] = "T"
    PROVE  \E j \in Tree(k) : Dependent(j)
<1>1. o \in 1..Len(nodes) /\ Tree(o) \subseteq Tree(k)
  BY Within
<1>2. \E j \in Tree(o) : Dependent(j)
  BY <1>1 DEF Typed, Given
<1> QED BY <1>1, <1>2

\* Where nothing below is odd, nothing is below that.
LEMMA EvenBelow ==
    ASSUME Shape, NEW k \in 1..Len(nodes), NEW o \in Under(k), Even(k)
    PROVE  Even(o) /\ ~Odd(o) /\ ~Odd(k)
<1>1. o \in Tree(k) /\ Tree(o) \subseteq Tree(k) /\ k \in Tree(k)
  BY Within
<1> QED BY <1>1 DEF Even

\* What name resolution does at a node.
LEMMA Resolving ==
    ASSUME Shape, Progress, Typed, Resolve
    PROVE  /\ Len(nodes) \in Nat /\ at \in 1..Len(nodes) /\ pass = "resolve"
           /\ \/ at = Len(nodes) /\ at' = 1 /\ pass' = "analyse"
              \/ at < Len(nodes) /\ at' = at + 1 /\ pass' = "resolve"
           /\ ty' \in [1..Len(nodes) -> Types]
           /\ \A k \in 1..Len(nodes) : k # at => ty'[k] = ty[k]
           /\ nodes[at].kind = "ref" => ty'[at] = nodes[at].t
           /\ nodes[at].kind \in {"paren", "un", "infer"} => ty'[at] = ty[nodes[at].l]
           /\ nodes[at].kind \notin {"ref", "paren", "un", "infer"} => ty'[at] = ty[at]
           /\ UNCHANGED <<family, arg, nodes, open, wraps, vals, ill, verdict>>
<1>1. /\ pass = "resolve"
      /\ ty' = IF nodes[at].kind \in {"ref", "paren", "un", "infer"}
               THEN [ty EXCEPT ![at] = ResolvedType(nodes[at], ty)] ELSE ty
      /\ Step("analyse")
      /\ UNCHANGED <<family, arg, nodes, open, wraps, vals, ill, verdict>>
  BY DEF Resolve, N
<1>2. /\ Len(nodes) \in Nat /\ at \in 1..Len(nodes)
      /\ \/ at = Len(nodes) /\ at' = 1 /\ pass' = "analyse"
         \/ at < Len(nodes) /\ at' = at + 1 /\ pass' = "resolve"
  BY <1>1, Stepping
<1>3. ty \in [1..Len(nodes) -> Types]
  BY DEF Progress
<1>4. /\ nodes[at].kind = "ref" => ResolvedType(nodes[at], ty) = nodes[at].t
      /\ nodes[at].kind \in {"paren", "un", "infer"} => ResolvedType(nodes[at], ty) = ty[nodes[at].l]
  BY DEF ResolvedType
<1>5. nodes[at].kind \in {"ref", "paren", "un", "infer"} => ResolvedType(nodes[at], ty) \in Types
  <2>1. nodes[at] \in NodeType /\ (nodes[at].kind \notin Leafs => nodes[at].l \in Under(at))
    BY <1>2, KindOf
  <2>2. CASE nodes[at].kind = "ref"
    BY <2>1, <2>2, <1>4 DEF NodeType
  <2>3. CASE nodes[at].kind \in {"paren", "un", "infer"}
    <3>1. nodes[at].l \in 1..Len(nodes)
      BY <2>1, <2>3, <1>2, Within DEF Leafs
    <3> QED BY <3>1, <2>3, <1>3, <1>4
  <2> QED BY <2>2, <2>3
<1> QED BY <1>1, <1>2, <1>3, <1>4, <1>5

\* The types that are known after name resolution has been at a node.
LEMMA ResolveTyped ==
    ASSUME Shape, Progress, Typed, Resolve
    PROVE  Typed'
<1>1. /\ Len(nodes) \in Nat /\ at \in 1..Len(nodes) /\ pass = "resolve"
      /\ \/ at = Len(nodes) /\ at' = 1 /\ pass' = "analyse"
         \/ at < Len(nodes) /\ at' = at + 1 /\ pass' = "resolve"
      /\ UNCHANGED <<family, arg, nodes, open, wraps, vals, ill, verdict>>
  BY Resolving
<1>2. /\ \A k \in 1..Len(nodes) : k # at => ty'[k] = ty[k]
      /\ nodes[at].kind = "ref" => ty'[at] = nodes[at].t
      /\ nodes[at].kind \in {"paren", "un", "infer"} => ty'[at] = ty[nodes[at].l]
      /\ nodes[at].kind \notin {"ref", "paren", "un", "infer"} => ty'[at] = ty[at]
  BY Resolving
<1>3. ASSUME NEW k \in 1..Len(nodes)
      PROVE  /\ ~Seen(k) /\ ~Seen(k)' /\ Raw(k) /\ Raw(k)'
             /\ Resolved(k)' <=> Resolved(k) \/ k = at
             /\ Resolved(k) => k < at
  BY <1>1 DEF Seen, Raw, Resolved
<1>4. \A k \in 1..Len(nodes) : Kept(k) /\ (Early \/ Known(k)) /\ (Even(k) => Steady(k)) /\ Wrapped(k) /\ Given(k)
  BY DEF Typed
<1>5. /\ at \in 1..Len(nodes) /\ Node(at) /\ nodes[at].kind \in Kinds
      /\ nodes[at].kind \notin Leafs => /\ nodes[at].l \in Under(at) /\ nodes[at].l \in 1..Len(nodes)
                                        /\ nodes[at].l < at
  BY <1>1, KindOf, Within
<1>6. ASSUME NEW k \in 1..Len(nodes)
      PROVE  Kept(k)'
  <2>1. Kept(k) /\ nodes' = nodes /\ pass' # "parse" /\ Raw(k)
    BY <1>1, <1>3, <1>4
  <2>2. CASE k # at
    <3>1. ty'[k] = ty[k]
      BY <2>2, <1>2
    <3> QED BY <2>1, <3>1 DEF Kept
  <2>3. CASE k = at /\ nodes[at].kind = "paren"
    <3>1. ASSUME nodes[at].born # None
          PROVE  ty'[at] = nodes[at].born
      <4> DEFINE o == nodes[at].l
      <4>1. /\ o \in 1..Len(nodes) /\ nodes[o].born = nodes[at].born /\ nodes[o].kind \in Kinds
            /\ nodes[o].kind \notin Roots \cup {"asn"} /\ Made(nodes[o]) /\ Kept(o) /\ Raw(o)
        <5>1. o \in Under(at) /\ o \in 1..Len(nodes)
          BY <2>3, <1>5 DEF Leafs
        <5>2. nodes[o].kind \notin Roots \cup {"asn"}
          BY <5>1, <2>3, <1>5, Within
        <5>3. nodes[o].kind \in Kinds /\ Node(o)
          BY <5>1, KindOf
        <5>4. nodes[at].born = nodes[o].born
          BY <2>3, <1>5 DEF Node, Made
        <5> QED BY <5>1, <5>2, <5>3, <5>4, <1>3, <1>4 DEF Node
      <4> HIDE DEF o
      <4>2. ty[o] = nodes[o].born
        BY <4>1, <3>1 DEF Kept, Made, Kinds
      <4> QED BY <4>1, <4>2, <2>3, <1>2 DEF o
    <3> QED BY <2>1, <2>3, <3>1 DEF Kept
  <2>4. CASE k = at /\ nodes[at].kind \in {"ref", "un", "infer"}
    BY <2>1, <2>4 DEF Kept
  <2>5. CASE k = at /\ nodes[at].kind \notin {"ref", "paren", "un", "infer"}
    <3>1. ty'[k] = ty[k]
      BY <2>5, <1>2
    <3> QED BY <2>1, <3>1 DEF Kept
  <2> QED BY <2>2, <2>3, <2>4, <2>5
<1>7. ASSUME NEW k \in 1..Len(nodes), ~Early
      PROVE  Known(k)'
  <2>1. Known(k) /\ nodes' = nodes
    BY <1>1, <1>4, <1>7
  <2>2. CASE k # at
    BY <2>1, <2>2, <1>2, <1>3 DEF Known
  <2>3. CASE k = at
    <3>1. CASE nodes[at].kind = "ref"
      <4>1. nodes[at].t # None
        BY <3>1, <1>5 DEF Node, Made, Leafs
      <4> QED BY <4>1, <3>1, <2>1, <2>3, <1>2, <1>3 DEF Known
    <3>2. CASE nodes[at].kind \in {"paren", "un", "infer"}
      <4> DEFINE o == nodes[at].l
      <4>1. o \in Under(at) /\ o \in 1..Len(nodes) /\ o < at /\ nodes[o].kind \in Kinds /\ Node(o)
        BY <3>2, <1>5, KindOf DEF Leafs
      <4>2. nodes[o].kind \notin Roots \cup {"asn"}
        <5>1. nodes[at].kind # "eval"
          BY <3>2
        <5> QED BY <4>1, <5>1, <1>5, Within
      <4>3. Resolved(o) /\ Known(o) /\ Kept(o) /\ Raw(o)
        BY <4>1, <1>1, <1>3, <1>4, <1>7 DEF Resolved
      <4>4. CASE nodes[o].kind = "bin"
        <5>1. nodes[o].born # None
          <6>1. ~ReadTooEarly(o)
            BY <4>1, <1>7 DEF Early
          <6>2. IsOp(o, BinOps)
            BY <4>1, <4>4 DEF Node, Made, IsOp
          <6>3. nodes[at].kind = "paren" => Enclosed(o)
            BY <4>1, <1>5, AroundOperand
          <6>4. nodes[at].kind # "un"
            BY <4>4, <1>5 DEF Node, Operands, Leafs, Primary
          <6> QED BY <6>1, <6>2, <6>3, <6>4, <3>2, <1>5 DEF ReadTooEarly
        <5> QED BY <5>1, <4>3, <4>4, <3>2, <2>1, <2>3, <1>2, <1>3 DEF Known, Kept
      <4>5. CASE nodes[o].kind # "bin"
        <5>1. nodes[o].kind \in {"lit", "ref", "cast", "paren", "un"}
          BY <4>1, <4>2, <4>5 DEF Kinds
        <5> QED BY <5>1, <4>3, <3>2, <2>1, <2>3, <1>2, <1>3 DEF Known
      <4> QED BY <4>4, <4>5
    <3>3. CASE nodes[at].kind \in {"lit", "cast", "init"}
      <4>1. nodes[at].t # None /\ nodes[at].born = nodes[at].t /\ Kept(at)
        BY <3>3, <1>1, <1>4, <1>5 DEF Node, Made, Leafs
      <4> QED BY <4>1, <3>3, <2>1, <2>3, <1>2, <1>3 DEF Known, Kept
    <3> QED BY <3>1, <3>2, <3>3, <2>3, <2>1, <1>3 DEF Known
  <2> QED BY <2>2, <2>3
<1>8. ASSUME NEW k \in 1..Len(nodes), Even(k)
      PROVE  Steady(k)'
  <2>1. /\ Steady(k) /\ Kept(k) /\ Kept(k)' /\ nodes' = nodes /\ Node(k) /\ nodes[k].kind \in Kinds
        /\ (Enclosed(k)' <=> Enclosed(k)) /\ ~Seen(k)' /\ Raw(k)'
    BY <1>1, <1>3, <1>4, <1>6, <1>8, SameTree, KindOf
  <2> DEFINE o == nodes[k].l
  <2>2. nodes[k].kind \notin Leafs => o \in Under(k) /\ o \in 1..Len(nodes) /\ o < k /\ Even(o)
    BY <1>8, KindOf, Within, EvenBelow
  <2>3. k < at => ty'[k] = ty[k] /\ (nodes[k].kind \notin Leafs => ty'[o] = ty[o])
    BY <2>2, <1>1, <1>2
  <2>4. k = at /\ nodes[k].kind \notin Leafs => ty'[o] = ty[o]
    BY <2>2, <1>1, <1>2
  <2>5. Resolved(k)' => k < at \/ k = at
    BY <1>3
  <2>6. k < at => Resolved(k)
    BY <1>1 DEF Resolved
  <2>7. nodes[k].kind = "ref" /\ Resolved(k)' => ty'[k] = nodes[k].t
    BY <2>1, <2>3, <2>5, <2>6, <1>2 DEF Steady
  <2>8. nodes[k].kind = "un" /\ nodes[k].op \in {"inc", "dec"} /\ Resolved(k)' => ty'[k] = nodes[o].t
    <3>1. CASE k < at
      BY <3>1, <2>1, <2>3, <2>6 DEF Steady
    <3>2. CASE k = at /\ nodes[k].kind = "un" /\ nodes[k].op \in {"inc", "dec"}
      <4>1. o \in 1..Len(nodes) /\ o < at /\ Even(o) /\ nodes[o].kind = "ref"
        BY <3>2, <2>1, <2>2 DEF Node, Operands, Leafs
      <4>2. Resolved(o) /\ Steady(o)
        BY <4>1, <1>1, <1>4 DEF Resolved
      <4>3. ty[o] = nodes[o].t
        BY <4>1, <4>2 DEF Steady
      <4> QED BY <4>3, <3>2, <1>2
    <3> QED BY <3>1, <3>2, <2>5
  <2>9. Resolved(k)' /\ nodes[k].kind = "paren" /\ ty'[k] # None => ty'[k] = ty'[o]
    <3>1. CASE k < at
      BY <3>1, <2>1, <2>3, <2>6 DEF Steady, Leafs
    <3>2. CASE k = at
      BY <3>2, <2>4, <1>2 DEF Leafs
    <3> QED BY <3>1, <3>2, <2>5
  <2>10. /\ Resolved(k)' /\ nodes[k].kind = "un" /\ nodes[k].op # "lnot" /\ ty'[k] # None
         /\ (Enclosed(k)' \/ Seen(k)')
         => ty'[k] = ty'[o]
    <3>1. CASE k < at
      BY <3>1, <2>1, <2>3, <2>6 DEF Steady, Leafs
    <3>2. CASE k = at
      BY <3>2, <2>4, <1>2 DEF Leafs
    <3> QED BY <3>1, <3>2, <2>5
  <2>11. nodes[k].kind = "bin" /\ nodes[k].born # None => ty'[k] = ty'[o]
    <3>1. ASSUME nodes[k].kind = "bin", nodes[k].born # None
          PROVE  ty'[k] = ty'[o]
      <4>1. /\ o \in Under(k) /\ o \in 1..Len(nodes) /\ nodes[o].born = nodes[k].born
            /\ nodes[k].kind # "eval"
        BY <3>1, <2>1, <2>2 DEF Node, Made, Leafs
      <4>2. nodes[o].kind \notin Roots \cup {"asn"} /\ nodes[o].kind \in Kinds /\ Node(o)
        BY <4>1, KindOf, Within
      <4>3. Kept(o)' /\ Raw(o)' /\ Made(nodes[o])
        <5>1. Made(nodes[o])
          BY <4>2 DEF Node
        <5>2. PICK i \in 1..Len(nodes) : i = o
          BY <4>1
        <5>3. Raw(i)' /\ Kept(i)'
          BY <1>3, <1>6
        <5> QED BY <5>1, <5>2, <5>3, <2>1
      <4>4. ty'[o] = nodes[o].born
        BY <4>1, <4>2, <4>3, <3>1, <2>1 DEF Kept, Made, Kinds
      <4>5. ty'[k] = nodes[k].born
        BY <3>1, <2>1 DEF Kept
      <4> QED BY <4>1, <4>4, <4>5
    <3> QED BY <3>1
  <2> HIDE DEF o
  <2> QED BY <2>1, <2>7, <2>8, <2>9, <2>10, <2>11 DEF Steady, o
<1>9. ASSUME NEW k \in 1..Len(nodes)
      PROVE  Wrapped(k)'
  <2>1. Wrapped(k) /\ nodes' = nodes /\ wraps' = wraps /\ ~Seen(k) /\ ~Seen(k)' /\ pass # "done"
    BY <1>1, <1>3, <1>4
  <2>2. wraps'[k] = None
    BY <2>1 DEF Wrapped
  <2> QED BY <2>1, <2>2 DEF Wrapped
<1>10. ASSUME NEW k \in 1..Len(nodes)
       PROVE  Given(k)'
  <2>1. Given(k) /\ nodes' = nodes /\ wraps' = wraps
    BY <1>1, <1>4
  <2>2. (\E j \in Tree(k) : Dependent(j))' <=> (\E j \in Tree(k) : Dependent(j))
    BY <2>1, SameTrees
  <2>3. CASE ty'[k] = ty[k]
    BY <2>1, <2>2, <2>3 DEF Given
  <2>4. CASE k = at /\ nodes[at].kind = "ref"
    <3>1. ty'[k] = "T" => \E j \in Tree(k) : Dependent(j)
      BY <2>4, <1>2, InTree DEF Dependent, IsParamDependent
    <3> QED BY <3>1, <2>1, <2>2 DEF Given
  <2>5. CASE k = at /\ nodes[at].kind \in {"paren", "un", "infer"}
    <3>1. ty'[k] = "T" => \E j \in Tree(k) : Dependent(j)
      BY <2>5, <1>2, <1>5, GivenBelow DEF Leafs
    <3> QED BY <3>1, <2>1, <2>2 DEF Given
  <2> QED BY <2>3, <2>4, <2>5, <1>2
<1>11. \A k \in 1..Len(nodes) : Even(k)' <=> Even(k)
  BY <1>1, SameTrees
<1>12. Early' <=> Early
  BY <1>1, SameTrees
<1>13. Len(nodes') = Len(nodes)
  BY <1>1
<1> QED BY <1>6, <1>7, <1>8, <1>9, <1>10, <1>11, <1>12, <1>13 DEF Typed

\* Name resolution.
LEMMA ResolveStep ==
    ASSUME IInv, Resolve
    PROVE  IInv'
<1>1. Shape /\ Progress /\ Typed
  BY DEF IInv
<1>2. /\ Len(nodes) \in Nat /\ at \in 1..Len(nodes) /\ pass = "resolve"
      /\ \/ at = Len(nodes) /\ at' = 1 /\ pass' = "analyse"
         \/ at < Len(nodes) /\ at' = at + 1 /\ pass' = "resolve"
      /\ ty' \in [1..Len(nodes) -> Types]
      /\ UNCHANGED <<family, arg, nodes, open, wraps, vals, ill, verdict>>
  BY <1>1, Resolving
<1>3. Shape'
  BY <1>1, <1>2, SameShape
<1>4. Typed'
  BY <1>1, ResolveTyped
<1>5. pass' \in Passes /\ pass' # "parse" /\ pass' # "done" /\ pass' # "lower" /\ vals = <<>>
  BY <1>1, <1>2 DEF Passes, Progress
<1>6. Progress'
  BY <1>1, <1>2, <1>5 DEF Progress
<1>7. vals' = <<>> /\ ill' = {} /\ verdict' = Nil
  BY <1>1, <1>2, <1>5 DEF Progress
<1>8. Outcome'
  BY <1>7, BeforeLowering
<1> QED BY <1>3, <1>4, <1>6, <1>8 DEF IInv

\* What the analysis finds to be done at a node.
LEMMA Checking ==
    ASSUME Shape, NEW k \in 1..Len(nodes), nodes[k].kind \in Pairs \cup Targets
    PROVE  /\ LastOf(nodes[k]) \in Under(k) /\ LastOf(nodes[k]) \in 1..k - 1
           /\ LastOf(nodes[k]) \in 1..Len(nodes)
           /\ nodes[k].kind \notin Leafs
           /\ nodes[k].l \in Under(k) /\ nodes[k].l \in 1..k - 1 /\ nodes[k].l \in 1..Len(nodes)
           /\ nodes[k].kind \in Pairs => LastOf(nodes[k]) = nodes[k].r /\ Expected(k) = ty[nodes[k].l]
           /\ nodes[k].kind \in Targets => LastOf(nodes[k]) = nodes[k].l /\ Expected(k) = ty[k]
<1>1. nodes[k].kind \notin Leafs
  BY DEF Leafs, Pairs, Targets
<1>2. nodes[k].l \in Under(k) /\ (nodes[k].kind \in Pairs => nodes[k].r \in Under(k))
  BY <1>1, KindOf
<1>3. LastOf(nodes[k]) \in Under(k)
  BY <1>2 DEF LastOf
<1>4. nodes[k].kind \in Targets => nodes[k].kind \notin Pairs
  BY DEF Pairs, Targets
<1> QED BY <1>1, <1>2, <1>3, <1>4, Within DEF LastOf, Expected

\* The check of an operand reads types of the node and of its operands only.
LEMMA SameCheck ==
    ASSUME Shape, UNCHANGED nodes, NEW k \in 1..Len(nodes), nodes[k].kind \in Pairs \cup Targets,
           nodes[k].kind \in Targets => ty'[k] = ty[k],
           \A o \in 1..k - 1 : ty'[o] = ty[o]
    PROVE  Check(k)' = Check(k) /\ Expected(k)' = Expected(k)
<1>1. /\ LastOf(nodes[k]) \in 1..k - 1 /\ nodes[k].l \in 1..k - 1
  BY Checking
<1>2. ty'[LastOf(nodes[k])] = ty[LastOf(nodes[k])] /\ ty'[nodes[k].l] = ty[nodes[k].l]
  BY <1>1
<1>3. nodes[k].kind \notin Pairs => ty'[k] = ty[k]
  OBVIOUS
<1> QED BY <1>2, <1>3 DEF Check, Expected, LastOf, Loose

\* What the analysis does at a node.
LEMMA Analysing ==
    ASSUME Shape, Progress, Typed, Analyse
    PROVE  /\ Len(nodes) \in Nat /\ at \in 1..Len(nodes) /\ pass = "analyse" /\ ~UnderCast(at)
           /\ \/ at = Len(nodes) /\ at' = 1 /\ pass' = "lower"
              \/ at < Len(nodes) /\ at' = at + 1 /\ pass' = "analyse"
           /\ ty' \in [1..Len(nodes) -> Types] /\ wraps' \in [1..Len(nodes) -> Types]
           /\ \A k \in 1..Len(nodes) : k # at => ty'[k] = ty[k] /\ wraps'[k] = wraps[k]
           /\ ty'[at] = AnalysedType(nodes[at], ty, ty[at])
           /\ nodes[at].kind \in Pairs \cup Targets => Check(at) \in {"same", "cast"}
           /\ nodes[at].kind = "cast" => ty[nodes[at].l] # None /\ CanCastTo(ty[nodes[at].l], nodes[at].t)
           /\ wraps'[at] = IF nodes[at].kind \in Pairs \cup Targets /\ Check(at) = "cast" THEN Expected(at) ELSE wraps[at]
           /\ UNCHANGED <<family, arg, nodes, open, vals, ill, verdict>>
<1>1. /\ pass = "analyse" /\ ~UnderCast(at)
      /\ nodes[at].kind \in Pairs \cup Targets => Check(at) \in {"same", "cast"}
      /\ nodes[at].kind = "cast" => ty[nodes[at].l] # None /\ CanCastTo(ty[nodes[at].l], nodes[at].t)
      /\ ty' = [ty EXCEPT ![at] = AnalysedType(nodes[at], ty, ty[at])]
      /\ wraps' = IF nodes[at].kind \in Pairs \cup Targets /\ Check(at) = "cast"
                  THEN [wraps EXCEPT ![at] = Expected(at)] ELSE wraps
      /\ Step("lower")
      /\ UNCHANGED <<family, arg, nodes, open, vals, ill, verdict>>
  BY DEF Analyse, N, L
<1>2. /\ Len(nodes) \in Nat /\ at \in 1..Len(nodes)
      /\ \/ at = Len(nodes) /\ at' = 1 /\ pass' = "lower"
         \/ at < Len(nodes) /\ at' = at + 1 /\ pass' = "analyse"
  BY <1>1, Stepping
<1>3. ty \in [1..Len(nodes) -> Types] /\ wraps \in [1..Len(nodes) -> Types]
  BY DEF Progress
<1>4. nodes[at].kind \notin Leafs => nodes[at].l \in 1..Len(nodes)
  BY <1>2, KindOf, Within
<1>5. AnalysedType(nodes[at], ty, ty[at]) \in Types
  <2>1. "bool" \in Types
    BY DEF Types, ScalarTypes, Primitives
  <2>2. nodes[at].kind \in {"bin", "asn", "un"} => ty[nodes[at].l] \in Types
    BY <1>3, <1>4 DEF Leafs
  <2>3. ty[at] \in Types
    BY <1>2, <1>3
  <2> QED BY <2>1, <2>2, <2>3 DEF AnalysedType
<1>6. nodes[at].kind \in Pairs \cup Targets => Expected(at) \in Types
  <2>1. ASSUME nodes[at].kind \in Pairs \cup Targets
        PROVE  Expected(at) \in Types
    <3>1. nodes[at].l \in 1..Len(nodes)
      BY <2>1, <1>2, Checking
    <3> QED BY <3>1, <1>2, <1>3 DEF Expected
  <2> QED BY <2>1
<1>7. /\ ty' \in [1..Len(nodes) -> Types]
      /\ \A k \in 1..Len(nodes) : k # at => ty'[k] = ty[k]
      /\ ty'[at] = AnalysedType(nodes[at], ty, ty[at])
  BY <1>1, <1>2, <1>3, <1>5
<1>8. /\ wraps' \in [1..Len(nodes) -> Types]
      /\ \A k \in 1..Len(nodes) : k # at => wraps'[k] = wraps[k]
      /\ wraps'[at] = IF nodes[at].kind \in Pairs \cup Targets /\ Check(at) = "cast" THEN Expected(at) ELSE wraps[at]
  BY <1>1, <1>2, <1>3, <1>6
<1> QED BY <1>1, <1>2, <1>7, <1>8

\* Which nodes have been visited by the analysis after it has been at one.
LEMMA Visited ==
    ASSUME Len(nodes) \in Nat, at \in 1..Len(nodes), pass = "analyse", UNCHANGED nodes,
           \/ at = Len(nodes) /\ at' = 1 /\ pass' = "lower"
           \/ at < Len(nodes) /\ at' = at + 1 /\ pass' = "analyse",
           NEW k \in 1..Len(nodes)
    PROVE  /\ Resolved(k) /\ Resolved(k)'
           /\ Seen(k)' <=> Seen(k) \/ k = at
           /\ Seen(k) <=> k < at
           /\ Raw(k) <=> ~Seen(k) \/ UnderCast(k)
           /\ Raw(k)' <=> ~Seen(k)' \/ UnderCast(k)
           /\ pass' \notin {"parse", "resolve", "done"}
  BY SameTree DEF Resolved, Seen, Raw

\* An operand that something is around keeps its type when it is analysed,
\* where nothing odd is below.
LEMMA Retained ==
    ASSUME Shape, Typed, pass = "analyse", at \in 1..Len(nodes), Enclosed(at), ~UnderCast(at),
           Even(at), ty[at] # None
    PROVE  AnalysedType(nodes[at], ty, ty[at]) = ty[at]
<1>1. ~Seen(at) /\ Raw(at) /\ Resolved(at)
  <2>1. Len(nodes) \in Nat
    BY DEF Shape, Forest
  <2> QED BY <2>1 DEF Seen, Raw, Resolved
<1>2. Kept(at) /\ Steady(at)
  BY DEF Typed
<1>3. ~Odd(at)
  BY InTree DEF Even
<1>4. nodes[at].kind # "asn"
  BY Outermost
<1>5. Made(nodes[at])
  BY DEF Shape, Node
<1>6. CASE nodes[at].kind = "bin"
  <2>1. nodes[at].op \notin Comparisons
    BY <1>3, <1>5, <1>6 DEF Odd, IsOp
  <2>2. nodes[at].born # None
    BY <1>1, <1>2, <1>6 DEF Kept
  <2>3. ty[at] = ty[nodes[at].l]
    BY <1>2, <1>6, <2>1, <2>2 DEF Steady
  <2> QED BY <1>6, <2>1, <2>3 DEF AnalysedType
<1>7. CASE nodes[at].kind = "un"
  <2>1. nodes[at].op # "lnot"
    BY <1>3, <1>7 DEF Odd
  <2>2. ty[at] = ty[nodes[at].l]
    BY <1>1, <1>2, <1>7, <2>1 DEF Steady
  <2> QED BY <1>7, <2>1, <2>2 DEF AnalysedType
<1>8. CASE nodes[at].kind \notin {"bin", "asn", "un"}
  BY <1>8 DEF AnalysedType
<1> QED BY <1>4, <1>6, <1>7, <1>8

\* The types that are known after the analysis has been at a node.
LEMMA AnalyseTyped ==
    ASSUME Shape, Progress, Typed, Analyse
    PROVE  Typed'
<1>1. /\ Len(nodes) \in Nat /\ at \in 1..Len(nodes) /\ pass = "analyse" /\ ~UnderCast(at)
      /\ \/ at = Len(nodes) /\ at' = 1 /\ pass' = "lower"
         \/ at < Len(nodes) /\ at' = at + 1 /\ pass' = "analyse"
      /\ UNCHANGED <<family, arg, nodes, open, vals, ill, verdict>>
  BY Analysing
<1>2. /\ \A k \in 1..Len(nodes) : k # at => ty'[k] = ty[k] /\ wraps'[k] = wraps[k]
      /\ ty'[at] = AnalysedType(nodes[at], ty, ty[at])
  BY Analysing
<1>3. /\ nodes[at].kind \in Pairs \cup Targets => Check(at) \in {"same", "cast"}
      /\ nodes[at].kind = "cast" => ty[nodes[at].l] # None /\ CanCastTo(ty[nodes[at].l], nodes[at].t)
      /\ wraps'[at] = IF nodes[at].kind \in Pairs \cup Targets /\ Check(at) = "cast" THEN Expected(at) ELSE wraps[at]
  BY Analysing
<1>4. ASSUME NEW k \in 1..Len(nodes)
      PROVE  /\ Resolved(k) /\ Resolved(k)'
             /\ Seen(k)' <=> Seen(k) \/ k = at
             /\ Seen(k) <=> k < at
             /\ Raw(k) <=> ~Seen(k) \/ UnderCast(k)
             /\ Raw(k)' <=> ~Seen(k)' \/ UnderCast(k)
             /\ pass' \notin {"parse", "resolve", "done"}
  BY <1>1, Visited
<1>5. \A k \in 1..Len(nodes) : Kept(k) /\ (Early \/ Known(k)) /\ (Even(k) => Steady(k)) /\ Wrapped(k) /\ Given(k)
  BY DEF Typed
<1>6. /\ Node(at) /\ nodes[at].kind \in Kinds
      /\ nodes[at].kind \notin Leafs => /\ nodes[at].l \in Under(at) /\ nodes[at].l \in 1..Len(nodes)
                                        /\ nodes[at].l < at
  BY <1>1, KindOf, Within
<1>7. /\ nodes[at].kind = "bin" /\ nodes[at].op \in Comparisons => ty'[at] = "bool"
      /\ nodes[at].kind = "bin" /\ nodes[at].op \notin Comparisons => ty'[at] = ty[nodes[at].l]
      /\ nodes[at].kind = "asn" => ty'[at] = ty[nodes[at].l]
      /\ nodes[at].kind = "un" /\ nodes[at].op = "lnot" => ty'[at] = "bool"
      /\ nodes[at].kind = "un" /\ nodes[at].op \in {"neg", "bnot"} => ty'[at] = ty[nodes[at].l]
      /\ nodes[at].kind = "un" /\ nodes[at].op \notin {"lnot", "neg", "bnot"} => ty'[at] = ty[at]
      /\ nodes[at].kind \notin {"bin", "asn", "un"} => ty'[at] = ty[at]
  BY <1>2 DEF AnalysedType
<1>8. ASSUME NEW k \in 1..Len(nodes)
      PROVE  Kept(k)'
  <2>1. Kept(k) /\ nodes' = nodes /\ pass' # "parse"
    BY <1>1, <1>4, <1>5
  <2>2. CASE k # at
    <3>1. ty'[k] = ty[k] /\ (Raw(k)' => Raw(k))
      BY <2>2, <1>2, <1>4
    <3> QED BY <2>1, <3>1 DEF Kept
  <2>3. CASE k = at
    <3>1. ~Raw(k)'
      BY <2>3, <1>1, <1>4
    <3> QED BY <2>1, <2>3, <3>1, <1>7 DEF Kept
  <2> QED BY <2>2, <2>3
<1>9. ASSUME NEW k \in 1..Len(nodes), ~Early
      PROVE  Known(k)'
  <2>1. Known(k) /\ nodes' = nodes
    BY <1>1, <1>5, <1>9
  <2>2. CASE k # at
    BY <2>1, <2>2, <1>2, <1>4 DEF Known
  <2>3. CASE k = at
    <3>1. CASE nodes[at].kind \in {"bin", "asn", "un"}
      <4>1. nodes[at].l \in Under(at) /\ nodes[at].l \in 1..Len(nodes) /\ nodes[at].l < at
        BY <3>1, <1>6 DEF Leafs
      <4> DEFINE o == nodes[at].l
      <4>2. nodes[o].kind \notin Roots \cup {"asn"} /\ nodes[o].kind \in Kinds
        <5>1. nodes[at].kind # "eval"
          BY <3>1
        <5> QED BY <4>1, <5>1, <1>1, KindOf, Within
      <4>3. Known(o) /\ Resolved(o) /\ Seen(o)
        BY <4>1, <1>4, <1>5, <1>9
      <4> HIDE DEF o
      <4>4. ty[o] # None
        BY <4>2, <4>3 DEF Known, Kinds
      <4>5. nodes[at].kind = "un" => ty[at] # None
        BY <2>1, <2>3, <1>4 DEF Known
      <4>6. "bool" # None
        BY DEF None
      <4>7. ty'[at] # None
        BY <4>4, <4>5, <4>6, <3>1, <1>7 DEF o
      <4> QED BY <4>7, <2>1, <2>3 DEF Known
    <3>2. CASE nodes[at].kind \notin {"bin", "asn", "un"}
      <4>1. ty'[at] = ty[at] /\ Resolved(at)
        BY <3>2, <1>4, <1>7, <1>1
      <4> QED BY <4>1, <3>2, <2>1, <2>3 DEF Known
    <3> QED BY <3>1, <3>2
  <2> QED BY <2>2, <2>3
<1>10. ASSUME NEW k \in 1..Len(nodes), Even(k)
       PROVE  Steady(k)'
  <2>1. /\ Steady(k) /\ Kept(k) /\ nodes' = nodes /\ Node(k) /\ nodes[k].kind \in Kinds
        /\ (Enclosed(k)' <=> Enclosed(k)) /\ (UnderCast(k)' <=> UnderCast(k))
        /\ Resolved(k) /\ Resolved(k)' /\ pass \in {"resolve", "analyse", "lower"}
    BY <1>1, <1>4, <1>5, <1>10, SameTree, KindOf
  <2> DEFINE o == nodes[k].l
  <2>2. nodes[k].kind \notin Leafs => o \in Under(k) /\ o \in 1..Len(nodes) /\ o < k /\ Even(o)
    BY <1>10, KindOf, Within, EvenBelow
  <2>3. CASE k < at
    <3>1. ty'[k] = ty[k] /\ (nodes[k].kind \notin Leafs => ty'[o] = ty[o]) /\ Seen(k) /\ Seen(k)'
      BY <2>2, <2>3, <1>1, <1>2, <1>4
    <3> HIDE DEF o
    <3> QED BY <2>1, <3>1 DEF Steady, Leafs, o
  <2>4. CASE k = at
    <3>1. nodes[k].kind \notin Leafs => ty'[o] = ty[o]
      BY <2>2, <2>4, <1>1, <1>2
    <3>2. nodes[k].kind = "ref" => ty'[k] = nodes[k].t
      BY <2>1, <2>4, <1>7 DEF Steady
    <3>3. nodes[k].kind = "un" /\ nodes[k].op \in {"inc", "dec"} => ty'[k] = nodes[o].t /\ ty'[k] = ty'[o]
      <4>1. ASSUME nodes[k].kind = "un", nodes[k].op \in {"inc", "dec"}
            PROVE  ty'[k] = nodes[o].t /\ ty'[k] = ty'[o]
        <5>1. o \in 1..Len(nodes) /\ nodes[o].kind = "ref" /\ Even(o)
          BY <4>1, <2>1, <2>2 DEF Node, Operands, Leafs
        <5>2. ty[o] = nodes[o].t
          <6>1. Steady(o) /\ Resolved(o)
            BY <5>1, <1>4, <1>5
          <6> QED BY <5>1, <6>1 DEF Steady
        <5>3. ty'[k] = ty[k] /\ ty[k] = nodes[o].t
          BY <4>1, <2>1, <2>4, <1>7 DEF Steady
        <5> QED BY <4>1, <5>2, <5>3, <3>1 DEF Leafs
      <4> QED BY <4>1
    <3>4. nodes[k].kind = "paren" /\ ty'[k] # None => ty'[k] = ty'[o]
      BY <2>1, <2>4, <3>1, <1>7 DEF Steady, Leafs
    <3>5. nodes[k].kind = "un" /\ nodes[k].op # "lnot" => ty'[k] = ty'[o]
      <4>1. nodes[k].kind = "un" => nodes[k].op \in UnOps /\ nodes[k].kind \notin Leafs
        BY <2>1 DEF Node, Made, Leafs
      <4> QED BY <2>4, <3>1, <3>3, <4>1, <1>7 DEF UnOps
    <3>6. nodes[k].kind = "un" /\ nodes[k].op = "lnot" => ty'[k] = "bool"
      BY <2>4, <1>7
    <3>7. nodes[k].kind = "bin" /\ nodes[k].op \notin Comparisons => ty'[k] = ty'[o]
      BY <2>4, <3>1, <1>7 DEF Leafs
    <3>8. nodes[k].kind = "bin" /\ nodes[k].op \in Comparisons => ty'[k] = "bool"
      BY <2>4, <1>7
    <3>9. nodes[k].kind = "asn" => ty'[k] = ty'[o]
      BY <2>4, <3>1, <1>7 DEF Leafs
    <3> HIDE DEF o
    <3> QED BY <2>1, <3>2, <3>3, <3>4, <3>5, <3>6, <3>7, <3>8, <3>9 DEF Steady, o
  <2>5. CASE k > at
    <3>1. ty'[k] = ty[k] /\ ~Seen(k) /\ ~Seen(k)' /\ Raw(k)
      BY <2>5, <1>1, <1>2, <1>4
    <3>2. ASSUME nodes[k].kind \notin Leafs, ty[k] # None, ty[k] = ty[o], nodes[k].kind = "paren" \/ Enclosed(k)
          PROVE  ty'[o] = ty[o]
      <4>1. CASE o # at
        BY <4>1, <3>2, <2>2, <1>2
      <4>2. CASE o = at
        <5>1. Even(at) /\ ty[at] # None
          BY <4>2, <3>2, <2>2
        <5>2. Enclosed(at)
          BY <4>2, <3>2, <2>2, AroundOperand
        <5>3. AnalysedType(nodes[at], ty, ty[at]) = ty[at]
          BY <5>1, <5>2, <1>1, Retained
        <5> QED BY <5>3, <4>2, <1>2
      <4> QED BY <4>1, <4>2
    <3>3. nodes[k].kind = "paren" /\ ty'[k] # None => ty'[k] = ty'[o]
      BY <2>1, <3>1, <3>2 DEF Steady, Leafs
    <3>4. nodes[k].kind = "un" /\ nodes[k].op # "lnot" /\ ty'[k] # None /\ Enclosed(k) => ty'[k] = ty'[o]
      BY <2>1, <3>1, <3>2 DEF Steady, Leafs
    <3>5. nodes[k].kind = "bin" /\ nodes[k].op \notin Comparisons /\ Enclosed(k) /\ nodes[k].born # None => ty'[k] = ty'[o]
      <4>1. nodes[k].kind = "bin" => ty[k] = nodes[k].born
        BY <2>1, <3>1 DEF Kept
      <4> QED BY <2>1, <3>1, <3>2, <4>1 DEF Steady, Leafs
    <3>6. nodes[k].kind = "ref" => ty'[k] = nodes[k].t
      BY <2>1, <3>1 DEF Steady
    <3>7. nodes[k].kind = "un" /\ nodes[k].op \in {"inc", "dec"} => ty'[k] = nodes[o].t
      BY <2>1, <3>1 DEF Steady
    <3> HIDE DEF o
    <3> QED BY <2>1, <3>1, <3>3, <3>4, <3>5, <3>6, <3>7 DEF Steady, o
  <2> QED BY <2>3, <2>4, <2>5, <1>1
<1>11. ASSUME NEW k \in 1..Len(nodes)
       PROVE  Wrapped(k)'
  <2>1. Wrapped(k) /\ nodes' = nodes /\ pass \notin {"parse", "done"} /\ (UnderCast(k)' <=> UnderCast(k))
    BY <1>1, <1>5, SameTree
  <2>2. nodes[k].kind \in Pairs \cup Targets /\ k <= at => Check(k)' = Check(k) /\ Expected(k)' = Expected(k)
    <3>1. nodes[k].kind \in Targets => nodes[k].kind \notin {"bin", "asn", "un"}
      BY DEF Targets
    <3>2. k <= at => \A o \in 1..k - 1 : ty'[o] = ty[o]
      BY <1>1, <1>2
    <3>3. k <= at /\ nodes[k].kind \in Targets => ty'[k] = ty[k]
      BY <3>1, <1>1, <1>2, <1>7
    <3> QED BY <3>2, <3>3, <1>1, SameCheck
  <2>3. nodes[k].kind = "cast" /\ k <= at => ty'[nodes[k].l] = ty[nodes[k].l]
    <3>1. nodes[k].kind = "cast" => nodes[k].l \in 1..Len(nodes) /\ nodes[k].l < k
      BY KindOf, Within DEF Leafs
    <3> QED BY <3>1, <1>1, <1>2
  <2>4. CASE k # at
    <3>1. wraps'[k] = wraps[k] /\ (Seen(k)' <=> Seen(k)) /\ (Seen(k) => k <= at)
      BY <2>4, <1>1, <1>2, <1>4
    <3> QED BY <2>1, <2>2, <2>3, <3>1, <1>4 DEF Wrapped
  <2>5. CASE k = at
    <3>1. Seen(k)' /\ ~Seen(k) /\ k <= at /\ ~UnderCast(k)
      BY <2>5, <1>1, <1>4
    <3>2. wraps[k] = None
      BY <2>1, <3>1 DEF Wrapped
    <3>3. nodes[k].kind \notin Pairs \cup Targets => wraps'[k] = None
      BY <3>2, <2>5, <1>3
    <3>4. nodes[k].kind \in Pairs \cup Targets =>
              \/ Check(k)' = "same" /\ wraps'[k] = None
              \/ Check(k)' = "cast" /\ wraps'[k] = Expected(k)'
      <4>1. Check(k) = Check(at) /\ Expected(k) = Expected(at) /\ nodes[k] = nodes[at]
        BY <2>5
      <4> QED BY <4>1, <2>2, <2>5, <3>1, <3>2, <1>3
    <3>5. nodes[k].kind = "cast" => ty'[nodes[k].l] # None /\ CanCastTo(ty'[nodes[k].l], nodes[k].t)
      BY <2>3, <2>5, <3>1, <1>3
    <3> QED BY <2>1, <3>1, <3>3, <3>4, <3>5 DEF Wrapped
  <2> QED BY <2>4, <2>5
<1>12. ASSUME NEW k \in 1..Len(nodes)
       PROVE  Given(k)'
  <2>1. Given(k) /\ nodes' = nodes
    BY <1>1, <1>5
  <2>2. (\E j \in Tree(k) : Dependent(j))' <=> (\E j \in Tree(k) : Dependent(j))
    BY <2>1, SameTrees
  <2>3. CASE k # at
    <3>1. ty'[k] = ty[k] /\ wraps'[k] = wraps[k]
      BY <2>3, <1>2
    <3> QED BY <2>1, <2>2, <3>1 DEF Given
  <2>4. CASE k = at
    <3>1. ty'[at] \in {ty[at], "bool"} \/ (nodes[at].kind \in {"bin", "asn", "un"} /\ ty'[at] = ty[nodes[at].l])
      BY <1>7
    <3>2. ty'[at] = "T" => \E j \in Tree(at) : Dependent(j)
      <4>1. nodes[at].kind \in {"bin", "asn", "un"} => nodes[at].l \in Under(at)
        BY <1>6 DEF Leafs
      <4> QED BY <3>1, <4>1, <2>1, <2>4, <1>1, GivenBelow DEF Given
    <3>3. wraps'[at] = "T" => \E j \in Tree(at) : Dependent(j)
      <4>1. CASE nodes[at].kind \in Pairs \cup Targets /\ Check(at) = "cast"
        <5>1. nodes[at].l \in Under(at) /\ (Expected(at) = ty[at] \/ Expected(at) = ty[nodes[at].l])
          BY <4>1, <1>1, Checking DEF Expected
        <5> QED BY <4>1, <5>1, <2>1, <2>4, <1>1, <1>3, GivenBelow DEF Given
      <4>2. CASE ~(nodes[at].kind \in Pairs \cup Targets /\ Check(at) = "cast")
        BY <4>2, <2>1, <2>4, <1>3 DEF Given
      <4> QED BY <4>1, <4>2
    <3> QED BY <2>1, <2>2, <2>4, <3>2, <3>3 DEF Given
  <2> QED BY <2>3, <2>4
<1>13. \A k \in 1..Len(nodes) : Even(k)' <=> Even(k)
  BY <1>1, SameTrees
<1>14. Early' <=> Early
  BY <1>1, SameTrees
<1>15. Len(nodes') = Len(nodes)
  BY <1>1
<1> QED BY <1>8, <1>9, <1>10, <1>11, <1>12, <1>13, <1>14, <1>15 DEF Typed

\* The analysis.
LEMMA AnalyseStep ==
    ASSUME IInv, Analyse
    PROVE  IInv'
<1>1. Shape /\ Progress /\ Typed
  BY DEF IInv
<1>2. /\ Len(nodes) \in Nat /\ at \in 1..Len(nodes) /\ pass = "analyse"
      /\ \/ at = Len(nodes) /\ at' = 1 /\ pass' = "lower"
         \/ at < Len(nodes) /\ at' = at + 1 /\ pass' = "analyse"
      /\ ty' \in [1..Len(nodes) -> Types] /\ wraps' \in [1..Len(nodes) -> Types]
      /\ UNCHANGED <<family, arg, nodes, open, vals, ill, verdict>>
  BY <1>1, Analysing
<1>3. Shape'
  BY <1>1, <1>2, SameShape
<1>4. Typed'
  BY <1>1, AnalyseTyped
<1>5. pass' \in Passes /\ pass' # "parse" /\ pass' # "done" /\ vals = <<>> /\ Len(vals) = 0
  BY <1>1, <1>2 DEF Passes, Progress
<1>6. vals' = <<>> /\ ill' = {} /\ verdict' = Nil
  BY <1>1, <1>2, <1>5 DEF Progress
<1>7. Progress'
  BY <1>1, <1>2, <1>5 DEF Progress
<1>8. Outcome'
  BY <1>6, BeforeLowering
<1> QED BY <1>3, <1>4, <1>7, <1>8 DEF IInv

\* What is within a cast has the types that it had, and this is all that the
\* lowering will know.
LEMMA SkipTyped ==
    ASSUME Shape, Progress, Typed, Skip
    PROVE  Typed'
<1>1. /\ Len(nodes) \in Nat /\ at \in 1..Len(nodes) /\ pass = "analyse" /\ UnderCast(at)
      /\ \/ at = Len(nodes) /\ at' = 1 /\ pass' = "lower"
         \/ at < Len(nodes) /\ at' = at + 1 /\ pass' = "analyse"
      /\ UNCHANGED <<family, arg, nodes, open, ty, wraps, vals, ill, verdict>>
  BY Stepping DEF Skip
<1>2. ASSUME NEW k \in 1..Len(nodes)
      PROVE  /\ Resolved(k) /\ Resolved(k)'
             /\ Seen(k)' <=> Seen(k) \/ k = at
             /\ Seen(k) <=> k < at
             /\ Raw(k) <=> ~Seen(k) \/ UnderCast(k)
             /\ Raw(k)' <=> ~Seen(k)' \/ UnderCast(k)
             /\ pass' \notin {"parse", "resolve", "done"}
  BY <1>1, Visited
<1>3. ASSUME NEW k \in 1..Len(nodes)
      PROVE  Raw(k)' <=> Raw(k)
  BY <1>1, <1>2
<1>4. \A k \in 1..Len(nodes) : Kept(k) /\ (Early \/ Known(k)) /\ (Even(k) => Steady(k)) /\ Wrapped(k) /\ Given(k)
  BY DEF Typed
<1>5. /\ Node(at) /\ Enclosed(at) /\ nodes[at].kind \notin Roots \cup {"asn"}
  BY <1>1, KindOf, CastEncloses, Outermost
<1>6. ASSUME NEW k \in 1..Len(nodes)
      PROVE  Kept(k)'
  <2>1. Kept(k) /\ nodes' = nodes /\ pass' # "parse" /\ ty'[k] = ty[k] /\ (Raw(k)' <=> Raw(k))
    BY <1>1, <1>2, <1>3, <1>4
  <2> QED BY <2>1 DEF Kept
<1>7. ASSUME NEW k \in 1..Len(nodes), ~Early
      PROVE  Known(k)'
  <2>1. Known(k) /\ Kept(k) /\ nodes' = nodes /\ ty'[k] = ty[k] /\ Resolved(k)
    BY <1>1, <1>2, <1>4, <1>7
  <2>2. CASE k # at
    BY <2>1, <2>2, <1>2 DEF Known
  <2>3. CASE k = at
    <3>1. nodes[k].kind = "bin" => ty[k] # None
      <4>1. ASSUME nodes[k].kind = "bin"
            PROVE  ty[k] # None
        <5>1. IsOp(k, BinOps) /\ ~ReadTooEarly(k)
          BY <4>1, <2>3, <1>1, <1>5, <1>7 DEF Node, Made, IsOp, Early
        <5>2. nodes[k].born # None
          BY <5>1, <2>3, <1>5 DEF ReadTooEarly
        <5>3. Raw(k)
          BY <2>3, <1>1, <1>2
        <5> QED BY <4>1, <5>2, <5>3, <2>1 DEF Kept
      <4> QED BY <4>1
    <3>2. nodes[k].kind # "asn"
      BY <2>3, <1>5
    <3> QED BY <3>1, <3>2, <2>1 DEF Known
  <2> QED BY <2>2, <2>3
<1>8. ASSUME NEW k \in 1..Len(nodes), Even(k)
      PROVE  Steady(k)'
  <2>1. /\ Steady(k) /\ nodes' = nodes /\ ty' = ty
        /\ (Enclosed(k)' <=> Enclosed(k)) /\ (UnderCast(k)' <=> UnderCast(k))
        /\ Resolved(k) /\ Resolved(k)' /\ pass \in {"resolve", "analyse", "lower"}
    BY <1>1, <1>2, <1>4, <1>8, SameTree
  <2>2. CASE k # at
    BY <2>1, <2>2, <1>2 DEF Steady
  <2>3. CASE k = at
    <3>1. Enclosed(k) /\ UnderCast(k) /\ nodes[k].kind # "asn"
      BY <2>3, <1>1, <1>5
    <3> QED BY <2>1, <3>1 DEF Steady
  <2> QED BY <2>2, <2>3
<1>9. ASSUME NEW k \in 1..Len(nodes)
      PROVE  Wrapped(k)'
  <2>1. /\ Wrapped(k) /\ nodes' = nodes /\ wraps' = wraps /\ ty' = ty
        /\ pass \notin {"parse", "done"} /\ (UnderCast(k)' <=> UnderCast(k))
    BY <1>1, <1>4, SameTree
  <2>2. nodes[k].kind \in Pairs \cup Targets => Check(k)' = Check(k) /\ Expected(k)' = Expected(k)
    BY <2>1, SameCheck
  <2>3. CASE k # at
    <3>1. Seen(k)' <=> Seen(k)
      BY <2>3, <1>2
    <3> QED BY <2>1, <2>2, <3>1, <1>2 DEF Wrapped
  <2>4. CASE k = at
    <3>1. UnderCast(k) /\ Seen(k)' /\ wraps[k] = None
      BY <2>1, <2>4, <1>1, <1>2 DEF Wrapped
    <3> QED BY <2>1, <3>1 DEF Wrapped
  <2> QED BY <2>3, <2>4
<1>10. ASSUME NEW k \in 1..Len(nodes)
       PROVE  Given(k)'
  <2>1. Given(k) /\ nodes' = nodes /\ ty' = ty /\ wraps' = wraps
    BY <1>1, <1>4
  <2>2. (\E j \in Tree(k) : Dependent(j))' <=> (\E j \in Tree(k) : Dependent(j))
    BY <2>1, SameTrees
  <2> QED BY <2>1, <2>2 DEF Given
<1>11. \A k \in 1..Len(nodes) : Even(k)' <=> Even(k)
  BY <1>1, SameTrees
<1>12. Early' <=> Early
  BY <1>1, SameTrees
<1>13. Len(nodes') = Len(nodes)
  BY <1>1
<1> QED BY <1>6, <1>7, <1>8, <1>9, <1>10, <1>11, <1>12, <1>13 DEF Typed

\* Passing over what is within a cast.
LEMMA SkipStep ==
    ASSUME IInv, Skip
    PROVE  IInv'
<1>1. Shape /\ Progress /\ Typed
  BY DEF IInv
<1>2. /\ Len(nodes) \in Nat /\ at \in 1..Len(nodes) /\ pass = "analyse"
      /\ \/ at = Len(nodes) /\ at' = 1 /\ pass' = "lower"
         \/ at < Len(nodes) /\ at' = at + 1 /\ pass' = "analyse"
      /\ UNCHANGED <<family, arg, nodes, open, ty, wraps, vals, ill, verdict>>
  BY <1>1, Stepping DEF Skip
<1>3. Shape'
  BY <1>1, <1>2, SameShape
<1>4. Typed'
  BY <1>1, SkipTyped
<1>5. pass' \in Passes /\ pass' # "parse" /\ pass' # "done" /\ vals = <<>> /\ Len(vals) = 0
  BY <1>1, <1>2 DEF Passes, Progress
<1>6. vals' = <<>> /\ ill' = {} /\ verdict' = Nil
  BY <1>1, <1>2, <1>5 DEF Progress
<1>7. Progress'
  BY <1>1, <1>2, <1>5 DEF Progress
<1>8. Outcome'
  BY <1>6, BeforeLowering
<1> QED BY <1>3, <1>4, <1>7, <1>8 DEF IInv

\* Where a visit stops, nothing more is claimed of types that are known.
LEMMA FailsTyped ==
    ASSUME Shape, Progress, Typed, pass # "parse", UNCHANGED <<nodes, ty, wraps>>, pass' = "done"
    PROVE  Typed'
<1>1. \A k : ~Resolved(k)' /\ ~Seen(k)' /\ ~Raw(k)'
  BY DEF Resolved, Seen, Raw
<1>2. \A k \in 1..Len(nodes) : Kept(k) /\ Wrapped(k) /\ Given(k)
  BY DEF Typed
<1>3. ASSUME NEW k \in 1..Len(nodes)
      PROVE  Kept(k)' /\ Known(k)' /\ Steady(k)' /\ Wrapped(k)' /\ Given(k)'
  <2>1. Kept(k)'
    BY <1>1, <1>2 DEF Kept
  <2>2. Known(k)' /\ Steady(k)'
    BY <1>1 DEF Known, Steady
  <2>3. Wrapped(k)'
    BY <1>1, <1>2 DEF Wrapped
  <2>4. Given(k)'
    BY <1>2, SameTrees DEF Given
  <2> QED BY <2>1, <2>2, <2>3, <2>4
<1> QED BY <1>3 DEF Typed

\* So much of the invariant is kept however a visit stops.
LEMMA FailsKeeps ==
    ASSUME Shape, Progress, Typed, pass \in {"resolve", "analyse", "lower"}, NEW how \in Verdicts, Fails(how)
    PROVE  Shape' /\ Progress' /\ Typed'
<1>1. /\ UNCHANGED <<family, arg, nodes, open, ty, wraps, at, vals, ill>>
      /\ pass' = "done" /\ verdict' = how
  BY DEF Fails
<1>2. Shape'
  BY <1>1, SameShape
<1>3. Typed'
  BY <1>1, FailsTyped
<1>4. Progress'
  BY <1>1 DEF Progress, Passes
<1> QED BY <1>2, <1>3, <1>4

-----------------------------------------------------------------------------
(* What the builder and the generator give.                                *)

\* A value, and the type that it has; or how the compiler stops.
OfType(o, t)  == o.out = "value" => o.v.ty = t
Whole(o)      == o.out = "value" /\ ~o.ill
Ends(o, hows) == o.out \in {"value"} \cup hows

\* The types that the kinds of values have.
LEMMA MirKinds ==
    ASSUME NEW v
    PROVE  /\ v.ty \in MirTypes => MirInt(v) \/ MirFloat(v) \/ MirPtr(v)
           /\ MirInt(v) => ~MirFloat(v) /\ ~MirPtr(v) /\ v.ty \in MirTypes
           /\ MirFloat(v) => ~MirPtr(v) /\ v.ty \in MirTypes
           /\ MirPtr(v) => v.ty \in MirTypes
           /\ v.ty = "i1" => MirInt(v)
  BY DEF MirTypes, MirInt, MirFloat, MirPtr, IsPointer, MirInts, Floats, Pointers

\* An instruction on integers gives one of its type.
LEMMA ComputedType ==
    ASSUME NEW op, NEW t, NEW a, NEW b
    PROVE  Computed(op, t, a, b).ty = t
<1>1. \A n : Fitted(t, n).ty = t
  BY Zenon DEF Fitted, Value
<1>2. Unknown(t).ty = t
  BY DEF Unknown
<1> HIDE DEF Fitted, Unknown
<1> QED BY <1>1, <1>2, Zenon DEF Computed

\* What a Builds comes to.
LEMMA BuildsIs ==
    ASSUME NEW asserted \in BOOLEAN, NEW v, NEW illtyped \in BOOLEAN
    PROVE  LET o == Builds(asserted, v, illtyped) IN
           /\ Ends(o, {"asserted"})
           /\ o.out = "value" <=> asserted
           /\ asserted => o.v = v /\ (o.ill <=> illtyped)
  BY DEF Builds, Gives, Stops, Ends

\* Operators on integers: of two, and of one type they are to be.
LEMMA BuildIntIs ==
    ASSUME NEW op, NEW l, NEW r, NEW signed
    PROVE  LET o == BuildInt(op, l, r, signed) IN
           /\ Ends(o, {"asserted"}) /\ OfType(o, l.ty)
           /\ o.out = "value" <=> MirInt(l) /\ MirInt(r)
           /\ l.ty = r.ty => ~o.ill
<1> DEFINE a(v) == IF signed THEN Signed(v) ELSE v.bits
           val  == IF MirInt(l) /\ MirInt(r) /\ l.known /\ r.known
                   THEN Computed(op, l.ty, a(l), IF op \in {"shl", "shr"} THEN r.bits ELSE a(r))
                   ELSE Unknown(l.ty)
           cond == MirInt(l) /\ MirInt(r)
           bad  == l.ty # r.ty
<1>1. BuildInt(op, l, r, signed) = Builds(cond, val, bad)
  BY Zenon DEF BuildInt
<1>2. val.ty = l.ty
  <2>1. Unknown(l.ty).ty = l.ty
    BY DEF Unknown
  <2>2. \A x, y : Computed(op, l.ty, x, y).ty = l.ty
    BY ComputedType, Zenon
  <2> HIDE DEF a
  <2> QED BY <2>1, <2>2
<1>3. cond \in BOOLEAN /\ bad \in BOOLEAN
  BY DEF MirInt
<1> HIDE DEF val
<1>4. /\ Ends(Builds(cond, val, bad), {"asserted"})
      /\ Builds(cond, val, bad).out = "value" <=> cond
      /\ cond => Builds(cond, val, bad).v = val /\ (Builds(cond, val, bad).ill <=> bad)
      /\ ~cond => ~Builds(cond, val, bad).ill
  BY <1>3 DEF Builds, Gives, Stops, Ends
<1> QED BY <1>1, <1>2, <1>4 DEF OfType

\* Operators on floats.
LEMMA BuildFloatIs ==
    ASSUME NEW l, NEW r
    PROVE  LET o == BuildFloat(l, r) IN
           /\ Ends(o, {"asserted"}) /\ OfType(o, l.ty)
           /\ o.out = "value" <=> MirFloat(l) /\ MirFloat(r)
           /\ l.ty = r.ty => ~o.ill
  BY DEF BuildFloat, Builds, Gives, Stops, Ends, OfType, Unknown

\* An index into what a pointer is to.
LEMMA BuildApIs ==
    ASSUME NEW l, NEW r
    PROVE  LET o == BuildAp(l, r) IN
           /\ Ends(o, {"asserted"}) /\ OfType(o, l.ty)
           /\ o.out = "value" <=> MirPtr(l) /\ MirInt(r)
           /\ ~o.ill
  BY DEF BuildAp, Builds, Gives, Stops, Ends, OfType, Unknown

\* Comparisons.
LEMMA BuildIcmpIs ==
    ASSUME NEW op, NEW l, NEW r, NEW signed
    PROVE  LET o == BuildIcmp(op, l, r, signed) IN
           /\ Ends(o, {"asserted"}) /\ OfType(o, "i1")
           /\ o.out = "value" <=> MirInt(l) /\ MirInt(r)
           /\ l.ty = r.ty => ~o.ill
<1> DEFINE a(v) == IF signed THEN Signed(v) ELSE v.bits
           val  == IF MirInt(l) /\ MirInt(r) /\ l.known /\ r.known
                   THEN Truth(Compared(op, a(l), a(r))) ELSE Unknown("i1")
           cond == MirInt(l) /\ MirInt(r)
           bad  == l.ty # r.ty
<1>1. BuildIcmp(op, l, r, signed) = Builds(cond, val, bad)
  BY Zenon DEF BuildIcmp
<1>2. val.ty = "i1"
  <2>1. Unknown("i1").ty = "i1"
    BY DEF Unknown
  <2>2. \A b : Truth(b).ty = "i1"
    BY DEF Truth, Value
  <2> HIDE DEF a
  <2> QED BY <2>1, <2>2
<1>3. cond \in BOOLEAN /\ bad \in BOOLEAN
  BY DEF MirInt
<1> HIDE DEF val
<1>4. /\ Ends(Builds(cond, val, bad), {"asserted"})
      /\ Builds(cond, val, bad).out = "value" <=> cond
      /\ cond => Builds(cond, val, bad).v = val /\ (Builds(cond, val, bad).ill <=> bad)
      /\ ~cond => ~Builds(cond, val, bad).ill
  BY <1>3 DEF Builds, Gives, Stops, Ends
<1> QED BY <1>1, <1>2, <1>4 DEF OfType

\* A comparison of floats is built from floats, and is well typed if they are
\* of one type.
LEMMA BuildFcmpIs ==
    ASSUME NEW l, NEW r
    PROVE  LET o == BuildFcmp(l, r) IN
           /\ Ends(o, {"asserted"}) /\ OfType(o, "i1")
           /\ o.out = "value" <=> MirFloat(l) /\ MirFloat(r)
           /\ l.ty = r.ty => ~o.ill
  BY DEF BuildFcmp, Builds, Gives, Stops, Ends, OfType, Unknown

\* A comparison of pointers is built from pointers, which are of one type.
LEMMA BuildPcmpIs ==
    ASSUME NEW l, NEW r
    PROVE  LET o == BuildPcmp(l, r) IN
           /\ Ends(o, {"asserted"}) /\ OfType(o, "i1")
           /\ o.out = "value" <=> MirPtr(l) /\ MirPtr(r)
           /\ ~o.ill
  BY DEF BuildPcmp, Builds, Gives, Stops, Ends, OfType, Unknown, MirPtr

\* A condition can be made of every value that has a type of the MIR.
LEMMA InjectCmpIs ==
    ASSUME NEW v
    PROVE  LET o == InjectCmp(v) IN
           /\ Ends(o, {"asserted"}) /\ OfType(o, "i1")
           /\ v.ty \in MirTypes => o.out = "value"
           /\ ~o.ill
<1>1. CASE v.ty = "i1"
  BY <1>1 DEF InjectCmp, Gives, Ends, OfType
<1>2. CASE v.ty # "i1" /\ MirInt(v)
  <2> DEFINE z == Value(v.ty, 0)
  <2>1. z.ty = v.ty
    BY DEF Value
  <2>2. InjectCmp(v) = BuildIcmp("ne", v, z, FALSE)
    BY <1>2, Zenon DEF InjectCmp
  <2> HIDE DEF z
  <2>3. MirInt(z)
    BY <1>2, <2>1 DEF MirInt
  <2> DEFINE o == BuildIcmp("ne", v, z, FALSE)
  <2>4. /\ Ends(o, {"asserted"}) /\ OfType(o, "i1")
        /\ o.out = "value" <=> MirInt(v) /\ MirInt(z)
        /\ v.ty = z.ty => ~o.ill
    BY BuildIcmpIs
  <2> HIDE DEF o
  <2>5. InjectCmp(v) = o
    BY <2>2 DEF o
  <2> QED BY ONLY <1>2, <2>1, <2>3, <2>4, <2>5
<1>3. CASE v.ty # "i1" /\ ~MirInt(v) /\ MirPtr(v)
  <2>1. InjectCmp(v) = BuildPcmp(v, v)
    BY <1>3, Zenon DEF InjectCmp
  <2> QED BY <1>3, <2>1, BuildPcmpIs
<1>4. CASE v.ty # "i1" /\ ~MirInt(v) /\ ~MirPtr(v)
  <2>1. InjectCmp(v) = BuildFcmp(v, v)
    BY <1>4, Zenon DEF InjectCmp
  <2> QED BY <1>4, <2>1, BuildFcmpIs, MirKinds
<1> QED BY <1>1, <1>2, <1>3, <1>4

\* build_neg() and build_fneg().
LEMMA BuildNegIs ==
    ASSUME NEW v
    PROVE  /\ Ends(BuildNeg(v), {"asserted"}) /\ OfType(BuildNeg(v), v.ty) /\ ~BuildNeg(v).ill
           /\ BuildNeg(v).out = "value" <=> MirInt(v)
           /\ Ends(BuildFneg(v), {"asserted"}) /\ OfType(BuildFneg(v), v.ty) /\ ~BuildFneg(v).ill
           /\ BuildFneg(v).out = "value" <=> MirFloat(v)
           /\ BuildNot(v).out = "value" /\ OfType(BuildNot(v), v.ty) /\ (BuildNot(v).ill => ~MirInt(v))
<1>1. \A n : Fitted(v.ty, n).ty = v.ty
  BY Zenon DEF Fitted, Value
<1>2. Unknown(v.ty).ty = v.ty
  BY DEF Unknown
<1> HIDE DEF Fitted, Unknown
<1>3. /\ Ends(BuildNeg(v), {"asserted"}) /\ OfType(BuildNeg(v), v.ty) /\ ~BuildNeg(v).ill
      /\ BuildNeg(v).out = "value" <=> MirInt(v)
  BY <1>1, <1>2 DEF BuildNeg, Builds, Gives, Stops, Ends, OfType
<1>4. /\ Ends(BuildFneg(v), {"asserted"}) /\ OfType(BuildFneg(v), v.ty) /\ ~BuildFneg(v).ill
      /\ BuildFneg(v).out = "value" <=> MirFloat(v)
  BY <1>1, <1>2 DEF BuildFneg, Builds, Gives, Stops, Ends, OfType
<1>5. BuildNot(v).out = "value" /\ OfType(BuildNot(v), v.ty) /\ (BuildNot(v).ill => ~MirInt(v))
  BY <1>1, <1>2 DEF BuildNot, Gives, OfType
<1> QED BY <1>3, <1>4, <1>5

\* The types of the MIR that scalar types stand for, but for a parameter's.
LEMMA CgnTypes ==
    ASSUME NEW t \in Types, t # None, t # "T", NEW a
    PROVE  LET c == CgnType(t, a) IN
           /\ c \in MirTypes
           /\ TypeClass(t) \in IntClasses => c \in {"i8", "i64"}
           /\ TypeClass(t) = "Float" <=> c \in Floats
           /\ TypeClass(t) = "Float" => c = t
           /\ TypeClass(t) = "Pointer" <=> c \in Pointers
           /\ TypeClass(t) = "Pointer" => c = t
           /\ TypeClass(t) = "Unknown" => t \in {"bool", "char"} /\ c \in MirInts
           /\ TypeClass(t) \in IntClasses \cup {"Float", "Pointer", "Unknown"}
<1>1. t \in {"bool", "char", "i8", "i64", "u8", "u64", "f32", "f64", "ptr", "nil"}
  BY DEF Types, ScalarTypes, Primitives, SInts, UInts, Floats, Pointers
<1> QED BY <1>1 DEF CgnType, TypeClass, IntClasses, MirTypes, MirInts, SInts, UInts, Floats, Pointers, IsPointer

\* A type that is a parameter, or none, is of no class.
LEMMA NoClass == TypeClass("T") = "Unknown" /\ TypeClass(None) = "Unknown"
  BY DEF TypeClass, None, SInts, UInts, Floats, Pointers, IsPointer

\* What the conversions between kinds of values come to.
LEMMA BuildConversions ==
    ASSUME NEW v, NEW d
    PROVE  /\ \A signed : /\ Ends(BuildExt(v, d, signed), {"asserted"})
                          /\ OfType(BuildExt(v, d, signed), d)
                          /\ v.ty = "i8" /\ d = "i64" => Whole(BuildExt(v, d, signed))
           /\ Ends(BuildTrunc(v, d), {"asserted"}) /\ OfType(BuildTrunc(v, d), d)
           /\ v.ty = "i64" /\ d = "i8" => Whole(BuildTrunc(v, d))
           /\ Ends(BuildFext(v, d), {"asserted"}) /\ OfType(BuildFext(v, d), d)
           /\ v.ty = "f32" /\ d = "f64" => Whole(BuildFext(v, d))
           /\ Ends(BuildFtrunc(v, d), {"asserted"}) /\ OfType(BuildFtrunc(v, d), d)
           /\ v.ty = "f64" /\ d = "f32" => Whole(BuildFtrunc(v, d))
           /\ Ends(BuildIntToFloat(v, d), {"asserted"}) /\ OfType(BuildIntToFloat(v, d), d)
           /\ MirInt(v) => Whole(BuildIntToFloat(v, d))
           /\ Ends(BuildFloatToInt(v, d), {"asserted"}) /\ OfType(BuildFloatToInt(v, d), d)
           /\ MirFloat(v) => Whole(BuildFloatToInt(v, d))
           /\ Ends(BuildReint(v, d), {"asserted"}) /\ OfType(BuildReint(v, d), d)
           /\ MirPtr(v) => Whole(BuildReint(v, d))
           /\ Ends(BuildPtrToInt(v, d), {"asserted"}) /\ OfType(BuildPtrToInt(v, d), d)
           /\ MirPtr(v) => Whole(BuildPtrToInt(v, d))
           /\ Ends(BuildIntToPtr(v, d), {"asserted"}) /\ OfType(BuildIntToPtr(v, d), d)
           /\ MirInt(v) => Whole(BuildIntToPtr(v, d))
<1>1. \A n : Fitted(d, n).ty = d
  BY Zenon DEF Fitted, Value
<1>2. Unknown(d).ty = d
  BY DEF Unknown
<1>3. Bits["i8"] < Bits["i64"]
  BY WidthsAssumption DEF Bits
<1>4. /\ TypeSize["i8"] = 1 /\ TypeSize["i64"] = 8 /\ TypeSize["f32"] = 4 /\ TypeSize["f64"] = 8
  BY DEF TypeSize
<1> HIDE DEF Fitted, Unknown, Bits, TypeSize
<1>5. ASSUME NEW signed
      PROVE  /\ Ends(BuildExt(v, d, signed), {"asserted"})
             /\ OfType(BuildExt(v, d, signed), d)
             /\ v.ty = "i8" /\ d = "i64" => Whole(BuildExt(v, d, signed))
  <2> DEFINE cond == MirInt(v) /\ TypeSize[v.ty] <= TypeSize[d]
             val  == IF MirInt(v) /\ v.known THEN Fitted(d, IF signed THEN Signed(v) ELSE v.bits) ELSE Unknown(d)
             bad  == ~(MirInt(v) /\ Bits[v.ty] < Bits[d])
  <2>1. BuildExt(v, d, signed) = Builds(cond, val, bad)
    BY Zenon DEF BuildExt
  <2>2. val.ty = d
    BY <1>1, <1>2
  <2>3. v.ty = "i8" /\ d = "i64" => cond /\ ~bad
    BY <1>3, <1>4 DEF MirInt, MirInts
  <2> HIDE DEF cond, val, bad
  <2> QED BY <2>1, <2>2, <2>3 DEF Builds, Gives, Stops, Ends, OfType, Whole
<1>6. /\ Ends(BuildTrunc(v, d), {"asserted"}) /\ OfType(BuildTrunc(v, d), d)
      /\ v.ty = "i64" /\ d = "i8" => Whole(BuildTrunc(v, d))
  <2> DEFINE cond == MirInt(v) /\ TypeSize[v.ty] >= TypeSize[d]
             val  == IF MirInt(v) /\ v.known THEN Fitted(d, v.bits) ELSE Unknown(d)
             bad  == ~(MirInt(v) /\ Bits[v.ty] > Bits[d])
  <2>1. BuildTrunc(v, d) = Builds(cond, val, bad)
    BY Zenon DEF BuildTrunc
  <2>2. val.ty = d
    BY <1>1, <1>2
  <2>3. v.ty = "i64" /\ d = "i8" => cond /\ ~bad
    BY <1>3, <1>4 DEF MirInt, MirInts
  <2> HIDE DEF cond, val, bad
  <2> QED BY <2>1, <2>2, <2>3 DEF Builds, Gives, Stops, Ends, OfType, Whole
<1>7. /\ Ends(BuildFext(v, d), {"asserted"}) /\ OfType(BuildFext(v, d), d)
      /\ v.ty = "f32" /\ d = "f64" => Whole(BuildFext(v, d))
      /\ Ends(BuildFtrunc(v, d), {"asserted"}) /\ OfType(BuildFtrunc(v, d), d)
      /\ v.ty = "f64" /\ d = "f32" => Whole(BuildFtrunc(v, d))
  <2> DEFINE ext   == TypeSize[v.ty] >= TypeSize[d]
             trunc == TypeSize[v.ty] <= TypeSize[d]
  <2>1. v.ty = "f32" /\ d = "f64" => MirFloat(v) /\ ~ext
    BY <1>4 DEF MirFloat, Floats
  <2>2. v.ty = "f64" /\ d = "f32" => MirFloat(v) /\ ~trunc
    BY <1>4 DEF MirFloat, Floats
  <2>3. BuildFext(v, d) = Builds(MirFloat(v), Unknown(d), ext) /\ BuildFtrunc(v, d) = Builds(MirFloat(v), Unknown(d), trunc)
    BY DEF BuildFext, BuildFtrunc
  <2> HIDE DEF ext, trunc
  <2> QED BY <1>2, <2>1, <2>2, <2>3 DEF Builds, Gives, Stops, Ends, OfType, Whole
<1>8. /\ Ends(BuildIntToFloat(v, d), {"asserted"}) /\ OfType(BuildIntToFloat(v, d), d)
      /\ MirInt(v) => Whole(BuildIntToFloat(v, d))
      /\ Ends(BuildFloatToInt(v, d), {"asserted"}) /\ OfType(BuildFloatToInt(v, d), d)
      /\ MirFloat(v) => Whole(BuildFloatToInt(v, d))
      /\ Ends(BuildReint(v, d), {"asserted"}) /\ OfType(BuildReint(v, d), d)
      /\ MirPtr(v) => Whole(BuildReint(v, d))
      /\ Ends(BuildPtrToInt(v, d), {"asserted"}) /\ OfType(BuildPtrToInt(v, d), d)
      /\ MirPtr(v) => Whole(BuildPtrToInt(v, d))
      /\ Ends(BuildIntToPtr(v, d), {"asserted"}) /\ OfType(BuildIntToPtr(v, d), d)
      /\ MirInt(v) => Whole(BuildIntToPtr(v, d))
  BY <1>2 DEF BuildIntToFloat, BuildFloatToInt, BuildReint, BuildPtrToInt, BuildIntToPtr,
              Builds, Gives, Stops, Ends, OfType, Whole
<1> QED BY <1>5, <1>6, <1>7, <1>8

\* What visit(CastExpr) gives: its value has the type of the target, if the
\* operand is what the tree says, and there is one for every conversion that
\* may be written or is put in, but for those of ConversionGap.
LEMMA ConvertIs ==
    ASSUME NEW v, NEW src \in Types, NEW dst \in Types, NEW a
    PROVE  LET o == Convert(v, src, dst, a) IN
           /\ Ends(o, {"crash", "refused", "asserted"})
           /\ o.out = "crash" => src = None \/ dst = None
           /\ o.out = "value" => o.v.ty \in {v.ty, CgnType(dst, a)}
           /\ v.ty = CgnType(src, a) /\ o.out = "value" => o.v.ty = CgnType(dst, a) /\ ~o.ill
           /\ /\ v.ty = CgnType(src, a) /\ src \notin {None, "T"} /\ dst \notin {None, "T"}
              /\ CanCastTo(src, dst) \/ CanImplCastTo(src, dst)
              /\ ~ConversionGap(src, dst)
              => o.out = "value"
<1> DEFINE s == TypeClass(src)
           d == TypeClass(dst)
           from == CgnType(src, a)
           to == CgnType(dst, a)
           o == Convert(v, src, dst, a)
           Ints == IntClasses
<1>1. /\ s \in Ints => from \in {"i8", "i64"}
      /\ d \in Ints => to \in {"i8", "i64"}
      /\ s = "Float" => from \in {"f32", "f64"} /\ from = src
      /\ d = "Float" => to \in {"f32", "f64"} /\ to = dst
      /\ s = "Pointer" => from \in Pointers
      /\ d = "Pointer" => to \in Pointers
  BY CgnTypes, NoClass DEF IntClasses, Floats
<1>2. (s \in Ints => s \notin {"Float", "Pointer"}) /\ (d \in Ints => d \notin {"Float", "Pointer"})
  BY DEF IntClasses
<1>3. /\ TypeSize["i8"] = 1 /\ TypeSize["i64"] = 8 /\ TypeSize["f32"] = 4 /\ TypeSize["f64"] = 8
  BY DEF TypeSize
<1>4. CASE None \in {src, dst}
  <2>1. o = Stops("crash")
    BY <1>4 DEF Convert
  <2> QED BY <2>1, <1>4 DEF Stops, Ends
<1>5. CASE None \notin {src, dst} /\ from = to
  <2>1. o = Gives(v, FALSE)
    BY <1>5 DEF Convert
  <2> QED BY <2>1, <1>5 DEF Gives, Ends
<1>6. CASE None \notin {src, dst} /\ from # to
  <2> DEFINE Fine == /\ Ends(o, {"asserted"}) /\ OfType(o, to)
                     /\ v.ty = from => Whole(o)
  <2>1. ASSUME Fine
        PROVE  /\ Ends(o, {"crash", "refused", "asserted"})
               /\ o.out = "crash" => src = None \/ dst = None
               /\ o.out = "value" => o.v.ty \in {v.ty, to}
               /\ v.ty = from /\ o.out = "value" => o.v.ty = to /\ ~o.ill
               /\ v.ty = from => o.out = "value"
    BY <2>1, <1>6 DEF Ends, OfType, Whole
  <2>2. CASE s \in Ints /\ d \in Ints
    <3>1. CASE from = "i64" /\ to = "i8"
      <4>1. o = BuildTrunc(v, to)
        <5>1. TypeSize[from] # TypeSize[to] /\ TypeSize[from] > TypeSize[to]
          BY <1>3, <3>1
        <5> QED BY <5>1, <1>2, <1>6, <2>2 DEF Convert
      <4>2. Fine
        BY <4>1, <3>1, BuildConversions
      <4> QED BY <2>1, <4>2
    <3>2. CASE from = "i8" /\ to = "i64"
      <4>1. o = BuildExt(v, to, s = "SInt")
        <5>1. TypeSize[from] # TypeSize[to] /\ ~(TypeSize[from] > TypeSize[to])
          BY <1>3, <3>2
        <5> QED BY <5>1, <1>2, <1>6, <2>2 DEF Convert
      <4>2. Fine
        BY <4>1, <3>2, BuildConversions
      <4> QED BY <2>1, <4>2
    <3> QED BY <1>1, <1>6, <2>2, <3>1, <3>2
  <2>3. CASE s = "Float" /\ d = "Float"
    <3>1. CASE from = "f64" /\ to = "f32"
      <4>1. o = BuildFtrunc(v, to)
        BY <1>2, <1>3, <1>6, <2>3, <3>1 DEF Convert
      <4>2. Fine
        BY <4>1, <3>1, BuildConversions
      <4> QED BY <2>1, <4>2
    <3>2. CASE from = "f32" /\ to = "f64"
      <4>1. o = BuildFext(v, to)
        BY <1>2, <1>3, <1>6, <2>3, <3>2 DEF Convert
      <4>2. Fine
        BY <4>1, <3>2, BuildConversions
      <4> QED BY <2>1, <4>2
    <3> QED BY <1>1, <1>6, <2>3, <3>1, <3>2
  <2>4. CASE s \in Ints /\ d = "Float"
    <3>1. o = BuildIntToFloat(v, to)
      BY <1>2, <1>6, <2>4 DEF Convert
    <3>2. v.ty = from => MirInt(v)
      BY <1>1, <2>4 DEF MirInt, MirInts
    <3>3. Fine
      BY <3>1, <3>2, BuildConversions
    <3> QED BY <2>1, <3>3
  <2>5. CASE s = "Float" /\ d \in Ints
    <3>1. o = BuildFloatToInt(v, to)
      BY <1>2, <1>6, <2>5 DEF Convert
    <3>2. v.ty = from => MirFloat(v)
      BY <1>1, <2>5 DEF MirFloat, Floats
    <3>3. Fine
      BY <3>1, <3>2, BuildConversions
    <3> QED BY <2>1, <3>3
  <2>6. CASE s = "Pointer" /\ d = "Pointer"
    <3>1. o = BuildReint(v, to)
      BY <1>2, <1>6, <2>6 DEF Convert
    <3>2. v.ty = from => MirPtr(v)
      BY <1>1, <2>6 DEF MirPtr, IsPointer
    <3>3. Fine
      BY <3>1, <3>2, BuildConversions
    <3> QED BY <2>1, <3>3
  <2>7. CASE s = "Pointer" /\ d \in Ints
    <3>1. o = BuildPtrToInt(v, to)
      BY <1>2, <1>6, <2>7 DEF Convert
    <3>2. v.ty = from => MirPtr(v)
      BY <1>1, <2>7 DEF MirPtr, IsPointer
    <3>3. Fine
      BY <3>1, <3>2, BuildConversions
    <3> QED BY <2>1, <3>3
  <2>8. CASE s \in Ints /\ d = "Pointer"
    <3>1. o = BuildIntToPtr(v, to)
      BY <1>2, <1>6, <2>8 DEF Convert
    <3>2. v.ty = from => MirInt(v)
      BY <1>1, <2>8 DEF MirInt, MirInts
    <3>3. Fine
      BY <3>1, <3>2, BuildConversions
    <3> QED BY <2>1, <3>3
  <2>9. CASE ~ \/ s \in Ints /\ d \in Ints
               \/ s = "Float" /\ d = "Float"
               \/ s \in Ints /\ d = "Float"
               \/ s = "Float" /\ d \in Ints
               \/ s = "Pointer" /\ d = "Pointer"
               \/ s = "Pointer" /\ d \in Ints
               \/ s \in Ints /\ d = "Pointer"
    <3>1. o = Stops("refused")
      BY <1>6, <2>9 DEF Convert
    <3>2. ~ /\ src \notin {None, "T"} /\ dst \notin {None, "T"}
            /\ CanCastTo(src, dst) \/ CanImplCastTo(src, dst)
            /\ ~ConversionGap(src, dst)
      <4> SUFFICES ASSUME src \notin {None, "T"}, dst \notin {None, "T"},
                          CanCastTo(src, dst) \/ CanImplCastTo(src, dst),
                          ~ConversionGap(src, dst)
                   PROVE  FALSE
        OBVIOUS
      <4>1. s # "Unknown" /\ d # "Unknown" /\ ~(src = "nil" /\ dst \in Floats)
        BY DEF ConversionGap
      <4>2. (s = "Float" /\ d = "Pointer") \/ (s = "Pointer" /\ d = "Float")
        <5>1. s \in Ints \cup {"Float", "Pointer", "Unknown"} /\ d \in Ints \cup {"Float", "Pointer", "Unknown"}
          BY CgnTypes
        <5> QED BY <5>1, <4>1, <2>9
      <4>3. (src \in Floats /\ dst \in Pointers) \/ (src \in Pointers /\ dst \in Floats)
        BY <4>2 DEF TypeClass, IsPointer
      <4> QED BY <4>1, <4>3 DEF CanCastTo, CanImplCastTo, Primitives, Floats, Pointers, SInts, UInts, IsInt, IsPointer
    <3> QED BY <3>1, <3>2 DEF Stops, Ends
  <2> QED BY <2>2, <2>3, <2>4, <2>5, <2>6, <2>7, <2>8, <2>9
<1> QED BY <1>4, <1>5, <1>6

\* There is none from or to a type that is not known.
LEMMA ConvertKnown ==
    ASSUME NEW v, NEW src, NEW dst, NEW a, Convert(v, src, dst, a).out = "value"
    PROVE  src # None /\ dst # None
<1>1. None \in {src, dst} => Convert(v, src, dst, a) = Stops("crash")
  BY DEF Convert
<1>2. Stops("crash").out # "value"
  BY DEF Stops
<1> QED BY <1>1, <1>2

\* And of an operand that has the type that the tree says.
LEMMA ConvertFits ==
    ASSUME NEW v, NEW src \in Types, src \notin {None, "T"}, NEW dst \in Types, dst \notin {None, "T"}, NEW a,
           v.ty = CgnType(src, a), NEW o, o = Convert(v, src, dst, a)
    PROVE  /\ o.out = "value" => o.v.ty = CgnType(dst, a) /\ ~o.ill
           /\ (CanCastTo(src, dst) \/ CanImplCastTo(src, dst)) /\ ~ConversionGap(src, dst) => o.out = "value"
<1> HIDE DEF CgnType
<1>1. LET c == Convert(v, src, dst, a) IN
      /\ c.out = "value" => c.v.ty = CgnType(dst, a) /\ ~c.ill
      /\ (CanCastTo(src, dst) \/ CanImplCastTo(src, dst)) /\ ~ConversionGap(src, dst) => c.out = "value"
  BY ConvertIs
<1> QED BY <1>1

\* Sums and differences, which go by the values.
LEMMA LowerSumIs ==
    ASSUME NEW op, NEW l, NEW r
    PROVE  LET o == LowerSum(op, l, r) IN
           /\ Ends(o, {"refused", "asserted"}) /\ OfType(o, l.ty)
           /\ l.ty = r.ty => ~o.ill
           /\ o.out = "value" /\ (MirPtr(l) \/ MirPtr(r)) => ~o.ill
           /\ MirPtr(l) /\ MirInt(r) => o.out = "value"
           /\ (MirInt(l) \/ MirFloat(l)) /\ l.ty = r.ty => o.out = "value"
<1> DEFINE o == LowerSum(op, l, r)
<1>1. CASE MirPtr(l) /\ MirInt(r)
  <2>1. o = BuildAp(l, r)
    BY <1>1, Zenon DEF LowerSum
  <2> QED BY <2>1, <1>1, BuildApIs DEF Ends
<1>2. CASE ~(MirPtr(l) /\ MirInt(r)) /\ MirInt(l)
  <2>1. o = BuildInt(op, l, r, FALSE)
    BY <1>2, Zenon DEF LowerSum
  <2>2. /\ Ends(BuildInt(op, l, r, FALSE), {"asserted"}) /\ OfType(BuildInt(op, l, r, FALSE), l.ty)
        /\ BuildInt(op, l, r, FALSE).out = "value" <=> MirInt(l) /\ MirInt(r)
        /\ l.ty = r.ty => ~BuildInt(op, l, r, FALSE).ill
    BY BuildIntIs, Zenon
  <2>3. ~MirPtr(l) /\ (MirPtr(r) => ~MirInt(r)) /\ (l.ty = r.ty => MirInt(r))
    BY <1>2, MirKinds DEF MirInt
  <2> QED BY <2>1, <2>2, <2>3, <1>2 DEF Ends
<1>3. CASE ~(MirPtr(l) /\ MirInt(r)) /\ ~MirInt(l) /\ MirFloat(l)
  <2>1. o = BuildFloat(l, r)
    BY <1>3, Zenon DEF LowerSum
  <2>2. ~MirPtr(l) /\ (MirPtr(r) => ~MirFloat(r)) /\ (l.ty = r.ty => MirFloat(r))
    BY <1>3, MirKinds DEF MirFloat
  <2> QED BY <2>1, <2>2, <1>3, BuildFloatIs DEF Ends
<1>4. CASE ~(MirPtr(l) /\ MirInt(r)) /\ ~MirInt(l) /\ ~MirFloat(l)
  <2>1. o = Stops("refused")
    BY <1>4, Zenon DEF LowerSum
  <2> QED BY <2>1, <1>4 DEF Stops, Ends, OfType
<1> QED BY <1>1, <1>2, <1>3, <1>4

\* Products, quotients, remainders and the right shift, by a class of types.
LEMMA LowerByIs ==
    ASSUME NEW class, NEW op, NEW l, NEW r
    PROVE  LET o == LowerBy(class, op, l, r) IN
           /\ Ends(o, {"refused", "asserted"}) /\ OfType(o, l.ty)
           /\ l.ty = r.ty => ~o.ill
           /\ class \in IntClasses /\ MirInt(l) /\ l.ty = r.ty => o.out = "value"
           /\ class = "Float" /\ op \in {"mul", "div"} /\ MirFloat(l) /\ l.ty = r.ty => o.out = "value"
<1> DEFINE o == LowerBy(class, op, l, r)
<1>1. "Float" \notin IntClasses
  BY DEF IntClasses
<1>2. CASE class \in IntClasses
  <2> DEFINE s == class = "SInt"
  <2>1. o = BuildInt(op, l, r, s)
    BY <1>1, <1>2 DEF LowerBy
  <2> HIDE DEF s
  <2>2. /\ Ends(BuildInt(op, l, r, s), {"asserted"}) /\ OfType(BuildInt(op, l, r, s), l.ty)
        /\ BuildInt(op, l, r, s).out = "value" <=> MirInt(l) /\ MirInt(r)
        /\ l.ty = r.ty => ~BuildInt(op, l, r, s).ill
    BY BuildIntIs, Zenon
  <2>3. MirInt(l) /\ l.ty = r.ty => MirInt(r)
    BY DEF MirInt
  <2> QED BY <2>1, <2>2, <2>3, <1>1, <1>2 DEF Ends
<1>3. CASE class = "Float" /\ op \in {"mul", "div"}
  <2>1. o = BuildFloat(l, r)
    BY <1>1, <1>3 DEF LowerBy
  <2>2. MirFloat(l) /\ l.ty = r.ty => MirFloat(r)
    BY DEF MirFloat
  <2> QED BY <2>1, <2>2, <1>1, <1>3, BuildFloatIs DEF Ends
<1>4. CASE class \notin IntClasses /\ ~(class = "Float" /\ op \in {"mul", "div"})
  <2>1. o = Stops("refused")
    BY <1>4 DEF LowerBy
  <2> QED BY <2>1, <1>4 DEF Stops, Ends, OfType
<1> QED BY <1>2, <1>3, <1>4

\* Equality, by the left value.
LEMMA LowerEqualityIs ==
    ASSUME NEW op, NEW l, NEW r
    PROVE  LET o == LowerEquality(op, l, r) IN
           /\ Ends(o, {"asserted"}) /\ OfType(o, "i1")
           /\ l.ty = r.ty => ~o.ill
           /\ l.ty = r.ty /\ l.ty \in MirTypes => o.out = "value"
<1> DEFINE o == LowerEquality(op, l, r)
<1>1. l.ty = r.ty => (MirInt(l) = MirInt(r)) /\ (MirFloat(l) = MirFloat(r)) /\ (MirPtr(l) = MirPtr(r))
  BY DEF MirInt, MirFloat, MirPtr
<1>2. CASE MirInt(l)
  <2>1. o = BuildIcmp(op, l, r, FALSE)
    BY <1>2, Zenon DEF LowerEquality
  <2>2. /\ Ends(BuildIcmp(op, l, r, FALSE), {"asserted"}) /\ OfType(BuildIcmp(op, l, r, FALSE), "i1")
        /\ BuildIcmp(op, l, r, FALSE).out = "value" <=> MirInt(l) /\ MirInt(r)
        /\ l.ty = r.ty => ~BuildIcmp(op, l, r, FALSE).ill
    BY BuildIcmpIs, Zenon
  <2> QED BY <2>1, <2>2, <1>1, <1>2
<1>3. CASE ~MirInt(l) /\ MirFloat(l)
  <2>1. o = BuildFcmp(l, r)
    BY <1>3, Zenon DEF LowerEquality
  <2> QED BY <2>1, <1>1, <1>3, BuildFcmpIs
<1>4. CASE ~MirInt(l) /\ ~MirFloat(l)
  <2>1. o = BuildPcmp(l, r)
    BY <1>4, Zenon DEF LowerEquality
  <2> QED BY <2>1, <1>1, <1>4, BuildPcmpIs, MirKinds
<1> QED BY <1>2, <1>3, <1>4

\* Orders, by a class of integers or by the left value.
LEMMA LowerOrderIs ==
    ASSUME NEW class, NEW op, NEW l, NEW r
    PROVE  LET o == LowerOrder(class, op, l, r) IN
           /\ Ends(o, {"refused", "asserted"}) /\ OfType(o, "i1")
           /\ l.ty = r.ty => ~o.ill
           /\ l.ty = r.ty /\ class \in IntClasses /\ MirInt(l) => o.out = "value"
           /\ l.ty = r.ty /\ class \notin IntClasses /\ (MirPtr(l) \/ MirFloat(l)) => o.out = "value"
<1> DEFINE o == LowerOrder(class, op, l, r)
<1>1. l.ty = r.ty => (MirInt(l) = MirInt(r)) /\ (MirFloat(l) = MirFloat(r)) /\ (MirPtr(l) = MirPtr(r))
  BY DEF MirInt, MirFloat, MirPtr
<1>2. CASE class \in IntClasses
  <2> DEFINE s == class = "SInt"
  <2>1. o = BuildIcmp(op, l, r, s)
    BY <1>2, Zenon DEF LowerOrder
  <2> HIDE DEF s
  <2>2. /\ Ends(BuildIcmp(op, l, r, s), {"asserted"}) /\ OfType(BuildIcmp(op, l, r, s), "i1")
        /\ BuildIcmp(op, l, r, s).out = "value" <=> MirInt(l) /\ MirInt(r)
        /\ l.ty = r.ty => ~BuildIcmp(op, l, r, s).ill
    BY BuildIcmpIs, Zenon
  <2> QED BY <2>1, <2>2, <1>1, <1>2 DEF Ends
<1>3. CASE class \notin IntClasses /\ MirPtr(l)
  <2>1. o = BuildPcmp(l, r)
    BY <1>3, Zenon DEF LowerOrder
  <2> QED BY <2>1, <1>1, <1>3, BuildPcmpIs DEF Ends
<1>4. CASE class \notin IntClasses /\ ~MirPtr(l) /\ MirFloat(l)
  <2>1. o = BuildFcmp(l, r)
    BY <1>4, Zenon DEF LowerOrder
  <2> QED BY <2>1, <1>1, <1>4, BuildFcmpIs DEF Ends
<1>5. CASE class \notin IntClasses /\ ~MirPtr(l) /\ ~MirFloat(l)
  <2>1. o = Stops("refused")
    BY <1>5, Zenon DEF LowerOrder
  <2> QED BY <2>1, <1>5 DEF Stops, Ends, OfType
<1> QED BY <1>2, <1>3, <1>4, <1>5

\* Operators on bits, by the left value.
LEMMA LowerBitsIs ==
    ASSUME NEW op, NEW l, NEW r
    PROVE  LET o == LowerBits(op, l, r) IN
           /\ Ends(o, {"refused", "asserted"}) /\ OfType(o, l.ty)
           /\ l.ty = r.ty => ~o.ill
           /\ MirInt(l) /\ l.ty = r.ty => o.out = "value"
<1> DEFINE o == LowerBits(op, l, r)
<1>1. CASE MirInt(l)
  <2>1. o = BuildInt(op, l, r, FALSE)
    BY <1>1, Zenon DEF LowerBits
  <2>2. /\ Ends(BuildInt(op, l, r, FALSE), {"asserted"}) /\ OfType(BuildInt(op, l, r, FALSE), l.ty)
        /\ BuildInt(op, l, r, FALSE).out = "value" <=> MirInt(l) /\ MirInt(r)
        /\ l.ty = r.ty => ~BuildInt(op, l, r, FALSE).ill
    BY BuildIntIs, Zenon
  <2>3. MirInt(l) /\ l.ty = r.ty => MirInt(r)
    BY DEF MirInt
  <2> QED BY <2>1, <2>2, <2>3, <1>1 DEF Ends
<1>2. CASE ~MirInt(l)
  <2>1. o = Stops("refused")
    BY <1>2, Zenon DEF LowerBits
  <2> QED BY <2>1, <1>2 DEF Stops, Ends, OfType
<1> QED BY <1>1, <1>2

\* && and ||: a truth value, of any two values.
LEMMA LowerLogicIs ==
    ASSUME NEW op, NEW l, NEW r
    PROVE  LET o == LowerLogic(op, l, r) IN
           /\ Ends(o, {"asserted"}) /\ OfType(o, "i1") /\ ~o.ill
           /\ l.ty \in MirTypes /\ r.ty \in MirTypes => o.out = "value"
<1> DEFINE o == LowerLogic(op, l, r)
           c == InjectCmp(l)
           d == InjectCmp(r)
           stop == IF op = "land" THEN 0 ELSE 1
           val  == IF c.v.known /\ c.v.bits = stop THEN c.v
                   ELSE IF c.v.known THEN d.v ELSE Unknown("i1")
           bad  == c.ill \/ d.ill
<1>1. /\ Ends(c, {"asserted"}) /\ OfType(c, "i1") /\ ~c.ill
      /\ Ends(d, {"asserted"}) /\ OfType(d, "i1") /\ ~d.ill
      /\ l.ty \in MirTypes => c.out = "value"
      /\ r.ty \in MirTypes => d.out = "value"
  BY InjectCmpIs, Zenon
<1>2. o = IF c.out # "value" THEN c ELSE IF d.out # "value" THEN d ELSE Gives(val, bad)
  BY Zenon DEF LowerLogic
<1>3. ~bad
  BY <1>1
<1> HIDE DEF c, d, stop, bad
<1>4. Unknown("i1").ty = "i1"
  BY DEF Unknown
<1>5. c.out = "value" /\ d.out = "value" => val.ty = "i1"
  BY <1>1, <1>4 DEF OfType
<1> HIDE DEF val
<1> QED BY <1>1, <1>2, <1>3, <1>5 DEF Gives, Ends, OfType

\* The groups of binary operators.
LEMMA OpGroups ==
    ASSUME NEW op \in BinOps
    PROVE  op \in {"add", "sub", "mul", "div", "mod", "shl", "shr", "lt", "le", "gt", "ge", "eq", "ne",
                   "and", "xor", "or", "land", "lor"}
  BY DEF BinOps, Precedence

\* Where a binary operator can be lowered: operands of one type, or a pointer
\* that is added to; and of a type that the operator is for.
Meets(op, l, r, lt, rt, t, a) ==
    /\ lt \in Types \ {None, "T"} /\ l.ty = CgnType(lt, a)
    /\ op = "shr" => t = lt
    /\ IF op \in PtrArith /\ MirPtr(l) THEN MirInt(r) ELSE l.ty = r.ty
    /\ op \in {"land", "lor"} => l.ty \in MirTypes /\ r.ty \in MirTypes
    /\ ~OperatorGap(op, lt, rt)

\* What becomes of a binary operator: it stops only where an operand has no type
\* or the builder asserts another, its result has the type of the left operand
\* or is a condition, and operands that meet it are lowered.
LEMMA LowerBinaryIs ==
    ASSUME NEW op \in BinOps, NEW l, NEW r, NEW lt, NEW rt, NEW t, NEW a
    PROVE  LET o == LowerBinary(op, l, r, lt, t) IN
           /\ Ends(o, {"crash", "refused", "asserted"})
           /\ o.out = "crash" => lt = None \/ t = None
           /\ OfType(o, IF op \in Comparisons \cup {"land", "lor"} THEN "i1" ELSE l.ty)
           /\ l.ty = r.ty \/ op \in {"land", "lor"} => ~o.ill
           /\ op \in PtrArith /\ (MirPtr(l) \/ MirPtr(r)) /\ o.out = "value" => ~o.ill
           /\ Meets(op, l, r, lt, rt, t, a) => o.out = "value"
<1> DEFINE o == LowerBinary(op, l, r, lt, t)
           res == IF op \in Comparisons \cup {"land", "lor"} THEN "i1" ELSE l.ty
           Fine == /\ Ends(o, {"crash", "refused", "asserted"})
                   /\ o.out = "crash" => lt = None \/ t = None
                   /\ OfType(o, res)
                   /\ l.ty = r.ty \/ op \in {"land", "lor"} => ~o.ill
                   /\ op \in PtrArith /\ (MirPtr(l) \/ MirPtr(r)) /\ o.out = "value" => ~o.ill
                   /\ Meets(op, l, r, lt, rt, t, a) => o.out = "value"
<1> SUFFICES Fine
  OBVIOUS
<1>1. ASSUME Meets(op, l, r, lt, rt, t, a)
      PROVE  /\ l.ty \in MirTypes
             /\ TypeClass(lt) \in IntClasses => MirInt(l)
             /\ TypeClass(lt) = "Float" => MirFloat(l)
             /\ TypeClass(lt) = "Pointer" => MirPtr(l)
             /\ TypeClass(lt) = "Unknown" => MirInt(l)
             /\ TypeClass(lt) \in IntClasses \cup {"Float", "Pointer", "Unknown"}
             /\ lt # None
  <2>1. lt \in Types /\ lt # None /\ lt # "T" /\ l.ty = CgnType(lt, a)
    BY <1>1 DEF Meets
  <2> QED BY <2>1, CgnTypes DEF MirInt, MirFloat, MirPtr, MirInts, IsPointer
<1>2. MirFloat(l) => ~MirPtr(l)
  BY MirKinds
<1>3. CASE op \in {"add", "sub"}
  <2>1. o = LowerSum(op, l, r)
    BY <1>3 DEF LowerBinary
  <2>2. res = l.ty /\ op \in PtrArith /\ op \notin {"land", "lor"}
    BY <1>3 DEF Comparisons, PtrArith
  <2>3. Meets(op, l, r, lt, rt, t, a) => o.out = "value"
    <3>1. ASSUME Meets(op, l, r, lt, rt, t, a)
          PROVE  o.out = "value"
      <4>1. CASE MirPtr(l)
        BY <3>1, <4>1, <2>1, <2>2, LowerSumIs DEF Meets
      <4>2. CASE ~MirPtr(l)
        <5>1. l.ty = r.ty /\ (MirInt(l) \/ MirFloat(l))
          BY <3>1, <4>2, <2>2, <1>1 DEF Meets
        <5> QED BY <5>1, <2>1, LowerSumIs
      <4> QED BY <4>1, <4>2
    <3> QED BY <3>1
  <2> HIDE DEF o, res
  <2> QED BY <2>1, <2>2, <2>3, LowerSumIs DEF Ends
<1>4. CASE op \in {"mul", "div", "mod"}
  <2>1. o = IF lt = None THEN Stops("crash") ELSE LowerBy(TypeClass(lt), op, l, r)
    BY <1>4 DEF LowerBinary
  <2>2. res = l.ty /\ op \notin PtrArith /\ op \notin {"land", "lor"}
    BY <1>4 DEF Comparisons, PtrArith
  <2>3. Meets(op, l, r, lt, rt, t, a) => o.out = "value"
    <3>1. ASSUME Meets(op, l, r, lt, rt, t, a)
          PROVE  o.out = "value"
      <4>1. l.ty = r.ty /\ ~OperatorGap(op, lt, rt)
        BY <3>1, <2>2 DEF Meets
      <4>2. TypeClass(lt) \in IntClasses \/ (TypeClass(lt) = "Float" /\ op \in {"mul", "div"})
        BY <4>1, <1>4 DEF OperatorGap
      <4> QED BY <4>1, <4>2, <3>1, <2>1, <1>1, LowerByIs
    <3> QED BY <3>1
  <2>4. CASE lt = None
    BY <2>1, <2>2, <2>3, <2>4 DEF Stops, Ends, OfType
  <2>5. CASE lt # None
    <3> HIDE DEF o, res
    <3> QED BY <2>1, <2>2, <2>3, <2>5, LowerByIs DEF Ends
  <2> QED BY <2>4, <2>5
<1>5. CASE op = "shr"
  <2>1. o = IF t = None THEN Stops("crash") ELSE LowerBy(TypeClass(t), op, l, r)
    BY <1>5 DEF LowerBinary
  <2>2. res = l.ty /\ op \notin PtrArith /\ op \notin {"land", "lor"}
    BY <1>5 DEF Comparisons, PtrArith
  <2>3. Meets(op, l, r, lt, rt, t, a) => o.out = "value"
    <3>1. ASSUME Meets(op, l, r, lt, rt, t, a)
          PROVE  o.out = "value"
      <4>1. l.ty = r.ty /\ ~OperatorGap(op, lt, rt) /\ t = lt
        BY <3>1, <2>2, <1>5 DEF Meets
      <4>2. TypeClass(lt) \in IntClasses
        BY <4>1, <1>5 DEF OperatorGap
      <4> QED BY <4>1, <4>2, <3>1, <2>1, <1>1, LowerByIs
    <3> QED BY <3>1
  <2>4. CASE t = None
    BY <2>1, <2>2, <2>3, <2>4 DEF Stops, Ends, OfType
  <2>5. CASE t # None
    <3> HIDE DEF o, res
    <3> QED BY <2>1, <2>2, <2>3, <2>5, LowerByIs DEF Ends
  <2> QED BY <2>4, <2>5
<1>6. CASE op \in {"eq", "ne"}
  <2>1. o = LowerEquality(op, l, r)
    BY <1>6 DEF LowerBinary
  <2>2. res = "i1" /\ op \notin PtrArith /\ op \notin {"land", "lor"}
    BY <1>6 DEF Comparisons, PtrArith
  <2>3. Meets(op, l, r, lt, rt, t, a) => o.out = "value"
    BY <2>1, <2>2, <1>1, LowerEqualityIs DEF Meets
  <2> HIDE DEF o, res
  <2> QED BY <2>1, <2>2, <2>3, LowerEqualityIs DEF Ends
<1>7. CASE op \in {"lt", "le", "gt", "ge"}
  <2>1. o = IF lt = None THEN Stops("crash") ELSE LowerOrder(TypeClass(lt), op, l, r)
    BY <1>7 DEF LowerBinary
  <2>2. res = "i1" /\ op \notin PtrArith /\ op \notin {"land", "lor"} /\ op \in Comparisons \ {"eq", "ne"}
    BY <1>7 DEF Comparisons, PtrArith
  <2>3. Meets(op, l, r, lt, rt, t, a) => o.out = "value"
    <3>1. ASSUME Meets(op, l, r, lt, rt, t, a)
          PROVE  o.out = "value"
      <4>1. l.ty = r.ty /\ ~OperatorGap(op, lt, rt)
        BY <3>1, <2>2 DEF Meets
      <4>2. TypeClass(lt) # "Unknown"
        BY <4>1, <2>2 DEF OperatorGap
      <4>3. "Float" \notin IntClasses /\ "Pointer" \notin IntClasses
        BY DEF IntClasses
      <4> QED BY <4>1, <4>2, <4>3, <3>1, <2>1, <1>1, LowerOrderIs
    <3> QED BY <3>1
  <2>4. CASE lt = None
    BY <2>1, <2>2, <2>3, <2>4 DEF Stops, Ends, OfType
  <2>5. CASE lt # None
    <3> HIDE DEF o, res
    <3> QED BY <2>1, <2>2, <2>3, <2>5, LowerOrderIs DEF Ends
  <2> QED BY <2>4, <2>5
<1>8. CASE op \in {"and", "or", "xor", "shl"}
  <2>1. o = LowerBits(op, l, r)
    BY <1>8 DEF LowerBinary
  <2>2. res = l.ty /\ op \notin PtrArith /\ op \notin {"land", "lor"}
    BY <1>8 DEF Comparisons, PtrArith
  <2>3. Meets(op, l, r, lt, rt, t, a) => o.out = "value"
    <3>1. ASSUME Meets(op, l, r, lt, rt, t, a)
          PROVE  o.out = "value"
      <4>1. l.ty = r.ty /\ ~OperatorGap(op, lt, rt)
        BY <3>1, <2>2 DEF Meets
      <4>2. TypeClass(lt) \notin {"Float", "Pointer"}
        BY <4>1, <1>8 DEF OperatorGap
      <4> QED BY <4>1, <4>2, <3>1, <2>1, <1>1, LowerBitsIs
    <3> QED BY <3>1
  <2> HIDE DEF o, res
  <2> QED BY <2>1, <2>2, <2>3, LowerBitsIs DEF Ends
<1>9. CASE op \in {"land", "lor"}
  <2>1. o = LowerLogic(op, l, r)
    BY <1>9 DEF LowerBinary
  <2>2. res = "i1" /\ op \notin PtrArith
    BY <1>9 DEF Comparisons, PtrArith
  <2>3. Meets(op, l, r, lt, rt, t, a) => o.out = "value"
    BY <2>1, <2>2, <1>9, LowerLogicIs DEF Meets
  <2> HIDE DEF o, res
  <2> QED BY <2>1, <2>2, <2>3, LowerLogicIs DEF Ends
<1> QED BY <1>3, <1>4, <1>5, <1>6, <1>7, <1>8, <1>9, OpGroups

\* Unary operators.
LEMMA LowerUnaryIs ==
    ASSUME NEW op \in UnOps, NEW v, NEW t, NEW a
    PROVE  LET o == LowerUnary(op, v, t) IN
           /\ Ends(o, {"crash", "refused", "asserted"})
           /\ o.out = "crash" => \/ op = "neg" /\ t = None
                                 \/ op \in {"inc", "dec"} /\ TypeClass(t) = "Unknown"
           /\ OfType(o, IF op = "lnot" THEN "i1" ELSE v.ty)
           /\ o.ill => op = "bnot" /\ ~MirInt(v)
           /\ op \in {"bnot"} => o.out = "value"
           /\ op = "lnot" /\ v.ty \in MirTypes => o.out = "value"
           /\ /\ op \in {"neg", "inc", "dec"} /\ t \in Types \ {None, "T"} /\ v.ty = CgnType(t, a)
              /\ op = "neg" => TypeClass(t) \notin {"Unknown", "Pointer"}
              => o.out \in {"value", "crash"}
<1> DEFINE o == LowerUnary(op, v, t)
<1>1. CASE op = "bnot"
  <2>1. o = BuildNot(v)
    BY <1>1 DEF LowerUnary
  <2> QED BY <2>1, <1>1, BuildNegIs DEF Ends
<1>2. CASE op = "lnot"
  <2> DEFINE c == InjectCmp(v)
             b == c.v.bits = 0
  <2>1. o = IF c.out = "value" /\ c.v.known THEN Gives(Truth(b), c.ill) ELSE c
    BY <1>2, Zenon DEF LowerUnary
  <2>2. Truth(b).ty = "i1"
    BY DEF Truth, Value
  <2>3. Ends(c, {"asserted"}) /\ OfType(c, "i1") /\ ~c.ill /\ (v.ty \in MirTypes => c.out = "value")
    BY InjectCmpIs, Zenon
  <2> DEFINE w == Truth(b)
  <2> HIDE DEF c, b, w
  <2>4. w.ty = "i1" /\ o = IF c.out = "value" /\ c.v.known THEN Gives(w, c.ill) ELSE c
    BY <2>1, <2>2 DEF w
  <2> QED BY <2>3, <2>4, <1>2 DEF Gives, Ends, OfType
<1>3. CASE op = "neg"
  <2>1. CASE t = None
    <3>1. o = Stops("crash")
      BY <1>3, <2>1 DEF LowerUnary
    <3> QED BY <3>1, <1>3, <2>1 DEF Stops, Ends, OfType
  <2>2. CASE t # None /\ TypeClass(t) \in IntClasses \cup {"Pointer"}
    <3>1. o = BuildNeg(v)
      BY <1>3, <2>2 DEF LowerUnary, IntClasses
    <3>2. t \in Types \ {None, "T"} /\ v.ty = CgnType(t, a) /\ TypeClass(t) # "Pointer" => MirInt(v)
      BY <2>2, CgnTypes DEF MirInt, MirInts
    <3> QED BY <3>1, <3>2, <1>3, <2>2, BuildNegIs DEF Ends
  <2>3. CASE t # None /\ TypeClass(t) = "Float"
    <3>1. o = BuildFneg(v)
      BY <1>3, <2>3 DEF LowerUnary, IntClasses
    <3>2. t \in Types \ {None, "T"} /\ v.ty = CgnType(t, a) => MirFloat(v)
      BY <2>3, CgnTypes DEF MirFloat
    <3> QED BY <3>1, <3>2, <1>3, <2>3, BuildNegIs DEF Ends
  <2>4. CASE t # None /\ TypeClass(t) \notin IntClasses \cup {"Pointer", "Float"}
    <3>1. o = Stops("refused")
      BY <1>3, <2>4 DEF LowerUnary
    <3>2. t \in Types \ {None, "T"} => TypeClass(t) = "Unknown"
      BY <2>4, CgnTypes
    <3> QED BY <3>1, <3>2, <1>3, <2>4 DEF Stops, Ends, OfType
  <2> QED BY <2>1, <2>2, <2>3, <2>4
<1>4. CASE op \in {"inc", "dec"}
  <2>1. CASE TypeClass(t) \in IntClasses
    <3> DEFINE z == Value(v.ty, 1)
               how == IF op = "inc" THEN "add" ELSE "sub"
               n == BuildInt(how, v, z, FALSE)
    <3>1. o = IF op = "inc" \/ n.out # "value" THEN n ELSE Gives(v, n.ill)
      BY <1>4, <2>1 DEF LowerUnary, IntClasses
    <3>2. z.ty = v.ty
      BY DEF Value
    <3> HIDE DEF z, how
    <3>3. /\ Ends(n, {"asserted"}) /\ OfType(n, v.ty)
          /\ n.out = "value" <=> MirInt(v) /\ MirInt(z)
          /\ v.ty = z.ty => ~n.ill
      BY BuildIntIs, Zenon
    <3>4. t \in Types \ {None, "T"} /\ v.ty = CgnType(t, a) => MirInt(v) /\ MirInt(z)
      BY <2>1, <3>2, CgnTypes DEF MirInt, MirInts
    <3> HIDE DEF n
    <3> QED BY <3>1, <3>2, <3>3, <3>4, <1>4, <2>1 DEF Gives, Ends, OfType
  <2>2. CASE TypeClass(t) = "Float"
    <3>1. o = BuildFloat(v, v)
      BY <1>4, <2>2 DEF LowerUnary, IntClasses
    <3>2. t \in Types \ {None, "T"} /\ v.ty = CgnType(t, a) => MirFloat(v)
      BY <2>2, CgnTypes DEF MirFloat
    <3> QED BY <3>1, <3>2, <1>4, <2>2, BuildFloatIs DEF Ends
  <2>3. CASE TypeClass(t) = "Pointer"
    <3> DEFINE z == Value("i64", 1)
    <3>1. o = BuildAp(v, z)
      BY <1>4, <2>3 DEF LowerUnary, IntClasses
    <3>2. MirInt(z)
      BY DEF Value, MirInt, MirInts
    <3>3. t \in Types \ {None, "T"} /\ v.ty = CgnType(t, a) => MirPtr(v)
      BY <2>3, CgnTypes DEF MirPtr, IsPointer
    <3> HIDE DEF z
    <3> QED BY <3>1, <3>2, <3>3, <1>4, <2>3, BuildApIs DEF Ends
  <2>4. CASE TypeClass(t) \notin IntClasses \cup {"Float", "Pointer"}
    <3>1. o = Stops("crash")
      BY <1>4, <2>4 DEF LowerUnary
    <3>2. TypeClass(t) = "Unknown"
      BY <2>4 DEF TypeClass, IntClasses
    <3> QED BY <3>1, <3>2, <1>4, <2>4 DEF Stops, Ends, OfType
  <2> QED BY <2>1, <2>2, <2>3, <2>4
<1> QED BY <1>1, <1>2, <1>3, <1>4 DEF UnOps

\* The comparison of a match.
LEMMA LowerCaseIs ==
    ASSUME NEW t, NEW l, NEW r, NEW a
    PROVE  LET o == LowerCase(t, l, r) IN
           /\ Ends(o, {"crash", "refused", "asserted"})
           /\ o.out = "crash" => t = None
           /\ OfType(o, "i1")
           /\ l.ty = r.ty => ~o.ill
           /\ /\ t \in Types \ {None, "T"} /\ TypeClass(t) # "Unknown"
              /\ l.ty = CgnType(t, a) /\ r.ty = CgnType(t, a)
              => o.out = "value"
<1> DEFINE o == LowerCase(t, l, r)
<1>1. CASE t = None
  <2>1. o = Stops("crash")
    BY <1>1 DEF LowerCase
  <2> QED BY <2>1, <1>1 DEF Stops, Ends, OfType
<1>2. CASE t # None /\ TypeClass(t) \in IntClasses
  <2>1. o = BuildIcmp("eq", l, r, FALSE)
    BY <1>2 DEF LowerCase, IntClasses
  <2>2. /\ Ends(BuildIcmp("eq", l, r, FALSE), {"asserted"}) /\ OfType(BuildIcmp("eq", l, r, FALSE), "i1")
        /\ BuildIcmp("eq", l, r, FALSE).out = "value" <=> MirInt(l) /\ MirInt(r)
        /\ l.ty = r.ty => ~BuildIcmp("eq", l, r, FALSE).ill
    BY BuildIcmpIs, Zenon
  <2>3. t \in Types \ {None, "T"} /\ l.ty = CgnType(t, a) /\ r.ty = CgnType(t, a) => MirInt(l) /\ MirInt(r)
    BY <1>2, CgnTypes DEF MirInt, MirInts
  <2> QED BY <2>1, <2>2, <2>3, <1>2 DEF Ends
<1>3. CASE t # None /\ TypeClass(t) = "Float"
  <2>1. o = BuildFcmp(l, r)
    BY <1>3 DEF LowerCase, IntClasses
  <2>2. t \in Types \ {None, "T"} /\ l.ty = CgnType(t, a) /\ r.ty = CgnType(t, a) => MirFloat(l) /\ MirFloat(r)
    BY <1>3, CgnTypes DEF MirFloat
  <2> QED BY <2>1, <2>2, <1>3, BuildFcmpIs DEF Ends
<1>4. CASE t # None /\ TypeClass(t) = "Pointer"
  <2>1. o = BuildPcmp(l, r)
    BY <1>4 DEF LowerCase, IntClasses
  <2>2. t \in Types \ {None, "T"} /\ l.ty = CgnType(t, a) /\ r.ty = CgnType(t, a) => MirPtr(l) /\ MirPtr(r)
    BY <1>4, CgnTypes DEF MirPtr, IsPointer
  <2> QED BY <2>1, <2>2, <1>4, BuildPcmpIs DEF Ends
<1>5. CASE t # None /\ TypeClass(t) \notin IntClasses \cup {"Float", "Pointer"}
  <2>1. o = Stops("refused")
    BY <1>5 DEF LowerCase
  <2>2. t \in Types \ {None, "T"} => TypeClass(t) = "Unknown"
    BY <1>5, CgnTypes
  <2> QED BY <2>1, <2>2, <1>5 DEF Stops, Ends, OfType
<1> QED BY <1>1, <1>2, <1>3, <1>4, <1>5

-----------------------------------------------------------------------------
(* The lowering of a node.                                                 *)

\* Subtrees without what the properties except: no node's record differs from
\* its value, no type is a template's parameter, nothing was left out.
Plain(k) == \A j \in Tree(k) : ~Mislabels(j)
Fixed(k) == \A j \in Tree(k) : ~Dependent(j)
Clean(k) == \A j \in Tree(k) : ~Causes(j)

\* What a subtree without exceptions says of its root.
LEMMA CleanIs ==
    ASSUME Shape, NEW k \in 1..Len(nodes)
    PROVE  /\ Clean(k) => Plain(k) /\ Fixed(k)
           /\ Clean(k) /\ nodes[k].kind = "bin" => ~UnderCast(k)
           /\ Plain(k) => Even(k) /\ ~Mislabels(k)
           /\ Fixed(k) => nodes[k].t # "T"
<1>1. k \in Tree(k)
  BY InTree
<1>2. Clean(k) => Plain(k) /\ Fixed(k)
  BY DEF Clean, Plain, Fixed, Causes
<1>3. \A j : Odd(j) => Mislabels(j)
  BY DEF Odd, Mislabels
<1>4. Plain(k) => Even(k) /\ ~Mislabels(k)
  BY <1>1, <1>3 DEF Plain, Even
<1>5. Fixed(k) => nodes[k].t # "T"
  BY <1>1 DEF Fixed, Dependent, IsParamDependent
<1>6. Clean(k) /\ nodes[k].kind = "bin" => ~UnderCast(k)
  <2>1. nodes[k].kind = "bin" => IsOp(k, BinOps)
    BY DEF Shape, Node, Made, IsOp
  <2> QED BY <2>1, <1>1 DEF Clean, Causes, Unanalysed
<1> QED BY <1>2, <1>4, <1>5, <1>6

\* So for the operands.
LEMMA CleanBelow ==
    ASSUME Shape, NEW k \in 1..Len(nodes), NEW o \in Under(k)
    PROVE  /\ Clean(k) => Clean(o)
           /\ Plain(k) => Plain(o)
           /\ Fixed(k) => Fixed(o)
<1>1. Tree(o) \subseteq Tree(k)
  BY Within
<1> QED BY <1>1 DEF Clean, Plain, Fixed

\* No type in them is a parameter.
LEMMA FixedTypes ==
    ASSUME Shape, Typed, NEW k \in 1..Len(nodes), Fixed(k)
    PROVE  ty[k] # "T" /\ wraps[k] # "T" /\ nodes[k].t # "T"
<1>1. Given(k)
  BY DEF Typed
<1>2. ty[k] # "T" /\ wraps[k] # "T"
  BY <1>1 DEF Given, Fixed
<1> QED BY <1>2, CleanIs

\* All nodes have been resolved and seen when they are lowered.
LEMMA LoweringTyped ==
    ASSUME Shape, Progress, Typed, pass = "lower"
    PROVE  /\ Len(nodes) \in Nat /\ at \in 1..Len(nodes) /\ Len(vals) = at - 1
           /\ ty \in [1..Len(nodes) -> Types] /\ wraps \in [1..Len(nodes) -> Types]
           /\ \A k \in 1..Len(nodes) : /\ Resolved(k) /\ Seen(k) /\ (Raw(k) <=> UnderCast(k))
                                       /\ Kept(k) /\ (Early \/ Known(k)) /\ (Even(k) => Steady(k))
                                       /\ Wrapped(k) /\ Given(k)
  BY DEF Typed, Progress, Shape, Forest, Resolved, Seen, Raw

\* What is known of the values of the operands.
LEMMA ValueBelow ==
    ASSUME Shape, Progress, Typed, Outcome, pass = "lower", NEW o \in Under(at)
    PROVE  /\ o \in 1..Len(nodes) /\ o \in 1..Len(vals) /\ o < at /\ ty[o] \in Types
           /\ Fixed(at) => vals[o].ty \in MirTypes /\ ty[o] # "T"
           /\ Plain(at) /\ nodes[at].kind # "eval" /\ ty[o] # None => vals[o].ty = CgnType(ty[o], arg)
<1>1. Len(nodes) \in Nat /\ at \in 1..Len(nodes) /\ Len(vals) = at - 1 /\ ty \in [1..Len(nodes) -> Types]
  BY LoweringTyped
<1>2. /\ o \in 1..at - 1 /\ o \in 1..Len(nodes) /\ nodes[o].kind \notin Roots
      /\ nodes[at].kind # "eval" => nodes[o].kind # "asn"
  BY <1>1, Within
<1>3. o \in 1..Len(vals)
  BY <1>1, <1>2
<1>4. ASSUME Fixed(at)
      PROVE  vals[o].ty \in MirTypes /\ ty[o] # "T"
  <2>1. Fixed(o)
    BY <1>1, <1>4, CleanBelow
  <2>2. vals[o].ty \in MirTypes
    BY <1>3, <2>1 DEF Outcome, Valued, Fixed
  <2> QED BY <1>2, <2>1, <2>2, FixedTypes
<1>5. ASSUME Plain(at), nodes[at].kind # "eval", ty[o] # None
      PROVE  vals[o].ty = CgnType(ty[o], arg)
  <2>1. Plain(o)
    BY <1>1, <1>5, CleanBelow
  <2> QED BY <1>2, <1>3, <1>5, <2>1 DEF Outcome, LabelsTrue, Plain
<1> QED BY <1>1, <1>2, <1>3, <1>4, <1>5

\* A constant has the type that is written.
LEMMA ConstantType ==
    ASSUME NEW t, NEW bits
    PROVE  Constant(t, bits).ty = CgnType(t, arg)
<1>1. \A n : Fitted(CgnType(t, arg), n).ty = CgnType(t, arg)
  BY Zenon DEF Fitted, Value
<1>2. Unknown(CgnType(t, arg)).ty = CgnType(t, arg)
  BY DEF Unknown
<1> HIDE DEF Fitted, Unknown
<1> QED BY <1>1, <1>2 DEF Constant

\* What comes of the operand that a node takes last, through the cast that was
\* put around it.
LEMMA OperandAny ==
    ASSUME Shape, Progress, Typed, Outcome, pass = "lower", nodes[at].kind \in Pairs \cup Targets
    PROVE  LET o == Operand(at)
               b == LastOf(nodes[at]) IN
           /\ b \in Under(at) /\ b \in 1..Len(nodes)
           /\ wraps[at] \in Types
           /\ Ends(o, {"crash", "refused", "asserted"})
           /\ o.out = "crash" => ty[b] = None
           /\ wraps[at] = None => o = Gives(vals[b], FALSE)
           /\ wraps[at] # None => o = Convert(vals[b], ty[b], wraps[at], arg)
           /\ Fixed(at) /\ o.out = "value" => o.v.ty \in MirTypes
<1> DEFINE o == Operand(at)
           b == LastOf(nodes[at])
<1>1. at \in 1..Len(nodes) /\ wraps \in [1..Len(nodes) -> Types]
  BY LoweringTyped
<1>2. b \in Under(at) /\ b \in 1..Len(nodes)
  BY <1>1, Checking
<1>3. ty[b] \in Types /\ (Fixed(at) => vals[b].ty \in MirTypes)
  BY <1>2, ValueBelow
<1>4. wraps[at] \in Types
  BY <1>1
<1>5. CASE wraps[at] = None
  <2>1. o = Gives(vals[b], FALSE)
    BY <1>5 DEF Operand
  <2> QED BY <2>1, <1>2, <1>3, <1>4, <1>5 DEF Gives, Ends
<1>6. CASE wraps[at] # None
  <2>1. o = Convert(vals[b], ty[b], wraps[at], arg)
    BY <1>6 DEF Operand
  <2> HIDE DEF o, b
  <2>2. /\ Ends(o, {"crash", "refused", "asserted"})
        /\ o.out = "crash" => ty[b] = None \/ wraps[at] = None
        /\ o.out = "value" => o.v.ty \in {vals[b].ty, CgnType(wraps[at], arg)}
    BY <2>1, <1>3, <1>4, ConvertIs
  <2>3. Fixed(at) => CgnType(wraps[at], arg) \in MirTypes
    <3>1. Fixed(at) => wraps[at] # "T"
      BY <1>1, FixedTypes
    <3> QED BY <3>1, <1>4, <1>6, CgnTypes
  <2> QED BY <2>1, <2>2, <2>3, <1>2, <1>3, <1>4, <1>6 DEF o, b
<1> QED BY <1>5, <1>6

\* A store is made where the variable has a type, and fits if the value is of it.
LEMMA StoredIs ==
    ASSUME NEW v, NEW t
    PROVE  LET o == Stored(v, t) IN
           /\ o.out = IF t = None THEN "asserted" ELSE "value"
           /\ t # None => o.v = v /\ (o.ill <=> v.ty # CgnType(t, arg))
<1>1. CASE t = None
  BY <1>1 DEF Stored, Stops
<1>2. CASE t # None
  <2> DEFINE bad == v.ty # CgnType(t, arg)
  <2>1. Stored(v, t) = Gives(v, bad)
    BY <1>2 DEF Stored
  <2> HIDE DEF bad
  <2>2. Gives(v, bad).out = "value" /\ Gives(v, bad).v = v /\ (Gives(v, bad).ill <=> bad)
    BY Zenon DEF Gives
  <2>3. Stored(v, t).out = "value" /\ Stored(v, t).v = v /\ (Stored(v, t).ill <=> bad)
    BY <2>1, <2>2, Zenon
  <2> QED BY <2>3, <1>2 DEF bad
<1> QED BY <1>1, <1>2

\* A value that is given.
LEMMA GivesIs ==
    ASSUME NEW v
    PROVE  Gives(v, FALSE).out = "value" /\ Gives(v, FALSE).v = v /\ ~Gives(v, FALSE).ill
  BY Zenon DEF Gives

\* The kinds of nodes, apart.
LEMMA KindsApart ==
    ASSUME NEW k, nodes[k].kind \in Kinds
    PROVE  LET n == nodes[k] IN
           \/ n.kind \in {"lit", "ref"}
           \/ n.kind \in {"paren", "eval"}
           \/ n.kind = "cast"
           \/ n.kind = "un"
           \/ n.kind = "cond"
           \/ n.kind \in Targets
           \/ n.kind = "case"
           \/ n.kind = "bin"
           \/ n.kind = "asn"
  BY DEF Kinds, Roots, Targets

\* What the visit of each kind of node comes to.
LEMMA LoweringOf ==
    ASSUME NEW k
    PROVE  LET n == nodes[k]
               o == Lowering(k)
               of == Operand(k) IN
           /\ n.kind \in {"lit", "ref"} => o.out = "value" /\ o.v = Constant(n.t, n.bits) /\ ~o.ill
           /\ n.kind \in {"paren", "eval"} => o.out = "value" /\ o.v = vals[n.l] /\ ~o.ill
           /\ n.kind = "cast" => o = Convert(vals[n.l], ty[n.l], n.t, arg)
           /\ n.kind = "un" => o = LowerUnary(n.op, vals[n.l], ty[n.l])
           /\ n.kind = "cond" => o = InjectCmp(vals[n.l])
           /\ n.kind \in Pairs \cup Targets /\ of.out # "value" => o = of
           /\ n.kind \in Targets /\ of.out = "value" => o = Stored(of.v, ty[k])
           /\ n.kind = "case" /\ of.out = "value" => o = LowerCase(ty[n.l], vals[n.l], of.v)
           /\ n.kind = "bin" /\ of.out = "value" => o = LowerBinary(n.op, vals[n.l], of.v, ty[n.l], ty[k])
           /\ n.kind = "asn" /\ n.op = Nil /\ of.out = "value" => o = Stored(of.v, ty[k])
           /\ n.kind = "asn" /\ n.op # Nil /\ of.out = "value" =>
                 LET sum == LowerBinary(n.op, vals[n.l], of.v, ty[n.l], ty[k])
                 IN  o = IF sum.out = "value" THEN [Stored(sum.v, ty[k]) EXCEPT !.ill = @ \/ sum.ill] ELSE sum
<1> DEFINE n == nodes[k]
           o == Lowering(k)
           of == Operand(k)
           sum == LowerBinary(n.op, vals[n.l], of.v, ty[n.l], ty[k])
           full == IF sum.out = "value" THEN [Stored(sum.v, ty[k]) EXCEPT !.ill = @ \/ sum.ill] ELSE sum
           leaf == Gives(Constant(n.t, n.bits), FALSE)
           same == Gives(vals[n.l], FALSE)
<1>1. o = CASE n.kind \in {"lit", "ref"} -> leaf
            [] n.kind \in {"paren", "eval"} -> same
            [] n.kind = "cast" -> Convert(vals[n.l], ty[n.l], n.t, arg)
            [] n.kind = "un" -> LowerUnary(n.op, vals[n.l], ty[n.l])
            [] n.kind = "cond" -> InjectCmp(vals[n.l])
            [] n.kind \in Pairs \cup Targets /\ of.out # "value" -> of
            [] n.kind \in Targets /\ of.out = "value" -> Stored(of.v, ty[k])
            [] n.kind = "case" /\ of.out = "value" -> LowerCase(ty[n.l], vals[n.l], of.v)
            [] n.kind = "bin" /\ of.out = "value" -> LowerBinary(n.op, vals[n.l], of.v, ty[n.l], ty[k])
            [] n.kind = "asn" /\ n.op = Nil /\ of.out = "value" -> Stored(of.v, ty[k])
            [] n.kind = "asn" /\ n.op # Nil /\ of.out = "value" -> full
  BY DEF Lowering, Nil
<1>2. /\ leaf.out = "value" /\ leaf.v = Constant(n.t, n.bits) /\ ~leaf.ill
      /\ same.out = "value" /\ same.v = vals[n.l] /\ ~same.ill
  BY GivesIs
<1> HIDE DEF o, of, full, leaf, same
<1>3. /\ n.kind \in {"lit", "ref"} => o = leaf
      /\ n.kind \in {"paren", "eval"} => o = same
      /\ n.kind = "cast" => o = Convert(vals[n.l], ty[n.l], n.t, arg)
      /\ n.kind = "un" => o = LowerUnary(n.op, vals[n.l], ty[n.l])
      /\ n.kind = "cond" => o = InjectCmp(vals[n.l])
  BY <1>1 DEF Pairs, Targets
<1>4. /\ n.kind \in Pairs \cup Targets /\ of.out # "value" => o = of
      /\ n.kind \in Targets /\ of.out = "value" => o = Stored(of.v, ty[k])
      /\ n.kind = "case" /\ of.out = "value" => o = LowerCase(ty[n.l], vals[n.l], of.v)
      /\ n.kind = "bin" /\ of.out = "value" => o = LowerBinary(n.op, vals[n.l], of.v, ty[n.l], ty[k])
  BY <1>1 DEF Pairs, Targets
<1>5. /\ n.kind = "asn" /\ n.op = Nil /\ of.out = "value" => o = Stored(of.v, ty[k])
      /\ n.kind = "asn" /\ n.op # Nil /\ of.out = "value" => o = full
  <2> HIDE DEF Nil
  <2> QED BY <1>1 DEF Pairs, Targets
<1>6. /\ n.kind \in {"lit", "ref"} => o.out = "value" /\ o.v = Constant(n.t, n.bits) /\ ~o.ill
      /\ n.kind \in {"paren", "eval"} => o.out = "value" /\ o.v = vals[n.l] /\ ~o.ill
  BY <1>2, <1>3
<1> QED BY <1>3, <1>4, <1>5, <1>6 DEF o, of, full

\* A pointer and an integer that it is moved by, or two pointers: what the
\* analysis lets pass in a sum or a difference.
PtrMix(e, t) ==
    \/ IsPointer(e) /\ (IsPointer(t) \/ IsInt(t))
    \/ IsPointer(t) /\ IsInt(e)

\* What the check of types says when it lets pass.
LEMMA TypeCheckIs ==
    ASSUME NEW t, NEW e, NEW loose, t # "T", e # "T"
    PROVE  /\ TypeCheck(t, e, loose) \in {"same", "cast"} => t # None /\ e # None
           /\ TypeCheck(t, e, loose) = "same" => t = e \/ (loose /\ PtrMix(e, t))
           /\ TypeCheck(t, e, loose) = "cast" => CanImplCastTo(t, e)
  BY DEF TypeCheck, IsParamDependent, PtrMix

\* The value that a node takes last, where nothing is excepted: it is of the
\* type that is expected, or there is a pointer; and a conversion that was put
\* in can be made, but for those of ConversionGap.
LEMMA OperandIs ==
    ASSUME Shape, Progress, Typed, Outcome, pass = "lower", nodes[at].kind \in Pairs \cup Targets,
           Plain(at), Fixed(at), ~UnderCast(at)
    PROVE  LET of == Operand(at)
               b == LastOf(nodes[at])
               e == Expected(at) IN
           /\ ty[b] \in Types \ {None, "T"} /\ e \in Types \ {None, "T"}
           /\ \/ wraps[at] = None /\ ty[b] = e
              \/ wraps[at] = e /\ CanImplCastTo(ty[b], e)
              \/ wraps[at] = None /\ Loose(nodes[at]) /\ PtrMix(e, ty[b])
           /\ of.out = "value" => ~of.ill
           /\ of.out = "value" => of.v.ty = CgnType(IF wraps[at] = None THEN ty[b] ELSE e, arg)
           /\ of.out # "value" => wraps[at] = e /\ ConversionGap(ty[b], e)
<1> DEFINE of == Operand(at)
           b == LastOf(nodes[at])
           e == Expected(at)
<1>1. /\ at \in 1..Len(nodes) /\ Seen(at) /\ Wrapped(at)
      /\ ty \in [1..Len(nodes) -> Types] /\ wraps \in [1..Len(nodes) -> Types]
  BY LoweringTyped
<1>2. /\ b \in Under(at) /\ b \in 1..Len(nodes) /\ wraps[at] \in Types
      /\ wraps[at] = None => of = Gives(vals[b], FALSE)
      /\ wraps[at] # None => of = Convert(vals[b], ty[b], wraps[at], arg)
      /\ of.out = "crash" => ty[b] = None
      /\ Ends(of, {"crash", "refused", "asserted"})
  BY OperandAny
<1>3. /\ ty[b] \in Types /\ ty[b] # "T" /\ nodes[at].kind # "eval"
      /\ ty[b] # None => vals[b].ty = CgnType(ty[b], arg)
  <2>1. nodes[at].kind # "eval"
    BY DEF Pairs, Targets
  <2> QED BY <2>1, <1>2, ValueBelow
<1>4. e \in Types /\ e # "T"
  <2>1. CASE nodes[at].kind \in Pairs
    <3>1. e = ty[nodes[at].l] /\ nodes[at].l \in Under(at)
      BY <2>1, <1>1, KindOf DEF Expected
    <3> QED BY <3>1, ValueBelow
  <2>2. CASE nodes[at].kind \notin Pairs
    <3>1. e = ty[at]
      BY <2>2 DEF Expected
    <3> QED BY <3>1, <1>1, FixedTypes
  <2> QED BY <2>1, <2>2
<1>5. \/ TypeCheck(ty[b], e, Loose(nodes[at])) = "same" /\ wraps[at] = None
      \/ TypeCheck(ty[b], e, Loose(nodes[at])) = "cast" /\ wraps[at] = e
  BY <1>1 DEF Wrapped, Check
<1> DEFINE loose == Loose(nodes[at])
<1> HIDE DEF b, e, of, loose
<1>6. \/ TypeCheck(ty[b], e, loose) = "same" /\ wraps[at] = None
      \/ TypeCheck(ty[b], e, loose) = "cast" /\ wraps[at] = e
  BY <1>5 DEF loose
<1>7. /\ ty[b] # None /\ e # None
      /\ \/ wraps[at] = None /\ ty[b] = e
         \/ wraps[at] = e /\ CanImplCastTo(ty[b], e)
         \/ wraps[at] = None /\ loose /\ PtrMix(e, ty[b])
  BY <1>3, <1>4, <1>6, TypeCheckIs
<1>8. CASE wraps[at] = None
  <2>1. of.out = "value" /\ of.v = vals[b] /\ ~of.ill
    BY <1>2, <1>8, GivesIs
  <2> QED BY <2>1, <1>3, <1>4, <1>7, <1>8 DEF of, b, e, loose
<1>9. CASE wraps[at] # None
  <2>1. of = Convert(vals[b], ty[b], e, arg) /\ wraps[at] = e /\ CanImplCastTo(ty[b], e)
    BY <1>2, <1>7, <1>9
  <2>2. vals[b].ty = CgnType(ty[b], arg) /\ ty[b] \in Types /\ e \in Types
    BY <1>3, <1>4, <1>7
  <2>3. /\ of.out = "value" => of.v.ty = CgnType(e, arg) /\ ~of.ill
        /\ ~ConversionGap(ty[b], e) => of.out = "value"
    BY <2>1, <2>2, <1>3, <1>4, <1>7, ConvertFits
  <2> QED BY <2>1, <2>3, <1>3, <1>4, <1>7, <1>9 DEF of, b, e
<1> QED BY <1>8, <1>9

\* The record of an operation is that of its left operand, where the analysis
\* has been, and where it has not, if there is one.
LEMMA RecordOfLeft ==
    ASSUME Shape, Progress, Typed, pass = "lower", Plain(at), ty[at] # None,
           \/ nodes[at].kind = "paren"
           \/ nodes[at].kind = "un" /\ nodes[at].op # "lnot"
           \/ nodes[at].kind = "bin" /\ nodes[at].op \notin Comparisons
           \/ nodes[at].kind = "asn"
    PROVE  ty[nodes[at].l] = ty[at]
<1>1. /\ at \in 1..Len(nodes) /\ Resolved(at) /\ Seen(at) /\ Kept(at) /\ (Even(at) => Steady(at))
      /\ Raw(at) <=> UnderCast(at)
  BY LoweringTyped
<1>2. Steady(at)
  BY <1>1, CleanIs
<1>3. CASE nodes[at].kind \in {"paren", "un", "asn"}
  BY <1>1, <1>2, <1>3 DEF Steady
<1>4. CASE nodes[at].kind = "bin"
  <2>1. UnderCast(at) => Enclosed(at) /\ nodes[at].born # None
    BY <1>1, <1>4, CastEncloses DEF Kept
  <2> QED BY <2>1, <1>1, <1>2, <1>4 DEF Steady
<1> QED BY <1>3, <1>4

\* The record of a comparison and of a !, where nothing reads it.
LEMMA RecordOfTruth ==
    ASSUME Shape, Progress, Typed, pass = "lower", Plain(at),
           \/ nodes[at].kind = "un" /\ nodes[at].op = "lnot"
           \/ nodes[at].kind = "bin" /\ nodes[at].op \in Comparisons
    PROVE  ty[at] = "bool"
<1>1. at \in 1..Len(nodes) /\ Resolved(at) /\ Seen(at) /\ (Even(at) => Steady(at))
  BY LoweringTyped
<1>2. Steady(at) /\ ~Mislabels(at)
  BY <1>1, CleanIs
<1>3. ~UnderCast(at)
  BY <1>2, CastEncloses DEF Mislabels, IsOp
<1> QED BY <1>1, <1>2, <1>3 DEF Steady

\* A truth value is of the type of the MIR that stands for bool.
LEMMA BoolType == CgnType("bool", arg) = "i1"
  BY DEF CgnType

\* An assignment has been analysed.
LEMMA AssignmentSeen ==
    ASSUME Shape, Progress, Typed, pass = "lower", nodes[at].kind \in Pairs \cup Targets,
           nodes[at].kind # "bin"
    PROVE  ~UnderCast(at)
<1>1. at \in 1..Len(nodes)
  BY LoweringTyped
<1>2. nodes[at].kind \in Roots \cup {"asn"}
  BY DEF Pairs, Targets, Roots
<1> QED BY <1>1, <1>2, Outermost

\* The value of a node is of the type that is recorded for it.
LEMMA LoweredLabel ==
    ASSUME Shape, Progress, Typed, Outcome, pass = "lower", Lowering(at).out = "value",
           Plain(at), nodes[at].kind \notin Roots, ty[at] # None, nodes[at].kind = "asn" => Fixed(at)
    PROVE  Lowering(at).v.ty = CgnType(ty[at], arg)
<1> DEFINE n == nodes[at]
           o == Lowering(at)
           of == Operand(at)
<1>1. /\ at \in 1..Len(nodes) /\ Resolved(at) /\ Seen(at) /\ Kept(at) /\ (Even(at) => Steady(at))
      /\ Len(nodes) \in Nat /\ ty \in [1..Len(nodes) -> Types]
  BY LoweringTyped
<1>2. Steady(at) /\ ~Mislabels(at)
  BY <1>1, CleanIs
<1>3. n \in NodeType /\ Node(at) /\ n.kind \in Kinds /\ (n.kind \notin Leafs => n.l \in Under(at)) /\ Made(n)
  BY <1>1, KindOf DEF Node
<1>4. n.kind \notin Leafs /\ ty[n.l] # None => vals[n.l].ty = CgnType(ty[n.l], arg) /\ ty[n.l] \in Types
  <2>1. n.kind # "eval"
    BY DEF Roots
  <2> QED BY <2>1, <1>3, ValueBelow
<1> HIDE DEF o, of
<1>5. CASE n.kind = "lit"
  <2>1. o.v = Constant(n.t, n.bits)
    BY <1>5, LoweringOf DEF o
  <2>2. ty[at] = n.t
    BY <1>1, <1>3, <1>5 DEF Kept, Made
  <2>3. o.v.ty = CgnType(ty[at], arg)
    BY <2>1, <2>2, ConstantType
  <2> QED BY <2>3 DEF o
<1>6. CASE n.kind = "ref"
  <2>1. o.v = Constant(n.t, n.bits)
    BY <1>6, LoweringOf DEF o
  <2>2. ty[at] = n.t
    BY <1>1, <1>2, <1>6 DEF Steady
  <2>3. o.v.ty = CgnType(ty[at], arg)
    BY <2>1, <2>2, ConstantType
  <2> QED BY <2>3 DEF o
<1>7. CASE n.kind = "paren"
  <2>1. o.v = vals[n.l]
    BY <1>7, LoweringOf DEF o
  <2>2. ty[n.l] = ty[at]
    BY <1>7, RecordOfLeft
  <2> QED BY <2>1, <2>2, <1>4, <1>7 DEF o, Leafs
<1>8. CASE n.kind = "cast"
  <2>1. o = Convert(vals[n.l], ty[n.l], n.t, arg)
    BY <1>8, LoweringOf DEF o
  <2>2. ty[n.l] # None
    BY <2>1, ConvertKnown DEF o
  <2>3. ty[at] = n.t /\ n.t \in Types
    BY <1>1, <1>3, <1>8 DEF Kept, Made, NodeType
  <2>4. vals[n.l].ty = CgnType(ty[n.l], arg) /\ ty[n.l] \in Types
    BY <2>2, <1>4, <1>8 DEF Leafs
  <2>5. o.out = "value" => o.v.ty = CgnType(n.t, arg)
    BY <2>1, <2>3, <2>4, ConvertIs
  <2> QED BY <2>3, <2>5 DEF o
<1>9. CASE n.kind = "un"
  <2>1. o = LowerUnary(n.op, vals[n.l], ty[n.l]) /\ n.op \in UnOps
    BY <1>3, <1>9, LoweringOf DEF o, Made
  <2>2. OfType(o, IF n.op = "lnot" THEN "i1" ELSE vals[n.l].ty)
    BY <2>1, LowerUnaryIs
  <2>3. CASE n.op = "lnot"
    <3>1. ty[at] = "bool"
      BY <2>3, <1>9, RecordOfTruth
    <3> QED BY <2>2, <2>3, <3>1, BoolType DEF o, OfType
  <2>4. CASE n.op # "lnot"
    <3>1. ty[n.l] = ty[at]
      BY <2>4, <1>9, RecordOfLeft
    <3> QED BY <2>2, <2>4, <3>1, <1>4, <1>9 DEF o, OfType, Leafs
  <2> QED BY <2>3, <2>4
<1>10. CASE n.kind = "bin"
  <2>1. of.out = "value"
    BY <1>10, LoweringOf DEF o, of, Pairs
  <2>2. o = LowerBinary(n.op, vals[n.l], of.v, ty[n.l], ty[at]) /\ n.op \in BinOps
    BY <2>1, <1>3, <1>10, LoweringOf DEF o, of, Made
  <2>3. OfType(o, IF n.op \in Comparisons \cup {"land", "lor"} THEN "i1" ELSE vals[n.l].ty)
    BY <2>2, LowerBinaryIs
  <2>4. CASE n.op \in Comparisons
    <3>1. ty[at] = "bool"
      BY <2>4, <1>10, RecordOfTruth
    <3> QED BY <2>3, <2>4, <3>1, BoolType DEF o, OfType
  <2>5. CASE n.op \notin Comparisons
    <3>1. ty[n.l] = ty[at]
      BY <2>5, <1>10, RecordOfLeft
    <3>2. CASE n.op \in {"land", "lor"}
      <4>1. ty[n.l] = "bool"
        BY <3>2, <1>2, <1>10 DEF Mislabels, IsOp
      <4> QED BY <2>3, <3>1, <3>2, <4>1, BoolType DEF o, OfType
    <3>3. CASE n.op \notin {"land", "lor"}
      BY <2>3, <2>5, <3>1, <3>3, <1>4, <1>10 DEF o, OfType, Leafs
    <3> QED BY <3>2, <3>3
  <2> QED BY <2>4, <2>5
<1>11. CASE n.kind = "asn"
  <2>1. of.out = "value"
    BY <1>11, LoweringOf DEF o, of, Pairs
  <2>2. ty[n.l] = ty[at]
    BY <1>11, RecordOfLeft
  <2>3. vals[n.l].ty = CgnType(ty[at], arg)
    BY <2>2, <1>4, <1>11 DEF Leafs
  <2>4. CASE n.op = Nil
    <3>1. o = Stored(of.v, ty[at])
      BY <2>1, <2>4, <1>11, LoweringOf DEF o, of
    <3>2. o.v = of.v
      BY <3>1, StoredIs
    <3>3. ~UnderCast(at) /\ Expected(at) = ty[at] /\ ~Loose(n)
      <4>1. Nil \notin PtrArith
        BY DEF PtrArith, Nil
      <4> QED BY <4>1, <2>2, <2>4, <1>11, AssignmentSeen DEF Pairs, Expected, Loose
    <3>4. of.v.ty = CgnType(ty[at], arg)
      BY <2>1, <3>3, <1>11, OperandIs DEF of, Pairs
    <3> QED BY <3>2, <3>4 DEF o
  <2>5. CASE n.op # Nil
    <3> DEFINE sum == LowerBinary(n.op, vals[n.l], of.v, ty[n.l], ty[at])
               st == Stored(sum.v, ty[at])
    <3>1. o = IF sum.out = "value" THEN [st EXCEPT !.ill = @ \/ sum.ill] ELSE sum
      BY <2>1, <2>5, <1>11, LoweringOf DEF o, of
    <3>2. n.op \in BinOps /\ n.op \notin Comparisons \cup {"land", "lor"}
      BY <2>5, <1>3, <1>11 DEF Made, Compounds
    <3>3. OfType(sum, vals[n.l].ty)
      BY <3>2, LowerBinaryIs
    <3>4. st.v = sum.v
      BY StoredIs
    <3>5. sum.out = "value" /\ o.v = st.v
      <4> HIDE DEF sum, st
      <4> QED BY <3>1 DEF o
    <3> HIDE DEF sum, st
    <3> QED BY <2>3, <3>3, <3>4, <3>5 DEF o, OfType
  <2> QED BY <2>4, <2>5
<1> QED BY <1>3, <1>5, <1>6, <1>7, <1>8, <1>9, <1>10, <1>11, KindsApart DEF Roots, Targets

\* The value of a node has a type of the MIR, if none in it is a parameter's.
LEMMA LoweredValued ==
    ASSUME Shape, Progress, Typed, Outcome, pass = "lower", Lowering(at).out = "value", Fixed(at)
    PROVE  Lowering(at).v.ty \in MirTypes
<1> DEFINE n == nodes[at]
           o == Lowering(at)
           of == Operand(at)
<1>1. at \in 1..Len(nodes)
  BY LoweringTyped
<1>2. n \in NodeType /\ Made(n) /\ n.kind \in Kinds /\ (n.kind \notin Leafs => n.l \in Under(at)) /\ n.t # "T"
  BY <1>1, KindOf, CleanIs DEF Node
<1>3. n.kind \notin Leafs => vals[n.l].ty \in MirTypes /\ ty[n.l] \in Types
  BY <1>2, ValueBelow
<1>4. "i1" \in MirTypes
  BY DEF MirTypes, MirInts
<1>5. n.kind \in Pairs \cup Targets => of.out = "value" /\ of.v.ty \in MirTypes
  <2>1. n.kind \in Pairs \cup Targets /\ of.out # "value" => o = of
    BY LoweringOf
  <2> QED BY <2>1, OperandAny
<1> HIDE DEF o, of
<1>6. CASE n.kind \in {"lit", "ref"}
  <2>1. o.v = Constant(n.t, n.bits)
    BY <1>6, LoweringOf DEF o
  <2>2. o.v.ty = CgnType(n.t, arg) /\ n.t \in Types /\ n.t # None
    BY <1>2, <1>6, <2>1, ConstantType DEF NodeType, Made, Leafs
  <2> QED BY <2>2, <1>2, CgnTypes DEF o
<1>7. CASE n.kind \in {"paren", "eval"}
  <2>1. o.v = vals[n.l]
    BY <1>7, LoweringOf DEF o
  <2> QED BY <2>1, <1>3, <1>7 DEF o, Leafs
<1>8. CASE n.kind = "cast"
  <2>1. o = Convert(vals[n.l], ty[n.l], n.t, arg)
    BY <1>8, LoweringOf DEF o
  <2>2. n.t \in Types /\ n.t # None /\ ty[n.l] \in Types /\ vals[n.l].ty \in MirTypes
    BY <1>2, <1>3, <1>8 DEF NodeType, Made, Leafs
  <2>3. o.out = "value" => o.v.ty \in {vals[n.l].ty, CgnType(n.t, arg)}
    BY <2>1, <2>2, ConvertIs
  <2>4. CgnType(n.t, arg) \in MirTypes
    BY <2>2, <1>2, CgnTypes
  <2> QED BY <2>2, <2>3, <2>4 DEF o
<1>9. CASE n.kind = "un"
  <2>1. o = LowerUnary(n.op, vals[n.l], ty[n.l]) /\ n.op \in UnOps
    BY <1>2, <1>9, LoweringOf DEF o, Made
  <2>2. OfType(o, IF n.op = "lnot" THEN "i1" ELSE vals[n.l].ty)
    BY <2>1, LowerUnaryIs
  <2> QED BY <2>2, <1>3, <1>4, <1>9 DEF o, OfType, Leafs
<1>10. CASE n.kind = "cond"
  <2>1. o = InjectCmp(vals[n.l])
    BY <1>10, LoweringOf DEF o
  <2>2. OfType(o, "i1")
    BY <2>1, InjectCmpIs
  <2> QED BY <2>2, <1>4 DEF o, OfType
<1>11. CASE n.kind \in Targets
  <2>1. o = Stored(of.v, ty[at])
    BY <1>5, <1>11, LoweringOf DEF o, of
  <2>2. o.v = of.v
    BY <2>1, StoredIs DEF o
  <2> QED BY <2>2, <1>5, <1>11 DEF o
<1>12. CASE n.kind = "case"
  <2>1. o = LowerCase(ty[n.l], vals[n.l], of.v)
    BY <1>5, <1>12, LoweringOf DEF o, of, Pairs
  <2>2. OfType(o, "i1")
    BY <2>1, LowerCaseIs
  <2> QED BY <2>2, <1>4 DEF o, OfType
<1>13. CASE n.kind = "bin"
  <2>1. o = LowerBinary(n.op, vals[n.l], of.v, ty[n.l], ty[at]) /\ n.op \in BinOps
    BY <1>2, <1>5, <1>13, LoweringOf DEF o, of, Pairs, Made
  <2>2. OfType(o, IF n.op \in Comparisons \cup {"land", "lor"} THEN "i1" ELSE vals[n.l].ty)
    BY <2>1, LowerBinaryIs
  <2> QED BY <2>2, <1>3, <1>4, <1>13 DEF o, OfType, Leafs
<1>14. CASE n.kind = "asn"
  <2>1. of.out = "value" /\ of.v.ty \in MirTypes
    BY <1>5, <1>14 DEF Pairs
  <2>2. CASE n.op = Nil
    <3>1. o = Stored(of.v, ty[at])
      BY <2>1, <2>2, <1>14, LoweringOf DEF o, of
    <3>2. o.v = of.v
      BY <3>1, StoredIs DEF o
    <3> QED BY <2>1, <3>2 DEF o
  <2>3. CASE n.op # Nil
    <3> DEFINE sum == LowerBinary(n.op, vals[n.l], of.v, ty[n.l], ty[at])
               st == Stored(sum.v, ty[at])
    <3>1. o = IF sum.out = "value" THEN [st EXCEPT !.ill = @ \/ sum.ill] ELSE sum
      BY <2>1, <2>3, <1>14, LoweringOf DEF o, of
    <3>2. n.op \in BinOps /\ n.op \notin Comparisons \cup {"land", "lor"}
      BY <2>3, <1>2, <1>14 DEF Made, Compounds
    <3>3. OfType(sum, vals[n.l].ty)
      BY <3>2, LowerBinaryIs
    <3>4. st.out = "value" => st.v = sum.v
      BY StoredIs
    <3>5. sum.out = "value" /\ o.v = st.v /\ st.out = "value"
      <4> HIDE DEF sum, st
      <4> QED BY <3>1 DEF o
    <3> HIDE DEF sum, st
    <3> QED BY <3>3, <3>4, <3>5, <1>3, <1>14 DEF o, OfType, Leafs
  <2> QED BY <2>2, <2>3
<1> QED BY <1>2, <1>6, <1>7, <1>8, <1>9, <1>10, <1>11, <1>12, <1>13, <1>14, KindsApart

\* What is there when no operation is read before it has a type: every operand
\* of an expression has one, and so has every operation.
LEMMA AllKnown ==
    ASSUME Shape, Progress, Typed, pass = "lower", ~Early, nodes[at].kind # "eval"
    PROVE  /\ \A o \in Under(at) : ty[o] # None
           /\ nodes[at].kind \in {"bin", "asn"} => ty[at] # None
<1>1. \A k \in 1..Len(nodes) : Known(k) /\ Resolved(k) /\ Seen(k)
  BY LoweringTyped
<1>2. at \in 1..Len(nodes)
  BY LoweringTyped
<1>3. ASSUME NEW o \in Under(at)
      PROVE  ty[o] # None
  <2>1. o \in 1..Len(nodes) /\ nodes[o].kind \notin Roots /\ nodes[o].kind # "asn"
    BY <1>2, Within
  <2>2. nodes[o].kind \in Kinds
    BY <2>1, KindOf
  <2> QED BY <2>1, <2>2, <1>1 DEF Known, Kinds
<1> QED BY <1>1, <1>2, <1>3 DEF Known

\* How the lowering of a node may end; and where a nullptr is followed, an
\* operation was read too early, or what is no number is counted.
LEMMA LoweredEnds ==
    ASSUME Shape, Progress, Typed, Outcome, pass = "lower"
    PROVE  /\ Ends(Lowering(at), {"crash", "refused", "asserted"})
           /\ Lowering(at).out = "crash" => Early \/ CountsNonNumber(at)
<1> DEFINE n == nodes[at]
           o == Lowering(at)
           of == Operand(at)
           Fine == Ends(o, {"crash", "refused", "asserted"}) /\ (o.out = "crash" => Early \/ CountsNonNumber(at))
<1> SUFFICES Fine
  OBVIOUS
<1>1. at \in 1..Len(nodes)
  BY LoweringTyped
<1>2. n \in NodeType /\ Made(n) /\ n.kind \in Kinds /\ (n.kind \notin Leafs => n.l \in Under(at))
  BY <1>1, KindOf DEF Node
<1>3. ~Early /\ n.kind # "eval" => (n.kind \notin Leafs => ty[n.l] # None) /\ (n.kind \in {"bin", "asn"} => ty[at] # None)
  BY <1>2, AllKnown
<1>4. n.kind \in Pairs \cup Targets =>
         /\ Ends(of, {"crash", "refused", "asserted"})
         /\ of.out = "crash" => Early
  <2>1. ASSUME n.kind \in Pairs \cup Targets
        PROVE  /\ Ends(of, {"crash", "refused", "asserted"})
               /\ of.out = "crash" => Early
    <3>1. n.kind # "eval"
      BY <2>1 DEF Pairs, Targets
    <3>2. /\ LastOf(n) \in Under(at)
          /\ Ends(of, {"crash", "refused", "asserted"})
          /\ of.out = "crash" => ty[LastOf(n)] = None
      BY <2>1, OperandAny
    <3> QED BY <3>1, <3>2, AllKnown
  <2> QED BY <2>1
<1>5. n.kind \notin Leafs => ty[n.l] \in Types
  BY <1>2, ValueBelow
<1> HIDE DEF o, of
<1>6. CASE n.kind \in {"lit", "ref", "paren", "eval"}
  <2>1. o.out = "value"
    BY <1>6, LoweringOf DEF o
  <2> QED BY <2>1 DEF Ends
<1>7. CASE n.kind = "cast"
  <2>1. o = Convert(vals[n.l], ty[n.l], n.t, arg)
    BY <1>7, LoweringOf DEF o
  <2>2. n.t \in Types /\ n.t # None /\ ty[n.l] \in Types
    BY <1>2, <1>5, <1>7 DEF NodeType, Made, Leafs
  <2>3. Ends(o, {"crash", "refused", "asserted"}) /\ (o.out = "crash" => ty[n.l] = None \/ n.t = None)
    BY <2>1, <2>2, ConvertIs
  <2> QED BY <2>2, <2>3, <1>3, <1>7 DEF Leafs
<1>8. CASE n.kind = "un"
  <2>1. o = LowerUnary(n.op, vals[n.l], ty[n.l]) /\ n.op \in UnOps
    BY <1>2, <1>8, LoweringOf DEF o, Made
  <2>2. /\ Ends(o, {"crash", "refused", "asserted"})
        /\ o.out = "crash" => \/ n.op = "neg" /\ ty[n.l] = None
                              \/ n.op \in {"inc", "dec"} /\ TypeClass(ty[n.l]) = "Unknown"
    BY <2>1, LowerUnaryIs
  <2> QED BY <2>2, <1>3, <1>8 DEF Leafs, CountsNonNumber
<1>9. CASE n.kind = "cond"
  <2>1. o = InjectCmp(vals[n.l])
    BY <1>9, LoweringOf DEF o
  <2>2. Ends(o, {"asserted"})
    BY <2>1, InjectCmpIs
  <2> QED BY <2>2 DEF Ends
<1>10. CASE n.kind \in Pairs \cup Targets /\ of.out # "value"
  <2>1. o = of
    BY <1>10, LoweringOf DEF o, of
  <2> QED BY <2>1, <1>4, <1>10
<1>11. CASE n.kind \in Targets /\ of.out = "value"
  <2>1. o = Stored(of.v, ty[at])
    BY <1>11, LoweringOf DEF o, of
  <2>2. o.out \in {"value", "asserted"}
    BY <2>1, StoredIs
  <2> QED BY <2>2 DEF Ends
<1>12. CASE n.kind = "case" /\ of.out = "value"
  <2>1. o = LowerCase(ty[n.l], vals[n.l], of.v)
    BY <1>12, LoweringOf DEF o, of
  <2>2. Ends(o, {"crash", "refused", "asserted"}) /\ (o.out = "crash" => ty[n.l] = None)
    BY <2>1, LowerCaseIs
  <2> QED BY <2>2, <1>3, <1>12 DEF Leafs
<1>13. CASE n.kind = "bin" /\ of.out = "value"
  <2>1. o = LowerBinary(n.op, vals[n.l], of.v, ty[n.l], ty[at]) /\ n.op \in BinOps
    BY <1>2, <1>13, LoweringOf DEF o, of, Made
  <2>2. Ends(o, {"crash", "refused", "asserted"}) /\ (o.out = "crash" => ty[n.l] = None \/ ty[at] = None)
    BY <2>1, LowerBinaryIs
  <2> QED BY <2>2, <1>3, <1>13 DEF Leafs
<1>14. CASE n.kind = "asn" /\ of.out = "value"
  <2>1. CASE n.op = Nil
    <3>1. o = Stored(of.v, ty[at])
      BY <2>1, <1>14, LoweringOf DEF o, of
    <3>2. o.out \in {"value", "asserted"}
      BY <3>1, StoredIs
    <3> QED BY <3>2 DEF Ends
  <2>2. CASE n.op # Nil
    <3> DEFINE sum == LowerBinary(n.op, vals[n.l], of.v, ty[n.l], ty[at])
               st == Stored(sum.v, ty[at])
    <3>1. o = IF sum.out = "value" THEN [st EXCEPT !.ill = @ \/ sum.ill] ELSE sum
      BY <2>2, <1>14, LoweringOf DEF o, of
    <3>2. n.op \in BinOps
      BY <2>2, <1>2, <1>14 DEF Made, Compounds
    <3>3. Ends(sum, {"crash", "refused", "asserted"}) /\ (sum.out = "crash" => ty[n.l] = None \/ ty[at] = None)
      BY <3>2, LowerBinaryIs
    <3>4. st.out \in {"value", "asserted"}
      BY StoredIs
    <3>5. o = sum \/ o.out = st.out
      <4> HIDE DEF sum, st
      <4> QED BY <3>1
    <3> HIDE DEF sum, st
    <3> QED BY <3>3, <3>4, <3>5, <1>3, <1>14 DEF Ends, Leafs
  <2> QED BY <2>1, <2>2
<1> QED BY <1>2, <1>6, <1>7, <1>8, <1>9, <1>10, <1>11, <1>12, <1>13, <1>14, KindsApart DEF Pairs

\* What is known of the operands of a binary operation or an assignment where
\* nothing is excepted.
LEMMA BothOperands ==
    ASSUME Shape, Progress, Typed, Outcome, pass = "lower", Clean(at), nodes[at].kind \in Pairs,
           Operand(at).out = "value"
    PROVE  LET n == nodes[at]
               of == Operand(at) IN
           /\ ~UnderCast(at)
           /\ ty[n.l] \in Types \ {None, "T"} /\ vals[n.l].ty = CgnType(ty[n.l], arg) /\ vals[n.l].ty \in MirTypes
           /\ ~of.ill /\ of.v.ty \in MirTypes
           /\ \/ of.v.ty = vals[n.l].ty /\ (ty[n.r] = ty[n.l] \/ CanImplCastTo(ty[n.r], ty[n.l]))
              \/ Loose(n) /\ PtrMix(ty[n.l], ty[n.r]) /\ of.v.ty = CgnType(ty[n.r], arg)
           /\ ty[n.r] \in Types \ {None, "T"}
<1> DEFINE n == nodes[at]
           of == Operand(at)
<1>1. at \in 1..Len(nodes)
  BY LoweringTyped
<1>2. n.l \in Under(at) /\ LastOf(n) = n.r /\ Expected(at) = ty[n.l] /\ n.kind # "eval"
  BY <1>1, KindOf DEF LastOf, Expected, Pairs
<1>3. Plain(at) /\ Fixed(at)
  BY <1>1, CleanIs
<1>4. ~UnderCast(at)
  <2>1. n.kind = "bin" => ~UnderCast(at)
    BY <1>1, CleanIs
  <2> QED BY <2>1, AssignmentSeen
<1>5. /\ ty[n.r] \in Types \ {None, "T"} /\ ty[n.l] \in Types \ {None, "T"}
      /\ \/ wraps[at] = None /\ ty[n.r] = ty[n.l]
         \/ wraps[at] = ty[n.l] /\ CanImplCastTo(ty[n.r], ty[n.l])
         \/ wraps[at] = None /\ Loose(n) /\ PtrMix(ty[n.l], ty[n.r])
      /\ ~of.ill
      /\ of.v.ty = CgnType(IF wraps[at] = None THEN ty[n.r] ELSE ty[n.l], arg)
  BY <1>2, <1>3, <1>4, OperandIs
<1>6. vals[n.l].ty = CgnType(ty[n.l], arg) /\ vals[n.l].ty \in MirTypes
  BY <1>2, <1>3, <1>5, ValueBelow
<1>7. of.v.ty \in MirTypes
  BY <1>3, OperandAny
<1> HIDE DEF of
<1>8. \/ of.v.ty = vals[n.l].ty /\ (ty[n.r] = ty[n.l] \/ CanImplCastTo(ty[n.r], ty[n.l]))
      \/ Loose(n) /\ PtrMix(ty[n.l], ty[n.r]) /\ of.v.ty = CgnType(ty[n.r], arg)
  BY <1>5, <1>6
<1> QED BY <1>4, <1>5, <1>6, <1>7, <1>8 DEF of

\* Pointers are pointers in the MIR, and integers are integers.
LEMMA PtrMixIs ==
    ASSUME NEW e \in Types, NEW t \in Types, NEW l, NEW r, e \notin {None, "T"}, t \notin {None, "T"},
           PtrMix(e, t), l.ty = CgnType(e, arg), r.ty = CgnType(t, arg)
    PROVE  /\ MirPtr(l) \/ MirPtr(r)
           /\ ~IsPointer(t) => MirPtr(l) /\ MirInt(r)
<1>1. /\ IsPointer(e) => TypeClass(e) = "Pointer"
      /\ IsPointer(t) => TypeClass(t) = "Pointer"
      /\ IsInt(t) => TypeClass(t) \in IntClasses
  BY DEF TypeClass, IsPointer, IsInt, SInts, UInts, Floats, Pointers, IntClasses
<1>2. /\ IsPointer(e) => l.ty \in Pointers
      /\ IsPointer(t) => r.ty \in Pointers
      /\ IsInt(t) => r.ty \in {"i8", "i64"}
  BY <1>1, CgnTypes
<1> QED BY <1>2 DEF PtrMix, MirPtr, MirInt, MirInts, IsPointer

\* What converts to a pointer by itself is one.
LEMMA ToPointer ==
    ASSUME NEW t \in Types, NEW e \in Types, CanImplCastTo(t, e), IsPointer(e)
    PROVE  IsPointer(t)
  BY DEF CanImplCastTo, IsPointer, Pointers, Primitives, SInts, UInts, Floats

\* A binary operator, of which the operands are as they are to be.
LEMMA BinaryFits ==
    ASSUME Shape, Progress, Typed, Outcome, pass = "lower", Clean(at), nodes[at].kind \in {"bin", "asn"},
           nodes[at].op \in BinOps, Operand(at).out = "value"
    PROVE  LET n == nodes[at]
               o == LowerBinary(n.op, vals[n.l], Operand(at).v, ty[n.l], ty[at]) IN
           /\ o.out = "value" => ~o.ill
           /\ n.op \notin Comparisons \cup {"land", "lor"} /\ o.out = "value" => o.v.ty = CgnType(ty[n.l], arg)
           /\ ~OperatorGap(n.op, ty[n.l], ty[n.r]) => o.out = "value"
<1> DEFINE n == nodes[at]
           l == vals[n.l]
           r == Operand(at).v
           lt == ty[n.l]
           rt == ty[n.r]
           o == LowerBinary(n.op, l, r, lt, ty[at])
<1>1. nodes[at].kind \in Pairs
  BY DEF Pairs
<1>2. /\ ~UnderCast(at)
      /\ lt \in Types \ {None, "T"} /\ l.ty = CgnType(lt, arg) /\ l.ty \in MirTypes
      /\ r.ty \in MirTypes
      /\ \/ r.ty = l.ty /\ (rt = lt \/ CanImplCastTo(rt, lt))
         \/ Loose(n) /\ PtrMix(lt, rt) /\ r.ty = CgnType(rt, arg)
      /\ rt \in Types \ {None, "T"}
  BY <1>1, BothOperands
<1>3. n.op = "shr" => ty[at] = lt
  <2>1. at \in 1..Len(nodes) /\ Seen(at) /\ (Even(at) => Steady(at))
    BY LoweringTyped
  <2>2. Steady(at)
    BY <2>1, CleanIs
  <2> QED BY <1>2, <2>1, <2>2 DEF Steady, Comparisons
<1> HIDE DEF r, l, lt, rt
<1>4. /\ OfType(o, IF n.op \in Comparisons \cup {"land", "lor"} THEN "i1" ELSE l.ty)
      /\ l.ty = r.ty \/ n.op \in {"land", "lor"} => ~o.ill
      /\ n.op \in PtrArith /\ (MirPtr(l) \/ MirPtr(r)) /\ o.out = "value" => ~o.ill
      /\ Meets(n.op, l, r, lt, rt, ty[at], arg) => o.out = "value"
  <2>1. n.op \in BinOps
    OBVIOUS
  <2>2. OfType(o, IF n.op \in Comparisons \cup {"land", "lor"} THEN "i1" ELSE l.ty)
    BY <2>1, LowerBinaryIs
  <2>3. l.ty = r.ty \/ n.op \in {"land", "lor"} => ~o.ill
    BY <2>1, LowerBinaryIs
  <2>4. n.op \in PtrArith /\ (MirPtr(l) \/ MirPtr(r)) /\ o.out = "value" => ~o.ill
    BY <2>1, LowerBinaryIs
  <2>5. Meets(n.op, l, r, lt, rt, ty[at], arg) => o.out = "value"
    BY <2>1, LowerBinaryIs
  <2> QED BY <2>2, <2>3, <2>4, <2>5
<1>5. o.out = "value" => ~o.ill
  <2>1. CASE l.ty = r.ty
    BY <1>4, <2>1
  <2>2. CASE l.ty # r.ty
    <3>1. n.op \in PtrArith /\ (MirPtr(l) \/ MirPtr(r))
      BY <2>2, <1>2, PtrMixIs DEF Loose
    <3> QED BY <3>1, <1>4
  <2> QED BY <2>1, <2>2
<1>6. ASSUME ~OperatorGap(n.op, lt, rt)
      PROVE  Meets(n.op, l, r, lt, rt, ty[at], arg)
  <2>1. n.op \in PtrArith => ~IsPointer(rt)
    BY <1>6 DEF OperatorGap
  <2>2. MirPtr(l) => IsPointer(lt)
    <3>1. MirPtr(l) => TypeClass(lt) = "Pointer"
      BY <1>2, CgnTypes DEF MirPtr, IsPointer
    <3> QED BY <3>1 DEF TypeClass
  <2>3. IF n.op \in PtrArith /\ MirPtr(l) THEN MirInt(r) ELSE l.ty = r.ty
    <3>1. CASE Loose(n) /\ PtrMix(lt, rt) /\ r.ty = CgnType(rt, arg)
      <4>1. n.op \in PtrArith
        BY <3>1 DEF Loose
      <4>2. MirPtr(l) /\ MirInt(r)
        BY <4>1, <2>1, <3>1, <1>2, PtrMixIs
      <4> QED BY <4>1, <4>2
    <3>2. CASE r.ty = l.ty /\ (rt = lt \/ CanImplCastTo(rt, lt))
      <4>1. n.op \in PtrArith => ~MirPtr(l)
        BY <3>2, <2>1, <2>2, <1>2, ToPointer
      <4> QED BY <4>1, <3>2
    <3> QED BY <3>1, <3>2, <1>2
  <2> QED BY <2>3, <1>2, <1>3, <1>6 DEF Meets
<1>7. n.op \notin Comparisons \cup {"land", "lor"} /\ o.out = "value" => o.v.ty = CgnType(lt, arg)
  BY <1>2, <1>4 DEF OfType
<1> QED BY <1>4, <1>5, <1>6, <1>7 DEF l, r, lt, rt

\* What is stored has the type of the place it goes to: the value of an
\* initializer or of the right side of an assignment, after its conversion.
LEMMA StoredFits ==
    ASSUME Shape, Progress, Typed, Outcome, pass = "lower", Clean(at), Operand(at).out = "value",
           nodes[at].kind \in Targets \/ (nodes[at].kind = "asn" /\ nodes[at].op = Nil)
    PROVE  LET o == Stored(Operand(at).v, ty[at]) IN o.out = "value" /\ ~o.ill
<1> DEFINE n == nodes[at]
           of == Operand(at)
<1>1. at \in 1..Len(nodes) /\ Seen(at) /\ (Even(at) => Steady(at))
  BY LoweringTyped
<1>2. Plain(at) /\ Fixed(at) /\ Steady(at)
  BY <1>1, CleanIs
<1>3. n.kind \in Pairs \cup Targets /\ n.kind # "bin"
  BY DEF Pairs, Targets
<1>4. ~UnderCast(at)
  BY <1>3, AssignmentSeen
<1>5. ~Loose(n)
  BY <1>3 DEF Loose, PtrArith, Targets, Nil
<1>6. Expected(at) = ty[at]
  <2>1. n.kind = "asn" => ty[at] = ty[n.l]
    BY <1>1, <1>2 DEF Steady
  <2>2. n.kind \in Targets => n.kind \notin Pairs
    BY DEF Pairs, Targets
  <2> QED BY <2>1, <2>2 DEF Expected, Pairs
<1>7. ty[at] # None /\ of.v.ty = CgnType(ty[at], arg)
  BY <1>2, <1>3, <1>4, <1>5, <1>6, OperandIs
<1> QED BY <1>7, StoredIs

\* So for the store of a sum.
LEMMA SumStored ==
    ASSUME NEW sum, NEW t, t # None, sum.out = "value", ~sum.ill, sum.v.ty = CgnType(t, arg)
    PROVE  ~[Stored(sum.v, t) EXCEPT !.ill = @ \/ sum.ill].ill
<1> DEFINE st == Stored(sum.v, t)
           bad == sum.v.ty # CgnType(t, arg)
           both == st.ill \/ sum.ill
<1>1. st = [out |-> "value", v |-> sum.v, ill |-> bad]
  BY Zenon DEF Stored, Gives
<1>2. ~both
  BY StoredIs
<1>3. DOMAIN st = {"out", "v", "ill"}
  <2> HIDE DEF bad, st
  <2> QED BY <1>1
<1> HIDE DEF st, bad, both
<1>4. [st EXCEPT !.ill = both].ill = both
  BY <1>3
<1> QED BY <1>2, <1>4, Zenon DEF st, both

\* An instruction has operands of its type, unless it is a ~ of what is no
\* integer.
LEMMA LoweredWell ==
    ASSUME Shape, Progress, Typed, Outcome, pass = "lower", Lowering(at).out = "value", Clean(at),
           Lowering(at).ill \/ (nodes[at].kind \in Pairs \cup Targets /\ Operand(at).ill)
    PROVE  Complements(at)
<1> DEFINE n == nodes[at]
           o == Lowering(at)
           of == Operand(at)
<1>1. at \in 1..Len(nodes)
  BY LoweringTyped
<1>2. /\ Plain(at) /\ Fixed(at)
      /\ n \in NodeType /\ Made(n) /\ n.kind \in Kinds /\ (n.kind \notin Leafs => n.l \in Under(at))
  BY <1>1, KindOf, CleanIs DEF Node
<1>3. /\ n.kind \notin Leafs => vals[n.l].ty \in MirTypes /\ ty[n.l] \in Types
      /\ n.kind \notin Leafs /\ n.kind # "eval" /\ ty[n.l] # None => vals[n.l].ty = CgnType(ty[n.l], arg)
  BY <1>2, ValueBelow
<1>4. n.kind \in Pairs \cup Targets => of.out = "value" /\ ~of.ill
  <2>1. n.kind \in Pairs \cup Targets => of.out = "value"
    BY LoweringOf
  <2>2. n.kind \in Pairs \cup Targets => ~UnderCast(at)
    <3>1. n.kind = "bin" => ~UnderCast(at)
      BY <1>1, CleanIs
    <3> QED BY <3>1, AssignmentSeen
  <2> QED BY <2>1, <2>2, <1>2, OperandIs
<1>5. o.ill
  BY <1>4
<1>6. n.kind = "un"
  <2> HIDE DEF o, of
  <2>1. CASE n.kind \in {"lit", "ref", "paren", "eval"}
    BY <2>1, <1>5, LoweringOf DEF o
  <2>2. CASE n.kind = "cast"
    <3>1. o = Convert(vals[n.l], ty[n.l], n.t, arg)
      BY <2>2, LoweringOf DEF o
    <3>2. ty[n.l] # None
      BY <3>1, ConvertKnown DEF o
    <3>3. vals[n.l].ty = CgnType(ty[n.l], arg) /\ ty[n.l] \in Types /\ n.t \in Types
      BY <3>2, <1>2, <1>3, <2>2 DEF Leafs, NodeType
    <3>4. o.out = "value" => ~o.ill
      BY <3>1, <3>3, ConvertIs
    <3> QED BY <3>4, <1>5 DEF o
  <2>3. CASE n.kind = "cond"
    <3>1. o = InjectCmp(vals[n.l])
      BY <2>3, LoweringOf DEF o
    <3> QED BY <3>1, <1>5, InjectCmpIs
  <2>4. CASE n.kind \in Targets
    <3>1. o = Stored(of.v, ty[at])
      BY <2>4, <1>4, LoweringOf DEF o, of
    <3> QED BY <3>1, <2>4, <1>4, <1>5, StoredFits DEF of
  <2>5. CASE n.kind = "case"
    <3>1. of.out = "value" /\ n.kind \in Pairs
      BY <2>5, <1>4 DEF Pairs
    <3>2. o = LowerCase(ty[n.l], vals[n.l], of.v)
      BY <2>5, <3>1, LoweringOf DEF o, of
    <3>3. of.v.ty = vals[n.l].ty
      BY <2>5, <3>1, BothOperands DEF of, Loose
    <3> QED BY <3>2, <3>3, <1>5, LowerCaseIs
  <2>6. CASE n.kind = "bin"
    <3>1. of.out = "value" /\ n.op \in BinOps
      BY <2>6, <1>2, <1>4 DEF Pairs, Made
    <3>2. o = LowerBinary(n.op, vals[n.l], of.v, ty[n.l], ty[at])
      BY <2>6, <3>1, LoweringOf DEF o, of
    <3>3. o.out = "value" => ~o.ill
      BY <2>6, <3>1, <3>2, BinaryFits DEF of
    <3> QED BY <3>3, <1>5 DEF o
  <2>7. CASE n.kind = "asn"
    <3>1. of.out = "value"
      BY <2>7, <1>4 DEF Pairs
    <3>2. CASE n.op = Nil
      <4>1. o = Stored(of.v, ty[at])
        BY <2>7, <3>1, <3>2, LoweringOf DEF o, of
      <4> QED BY <4>1, <2>7, <3>1, <3>2, <1>5, StoredFits DEF of
    <3>3. CASE n.op # Nil
      <4> DEFINE sum == LowerBinary(n.op, vals[n.l], of.v, ty[n.l], ty[at])
                 st == Stored(sum.v, ty[at])
      <4>1. o = IF sum.out = "value" THEN [st EXCEPT !.ill = @ \/ sum.ill] ELSE sum
        BY <3>1, <3>3, <2>7, LoweringOf DEF o, of
      <4>2. n.op \in BinOps /\ n.op \notin Comparisons \cup {"land", "lor"}
        BY <3>3, <1>2, <2>7 DEF Made, Compounds
      <4>3. sum.out = "value" => ~sum.ill /\ sum.v.ty = CgnType(ty[n.l], arg)
        BY <4>2, <3>1, <2>7, BinaryFits DEF of
      <4>4. ty[at] = ty[n.l]
        <5>1. Seen(at) /\ (Even(at) => Steady(at))
          BY LoweringTyped
        <5> QED BY <5>1, <1>1, <1>2, <2>7, CleanIs DEF Steady
      <4>5. sum.out = "value"
        <5> HIDE DEF sum, st
        <5> QED BY <4>1 DEF o
      <4>6. ty[at] # None
        <5>1. n.kind \in Pairs
          BY <2>7 DEF Pairs
        <5> QED BY <5>1, <4>4, <3>1, BothOperands DEF of
      <4>7. ~o.ill
        <5>1. o = [Stored(sum.v, ty[at]) EXCEPT !.ill = @ \/ sum.ill]
          BY <4>1, <4>5
        <5>2. ~[Stored(sum.v, ty[at]) EXCEPT !.ill = @ \/ sum.ill].ill
          BY <4>3, <4>4, <4>5, <4>6, SumStored
        <5> QED BY <5>1, <5>2, Zenon
      <4> QED BY <4>7, <1>5
    <3> QED BY <3>2, <3>3
  <2> QED BY <2>1, <2>2, <2>3, <2>4, <2>5, <2>6, <2>7, <1>2, KindsApart
<1>7. o = LowerUnary(n.op, vals[n.l], ty[n.l]) /\ n.op \in UnOps
  BY <1>2, <1>6, LoweringOf DEF Made
<1>8. n.op = "bnot" /\ ~MirInt(vals[n.l])
  <2> HIDE DEF o
  <2> QED BY <1>5, <1>7, LowerUnaryIs
<1>9. vals[n.l].ty \in Floats \cup Pointers
  BY <1>3, <1>6, <1>8 DEF MirInt, MirTypes, Leafs
<1> QED BY <1>6, <1>8, <1>9 DEF Complements

\* What the analysis accepts is lowered, but for the gaps, and where a nullptr is
\* followed.
LEMMA LoweredAccepted ==
    ASSUME Shape, Progress, Typed, Outcome, pass = "lower", Clean(at), ~Gap(at),
           ~(wraps[at] # None /\ ConversionGap(ty[LastOf(nodes[at])], wraps[at]))
    PROVE  Lowering(at).out \in {"value", "crash"}
<1> DEFINE n == nodes[at]
           o == Lowering(at)
           of == Operand(at)
<1>1. at \in 1..Len(nodes) /\ Seen(at) /\ Wrapped(at) /\ Resolved(at)
  BY LoweringTyped
<1>2. /\ Plain(at) /\ Fixed(at) /\ n.t # "T"
      /\ n \in NodeType /\ Node(at) /\ Made(n) /\ n.kind \in Kinds /\ (n.kind \notin Leafs => n.l \in Under(at))
  BY <1>1, KindOf, CleanIs DEF Node
<1>3. /\ n.kind \notin Leafs => vals[n.l].ty \in MirTypes /\ ty[n.l] \in Types /\ ty[n.l] # "T"
      /\ n.kind \notin Leafs /\ n.kind # "eval" /\ ty[n.l] # None => vals[n.l].ty = CgnType(ty[n.l], arg)
  BY <1>2, ValueBelow
<1>4. n.kind \in Pairs \cup Targets =>
         /\ ~UnderCast(at) /\ of.out = "value"
         /\ Expected(at) # None
         /\ of.v.ty = CgnType(IF wraps[at] = None THEN ty[LastOf(n)] ELSE Expected(at), arg)
  <2>1. n.kind \in Pairs \cup Targets => ~UnderCast(at)
    <3>1. n.kind = "bin" => ~UnderCast(at)
      BY <1>1, CleanIs
    <3> QED BY <3>1, AssignmentSeen
  <2> QED BY <2>1, <1>2, OperandIs
<1> HIDE DEF o, of
<1>5. CASE n.kind \in {"lit", "ref", "paren", "eval"}
  BY <1>5, LoweringOf DEF o
<1>6. CASE n.kind = "cast"
  <2>1. o = Convert(vals[n.l], ty[n.l], n.t, arg)
    BY <1>6, LoweringOf DEF o
  <2>2. CASE ty[n.l] = None
    <3>1. o = Stops("crash")
      BY <2>1, <2>2 DEF Convert
    <3> QED BY <3>1 DEF Stops, o
  <2>3. CASE ty[n.l] # None
    <3>1. /\ vals[n.l].ty = CgnType(ty[n.l], arg) /\ ty[n.l] \in Types /\ n.t \in Types
          /\ ty[n.l] \notin {None, "T"} /\ n.t \notin {None, "T"}
      BY <2>3, <1>2, <1>3, <1>6 DEF Leafs, NodeType, Made
    <3>2. ~ConversionGap(ty[n.l], n.t) /\ (UnderCast(at) => CanCastTo(ty[n.l], n.t))
      BY <1>6 DEF Gap
    <3>3. CanCastTo(ty[n.l], n.t)
      BY <3>2, <1>1, <1>6 DEF Wrapped
    <3>4. o.out = "value"
      BY <2>1, <3>1, <3>2, <3>3, ConvertFits
    <3> QED BY <3>4 DEF o
  <2> QED BY <2>2, <2>3
<1>7. CASE n.kind = "un"
  <2>1. o = LowerUnary(n.op, vals[n.l], ty[n.l]) /\ n.op \in UnOps
    BY <1>2, <1>7, LoweringOf DEF o, Made
  <2>2. vals[n.l].ty \in MirTypes /\ ty[n.l] \in Types /\ ty[n.l] # "T"
    BY <1>3, <1>7 DEF Leafs
  <2>3. n.op = "neg" => TypeClass(ty[n.l]) \notin {"Unknown", "Pointer"}
    BY <1>7 DEF Gap
  <2>4. CASE n.op \in {"bnot", "lnot"}
    <3> DEFINE v == vals[n.l]
               t == ty[n.l]
    <3>1. LowerUnary("bnot", v, t) = BuildNot(v) /\ BuildNot(v).out = "value"
      BY BuildNegIs DEF LowerUnary
    <3>2. LowerUnary("lnot", v, t).out = "value"
      <4>1. InjectCmp(v).out = "value"
        BY <2>2, InjectCmpIs
      <4> DEFINE c == InjectCmp(v)
                 b == c.v.bits = 0
                 g == Gives(Truth(b), c.ill)
      <4>2. LowerUnary("lnot", v, t) = IF c.out = "value" /\ c.v.known THEN g ELSE c
        BY DEF LowerUnary
      <4>3. g.out = "value"
        BY Zenon DEF Gives
      <4> HIDE DEF c, g
      <4> QED BY <4>1, <4>2, <4>3 DEF c
    <3> QED BY <3>1, <3>2, <2>1, <2>4 DEF o
  <2>5. CASE n.op \in {"neg", "inc", "dec"}
    <3>1. ty[n.l] # None
      <4>1. CASE n.op = "neg"
        BY <4>1, <2>3, NoClass
      <4>2. CASE n.op \in {"inc", "dec"}
        <5>1. nodes[n.l].kind = "ref" /\ n.l \in Under(at) /\ n.l \in 1..Len(nodes)
          BY <4>2, <1>1, <1>2, <1>7, Within DEF Node, Operands, Leafs
        <5>2. Resolved(n.l) /\ (Even(n.l) => Steady(n.l)) /\ Even(at) /\ Made(nodes[n.l])
          BY <5>1, <1>1, <1>2, LoweringTyped, CleanIs, KindOf DEF Node
        <5>3. ty[n.l] = nodes[n.l].t
          BY <5>1, <5>2, <1>1, EvenBelow DEF Steady
        <5> QED BY <5>1, <5>2, <5>3 DEF Made, Leafs
      <4> QED BY <4>1, <4>2, <2>5
    <3>2. vals[n.l].ty = CgnType(ty[n.l], arg)
      BY <3>1, <1>3, <1>7 DEF Leafs
    <3>3. o.out \in {"value", "crash"}
      BY <2>1, <2>2, <2>3, <2>5, <3>1, <3>2, LowerUnaryIs
    <3> QED BY <3>3 DEF o
  <2> QED BY <2>1, <2>4, <2>5 DEF UnOps
<1>8. CASE n.kind = "cond"
  <2>1. o = InjectCmp(vals[n.l]) /\ vals[n.l].ty \in MirTypes
    BY <1>3, <1>8, LoweringOf DEF o, Leafs
  <2>2. o.out = "value"
    BY <2>1, InjectCmpIs
  <2> QED BY <2>2 DEF o
<1>9. CASE n.kind \in Targets
  <2>1. o = Stored(of.v, ty[at])
    BY <1>4, <1>9, LoweringOf DEF o, of
  <2>2. o.out = "value"
    BY <2>1, <1>4, <1>9, StoredFits DEF of
  <2> QED BY <2>2 DEF o
<1>10. CASE n.kind = "case"
  <2>1. of.out = "value" /\ n.kind \in Pairs
    BY <1>4, <1>10 DEF Pairs
  <2>2. o = LowerCase(ty[n.l], vals[n.l], of.v)
    BY <2>1, <1>10, LoweringOf DEF o, of
  <2>3. /\ ty[n.l] \in Types \ {None, "T"} /\ vals[n.l].ty = CgnType(ty[n.l], arg)
        /\ of.v.ty = vals[n.l].ty
    BY <2>1, <1>10, BothOperands DEF of, Loose
  <2>4. TypeClass(ty[n.l]) # "Unknown"
    BY <1>10 DEF Gap
  <2>5. o.out = "value"
    BY <2>2, <2>3, <2>4, LowerCaseIs
  <2> QED BY <2>5 DEF o
<1>11. CASE n.kind = "bin"
  <2>1. of.out = "value" /\ n.op \in BinOps
    BY <1>2, <1>4, <1>11 DEF Pairs, Made
  <2>2. o = LowerBinary(n.op, vals[n.l], of.v, ty[n.l], ty[at])
    BY <2>1, <1>11, LoweringOf DEF o, of
  <2>3. ~OperatorGap(n.op, ty[n.l], ty[n.r])
    BY <1>11 DEF Gap
  <2>4. o.out = "value"
    BY <2>1, <2>2, <2>3, <1>11, BinaryFits DEF of
  <2> QED BY <2>4 DEF o
<1>12. CASE n.kind = "asn"
  <2>1. of.out = "value"
    BY <1>4, <1>12 DEF Pairs
  <2>2. CASE n.op = Nil
    <3>1. o = Stored(of.v, ty[at])
      BY <2>1, <2>2, <1>12, LoweringOf DEF o, of
    <3>2. o.out = "value"
      BY <3>1, <2>1, <2>2, <1>12, StoredFits DEF of
    <3> QED BY <3>2 DEF o
  <2>3. CASE n.op # Nil
    <3> DEFINE sum == LowerBinary(n.op, vals[n.l], of.v, ty[n.l], ty[at])
               st == Stored(sum.v, ty[at])
    <3>1. o = IF sum.out = "value" THEN [st EXCEPT !.ill = @ \/ sum.ill] ELSE sum
      BY <2>1, <2>3, <1>12, LoweringOf DEF o, of
    <3>2. n.op \in BinOps
      BY <2>3, <1>2, <1>12 DEF Made, Compounds
    <3>3. ~OperatorGap(n.op, ty[n.l], ty[n.r])
      BY <1>12 DEF Gap
    <3>4. sum.out = "value"
      BY <3>2, <3>3, <2>1, <1>12, BinaryFits DEF of
    <3>5. ty[at] # None
      <4>1. Seen(at) /\ (Even(at) => Steady(at)) /\ n.kind \in Pairs
        BY <1>12, LoweringTyped DEF Pairs
      <4>2. ty[at] = ty[n.l]
        BY <4>1, <1>1, <1>2, <1>12, CleanIs DEF Steady
      <4>3. ty[n.l] # None
        BY <4>1, <2>1, BothOperands DEF of
      <4> QED BY <4>2, <4>3
    <3>6. st.out = "value"
      BY <3>5, StoredIs
    <3>7. o.out = st.out
      <4> HIDE DEF sum, st
      <4> QED BY <3>1, <3>4
    <3> QED BY <3>6, <3>7 DEF o
  <2> QED BY <2>2, <2>3
<1> QED BY <1>2, <1>5, <1>6, <1>7, <1>8, <1>9, <1>10, <1>11, <1>12, KindsApart

-----------------------------------------------------------------------------
(* The ends of the visits.                                                 *)

\* The values that there are keep what is promised of them however a visit stops.
LEMMA FailsValues ==
    ASSUME Outcome, NEW how \in Verdicts, Fails(how)
    PROVE  Valued' /\ LabelsTrue' /\ WellTyped'
<1>1. UNCHANGED <<family, arg, nodes, open, ty, wraps, at, vals, ill>>
  BY DEF Fails
<1>2. Valued'
  BY <1>1 DEF Outcome, Valued, Tree, Dependent
<1>3. LabelsTrue'
  BY <1>1 DEF Outcome, LabelsTrue, Tree, Dependent, Mislabels, IsOp, Enclosed
<1>4. WellTyped'
  BY <1>1 DEF Outcome, WellTyped, Tree, Causes, Complements, Dependent, Mislabels, Unanalysed, IsOp, Enclosed, UnderCast
<1> QED BY <1>2, <1>3, <1>4

\* What is rejected.
LEMMA RejectStep ==
    ASSUME IInv, Reject
    PROVE  IInv'
<1>1. Fails("rejected") /\ pass = "analyse"
  BY DEF Reject
<1>2. "rejected" \in Verdicts
  BY DEF Verdicts
<1>3. Shape' /\ Progress' /\ Typed'
  BY <1>1, <1>2, FailsKeeps DEF IInv
<1>4. Valued' /\ LabelsTrue' /\ WellTyped'
  BY <1>1, <1>2, FailsValues DEF IInv
<1>5. verdict' = "rejected"
  BY <1>1 DEF Fails
<1>6. NullDeref' /\ AcceptedIsLowered'
  BY <1>5 DEF NullDeref, AcceptedIsLowered
<1> QED BY <1>3, <1>4, <1>6 DEF IInv, Outcome

\* Where no operation is read too early, what the analysis reads has a type.
LEMMA AnalysedKnown ==
    ASSUME Shape, Progress, Typed, pass = "analyse", ~Early, nodes[at].kind # "eval"
    PROVE  /\ \A o \in Under(at) : ty[o] # None
           /\ nodes[at].kind \in Targets => ty[at] # None
<1>1. Len(nodes) \in Nat /\ at \in 1..Len(nodes)
  BY DEF Progress, Shape, Forest
<1>2. \A k \in 1..Len(nodes) : Known(k) /\ Resolved(k) /\ (k < at => Seen(k))
  BY DEF Typed, Resolved, Seen
<1>3. ASSUME NEW o \in Under(at)
      PROVE  ty[o] # None
  <2>1. o \in 1..Len(nodes) /\ o < at /\ nodes[o].kind \notin Roots /\ nodes[o].kind # "asn"
    BY <1>1, Within
  <2>2. nodes[o].kind \in Kinds /\ Known(o) /\ Resolved(o) /\ Seen(o)
    BY <2>1, <1>2, KindOf
  <2> QED BY <2>1, <2>2 DEF Known, Kinds
<1>4. nodes[at].kind \in Targets => ty[at] # None
  BY <1>1, <1>2 DEF Known, Targets
<1> QED BY <1>3, <1>4

\* A nullptr that is followed.
LEMMA CrashStep ==
    ASSUME IInv, Crash
    PROVE  IInv'
<1>1. /\ Fails("crash") /\ pass = "analyse"
      /\ \/ nodes[at].kind \in Pairs \cup Targets /\ Check(at) = "crash"
         \/ nodes[at].kind = "cast" /\ ty[nodes[at].l] = None
  BY DEF Crash, N, L
<1>2. "crash" \in Verdicts
  BY DEF Verdicts
<1>3. Shape /\ Progress /\ Typed /\ Len(nodes) \in Nat /\ at \in 1..Len(nodes)
  BY <1>1 DEF IInv, Progress, Shape, Forest
<1>4. Shape' /\ Progress' /\ Typed'
  BY <1>1, <1>2, <1>3, FailsKeeps
<1>5. Valued' /\ LabelsTrue' /\ WellTyped'
  BY <1>1, <1>2, FailsValues DEF IInv
<1>6. Early
  <2> SUFFICES ASSUME ~Early
               PROVE  FALSE
    OBVIOUS
  <2>1. CASE nodes[at].kind \in Pairs \cup Targets /\ Check(at) = "crash"
    <3>1. nodes[at].kind # "eval"
      BY <2>1 DEF Pairs, Targets
    <3>2. LastOf(nodes[at]) \in Under(at) /\ nodes[at].l \in Under(at)
      BY <1>3, <2>1, Checking
    <3>3. ty[LastOf(nodes[at])] # None /\ ty[nodes[at].l] # None /\ (nodes[at].kind \in Targets => ty[at] # None)
      BY <1>1, <1>3, <3>1, <3>2, AnalysedKnown
    <3>4. Expected(at) # None
      BY <2>1, <3>3 DEF Expected
    <3> QED BY <2>1, <3>3, <3>4 DEF Check, TypeCheck
  <2>2. CASE nodes[at].kind = "cast" /\ ty[nodes[at].l] = None
    <3>1. nodes[at].l \in Under(at)
      BY <1>3, <2>2, KindOf DEF Leafs
    <3> QED BY <1>1, <1>3, <2>2, <3>1, AnalysedKnown
  <2> QED BY <1>1, <2>1, <2>2
<1>7. Early' /\ verdict' = "crash"
  BY <1>1, <1>6, SameTrees DEF Fails
<1>8. NullDeref' /\ AcceptedIsLowered'
  BY <1>7 DEF NullDeref, AcceptedIsLowered, Early
<1> QED BY <1>4, <1>5, <1>8 DEF IInv, Outcome

\* Where the lowering stops.
LEMMA StopStep ==
    ASSUME IInv, Stop
    PROVE  IInv'
<1> DEFINE how == Lowering(at).out
<1>1. Shape /\ Progress /\ Typed /\ Outcome /\ pass = "lower" /\ how # "value" /\ Fails(how)
  BY DEF IInv, Stop
<1>2. at \in 1..Len(nodes) /\ Len(nodes) \in Nat
  BY <1>1, LoweringTyped
<1>3. /\ how \in {"crash", "refused", "asserted"}
      /\ how = "crash" => Early \/ CountsNonNumber(at)
  BY <1>1, LoweredEnds DEF Ends
<1>4. how \in {"refused", "asserted"} =>
         \/ wraps[at] # None /\ ConversionGap(ty[LastOf(nodes[at])], wraps[at])
         \/ Gap(at)
         \/ ~Clean(at)
  BY <1>1, LoweredAccepted
<1> HIDE DEF how
<1>5. how \in Verdicts
  BY <1>3 DEF Verdicts
<1>6. Shape' /\ Progress' /\ Typed'
  BY <1>1, <1>5, FailsKeeps
<1>7. Valued' /\ LabelsTrue' /\ WellTyped'
  BY <1>1, <1>5, FailsValues
<1>8. verdict' = how /\ UNCHANGED <<family, arg, nodes, open, ty, wraps, at, vals, ill>>
  BY <1>1 DEF Fails
<1>9. NullDeref'
  <2>1. Early' <=> Early
    BY <1>8, SameTrees
  <2>2. CountsNonNumber(at)' <=> CountsNonNumber(at)
    BY <1>8 DEF CountsNonNumber
  <2>3. verdict' = "crash" => \E k \in 1..Len(nodes) : (ReadTooEarly(k) \/ CountsNonNumber(k))'
    <3>1. CASE ~Early
      BY <2>2, <3>1, <1>2, <1>3, <1>8
    <3>2. CASE Early
      BY <2>1, <3>2, <1>8 DEF Early
    <3> QED BY <3>1, <3>2
  <2> QED BY <2>3, <1>8 DEF NullDeref
<1>10. AcceptedIsLowered'
  <2>1. verdict' \in {"refused", "asserted"} =>
           \/ wraps[at] # None /\ ConversionGap(ty[LastOf(nodes[at])], wraps[at])
           \/ Gap(at)
           \/ \E j \in Tree(at) : Causes(j)
    BY <1>4, <1>8 DEF Clean
  <2>2. /\ Gap(at)' <=> Gap(at)
        /\ Tree(at)' = Tree(at)
        /\ \A j : Causes(j)' <=> Causes(j)
    BY <1>8 DEF Gap, Tree, Causes, Dependent, Mislabels, Unanalysed, IsOp, Enclosed, UnderCast
  <2> QED BY <2>1, <2>2, <1>8 DEF AcceptedIsLowered, N
<1> QED BY <1>6, <1>7, <1>9, <1>10 DEF IInv, Outcome

\* What the lowering of a node adds.
LEMMA LoweringStep ==
    ASSUME Shape, Progress, Typed, Lower
    PROVE  /\ Len(nodes) \in Nat /\ at \in 1..Len(nodes) /\ pass = "lower" /\ Lowering(at).out = "value"
           /\ \/ at = Len(nodes) /\ at' = 1 /\ pass' = "done" /\ verdict' = "lowered"
              \/ at < Len(nodes) /\ at' = at + 1 /\ pass' = "lower" /\ verdict' = Nil
           /\ Len(vals') = at
           /\ \A k \in 1..at - 1 : vals'[k] = vals[k]
           /\ vals'[at] = Lowering(at).v
           /\ ill \subseteq 1..at - 1
           /\ \A k \in ill' : \/ k \in ill
                              \/ /\ k = at
                                 /\ Lowering(at).ill \/ (nodes[at].kind \in Pairs \cup Targets /\ Operand(at).ill)
           /\ UNCHANGED <<family, arg, nodes, open, ty, wraps>>
<1> DEFINE v == Lowering(at).v
           bad == Lowering(at).ill \/ (nodes[at].kind \in Pairs \cup Targets /\ Operand(at).ill)
<1>1. /\ pass = "lower" /\ Lowering(at).out = "value"
      /\ vals' = Append(vals, v)
      /\ ill' = IF bad THEN ill \cup {at} ELSE ill
      /\ Step("done")
      /\ verdict' = IF at = Len(nodes) THEN "lowered" ELSE Nil
      /\ UNCHANGED <<family, arg, nodes, open, ty, wraps>>
  BY DEF Lower, N, Nil
<1>2. /\ Len(nodes) \in Nat /\ at \in 1..Len(nodes)
      /\ \/ at = Len(nodes) /\ at' = 1 /\ pass' = "done"
         \/ at < Len(nodes) /\ at' = at + 1 /\ pass' = "lower"
  BY <1>1, Stepping
<1>3. Len(vals) = at - 1 /\ ill \subseteq 1..Len(vals)
  BY <1>1 DEF Progress
<1> HIDE DEF v, bad
<1>4. Len(vals) \in Nat
  BY <1>2, <1>3
<1>5. /\ Len(vals') = at
      /\ \A k \in 1..at - 1 : vals'[k] = vals[k]
      /\ vals'[at] = v
  BY <1>1, <1>2, <1>3, <1>4
<1>6. \A k \in ill' : k \in ill \/ (k = at /\ bad)
  BY <1>1
<1> QED BY <1>1, <1>2, <1>3, <1>5, <1>6 DEF v, bad

\* The types are those that they were.
LEMMA LowerTyped ==
    ASSUME Shape, Progress, Typed, Lower
    PROVE  Typed'
<1>1. /\ pass = "lower" /\ pass' \in {"lower", "done"} /\ UNCHANGED <<nodes, ty, wraps>>
  BY LoweringStep
<1>2. CASE pass' = "done"
  BY <1>1, <1>2, FailsTyped
<1>3. CASE pass' = "lower"
  <2>1. ASSUME NEW k
        PROVE  /\ Resolved(k) /\ Resolved(k)' /\ Seen(k) /\ Seen(k)'
               /\ UnderCast(k)' <=> UnderCast(k)
               /\ Enclosed(k)' <=> Enclosed(k)
    BY <1>1, <1>3, SameTree DEF Resolved, Seen
  <2>2. \A k : Raw(k)' <=> Raw(k)
    BY <1>1, <1>3, <2>1 DEF Raw
  <2>3. ASSUME NEW k \in 1..Len(nodes)
        PROVE  /\ Kept(k)' /\ (Known(k) => Known(k)') /\ (Steady(k) => Steady(k)')
               /\ Wrapped(k)' /\ Given(k)'
    <3>1. Kept(k) /\ Wrapped(k) /\ Given(k)
      BY DEF Typed
    <3>2. Kept(k)'
      BY <1>1, <1>3, <2>2, <3>1 DEF Kept
    <3>3. Known(k) => Known(k)'
      BY <1>1, <2>1 DEF Known
    <3>4. Steady(k) => Steady(k)'
      BY <1>1, <1>3, <2>1 DEF Steady
    <3>5. Wrapped(k)'
      <4>1. nodes[k].kind \in Pairs \cup Targets => Check(k)' = Check(k) /\ Expected(k)' = Expected(k)
        BY <1>1, SameCheck
      <4> QED BY <4>1, <1>1, <1>3, <2>1, <3>1 DEF Wrapped
    <3>6. Given(k)'
      BY <1>1, <3>1, SameTrees DEF Given
    <3> QED BY <3>2, <3>3, <3>4, <3>5, <3>6
  <2>4. \A k : Even(k)' <=> Even(k)
    BY <1>1, SameTrees
  <2>5. Early' <=> Early
    BY <1>1, SameTrees
  <2> QED BY <1>1, <2>3, <2>4, <2>5 DEF Typed
<1> QED BY <1>1, <1>2, <1>3

\* The visit of a node, and the end of the last one.
LEMMA LowerStep ==
    ASSUME IInv, Lower
    PROVE  IInv'
<1>1. Shape /\ Progress /\ Typed /\ Outcome
  BY DEF IInv
<1> DEFINE bad == Lowering(at).ill \/ (nodes[at].kind \in Pairs \cup Targets /\ Operand(at).ill)
<1>2. /\ Len(nodes) \in Nat /\ at \in 1..Len(nodes) /\ pass = "lower" /\ Lowering(at).out = "value"
      /\ \/ at = Len(nodes) /\ at' = 1 /\ pass' = "done" /\ verdict' = "lowered"
         \/ at < Len(nodes) /\ at' = at + 1 /\ pass' = "lower" /\ verdict' = Nil
      /\ Len(vals') = at
      /\ \A k \in 1..at - 1 : vals'[k] = vals[k]
      /\ vals'[at] = Lowering(at).v
      /\ ill \subseteq 1..at - 1
      /\ \A k \in ill' : k \in ill \/ (k = at /\ bad)
      /\ UNCHANGED <<family, arg, nodes, open, ty, wraps>>
  BY <1>1, LoweringStep
<1> HIDE DEF bad
<1>11. \A k \in ill' : k \in 1..at
  <2>1. 1..at - 1 \subseteq 1..at /\ at \in 1..at
    <3>1. at \in Nat /\ at > 0
      BY <1>2
    <3> QED BY <3>1
  <2> QED BY <1>2, <2>1
<1>3. Len(vals) = at - 1
  BY <1>1, <1>2 DEF Progress
<1>4. Shape'
  BY <1>1, <1>2, SameShape
<1>5. Typed'
  BY <1>1, LowerTyped
<1>6. Progress'
  <2>1. ill' \subseteq 1..at
    BY <1>11
  <2>2. verdict' \in Verdicts /\ pass' \in Passes
    BY <1>2 DEF Verdicts, Passes, Nil
  <2> QED BY <1>1, <1>2, <2>1, <2>2 DEF Progress
<1>7. NullDeref' /\ AcceptedIsLowered'
  BY <1>2 DEF NullDeref, AcceptedIsLowered, Nil
<1>8. Valued'
  <2> SUFFICES ASSUME NEW k \in 1..at
               PROVE  vals'[k].ty \in MirTypes \/ \E j \in Tree(k) : Dependent(j)
    <3>1. \A k : Tree(k)' = Tree(k) /\ (\A j : Dependent(j)' <=> Dependent(j))
      BY <1>2, SameTree
    <3> QED BY <1>2, <3>1 DEF Valued
  <2>1. CASE k = at
    BY <2>1, <1>1, <1>2, LoweredValued DEF Fixed
  <2>2. CASE k # at
    <3>1. k \in 1..at - 1
      BY <2>2, <1>2
    <3> QED BY <3>1, <1>1, <1>2, <1>3 DEF Outcome, Valued
  <2> QED BY <2>1, <2>2
<1>9. LabelsTrue'
  <2> SUFFICES ASSUME NEW k \in 1..at, nodes[k].kind \notin Roots, ty[k] # None,
                      CgnType(ty[k], arg) # vals'[k].ty
               PROVE  \E j \in Tree(k) : Mislabels(j) \/ (nodes[k].kind = "asn" /\ Dependent(j))
    <3>1. \A k1 : Tree(k1)' = Tree(k1) /\ (Dependent(k1)' <=> Dependent(k1)) /\ (Mislabels(k1)' <=> Mislabels(k1))
      BY <1>2 DEF Tree, Dependent, Mislabels, IsOp, Enclosed
    <3>2. LabelsTrue' <=>
            \A k1 \in 1..at :
               nodes[k1].kind \notin Roots /\ ty[k1] # None /\ CgnType(ty[k1], arg) # vals'[k1].ty
               => \E j \in Tree(k1) : Mislabels(j) \/ (nodes[k1].kind = "asn" /\ Dependent(j))
      BY <1>2, <3>1 DEF LabelsTrue
    <3> QED BY <3>2
  <2>1. CASE k = at
    <3>1. ~(Plain(at) /\ (nodes[at].kind = "asn" => Fixed(at)))
      BY <2>1, <1>1, <1>2, LoweredLabel
    <3> QED BY <3>1, <2>1 DEF Plain, Fixed
  <2>2. CASE k # at
    <3>1. k \in 1..Len(vals) /\ vals'[k] = vals[k]
      BY <2>2, <1>2, <1>3
    <3> QED BY <3>1, <1>1 DEF Outcome, LabelsTrue
  <2> QED BY <2>1, <2>2
<1>10. WellTyped'
  <2>1. \A j : Tree(j)' = Tree(j) /\ (Causes(j)' <=> Causes(j))
    BY <1>2 DEF Tree, Causes, Dependent, Mislabels, Unanalysed, IsOp, Enclosed, UnderCast
  <2>2. ASSUME NEW j \in 1..at
        PROVE  Complements(j)' <=> Complements(j)
    <3>1. j \in 1..Len(nodes)
      BY <1>2
    <3>2. nodes[j].kind = "un" => nodes[j].l \in 1..at - 1
      <4>1. ASSUME nodes[j].kind = "un"
            PROVE  nodes[j].l \in 1..at - 1
        <5>1. nodes[j].l \in 1..j - 1
          BY <3>1, <4>1, <1>1, KindOf, Within DEF Leafs
        <5> QED BY <5>1, <1>2
      <4> QED BY <4>1
    <3> QED BY <3>2, <1>2 DEF Complements
  <2> SUFFICES ASSUME NEW k \in ill'
               PROVE  \E j \in Tree(k) : Causes(j) \/ Complements(j)'
    BY <2>1 DEF WellTyped
  <2>3. k \in 1..at /\ k \in 1..Len(nodes)
    BY <1>2, <1>11
  <2>4. \E j \in Tree(k) : Causes(j) \/ Complements(j)
    <3>1. CASE k \in ill
      BY <3>1, <1>1 DEF Outcome, WellTyped
    <3>2. CASE k = at /\ bad
      <4>1. ~Clean(at) \/ Complements(at)
        BY <3>2, <1>1, <1>2, LoweredWell DEF bad
      <4>2. at \in Tree(at)
        BY <1>1, <1>2, InTree
      <4> QED BY <3>2, <4>1, <4>2 DEF Clean
    <3> QED BY <3>1, <3>2, <1>2
  <2>5. \A j \in Tree(k) : j \in 1..at
    <3>1. nodes[k].lo \in 1..k
      BY <2>3, <1>1, KindOf DEF Node
    <3> QED BY <3>1, <2>3, <1>2 DEF Tree
  <2> QED BY <2>2, <2>4, <2>5
<1> QED BY <1>4, <1>5, <1>6, <1>7, <1>8, <1>9, <1>10 DEF IInv, Outcome

-----------------------------------------------------------------------------
(* The theorems.                                                           *)

\* A statement that is over changes no more.
LEMMA IdleStep ==
    ASSUME IInv, UNCHANGED vars
    PROVE  IInv'
<1>1. UNCHANGED <<family, arg, nodes, open, ty, wraps, pass, at, vals, ill, verdict>>
  BY DEF vars
<1>2. Shape'
  BY <1>1 DEF IInv, Shape, Forest, Node, Operands, Made, Nests, Rooted
<1>3. Progress'
  BY <1>1 DEF IInv, Progress
<1>4. Typed'
  <2>1. \A k : /\ Resolved(k)' <=> Resolved(k)
               /\ Seen(k)' <=> Seen(k)
               /\ UnderCast(k)' <=> UnderCast(k)
               /\ Enclosed(k)' <=> Enclosed(k)
    BY <1>1 DEF Resolved, Seen, UnderCast, Enclosed
  <2>2. \A k : Raw(k)' <=> Raw(k)
    BY <1>1, <2>1 DEF Raw
  <2>3. \A k : Check(k)' = Check(k) /\ Expected(k)' = Expected(k)
    BY <1>1 DEF Check, Expected, LastOf, Loose
  <2>4. \A k : /\ Kept(k)' <=> Kept(k)
               /\ Known(k)' <=> Known(k)
    BY <1>1, <2>1, <2>2 DEF Kept, Known
  <2>5. \A k : Steady(k)' <=> Steady(k)
    BY <1>1, <2>1 DEF Steady
  <2>6. \A k : Wrapped(k)' <=> Wrapped(k)
    BY <1>1, <2>1, <2>3 DEF Wrapped
  <2>7. \A k : (Given(k)' <=> Given(k)) /\ (Even(k)' <=> Even(k)) /\ (Early' <=> Early)
    BY <1>1, SameTrees DEF Given
  <2> QED BY <1>1, <2>4, <2>5, <2>6, <2>7 DEF IInv, Typed
<1>5. Outcome'
  BY <1>1 DEF IInv, Outcome, NullDeref, Valued, LabelsTrue, WellTyped, AcceptedIsLowered, ReadTooEarly,
              CountsNonNumber, Causes, Complements, Gap, Mislabels, Unanalysed, N,
              LastOf, Tree, Dependent, IsOp, Enclosed, UnderCast
<1> QED BY <1>2, <1>3, <1>4, <1>5 DEF IInv

\* The invariant holds of every statement, in every visit.
THEOREM Invariance == Spec => []IInv
<1>1. Init => IInv
  BY InitInv
<1>2. IInv /\ [Next]_vars => IInv'
  <2> SUFFICES ASSUME IInv, [Next]_vars
               PROVE  IInv'
    OBVIOUS
  <2>1. CASE Writes
    BY <2>1, WriteStep
  <2>2. CASE Resolve
    BY <2>2, ResolveStep
  <2>3. CASE Analyse
    BY <2>3, AnalyseStep
  <2>4. CASE Skip
    BY <2>4, SkipStep
  <2>5. CASE Reject
    BY <2>5, RejectStep
  <2>6. CASE Crash
    BY <2>6, CrashStep
  <2>7. CASE Lower
    BY <2>7, LowerStep
  <2>8. CASE Stop
    BY <2>8, StopStep
  <2>9. CASE UNCHANGED vars
    BY <2>9, IdleStep
  <2> QED BY <2>1, <2>2, <2>3, <2>4, <2>5, <2>6, <2>7, <2>8, <2>9 DEF Next, Writes, Over
<1> QED BY <1>1, <1>2, PTL DEF Spec

\* The tree stays one, whatever is written, and every visit stays within it.
THEOREM TypeCorrect == Spec => []TypeOK
<1>1. IInv => TypeOK
  <2> SUFFICES ASSUME IInv
               PROVE  TypeOK
    OBVIOUS
  <2>1. \A k \in 1..Len(nodes) : /\ nodes[k].kind \in Kinds
                                 /\ nodes[k].l \in 0..k - 1 /\ nodes[k].r \in 0..k - 1 /\ nodes[k].lo \in 1..k
    BY KindOf DEF IInv, Node
  <2>2. Len(nodes) \in Nat
    BY DEF IInv, Shape, Forest
  <2>3. at \in 1..Len(nodes) + 1
    BY <2>2 DEF IInv, Progress
  <2>4. ill \subseteq 1..Len(nodes)
    <3>1. ill \subseteq 1..Len(vals) /\ Len(vals) <= Len(nodes)
      BY DEF IInv, Progress
    <3> QED BY <3>1, <2>2
  <2> QED BY <2>1, <2>3, <2>4 DEF IInv, Progress, TypeOK
<1> QED BY <1>1, Invariance, PTL

\* A nullptr is followed only where an operation is read before it has a type,
\* or where ++ or -- is of what is no number or pointer.
THEOREM NullDerefs == Spec => []NullDeref
<1>1. IInv => NullDeref
  BY DEF IInv, Outcome
<1> QED BY <1>1, Invariance, PTL

\* The type by which cgn chooses instructions is that of the value, but for what
\* a visit mislabels and what is assigned to or from a template's parameter.
THEOREM RecordsAreTrue == Spec => []LabelsTrue
<1>1. IInv => LabelsTrue
  BY DEF IInv, Outcome
<1> QED BY <1>1, Invariance, PTL

\* An instruction has operands of its type, but for those, for what the analysis
\* does not go into, and for the ~ of what is no integer.
THEOREM InstructionsFit == Spec => []WellTyped
<1>1. IInv => WellTyped
  BY DEF IInv, Outcome
<1> QED BY <1>1, Invariance, PTL

\* What passes the analysis is lowered, but for the gaps that are named.
THEOREM AcceptedLowers == Spec => []AcceptedIsLowered
<1>1. IInv => AcceptedIsLowered
  BY DEF IInv, Outcome
<1> QED BY <1>1, Invariance, PTL

=============================================================================
