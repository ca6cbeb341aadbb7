---------------------------- MODULE ParserProofs ----------------------------
(***************************************************************************)
(* Why the parser loses nothing on its way back and forth.  Its functions  *)
(* call each other, read ahead and go back, and hand nodes to each other;  *)
(* each of them knows only its own frame.  The proofs follow the call      *)
(* stack: what a frame says when its function runs, and what it says while *)
(* it waits for the one above it.                                          *)
(***************************************************************************)
EXTENDS Parser, FiniteSetTheorems, TLAPS

States == {"start", "open", "sep", "loop", "semi", "operand", "rhs", "nested", "peek",
           "named", "ahead", "got", "wait"}

Frames == [fn : Functions, st : States, i : Nat \ {0}, lo : Nat \ {0}, at : Nat,
           prec : Nat, kids : Seq(Nat \ {0})]

Tags == Functions \cup {"un", "post", "bin", "lit", "access", "mcall"}

NodeSet == [tag : Tags, at : Nat, lo : Nat \ {0}, hi : Nat, kids : Seq(Nat \ {0})]

\* Frame p from the bottom of stack s.
Frm(s, p) == s[Len(s) + 1 - p]

\* The functions that read ahead for parse_ident and parse_use_spec
Ahead == {"typename", "NAMES", "suffix", "bound"}

Deciding(f) == f.fn = "primary" \/ (f.fn = "usespec" /\ f.st \in {"ahead", "named"})

\* f has just been called.
Fresh(f) == \/ f.fn \in {"ref", "stmt"}
            \/ f.fn \in {"primary", "prefix", "leaf"} /\ f.st = "start"
            \/ f.fn = "usespec" /\ f.st = "ahead"
            \/ f.fn = "block" /\ f.st = "open"

Spans(n, d, lo, hi) == d[n].lo = lo /\ d[n].hi = hi

Ordered(f, d) ==
    /\ \A k \in 1 .. Len(f.kids) : f.kids[k] \in 1 .. Len(d) /\ f.lo <= d[f.kids[k]].lo
    /\ \A k \in 2 .. Len(f.kids) : d[f.kids[k - 1]].hi < d[f.kids[k]].lo

Before(f, d, p) == \A k \in 1 .. Len(f.kids) : d[f.kids[k]].hi < p

Childless(f) == f.fn \in Nodeless \/ Fresh(f) \/ Deciding(f)

TargsOnly(f, d) == \A k \in 2 .. Len(f.kids) : d[f.kids[k]].tag = "TARGS"

\* f runs, at token t, the c-th; `last` is the token before.
Ready(f, d, c, t, last) ==
    /\ f.lo <= c /\ Before(f, d, c)
    /\ Fresh(f) => f.lo = c
    /\ Childless(f) => f.kids = <<>>
    /\ f.fn = "block" /\ f.st = "open" => t = "{"
    /\ f.fn = "prefix" /\ f.st # "start" =>
         /\ f.st = "operand" /\ Len(f.kids) = 1
         /\ f.lo < d[f.kids[1]].lo
    /\ f.fn = "postfix" => Len(f.kids) = 1 /\ Spans(f.kids[1], d, f.lo, c - 1)
    /\ f.fn = "leaf" /\ f.st # "start" =>
         /\ f.st = "got" /\ Len(f.kids) = 1
         /\ Spans(f.kids[1], d, f.lo, c - 1)
    /\ f.fn = "binary" =>
         \/ f.st = "loop" /\ Len(f.kids) = 1 /\ Spans(f.kids[1], d, f.lo, c - 1)
         \/ /\ f.st \in {"rhs", "nested"} /\ Len(f.kids) = 2
            /\ Spans(f.kids[1], d, f.lo, f.at - 1) /\ Spans(f.kids[2], d, f.at + 1, c - 1)
    /\ f.fn = "member" =>
         /\ f.kids # <<>>
         /\ f.i <= 9 \/ (f.i = 11 /\ last # ")") => TargsOnly(f, d)
         /\ f.i \in 1 .. 11

\* f waits for a, which it called.
Waits(a, f, d) ==
    /\ f.lo <= a.lo /\ Before(f, d, a.lo)
    /\ ~Fresh(f) /\ f.fn \notin {"bound", "declare"}
    /\ Childless(f) => f.kids = <<>> /\ a.fn \in Ahead /\ f.st # "peek"
    /\ a.fn \in Nodeless =>
          f.fn \in {"primary", "usespec", "NAMES", "typename", "type", "suffix", "var"}
    /\ a.fn \in Nodeless /\ f.fn = "usespec" => f.st = "named"
    /\ f.fn = "prefix" => f.st = "operand" /\ f.kids = <<>> /\ f.lo < a.lo
    /\ f.fn = "postfix" => f.kids = <<>> /\ a.lo = f.lo
    /\ f.fn = "leaf" => f.st = "got" /\ f.kids = <<>> /\ a.lo = f.lo
    /\ f.fn = "binary" =>
         \/ f.st = "loop" /\ f.kids = <<>> /\ a.lo = f.lo
         \/ /\ f.st \in {"rhs", "nested"} /\ Len(f.kids) = 1
            /\ Spans(f.kids[1], d, f.lo, f.at - 1) /\ a.lo = f.at + 1
    /\ f.fn = "member" =>
         /\ f.kids # <<>> /\ f.i \in {6, 10}
         /\ f.i = 6 => TargsOnly(f, d) /\ a.fn = "TARGS"

StackOK(s, d, c, t, last) ==
    /\ s \in Seq(Frames) /\ Len(s) > 0
    /\ \A p \in 1 .. Len(s) :
          /\ Frm(s, p).fn = "unit" <=> p = 1
          /\ Ordered(Frm(s, p), d)
          /\ Deciding(Frm(s, p)) =>
                /\ Frm(s, p).lo <= c
                /\ \A q \in p + 1 .. Len(s) : Frm(s, q).fn \in Ahead
                /\ \A n \in 1 .. Len(d) : d[n].hi < Frm(s, p).lo
    /\ Ready(Frm(s, Len(s)), d, c, t, last)
    /\ \A p \in 1 .. Len(s) - 1 : Waits(Frm(s, p + 1), Frm(s, p), d)

NodeOK(n, d) ==
    /\ d[n].lo <= d[n].hi + 1
    /\ \A k \in 1 .. Len(d[n].kids) :
          /\ d[n].kids[k] \in 1 .. n - 1
          /\ d[n].lo <= d[d[n].kids[k]].lo /\ d[d[n].kids[k]].hi <= d[n].hi
    /\ \A k \in 2 .. Len(d[n].kids) : d[d[n].kids[k - 1]].hi < d[d[n].kids[k]].lo
    /\ d[n].tag = "bin" =>
          /\ Len(d[n].kids) = 2
          /\ Spans(d[n].kids[1], d, d[n].lo, d[n].at - 1)
          /\ Spans(d[n].kids[2], d, d[n].at + 1, d[n].hi)

-----------------------------------------------------------------------------
(* The invariant.                                                          *)

Alphabet == (UNION {l.tokens : l \in Lexicons}) \cup {"eof", "{"}

\* The token before the current one
Last == IF cur = 1 THEN "" ELSE toks[cur - 1]

Reads ==
    /\ lexicon \in Lexicons
    /\ toks \in Seq(Alphabet) /\ cur \in 1 .. Len(toks)
    /\ EndKept
    /\ status \in {"parsing", "parsed", "fatal"}

Grown ==
    /\ nodes \in Seq(NodeSet)
    /\ \A n \in 1 .. Len(nodes) : nodes[n].hi < cur /\ NodeOK(n, nodes)

\* Frames about the first m tokens
FramesOf(m) == {f \in Frames : f.lo <= m /\ f.at <= m}

Within == stack \in Seq(FramesOf(Len(toks)))

Stacked == StackOK(stack, nodes, cur, Token, Last)

PInv == Reads /\ Grown /\ Within /\ Stacked

-----------------------------------------------------------------------------
(* Sequences.                                                              *)

\* The parts of a concatenation.
LEMMA Concat ==
    ASSUME NEW S, NEW fs \in Seq(S), NEW t \in Seq(S)
    PROVE  /\ fs \o t \in Seq(S)
           /\ Len(fs) \in Nat /\ Len(t) \in Nat
           /\ Len(fs \o t) = Len(fs) + Len(t)
           /\ \A j \in 1 .. Len(fs) : (fs \o t)[j] = fs[j]
           /\ \A j \in 1 .. Len(fs \o t) :
                 j > Len(fs) => /\ j - Len(fs) \in 1 .. Len(t)
                                /\ (fs \o t)[j] = t[j - Len(fs)]
OBVIOUS

\* The top, the bottom and the frames of a stack.
LEMMA Ends12 ==
    ASSUME NEW S, NEW s \in Seq(S), Len(s) > 0
    PROVE  /\ Len(s) \in Nat \ {0}
           /\ Head(s) = Frm(s, Len(s)) /\ Head(s) = s[1] /\ Head(s) \in S
           /\ Tail(s) \in Seq(S) /\ Len(Tail(s)) = Len(s) - 1
           /\ \A p \in 1 .. Len(s) - 1 : Frm(Tail(s), p) = Frm(s, p)
           /\ \A p \in 1 .. Len(s) : Frm(s, p) \in S
           /\ \A j \in 1 .. Len(s) : s[j] = Frm(s, Len(s) + 1 - j)
<1> DEFINE c == Len(s)
<1>1. /\ c \in Nat \ {0} /\ Head(s) = s[1] /\ s[1] \in S
      /\ Tail(s) \in Seq(S) /\ Len(Tail(s)) = c - 1
      /\ \A j \in 1 .. c - 1 : Tail(s)[j] = s[j + 1]
      /\ \A j \in 1 .. c : s[j] \in S
  OBVIOUS
<1> HIDE DEF c
<1>2. c + 1 - c = 1 /\ \A j \in 1 .. c : c + 1 - (c + 1 - j) = j
  BY <1>1
<1>3. \A p \in 1 .. c - 1 : Tail(s)[(c - 1) + 1 - p] = s[c + 1 - p]
  <2> TAKE p \in 1 .. c - 1
  <2>1. (c - 1) + 1 - p = c - p /\ c - p \in 1 .. c - 1 /\ (c - p) + 1 = c + 1 - p
    BY <1>1
  <2> QED
    BY <1>1, <2>1
<1>4. \A p \in 1 .. c : s[c + 1 - p] \in S
  BY <1>1
<1> QED
  BY <1>1, <1>2, <1>3, <1>4 DEF Frm, c

\* A stack with other frames in the place of its top.
LEMMA Replaced ==
    ASSUME NEW S, NEW s \in Seq(S), Len(s) > 0, NEW gs \in Seq(S)
    PROVE  /\ gs \o Tail(s) \in Seq(S)
           /\ Len(gs \o Tail(s)) = Len(s) - 1 + Len(gs)
           /\ Len(s) \in Nat \ {0} /\ Len(gs) \in Nat
           /\ \A p \in 1 .. Len(s) - 1 : Frm(gs \o Tail(s), p) = Frm(s, p)
           /\ \A i \in 1 .. Len(gs) : Frm(gs \o Tail(s), Len(s) + Len(gs) - i) = gs[i]
<1> DEFINE t == Tail(s)
           s2 == gs \o t
           c == Len(s)
           m == Len(gs)
<1>1. /\ t \in Seq(S) /\ Len(t) = c - 1 /\ c \in Nat \ {0} /\ m \in Nat
      /\ \A j \in 1 .. c - 1 : t[j] = s[j + 1]
  OBVIOUS
<1> HIDE DEF t
<1>0. t \in Seq(S)
  BY <1>1
<1>2. /\ s2 \in Seq(S) /\ Len(s2) = m + Len(t)
      /\ \A j \in 1 .. m : s2[j] = gs[j]
      /\ \A j \in 1 .. Len(s2) : j > m => s2[j] = t[j - m]
  BY <1>0, Concat
<1>3. Len(s2) = c - 1 + m
  BY <1>1, <1>2
<1> HIDE DEF s2, c, m
<1>4. ASSUME NEW p \in 1 .. c - 1 PROVE s2[Len(s2) + 1 - p] = s[c + 1 - p]
  <2> DEFINE j == m + (c - p)
  <2>1. c - p \in 1 .. c - 1 /\ Len(s2) + 1 - p = j
    BY <1>1, <1>3
  <2>2. j \in 1 .. Len(s2) /\ j > m /\ j - m = c - p
    BY <1>1, <1>3
  <2> HIDE DEF j
  <2>3. s2[j] = t[j - m]
    BY <1>2, <2>2
  <2>4. t[c - p] = s[(c - p) + 1] /\ (c - p) + 1 = c + 1 - p
    BY <1>1, <2>1
  <2> QED
    BY <2>1, <2>2, <2>3, <2>4
<1>5. ASSUME NEW i \in 1 .. m PROVE s2[Len(s2) + 1 - (c + m - i)] = gs[i]
  <2>1. Len(s2) + 1 - (c + m - i) = i
    BY <1>1, <1>3
  <2> QED
    BY <1>2, <2>1
<1> QED
  BY <1>1, <1>2, <1>3, <1>4, <1>5 DEF Frm, s2, c, m, t

\* What a node consists of.
LEMMA NodeFields ==
    ASSUME NEW d \in Seq(NodeSet), NEW n \in 1 .. Len(d)
    PROVE  /\ d[n] \in NodeSet /\ d[n].hi \in Nat /\ d[n].lo \in Nat \ {0}
           /\ d[n].at \in Nat /\ d[n].kids \in Seq(Nat \ {0})
<1>1. d[n] \in NodeSet
  OBVIOUS
<1> QED
  BY <1>1 DEF NodeSet

\* What a frame consists of.
LEMMA FrameFields ==
    ASSUME NEW f \in Frames
    PROVE  /\ f.fn \in Functions /\ f.i \in Nat \ {0} /\ f.lo \in Nat \ {0}
           /\ f.at \in Nat /\ f.kids \in Seq(Nat \ {0}) /\ Len(f.kids) \in Nat
           /\ \A j \in 1 .. Len(f.kids) : f.kids[j] \in Nat \ {0}
<1>1. /\ f.fn \in Functions /\ f.i \in Nat \ {0} /\ f.lo \in Nat \ {0}
      /\ f.at \in Nat /\ f.kids \in Seq(Nat \ {0})
  BY DEF Frames
<1> QED
  BY <1>1

\* f when it has got one more node
Got(f, n) == [f EXCEPT !.kids = Append(@, n)]

\* A frame that got a kid.
LEMMA FrameGot ==
    ASSUME NEW f \in Frames, NEW n \in Nat \ {0}
    PROVE  /\ Got(f, n) \in Frames
           /\ Got(f, n).fn = f.fn /\ Got(f, n).st = f.st /\ Got(f, n).i = f.i
           /\ Got(f, n).lo = f.lo /\ Got(f, n).at = f.at
           /\ Got(f, n).kids = Append(f.kids, n) /\ Got(f, n).kids # <<>>
           /\ Len(Got(f, n).kids) = Len(f.kids) + 1
           /\ Got(f, n).kids[Len(f.kids) + 1] = n
           /\ \A j \in 1 .. Len(f.kids) : Got(f, n).kids[j] = f.kids[j]
<1> DEFINE ks == f.kids
           ms == Append(ks, n)
           g == Got(f, n)
<1>1. ks \in Seq(Nat \ {0})
  BY FrameFields
<1>2. g = [f EXCEPT !.kids = ms]
  BY DEF Got
<1> HIDE DEF ks
<1>3. /\ ms \in Seq(Nat \ {0}) /\ Len(ms) = Len(ks) + 1 /\ ms[Len(ks) + 1] = n
      /\ ms # <<>>
      /\ \A j \in 1 .. Len(ks) : ms[j] = ks[j]
  BY <1>1
<1> HIDE DEF ms, g
<1>4. g \in Frames
  BY <1>2, <1>3 DEF Frames
<1>5. /\ g.fn = f.fn /\ g.st = f.st /\ g.i = f.i /\ g.lo = f.lo /\ g.at = f.at
      /\ g.kids = ms
  BY <1>2 DEF Frames
<1> QED
  BY <1>3, <1>4, <1>5 DEF ms, ks, g

-----------------------------------------------------------------------------
(* What becomes of the stack.                                              *)

Extends(d, e) == Len(d) <= Len(e) /\ \A n \in 1 .. Len(d) : e[n] = d[n]

\* The frames of u up to b are those of s; those above are in order for nodes e
\* and token c, read ahead, wait for each other.
Joins(s, u, b) == \A p \in 1 .. b : Frm(u, p) = Frm(s, p)

Seated(u, b, e, c) ==
    \A p \in b + 1 .. Len(u) :
        /\ Frm(u, p).fn = "unit" <=> p = 1
        /\ Ordered(Frm(u, p), e)
        /\ Deciding(Frm(u, p)) =>
              /\ Frm(u, p).lo <= c
              /\ \A q \in p + 1 .. Len(u) : Frm(u, q).fn \in Ahead
              /\ \A n \in 1 .. Len(e) : e[n].hi < Frm(u, p).lo

Onward(u, b) == \A p \in b + 1 .. Len(u) : Frm(u, p).fn \in Ahead

Linked(u, b, e) ==
    \A p \in 1 .. Len(u) - 1 : p >= b => Waits(Frm(u, p + 1), Frm(u, p), e)

\* What a frame has to be of itself
Sits(f, e, c) ==
    /\ f.fn # "unit"
    /\ Ordered(f, e)
    /\ Deciding(f) => f.lo <= c /\ \A n \in 1 .. Len(e) : e[n].hi < f.lo

\* For the frame below it is the same whether f or g is above.
StandsFor(f, g) ==
    /\ f.lo = g.lo
    /\ f.fn = g.fn \/ (g.fn \notin Nodeless \cup {"TARGS"} /\ f.fn \notin Nodeless)

\* Nodes that are added change nothing for a frame that waits.
LEMMA WaitsOn ==
    ASSUME NEW d \in Seq(NodeSet), NEW e \in Seq(NodeSet), Extends(d, e),
           NEW f \in Frames, NEW a, Ordered(f, d), Waits(a, f, d)
    PROVE  Ordered(f, e) /\ Waits(a, f, e)
<1> DEFINE ks == f.kids
<1>1. ks \in Seq(Nat \ {0}) /\ Len(ks) \in Nat /\ Len(d) \in Nat /\ Len(e) \in Nat
  BY DEF Frames
<1> HIDE DEF ks
<1>2. \A k \in 1 .. Len(ks) : ks[k] \in 1 .. Len(d) /\ ks[k] \in 1 .. Len(e)
                               /\ e[ks[k]] = d[ks[k]]
  BY <1>1 DEF Ordered, Extends, ks
<1>3. Ordered(f, e)
  <2>1. \A k \in 1 .. Len(ks) : ks[k] \in 1 .. Len(e) /\ f.lo <= e[ks[k]].lo
    BY <1>2 DEF Ordered, ks
  <2>2. \A k \in 2 .. Len(ks) : k - 1 \in 1 .. Len(ks) /\ k \in 1 .. Len(ks)
    BY <1>1
  <2>4. \A k \in 2 .. Len(ks) : e[ks[k - 1]].hi < e[ks[k]].lo
    BY <1>2, <2>2 DEF Ordered, ks
  <2> QED
    BY <2>1, <2>4 DEF Ordered, ks
<1>4. Before(f, d, a.lo) => Before(f, e, a.lo)
  BY <1>2 DEF Before, ks
<1>5. TargsOnly(f, d) => TargsOnly(f, e)
  <2>1. \A k \in 2 .. Len(ks) : k \in 1 .. Len(ks)
    BY <1>1
  <2> QED
    BY <1>2, <2>1 DEF TargsOnly, ks
<1>6. Len(ks) = 1 => e[ks[1]] = d[ks[1]]
  <2>1. Len(ks) = 1 => 1 \in 1 .. Len(ks)
    OBVIOUS
  <2> QED
    BY <1>2, <2>1
<1> QED
  BY <1>3, <1>4, <1>5, <1>6 DEF Waits, Spans, ks

\* The frames of u up to b were there before, and waited; if those above have
\* what they need, the whole stack is in order.
LEMMA StackMoves ==
    ASSUME NEW s, NEW d \in Seq(NodeSet), NEW c, NEW t, NEW l,
           StackOK(s, d, c, t, l), c \in Nat,
           NEW b \in 0 .. Len(s) - 1,
           NEW u \in Seq(Frames), b <= Len(u), Len(u) > 0, Joins(s, u, b),
           NEW e \in Seq(NodeSet), Extends(d, e),
           NEW c2 \in Nat, NEW t2, NEW l2,
           Seated(u, b, e, c2),
           Frm(s, Len(s)).fn \in Ahead =>
              c <= c2 /\ e = d /\ b = Len(s) - 1 /\ Onward(u, b),
           Ready(Frm(u, Len(u)), e, c2, t2, l2),
           Linked(u, b, e)
    PROVE  StackOK(u, e, c2, t2, l2)
<1>1. s \in Seq(Frames) /\ Len(s) > 0 /\ Len(s) \in Nat /\ Len(u) \in Nat /\ b \in Nat
  BY DEF StackOK
<1>2. \A p \in 1 .. Len(s) : Frm(s, p) \in Frames
  BY <1>1, Ends12
<1>3. \A p \in 1 .. b : p \in 1 .. Len(s) /\ p \in 1 .. Len(s) - 1 /\ p \in 1 .. Len(u)
  BY <1>1
<1>4. \A p \in 1 .. b : Ordered(Frm(s, p), e)
                        /\ Waits(Frm(s, p + 1), Frm(s, p), e)
  BY <1>2, <1>3, WaitsOn DEF StackOK
<1>5. ASSUME NEW p \in 1 .. b
      PROVE  /\ Frm(u, p).fn = "unit" <=> p = 1
             /\ Ordered(Frm(u, p), e)
             /\ Deciding(Frm(u, p)) =>
                    /\ Frm(u, p).lo <= c2
                    /\ \A q \in p + 1 .. Len(u) : Frm(u, q).fn \in Ahead
                    /\ \A n \in 1 .. Len(e) : e[n].hi < Frm(u, p).lo
  <2>1. Frm(u, p) = Frm(s, p) /\ p \in 1 .. Len(s) /\ p \in 1 .. Len(s) - 1
    BY <1>3 DEF Joins
  <2>2. (Frm(s, p).fn = "unit" <=> p = 1) /\ Ordered(Frm(s, p), e)
    BY <1>4, <2>1 DEF StackOK
  <2>3. ASSUME Deciding(Frm(s, p))
        PROVE  /\ Frm(s, p).lo <= c2
               /\ \A q \in p + 1 .. Len(u) : Frm(u, q).fn \in Ahead
               /\ \A n \in 1 .. Len(e) : e[n].hi < Frm(s, p).lo
    <3>1. /\ Frm(s, p).lo <= c
          /\ \A q \in p + 1 .. Len(s) : Frm(s, q).fn \in Ahead
          /\ \A n \in 1 .. Len(d) : d[n].hi < Frm(s, p).lo
      BY <2>1, <2>3 DEF StackOK
    <3>2. Len(s) \in p + 1 .. Len(s)
      BY <1>1, <2>1
    <3>3. c <= c2 /\ e = d /\ b = Len(s) - 1
          /\ \A q \in b + 1 .. Len(u) : Frm(u, q).fn \in Ahead
      BY <3>1, <3>2 DEF Onward
    <3>4. ASSUME NEW q \in p + 1 .. Len(u) PROVE Frm(u, q).fn \in Ahead
      <4>1. q \in b + 1 .. Len(u) \/ (q \in 1 .. b /\ q \in p + 1 .. Len(s))
        BY <1>1, <3>3
      <4> QED
        BY <3>1, <3>3, <4>1 DEF Joins, Onward
    <3>5. Frm(s, p).lo \in Nat
      BY <1>2, <2>1 DEF Frames
    <3>6. Frm(s, p).lo <= c2
      BY <3>1, <3>3, <3>5
    <3> QED
      BY <3>1, <3>3, <3>4, <3>6
  <2> QED
    BY <2>1, <2>2, <2>3
<1>6. ASSUME NEW p \in 1 .. Len(u) - 1 PROVE Waits(Frm(u, p + 1), Frm(u, p), e)
  <2>1. CASE p >= b
    BY <2>1 DEF Linked
  <2>2. CASE p < b
    <3>1. p \in 1 .. b /\ p + 1 \in 1 .. b
      BY <1>1, <2>2
    <3> QED
      BY <1>4, <3>1 DEF Joins
  <2> QED
    BY <1>1, <2>1, <2>2
<1>7. \A p \in 1 .. Len(u) : p \in 1 .. b \/ p \in b + 1 .. Len(u)
  BY <1>1
<1> QED
  BY <1>5, <1>6, <1>7 DEF StackOK, Seated

\* Frames gs in the place of the top, of which the last stands where it stood.
LEMMA StackGrows ==
    ASSUME NEW s, NEW d \in Seq(NodeSet), NEW c \in Nat, NEW t, NEW l,
           StackOK(s, d, c, t, l), Head(s).fn # "unit",
           NEW e \in Seq(NodeSet), Extends(d, e), NEW c2 \in Nat, NEW t2, NEW l2,
           NEW gs \in Seq(Frames), Len(gs) > 0,
           \A i \in 1 .. Len(gs) : Sits(gs[i], e, c2),
           \A i \in 2 .. Len(gs) : Waits(gs[i - 1], gs[i], e),
           \A i \in 1 .. Len(gs) : Deciding(gs[i]) =>
              \A j \in 1 .. i - 1 : gs[j].fn \in Ahead,
           Head(s).fn \in Ahead =>
              /\ c <= c2 /\ e = d
              /\ \A i \in 1 .. Len(gs) : gs[i].fn \in Ahead,
           Ready(gs[1], e, c2, t2, l2),
           StandsFor(gs[Len(gs)], Head(s))
    PROVE  StackOK(gs \o Tail(s), e, c2, t2, l2)
<1> DEFINE u == gs \o Tail(s)
           k == Len(s)
           m == Len(gs)
           F(p) == Frm(u, p)
           G(p) == Frm(s, p)
<1>1. s \in Seq(Frames) /\ Len(s) > 0
  BY DEF StackOK
<1>2. /\ u \in Seq(Frames) /\ Len(u) = k - 1 + m
      /\ k \in Nat \ {0} /\ m \in Nat
      /\ \A p \in 1 .. k - 1 : F(p) = G(p)
      /\ \A i \in 1 .. m : F(k + m - i) = gs[i]
  BY <1>1, Replaced
<1>3. Head(s) = G(k) /\ Head(s) \in Frames
  BY <1>1, Ends12
<1>4. k # 1
  <2>1. k \in 1 .. k
    BY <1>2
  <2>2. G(k).fn = "unit" <=> k = 1
    BY <2>1 DEF StackOK
  <2> QED
    BY <1>3, <2>2
<1>5. \A p \in 1 .. k : (p \in 1 .. k - 1 => Waits(G(p + 1), G(p), d)) /\ Ordered(G(p), d)
                        /\ G(p) \in Frames
  BY <1>1, <1>2, Ends12 DEF StackOK
<1> HIDE DEF u, k, m, F, G
<1>0. k \in Nat /\ k > 1 /\ m \in Nat /\ m > 0 /\ Len(u) = k - 1 + m
  BY <1>2, <1>4 DEF m
<1>6. k - 1 \in 1 .. k - 1 /\ k - 1 \in 1 .. k /\ (k - 1) + 1 = k
  BY <1>0
<1>7. Waits(Head(s), G(k - 1), d) /\ Ordered(G(k - 1), d) /\ G(k - 1) \in Frames
  BY <1>3, <1>5, <1>6
<1>8. Waits(Head(s), G(k - 1), e)
  BY <1>7, WaitsOn
<1>9. Waits(gs[m], G(k - 1), e)
  BY <1>8 DEF Waits, StandsFor, Ahead, Nodeless, m
<1>10. ASSUME NEW p \in k .. Len(u)
       PROVE  /\ k + m - p \in 1 .. m /\ F(p) = gs[k + m - p] /\ p # 1
              /\ \A q \in p + 1 .. Len(u) : /\ k + m - q \in 1 .. (k + m - p) - 1
                                            /\ F(q) = gs[k + m - q]
  <2>0. p \in Int /\ k <= p /\ p <= k - 1 + m
    BY <1>0
  <2>1. k + m - p \in 1 .. m /\ k + m - (k + m - p) = p /\ p # 1
    BY <1>0, <2>0
  <2>2. \A q \in p + 1 .. Len(u) : /\ k + m - q \in 1 .. (k + m - p) - 1
                                   /\ k + m - q \in 1 .. m
                                   /\ k + m - (k + m - q) = q
    BY <1>0
  <2>3. F(p) = gs[k + m - p]
    BY <1>2, <2>1
  <2>4. \A q \in p + 1 .. Len(u) : F(q) = gs[k + m - q]
    BY <1>2, <2>2
  <2> QED
    BY <2>1, <2>2, <2>3, <2>4
<1>11. \A p \in (k - 1) + 1 .. Len(u) :
              /\ F(p).fn = "unit" <=> p = 1
              /\ Ordered(F(p), e)
              /\ Deciding(F(p)) =>
                    /\ F(p).lo <= c2
                    /\ \A q \in p + 1 .. Len(u) : F(q).fn \in Ahead
                    /\ \A n \in 1 .. Len(e) : e[n].hi < F(p).lo
  <2> TAKE p \in (k - 1) + 1 .. Len(u)
  <2>1. p \in k .. Len(u)
    BY <1>2
  <2>2. F(p) = gs[k + m - p] /\ k + m - p \in 1 .. m /\ p # 1
    BY <1>10, <2>1
  <2>3. Deciding(F(p)) => \A q \in p + 1 .. Len(u) : F(q).fn \in Ahead
    BY <1>10, <2>1, <2>2 DEF m
  <2> QED
    BY <2>2, <2>3 DEF m, Sits
<1>12. ASSUME Head(s).fn \in Ahead, NEW p \in (k - 1) + 1 .. Len(u)
       PROVE  F(p).fn \in Ahead
  <2>1. p \in k .. Len(u)
    BY <1>2
  <2> QED
    BY <1>10, <1>12, <2>1 DEF m
<1>13. F(Len(u)) = gs[1]
  <2>1. 1 \in 1 .. m /\ k + m - 1 = Len(u)
    BY <1>2 DEF m
  <2> QED
    BY <1>2, <2>1
<1>14. ASSUME NEW p \in 1 .. Len(u) - 1, p >= k - 1
       PROVE  Waits(F(p + 1), F(p), e)
  <2>1. CASE p = k - 1
    <3>1. p + 1 = k + m - m /\ m \in 1 .. m /\ p \in 1 .. k - 1
      BY <1>0, <2>1
    <3>2. F(p + 1) = gs[m] /\ F(p) = G(k - 1)
      BY <1>2, <2>1, <3>1
    <3> QED
      BY <1>9, <3>2
  <2>2. CASE p >= k
    <3>1. p \in k .. Len(u) /\ p + 1 \in k .. Len(u)
      BY <1>0, <2>2
    <3>2. /\ F(p) = gs[k + m - p] /\ k + m - p \in 1 .. m
          /\ F(p + 1) = gs[k + m - (p + 1)] /\ k + m - (p + 1) \in 1 .. m
      BY <1>10, <3>1
    <3>3. k + m - (p + 1) = (k + m - p) - 1 /\ k + m - p \in 2 .. m
      BY <1>2, <2>2, <3>2
    <3> QED
      BY <3>2, <3>3 DEF m
  <2> QED
    BY <1>2, <1>14, <2>1, <2>2
<1>15. /\ k - 1 \in 0 .. Len(s) - 1 /\ k - 1 <= Len(u) /\ Len(u) > 0
       /\ k - 1 = Len(s) - 1
  BY <1>0 DEF k
<1>16. \A p \in 1 .. k - 1 : F(p) = G(p)
  BY <1>2
<1>17. Frm(s, Len(s)) = Head(s)
  BY <1>3 DEF k, G
<1> DEFINE b == k - 1
<1>18. /\ b \in 0 .. Len(s) - 1 /\ b <= Len(u) /\ Len(u) > 0 /\ b = Len(s) - 1
       /\ u \in Seq(Frames)
  BY <1>2, <1>15
<1>19. Joins(s, u, b)
  BY <1>16 DEF F, G, Joins
<1>20. Seated(u, b, e, c2)
  BY <1>11 DEF F, Seated
<1>21. Frm(s, Len(s)).fn \in Ahead =>
           c <= c2 /\ e = d /\ b = Len(s) - 1 /\ Onward(u, b)
  BY <1>12, <1>17, <1>18 DEF F, Onward
<1>22. Ready(Frm(u, Len(u)), e, c2, t2, l2)
  BY <1>13 DEF F
<1>23. Linked(u, b, e)
  BY <1>14 DEF F, Linked
<1> HIDE DEF b
<1>24. StackOK(u, e, c2, t2, l2)
  BY <1>18, <1>19, <1>20, <1>21, <1>22, <1>23, StackMoves
<1> QED
  BY <1>24 DEF u

\* A function that has no node to return leaves the stack as it found it.
LEMMA StackDrops ==
    ASSUME NEW s, NEW d \in Seq(NodeSet), NEW c \in Nat, NEW t, NEW l,
           StackOK(s, d, c, t, l), Head(s).fn \in Nodeless, NEW t2, NEW l2
    PROVE  StackOK(Tail(s), d, c, t2, l2)
<1> DEFINE u == Tail(s)
           k == Len(s)
           a == Head(s)
           f == Frm(s, k - 1)
<1>1. s \in Seq(Frames) /\ Len(s) > 0
  BY DEF StackOK
<1>2. /\ u \in Seq(Frames) /\ Len(u) = k - 1 /\ k \in Nat \ {0}
      /\ \A p \in 1 .. k - 1 : Frm(u, p) = Frm(s, p)
      /\ a = Frm(s, k) /\ a \in Frames
      /\ \A p \in 1 .. k : Frm(s, p) \in Frames
  BY <1>1, Ends12
<1>3. k # 1
  <2>1. a.fn # "unit"
    BY DEF Nodeless
  <2>2. k \in 1 .. k
    BY <1>2
  <2>3. Frm(s, k).fn = "unit" <=> k = 1
    BY <2>2 DEF StackOK
  <2> QED
    BY <1>2, <2>1, <2>3
<1>4. k - 1 \in 1 .. k - 1 /\ k - 1 \in 1 .. k /\ (k - 1) + 1 = k
  BY <1>2, <1>3
<1>5. f \in Frames /\ Waits(a, f, d) /\ Ordered(f, d) /\ Ready(a, d, c, t, l)
  BY <1>2, <1>4 DEF StackOK
<1>6. Ready(f, d, c, t2, l2)
  <2>1. a.lo <= c /\ a.lo \in Nat /\ f.lo \in Nat
    BY <1>2, <1>5 DEF Ready, Frames
  <2>2. f.lo <= c
    BY <1>5, <2>1 DEF Waits
  <2>3. Before(f, d, c)
    <3>1. \A j \in 1 .. Len(f.kids) : d[f.kids[j]].hi \in Nat
      BY <1>5, NodeFields DEF Ordered
    <3> QED
      BY <1>5, <2>1, <3>1 DEF Waits, Before
  <2>4. /\ f.fn \in {"primary", "usespec", "NAMES", "typename", "type", "suffix", "var"}
        /\ ~Fresh(f) /\ (Childless(f) => f.kids = <<>>)
    BY <1>5 DEF Waits
  <2> QED
    BY <2>2, <2>3, <2>4 DEF Ready
<1> HIDE DEF u, k, f, a
<1>7. /\ k - 1 \in 0 .. Len(s) - 1 /\ k - 1 <= Len(u) /\ Len(u) > 0
      /\ k - 1 = Len(s) - 1 /\ Len(u) = k - 1 /\ k - 1 \in Nat
  BY <1>2, <1>3 DEF k
<1>8. Joins(s, u, k - 1)
  BY <1>2 DEF Joins
<1>9. Seated(u, k - 1, d, c) /\ Onward(u, k - 1) /\ Linked(u, k - 1, d)
  BY <1>7 DEF Seated, Onward, Linked
<1>10. Ready(Frm(u, Len(u)), d, c, t2, l2)
  BY <1>2, <1>4, <1>6, <1>7 DEF f
<1>11. Extends(d, d) /\ c <= c
  BY DEF Extends
<1>12. StackOK(u, d, c, t2, l2)
  BY <1>2, <1>7, <1>8, <1>9, <1>10, <1>11, StackMoves
<1> QED
  BY <1>12 DEF u

\* A node that is returned goes to the function below, which continues after it.
LEMMA StackGives ==
    ASSUME NEW s, NEW d \in Seq(NodeSet), NEW c \in Nat, NEW t, NEW l,
           StackOK(s, d, c, t, l), Head(s).fn \notin Nodeless \cup {"unit"},
           NEW e \in Seq(NodeSet), Extends(d, e), NEW c2 \in Nat, c <= c2, NEW t2, NEW l2,
           NEW n \in 1 .. Len(e), e[n].lo = Head(s).lo, e[n].hi = c2 - 1,
           Head(s).fn = "TARGS" => e[n].tag = "TARGS"
    PROVE  StackOK(Deliver(Tail(s), n), e, c2, t2, l2)
<1> DEFINE v == Tail(s)
           k == Len(s)
           a == Head(s)
           f == Frm(s, k - 1)
           g == [f EXCEPT !.kids = Append(@, n)]
           u == <<g>> \o Tail(v)
<1>1. s \in Seq(Frames) /\ Len(s) > 0
  BY DEF StackOK
<1>2. /\ v \in Seq(Frames) /\ Len(v) = k - 1 /\ k \in Nat \ {0}
      /\ \A p \in 1 .. k - 1 : Frm(v, p) = Frm(s, p)
      /\ a = Frm(s, k) /\ a \in Frames
      /\ \A p \in 1 .. k : Frm(s, p) \in Frames
  BY <1>1, Ends12
<1>3. k # 1
  <2>1. k \in 1 .. k
    BY <1>2
  <2>2. Frm(s, k).fn = "unit" <=> k = 1
    BY <2>1 DEF StackOK
  <2> QED
    BY <1>2, <2>2
<1>4. k - 1 \in 1 .. k - 1 /\ k - 1 \in 1 .. k /\ (k - 1) + 1 = k
  BY <1>2, <1>3
<1>5. f \in Frames /\ Waits(a, f, d) /\ Ordered(f, d) /\ Ready(a, d, c, t, l)
  BY <1>2, <1>4 DEF StackOK
<1>6. f.fn = "unit" <=> k - 1 = 1
  BY <1>4 DEF StackOK
<1>7. Waits(a, f, e) /\ Ordered(f, e)
  BY <1>5, WaitsOn
<1>8. /\ f.kids \in Seq(Nat \ {0}) /\ Len(f.kids) \in Nat /\ Len(e) \in Nat
      /\ n \in Nat \ {0} /\ g \in Frames
      /\ g.fn = f.fn /\ g.st = f.st /\ g.i = f.i /\ g.lo = f.lo /\ g.at = f.at
      /\ g.kids # <<>>
      /\ Len(g.kids) = Len(f.kids) + 1 /\ g.kids[Len(f.kids) + 1] = n
      /\ \A j \in 1 .. Len(f.kids) : g.kids[j] = f.kids[j]
  <2>1. n \in Nat \ {0} /\ Len(e) \in Nat
    OBVIOUS
  <2>2. f \in Frames
    BY <1>5
  <2> HIDE DEF f, a, k, u
  <2>3. f.kids \in Seq(Nat \ {0}) /\ Len(f.kids) \in Nat
    BY <2>2, FrameFields
  <2>4. /\ g \in Frames
        /\ g.fn = f.fn /\ g.st = f.st /\ g.i = f.i /\ g.lo = f.lo /\ g.at = f.at
        /\ g.kids # <<>>
        /\ Len(g.kids) = Len(f.kids) + 1 /\ g.kids[Len(f.kids) + 1] = n
        /\ \A j \in 1 .. Len(f.kids) : g.kids[j] = f.kids[j]
    <3>1. g = Got(f, n)
      BY DEF Got
    <3> HIDE DEF g
    <3>2. n \in Nat \ {0}
      BY <2>1
    <3>3. /\ Got(f, n) \in Frames
          /\ Got(f, n).fn = f.fn /\ Got(f, n).st = f.st /\ Got(f, n).i = f.i
          /\ Got(f, n).lo = f.lo /\ Got(f, n).at = f.at /\ Got(f, n).kids # <<>>
          /\ Len(Got(f, n).kids) = Len(f.kids) + 1
          /\ Got(f, n).kids[Len(f.kids) + 1] = n
          /\ \A j \in 1 .. Len(f.kids) : Got(f, n).kids[j] = f.kids[j]
      BY ONLY <2>2, <3>2, FrameGot
    <3> QED
      BY <3>1, <3>3
  <2> QED
    BY <2>1, <2>3, <2>4
<1>10. a.lo <= c /\ a.lo \in Nat /\ f.lo \in Nat /\ f.lo <= a.lo
  BY <1>2, <1>5 DEF Ready, Waits, Frames
<1>11. \A j \in 1 .. Len(f.kids) : e[f.kids[j]].hi \in Nat /\ e[f.kids[j]].hi < a.lo
                                    /\ f.kids[j] \in 1 .. Len(e)
  BY <1>7, NodeFields DEF Ordered, Waits, Before
<1>12. ~Childless(f) /\ ~Deciding(f) /\ ~Fresh(f)
  BY <1>5 DEF Waits, Ahead, Nodeless, Childless
<1> DEFINE ks == f.kids
           ms == g.kids
<1>13. /\ Len(ks) \in Nat /\ Len(ms) = Len(ks) + 1 /\ ms[Len(ks) + 1] = n
       /\ \A j \in 1 .. Len(ks) : /\ ms[j] = ks[j] /\ e[ks[j]].hi \in Nat
                                  /\ e[ks[j]].hi < a.lo /\ ks[j] \in 1 .. Len(e)
  BY <1>8, <1>11
<1> HIDE DEF ks, ms, a, f, g, u, v, k
<1>14. \A j \in 1 .. Len(ms) : j \in 1 .. Len(ks) \/ j = Len(ks) + 1
  BY <1>13
<1>15. Ordered(g, e)
  <2>1. \A j \in 1 .. Len(ms) : ms[j] \in 1 .. Len(e) /\ f.lo <= e[ms[j]].lo
    <3>1. \A j \in 1 .. Len(ks) : f.lo <= e[ks[j]].lo
      BY <1>7 DEF Ordered, ks
    <3>2. f.lo <= e[n].lo
      BY <1>10 DEF a
    <3> QED
      BY <1>13, <1>14, <3>1, <3>2
  <2>2. ASSUME NEW j \in 2 .. Len(ms) PROVE e[ms[j - 1]].hi < e[ms[j]].lo
    <3>1. CASE j = Len(ks) + 1
      <4>1. j - 1 \in 1 .. Len(ks)
        BY <1>13, <3>1
      <4> QED
        BY <1>13, <3>1, <4>1 DEF a
    <3>2. CASE j \in 1 .. Len(ks)
      <4>1. j - 1 \in 1 .. Len(ks) /\ j \in 2 .. Len(ks)
        BY <1>13, <3>2
      <4>2. e[ks[j - 1]].hi < e[ks[j]].lo
        BY <1>7, <4>1 DEF Ordered, ks
      <4> QED
        BY <1>13, <3>2, <4>1, <4>2
    <3> QED
      BY <1>13, <3>1, <3>2
  <2> QED
    BY <1>8, <2>1, <2>2 DEF Ordered, ms
<1>16. Ready(g, e, c2, t2, l2)
  <2>1. g.lo <= c2
    BY <1>8, <1>10
  <2>2. Before(g, e, c2)
    <3>1. ASSUME NEW j \in 1 .. Len(ms) PROVE e[ms[j]].hi < c2
      <4>1. CASE j = Len(ks) + 1
        BY <1>13, <4>1
      <4>2. CASE j \in 1 .. Len(ks)
        <5>1. e[ms[j]].hi \in Nat /\ e[ms[j]].hi < a.lo
          BY <1>13, <4>2
        <5> QED
          BY <1>10, <5>1
      <4> QED
        BY <1>14, <4>1, <4>2
    <3> QED
      BY <3>1 DEF Before, ms
  <2>3. ~Fresh(g) /\ ~Childless(g)
    BY <1>8, <1>12 DEF Fresh, Childless, Deciding
  <2>4. g.fn = "block" => g.st # "open"
    BY <1>8, <1>12 DEF Fresh
  <2>5. g.fn = "prefix" => /\ g.st = "operand" /\ Len(g.kids) = 1
                           /\ g.lo < e[g.kids[1]].lo
    <3>1. ASSUME g.fn = "prefix"
          PROVE  f.st = "operand" /\ Len(ks) = 0 /\ f.lo < a.lo
      BY <1>7, <1>8, <3>1 DEF Waits, ks
    <3> QED
      BY <1>8, <1>13, <3>1 DEF ms, a
  <2>6. g.fn \in {"postfix", "leaf"} =>
           Len(g.kids) = 1 /\ Spans(g.kids[1], e, g.lo, c2 - 1)
    <3>1. ASSUME g.fn \in {"postfix", "leaf"}
          PROVE  Len(ks) = 0 /\ a.lo = f.lo
      BY <1>7, <1>8, <3>1 DEF Waits, ks
    <3> QED
      BY <1>8, <1>13, <3>1 DEF ms, a, Spans
  <2>7. g.fn = "leaf" => g.st = "got"
    BY <1>7, <1>8 DEF Waits
  <2>8. ASSUME g.fn = "binary"
        PROVE  \/ g.st = "loop" /\ Len(g.kids) = 1 /\ Spans(g.kids[1], e, g.lo, c2 - 1)
               \/ /\ g.st \in {"rhs", "nested"} /\ Len(g.kids) = 2
                  /\ Spans(g.kids[1], e, g.lo, g.at - 1)
                  /\ Spans(g.kids[2], e, g.at + 1, c2 - 1)
    <3>1. \/ f.st = "loop" /\ Len(ks) = 0 /\ a.lo = f.lo
          \/ /\ f.st \in {"rhs", "nested"} /\ Len(ks) = 1
             /\ Spans(ks[1], e, f.lo, f.at - 1) /\ a.lo = f.at + 1
      BY <1>7, <1>8, <2>8 DEF Waits, ks
    <3>2. CASE f.st = "loop" /\ Len(ks) = 0 /\ a.lo = f.lo
      <4>1. Len(ms) = 1 /\ ms[1] = n
        BY <1>13, <3>2
      <4>2. g.st = "loop" /\ Spans(ms[1], e, g.lo, c2 - 1)
        BY <1>8, <3>2, <4>1 DEF Spans, a
      <4> QED
        BY <4>1, <4>2 DEF ms
    <3>3. CASE /\ f.st \in {"rhs", "nested"} /\ Len(ks) = 1
               /\ Spans(ks[1], e, f.lo, f.at - 1) /\ a.lo = f.at + 1
      <4>1. Len(ms) = 2 /\ ms[2] = n /\ ms[1] = ks[1]
        BY <1>13, <3>3
      <4>2. /\ g.st \in {"rhs", "nested"} /\ Spans(ms[1], e, g.lo, g.at - 1)
            /\ Spans(ms[2], e, g.at + 1, c2 - 1)
        BY <1>8, <3>3, <4>1 DEF Spans, a
      <4> QED
        BY <4>1, <4>2 DEF ms
    <3> QED
      BY <3>1, <3>2, <3>3
  <2>9. ASSUME g.fn = "member"
        PROVE  /\ g.kids # <<>>
               /\ g.i <= 9 \/ (g.i = 11 /\ l2 # ")") => TargsOnly(g, e)
               /\ g.i \in 1 .. 11
    <3>1. f.i \in {6, 10} /\ (f.i = 6 => TargsOnly(f, e) /\ a.fn = "TARGS")
      BY <1>7, <1>8, <2>9 DEF Waits
    <3>2. f.i = 6 => \A j \in 2 .. Len(ms) : e[ms[j]].tag = "TARGS"
      <4>1. SUFFICES ASSUME f.i = 6, NEW j \in 2 .. Len(ms) PROVE e[ms[j]].tag = "TARGS"
        OBVIOUS
      <4>2. CASE j = Len(ks) + 1
        BY <1>13, <3>1, <4>1, <4>2 DEF a
      <4>3. CASE j \in 1 .. Len(ks)
        <5>1. j \in 2 .. Len(ks)
          BY <1>13, <4>3
        <5>2. e[ks[j]].tag = "TARGS"
          BY <3>1, <4>1, <5>1 DEF TargsOnly, ks
        <5> QED
          BY <1>13, <4>3, <5>2
      <4> QED
        BY <1>13, <4>2, <4>3
    <3>3. g.kids # <<>>
      BY <1>8
    <3>4. g.i = f.i
      BY <1>8
    <3>5. f.i = 6 => TargsOnly(g, e)
      BY <3>2 DEF TargsOnly, ms
    <3> QED
      BY <3>1, <3>3, <3>4, <3>5
  <2> QED
    BY <2>1, <2>2, <2>3, <2>4, <2>5, <2>6, <2>7, <2>8, <2>9 DEF Ready
<1>17. <<g>> \in Seq(Frames) /\ Len(<<g>>) = 1 /\ <<g>>[1] = g
  BY <1>8
<1>18. v \in Seq(Frames) /\ Len(v) > 0 /\ Len(v) = k - 1
  BY <1>2, <1>3
<1> DEFINE gg == <<g>>
<1>19. /\ u \in Seq(Frames) /\ Len(u) = Len(v) - 1 + Len(gg)
       /\ \A p \in 1 .. Len(v) - 1 : Frm(u, p) = Frm(v, p)
       /\ \A i \in 1 .. Len(gg) : Frm(u, Len(v) + Len(gg) - i) = gg[i]
  <2>1. u = gg \o Tail(v) /\ gg \in Seq(Frames)
    BY <1>17 DEF u
  <2> HIDE DEF gg
  <2>2. v \in Seq(Frames) /\ Len(v) > 0
    BY <1>18
  <2>3. /\ gg \o Tail(v) \in Seq(Frames)
        /\ Len(gg \o Tail(v)) = Len(v) - 1 + Len(gg)
        /\ \A p \in 1 .. Len(v) - 1 : Frm(gg \o Tail(v), p) = Frm(v, p)
        /\ \A i \in 1 .. Len(gg) :
              Frm(gg \o Tail(v), Len(v) + Len(gg) - i) = gg[i]
    BY <2>1, <2>2, Replaced
  <2> QED
    BY <2>1, <2>3
<1>20. /\ Len(u) = k - 1 /\ Frm(u, k - 1) = g
       /\ \A p \in 1 .. k - 2 : Frm(u, p) = Frm(s, p)
  <2>1. Len(u) = k - 1
    BY <1>2, <1>17, <1>18, <1>19
  <2>2. Frm(u, Len(v) + 1 - 1) = g
    BY <1>17, <1>19
  <2>3. Len(v) + 1 - 1 = k - 1 /\ Len(v) - 1 = k - 2
    BY <1>2, <1>18
  <2>4. \A p \in 1 .. k - 2 : p \in 1 .. k - 1
    BY <1>2
  <2> QED
    BY <1>2, <1>19, <2>1, <2>2, <2>3, <2>4
<1>21. /\ k - 2 \in 0 .. Len(s) - 1 /\ k - 2 <= Len(u) /\ Len(u) > 0
       /\ k - 2 \in Nat /\ k \in Nat
  BY <1>2, <1>3, <1>20 DEF k
<1>22. Joins(s, u, k - 2)
  BY <1>20 DEF Joins
<1>23. Seated(u, k - 2, e, c2)
  <2>1. \A p \in (k - 2) + 1 .. Len(u) : p = k - 1
    BY <1>20, <1>21
  <2>2. ~Deciding(g)
    BY <1>8, <1>12 DEF Deciding
  <2> QED
    BY <1>6, <1>8, <1>15, <1>20, <2>1, <2>2 DEF Seated
<1>24. Frm(s, Len(s)).fn \notin Ahead
  BY <1>2 DEF k, a, Ahead, Nodeless
<1>25. Ready(Frm(u, Len(u)), e, c2, t2, l2)
  BY <1>16, <1>20
<1>26. Linked(u, k - 2, e)
  <2> SUFFICES ASSUME NEW p \in 1 .. Len(u) - 1, p >= k - 2
               PROVE  Waits(Frm(u, p + 1), Frm(u, p), e)
    BY DEF Linked
  <2>1. p = k - 2 /\ p + 1 = k - 1 /\ p \in 1 .. k - 1 /\ p \in 1 .. k - 2 /\ p \in 1 .. k
    BY <1>20, <1>21
  <2>2. Waits(Frm(s, p + 1), Frm(s, p), d) /\ Ordered(Frm(s, p), d) /\ Frm(s, p) \in Frames
    BY <1>2, <2>1 DEF StackOK, k
  <2>3. Waits(f, Frm(s, p), e)
    BY <2>1, <2>2, WaitsOn DEF f
  <2>4. Waits(g, Frm(s, p), e)
    BY <1>8, <2>3 DEF Waits
  <2> QED
    BY <1>20, <2>1, <2>4
<1>27. StackOK(u, e, c2, t2, l2)
  BY <1>19, <1>21, <1>22, <1>23, <1>24, <1>25, <1>26, StackMoves
<1>28. u = Deliver(Tail(s), n)
  <2>1. Head(v) = Frm(v, k - 1) /\ Frm(v, k - 1) = f
    BY <1>2, <1>4, <1>18, Ends12 DEF f
  <2> QED
    BY <2>1 DEF Deliver, u, g, v
<1> QED
  BY <1>27, <1>28

\* One frame in the place of the top.
LEMMA StackBecomes ==
    ASSUME NEW s, NEW d \in Seq(NodeSet), NEW c \in Nat, NEW t, NEW l,
           StackOK(s, d, c, t, l), Head(s).fn # "unit",
           NEW e \in Seq(NodeSet), Extends(d, e), NEW c2 \in Nat, NEW t2, NEW l2,
           NEW f \in Frames, Sits(f, e, c2), Ready(f, e, c2, t2, l2),
           Head(s).fn \in Ahead => c <= c2 /\ e = d /\ f.fn \in Ahead,
           StandsFor(f, Head(s))
    PROVE  StackOK(<<f>> \o Tail(s), e, c2, t2, l2)
<1> DEFINE gs == <<f>>
<1>1. /\ gs \in Seq(Frames) /\ Len(gs) = 1 /\ gs[1] = f
  OBVIOUS
<1> HIDE DEF gs
<1>2. \A i \in 1 .. Len(gs) : i = 1 /\ gs[i] = f
  BY <1>1
<1>3. /\ Len(gs) > 0
      /\ \A i \in 1 .. Len(gs) : Sits(gs[i], e, c2)
      /\ \A i \in 2 .. Len(gs) : Waits(gs[i - 1], gs[i], e)
      /\ \A i \in 1 .. Len(gs) : Deciding(gs[i]) =>
              \A j \in 1 .. i - 1 : gs[j].fn \in Ahead
      /\ Head(s).fn \in Ahead =>
              /\ c <= c2 /\ e = d
              /\ \A i \in 1 .. Len(gs) : gs[i].fn \in Ahead
      /\ Ready(gs[1], e, c2, t2, l2)
      /\ StandsFor(gs[Len(gs)], Head(s))
  BY <1>1, <1>2
<1>4. StackOK(gs \o Tail(s), e, c2, t2, l2)
  BY <1>1, <1>3, StackGrows
<1> QED
  BY <1>4 DEF gs

\* A function f that calls another one, a.
LEMMA StackCalls ==
    ASSUME NEW s, NEW d \in Seq(NodeSet), NEW c \in Nat, NEW t, NEW l,
           StackOK(s, d, c, t, l), Head(s).fn # "unit",
           NEW e \in Seq(NodeSet), Extends(d, e), NEW c2 \in Nat, NEW t2, NEW l2,
           NEW a \in Frames, NEW f \in Frames,
           Sits(a, e, c2), Sits(f, e, c2), Ready(a, e, c2, t2, l2), Waits(a, f, e),
           Deciding(f) => a.fn \in Ahead,
           Head(s).fn \in Ahead => c <= c2 /\ e = d /\ a.fn \in Ahead /\ f.fn \in Ahead,
           StandsFor(f, Head(s))
    PROVE  StackOK(<<a, f>> \o Tail(s), e, c2, t2, l2)
<1> DEFINE gs == <<a, f>>
<1>1. /\ gs \in Seq(Frames) /\ Len(gs) = 2 /\ gs[1] = a /\ gs[2] = f
  OBVIOUS
<1> HIDE DEF gs
<1>2. \A i \in 1 .. Len(gs) : (i = 1 /\ gs[i] = a) \/ (i = 2 /\ gs[i] = f)
  BY <1>1
<1>3. \A i \in 1 .. Len(gs) : Deciding(gs[i]) =>
         \A j \in 1 .. i - 1 : gs[j].fn \in Ahead
  <2> SUFFICES ASSUME NEW i \in 1 .. Len(gs), Deciding(gs[i]), NEW j \in 1 .. i - 1
               PROVE  gs[j].fn \in Ahead
    OBVIOUS
  <2>1. i = 2 /\ j = 1 /\ gs[i] = f
    BY <1>2
  <2> QED
    BY <1>1, <2>1
<1>4. \A i \in 2 .. Len(gs) : Waits(gs[i - 1], gs[i], e)
  <2> TAKE i \in 2 .. Len(gs)
  <2>1. i = 2 /\ i - 1 = 1
    BY <1>1
  <2> QED
    BY <1>1, <2>1
<1>5. /\ Len(gs) > 0
      /\ \A i \in 1 .. Len(gs) : Sits(gs[i], e, c2)
      /\ Head(s).fn \in Ahead =>
              /\ c <= c2 /\ e = d
              /\ \A i \in 1 .. Len(gs) : gs[i].fn \in Ahead
      /\ Ready(gs[1], e, c2, t2, l2)
      /\ StandsFor(gs[Len(gs)], Head(s))
  BY <1>1, <1>2
<1>6. StackOK(gs \o Tail(s), e, c2, t2, l2)
  BY <1>1, <1>3, <1>4, <1>5, StackGrows
<1> QED
  BY <1>6 DEF gs

\* A function f that calls parse_expr, which is parse_binary, b, around the
\* parser of a unary expression, a.
LEMMA StackCallsExpr ==
    ASSUME NEW s, NEW d \in Seq(NodeSet), NEW c \in Nat, NEW t, NEW l,
           StackOK(s, d, c, t, l), Head(s).fn # "unit",
           NEW e \in Seq(NodeSet), Extends(d, e), NEW c2 \in Nat, NEW t2, NEW l2,
           NEW a \in Frames, NEW b \in Frames, NEW f \in Frames,
           Sits(a, e, c2), Sits(b, e, c2), Sits(f, e, c2), Ready(a, e, c2, t2, l2),
           Waits(a, b, e), Waits(b, f, e), ~Deciding(b), ~Deciding(f),
           Head(s).fn \notin Ahead,
           StandsFor(f, Head(s))
    PROVE  StackOK(<<a, b, f>> \o Tail(s), e, c2, t2, l2)
<1> DEFINE gs == <<a, b, f>>
<1>1. /\ gs \in Seq(Frames) /\ Len(gs) = 3 /\ gs[1] = a /\ gs[2] = b /\ gs[3] = f
  OBVIOUS
<1> HIDE DEF gs
<1>2. \A i \in 1 .. Len(gs) : \/ i = 1 /\ gs[i] = a
                              \/ i = 2 /\ gs[i] = b
                              \/ i = 3 /\ gs[i] = f
  <2> TAKE i \in 1 .. Len(gs)
  <2>1. i \in 1 .. 3
    BY <1>1
  <2>2. i = 1 \/ i = 2 \/ i = 3
    BY <2>1
  <2>3. i = 1 => gs[i] = a
    BY <1>1
  <2>4. i = 2 => gs[i] = b
    BY <1>1
  <2>5. i = 3 => gs[i] = f
    BY <1>1
  <2> QED
    BY <2>2, <2>3, <2>4, <2>5
<1>3. \A i \in 1 .. Len(gs) : Deciding(gs[i]) =>
         \A j \in 1 .. i - 1 : gs[j].fn \in Ahead
  <2> SUFFICES ASSUME NEW i \in 1 .. Len(gs), Deciding(gs[i]), NEW j \in 1 .. i - 1
               PROVE  gs[j].fn \in Ahead
    OBVIOUS
  <2>1. i = 1
    BY <1>2
  <2> QED
    BY <2>1
<1>4. \A i \in 2 .. Len(gs) : Waits(gs[i - 1], gs[i], e)
  <2> TAKE i \in 2 .. Len(gs)
  <2>1. (i = 2 /\ i - 1 = 1) \/ (i = 3 /\ i - 1 = 2)
    BY <1>1
  <2> QED
    BY <1>1, <2>1
<1>5. /\ Len(gs) > 0
      /\ \A i \in 1 .. Len(gs) : Sits(gs[i], e, c2)
      /\ Ready(gs[1], e, c2, t2, l2)
      /\ StandsFor(gs[Len(gs)], Head(s))
  BY <1>1, <1>2
<1>6. StackOK(gs \o Tail(s), e, c2, t2, l2)
  BY <1>1, <1>3, <1>4, <1>5, StackGrows
<1> QED
  BY <1>6 DEF gs

-----------------------------------------------------------------------------
(* The steps of the parser: what is read, what is made, what is called.    *)

\* The running function.
LEMMA TopFacts ==
    ASSUME PInv
    PROVE  /\ Top \in Frames /\ Top \in FramesOf(Len(toks))
           /\ Ready(Top, nodes, cur, Token, Last)
           /\ Ordered(Top, nodes)
           /\ Deciding(Top) => \A n \in 1 .. Len(nodes) : nodes[n].hi < Top.lo
           /\ Top.lo \in Nat \ {0} /\ Top.lo <= cur
           /\ nodes \in Seq(NodeSet) /\ Len(nodes) \in Nat
           /\ cur \in Nat \ {0} /\ cur <= Len(toks) /\ Len(toks) \in Nat
           /\ Stacked /\ stack \in Seq(Frames) /\ Len(stack) > 0
           /\ Rest \in Seq(FramesOf(Len(toks)))
<1>1. stack \in Seq(Frames) /\ Len(stack) > 0
  BY DEF PInv, Stacked, StackOK
<1>2. /\ Top = Frm(stack, Len(stack)) /\ Top \in Frames
      /\ Len(stack) \in 1 .. Len(stack)
  BY <1>1, Ends12 DEF Top
<1>3. /\ Ready(Top, nodes, cur, Token, Last)
      /\ Ordered(Top, nodes)
      /\ Deciding(Top) => \A n \in 1 .. Len(nodes) : nodes[n].hi < Top.lo
  BY <1>2 DEF PInv, Stacked, StackOK
<1>4. Top.lo \in Nat \ {0} /\ Top.lo <= cur
  BY <1>2, <1>3, FrameFields DEF Ready
<1>5. stack \in Seq(FramesOf(Len(toks)))
  BY DEF PInv, Within
<1>6. Top \in FramesOf(Len(toks)) /\ Rest \in Seq(FramesOf(Len(toks)))
  BY <1>1, <1>5, Ends12 DEF Top, Rest
<1>7. nodes \in Seq(NodeSet) /\ Len(nodes) \in Nat
  BY DEF PInv, Grown
<1>8. toks \in Seq(Alphabet) /\ cur \in 1 .. Len(toks)
  BY DEF PInv, Reads
<1>9. cur \in Nat \ {0} /\ cur <= Len(toks) /\ Len(toks) \in Nat
  BY <1>8
<1>10. Stacked
  BY DEF PInv
<1> QED
  BY <1>1, <1>2, <1>3, <1>4, <1>6, <1>7, <1>9, <1>10

\* What the parser reads only grows; a frame that waits stays within it.
Reading == Reads' /\ Len(toks) <= Len(toks') /\ Len(toks') \in Nat

\* next() at a token that is not the end of the file.
LEMMA Advances ==
    ASSUME PInv, Advance, Token # "eof", UNCHANGED lexicon,
           status' \in {"parsing", "parsed", "fatal"}
    PROVE  Reading /\ cur' = cur + 1 /\ Last' = Token /\ cur' \in Nat
<1>1. /\ toks \in Seq(Alphabet) /\ cur \in Nat \ {0} /\ cur <= Len(toks)
      /\ Len(toks) \in Nat /\ lexicon \in Lexicons
  BY TopFacts DEF PInv, Reads
<1>2. cur' = cur + 1
  BY DEF Advance
<1>3. /\ toks' \in Seq(Alphabet) /\ Len(toks) <= Len(toks') /\ cur' <= Len(toks')
      /\ Len(toks') \in Nat
      /\ \A i \in 1 .. Len(toks) : toks'[i] = toks[i]
  <2>1. CASE cur = Len(toks)
    <3>1. PICK t \in Lexed(cur + 1) : toks' = Append(toks, t)
      BY <2>1 DEF Advance
    <3>2. t \in Alphabet
      <4>1. lexicon.tokens \in {l.tokens : l \in Lexicons}
        BY <1>1
      <4>2. lexicon.tokens \subseteq Alphabet /\ "eof" \in Alphabet
        BY <4>1 DEF Alphabet
      <4> QED
        BY <4>2 DEF Lexed
    <3> QED
      BY <1>1, <1>2, <2>1, <3>1, <3>2
  <2>2. CASE cur # Len(toks)
    <3>1. toks' = toks
      BY <2>2 DEF Advance
    <3> QED
      BY <1>1, <1>2, <2>2, <3>1
  <2> QED
    BY <2>1, <2>2
<1>4. EndKept'
  <2> SUFFICES ASSUME NEW i \in 1 .. cur' - 1 PROVE toks'[i] # "eof"
    BY DEF EndKept
  <2>1. i \in 1 .. cur /\ i \in 1 .. Len(toks)
    BY <1>1, <1>2
  <2>2. i = cur \/ i \in 1 .. cur - 1
    BY <1>1, <2>1
  <2> QED
    BY <1>3, <2>1, <2>2 DEF EndKept, PInv, Reads, Token
<1>5. Last' = Token
  <2>1. cur' # 1 /\ cur' - 1 = cur /\ cur \in 1 .. Len(toks)
    BY <1>1, <1>2
  <2> QED
    BY <1>3, <2>1 DEF Last, Token
<1>6. lexicon' \in Lexicons /\ cur' \in 1 .. Len(toks')
  BY <1>1, <1>2, <1>3
<1> QED
  BY <1>2, <1>3, <1>4, <1>5, <1>6 DEF Reading, Reads

\* No token is read.
LEMMA Stays ==
    ASSUME PInv, Stay, UNCHANGED lexicon, status' \in {"parsing", "parsed", "fatal"}
    PROVE  /\ Reading /\ cur' = cur /\ toks' = toks /\ Last' = Last /\ Token' = Token
           /\ cur' \in Nat
<1>1. cur' = cur /\ toks' = toks /\ lexicon' = lexicon
  BY DEF Stay
<1>2. cur \in Nat /\ Len(toks) \in Nat /\ Len(toks') = Len(toks)
  BY <1>1, TopFacts
<1>3. EndKept' /\ Last' = Last /\ Token' = Token
  BY <1>1 DEF EndKept, Last, Token, PInv, Reads
<1>4. Reads'
  BY <1>1, <1>3 DEF Reads, PInv
<1> QED
  BY <1>1, <1>2, <1>3, <1>4 DEF Reading

\* restore_pos() of a function that reads ahead.
LEMMA Restores ==
    ASSUME PInv, Restore, UNCHANGED <<lexicon, status>>
    PROVE  Reading /\ cur' = Top.lo /\ cur' \in Nat /\ cur' <= cur /\ toks' = toks
<1>1. cur' = Top.lo /\ toks' = toks /\ lexicon' = lexicon /\ status' = status
  BY DEF Restore
<1>2. Top.lo \in Nat \ {0} /\ Top.lo <= cur /\ cur \in Nat /\ cur <= Len(toks)
      /\ Len(toks) \in Nat
  BY TopFacts
<1>3. \A i \in 1 .. Top.lo - 1 : i \in 1 .. cur - 1
  BY <1>2
<1>4. EndKept'
  BY <1>1, <1>3 DEF EndKept, PInv, Reads
<1>5. cur' \in 1 .. Len(toks')
  BY <1>1, <1>2
<1> QED
  BY <1>1, <1>2, <1>4, <1>5 DEF Reading, Reads, PInv

\* No node is made, and none is after the current token.
LEMMA NodesStay ==
    ASSUME PInv, UNCHANGED nodes, cur' \in Nat,
           cur <= cur' \/ \A n \in 1 .. Len(nodes) : nodes[n].hi < cur'
    PROVE  Grown' /\ Extends(nodes, nodes')
<1>1. nodes \in Seq(NodeSet) /\ Len(nodes) \in Nat /\ cur \in Nat
  BY TopFacts
<1>2. ASSUME NEW n \in 1 .. Len(nodes) PROVE nodes[n].hi < cur' /\ NodeOK(n, nodes)
  <2>1. nodes[n].hi < cur /\ NodeOK(n, nodes) /\ nodes[n].hi \in Nat
    BY <1>1, NodeFields DEF PInv, Grown
  <2> QED
    BY <1>1, <2>1
<1>3. Extends(nodes, nodes)
  BY <1>1 DEF Extends
<1> QED
  BY <1>1, <1>2, <1>3 DEF Grown

\* The kids of a node from lo to hi lie inside of it, in order; those of an
\* operator on its sides.
KidsFit(kids, lo, hi, d) ==
    /\ lo <= hi + 1
    /\ \A k \in 1 .. Len(kids) : /\ kids[k] \in 1 .. Len(d)
                                 /\ lo <= d[kids[k]].lo
                                 /\ d[kids[k]].hi <= hi
    /\ \A k \in 2 .. Len(kids) : d[kids[k - 1]].hi < d[kids[k]].lo

OperandsFit(tag, at, lo, hi, kids, d) ==
    tag = "bin" => /\ Len(kids) = 2
                   /\ Spans(kids[1], d, lo, at - 1)
                   /\ Spans(kids[2], d, at + 1, hi)

\* A node is made, of kids that lie inside of it, in order.
LEMMA NodeMade ==
    ASSUME PInv, NEW tag \in Tags, NEW at \in Nat, NEW lo \in Nat \ {0}, NEW hi \in Nat,
           NEW kids \in Seq(Nat \ {0}), Make(tag, at, lo, hi, kids),
           cur' \in Nat, cur <= cur', hi < cur',
           KidsFit(kids, lo, hi, nodes), OperandsFit(tag, at, lo, hi, kids, nodes)
    PROVE  /\ Grown' /\ Extends(nodes, nodes')
           /\ New \in 1 .. Len(nodes') /\ Len(nodes') = New
           /\ nodes'[New] = Node(tag, at, lo, hi, kids)
<1> DEFINE x == Node(tag, at, lo, hi, kids)
           N == Len(nodes)
<1>1. nodes \in Seq(NodeSet) /\ N \in Nat /\ cur \in Nat
  BY TopFacts
<1>2. /\ x \in NodeSet /\ x.tag = tag /\ x.at = at /\ x.lo = lo /\ x.hi = hi
      /\ x.kids = kids
  BY DEF Node, NodeSet
<1>3. nodes' = Append(nodes, x)
  BY DEF Make
<1> HIDE DEF x
<1>4. /\ nodes' \in Seq(NodeSet) /\ Len(nodes') = N + 1 /\ nodes'[N + 1] = x
      /\ \A n \in 1 .. N : nodes'[n] = nodes[n]
  BY <1>1, <1>2, <1>3
<1>5. Extends(nodes, nodes')
  BY <1>1, <1>4 DEF Extends
<1> HIDE DEF N
<1>6. ASSUME NEW n \in 1 .. N PROVE nodes'[n].hi < cur' /\ NodeOK(n, nodes')
  <2>1. nodes[n].hi < cur /\ NodeOK(n, nodes) /\ nodes[n].hi \in Nat
    BY <1>1, NodeFields DEF PInv, Grown, N
  <2>2. nodes'[n] = nodes[n] /\ nodes[n].kids \in Seq(Nat \ {0})
    BY <1>1, <1>4, NodeFields DEF N
  <2> DEFINE ks == nodes[n].kids
  <2>3. Len(ks) \in Nat /\ \A k \in 1 .. Len(ks) : ks[k] \in 1 .. n - 1
    BY <2>1, <2>2 DEF NodeOK
  <2> HIDE DEF ks
  <2>4. \A k \in 1 .. Len(ks) : ks[k] \in 1 .. N /\ nodes'[ks[k]] = nodes[ks[k]]
    <3>1. \A m \in 1 .. n - 1 : m \in 1 .. N
      BY <1>1
    <3>2. \A k \in 1 .. Len(ks) : ks[k] \in 1 .. N
      BY <2>3, <3>1
    <3> QED
      BY <1>4, <3>2
  <2>5. \A k \in 2 .. Len(ks) : k - 1 \in 1 .. Len(ks) /\ k \in 1 .. Len(ks)
    BY <2>3
  <2>6. Len(ks) = 2 => 1 \in 1 .. Len(ks) /\ 2 \in 1 .. Len(ks)
    OBVIOUS
  <2>7. NodeOK(n, nodes')
    <3>1. \A k \in 1 .. Len(ks) :
             /\ ks[k] \in 1 .. n - 1
             /\ nodes[n].lo <= nodes'[ks[k]].lo /\ nodes'[ks[k]].hi <= nodes[n].hi
      BY <2>1, <2>4 DEF NodeOK, ks
    <3>2. \A k \in 2 .. Len(ks) : nodes'[ks[k - 1]].hi < nodes'[ks[k]].lo
      <4> TAKE k \in 2 .. Len(ks)
      <4>1. nodes[ks[k - 1]].hi < nodes[ks[k]].lo
        BY <2>1 DEF NodeOK, ks
      <4> QED
        BY <2>4, <2>5, <4>1
    <3>4. nodes[n].lo <= nodes[n].hi + 1
      BY <2>1 DEF NodeOK
    <3>3. nodes[n].tag = "bin" =>
             /\ Len(ks) = 2
             /\ Spans(ks[1], nodes', nodes[n].lo, nodes[n].at - 1)
             /\ Spans(ks[2], nodes', nodes[n].at + 1, nodes[n].hi)
      BY <2>1, <2>4, <2>6 DEF NodeOK, Spans, ks
    <3> QED
      BY <2>2, <3>1, <3>2, <3>3, <3>4 DEF NodeOK, ks
  <2> QED
    BY <1>1, <2>1, <2>2, <2>7
<1>7. NodeOK(N + 1, nodes')
  <2>1. Len(kids) \in Nat
    OBVIOUS
  <2>2. \A k \in 1 .. Len(kids) : kids[k] \in 1 .. N /\ nodes'[kids[k]] = nodes[kids[k]]
    BY <1>1, <1>4 DEF N, KidsFit
  <2>3. \A k \in 2 .. Len(kids) : k - 1 \in 1 .. Len(kids) /\ k \in 1 .. Len(kids)
    BY <2>1
  <2>4. Len(kids) = 2 => 1 \in 1 .. Len(kids) /\ 2 \in 1 .. Len(kids)
    OBVIOUS
  <2>5. \A k \in 1 .. Len(kids) :
           /\ kids[k] \in 1 .. (N + 1) - 1
           /\ lo <= nodes'[kids[k]].lo /\ nodes'[kids[k]].hi <= hi
    <3> TAKE k \in 1 .. Len(kids)
    <3>1. lo <= nodes[kids[k]].lo /\ nodes[kids[k]].hi <= hi
      BY DEF KidsFit
    <3>2. kids[k] \in 1 .. N /\ nodes'[kids[k]] = nodes[kids[k]]
      BY <2>2
    <3>3. kids[k] \in 1 .. (N + 1) - 1
      BY <1>1, <3>2
    <3> QED
      BY <3>1, <3>2, <3>3
  <2>6. \A k \in 2 .. Len(kids) : nodes'[kids[k - 1]].hi < nodes'[kids[k]].lo
    <3> TAKE k \in 2 .. Len(kids)
    <3>1. nodes[kids[k - 1]].hi < nodes[kids[k]].lo
      BY DEF KidsFit
    <3> QED
      BY <2>2, <2>3, <3>1
  <2>7. tag = "bin" => /\ Len(kids) = 2
                       /\ Spans(kids[1], nodes', lo, at - 1)
                       /\ Spans(kids[2], nodes', at + 1, hi)
    BY <2>2, <2>4 DEF Spans, OperandsFit
  <2>8. lo <= hi + 1
    BY DEF KidsFit
  <2> QED
    BY <1>2, <1>4, <2>5, <2>6, <2>7, <2>8 DEF NodeOK
<1>8. ASSUME NEW n \in 1 .. Len(nodes') PROVE nodes'[n].hi < cur' /\ NodeOK(n, nodes')
  <2>1. n \in 1 .. N \/ n = N + 1
    BY <1>1, <1>4
  <2>2. nodes'[N + 1].hi < cur'
    BY <1>2, <1>4
  <2> QED
    BY <1>6, <1>7, <2>1, <2>2
<1>9. Grown'
  BY <1>4, <1>8 DEF Grown
<1>10. New = N + 1 /\ New \in 1 .. Len(nodes')
  BY <1>1, <1>4 DEF New, N
<1> QED
  BY <1>4, <1>5, <1>9, <1>10 DEF x

\* The node that a function makes of its kids when it ends.
LEMMA TopMakes ==
    ASSUME PInv, NEW tag \in Tags, NEW at \in Nat, NEW hi \in Nat,
           Make(tag, at, Top.lo, hi, Top.kids), cur' \in Nat, cur <= cur',
           hi < cur', cur - 1 <= hi,
           OperandsFit(tag, at, Top.lo, hi, Top.kids, nodes)
    PROVE  /\ Grown' /\ Extends(nodes, nodes')
           /\ New \in 1 .. Len(nodes') /\ Len(nodes') = New
           /\ nodes'[New] = Node(tag, at, Top.lo, hi, Top.kids)
<1>1. /\ Ready(Top, nodes, cur, Token, Last) /\ Ordered(Top, nodes)
      /\ Top \in Frames /\ nodes \in Seq(NodeSet) /\ cur \in Nat
      /\ Top.lo \in Nat \ {0}
  BY TopFacts
<1>2. Top.kids \in Seq(Nat \ {0})
  BY <1>1, FrameFields
<1>3. ASSUME NEW k \in 1 .. Len(Top.kids)
      PROVE  /\ Top.kids[k] \in 1 .. Len(nodes)
             /\ Top.lo <= nodes[Top.kids[k]].lo
             /\ nodes[Top.kids[k]].hi <= hi
  <2>1. Top.kids[k] \in 1 .. Len(nodes) /\ Top.lo <= nodes[Top.kids[k]].lo
    BY <1>1 DEF Ordered
  <2>2. nodes[Top.kids[k]].hi < cur /\ nodes[Top.kids[k]].hi \in Nat
    BY <1>1, <2>1, NodeFields DEF Ready, Before
  <2>3. cur \in Nat /\ hi \in Nat /\ cur - 1 <= hi
    BY <1>1
  <2>4. \A h \in Nat : h < cur => h <= hi
    BY ONLY <2>3
  <2> QED
    BY ONLY <2>1, <2>2, <2>4, Zenon
<1>4. \A k \in 2 .. Len(Top.kids) : nodes[Top.kids[k - 1]].hi < nodes[Top.kids[k]].lo
  <2>1. Ordered(Top, nodes)
    BY <1>1
  <2> QED
    BY ONLY <2>1, Zenon DEF Ordered
<1>5. Top.lo <= hi + 1
  <2>1. Top.lo <= cur
    BY TopFacts
  <2> QED
    BY <1>1, <2>1
<1>6. KidsFit(Top.kids, Top.lo, hi, nodes)
  BY <1>3, <1>4, <1>5 DEF KidsFit
<1> QED
  BY <1>1, <1>2, <1>6, NodeMade

\* Frames about what has been read are about what will have been read.
LEMMA StillWithin ==
    ASSUME NEW m \in Nat, NEW n \in Nat, m <= n
    PROVE  FramesOf(m) \subseteq FramesOf(n) /\ Seq(FramesOf(m)) \subseteq Seq(FramesOf(n))
<1>1. \A f \in FramesOf(m) : f \in FramesOf(n)
  BY FrameFields DEF FramesOf
<1>2. \A s \in Seq(FramesOf(m)) : s \in Seq(FramesOf(n))
  BY <1>1
<1> QED
  BY <1>1, <1>2

\* What a step leaves of the stack.
LEMMA RestWithin ==
    ASSUME PInv, Reading, NEW gs \in Seq(FramesOf(Len(toks')))
    PROVE  gs \o Rest \in Seq(FramesOf(Len(toks')))
<1>1. Rest \in Seq(FramesOf(Len(toks))) /\ Len(toks) \in Nat
  BY TopFacts
<1>2. Len(toks') \in Nat /\ Len(toks) <= Len(toks')
  BY DEF Reading
<1>3. Rest \in Seq(FramesOf(Len(toks')))
  BY <1>1, <1>2, StillWithin
<1> QED
  BY <1>3

\* A step that ends in the same function, or in one that stands for it.
LEMMA Becomes ==
    ASSUME PInv, Reading, Grown', Extends(nodes, nodes'), cur' \in Nat,
           NEW f, f \in FramesOf(Len(toks')), stack' = <<f>> \o Rest, Top.fn # "unit",
           Sits(f, nodes', cur'), Ready(f, nodes', cur', Token', Last'),
           Top.fn \in Ahead => cur <= cur' /\ nodes' = nodes /\ f.fn \in Ahead,
           StandsFor(f, Top)
    PROVE  PInv'
<1>1. /\ nodes \in Seq(NodeSet) /\ cur \in Nat /\ Stacked
      /\ StackOK(stack, nodes, cur, Token, Last)
  BY TopFacts DEF Stacked
<1>2. f \in Frames /\ nodes' \in Seq(NodeSet)
  BY DEF FramesOf, Grown
<1>3. StackOK(<<f>> \o Tail(stack), nodes', cur', Token', Last')
  BY <1>1, <1>2, StackBecomes DEF Top
<1>4. Stacked'
  BY <1>3 DEF Stacked, Rest
<1>5. <<f>> \in Seq(FramesOf(Len(toks')))
  OBVIOUS
<1>6. Within'
  BY <1>5, RestWithin DEF Within
<1> QED
  BY <1>4, <1>6 DEF PInv, Reading

\* A step that calls a function.
LEMMA Calls ==
    ASSUME PInv, Reading, Grown', Extends(nodes, nodes'), cur' \in Nat,
           NEW a, a \in FramesOf(Len(toks')), NEW f, f \in FramesOf(Len(toks')),
           stack' = <<a, f>> \o Rest, Top.fn # "unit",
           Sits(a, nodes', cur'), Sits(f, nodes', cur'),
           Ready(a, nodes', cur', Token', Last'), Waits(a, f, nodes'),
           Deciding(f) => a.fn \in Ahead,
           Top.fn \in Ahead => cur <= cur' /\ nodes' = nodes /\ a.fn \in Ahead /\ f.fn \in Ahead,
           StandsFor(f, Top)
    PROVE  PInv'
<1>1. /\ nodes \in Seq(NodeSet) /\ cur \in Nat /\ Stacked
      /\ StackOK(stack, nodes, cur, Token, Last)
  BY TopFacts DEF Stacked
<1>2. f \in Frames /\ a \in Frames /\ nodes' \in Seq(NodeSet)
  BY DEF FramesOf, Grown
<1>3. StackOK(<<a, f>> \o Tail(stack), nodes', cur', Token', Last')
  BY <1>1, <1>2, StackCalls DEF Top
<1>4. Stacked'
  BY <1>3 DEF Stacked, Rest
<1>5. <<a, f>> \in Seq(FramesOf(Len(toks')))
  OBVIOUS
<1>6. Within'
  BY <1>5, RestWithin DEF Within
<1> QED
  BY <1>4, <1>6 DEF PInv, Reading

\* A step that calls parse_expr.
LEMMA CallsExpr ==
    ASSUME PInv, Reading, Grown', Extends(nodes, nodes'), cur' \in Nat,
           NEW a, a \in FramesOf(Len(toks')), NEW b, b \in FramesOf(Len(toks')),
           NEW f, f \in FramesOf(Len(toks')),
           stack' = <<a, b, f>> \o Rest, Top.fn # "unit",
           Sits(a, nodes', cur'), Sits(b, nodes', cur'), Sits(f, nodes', cur'),
           Ready(a, nodes', cur', Token', Last'), Waits(a, b, nodes'), Waits(b, f, nodes'),
           ~Deciding(b), ~Deciding(f), Top.fn \notin Ahead,
           StandsFor(f, Top)
    PROVE  PInv'
<1>1. /\ nodes \in Seq(NodeSet) /\ cur \in Nat /\ Stacked
      /\ StackOK(stack, nodes, cur, Token, Last)
  BY TopFacts DEF Stacked
<1>2. f \in Frames /\ a \in Frames /\ b \in Frames /\ nodes' \in Seq(NodeSet)
  BY DEF FramesOf, Grown
<1>3. StackOK(<<a, b, f>> \o Tail(stack), nodes', cur', Token', Last')
  BY <1>1, <1>2, StackCallsExpr DEF Top
<1>4. Stacked'
  BY <1>3 DEF Stacked, Rest
<1>5. <<a, b, f>> \in Seq(FramesOf(Len(toks')))
  OBVIOUS
<1>6. Within'
  BY <1>5, RestWithin DEF Within
<1> QED
  BY <1>4, <1>6 DEF PInv, Reading

\* A step that returns a node.
LEMMA Gives ==
    ASSUME PInv, Reading, Grown', Extends(nodes, nodes'), cur' \in Nat, cur <= cur',
           Top.fn \notin Nodeless \cup {"unit"},
           NEW n, n \in 1 .. Len(nodes'), Return(n),
           nodes'[n].lo = Top.lo, nodes'[n].hi = cur' - 1,
           Top.fn = "TARGS" => nodes'[n].tag = "TARGS"
    PROVE  PInv'
<1>1. /\ nodes \in Seq(NodeSet) /\ cur \in Nat /\ Stacked
      /\ StackOK(stack, nodes, cur, Token, Last)
  BY TopFacts DEF Stacked
<1>2. nodes' \in Seq(NodeSet)
  BY DEF Grown
<1>3. StackOK(Deliver(Tail(stack), n), nodes', cur', Token', Last')
  BY <1>1, <1>2, StackGives DEF Top
<1>4. Stacked'
  BY <1>3 DEF Stacked, Rest, Return
<1>5. Within'
  <2> DEFINE f == Head(Rest)
             g == [f EXCEPT !.kids = Append(@, n)]
  <2>1. Rest \in Seq(FramesOf(Len(toks'))) /\ Rest # <<>>
    <3>1. Rest \in Seq(FramesOf(Len(toks))) /\ Len(toks) \in Nat
      BY TopFacts
    <3>2. Len(toks') \in Nat /\ Len(toks) <= Len(toks')
      BY DEF Reading
    <3>3. Rest # <<>>
      <4>1. stack \in Seq(Frames) /\ Len(stack) > 0
        BY TopFacts
      <4>2. Len(stack) \in Nat \ {0} /\ Head(stack) = Frm(stack, Len(stack))
            /\ Len(Rest) = Len(stack) - 1
        BY <4>1, Ends12 DEF Rest
      <4>3. Len(stack) \in 1 .. Len(stack)
        BY <4>2
      <4>4. Frm(stack, Len(stack)).fn = "unit" <=> Len(stack) = 1
        BY <1>1, <4>3 DEF StackOK
      <4>5. Len(Rest) # 0
        BY <4>2, <4>4 DEF Top
      <4> QED
        BY <4>5
    <3> QED
      BY <3>1, <3>2, <3>3, StillWithin
  <2>2. f \in FramesOf(Len(toks')) /\ Tail(Rest) \in Seq(FramesOf(Len(toks')))
    BY <2>1
  <2>3. n \in Nat \ {0}
    BY <1>2
  <2>4. g \in FramesOf(Len(toks'))
    <3>1. f \in Frames /\ f.lo <= Len(toks') /\ f.at <= Len(toks')
      BY <2>2 DEF FramesOf
    <3> HIDE DEF f
    <3>2. g = Got(f, n)
      BY DEF Got
    <3>3. f \in Frames
      BY <3>1
    <3>4. Got(f, n) \in Frames /\ Got(f, n).lo = f.lo /\ Got(f, n).at = f.at
      BY ONLY <2>3, <3>3, FrameGot
    <3> QED
      BY <3>1, <3>2, <3>4 DEF FramesOf
  <2> HIDE DEF g
  <2>5. <<g>> \o Tail(Rest) \in Seq(FramesOf(Len(toks')))
    BY <2>2, <2>4
  <2> QED
    BY <2>5 DEF Within, Return, Deliver, g
<1> QED
  BY <1>4, <1>5 DEF PInv, Reading

\* A step that returns nothing.
LEMMA Drops ==
    ASSUME PInv, Reading, UNCHANGED nodes, cur' = cur, ReturnNothing, Top.fn \in Nodeless
    PROVE  PInv'
<1>1. /\ nodes \in Seq(NodeSet) /\ cur \in Nat
      /\ StackOK(stack, nodes, cur, Token, Last)
  BY TopFacts DEF Stacked
<1>2. StackOK(Tail(stack), nodes, cur, Token', Last')
  BY <1>1, StackDrops DEF Top
<1>3. Stacked'
  BY <1>2 DEF Stacked, Rest, ReturnNothing
<1>4. Within'
  <2>1. Rest \in Seq(FramesOf(Len(toks))) /\ Len(toks) \in Nat
    BY TopFacts
  <2>2. Len(toks') \in Nat /\ Len(toks) <= Len(toks')
    BY DEF Reading
  <2> QED
    BY <2>1, <2>2, StillWithin DEF Within, ReturnNothing
<1>5. Grown'
  BY <1>1, NodesStay
<1> QED
  BY <1>3, <1>4, <1>5 DEF PInv, Reading

-----------------------------------------------------------------------------
(* The functions without loops.                                            *)

Scripts == {"paren", "cast", "sizeof", "array", "call", "usespec", "spec", "init",
            "field", "rune", "index", "member", "type", "typename", "bound", "break",
            "if", "match", "case", "default", "ret", "until", "var"}

ListNames == {"ARGS", "ELEMS", "TARGS", "FIELDS", "TYPES", "NAMES"}

\* The functions that these functions call
Callable == {"expr", "type", "ELEMS", "TARGS", "ARGS", "leaf", "FIELDS", "TYPES", "NAMES",
             "suffix", "stmt", "cases", "declare"}

\* What is true of element i, which is e, of the script of fn: the end of the
\* file is never taken, and what returns nothing is called only by functions
\* that expect it.
ElementOK(fn, i, e) ==
    /\ e.skip \in Nat
    /\ e.do = "eat" => "eof" \notin e.set
    /\ e.do = "call" => /\ e.fn \in Callable /\ fn # "bound"
                        /\ e.fn \in Nodeless => fn \in {"typename", "type", "var"}
                        /\ fn = "typename" => e.fn \in Ahead
    /\ fn = "member" =>
          /\ e.do = "call" => (i = 5 /\ e.fn = "TARGS") \/ (i = 9 /\ e.fn = "ARGS")
          /\ e.do = "eat" => i \notin {9} /\ (i = 10 => e.set = {")"})
          /\ e.do \notin {"eat", "call"} => i \in {3, 7} /\ e.skip = 3

\* The scripts and the lists there are.
LEMMA Named ==
    /\ DOMAIN Script = Scripts /\ DOMAIN Lists = ListNames
    /\ Functions = Scripts \cup ListNames \cup
          {"suffix", "prefix", "postfix", "binary", "primary", "ref", "leaf", "stmt",
           "block", "declare", "cases", "unit"}
    /\ Functions \subseteq Tags
<1>1. DOMAIN Script = Scripts
  BY DEF Script, Scripts
<1>2. DOMAIN Lists = ListNames
  BY DEF Lists, ListNames
<1> QED
  BY <1>1, <1>2 DEF Functions, Tags

\* No element of a script is at odds with its function.
LEMMA Elements ==
    ASSUME NEW fn \in Scripts, NEW i \in 1 .. Len(Script[fn])
    PROVE  ElementOK(fn, i, Script[fn][i])
<1>1. ASSUME NEW j \in 1 .. 3 PROVE Len(ParenScript) = 3 /\ ElementOK("paren", j, ParenScript[j])
  <2>1. /\ ElementOK("paren", 1, ParenScript[1])
        /\ ElementOK("paren", 2, ParenScript[2])
        /\ ElementOK("paren", 3, ParenScript[3])
    BY DEF ParenScript, Eat, Do, Nodeless, Ahead, Callable, ElementOK
  <2>2. j = 1 \/ j = 2 \/ j = 3
    OBVIOUS
  <2>3. Len(ParenScript) = 3
    BY DEF ParenScript
  <2> QED
    BY <2>1, <2>2, <2>3
<1>2. ASSUME NEW j \in 1 .. 5 PROVE Len(CastScript) = 5 /\ ElementOK("cast", j, CastScript[j])
  <2>1. /\ ElementOK("cast", 1, CastScript[1])
        /\ ElementOK("cast", 2, CastScript[2])
        /\ ElementOK("cast", 3, CastScript[3])
        /\ ElementOK("cast", 4, CastScript[4])
        /\ ElementOK("cast", 5, CastScript[5])
    BY DEF CastScript, Eat, Do, Nodeless, Ahead, Callable, ElementOK
  <2>2. j = 1 \/ j = 2 \/ j = 3 \/ j = 4 \/ j = 5
    OBVIOUS
  <2>3. Len(CastScript) = 5
    BY DEF CastScript
  <2> QED
    BY <2>1, <2>2, <2>3
<1>3. ASSUME NEW j \in 1 .. 4 PROVE Len(SizeofScript) = 4 /\ ElementOK("sizeof", j, SizeofScript[j])
  <2>1. /\ ElementOK("sizeof", 1, SizeofScript[1])
        /\ ElementOK("sizeof", 2, SizeofScript[2])
        /\ ElementOK("sizeof", 3, SizeofScript[3])
        /\ ElementOK("sizeof", 4, SizeofScript[4])
    BY DEF SizeofScript, Eat, Do, Nodeless, Ahead, Callable, ElementOK
  <2>2. j = 1 \/ j = 2 \/ j = 3 \/ j = 4
    OBVIOUS
  <2>3. Len(SizeofScript) = 4
    BY DEF SizeofScript
  <2> QED
    BY <2>1, <2>2, <2>3
<1>4. ASSUME NEW j \in 1 .. 3 PROVE Len(ArrayScript) = 3 /\ ElementOK("array", j, ArrayScript[j])
  <2>1. /\ ElementOK("array", 1, ArrayScript[1])
        /\ ElementOK("array", 2, ArrayScript[2])
        /\ ElementOK("array", 3, ArrayScript[3])
    BY DEF ArrayScript, Eat, Do, Nodeless, Ahead, Callable, ElementOK
  <2>2. j = 1 \/ j = 2 \/ j = 3
    OBVIOUS
  <2>3. Len(ArrayScript) = 3
    BY DEF ArrayScript
  <2> QED
    BY <2>1, <2>2, <2>3
<1>5. ASSUME NEW j \in 1 .. 8 PROVE Len(CallScript) = 8 /\ ElementOK("call", j, CallScript[j])
  <2>1. /\ ElementOK("call", 1, CallScript[1])
        /\ ElementOK("call", 2, CallScript[2])
        /\ ElementOK("call", 3, CallScript[3])
        /\ ElementOK("call", 4, CallScript[4])
        /\ ElementOK("call", 5, CallScript[5])
        /\ ElementOK("call", 6, CallScript[6])
        /\ ElementOK("call", 7, CallScript[7])
        /\ ElementOK("call", 8, CallScript[8])
    BY DEF CallScript, Eat, Opt, Do, Idents, Keywords, Nodeless, Ahead, Callable,
           ElementOK
  <2>2. j = 1 \/ j = 2 \/ j = 3 \/ j = 4 \/ j = 5 \/ j = 6 \/ j = 7 \/ j = 8
    OBVIOUS
  <2>3. Len(CallScript) = 8
    BY DEF CallScript
  <2> QED
    BY <2>1, <2>2, <2>3
<1>6. ASSUME NEW j \in 1 .. 3 PROVE Len(UseSpecScript) = 3 /\ ElementOK("usespec", j, UseSpecScript[j])
  <2>1. /\ ElementOK("usespec", 1, UseSpecScript[1])
        /\ ElementOK("usespec", 2, UseSpecScript[2])
        /\ ElementOK("usespec", 3, UseSpecScript[3])
    BY DEF UseSpecScript, Eat, Do, Idents, Keywords, Nodeless, Ahead, Callable,
           ElementOK
  <2>2. j = 1 \/ j = 2 \/ j = 3
    OBVIOUS
  <2>3. Len(UseSpecScript) = 3
    BY DEF UseSpecScript
  <2> QED
    BY <2>1, <2>2, <2>3
<1>7. ASSUME NEW j \in 1 .. 3 PROVE Len(SpecScript) = 3 /\ ElementOK("spec", j, SpecScript[j])
  <2>1. /\ ElementOK("spec", 1, SpecScript[1])
        /\ ElementOK("spec", 2, SpecScript[2])
        /\ ElementOK("spec", 3, SpecScript[3])
    BY DEF SpecScript, Do, Eat, Nodeless, Ahead, Callable, ElementOK
  <2>2. j = 1 \/ j = 2 \/ j = 3
    OBVIOUS
  <2>3. Len(SpecScript) = 3
    BY DEF SpecScript
  <2> QED
    BY <2>1, <2>2, <2>3
<1>8. ASSUME NEW j \in 1 .. 4 PROVE Len(InitScript) = 4 /\ ElementOK("init", j, InitScript[j])
  <2>1. /\ ElementOK("init", 1, InitScript[1])
        /\ ElementOK("init", 2, InitScript[2])
        /\ ElementOK("init", 3, InitScript[3])
        /\ ElementOK("init", 4, InitScript[4])
    BY DEF InitScript, Do, Eat, Nodeless, Ahead, Callable, ElementOK
  <2>2. j = 1 \/ j = 2 \/ j = 3 \/ j = 4
    OBVIOUS
  <2>3. Len(InitScript) = 4
    BY DEF InitScript
  <2> QED
    BY <2>1, <2>2, <2>3
<1>9. ASSUME NEW j \in 1 .. 3 PROVE Len(FieldScript) = 3 /\ ElementOK("field", j, FieldScript[j])
  <2>1. /\ ElementOK("field", 1, FieldScript[1])
        /\ ElementOK("field", 2, FieldScript[2])
        /\ ElementOK("field", 3, FieldScript[3])
    BY DEF FieldScript, Eat, Do, Idents, Keywords, Nodeless, Ahead, Callable, ElementOK
  <2>2. j = 1 \/ j = 2 \/ j = 3
    OBVIOUS
  <2>3. Len(FieldScript) = 3
    BY DEF FieldScript
  <2> QED
    BY <2>1, <2>2, <2>3
<1>10. ASSUME NEW j \in 1 .. 8 PROVE Len(RuneScript) = 8 /\ ElementOK("rune", j, RuneScript[j])
  <2>1. /\ ElementOK("rune", 1, RuneScript[1])
        /\ ElementOK("rune", 2, RuneScript[2])
        /\ ElementOK("rune", 3, RuneScript[3])
        /\ ElementOK("rune", 4, RuneScript[4])
        /\ ElementOK("rune", 5, RuneScript[5])
        /\ ElementOK("rune", 6, RuneScript[6])
        /\ ElementOK("rune", 7, RuneScript[7])
        /\ ElementOK("rune", 8, RuneScript[8])
    BY DEF RuneScript, Eat, Do, Nodeless, Ahead, Callable, ElementOK
  <2>2. j = 1 \/ j = 2 \/ j = 3 \/ j = 4 \/ j = 5 \/ j = 6 \/ j = 7 \/ j = 8
    OBVIOUS
  <2>3. Len(RuneScript) = 8
    BY DEF RuneScript
  <2> QED
    BY <2>1, <2>2, <2>3
<1>11. ASSUME NEW j \in 1 .. 3 PROVE Len(IndexScript) = 3 /\ ElementOK("index", j, IndexScript[j])
  <2>1. /\ ElementOK("index", 1, IndexScript[1])
        /\ ElementOK("index", 2, IndexScript[2])
        /\ ElementOK("index", 3, IndexScript[3])
    BY DEF IndexScript, Eat, Do, Nodeless, Ahead, Callable, ElementOK
  <2>2. j = 1 \/ j = 2 \/ j = 3
    OBVIOUS
  <2>3. Len(IndexScript) = 3
    BY DEF IndexScript
  <2> QED
    BY <2>1, <2>2, <2>3
<1>12. ASSUME NEW j \in 1 .. 10 PROVE Len(MemberScript) = 10 /\ ElementOK("member", j, MemberScript[j])
  <2>1. MemberScript[1] = Eat({"."}) /\ ElementOK("member", 1, Eat({"."}))
    BY DEF MemberScript, Eat, ElementOK
  <2>2. MemberScript[2] = Eat(Idents) /\ ElementOK("member", 2, Eat(Idents))
    BY DEF MemberScript, Eat, Idents, Keywords, ElementOK
  <2>3. MemberScript[3] = Opt({"<"}, 3) /\ ElementOK("member", 3, Opt({"<"}, 3))
    BY DEF MemberScript, Opt, ElementOK
  <2>4. MemberScript[4] = Eat({"<"}) /\ ElementOK("member", 4, Eat({"<"}))
    BY DEF MemberScript, Eat, ElementOK
  <2>5. MemberScript[5] = Do("TARGS") /\ ElementOK("member", 5, Do("TARGS"))
    BY DEF MemberScript, Do, Nodeless, Callable, ElementOK
  <2>6. MemberScript[6] = Eat({">"}) /\ ElementOK("member", 6, Eat({">"}))
    BY DEF MemberScript, Eat, ElementOK
  <2>7. MemberScript[7] = Opt({"("}, 3) /\ ElementOK("member", 7, Opt({"("}, 3))
    BY DEF MemberScript, Opt, ElementOK
  <2>8. MemberScript[8] = Eat({"("}) /\ ElementOK("member", 8, Eat({"("}))
    BY DEF MemberScript, Eat, ElementOK
  <2>9. MemberScript[9] = Do("ARGS") /\ ElementOK("member", 9, Do("ARGS"))
    BY DEF MemberScript, Do, Nodeless, Callable, ElementOK
  <2>10. MemberScript[10] = Eat({")"}) /\ ElementOK("member", 10, Eat({")"}))
    BY DEF MemberScript, Eat, ElementOK
  <2>11. j = 1 \/ j = 2 \/ j = 3 \/ j = 4 \/ j = 5 \/ j = 6 \/ j = 7 \/ j = 8 \/ j = 9 \/ j = 10
    OBVIOUS
  <2>12. Len(MemberScript) = 10
    BY DEF MemberScript
  <2> QED
    BY <2>1, <2>2, <2>3, <2>4, <2>5, <2>6, <2>7, <2>8, <2>9, <2>10, <2>11, <2>12
<1>13. ASSUME NEW j \in 1 .. 9 PROVE Len(TypeScript) = 9 /\ ElementOK("type", j, TypeScript[j])
  <2>1. /\ ElementOK("type", 1, TypeScript[1])
        /\ ElementOK("type", 2, TypeScript[2])
        /\ ElementOK("type", 3, TypeScript[3])
        /\ ElementOK("type", 4, TypeScript[4])
        /\ ElementOK("type", 5, TypeScript[5])
        /\ ElementOK("type", 6, TypeScript[6])
        /\ ElementOK("type", 7, TypeScript[7])
        /\ ElementOK("type", 8, TypeScript[8])
        /\ ElementOK("type", 9, TypeScript[9])
    BY DEF TypeScript, Eat, OfUse, Opt, Do, Idents, Keywords, Nodeless, Ahead, Callable,
           ElementOK
  <2>2. j = 1 \/ j = 2 \/ j = 3 \/ j = 4 \/ j = 5 \/ j = 6 \/ j = 7 \/ j = 8 \/ j = 9
    OBVIOUS
  <2>3. Len(TypeScript) = 9
    BY DEF TypeScript
  <2> QED
    BY <2>1, <2>2, <2>3
<1>14. ASSUME NEW j \in 1 .. 10 PROVE Len(TypeNameScript) = 10 /\ ElementOK("typename", j, TypeNameScript[j])
  <2>1. /\ ElementOK("typename", 1, TypeNameScript[1])
        /\ ElementOK("typename", 2, TypeNameScript[2])
        /\ ElementOK("typename", 3, TypeNameScript[3])
        /\ ElementOK("typename", 4, TypeNameScript[4])
        /\ ElementOK("typename", 5, TypeNameScript[5])
        /\ ElementOK("typename", 6, TypeNameScript[6])
        /\ ElementOK("typename", 7, TypeNameScript[7])
        /\ ElementOK("typename", 8, TypeNameScript[8])
        /\ ElementOK("typename", 9, TypeNameScript[9])
        /\ ElementOK("typename", 10, TypeNameScript[10])
    BY DEF TypeNameScript, Eat, Opt, IsUse, Do, Idents, Keywords, Nodeless, Ahead,
           Callable, ElementOK
  <2>2. j = 1 \/ j = 2 \/ j = 3 \/ j = 4 \/ j = 5 \/ j = 6 \/ j = 7 \/ j = 8 \/ j = 9 \/ j = 10
    OBVIOUS
  <2>3. Len(TypeNameScript) = 10
    BY DEF TypeNameScript
  <2> QED
    BY <2>1, <2>2, <2>3
<1>15. ASSUME NEW j \in 1 .. 3 PROVE Len(BoundScript) = 3 /\ ElementOK("bound", j, BoundScript[j])
  <2>1. /\ ElementOK("bound", 1, BoundScript[1])
        /\ ElementOK("bound", 2, BoundScript[2])
        /\ ElementOK("bound", 3, BoundScript[3])
    BY DEF BoundScript, Eat, ElementOK
  <2>2. j = 1 \/ j = 2 \/ j = 3
    OBVIOUS
  <2>3. Len(BoundScript) = 3
    BY DEF BoundScript
  <2> QED
    BY <2>1, <2>2, <2>3
<1>16. ASSUME NEW j \in 1 .. 2 PROVE Len(BreakScript) = 2 /\ ElementOK("break", j, BreakScript[j])
  <2>1. /\ ElementOK("break", 1, BreakScript[1])
        /\ ElementOK("break", 2, BreakScript[2])
    BY DEF BreakScript, Eat, ElementOK
  <2>2. j = 1 \/ j = 2
    OBVIOUS
  <2>3. Len(BreakScript) = 2
    BY DEF BreakScript
  <2> QED
    BY <2>1, <2>2, <2>3
<1>17. ASSUME NEW j \in 1 .. 6 PROVE Len(IfScript) = 6 /\ ElementOK("if", j, IfScript[j])
  <2>1. /\ ElementOK("if", 1, IfScript[1])
        /\ ElementOK("if", 2, IfScript[2])
        /\ ElementOK("if", 3, IfScript[3])
        /\ ElementOK("if", 4, IfScript[4])
        /\ ElementOK("if", 5, IfScript[5])
        /\ ElementOK("if", 6, IfScript[6])
    BY DEF IfScript, Eat, Do, Opt, Nodeless, Ahead, Callable, ElementOK
  <2>2. j = 1 \/ j = 2 \/ j = 3 \/ j = 4 \/ j = 5 \/ j = 6
    OBVIOUS
  <2>3. Len(IfScript) = 6
    BY DEF IfScript
  <2> QED
    BY <2>1, <2>2, <2>3
<1>18. ASSUME NEW j \in 1 .. 5 PROVE Len(MatchScript) = 5 /\ ElementOK("match", j, MatchScript[j])
  <2>1. /\ ElementOK("match", 1, MatchScript[1])
        /\ ElementOK("match", 2, MatchScript[2])
        /\ ElementOK("match", 3, MatchScript[3])
        /\ ElementOK("match", 4, MatchScript[4])
        /\ ElementOK("match", 5, MatchScript[5])
    BY DEF MatchScript, Eat, Do, Nodeless, Ahead, Callable, ElementOK
  <2>2. j = 1 \/ j = 2 \/ j = 3 \/ j = 4 \/ j = 5
    OBVIOUS
  <2>3. Len(MatchScript) = 5
    BY DEF MatchScript
  <2> QED
    BY <2>1, <2>2, <2>3
<1>19. ASSUME NEW j \in 1 .. 3 PROVE Len(CaseScript) = 3 /\ ElementOK("case", j, CaseScript[j])
  <2>1. /\ ElementOK("case", 1, CaseScript[1])
        /\ ElementOK("case", 2, CaseScript[2])
        /\ ElementOK("case", 3, CaseScript[3])
    BY DEF CaseScript, Do, Eat, Nodeless, Ahead, Callable, ElementOK
  <2>2. j = 1 \/ j = 2 \/ j = 3
    OBVIOUS
  <2>3. Len(CaseScript) = 3
    BY DEF CaseScript
  <2> QED
    BY <2>1, <2>2, <2>3
<1>20. ASSUME NEW j \in 1 .. 3 PROVE Len(DefaultScript) = 3 /\ ElementOK("default", j, DefaultScript[j])
  <2>1. /\ ElementOK("default", 1, DefaultScript[1])
        /\ ElementOK("default", 2, DefaultScript[2])
        /\ ElementOK("default", 3, DefaultScript[3])
    BY DEF DefaultScript, Eat, Do, Nodeless, Ahead, Callable, ElementOK
  <2>2. j = 1 \/ j = 2 \/ j = 3
    OBVIOUS
  <2>3. Len(DefaultScript) = 3
    BY DEF DefaultScript
  <2> QED
    BY <2>1, <2>2, <2>3
<1>21. ASSUME NEW j \in 1 .. 4 PROVE Len(RetScript) = 4 /\ ElementOK("ret", j, RetScript[j])
  <2>1. /\ ElementOK("ret", 1, RetScript[1])
        /\ ElementOK("ret", 2, RetScript[2])
        /\ ElementOK("ret", 3, RetScript[3])
        /\ ElementOK("ret", 4, RetScript[4])
    BY DEF RetScript, Eat, Unless, Do, Nodeless, Ahead, Callable, ElementOK
  <2>2. j = 1 \/ j = 2 \/ j = 3 \/ j = 4
    OBVIOUS
  <2>3. Len(RetScript) = 4
    BY DEF RetScript
  <2> QED
    BY <2>1, <2>2, <2>3
<1>22. ASSUME NEW j \in 1 .. 3 PROVE Len(UntilScript) = 3 /\ ElementOK("until", j, UntilScript[j])
  <2>1. /\ ElementOK("until", 1, UntilScript[1])
        /\ ElementOK("until", 2, UntilScript[2])
        /\ ElementOK("until", 3, UntilScript[3])
    BY DEF UntilScript, Eat, Do, Nodeless, Ahead, Callable, ElementOK
  <2>2. j = 1 \/ j = 2 \/ j = 3
    OBVIOUS
  <2>3. Len(UntilScript) = 3
    BY DEF UntilScript
  <2> QED
    BY <2>1, <2>2, <2>3
<1>23. ASSUME NEW j \in 1 .. 12 PROVE Len(VarScript) = 12 /\ ElementOK("var", j, VarScript[j])
  <2>1. /\ ElementOK("var", 1, VarScript[1])
        /\ ElementOK("var", 2, VarScript[2])
        /\ ElementOK("var", 3, VarScript[3])
        /\ ElementOK("var", 4, VarScript[4])
        /\ ElementOK("var", 5, VarScript[5])
        /\ ElementOK("var", 6, VarScript[6])
        /\ ElementOK("var", 7, VarScript[7])
        /\ ElementOK("var", 8, VarScript[8])
        /\ ElementOK("var", 9, VarScript[9])
        /\ ElementOK("var", 10, VarScript[10])
        /\ ElementOK("var", 11, VarScript[11])
        /\ ElementOK("var", 12, VarScript[12])
    BY DEF VarScript, Eat, Opt, Do, Initializer, Idents, Keywords, Nodeless, Ahead,
           Callable, ElementOK
  <2>2. j = 1 \/ j = 2 \/ j = 3 \/ j = 4 \/ j = 5 \/ j = 6 \/ j = 7 \/ j = 8 \/ j = 9 \/ j = 10 \/ j = 11 \/ j = 12
    OBVIOUS
  <2>3. Len(VarScript) = 12
    BY DEF VarScript
  <2> QED
    BY <2>1, <2>2, <2>3
<1>24. /\ Script["paren"] = ParenScript
      /\ Script["cast"] = CastScript
      /\ Script["sizeof"] = SizeofScript
      /\ Script["array"] = ArrayScript
      /\ Script["call"] = CallScript
      /\ Script["usespec"] = UseSpecScript
      /\ Script["spec"] = SpecScript
      /\ Script["init"] = InitScript
      /\ Script["field"] = FieldScript
      /\ Script["rune"] = RuneScript
      /\ Script["index"] = IndexScript
      /\ Script["member"] = MemberScript
      /\ Script["type"] = TypeScript
      /\ Script["typename"] = TypeNameScript
      /\ Script["bound"] = BoundScript
      /\ Script["break"] = BreakScript
      /\ Script["if"] = IfScript
      /\ Script["match"] = MatchScript
      /\ Script["case"] = CaseScript
      /\ Script["default"] = DefaultScript
      /\ Script["ret"] = RetScript
      /\ Script["until"] = UntilScript
      /\ Script["var"] = VarScript
  BY DEF Script
<1>25. fn = "paren" => ElementOK(fn, i, Script[fn][i])
  BY <1>1, <1>24
<1>26. fn = "cast" => ElementOK(fn, i, Script[fn][i])
  BY <1>2, <1>24
<1>27. fn = "sizeof" => ElementOK(fn, i, Script[fn][i])
  BY <1>3, <1>24
<1>28. fn = "array" => ElementOK(fn, i, Script[fn][i])
  BY <1>4, <1>24
<1>29. fn = "call" => ElementOK(fn, i, Script[fn][i])
  BY <1>5, <1>24
<1>30. fn = "usespec" => ElementOK(fn, i, Script[fn][i])
  BY <1>6, <1>24
<1>31. fn = "spec" => ElementOK(fn, i, Script[fn][i])
  BY <1>7, <1>24
<1>32. fn = "init" => ElementOK(fn, i, Script[fn][i])
  BY <1>8, <1>24
<1>33. fn = "field" => ElementOK(fn, i, Script[fn][i])
  BY <1>9, <1>24
<1>34. fn = "rune" => ElementOK(fn, i, Script[fn][i])
  BY <1>10, <1>24
<1>35. fn = "index" => ElementOK(fn, i, Script[fn][i])
  BY <1>11, <1>24
<1>36. fn = "member" => ElementOK(fn, i, Script[fn][i])
  BY <1>12, <1>24
<1>37. fn = "type" => ElementOK(fn, i, Script[fn][i])
  BY <1>13, <1>24
<1>38. fn = "typename" => ElementOK(fn, i, Script[fn][i])
  BY <1>14, <1>24
<1>39. fn = "bound" => ElementOK(fn, i, Script[fn][i])
  BY <1>15, <1>24
<1>40. fn = "break" => ElementOK(fn, i, Script[fn][i])
  BY <1>16, <1>24
<1>41. fn = "if" => ElementOK(fn, i, Script[fn][i])
  BY <1>17, <1>24
<1>42. fn = "match" => ElementOK(fn, i, Script[fn][i])
  BY <1>18, <1>24
<1>43. fn = "case" => ElementOK(fn, i, Script[fn][i])
  BY <1>19, <1>24
<1>44. fn = "default" => ElementOK(fn, i, Script[fn][i])
  BY <1>20, <1>24
<1>45. fn = "ret" => ElementOK(fn, i, Script[fn][i])
  BY <1>21, <1>24
<1>46. fn = "until" => ElementOK(fn, i, Script[fn][i])
  BY <1>22, <1>24
<1>47. fn = "var" => ElementOK(fn, i, Script[fn][i])
  BY <1>23, <1>24
<1> QED
  BY <1>25, <1>26, <1>27, <1>28, <1>29, <1>30, <1>31, <1>32, <1>33, <1>34,
     <1>35, <1>36, <1>37, <1>38, <1>39, <1>40, <1>41, <1>42, <1>43,
     <1>44, <1>45, <1>46, <1>47 DEF Scripts

-----------------------------------------------------------------------------
(* Frames that begin, and frames that go on.                               *)

\* A sequence with one element added at the end.
LEMMA AtEnd ==
    ASSUME NEW S, NEW u \in Seq(S), NEW f \in S, NEW w \in Seq(S), Len(w) = Len(u) + 1,
           \A i \in 1 .. Len(u) : w[i] = u[i], w[Len(w)] = f
    PROVE  u \o <<f>> = w
<1> DEFINE v == <<f>>
<1>1. Len(v) = 1 /\ v[1] = f /\ v \in Seq(S)
  OBVIOUS
<1> HIDE DEF v
<1>2. Len(u \o v) = Len(u) + Len(v) /\ u \o v \in Seq(S)
  BY <1>1, Concat
<1>3. Len(u \o v) = Len(u) + 1 /\ u \o v \in Seq(S)
  BY <1>1, <1>2
<1>4. /\ \A j \in 1 .. Len(u) : (u \o v)[j] = u[j]
      /\ \A j \in 1 .. Len(u \o v) :
            j > Len(u) => /\ j - Len(u) \in 1 .. Len(v)
                          /\ (u \o v)[j] = v[j - Len(u)]
  BY <1>1, Concat
<1>5. \A i \in 1 .. Len(w) : (u \o v)[i] = w[i]
  <2> TAKE i \in 1 .. Len(w)
  <2>1. i \in 1 .. Len(u) \/ i = Len(u) + 1
    OBVIOUS
  <2>2. Len(u) + 1 - Len(u) = 1 /\ Len(u) + 1 > Len(u) /\ Len(u) + 1 \in 1 .. Len(u \o v)
    BY <1>3
  <2> QED
    BY <2>1, <2>2, <1>3, <1>1, <1>4
<1>6. u \o v = w
  BY <1>1, <1>3, <1>5
<1> QED
  BY <1>6 DEF v

\* A frame on top of another.
LEMMA TwoFrames ==
    ASSUME NEW S, NEW a \in S, NEW f \in S
    PROVE  <<a>> \o <<f>> = <<a, f>>
<1> DEFINE u == <<a>>
           w == <<a, f>>
<1>2. u \in Seq(S) /\ w \in Seq(S) /\ Len(w) = Len(u) + 1 /\ (\A i \in 1 .. Len(u) : w[i] = u[i]) /\ w[Len(w)] = f
  OBVIOUS
<1> HIDE DEF u, w
<1>3. u \o <<f>> = w
  BY <1>2, AtEnd
<1> QED
  BY <1>3 DEF u, w

\* Two frames on top of another.
LEMMA ThreeFrames ==
    ASSUME NEW S, NEW a \in S, NEW b \in S, NEW f \in S
    PROVE  <<a, b>> \o <<f>> = <<a, b, f>>
<1> DEFINE u == <<a, b>>
           w == <<a, b, f>>
<1>2. u \in Seq(S) /\ w \in Seq(S) /\ Len(w) = Len(u) + 1  /\ w[Len(w)] = f
  OBVIOUS
<1>1. \A i \in 1 .. Len(u) : w[i] = u[i]
  <2> TAKE i \in 1 .. Len(u)
  <2>1. i = 1 \/ i = 2
    OBVIOUS
  <2> QED
    BY <2>1
<1> HIDE DEF u, w
<1>3. u \o <<f>> = w
  BY <1>1, <1>2, AtEnd
<1> QED
  BY <1>3 DEF u, w

\* A frame that is before a token is before the tokens after it.
LEMMA BeforeLater ==
    ASSUME NEW d \in Seq(NodeSet), NEW f, Ordered(f, d),
           NEW c \in Nat, NEW c2 \in Nat, c <= c2, Before(f, d, c)
    PROVE  Before(f, d, c2)
<1> SUFFICES ASSUME NEW k \in 1 .. Len(f.kids) PROVE d[f.kids[k]].hi < c2
  BY DEF Before
<1>1. f.kids[k] \in 1 .. Len(d) /\ d[f.kids[k]].hi < c
  BY DEF Ordered, Before
<1>2. d[f.kids[k]].hi \in Nat
  BY <1>1, NodeFields
<1> QED
  BY <1>1, <1>2

\* A frame without kids.
LEMMA NoKids ==
    ASSUME NEW f, f.kids = <<>>, NEW d, NEW c
    PROVE  Ordered(f, d) /\ Before(f, d, c) /\ Len(f.kids) = 0
<1>1. Len(f.kids) = 0 /\ 1 .. 0 = {} /\ 2 .. 0 = {}
  OBVIOUS
<1> QED
  BY <1>1 DEF Ordered, Before

\* A new frame.
LEMMA NewFrame ==
    ASSUME NEW fn \in Functions, NEW st \in States, NEW lo \in Nat \ {0},
           NEW kids \in Seq(Nat \ {0})
    PROVE  /\ Frame(fn, st, lo, kids) \in Frames
           /\ Frame(fn, st, lo, kids).fn = fn /\ Frame(fn, st, lo, kids).st = st
           /\ Frame(fn, st, lo, kids).lo = lo /\ Frame(fn, st, lo, kids).kids = kids
           /\ Frame(fn, st, lo, kids).at = 0 /\ Frame(fn, st, lo, kids).i = 1
<1>1. 1 \in Nat \ {0} /\ 0 \in Nat
  OBVIOUS
<1> QED
  BY <1>1 DEF Frame, Frames

\* A new frame without kids.
LEMMA NewEmpty ==
    ASSUME NEW fn \in Functions, NEW st \in States, NEW lo \in Nat \ {0}
    PROVE  /\ Frame(fn, st, lo, <<>>) \in Frames
           /\ Frame(fn, st, lo, <<>>).fn = fn /\ Frame(fn, st, lo, <<>>).st = st
           /\ Frame(fn, st, lo, <<>>).lo = lo /\ Frame(fn, st, lo, <<>>).kids = <<>>
           /\ Frame(fn, st, lo, <<>>).at = 0
<1> DEFINE ks == <<>>
<1>1. ks \in Seq(Nat \ {0})
  OBVIOUS
<1> HIDE DEF ks
<1>2. /\ Frame(fn, st, lo, ks) \in Frames
      /\ Frame(fn, st, lo, ks).fn = fn /\ Frame(fn, st, lo, ks).st = st
      /\ Frame(fn, st, lo, ks).lo = lo /\ Frame(fn, st, lo, ks).kids = ks
      /\ Frame(fn, st, lo, ks).at = 0
  BY <1>1, NewFrame
<1> QED
  BY <1>2 DEF ks

\* fn may begin at token t, the c-th.
MayBegin(fn, st, d, c, t) ==
    /\ fn \in Functions \ {"unit", "postfix", "binary", "member"} /\ st \in States
    /\ fn = "block" /\ st = "open" => t = "{"
    /\ fn \in {"prefix", "leaf"} => st = "start"
    /\ fn \in {"primary", "usespec"} => \A n \in 1 .. Len(d) : d[n].hi < c

\* The frame of a function that begins.
LEMMA FreshFrame ==
    ASSUME NEW fn, NEW st, NEW c \in Nat \ {0}, NEW m \in Nat, c <= m,
           NEW d, NEW t, NEW l, MayBegin(fn, st, d, c, t)
    PROVE  /\ Frame(fn, st, c, <<>>) \in FramesOf(m)
           /\ Frame(fn, st, c, <<>>).fn = fn /\ Frame(fn, st, c, <<>>).st = st
           /\ Frame(fn, st, c, <<>>).lo = c /\ Frame(fn, st, c, <<>>).kids = <<>>
           /\ Sits(Frame(fn, st, c, <<>>), d, c)
           /\ Ready(Frame(fn, st, c, <<>>), d, c, t, l)
<1> DEFINE a == Frame(fn, st, c, <<>>)
<1>1. /\ a \in Frames /\ a.fn = fn /\ a.st = st /\ a.lo = c /\ a.kids = <<>> /\ a.at = 0
  <2>1. fn \in Functions /\ st \in States
    BY DEF MayBegin
  <2> QED
    BY <2>1, NewEmpty
<1> HIDE DEF a
<1>2. a \in FramesOf(m)
  BY <1>1 DEF FramesOf
<1>3. Ordered(a, d) /\ Before(a, d, c)
  BY <1>1, NoKids
<1>4. Sits(a, d, c)
  <2>1. fn # "unit"
    BY DEF MayBegin
  <2>4. a.lo <= c
    BY <1>1
  <2>2. Deciding(a) => fn \in {"primary", "usespec"}
    BY <1>1 DEF Deciding
  <2>3. Deciding(a) => \A n \in 1 .. Len(d) : d[n].hi < a.lo
    BY <1>1, <2>2 DEF MayBegin
  <2> QED
    BY <1>1, <1>3, <2>1, <2>3, <2>4 DEF Sits
<1>5. Ready(a, d, c, t, l)
  <2>1. fn \notin {"unit", "postfix", "binary", "member"}
    BY DEF MayBegin
  <2>2. fn \in {"prefix", "leaf"} => st = "start"
    BY DEF MayBegin
  <2>3. fn = "block" /\ st = "open" => t = "{"
    BY DEF MayBegin
  <2>4. a.lo <= c
    BY <1>1
  <2> QED
    BY <1>1, <1>3, <2>1, <2>2, <2>3, <2>4 DEF Ready
<1> QED
  BY <1>1, <1>2, <1>4, <1>5 DEF a

\* parse_expr begins: parse_binary, around the parser of a unary expression.
LEMMA FreshBinary ==
    ASSUME NEW c \in Nat \ {0}, NEW m \in Nat, c <= m, NEW d
    PROVE  LET a == Frame("prefix", "start", c, <<>>)
               b == Frame("binary", "loop", c, <<>>)
           IN  /\ b \in FramesOf(m) /\ b.fn = "binary" /\ b.lo = c
               /\ Sits(b, d, c) /\ Waits(a, b, d) /\ ~Deciding(b)
<1> DEFINE a == Frame("prefix", "start", c, <<>>)
           b == Frame("binary", "loop", c, <<>>)
<1>1. /\ b \in Frames /\ b.fn = "binary" /\ b.st = "loop" /\ b.lo = c /\ b.kids = <<>>
      /\ b.at = 0
  <2>1. "binary" \in Functions /\ "loop" \in States
    BY Named DEF States
  <2> HIDE DEF a
  <2>2. /\ Frame("binary", "loop", c, <<>>) \in Frames /\ b.fn = "binary" /\ b.st = "loop"
        /\ b.lo = c /\ b.kids = <<>> /\ b.at = 0
    BY <2>1, NewEmpty
  <2> QED
    BY <2>2
<1>2. a.fn = "prefix" /\ a.lo = c
  BY DEF Frame
<1> HIDE DEF a, b
<1>3. b \in FramesOf(m)
  BY <1>1 DEF FramesOf
<1>4. Ordered(b, d) /\ Before(b, d, c)
  BY <1>1, NoKids
<1>5. ~Deciding(b) /\ ~Fresh(b)
  BY <1>1 DEF Deciding, Fresh
<1>6. Sits(b, d, c)
  BY <1>1, <1>4, <1>5 DEF Sits
<1>7. ~Childless(b)
  BY <1>1, <1>5 DEF Childless, Nodeless
<1>8. Waits(a, b, d)
  BY <1>1, <1>2, <1>4, <1>5, <1>7 DEF Waits, Nodeless
<1> QED
  BY <1>1, <1>3, <1>5, <1>6, <1>8 DEF a, b

\* The function on top of a new call
Entered(fn) == IF fn = "expr" THEN "binary" ELSE fn

\* What any function may call
Calling == Callable \cup {"field", "typename", "bound", "case", "default", "stmt", "break",
                          "var", "if", "match", "ret", "until"}

\* What a call puts on the stack.
LEMMA CalleeIs ==
    ASSUME NEW fn \in Calling \ {"expr"}, NEW c
    PROVE  \E st \in States : Callee(fn, c) = <<Frame(fn, st, c, <<>>)>>
                              /\ (fn = "leaf" => st = "start")
<1>1. CASE fn = "leaf"
  BY <1>1, Named DEF Callee, ListNames, States
<1>2. CASE fn \in ListNames
  <2>1. Callee(fn, c) = <<Frame(fn, "open", c, <<>>)>>
    BY <1>2, Named DEF Callee, ListNames
  <2> QED
    BY <1>2, <2>1 DEF ListNames, States
<1>3. CASE fn # "leaf" /\ fn \notin ListNames
  <2>1. Callee(fn, c) = <<Frame(fn, "start", c, <<>>)>>
    BY <1>3, Named DEF Callee, Calling, Callable
  <2> QED
    BY <1>3, <2>1 DEF States
<1> QED
  BY <1>1, <1>2, <1>3

\* f waits for a function that begins at c.
Awaits(f, fn, d, c) == \A a : a.fn = Entered(fn) /\ a.lo = c => Waits(a, f, d)

\* The function on top calls another one, and goes on as f.
LEMMA Calling1 ==
    ASSUME PInv, Stay, UNCHANGED nodes, UNCHANGED <<lexicon, status>>,
           NEW fn \in Calling, NEW f, f \in FramesOf(Len(toks)),
           Call(f, fn), Top.fn # "unit",
           Sits(f, nodes, cur), Awaits(f, fn, nodes, cur),
           Deciding(f) => fn \in Ahead,
           Top.fn \in Ahead => fn \in Ahead /\ f.fn \in Ahead,
           StandsFor(f, Top)
    PROVE  PInv'
<1>1. /\ cur \in Nat \ {0} /\ cur <= Len(toks) /\ Len(toks) \in Nat
  BY TopFacts
<1>2. /\ Reading /\ cur' = cur /\ toks' = toks /\ Token' = Token /\ Last' = Last
      /\ cur' \in Nat /\ nodes' = nodes /\ Len(toks') = Len(toks)
  BY Stays DEF PInv, Reads
<1>3. Grown' /\ Extends(nodes, nodes')
  BY <1>1, <1>2, NodesStay
<1>4. Calling \subseteq Functions \cup {"expr"}
  BY Named DEF Calling, Callable, Scripts, ListNames
<1>5. CASE fn = "expr"
  <2> DEFINE a == Frame("prefix", "start", cur, <<>>)
             b == Frame("binary", "loop", cur, <<>>)
  <2>1. /\ a \in FramesOf(Len(toks)) /\ Sits(a, nodes, cur)
        /\ Ready(a, nodes, cur, Token, Last)
    <3>1. MayBegin("prefix", "start", nodes, cur, Token)
      BY Named DEF States, MayBegin
    <3> QED
      BY <1>1, <3>1, FreshFrame
  <2>2. /\ b \in FramesOf(Len(toks)) /\ b.fn = "binary" /\ b.lo = cur
        /\ Sits(b, nodes, cur) /\ Waits(a, b, nodes) /\ ~Deciding(b)
    BY <1>1, FreshBinary
  <2>3. stack' = <<a, b, f>> \o Rest
    <3>1. Callee(fn, cur) = <<a, b>>
      BY <1>5, Named DEF Callee, ListNames
    <3>3. a \in FramesOf(Len(toks)) /\ b \in FramesOf(Len(toks))
      BY <2>1, <2>2
    <3> HIDE DEF a, b
    <3>2. <<a, b>> \o <<f>> = <<a, b, f>>
      BY <3>3, ThreeFrames
    <3> QED
      BY <3>1, <3>2 DEF Call
  <2>4. Waits(b, f, nodes)
    BY <1>5, <2>2 DEF Awaits, Entered
  <2>5. ~Deciding(f) /\ Top.fn \notin Ahead
    BY <1>5 DEF Ahead
  <2> HIDE DEF a, b
  <2> QED
    BY <1>2, <1>3, <2>1, <2>2, <2>3, <2>4, <2>5, CallsExpr
<1>6. CASE fn # "expr"
  <2>1. PICK st \in States : Callee(fn, cur) = <<Frame(fn, st, cur, <<>>)>>
                             /\ (fn = "leaf" => st = "start")
    BY <1>6, CalleeIs
  <2> DEFINE a == Frame(fn, st, cur, <<>>)
  <2>2. fn \in Functions \ {"unit", "postfix", "binary", "member"}
        /\ fn \notin {"block", "prefix", "primary", "usespec"}
    BY <1>4, <1>6 DEF Calling, Callable
  <2>3. /\ a \in FramesOf(Len(toks)) /\ Sits(a, nodes, cur) /\ a.fn = fn /\ a.lo = cur
        /\ Ready(a, nodes, cur, Token, Last)
    <3>1. MayBegin(fn, st, nodes, cur, Token)
      BY <2>1, <2>2 DEF MayBegin
    <3> QED
      BY <1>1, <3>1, FreshFrame
  <2>4. stack' = <<a, f>> \o Rest
    <3>1. Callee(fn, cur) = <<a>>
      BY <2>1
    <3>3. a \in FramesOf(Len(toks))
      BY <2>3
    <3> HIDE DEF a
    <3>2. <<a>> \o <<f>> = <<a, f>>
      BY <3>3, TwoFrames
    <3> QED
      BY <3>1, <3>2 DEF Call
  <2> HIDE DEF a
  <2>5. Waits(a, f, nodes)
    BY <1>6, <2>3 DEF Awaits, Entered
  <2>6. Deciding(f) => a.fn \in Ahead
    BY <2>3
  <2>7. Top.fn \in Ahead => cur <= cur' /\ nodes' = nodes /\ a.fn \in Ahead /\ f.fn \in Ahead
    BY <1>1, <1>2, <2>3
  <2> QED
    BY <1>2, <1>3, <2>3, <2>4, <2>5, <2>6, <2>7, Calls
<1> QED
  BY <1>5, <1>6

\* The functions whose frames say little: all but those that return a node of
\* the tree as it is, or read ahead
Plain(f) ==
    /\ f.fn \in Scripts \cup ListNames \cup {"suffix", "declare", "cases"}
    /\ f.st \in {"start", "open", "sep"}

\* Two frames of one function with the same kids.
LEMMA LikeKids ==
    ASSUME NEW f, NEW g, g.lo = f.lo, g.kids = f.kids, NEW d
    PROVE  /\ Ordered(f, d) => Ordered(g, d)
           /\ \A c : Before(f, d, c) => Before(g, d, c)
           /\ TargsOnly(f, d) => TargsOnly(g, d)
BY DEF Ordered, Before, TargsOnly

\* A plain frame is none of the others.
LEMMA PlainFrame ==
    ASSUME NEW f, Plain(f)
    PROVE  /\ ~Fresh(f) /\ ~Deciding(f) /\ (Childless(f) <=> f.fn \in Nodeless)
           /\ f.fn \notin {"unit", "prefix", "postfix", "leaf", "binary", "block", "primary"}
           /\ f.st # "peek"
<1>1. /\ f.fn \in Scripts \cup ListNames \cup {"suffix", "declare", "cases"}
      /\ f.st \in {"start", "open", "sep"}
  BY DEF Plain
<1>2. f.fn \notin {"unit", "prefix", "postfix", "leaf", "binary", "block", "primary", "ref",
                   "stmt"}
  BY <1>1 DEF Scripts, ListNames
<1>3. f.st \notin {"peek", "ahead", "named"}
  BY <1>1
<1>4. ~Fresh(f) /\ ~Deciding(f)
  BY <1>2, <1>3 DEF Fresh, Deciding
<1>5. Childless(f) <=> f.fn \in Nodeless
  BY <1>4 DEF Childless
<1> QED
  BY <1>2, <1>3, <1>4, <1>5

\* A plain function goes on, with the kids it has.
LEMMA GoesOn ==
    ASSUME PInv, Plain(Top), Reading, UNCHANGED nodes, cur' \in Nat, cur <= cur',
           NEW g, g \in FramesOf(Len(toks')), Plain(g),
           g.fn = Top.fn, g.lo = Top.lo, g.kids = Top.kids, Become(g),
           g.fn = "member" => /\ g.i \in 1 .. 11
                              /\ g.i <= 9 \/ (g.i = 11 /\ Last' # ")") => TargsOnly(Top, nodes)
    PROVE  PInv'
<1>1. /\ Top \in Frames /\ Ready(Top, nodes, cur, Token, Last) /\ Ordered(Top, nodes)
      /\ cur \in Nat \ {0} /\ nodes \in Seq(NodeSet) /\ Top.lo \in Nat \ {0}
  BY TopFacts
<1>2. Grown' /\ Extends(nodes, nodes') /\ nodes' = nodes
  BY NodesStay
<1>3. Ordered(g, nodes) /\ Before(g, nodes, cur')
  <2>1. Before(Top, nodes, cur')
    BY <1>1, BeforeLater DEF Ready
  <2> QED
    BY <1>1, <2>1, LikeKids
<1>4. /\ ~Fresh(g) /\ ~Deciding(g) /\ (Childless(g) <=> g.fn \in Nodeless)
      /\ g.fn \notin {"unit", "prefix", "postfix", "leaf", "binary", "block", "primary"}
  BY PlainFrame
<1>5. Sits(g, nodes', cur')
  BY <1>2, <1>3, <1>4 DEF Sits
<1>6. Childless(Top) <=> Top.fn \in Nodeless
  BY PlainFrame
<1>7. Childless(g) => g.kids = <<>>
  BY <1>1, <1>4, <1>6 DEF Ready
<1>8. g.lo <= cur'
  <2>1. Top.lo <= cur
    BY <1>1 DEF Ready
  <2> QED
    BY <1>1, <2>1
<1>9. g.fn = "member" =>
         /\ g.kids # <<>>
         /\ g.i <= 9 \/ (g.i = 11 /\ Last' # ")") => TargsOnly(g, nodes)
         /\ g.i \in 1 .. 11
  <2>1. TargsOnly(Top, nodes) => TargsOnly(g, nodes)
    BY LikeKids
  <2>2. Top.fn = "member" => Top.kids # <<>>
    BY <1>1 DEF Ready
  <2> QED
    BY <2>1, <2>2
<1>10. Ready(g, nodes', cur', Token', Last')
  BY <1>2, <1>3, <1>4, <1>7, <1>8, <1>9 DEF Ready
<1>11. stack' = <<g>> \o Rest
  BY DEF Become
<1>12. StandsFor(g, Top) /\ Top.fn # "unit"
  BY <1>4 DEF StandsFor
<1>13. Top.fn \in Ahead => cur <= cur' /\ nodes' = nodes /\ g.fn \in Ahead
  BY <1>2
<1> QED
  BY <1>2, <1>5, <1>10, <1>11, <1>12, <1>13, Becomes

\* A plain function calls another one.
LEMMA CallsOn ==
    ASSUME PInv, Plain(Top), Stay, UNCHANGED nodes, UNCHANGED <<lexicon, status>>,
           NEW fn \in Calling,
           NEW g, g \in FramesOf(Len(toks)), Plain(g),
           g.fn = Top.fn, g.lo = Top.lo, g.kids = Top.kids, Call(g, fn),
           g.fn \notin {"bound", "declare"}, g.fn \in Nodeless => fn \in Ahead,
           fn \in Nodeless => g.fn \in {"NAMES", "typename", "type", "suffix", "var"},
           g.fn = "member" => \/ g.i = 6 /\ fn = "TARGS" /\ TargsOnly(Top, nodes)
                              \/ g.i = 10
    PROVE  PInv'
<1>1. /\ Top \in Frames /\ Ready(Top, nodes, cur, Token, Last) /\ Ordered(Top, nodes)
      /\ cur \in Nat \ {0} /\ nodes \in Seq(NodeSet) /\ Top.lo \in Nat \ {0}
  BY TopFacts
<1>3. Ordered(g, nodes) /\ Before(g, nodes, cur)
  <2>1. Before(Top, nodes, cur)
    BY <1>1 DEF Ready
  <2> QED
    BY <1>1, <2>1, LikeKids
<1>4. /\ ~Fresh(g) /\ ~Deciding(g) /\ (Childless(g) <=> g.fn \in Nodeless)
      /\ g.fn \notin {"unit", "prefix", "postfix", "leaf", "binary", "block", "primary"}
      /\ g.st # "peek"
  BY PlainFrame
<1>5. Sits(g, nodes, cur)
  BY <1>3, <1>4 DEF Sits
<1>6. Childless(Top) <=> Top.fn \in Nodeless
  BY PlainFrame
<1>7. Childless(g) => g.kids = <<>>
  BY <1>1, <1>4, <1>6 DEF Ready
<1>8. g.lo <= cur
  BY <1>1 DEF Ready
<1>9. g.fn = "member" => g.kids # <<>> /\ (TargsOnly(Top, nodes) => TargsOnly(g, nodes))
  BY <1>1, LikeKids DEF Ready
<1>10. ASSUME NEW a, a.fn = Entered(fn), a.lo = cur PROVE Waits(a, g, nodes)
  <2>1. a.fn \in Nodeless => fn \in Nodeless
    BY <1>10 DEF Entered, Nodeless
  <2>2. fn \in Ahead => a.fn \in Ahead
    BY <1>10 DEF Entered, Ahead
  <2>3. g.fn = "member" =>
           /\ g.kids # <<>> /\ g.i \in {6, 10}
           /\ g.i = 6 => TargsOnly(g, nodes) /\ a.fn = "TARGS"
    BY <1>9, <1>10 DEF Entered
  <2>4. Childless(g) => g.kids = <<>> /\ a.fn \in Ahead /\ g.st # "peek"
    BY <1>4, <1>7, <2>2, PlainFrame
  <2>5. a.fn \in Nodeless =>
          g.fn \in {"primary", "usespec", "NAMES", "typename", "type", "suffix", "var"}
    BY <2>1
  <2>6. a.fn \in Nodeless => g.fn # "usespec"
    BY <2>1
  <2> QED
    BY <1>3, <1>4, <1>8, <1>10, <2>3, <2>4, <2>5, <2>6 DEF Waits
<1>11. Awaits(g, fn, nodes, cur)
  BY <1>10 DEF Awaits
<1>12. StandsFor(g, Top) /\ Top.fn # "unit"
  BY <1>4 DEF StandsFor
<1>13. Top.fn \in Ahead => fn \in Ahead /\ g.fn \in Ahead
  BY DEF Ahead, Nodeless
<1> QED
  BY <1>4, <1>5, <1>11, <1>12, <1>13, Calling1

\* How long the scripts are.
LEMMA Lengths ==
    ASSUME NEW fn \in Scripts
    PROVE  Len(Script[fn]) \in Nat /\ (fn = "member" => Len(Script[fn]) = 10)
<1>1. fn = "paren" => Len(Script[fn]) = 3
  BY DEF Script, ParenScript
<1>2. fn = "cast" => Len(Script[fn]) = 5
  BY DEF Script, CastScript
<1>3. fn = "sizeof" => Len(Script[fn]) = 4
  BY DEF Script, SizeofScript
<1>4. fn = "array" => Len(Script[fn]) = 3
  BY DEF Script, ArrayScript
<1>5. fn = "call" => Len(Script[fn]) = 8
  BY DEF Script, CallScript
<1>6. fn = "usespec" => Len(Script[fn]) = 3
  BY DEF Script, UseSpecScript
<1>7. fn = "spec" => Len(Script[fn]) = 3
  BY DEF Script, SpecScript
<1>8. fn = "init" => Len(Script[fn]) = 4
  BY DEF Script, InitScript
<1>9. fn = "field" => Len(Script[fn]) = 3
  BY DEF Script, FieldScript
<1>10. fn = "rune" => Len(Script[fn]) = 8
  BY DEF Script, RuneScript
<1>11. fn = "index" => Len(Script[fn]) = 3
  BY DEF Script, IndexScript
<1>12. fn = "member" => Len(Script[fn]) = 10
  BY DEF Script, MemberScript
<1>13. fn = "type" => Len(Script[fn]) = 9
  BY DEF Script, TypeScript
<1>14. fn = "typename" => Len(Script[fn]) = 10
  BY DEF Script, TypeNameScript
<1>15. fn = "bound" => Len(Script[fn]) = 3
  BY DEF Script, BoundScript
<1>16. fn = "break" => Len(Script[fn]) = 2
  BY DEF Script, BreakScript
<1>17. fn = "if" => Len(Script[fn]) = 6
  BY DEF Script, IfScript
<1>18. fn = "match" => Len(Script[fn]) = 5
  BY DEF Script, MatchScript
<1>19. fn = "case" => Len(Script[fn]) = 3
  BY DEF Script, CaseScript
<1>20. fn = "default" => Len(Script[fn]) = 3
  BY DEF Script, DefaultScript
<1>21. fn = "ret" => Len(Script[fn]) = 4
  BY DEF Script, RetScript
<1>22. fn = "until" => Len(Script[fn]) = 3
  BY DEF Script, UntilScript
<1>23. fn = "var" => Len(Script[fn]) = 12
  BY DEF Script, VarScript
<1> QED
  BY <1>1, <1>2, <1>3, <1>4, <1>5, <1>6, <1>7, <1>8, <1>9, <1>10, <1>11,
     <1>12, <1>13, <1>14, <1>15, <1>16, <1>17, <1>18, <1>19, <1>20,
     <1>21, <1>22, <1>23 DEF Scripts

\* A frame, one field or two of which change.
LEMMA StepFrame ==
    ASSUME NEW m, NEW f \in FramesOf(m), NEW k \in Nat
    PROVE  LET g == [f EXCEPT !.i = @ + k] IN
           /\ g \in FramesOf(m)
           /\ g.fn = f.fn /\ g.st = f.st /\ g.lo = f.lo /\ g.at = f.at /\ g.kids = f.kids
           /\ g.i = f.i + k
<1> DEFINE g == [f EXCEPT !.i = @ + k]
<1>1. f \in Frames /\ f.lo <= m /\ f.at <= m
  BY DEF FramesOf
<1>2. f.i + k \in Nat \ {0}
  BY <1>1, FrameFields
<1>3. /\ g \in Frames
      /\ g.fn = f.fn /\ g.st = f.st /\ g.lo = f.lo /\ g.at = f.at /\ g.kids = f.kids
      /\ g.i = f.i + k
  BY <1>1, <1>2 DEF Frames
<1> HIDE DEF g
<1>4. g \in FramesOf(m)
  BY <1>1, <1>3 DEF FramesOf
<1> QED
  BY <1>3, <1>4 DEF g

\* Moving to another state of its function keeps a frame within the tokens read.
LEMMA StFrame ==
    ASSUME NEW m, NEW f \in FramesOf(m), NEW st \in States
    PROVE  LET g == [f EXCEPT !.st = st] IN
           /\ g \in FramesOf(m)
           /\ g.fn = f.fn /\ g.lo = f.lo /\ g.at = f.at /\ g.kids = f.kids /\ g.i = f.i
           /\ g.st = st
<1> DEFINE g == [f EXCEPT !.st = st]
<1>1. f \in Frames /\ f.lo <= m /\ f.at <= m
  BY DEF FramesOf
<1>3. /\ g \in Frames
      /\ g.fn = f.fn /\ g.lo = f.lo /\ g.at = f.at /\ g.kids = f.kids /\ g.i = f.i
      /\ g.st = st
  BY <1>1 DEF Frames
<1> HIDE DEF g
<1>4. g \in FramesOf(m)
  BY <1>1, <1>3 DEF FramesOf
<1> QED
  BY <1>3, <1>4 DEF g

\* So does taking other nodes,
LEMMA KidsFrame ==
    ASSUME NEW m, NEW f \in FramesOf(m), NEW ks \in Seq(Nat \ {0})
    PROVE  LET g == [f EXCEPT !.kids = ks] IN
           /\ g \in FramesOf(m)
           /\ g.fn = f.fn /\ g.st = f.st /\ g.lo = f.lo /\ g.at = f.at /\ g.i = f.i
           /\ g.kids = ks
<1> DEFINE g == [f EXCEPT !.kids = ks]
<1>1. f \in Frames /\ f.lo <= m /\ f.at <= m
  BY DEF FramesOf
<1>3. /\ g \in Frames
      /\ g.fn = f.fn /\ g.st = f.st /\ g.lo = f.lo /\ g.at = f.at /\ g.i = f.i
      /\ g.kids = ks
  BY <1>1 DEF Frames
<1> HIDE DEF g
<1>4. g \in FramesOf(m)
  BY <1>1, <1>3 DEF FramesOf
<1> QED
  BY <1>3, <1>4 DEF g

\* and so does remembering the current position, the place of an operator.
LEMMA AtFrame ==
    ASSUME NEW m, NEW f \in FramesOf(m), NEW c \in Nat, c <= m
    PROVE  LET g == [f EXCEPT !.at = c] IN
           /\ g \in FramesOf(m)
           /\ g.fn = f.fn /\ g.st = f.st /\ g.lo = f.lo /\ g.at = c /\ g.i = f.i
           /\ g.kids = f.kids
<1> DEFINE g == [f EXCEPT !.at = c]
<1>1. f \in Frames /\ f.lo <= m /\ f.at <= m
  BY DEF FramesOf
<1>3. /\ g \in Frames
      /\ g.fn = f.fn /\ g.st = f.st /\ g.lo = f.lo /\ g.at = c /\ g.i = f.i
      /\ g.kids = f.kids
  BY <1>1 DEF Frames
<1> HIDE DEF g
<1>4. g \in FramesOf(m)
  BY <1>1, <1>3 DEF FramesOf
<1> QED
  BY <1>3, <1>4 DEF g

-----------------------------------------------------------------------------
(* The steps of the functions without loops.                               *)

\* The function that runs, and the element it is at.
LEMMA ScriptTop ==
    ASSUME PInv, Scripted
    PROVE  /\ Top.fn \in Scripts /\ Plain(Top) /\ Top.i \in Nat \ {0}
           /\ ~Ended => ElementOK(Top.fn, Top.i, Element)
           /\ Top.fn = "member" /\ ~Ended => Top.i \in 1 .. 10
           /\ Top.fn = "member" => Top.i \in 1 .. 11
           /\ Top.fn = "member" /\ Top.i <= 9 => TargsOnly(Top, nodes)
<1>1. Top.fn \in Scripts /\ Top.st = "start"
  BY Named DEF Scripted
<1>2. Plain(Top)
  BY <1>1 DEF Plain
<1>3. Top.i \in Nat \ {0} /\ Ready(Top, nodes, cur, Token, Last)
  BY TopFacts, FrameFields
<1>4. Len(Script[Top.fn]) \in Nat /\ (Top.fn = "member" => Len(Script[Top.fn]) = 10)
  BY <1>1, Lengths
<1>5. ~Ended => Top.i \in 1 .. Len(Script[Top.fn])
  BY <1>3, <1>4 DEF Ended
<1>6. ~Ended => ElementOK(Top.fn, Top.i, Element)
  BY <1>1, <1>5, Elements DEF Element
<1>7. Top.fn = "member" => Top.i \in 1 .. 11 /\ (Top.i <= 9 => TargsOnly(Top, nodes))
  BY <1>3 DEF Ready
<1> QED
  BY <1>1, <1>2, <1>3, <1>4, <1>5, <1>6, <1>7

\* The frame of a function that is done with some elements.
LEMMA ScriptSteps ==
    ASSUME PInv, Scripted, NEW k \in Nat
    PROVE  /\ Step(k) \in FramesOf(Len(toks)) /\ Plain(Step(k))
           /\ Step(k).fn = Top.fn /\ Step(k).lo = Top.lo /\ Step(k).kids = Top.kids
           /\ Step(k).i = Top.i + k
<1>1. Top \in FramesOf(Len(toks)) /\ Plain(Top)
  BY TopFacts, ScriptTop
<1>2. /\ Step(k) \in FramesOf(Len(toks))
      /\ Step(k).fn = Top.fn /\ Step(k).lo = Top.lo /\ Step(k).kids = Top.kids
      /\ Step(k).i = Top.i + k /\ Step(k).st = Top.st
  BY <1>1, StepFrame DEF Step
<1> QED
  BY <1>1, <1>2 DEF Plain

\* A function that eats a token of its grammar rule keeps what its frame says.
LEMMA ScriptEatKeeps == PInv /\ ScriptEat => PInv'
<1> SUFFICES ASSUME PInv, ScriptEat PROVE PInv'
  OBVIOUS
<1>1. /\ Scripted /\ ~Ended /\ Element.do = "eat" /\ Token \in Element.set
      /\ Advance /\ Become(Step(1)) /\ nodes' = nodes /\ UNCHANGED <<lexicon, status>>
  BY DEF ScriptEat, Quiet
<1>2. /\ Top.fn \in Scripts /\ Plain(Top) /\ Top.i \in Nat \ {0}
      /\ ElementOK(Top.fn, Top.i, Element)
      /\ Top.fn = "member" => Top.i \in 1 .. 10
      /\ Top.fn = "member" /\ Top.i <= 9 => TargsOnly(Top, nodes)
  BY <1>1, ScriptTop
<1>3. Token # "eof"
  BY <1>1, <1>2 DEF ElementOK
<1>4. Reading /\ cur' = cur + 1 /\ Last' = Token /\ cur' \in Nat
  BY <1>1, <1>3, Advances DEF PInv, Reads
<1>5. /\ Step(1) \in FramesOf(Len(toks)) /\ Plain(Step(1))
      /\ Step(1).fn = Top.fn /\ Step(1).lo = Top.lo /\ Step(1).kids = Top.kids
      /\ Step(1).i = Top.i + 1
  BY <1>1, ScriptSteps
<1>6. cur <= cur' /\ Step(1) \in FramesOf(Len(toks'))
  <2>1. cur \in Nat /\ Len(toks) \in Nat
    BY TopFacts
  <2> QED
    BY <1>4, <1>5, <2>1, StillWithin DEF Reading
<1>7. Top.fn = "member" =>
         /\ Top.i + 1 \in 1 .. 11
         /\ Top.i + 1 <= 9 \/ (Top.i + 1 = 11 /\ Last' # ")") => TargsOnly(Top, nodes)
  <2>1. Top.fn = "member" /\ Top.i = 10 => Last' = ")"
    BY <1>1, <1>2, <1>4 DEF ElementOK
  <2> QED
    BY <1>2, <2>1
<1> QED
  BY <1>1, <1>2, <1>4, <1>5, <1>6, <1>7, GoesOn

\* So does its call of another function, whose frame starts at the current token:
\* the nodes that the caller holds end before it.
LEMMA ScriptCallKeeps == PInv /\ ScriptCall => PInv'
<1> SUFFICES ASSUME PInv, ScriptCall PROVE PInv'
  OBVIOUS
<1>1. /\ Scripted /\ ~Ended /\ Element.do = "call" /\ Call(Step(1), Element.fn)
      /\ Stay /\ nodes' = nodes /\ UNCHANGED <<lexicon, status>>
  BY DEF ScriptCall, Quiet
<1>2. /\ Top.fn \in Scripts /\ Plain(Top) /\ Top.i \in Nat \ {0}
      /\ ElementOK(Top.fn, Top.i, Element)
      /\ Top.fn = "member" /\ Top.i <= 9 => TargsOnly(Top, nodes)
  BY <1>1, ScriptTop
<1>3. /\ Element.fn \in Callable /\ Top.fn # "bound"
      /\ Element.fn \in Nodeless => Top.fn \in {"typename", "type", "var"}
      /\ Top.fn = "typename" => Element.fn \in Ahead
      /\ Top.fn = "member" => (Top.i = 5 /\ Element.fn = "TARGS") \/ Top.i = 9
  BY <1>1, <1>2 DEF ElementOK
<1>4. /\ Step(1) \in FramesOf(Len(toks)) /\ Plain(Step(1))
      /\ Step(1).fn = Top.fn /\ Step(1).lo = Top.lo /\ Step(1).kids = Top.kids
      /\ Step(1).i = Top.i + 1
  BY <1>1, ScriptSteps
<1>5. Element.fn \in Calling
  BY <1>3 DEF Calling
<1>6. Top.fn # "declare" /\ (Top.fn \in Nodeless => Top.fn \in {"typename", "bound"})
  BY <1>2 DEF Scripts, Nodeless
<1>7. Top.fn = "member" => \/ Step(1).i = 6 /\ Element.fn = "TARGS" /\ TargsOnly(Top, nodes)
                           \/ Step(1).i = 10
  BY <1>2, <1>3, <1>4
<1> QED
  BY <1>1, <1>2, <1>3, <1>4, <1>5, <1>6, <1>7, CallsOn

\* An optional part, read or passed over, leaves the frame in order.
LEMMA ScriptChooseKeeps == PInv /\ ScriptChoose => PInv'
<1> SUFFICES ASSUME PInv, ScriptChoose PROVE PInv'
  OBVIOUS
<1>1. /\ Scripted /\ ~Ended /\ Element.do \notin {"eat", "call"}
      /\ Stay /\ nodes' = nodes /\ UNCHANGED <<lexicon, status>>
  BY DEF ScriptChoose, Quiet
<1>2. /\ Top.fn \in Scripts /\ Plain(Top) /\ Top.i \in Nat \ {0}
      /\ ElementOK(Top.fn, Top.i, Element)
      /\ Top.fn = "member" /\ Top.i <= 9 => TargsOnly(Top, nodes)
  BY <1>1, ScriptTop
<1>3. PICK k \in {1, 1 + Element.skip} : Become(Step(k))
  BY DEF ScriptChoose
<1>4. k \in Nat /\ (Top.fn = "member" => Top.i \in {3, 7} /\ k \in {1, 4})
  BY <1>1, <1>2 DEF ElementOK
<1>5. Reading /\ cur' = cur /\ toks' = toks /\ cur' \in Nat
  BY <1>1, Stays DEF PInv, Reads
<1>6. /\ Step(k) \in FramesOf(Len(toks)) /\ Plain(Step(k))
      /\ Step(k).fn = Top.fn /\ Step(k).lo = Top.lo /\ Step(k).kids = Top.kids
      /\ Step(k).i = Top.i + k
  BY <1>1, <1>4, ScriptSteps
<1>7. Top.fn = "member" => Top.i + k \in 1 .. 11 /\ TargsOnly(Top, nodes)
  BY <1>2, <1>4
<1>8. cur <= cur'
  BY <1>5
<1> QED
  BY <1>1, <1>2, <1>3, <1>5, <1>6, <1>7, <1>8, GoesOn

\* A function ends, and returns a node of its kids.
LEMMA EndsMaking ==
    ASSUME PInv, Reading, cur' \in Nat, cur <= cur',
           NEW tag \in Tags, NEW at \in Nat,
           Make(tag, at, Top.lo, cur' - 1, Top.kids), Return(New),
           OperandsFit(tag, at, Top.lo, cur' - 1, Top.kids, nodes),
           Top.fn \notin Nodeless \cup {"unit"}, Top.fn = "TARGS" => tag = "TARGS"
    PROVE  PInv'
<1> DEFINE hi == cur' - 1
<1>1. cur \in Nat \ {0} /\ hi \in Nat /\ hi < cur' /\ cur - 1 <= hi
  <2>1. cur \in Nat /\ cur # 0 /\ cur' \in Nat /\ cur <= cur'
    BY TopFacts
  <2>2. \A c, c2 \in Nat : c # 0 /\ c <= c2 => c2 - 1 \in Nat /\ c2 - 1 < c2 /\ c - 1 <= c2 - 1
    OBVIOUS
  <2> QED
    BY <2>1, <2>2
<1>2. /\ Make(tag, at, Top.lo, hi, Top.kids)
      /\ OperandsFit(tag, at, Top.lo, hi, Top.kids, nodes)
  OBVIOUS
<1> HIDE DEF hi
<1>3. /\ Grown' /\ Extends(nodes, nodes')
      /\ New \in 1 .. Len(nodes') /\ Len(nodes') = New
      /\ nodes'[New] = Node(tag, at, Top.lo, hi, Top.kids)
  BY <1>1, <1>2, TopMakes
<1>4. /\ nodes'[New].lo = Top.lo /\ nodes'[New].hi = cur' - 1
      /\ Top.fn = "TARGS" => nodes'[New].tag = "TARGS"
  BY <1>3 DEF Node, hi
<1> QED
  BY <1>3, <1>4, Gives

\* A function whose rule has ended makes a node that covers what it read, and
\* hands it to its caller; a method call without its parentheses is an access,
\* which keeps the base and drops the rest.
LEMMA ScriptDoneKeeps == PInv /\ ScriptDone => PInv'
<1> SUFFICES ASSUME PInv, ScriptDone PROVE PInv'
  OBVIOUS
<1>1. Scripted /\ Stay /\ UNCHANGED <<lexicon, status>>
  BY DEF ScriptDone, Quiet
<1>2. Top.fn \in Scripts /\ Plain(Top)
  BY <1>1, ScriptTop
<1>3. Reading /\ cur' = cur /\ toks' = toks /\ cur' \in Nat /\ cur <= cur'
  BY <1>1, Stays, TopFacts DEF PInv, Reads
<1>4. CASE Top.fn \in Nodeless
  <2>1. ReturnNothing /\ nodes' = nodes
    BY <1>4 DEF ScriptDone
  <2> QED
    BY <1>3, <1>4, <2>1, Drops
<1>5. CASE Top.fn \notin Nodeless
  <2> DEFINE called == toks[cur - 1] = ")"
             access == Top.fn = "member" /\ ~called
             tag == CASE access -> "access"
                      [] Top.fn = "member" /\ called -> "mcall"
                      [] OTHER -> Top.fn
  <2>1. /\ Make(tag, 0, Top.lo, cur - 1, IF access THEN <<Top.kids[1]>> ELSE Top.kids)
        /\ Return(New)
    BY <1>5 DEF ScriptDone
  <2>2. tag \in Tags /\ tag # "bin"
    <3>1. tag \in {"access", "mcall", Top.fn}
      OBVIOUS
    <3>2. Top.fn \in Functions /\ Top.fn # "bin"
      BY <1>2, Named DEF Scripts
    <3> HIDE DEF tag
    <3> QED
      BY <3>1, <3>2 DEF Tags
  <2> HIDE DEF tag
  <2>3. Top.fn \notin Nodeless \cup {"unit"} /\ Top.fn # "TARGS"
    BY <1>2, <1>5 DEF Scripts
  <2>4. CASE ~access
    <3>1. Make(tag, 0, Top.lo, cur' - 1, Top.kids)
      BY <1>3, <2>1, <2>4
    <3>2. OperandsFit(tag, 0, Top.lo, cur' - 1, Top.kids, nodes)
      BY <2>2 DEF OperandsFit
    <3> HIDE DEF access
    <3> QED
      BY <1>3, <2>1, <2>2, <2>3, <3>1, <3>2, EndsMaking
  <2>5. CASE access
    <3> DEFINE ks == <<Top.kids[1]>>
               hi == cur - 1
    <3>1. Make(tag, 0, Top.lo, hi, ks)
      BY <2>1, <2>5
    <3>2. /\ Ready(Top, nodes, cur, Token, Last) /\ Ordered(Top, nodes)
          /\ Top \in Frames /\ nodes \in Seq(NodeSet) /\ cur \in Nat \ {0}
          /\ Top.lo \in Nat \ {0}
      BY TopFacts
    <3>3. Top.kids \in Seq(Nat \ {0}) /\ Top.kids # <<>>
      BY <2>5, <3>2, FrameFields DEF Ready
    <3>4. 1 \in 1 .. Len(Top.kids)
      BY <3>3
    <3>5. /\ Top.kids[1] \in 1 .. Len(nodes) /\ Top.lo <= nodes[Top.kids[1]].lo
          /\ nodes[Top.kids[1]].hi < cur
      BY <3>2, <3>4 DEF Ordered, Ready, Before
    <3>6. nodes[Top.kids[1]].hi \in Nat
      BY <3>2, <3>5, NodeFields
    <3>7. /\ ks \in Seq(Nat \ {0}) /\ Len(ks) = 1 /\ ks[1] = Top.kids[1]
          /\ hi \in Nat /\ hi < cur' /\ nodes[Top.kids[1]].hi <= hi
      BY <1>3, <3>2, <3>3, <3>4, <3>5, <3>6
    <3> HIDE DEF ks
    <3>8. Top.lo <= hi + 1
      BY <3>2, TopFacts
    <3>9. KidsFit(ks, Top.lo, hi, nodes)
      BY <3>5, <3>7, <3>8 DEF KidsFit
    <3>10. OperandsFit(tag, 0, Top.lo, hi, ks, nodes)
      BY <2>2 DEF OperandsFit
    <3> HIDE DEF hi, access
    <3>11. /\ Grown' /\ Extends(nodes, nodes')
           /\ New \in 1 .. Len(nodes') /\ Len(nodes') = New
           /\ nodes'[New] = Node(tag, 0, Top.lo, hi, ks)
      BY <1>3, <2>2, <3>1, <3>2, <3>7, <3>9, <3>10, NodeMade
    <3>12. nodes'[New].lo = Top.lo /\ nodes'[New].hi = cur' - 1
      BY <1>3, <3>11 DEF Node, hi
    <3> QED
      BY <1>3, <2>1, <2>3, <3>11, <3>12, Gives
  <2> QED
    BY <2>4, <2>5
<1> QED
  BY <1>4, <1>5

-----------------------------------------------------------------------------
(* The steps of the lists.                                                 *)

\* What a list holds is read by a function that it expects.
LEMMA ListItems ==
    ASSUME NEW fn \in ListNames
    PROVE  /\ Lists[fn].item \in Calling
           /\ fn \in Nodeless => fn = "NAMES" /\ Lists[fn].item \in Ahead
           /\ Lists[fn].item \in Nodeless => fn = "NAMES"
<1>1. Lists["ARGS"].item = "expr"
  BY DEF Lists
<1>2. Lists["ELEMS"].item = "expr"
  BY DEF Lists
<1>3. Lists["TARGS"].item = "type"
  BY DEF Lists
<1>4. Lists["FIELDS"].item = "field"
  BY DEF Lists
<1>5. Lists["TYPES"].item = "type"
  BY DEF Lists
<1>6. Lists["NAMES"].item = "typename"
  BY DEF Lists
<1> QED
  BY <1>1, <1>2, <1>3, <1>4, <1>5, <1>6 DEF ListNames, Calling, Callable, Nodeless, Ahead

\* A list runs.
LEMMA ListTop ==
    ASSUME PInv, InList
    PROVE  Top.fn \in ListNames /\ Top.fn \notin Scripts /\ Top.fn # "unit"
BY Named DEF InList, ListNames, Scripts

\* A list that calls for an item waits for it, at its first token.
LEMMA ListItemKeeps == PInv /\ ListItem => PInv'
<1> SUFFICES ASSUME PInv, ListItem PROVE PInv'
  OBVIOUS
<1> DEFINE g == [Top EXCEPT !.st = "sep"]
<1>1. /\ InList /\ Top.st = "open" /\ Call(g, Lists[Top.fn].item)
      /\ Stay /\ nodes' = nodes /\ UNCHANGED <<lexicon, status>>
  BY DEF ListItem, Quiet
<1>2. Top.fn \in ListNames /\ Top \in FramesOf(Len(toks)) /\ Plain(Top)
  BY <1>1, ListTop, TopFacts DEF Plain
<1>3. /\ g \in FramesOf(Len(toks)) /\ g.fn = Top.fn /\ g.lo = Top.lo /\ g.kids = Top.kids
      /\ g.st = "sep"
  <2>1. "sep" \in States
    BY DEF States
  <2> QED
    BY <1>2, <2>1, StFrame
<1> HIDE DEF g
<1>4. Plain(g)
  BY <1>2, <1>3 DEF Plain
<1>5. /\ Lists[Top.fn].item \in Calling
      /\ Top.fn \in Nodeless => Lists[Top.fn].item \in Ahead
      /\ Lists[Top.fn].item \in Nodeless => Top.fn = "NAMES"
      /\ Top.fn \notin {"bound", "declare", "member"}
  BY <1>2, ListItems DEF ListNames
<1> QED
  BY <1>1, <1>2, <1>3, <1>4, <1>5, CallsOn

\* The comma between two items is eaten, and the list runs on.
LEMMA ListCommaKeeps == PInv /\ ListComma => PInv'
<1> SUFFICES ASSUME PInv, ListComma PROVE PInv'
  OBVIOUS
<1> DEFINE g == [Top EXCEPT !.st = "open"]
<1>1. /\ InList /\ Top.st = "sep" /\ Token = "," /\ Advance /\ Become(g)
      /\ nodes' = nodes /\ UNCHANGED <<lexicon, status>>
  BY DEF ListComma, Quiet
<1>2. Top.fn \in ListNames /\ Top \in FramesOf(Len(toks)) /\ Plain(Top)
  BY <1>1, ListTop, TopFacts DEF Plain
<1>3. /\ g \in FramesOf(Len(toks)) /\ g.fn = Top.fn /\ g.lo = Top.lo /\ g.kids = Top.kids
      /\ g.st = "open"
  <2>1. "open" \in States
    BY DEF States
  <2> QED
    BY <1>2, <2>1, StFrame
<1> HIDE DEF g
<1>4. Plain(g) /\ g.fn # "member"
  BY <1>2, <1>3 DEF Plain, ListNames
<1>5. Reading /\ cur' = cur + 1 /\ cur' \in Nat
  BY <1>1, Advances DEF PInv, Reads
<1>6. cur <= cur' /\ g \in FramesOf(Len(toks'))
  <2>1. cur \in Nat /\ Len(toks) \in Nat
    BY TopFacts
  <2> QED
    BY <1>3, <1>5, <2>1, StillWithin DEF Reading
<1> QED
  BY <1>1, <1>2, <1>3, <1>4, <1>5, <1>6, GoesOn

\* A list at its end makes its node of the items, in the order of the text.
LEMMA ListEndKeeps == PInv /\ ListEnd => PInv'
<1> SUFFICES ASSUME PInv, ListEnd PROVE PInv'
  OBVIOUS
<1>1. InList /\ Stay /\ UNCHANGED <<lexicon, status>>
  BY DEF ListEnd, Quiet
<1>2. Top.fn \in ListNames /\ Top.fn # "unit"
  BY <1>1, ListTop
<1>3. Reading /\ cur' = cur /\ toks' = toks /\ cur' \in Nat /\ cur <= cur'
  BY <1>1, Stays, TopFacts DEF PInv, Reads
<1>4. CASE Top.fn \in Nodeless
  <2>1. ReturnNothing /\ nodes' = nodes
    BY <1>4 DEF ListEnd
  <2> QED
    BY <1>3, <1>4, <2>1, Drops
<1>5. CASE Top.fn \notin Nodeless
  <2>1. Make(Top.fn, 0, Top.lo, cur' - 1, Top.kids) /\ Return(New)
    BY <1>3, <1>5 DEF ListEnd
  <2>2. Top.fn \in Tags /\ Top.fn # "bin"
    BY <1>2, Named DEF ListNames
  <2>3. OperandsFit(Top.fn, 0, Top.lo, cur' - 1, Top.kids, nodes)
    BY <2>2 DEF OperandsFit
  <2> QED
    BY <1>2, <1>3, <1>5, <2>1, <2>2, <2>3, EndsMaking
<1> QED
  BY <1>4, <1>5

\* The suffixes of a type make no node: a "*" is eaten, a bound is read ahead or not.
LEMMA TypeSuffixKeeps == PInv /\ TypeSuffix => PInv'
<1> SUFFICES ASSUME PInv, TypeSuffix PROVE PInv'
  OBVIOUS
<1>1. /\ Top.fn = "suffix" /\ Top.st = "start"
      /\ nodes' = nodes /\ UNCHANGED <<lexicon, status>>
  BY DEF TypeSuffix, Running, Quiet
<1>2. Plain(Top) /\ Top \in FramesOf(Len(toks)) /\ Len(toks) \in Nat /\ cur \in Nat
  BY <1>1, TopFacts DEF Plain
<1>3. CASE Token = "*" /\ Advance /\ UNCHANGED stack
  <2>1. Reading /\ cur' = cur + 1 /\ cur' \in Nat
    BY <1>1, <1>3, Advances DEF PInv, Reads
  <2>2. cur <= cur' /\ Top \in FramesOf(Len(toks'))
    BY <1>2, <2>1, StillWithin DEF Reading
  <2>3. Become(Top)
    <3>1. stack \in Seq(Frames) /\ Len(stack) > 0
      BY TopFacts
    <3>2. stack = <<Head(stack)>> \o Tail(stack)
      BY <3>1
    <3> QED
      BY <1>3, <3>2 DEF Become, Top, Rest
  <2> QED
    BY <1>1, <1>2, <2>1, <2>2, <2>3, GoesOn
<1>4. CASE Token = "[" /\ Call(Top, "bound") /\ Stay
  <2>1. "bound" \in Calling /\ "bound" \in Ahead
    BY DEF Calling, Ahead
  <2> QED
    BY <1>1, <1>2, <1>4, <2>1, CallsOn
<1>5. CASE ReturnNothing /\ Stay
  <2>1. Reading /\ cur' = cur
    BY <1>1, <1>5, Stays DEF PInv, Reads
  <2>2. Top.fn \in Nodeless
    BY <1>1 DEF Nodeless
  <2> QED
    BY <1>1, <1>5, <2>1, <2>2, Drops
<1> QED
  BY <1>3, <1>4, <1>5 DEF TypeSuffix

-----------------------------------------------------------------------------
(* The steps of the unary and binary expressions.                          *)

\* A frame with one kid.
LEMMA OneKid ==
    ASSUME NEW f, NEW n, f.kids = <<n>>, NEW e
    PROVE  /\ Len(f.kids) = 1 /\ f.kids[1] = n /\ f.kids # <<>>
           /\ n \in 1 .. Len(e) /\ f.lo <= e[n].lo => Ordered(f, e)
           /\ \A c : e[n].hi < c => Before(f, e, c)
           /\ TargsOnly(f, e)
<1>1. Len(f.kids) = 1 /\ f.kids[1] = n /\ f.kids # <<>>
  OBVIOUS
<1>2. \A k \in 1 .. 1 : k = 1
  OBVIOUS
<1>3. 2 .. 1 = {}
  OBVIOUS
<1> QED
  BY <1>1, <1>2, <1>3 DEF Ordered, Before, TargsOnly

\* The tokens that the parser takes to be operators end no file.
LEMMA Operators ==
    /\ "eof" \notin PrefixOps /\ "eof" \notin PostfixOps
    /\ \A t : BinPrecedence(t) \in 1 .. 11 \cup {-1}
    /\ BinPrecedence("eof") = -1
<1>1. \A p \in 1 .. 11 : "eof" \notin Levels[p]
  <2> TAKE p \in 1 .. 11
  <2>1. p = 1 \/ p = 2 \/ p = 3 \/ p = 4 \/ p = 5 \/ p = 6 \/ p = 7 \/ p = 8 \/ p = 9 \/ p = 10
        \/ p = 11
    OBVIOUS
  <2>2. "eof" \notin Levels[1] /\ "eof" \notin Levels[2] /\ "eof" \notin Levels[3]
        /\ "eof" \notin Levels[4] /\ "eof" \notin Levels[5] /\ "eof" \notin Levels[6]
    BY DEF Levels
  <2>3. "eof" \notin Levels[7] /\ "eof" \notin Levels[8] /\ "eof" \notin Levels[9]
        /\ "eof" \notin Levels[10] /\ "eof" \notin Levels[11]
    BY DEF Levels
  <2> QED
    BY <2>1, <2>2, <2>3
<1>2. \A t : BinPrecedence(t) \in 1 .. 11 \cup {-1}
  <2> SUFFICES ASSUME NEW t PROVE BinPrecedence(t) \in 1 .. 11 \cup {-1}
    OBVIOUS
  <2>1. CASE \E p \in 1 .. 11 : t \in Levels[p]
    <3>1. BinPrecedence(t) = CHOOSE p \in 1 .. 11 : t \in Levels[p]
      BY <2>1 DEF BinPrecedence
    <3>2. (CHOOSE p \in 1 .. 11 : t \in Levels[p]) \in 1 .. 11
      BY <2>1
    <3> QED
      BY <3>1, <3>2
  <2>2. CASE ~ \E p \in 1 .. 11 : t \in Levels[p]
    BY <2>2 DEF BinPrecedence
  <2> QED
    BY <2>1, <2>2
<1> QED
  BY <1>1, <1>2 DEF PrefixOps, PostfixOps, BinPrecedence

\* No node is after the current token.
LEMMA NodesBefore ==
    ASSUME PInv
    PROVE  /\ \A n \in 1 .. Len(nodes) : nodes[n].hi < cur
           /\ \A n \in 1 .. Len(nodes) : nodes[n].lo <= nodes[n].hi + 1
BY DEF PInv, Grown, NodeOK

\* A prefix operator is eaten, and its operand is read after it.
LEMMA PrefixOperatorKeeps == PInv /\ PrefixOperator => PInv'
<1> SUFFICES ASSUME PInv, PrefixOperator PROVE PInv'
  OBVIOUS
<1> DEFINE c == cur'
           m == Len(toks')
           a == Frame("prefix", "start", c, <<>>)
           g == [Top EXCEPT !.st = "operand"]
<1>1. /\ Top.fn = "prefix" /\ Top.st = "start" /\ Token \in PrefixOps /\ Advance
      /\ nodes' = nodes /\ UNCHANGED <<lexicon, status>>
  BY DEF PrefixOperator, Running, Quiet
<1>2. /\ Reading /\ cur' = cur + 1 /\ cur' \in Nat
  BY <1>1, Advances, Operators DEF PInv, Reads
<1>3. /\ Top \in FramesOf(Len(toks)) /\ Ready(Top, nodes, cur, Token, Last)
      /\ cur \in Nat \ {0} /\ Len(toks) \in Nat /\ Top.lo \in Nat \ {0}
  BY TopFacts
<1>4. Top.lo = cur /\ Top.kids = <<>>
  BY <1>1, <1>3 DEF Ready, Fresh, Childless
<1>5. /\ g \in FramesOf(Len(toks)) /\ g.fn = "prefix" /\ g.lo = cur /\ g.kids = <<>>
      /\ g.st = "operand"
  <2>1. "operand" \in States
    BY DEF States
  <2> QED
    BY <1>1, <1>3, <1>4, <2>1, StFrame
<1>6. cur <= c /\ Len(toks) <= m /\ c = cur + 1
  BY <1>2, <1>3 DEF Reading, Reads
<1>16. c \in Nat \ {0} /\ m \in Nat /\ c <= m
  BY <1>2, <1>3 DEF Reading, Reads
<1>7. stack' = <<a, g>> \o Rest
  BY <1>2 DEF PrefixOperator
<1> HIDE DEF g, c, m
<1>8. /\ a \in FramesOf(m) /\ a.fn = "prefix" /\ a.lo = c /\ Sits(a, nodes, c)
      /\ Ready(a, nodes, c, Token', Last')
  <2>1. ASSUME NEW t, NEW l
        PROVE  /\ a \in FramesOf(m) /\ a.fn = "prefix" /\ a.lo = c /\ Sits(a, nodes, c)
               /\ Ready(a, nodes, c, t, l)
    <3>1. MayBegin("prefix", "start", nodes, c, t)
      BY Named DEF MayBegin, States
    <3> QED
      BY <1>16, <3>1, FreshFrame
  <2> QED
    BY <2>1
<1> HIDE DEF a
<1>9. g \in FramesOf(m)
  BY <1>3, <1>5, <1>6, <1>16, StillWithin
<1>10. Ordered(g, nodes) /\ Before(g, nodes, c)
  BY <1>5, NoKids
<1>11. ~Deciding(g) /\ ~Fresh(g) /\ ~Childless(g)
  BY <1>5 DEF Deciding, Fresh, Childless, Nodeless
<1>12. Sits(g, nodes, c)
  BY <1>5, <1>10, <1>11 DEF Sits
<1>13. Waits(a, g, nodes)
  BY <1>3, <1>5, <1>6, <1>16, <1>8, <1>10, <1>11 DEF Waits, Nodeless
<1>14. StandsFor(g, Top) /\ Top.fn \notin Ahead /\ Top.fn # "unit"
  BY <1>1, <1>4, <1>5 DEF StandsFor, Ahead
<1>15. Grown' /\ Extends(nodes, nodes')
  BY <1>1, <1>2, <1>6, NodesStay DEF c
<1> QED
  BY <1>1, <1>2, <1>7, <1>8, <1>9, <1>11, <1>12, <1>13, <1>14, <1>15, Calls DEF c, m

\* A prefix operator takes its operand: the node starts at the operator.
LEMMA PrefixDoneKeeps == PInv /\ PrefixDone => PInv'
<1> SUFFICES ASSUME PInv, PrefixDone PROVE PInv'
  OBVIOUS
<1>1. /\ Top.fn = "prefix" /\ Make("un", Top.lo, Top.lo, cur - 1, Top.kids) /\ Return(New)
      /\ Stay /\ UNCHANGED <<lexicon, status>>
  BY DEF PrefixDone, Running, Quiet
<1>2. Reading /\ cur' = cur /\ cur' \in Nat /\ cur <= cur' /\ Top.lo \in Nat
  BY <1>1, Stays, TopFacts DEF PInv, Reads
<1>3. "un" \in Tags /\ OperandsFit("un", Top.lo, Top.lo, cur' - 1, Top.kids, nodes)
  BY DEF Tags, OperandsFit
<1>4. Make("un", Top.lo, Top.lo, cur' - 1, Top.kids)
  BY <1>1, <1>2
<1>5. Top.fn \notin Nodeless \cup {"unit"} /\ Top.fn # "TARGS"
  BY <1>1 DEF Nodeless
<1> QED
  BY <1>1, <1>2, <1>3, <1>4, <1>5, EndsMaking

\* With no operator, parse_prefix gives its place to the operand that it reads.
LEMMA PrefixNoneKeeps == PInv /\ PrefixNone => PInv'
<1> SUFFICES ASSUME PInv, PrefixNone PROVE PInv'
  OBVIOUS
<1> DEFINE a == Frame("primary", "start", cur, <<>>)
           g == Frame("postfix", "loop", cur, <<>>)
<1>1. /\ Top.fn = "prefix" /\ Top.st = "start" /\ Stay /\ stack' = <<a, g>> \o Rest
      /\ nodes' = nodes /\ UNCHANGED <<lexicon, status>>
  BY DEF PrefixNone, Running, Quiet
<1>2. /\ Reading /\ cur' = cur /\ toks' = toks /\ Token' = Token /\ Last' = Last
      /\ cur' \in Nat
  BY <1>1, Stays DEF PInv, Reads
<1>3. /\ Top \in FramesOf(Len(toks)) /\ Ready(Top, nodes, cur, Token, Last)
      /\ cur \in Nat \ {0} /\ cur <= Len(toks) /\ Len(toks) \in Nat
  BY TopFacts
<1>4. Top.lo = cur
  BY <1>1, <1>3 DEF Ready, Fresh
<1>5. /\ g \in Frames /\ g.fn = "postfix" /\ g.st = "loop" /\ g.lo = cur /\ g.kids = <<>>
      /\ g.at = 0
  <2>1. "postfix" \in Functions /\ "loop" \in States
    BY Named DEF States
  <2> HIDE DEF a
  <2>2. /\ Frame("postfix", "loop", cur, <<>>) \in Frames
        /\ g.fn = "postfix" /\ g.st = "loop" /\ g.lo = cur /\ g.kids = <<>> /\ g.at = 0
    BY <1>3, <2>1, NewEmpty
  <2> QED
    BY <2>2
<1>6. /\ a \in FramesOf(Len(toks)) /\ a.fn = "primary" /\ a.lo = cur
      /\ Sits(a, nodes, cur) /\ Ready(a, nodes, cur, Token, Last)
  <2>1. MayBegin("primary", "start", nodes, cur, Token)
    BY Named, NodesBefore DEF MayBegin, States
  <2> QED
    BY <1>3, <2>1, FreshFrame
<1> HIDE DEF a, g
<1>7. g \in FramesOf(Len(toks))
  BY <1>3, <1>5 DEF FramesOf
<1>8. Ordered(g, nodes) /\ Before(g, nodes, cur)
  BY <1>5, NoKids
<1>9. ~Deciding(g) /\ ~Fresh(g) /\ ~Childless(g)
  BY <1>5 DEF Deciding, Fresh, Childless, Nodeless
<1>10. Sits(g, nodes, cur)
  BY <1>5, <1>8, <1>9 DEF Sits
<1>11. Waits(a, g, nodes)
  BY <1>3, <1>5, <1>6, <1>8, <1>9 DEF Waits, Nodeless
<1>12. StandsFor(g, Top) /\ Top.fn \notin Ahead /\ Top.fn # "unit"
  BY <1>1, <1>4, <1>5 DEF StandsFor, Ahead, Nodeless
<1>13. Grown' /\ Extends(nodes, nodes')
  BY <1>1, <1>2, <1>3, NodesStay
<1> QED
  BY <1>1, <1>2, <1>6, <1>7, <1>9, <1>10, <1>11, <1>12, <1>13, Calls

\* parse_postfix(), and what it has read so far.
LEMMA PostfixTop ==
    ASSUME PInv, Top.fn = "postfix"
    PROVE  /\ Len(Top.kids) = 1 /\ Top.kids \in Seq(Nat \ {0})
           /\ Top.kids[1] \in 1 .. Len(nodes)
           /\ nodes[Top.kids[1]].lo = Top.lo /\ nodes[Top.kids[1]].hi = cur - 1
<1>1. Top \in Frames /\ Ready(Top, nodes, cur, Token, Last) /\ Ordered(Top, nodes)
  BY TopFacts
<1>2. /\ Len(Top.kids) = 1
      /\ nodes[Top.kids[1]].lo = Top.lo /\ nodes[Top.kids[1]].hi = cur - 1
  BY <1>1 DEF Ready, Spans
<1>3. 1 \in 1 .. Len(Top.kids)
  BY <1>2
<1> QED
  BY <1>1, <1>2, <1>3, FrameFields DEF Ordered

\* A function has made a node of its kids, which is now its only kid.
LEMMA KeepsMade ==
    ASSUME PInv, Reading, cur' \in Nat, cur <= cur',
           NEW tag \in Tags, NEW at \in Nat,
           Make(tag, at, Top.lo, cur' - 1, Top.kids),
           OperandsFit(tag, at, Top.lo, cur' - 1, Top.kids, nodes),
           NEW g, g \in FramesOf(Len(toks')), Become(g),
           g.fn = Top.fn, g.lo = Top.lo, g.kids = <<New>>,
           g.fn \in {"postfix", "binary"}, g.fn = "binary" => g.st = "loop"
    PROVE  PInv'
<1> DEFINE hi == cur' - 1
<1>1. cur \in Nat \ {0} /\ hi \in Nat /\ hi < cur' /\ cur - 1 <= hi
  <2>1. cur \in Nat /\ cur # 0 /\ cur' \in Nat /\ cur <= cur'
    BY TopFacts
  <2>2. \A c, c2 \in Nat : c # 0 /\ c <= c2 => c2 - 1 \in Nat /\ c2 - 1 < c2 /\ c - 1 <= c2 - 1
    OBVIOUS
  <2> QED
    BY <2>1, <2>2
<1>2. /\ Make(tag, at, Top.lo, hi, Top.kids)
      /\ OperandsFit(tag, at, Top.lo, hi, Top.kids, nodes)
  OBVIOUS
<1> HIDE DEF hi
<1>3. /\ Grown' /\ Extends(nodes, nodes')
      /\ New \in 1 .. Len(nodes') /\ Len(nodes') = New
      /\ nodes'[New] = Node(tag, at, Top.lo, hi, Top.kids)
  BY <1>1, <1>2, TopMakes
<1>4. nodes'[New].lo = Top.lo /\ nodes'[New].hi = hi
  BY <1>3 DEF Node
<1>5. Top.lo \in Nat \ {0} /\ Top.lo <= cur
  BY TopFacts
<1>6. Ordered(g, nodes') /\ Before(g, nodes', cur') /\ Len(g.kids) = 1 /\ g.kids[1] = New
  BY <1>1, <1>3, <1>4, <1>5, OneKid
<1>7. ~Deciding(g) /\ ~Fresh(g) /\ ~Childless(g)
  BY DEF Deciding, Fresh, Childless, Nodeless
<1>8. Sits(g, nodes', cur')
  BY <1>6, <1>7 DEF Sits
<1>9. Spans(g.kids[1], nodes', g.lo, cur' - 1)
  BY <1>4, <1>6 DEF Spans, hi
<1>10. g.lo <= cur'
  BY <1>1, <1>5
<1>11. Ready(g, nodes', cur', Token', Last')
  BY <1>6, <1>7, <1>9, <1>10 DEF Ready
<1>12. stack' = <<g>> \o Rest
  BY DEF Become
<1>13. StandsFor(g, Top) /\ Top.fn \notin Ahead /\ Top.fn # "unit"
  BY DEF StandsFor, Ahead
<1> QED
  BY <1>3, <1>8, <1>11, <1>12, <1>13, Becomes

\* A postfix operator takes the expression before it: both start at one token.
LEMMA PostfixOperatorKeeps == PInv /\ PostfixOperator => PInv'
<1> SUFFICES ASSUME PInv, PostfixOperator PROVE PInv'
  OBVIOUS
<1> DEFINE g == [Top EXCEPT !.kids = <<New>>]
<1>1. /\ Top.fn = "postfix" /\ Token \in PostfixOps /\ Advance
      /\ Make("post", cur, Top.lo, cur, Top.kids) /\ Become(g)
      /\ UNCHANGED <<lexicon, status>>
  BY DEF PostfixOperator, Running, Quiet
<1>2. Reading /\ cur' = cur + 1 /\ cur' \in Nat
  BY <1>1, Advances, Operators DEF PInv, Reads
<1>3. Top \in FramesOf(Len(toks)) /\ Len(toks) \in Nat /\ Len(nodes) \in Nat /\ cur \in Nat
  BY TopFacts
<1>4. cur <= cur' /\ cur' - 1 = cur
  BY <1>2, <1>3
<1>5. /\ g \in FramesOf(Len(toks)) /\ g.fn = "postfix" /\ g.lo = Top.lo /\ g.kids = <<New>>
  <2> DEFINE ks == <<New>>
  <2>1. ks \in Seq(Nat \ {0})
    BY <1>3 DEF New
  <2> HIDE DEF ks
  <2>2. LET h == [Top EXCEPT !.kids = ks] IN
        h \in FramesOf(Len(toks)) /\ h.fn = Top.fn /\ h.lo = Top.lo /\ h.kids = ks
    BY <1>3, <2>1, KidsFrame
  <2> QED
    BY <1>1, <2>2 DEF ks
<1> HIDE DEF g
<1>6. g \in FramesOf(Len(toks'))
  BY <1>2, <1>3, <1>5, StillWithin DEF Reading
<1>7. "post" \in Tags /\ OperandsFit("post", cur, Top.lo, cur' - 1, Top.kids, nodes)
  BY DEF Tags, OperandsFit
<1>8. Make("post", cur, Top.lo, cur' - 1, Top.kids)
  BY <1>1, <1>4
<1> QED
  BY <1>1, <1>2, <1>3, <1>4, <1>5, <1>6, <1>7, <1>8, KeepsMade

\* A subscript, a member or a method call takes the expression before it as its
\* first child.
LEMMA PostfixTailKeeps == PInv /\ PostfixTail => PInv'
<1> SUFFICES ASSUME PInv, PostfixTail PROVE PInv'
  OBVIOUS
<1> DEFINE fn == IF Token = "[" THEN "index" ELSE "member"
           a == Frame(fn, "start", Top.lo, Top.kids)
           g == [Top EXCEPT !.kids = <<>>]
<1>1. /\ Top.fn = "postfix" /\ Stay /\ stack' = <<a, g>> \o Rest
      /\ nodes' = nodes /\ UNCHANGED <<lexicon, status>>
  BY DEF PostfixTail, Running, Quiet
<1>2. /\ Reading /\ cur' = cur /\ toks' = toks /\ Token' = Token /\ Last' = Last
      /\ cur' \in Nat
  BY <1>1, Stays DEF PInv, Reads
<1>3. /\ Top \in Frames /\ Top \in FramesOf(Len(toks))
      /\ Ready(Top, nodes, cur, Token, Last) /\ Ordered(Top, nodes)
      /\ cur \in Nat \ {0} /\ cur <= Len(toks) /\ Len(toks) \in Nat
      /\ Top.lo \in Nat \ {0} /\ Top.lo <= cur
  BY TopFacts
<1>4. Len(Top.kids) = 1 /\ Top.kids \in Seq(Nat \ {0}) /\ Top.kids # <<>>
  BY <1>1, PostfixTop
<1>5. fn \in {"index", "member"}
  OBVIOUS
<1> HIDE DEF fn
<1>6. /\ a \in Frames /\ a.fn = fn /\ a.st = "start" /\ a.lo = Top.lo /\ a.kids = Top.kids
      /\ a.at = 0 /\ a.i = 1
  <2>1. fn \in Functions /\ "start" \in States
    BY <1>5, Named DEF Scripts, States
  <2> QED
    BY <1>3, <1>4, <2>1, NewFrame
<1>7. /\ g \in FramesOf(Len(toks)) /\ g.fn = "postfix" /\ g.lo = Top.lo /\ g.kids = <<>>
  <2> DEFINE ks == <<>>
  <2>1. ks \in Seq(Nat \ {0})
    OBVIOUS
  <2> HIDE DEF ks
  <2>2. LET h == [Top EXCEPT !.kids = ks] IN
        h \in FramesOf(Len(toks)) /\ h.fn = Top.fn /\ h.lo = Top.lo /\ h.kids = ks
    BY <1>3, <2>1, KidsFrame
  <2> QED
    BY <1>1, <2>2 DEF ks
<1> HIDE DEF a, g
<1>8. a \in FramesOf(Len(toks))
  <2>1. Top.lo <= Len(toks) /\ 0 <= Len(toks)
    BY <1>3
  <2> QED
    BY <1>6, <2>1 DEF FramesOf
<1>9. Ordered(a, nodes) /\ Before(a, nodes, cur)
  BY <1>3, <1>6, LikeKids DEF Ready
<1>10. Plain(a) /\ a.fn \in {"index", "member"}
  BY <1>5, <1>6 DEF Plain, Scripts
<1>11. ~Deciding(a) /\ ~Fresh(a) /\ ~Childless(a)
  BY <1>10, PlainFrame DEF Nodeless
<1>12. Sits(a, nodes, cur)
  BY <1>9, <1>10, <1>11 DEF Sits
<1>13. TargsOnly(a, nodes)
  <2>1. Len(a.kids) = 1
    BY <1>4, <1>6
  <2>2. 2 .. 1 = {}
    OBVIOUS
  <2> QED
    BY <2>1, <2>2 DEF TargsOnly
<1>14. Ready(a, nodes, cur, Token, Last)
  <2>1. a.lo <= cur /\ a.i \in 1 .. 11 /\ a.kids # <<>>
    BY <1>3, <1>4, <1>6
  <2> QED
    BY <1>9, <1>10, <1>11, <1>13, <2>1 DEF Ready
<1>15. Ordered(g, nodes) /\ Before(g, nodes, a.lo)
  BY <1>7, NoKids
<1>16. ~Deciding(g) /\ ~Fresh(g) /\ ~Childless(g)
  BY <1>7 DEF Deciding, Fresh, Childless, Nodeless
<1>17. Sits(g, nodes, cur)
  BY <1>7, <1>15, <1>16 DEF Sits
<1>18. a.fn \notin Nodeless
  BY <1>10 DEF Nodeless
<1>19. Waits(a, g, nodes)
  BY <1>3, <1>6, <1>7, <1>15, <1>16, <1>18 DEF Waits
<1>20. StandsFor(g, Top) /\ Top.fn \notin Ahead /\ Top.fn # "unit"
  BY <1>1, <1>7 DEF StandsFor, Ahead
<1>21. Grown' /\ Extends(nodes, nodes')
  BY <1>1, <1>2, <1>3, NodesStay
<1> QED
  BY <1>1, <1>2, <1>7, <1>8, <1>12, <1>14, <1>16, <1>17, <1>19, <1>20, <1>21, Calls

\* A function returns the node that it got.
LEMMA GivesKid ==
    ASSUME PInv, Stay, UNCHANGED nodes, UNCHANGED <<lexicon, status>>, Return(Top.kids[1]),
           Len(Top.kids) = 1, Spans(Top.kids[1], nodes, Top.lo, cur - 1),
           Top.fn \notin Nodeless \cup {"unit", "TARGS"}
    PROVE  PInv'
<1>1. Reading /\ cur' = cur /\ cur' \in Nat /\ cur <= cur'
  BY Stays, TopFacts DEF PInv, Reads
<1>2. Grown' /\ Extends(nodes, nodes')
  BY <1>1, NodesStay
<1>3. 1 \in 1 .. Len(Top.kids)
  OBVIOUS
<1>4. Top.kids[1] \in 1 .. Len(nodes')
  BY <1>3, TopFacts DEF Ordered
<1>5. nodes'[Top.kids[1]].lo = Top.lo /\ nodes'[Top.kids[1]].hi = cur' - 1
  BY <1>1 DEF Spans
<1>6. Top.fn \notin Nodeless \cup {"unit"} /\ Top.fn # "TARGS"
  OBVIOUS
<1> QED
  BY <1>1, <1>2, <1>4, <1>5, <1>6, Gives

\* With no operator after it, the expression is what parse_postfix returns.
LEMMA PostfixDoneKeeps == PInv /\ PostfixDone => PInv'
<1> SUFFICES ASSUME PInv, PostfixDone PROVE PInv'
  OBVIOUS
<1>1. /\ Top.fn = "postfix" /\ Return(Top.kids[1])
      /\ Stay /\ UNCHANGED nodes /\ UNCHANGED <<lexicon, status>>
  BY DEF PostfixDone, Running, Quiet
<1>2. Len(Top.kids) = 1 /\ Spans(Top.kids[1], nodes, Top.lo, cur - 1)
  BY <1>1, PostfixTop DEF Spans
<1>3. Top.fn \notin Nodeless \cup {"unit", "TARGS"}
  BY <1>1 DEF Nodeless
<1> QED
  BY <1>1, <1>2, <1>3, GivesKid

\* parse_binary(), and what it has read so far.
LEMMA BinaryTop ==
    ASSUME PInv, Top.fn = "binary"
    PROVE  /\ \/ /\ Top.st = "loop" /\ Len(Top.kids) = 1
                 /\ Spans(Top.kids[1], nodes, Top.lo, cur - 1)
              \/ /\ Top.st \in {"rhs", "nested"} /\ Len(Top.kids) = 2
                 /\ Spans(Top.kids[1], nodes, Top.lo, Top.at - 1)
                 /\ Spans(Top.kids[2], nodes, Top.at + 1, cur - 1)
                 /\ 2 \in 1 .. Len(Top.kids)
           /\ Top.kids \in Seq(Nat \ {0}) /\ 1 \in 1 .. Len(Top.kids)
           /\ \A k \in 1 .. Len(Top.kids) : /\ Top.kids[k] \in 1 .. Len(nodes)
                                            /\ Top.kids[k] \in Nat \ {0}
           /\ Top.at \in Nat /\ Top.at <= Len(toks) /\ Top.prec \in Nat
<1>1. /\ Top \in Frames /\ Ready(Top, nodes, cur, Token, Last) /\ Ordered(Top, nodes)
      /\ Top \in FramesOf(Len(toks))
  BY TopFacts
<1>2. \/ /\ Top.st = "loop" /\ Len(Top.kids) = 1
         /\ Spans(Top.kids[1], nodes, Top.lo, cur - 1)
      \/ /\ Top.st \in {"rhs", "nested"} /\ Len(Top.kids) = 2
         /\ Spans(Top.kids[1], nodes, Top.lo, Top.at - 1)
         /\ Spans(Top.kids[2], nodes, Top.at + 1, cur - 1)
  BY <1>1 DEF Ready
<1>3. Len(Top.kids) = 1 \/ Len(Top.kids) = 2
  BY <1>2
<1>4. 1 \in 1 .. Len(Top.kids) /\ (Len(Top.kids) = 2 => 2 \in 1 .. Len(Top.kids))
  <2>1. \A l : l = 1 \/ l = 2 => 1 \in 1 .. l /\ (l = 2 => 2 \in 1 .. l)
    OBVIOUS
  <2> QED
    BY <1>3, <2>1
<1>5. Top.prec \in Nat /\ Top.at <= Len(toks)
  BY <1>1 DEF Frames, FramesOf
<1>6. \A k \in 1 .. Len(Top.kids) : Top.kids[k] \in 1 .. Len(nodes)
  BY <1>1 DEF Ordered
<1>7. /\ Top.at \in Nat /\ Top.kids \in Seq(Nat \ {0})
      /\ \A k \in 1 .. Len(Top.kids) : Top.kids[k] \in Nat \ {0}
  BY <1>1, FrameFields
<1> QED
  BY <1>2, <1>4, <1>5, <1>6, <1>7

\* parse_binary returns the operand that it holds when no operator binds it.
LEMMA BinaryDoneKeeps == PInv /\ BinaryDone => PInv'
<1> SUFFICES ASSUME PInv, BinaryDone PROVE PInv'
  OBVIOUS
<1>1. /\ Top.fn = "binary" /\ Top.st = "loop" /\ Return(Top.kids[1])
      /\ Stay /\ UNCHANGED nodes /\ UNCHANGED <<lexicon, status>>
  BY DEF BinaryDone, Running, Quiet
<1>2. Len(Top.kids) = 1 /\ Spans(Top.kids[1], nodes, Top.lo, cur - 1)
  BY <1>1, BinaryTop
<1>3. Top.fn \notin Nodeless \cup {"unit", "TARGS"}
  BY <1>1 DEF Nodeless
<1> QED
  BY <1>1, <1>2, <1>3, GivesKid

\* Two operands are joined around their operator: the node starts with the left
\* one and ends with the right one.
LEMMA BinaryJoinKeeps == PInv /\ BinaryJoin => PInv'
<1> SUFFICES ASSUME PInv, BinaryJoin PROVE PInv'
  OBVIOUS
<1> DEFINE g == [Top EXCEPT !.st = "loop", !.kids = <<New>>]
<1>1. /\ Top.fn = "binary" /\ Top.st \in {"rhs", "nested"} /\ Stay
      /\ Make("bin", Top.at, Top.lo, cur - 1, Top.kids) /\ Become(g)
      /\ UNCHANGED <<lexicon, status>>
  BY DEF BinaryJoin, Joining, Running, Quiet
<1>2. Reading /\ cur' = cur /\ toks' = toks /\ cur' \in Nat
  BY <1>1, Stays DEF PInv, Reads
<1>3. /\ Top \in FramesOf(Len(toks)) /\ Len(toks) \in Nat /\ Len(nodes) \in Nat
      /\ cur \in Nat
  BY TopFacts
<1>4. /\ Len(Top.kids) = 2 /\ Top.at \in Nat
      /\ Spans(Top.kids[1], nodes, Top.lo, Top.at - 1)
      /\ Spans(Top.kids[2], nodes, Top.at + 1, cur - 1)
  BY <1>1, BinaryTop
<1>5. /\ g \in FramesOf(Len(toks)) /\ g.fn = "binary" /\ g.lo = Top.lo /\ g.kids = <<New>>
      /\ g.st = "loop"
  <2> DEFINE ks == <<New>>
             st == "loop"
  <2>1. ks \in Seq(Nat \ {0}) /\ st \in States
    BY <1>3 DEF New, States
  <2> HIDE DEF ks, st
  <2> DEFINE h == [Top EXCEPT !.st = st]
  <2>2. /\ h \in FramesOf(Len(toks)) /\ h.fn = Top.fn /\ h.lo = Top.lo
        /\ h.kids = Top.kids /\ h.st = st /\ h.at = Top.at
    BY <1>3, <2>1, StFrame
  <2> HIDE DEF h
  <2> DEFINE k == [h EXCEPT !.kids = ks]
  <2>3. /\ k \in FramesOf(Len(toks)) /\ k.fn = Top.fn /\ k.lo = Top.lo /\ k.kids = ks
        /\ k.st = st
    BY <1>3, <2>1, <2>2, KidsFrame
  <2>4. g = k
    BY DEF h, st, ks
  <2> HIDE DEF k, g
  <2> QED
    BY <1>1, <2>3, <2>4 DEF ks, st
<1> HIDE DEF g
<1>6. "bin" \in Tags /\ OperandsFit("bin", Top.at, Top.lo, cur' - 1, Top.kids, nodes)
  BY <1>2, <1>4 DEF Tags, OperandsFit
<1>7. Make("bin", Top.at, Top.lo, cur' - 1, Top.kids) /\ cur <= cur'
  BY <1>1, <1>2, <1>3
<1>8. g \in FramesOf(Len(toks'))
  BY <1>2, <1>5
<1> QED
  BY <1>1, <1>2, <1>4, <1>5, <1>6, <1>7, <1>8, KeepsMade

\* An operator is eaten, its position is remembered, and the right operand is
\* read after it.
LEMMA BinaryOperatorKeeps == PInv /\ BinaryOperator => PInv'
<1> SUFFICES ASSUME PInv, BinaryOperator PROVE PInv'
  OBVIOUS
<1> DEFINE c == cur'
           m == Len(toks')
           a == Frame("prefix", "start", c, <<>>)
           g == [Top EXCEPT !.st = "rhs", !.at = cur]
<1>1. /\ Top.fn = "binary" /\ Top.st = "loop" /\ BinPrecedence(Token) >= Top.prec /\ Advance
      /\ nodes' = nodes /\ UNCHANGED <<lexicon, status>>
  BY DEF BinaryOperator, Running, Quiet
<1>2. /\ Len(Top.kids) = 1 /\ Spans(Top.kids[1], nodes, Top.lo, cur - 1)
      /\ Top.prec \in Nat
  BY <1>1, BinaryTop
<1>3. Token # "eof"
  BY <1>1, <1>2, Operators
<1>4. /\ Reading /\ cur' = cur + 1 /\ cur' \in Nat
  BY <1>1, <1>3, Advances DEF PInv, Reads
<1>5. /\ Top \in FramesOf(Len(toks)) /\ Ready(Top, nodes, cur, Token, Last)
      /\ Ordered(Top, nodes) /\ cur \in Nat \ {0} /\ Len(toks) \in Nat
      /\ Top.lo \in Nat \ {0} /\ Top.lo <= cur /\ cur <= Len(toks)
      /\ nodes \in Seq(NodeSet)
  BY TopFacts
<1>6. /\ g \in FramesOf(Len(toks)) /\ g.fn = "binary" /\ g.lo = Top.lo /\ g.kids = Top.kids
      /\ g.st = "rhs" /\ g.at = cur
  <2> DEFINE st == "rhs"
  <2>1. st \in States /\ cur \in Nat
    BY <1>5 DEF States
  <2> HIDE DEF st
  <2> DEFINE h == [Top EXCEPT !.st = st]
  <2>2. /\ h \in FramesOf(Len(toks)) /\ h.fn = Top.fn /\ h.lo = Top.lo
        /\ h.kids = Top.kids /\ h.st = st /\ h.at = Top.at
    BY <1>5, <2>1, StFrame
  <2> HIDE DEF h
  <2> DEFINE k == [h EXCEPT !.at = cur]
  <2>3. /\ k \in FramesOf(Len(toks)) /\ k.fn = Top.fn /\ k.lo = Top.lo
        /\ k.kids = Top.kids /\ k.st = st /\ k.at = cur
    BY <1>5, <2>1, <2>2, AtFrame
  <2>4. g = k
    BY DEF h, st
  <2> HIDE DEF k, g
  <2> QED
    BY <1>1, <2>3, <2>4 DEF st
<1>7. cur <= c /\ Len(toks) <= m /\ c = cur + 1
  BY <1>4, <1>5 DEF Reading
<1>8. c \in Nat \ {0} /\ m \in Nat /\ c <= m
  BY <1>4, <1>5 DEF Reading, Reads
<1>9. stack' = <<a, g>> \o Rest
  BY <1>4 DEF BinaryOperator
<1> HIDE DEF g, c, m
<1>10. /\ a \in FramesOf(m) /\ a.fn = "prefix" /\ a.lo = c /\ Sits(a, nodes, c)
       /\ Ready(a, nodes, c, Token', Last')
  <2>1. ASSUME NEW t, NEW l
        PROVE  /\ a \in FramesOf(m) /\ a.fn = "prefix" /\ a.lo = c /\ Sits(a, nodes, c)
               /\ Ready(a, nodes, c, t, l)
    <3>1. MayBegin("prefix", "start", nodes, c, t)
      BY Named DEF MayBegin, States
    <3> QED
      BY <1>8, <3>1, FreshFrame
  <2> QED
    BY <2>1
<1> HIDE DEF a
<1>11. g \in FramesOf(m)
  BY <1>5, <1>6, <1>7, <1>8, StillWithin
<1>12. Ordered(g, nodes) /\ Before(g, nodes, c)
  <2>1. Before(Top, nodes, c)
    BY <1>5, <1>7, <1>8, BeforeLater DEF Ready
  <2> QED
    BY <1>5, <1>6, <2>1, LikeKids
<1>13. ~Deciding(g) /\ ~Fresh(g) /\ ~Childless(g)
  BY <1>6 DEF Deciding, Fresh, Childless, Nodeless
<1>14. Sits(g, nodes, c)
  BY <1>6, <1>12, <1>13 DEF Sits
<1>15. g.lo <= a.lo /\ a.lo = g.at + 1
  BY <1>5, <1>6, <1>7, <1>10
<1>16. Len(g.kids) = 1 /\ Spans(g.kids[1], nodes, g.lo, g.at - 1)
  BY <1>2, <1>6
<1>17. Waits(a, g, nodes)
  BY <1>6, <1>10, <1>12, <1>13, <1>15, <1>16 DEF Waits, Nodeless
<1>18. StandsFor(g, Top) /\ Top.fn \notin Ahead /\ Top.fn # "unit"
  BY <1>1, <1>6 DEF StandsFor, Ahead
<1>19. Grown' /\ Extends(nodes, nodes')
  BY <1>1, <1>4, <1>7, NodesStay DEF c
<1> QED
  BY <1>1, <1>4, <1>9, <1>10, <1>11, <1>13, <1>14, <1>17, <1>18, <1>19, Calls DEF c, m

\* A tighter operator after the right operand takes it: the nested call starts
\* with that operand and where it starts.
LEMMA BinaryNestedKeeps == PInv /\ BinaryNested => PInv'
<1> SUFFICES ASSUME PInv, BinaryNested PROVE PInv'
  OBVIOUS
<1> DEFINE n == Top.kids[2]
           b == Frame("binary", "loop", nodes[n].lo, <<n>>)
           a == [b EXCEPT !.prec = Top.prec + 1]
           g == [Top EXCEPT !.st = "nested", !.kids = <<Top.kids[1]>>]
<1>1. /\ Top.fn = "binary" /\ Top.st = "rhs" /\ Stay
      /\ stack' = <<a, g>> \o Rest
      /\ nodes' = nodes /\ UNCHANGED <<lexicon, status>>
  BY DEF BinaryNested, Running, Quiet
<1>2. /\ Reading /\ cur' = cur /\ toks' = toks /\ Token' = Token /\ Last' = Last
      /\ cur' \in Nat
  BY <1>1, Stays DEF PInv, Reads
<1>3. /\ Top \in Frames /\ Top \in FramesOf(Len(toks))
      /\ Ready(Top, nodes, cur, Token, Last) /\ Ordered(Top, nodes)
      /\ cur \in Nat \ {0} /\ cur <= Len(toks) /\ Len(toks) \in Nat
      /\ Top.lo \in Nat \ {0} /\ nodes \in Seq(NodeSet)
  BY TopFacts
<1>4. /\ Len(Top.kids) = 2
      /\ Spans(Top.kids[1], nodes, Top.lo, Top.at - 1)
      /\ Spans(n, nodes, Top.at + 1, cur - 1)
      /\ n \in 1 .. Len(nodes) /\ n \in Nat \ {0}
      /\ Top.kids[1] \in 1 .. Len(nodes) /\ Top.kids[1] \in Nat \ {0}
      /\ Top.at \in Nat /\ Top.prec \in Nat
      /\ 2 \in 1 .. Len(Top.kids)
  BY <1>1, BinaryTop
<1>5. /\ nodes[n].lo = Top.at + 1 /\ nodes[n].lo \in Nat \ {0}
      /\ nodes[n].hi = cur - 1 /\ Top.lo <= nodes[n].lo
  <2>1. Top.lo <= nodes[n].lo
    BY <1>3, <1>4 DEF Ordered
  <2> QED
    BY <1>3, <1>4, <2>1, NodeFields DEF Spans
<1>6. nodes[n].lo <= cur
  <2>1. nodes[n].lo <= nodes[n].hi + 1
    BY <1>4, NodesBefore
  <2> QED
    BY <1>3, <1>5, <2>1
<1> DEFINE lo == nodes[n].lo
           ks == <<n>>
           ms == <<Top.kids[1]>>
<1>7. ks \in Seq(Nat \ {0}) /\ ms \in Seq(Nat \ {0})
  BY <1>4
<1>8. /\ a \in Frames /\ a.fn = "binary" /\ a.st = "loop" /\ a.lo = lo /\ a.kids = ks
      /\ a.at = 0
  <2>1. "binary" \in Functions /\ "loop" \in States /\ lo \in Nat \ {0}
    BY <1>5, Named DEF States
  <2> HIDE DEF lo, ks
  <2>2. LET f == Frame("binary", "loop", lo, ks) IN
        /\ f \in Frames /\ f.fn = "binary" /\ f.st = "loop" /\ f.lo = lo /\ f.kids = ks
        /\ f.at = 0
    BY <1>7, <2>1, NewFrame
  <2>3. /\ b \in Frames /\ b.fn = "binary" /\ b.st = "loop" /\ b.lo = lo /\ b.kids = ks
        /\ b.at = 0
    BY <2>2 DEF lo, ks
  <2> HIDE DEF b
  <2>4. Top.prec + 1 \in Nat
    BY <1>4
  <2> QED
    BY <2>3, <2>4 DEF Frames
<1>9. /\ g \in FramesOf(Len(toks)) /\ g.fn = "binary" /\ g.lo = Top.lo /\ g.kids = ms
      /\ g.st = "nested" /\ g.at = Top.at
  <2> DEFINE st == "nested"
  <2>1. st \in States
    BY DEF States
  <2> HIDE DEF st, ms
  <2> DEFINE h == [Top EXCEPT !.st = st]
  <2>2. /\ h \in FramesOf(Len(toks)) /\ h.fn = Top.fn /\ h.lo = Top.lo
        /\ h.kids = Top.kids /\ h.st = st /\ h.at = Top.at
    BY <1>3, <2>1, StFrame
  <2> HIDE DEF h
  <2> DEFINE k == [h EXCEPT !.kids = ms]
  <2>3. /\ k \in FramesOf(Len(toks)) /\ k.fn = Top.fn /\ k.lo = Top.lo /\ k.kids = ms
        /\ k.st = st /\ k.at = Top.at
    BY <1>3, <1>7, <2>1, <2>2, KidsFrame
  <2>4. g = k
    BY DEF h, st, ms
  <2> HIDE DEF k, g
  <2> QED
    BY <1>1, <2>3, <2>4 DEF st, ms
<1> HIDE DEF a, b, g
<1>10. a.kids = <<n>> /\ g.kids = <<Top.kids[1]>> /\ a.lo = nodes[n].lo
  BY <1>8, <1>9
<1> HIDE DEF lo, ks, ms
<1>11. a \in FramesOf(Len(toks))
  <2>1. nodes[n].lo <= Len(toks) /\ 0 <= Len(toks)
    BY <1>3, <1>5, <1>6
  <2> QED
    BY <1>8, <1>10, <2>1 DEF FramesOf
<1>12. /\ Ordered(a, nodes) /\ Before(a, nodes, cur) /\ Len(a.kids) = 1 /\ a.kids[1] = n
  <2>1. nodes[n].hi < cur /\ a.lo <= nodes[n].lo
    BY <1>3, <1>5, <1>10
  <2> QED
    BY <1>4, <1>10, <2>1, OneKid
<1>13. /\ Ordered(g, nodes) /\ Before(g, nodes, a.lo) /\ Len(g.kids) = 1
       /\ g.kids[1] = Top.kids[1]
  <2>1. nodes[Top.kids[1]].hi < a.lo /\ g.lo <= nodes[Top.kids[1]].lo
    BY <1>3, <1>4, <1>5, <1>9, <1>10 DEF Spans
  <2> QED
    BY <1>4, <1>10, <2>1, OneKid
<1>14. /\ ~Deciding(a) /\ ~Fresh(a) /\ ~Childless(a)
       /\ ~Deciding(g) /\ ~Fresh(g) /\ ~Childless(g)
  BY <1>8, <1>9 DEF Deciding, Fresh, Childless, Nodeless
<1>15. Sits(a, nodes, cur) /\ Sits(g, nodes, cur)
  BY <1>8, <1>9, <1>12, <1>13, <1>14 DEF Sits
<1>16. Ready(a, nodes, cur, Token, Last)
  <2>1. Spans(a.kids[1], nodes, a.lo, cur - 1) /\ a.lo <= cur
    BY <1>5, <1>6, <1>10, <1>12 DEF Spans
  <2> QED
    BY <1>8, <1>12, <1>14, <2>1 DEF Ready
<1>17. Waits(a, g, nodes)
  <2>1. g.lo <= a.lo /\ a.lo = g.at + 1
    BY <1>5, <1>9, <1>10
  <2>2. Spans(g.kids[1], nodes, g.lo, g.at - 1)
    BY <1>4, <1>9, <1>13
  <2> QED
    BY <1>8, <1>9, <1>13, <1>14, <2>1, <2>2 DEF Waits, Nodeless
<1>18. StandsFor(g, Top) /\ Top.fn \notin Ahead /\ Top.fn # "unit"
  BY <1>1, <1>9 DEF StandsFor, Ahead
<1>19. Grown' /\ Extends(nodes, nodes')
  BY <1>1, <1>2, <1>3, NodesStay
<1> QED
  BY <1>1, <1>2, <1>9, <1>11, <1>14, <1>15, <1>16, <1>17, <1>18, <1>19, Calls

-----------------------------------------------------------------------------
(* The steps of the primary expressions.                                   *)

\* A function that has just been called makes a node of one token.
LEMMA TokenNode ==
    ASSUME PInv, Fresh(Top), Top.fn \in {"primary", "ref"}, Token # "eof", Advance,
           NEW tag \in {"lit", "ref"}, Make(tag, 0, cur, cur, <<>>), Return(New),
           UNCHANGED <<lexicon, status>>
    PROVE  PInv'
<1>1. Reading /\ cur' = cur + 1 /\ cur' \in Nat
  BY Advances DEF PInv, Reads
<1>2. Ready(Top, nodes, cur, Token, Last) /\ cur \in Nat
  BY TopFacts
<1>3. Top.lo = cur /\ Top.kids = <<>>
  BY <1>2 DEF Ready, Childless
<1>4. cur' - 1 = cur /\ cur <= cur' /\ 0 \in Nat
  BY <1>1, <1>2
<1>5. tag \in Tags /\ OperandsFit(tag, 0, Top.lo, cur' - 1, Top.kids, nodes)
  <2>1. tag # "bin" /\ tag \in Tags
    BY Named DEF Tags
  <2> QED
    BY <2>1 DEF OperandsFit
<1>6. Make(tag, 0, Top.lo, cur' - 1, Top.kids)
  BY <1>3, <1>4
<1>7. Top.fn \notin Nodeless \cup {"unit"} /\ Top.fn # "TARGS"
  BY DEF Nodeless
<1> QED
  BY <1>1, <1>4, <1>5, <1>6, <1>7, EndsMaking

\* A function begins in the place of another one, at the token where that began.
LEMMA GivesWay ==
    ASSUME PInv, Reading, UNCHANGED nodes, cur' = Top.lo, cur' = cur \/ Deciding(Top),
           NEW fn, NEW st, Become(Frame(fn, st, Top.lo, <<>>)),
           \A t : MayBegin(fn, st, nodes, Top.lo, t),
           Top.fn \notin Nodeless \cup {"unit", "TARGS"}, fn \notin Nodeless
    PROVE  PInv'
<1> DEFINE c == Top.lo
           m == Len(toks')
           f == Frame(fn, st, c, <<>>)
<1>1. /\ c \in Nat \ {0} /\ c \in Nat /\ c <= cur /\ cur <= Len(toks) /\ cur \in Nat
      /\ Len(toks) \in Nat /\ m \in Nat /\ Len(toks) <= m
      /\ Deciding(Top) => \A n \in 1 .. Len(nodes) : nodes[n].hi < c
  BY TopFacts DEF Reading
<1>2. c <= m /\ cur' = c /\ stack' = <<f>> \o Rest
  BY <1>1 DEF Become
<1>3. cur <= cur' \/ \A n \in 1 .. Len(nodes) : nodes[n].hi < cur'
  BY <1>1, <1>2
<1>4. Grown' /\ Extends(nodes, nodes')
  BY <1>1, <1>2, <1>3, NodesStay
<1>5. \A t : MayBegin(fn, st, nodes, c, t)
  OBVIOUS
<1> HIDE DEF c, m
<1>6. /\ f \in FramesOf(m) /\ f.fn = fn /\ f.lo = c /\ Sits(f, nodes, c)
      /\ Ready(f, nodes, c, Token', Last')
  <2>1. ASSUME NEW t, NEW l
        PROVE  /\ f \in FramesOf(m) /\ f.fn = fn /\ f.lo = c /\ Sits(f, nodes, c)
               /\ Ready(f, nodes, c, t, l)
    <3>1. MayBegin(fn, st, nodes, c, t)
      BY <1>5
    <3> QED
      BY <1>1, <1>2, <3>1, FreshFrame
  <2> QED
    BY <2>1
<1> HIDE DEF f
<1>7. StandsFor(f, Top) /\ Top.fn \notin Ahead /\ Top.fn # "unit"
  <2>1. Top.fn \notin Nodeless \cup {"TARGS"} /\ Top.fn # "unit"
    OBVIOUS
  <2>2. Top.fn \notin Ahead
    BY <2>1 DEF Ahead, Nodeless
  <2> QED
    BY <1>6, <2>1, <2>2 DEF StandsFor, c
<1>8. cur' \in Nat
  BY <1>1, <1>2
<1> QED
  BY <1>2, <1>4, <1>6, <1>7, <1>8, Becomes DEF m

\* A primary expression begins, at the token where it was called.
LEMMA PrimaryTop ==
    ASSUME PInv, Running("primary", "start")
    PROVE  /\ Fresh(Top) /\ Deciding(Top) /\ Top.lo = cur /\ Top.kids = <<>>
           /\ Top.fn \in {"primary", "ref"}
           /\ Top.fn \notin Nodeless \cup {"unit", "TARGS"}
<1>1. Top.fn = "primary" /\ Top.st = "start" /\ Ready(Top, nodes, cur, Token, Last)
  BY TopFacts DEF Running
<1>2. Fresh(Top) /\ Deciding(Top)
  BY <1>1 DEF Fresh, Deciding
<1>3. Top.lo = cur /\ Top.kids = <<>>
  BY <1>1, <1>2 DEF Ready, Childless
<1> QED
  BY <1>1, <1>2, <1>3 DEF Nodeless

\* A literal is a node of one token.
LEMMA LiteralKeeps == PInv /\ Literal => PInv'
<1> SUFFICES ASSUME PInv, Literal PROVE PInv'
  OBVIOUS
<1>1. /\ Running("primary", "start") /\ Token \in Literals
      /\ Make("lit", 0, cur, cur, <<>>) /\ Return(New) /\ Advance
      /\ UNCHANGED <<lexicon, status>>
  BY DEF Literal, Quiet
<1>2. Fresh(Top) /\ Top.fn \in {"primary", "ref"} /\ Token # "eof"
  BY <1>1, PrimaryTop DEF Literals
<1> QED
  BY <1>1, <1>2, TokenNode

\* A parenthesis hands over to the function that reads what is in it.
LEMMA PrimaryBracketedKeeps == PInv /\ PrimaryBracketed => PInv'
<1> SUFFICES ASSUME PInv, PrimaryBracketed PROVE PInv'
  OBVIOUS
<1> DEFINE fn == Bracketed(Token)
<1>1. /\ Running("primary", "start") /\ fn # "none" /\ Become(Frame(fn, "start", cur, <<>>))
      /\ Stay /\ UNCHANGED nodes /\ UNCHANGED <<lexicon, status>>
  BY DEF PrimaryBracketed, Quiet
<1>2. /\ Top.lo = cur /\ Deciding(Top) /\ Top.fn \notin Nodeless \cup {"unit", "TARGS"}
  BY <1>1, PrimaryTop
<1>3. fn \in {"paren", "array", "rune", "cast", "sizeof"}
  BY <1>1 DEF Bracketed
<1> HIDE DEF fn
<1>4. Reading /\ cur' = cur
  BY <1>1, Stays DEF PInv, Reads
<1>5. \A t : MayBegin(fn, "start", nodes, Top.lo, t)
  BY <1>3, Named DEF MayBegin, States, Scripts
<1>6. fn \notin Nodeless
  BY <1>3 DEF Nodeless
<1>7. Become(Frame(fn, "start", Top.lo, <<>>)) /\ cur' = Top.lo
  BY <1>1, <1>2, <1>4
<1> QED
  BY <1>1, <1>2, <1>4, <1>5, <1>6, <1>7, GivesWay

\* A name that is looked up, and found, hands over to the function that its
\* declaration calls for.
LEMMA KnownKeeps == PInv /\ Known => PInv'
<1> SUFFICES ASSUME PInv, Known PROVE PInv'
  OBVIOUS
<1>1. /\ Running("primary", "start")
      /\ \/ Become(Frame("usespec", "ahead", cur, <<>>))
         \/ Become(Frame("ref", "start", cur, <<>>))
      /\ Stay /\ UNCHANGED nodes /\ UNCHANGED <<lexicon, status>>
  BY DEF Known, Quiet
<1>2. /\ Top.lo = cur /\ Deciding(Top) /\ Top.fn \notin Nodeless \cup {"unit", "TARGS"}
  BY <1>1, PrimaryTop
<1>3. Reading /\ cur' = cur /\ cur' = Top.lo
  BY <1>1, <1>2, Stays DEF PInv, Reads
<1>4. /\ \A t : MayBegin("usespec", "ahead", nodes, Top.lo, t)
      /\ \A t : MayBegin("ref", "start", nodes, Top.lo, t)
  BY <1>2, NodesBefore, Named DEF MayBegin, States, Scripts
<1>5. "usespec" \notin Nodeless /\ "ref" \notin Nodeless
  BY DEF Nodeless
<1>6. CASE Become(Frame("usespec", "ahead", cur, <<>>))
  <2>1. Become(Frame("usespec", "ahead", Top.lo, <<>>))
    BY <1>2, <1>6
  <2> QED
    BY <1>1, <1>2, <1>3, <1>4, <1>5, <2>1, GivesWay
<1>7. CASE Become(Frame("ref", "start", cur, <<>>))
  <2>1. Become(Frame("ref", "start", Top.lo, <<>>))
    BY <1>2, <1>7
  <2> QED
    BY <1>1, <1>2, <1>3, <1>4, <1>5, <2>1, GivesWay
<1> QED
  BY <1>1, <1>6, <1>7

\* Past a name, parse_ident peeks at what follows and still remembers where the
\* name stands.
LEMMA PeekAfterNameKeeps == PInv /\ PeekAfterName => PInv'
<1> SUFFICES ASSUME PInv, PeekAfterName PROVE PInv'
  OBVIOUS
<1> DEFINE g == [Top EXCEPT !.st = "peek"]
<1>1. /\ Running("primary", "start") /\ Token \in Unknown /\ Advance /\ Become(g)
      /\ nodes' = nodes /\ UNCHANGED <<lexicon, status>>
  BY DEF PeekAfterName, Quiet
<1>2. Top.lo = cur /\ Deciding(Top) /\ Top.kids = <<>> /\ Top.fn = "primary"
  BY <1>1, PrimaryTop DEF Running
<1>3. Token # "eof"
  BY <1>1 DEF Unknown, LookedUp, Idents, Keywords
<1>4. Reading /\ cur' = cur + 1 /\ cur' \in Nat
  BY <1>1, <1>3, Advances DEF PInv, Reads
<1>5. /\ Top \in FramesOf(Len(toks)) /\ Len(toks) \in Nat /\ Len(toks') \in Nat
      /\ Len(toks) <= Len(toks') /\ cur \in Nat
      /\ \A n \in 1 .. Len(nodes) : nodes[n].hi < Top.lo
  BY <1>2, <1>4, TopFacts DEF Reading
<1>6. /\ g \in FramesOf(Len(toks)) /\ g.fn = "primary" /\ g.lo = Top.lo /\ g.kids = <<>>
      /\ g.st = "peek"
  <2>1. "peek" \in States
    BY DEF States
  <2> QED
    BY <1>2, <1>5, <2>1, StFrame
<1> HIDE DEF g
<1>7. g \in FramesOf(Len(toks')) /\ cur <= cur'
  BY <1>4, <1>5, <1>6, StillWithin
<1>8. Grown' /\ Extends(nodes, nodes')
  BY <1>1, <1>4, <1>7, NodesStay
<1>9. g.lo <= cur'
  BY <1>2, <1>6, <1>7
<1>10. Ordered(g, nodes) /\ Before(g, nodes, cur')
  BY <1>6, NoKids
<1>11. Sits(g, nodes', cur')
  BY <1>1, <1>5, <1>6, <1>9, <1>10 DEF Sits
<1>12. Ready(g, nodes', cur', Token', Last')
  BY <1>1, <1>6, <1>9, <1>10 DEF Ready, Fresh
<1>13. StandsFor(g, Top) /\ Top.fn \notin Ahead /\ Top.fn # "unit"
  BY <1>2, <1>6 DEF StandsFor, Ahead
<1>14. stack' = <<g>> \o Rest
  BY <1>1 DEF Become
<1> QED
  BY <1>4, <1>7, <1>8, <1>11, <1>12, <1>13, <1>14, Becomes

\* A function reads ahead with parse_type_name(), from where it began.
LEMMA ReadsAhead ==
    ASSUME PInv, Reading, UNCHANGED nodes, cur' = Top.lo, Deciding(Top), cur' \in Nat,
           NEW g, g = [Top EXCEPT !.st = "named"],
           stack' = <<Frame("typename", "start", Top.lo, <<>>), g>> \o Rest
    PROVE  PInv'
<1> DEFINE c == Top.lo
           m == Len(toks')
           a == Frame("typename", "start", c, <<>>)
<1>1. /\ c \in Nat \ {0} /\ c \in Nat /\ c <= cur /\ cur <= Len(toks) /\ cur \in Nat
      /\ Len(toks) \in Nat /\ m \in Nat /\ Len(toks) <= m
      /\ \A n \in 1 .. Len(nodes) : nodes[n].hi < c
      /\ Top \in FramesOf(Len(toks)) /\ Ready(Top, nodes, cur, Token, Last)
  BY TopFacts DEF Reading
<1>2. c <= m /\ cur' = c /\ stack' = <<a, g>> \o Rest
  BY <1>1
<1>3. Grown' /\ Extends(nodes, nodes')
  BY <1>1, <1>2, NodesStay
<1>4. Top.kids = <<>> /\ Top.fn \in {"primary", "usespec"}
  BY <1>1 DEF Ready, Childless, Deciding
<1>5. /\ g \in FramesOf(Len(toks)) /\ g.fn = Top.fn /\ g.lo = c /\ g.kids = <<>>
      /\ g.st = "named"
  <2> DEFINE h == [Top EXCEPT !.st = "named"]
  <2>1. "named" \in States
    BY DEF States
  <2>2. /\ h \in FramesOf(Len(toks)) /\ h.fn = Top.fn /\ h.lo = c /\ h.kids = Top.kids
        /\ h.st = "named"
    BY <1>1, <2>1, StFrame
  <2>3. g = h
    OBVIOUS
  <2> HIDE DEF h
  <2> QED
    BY <1>4, <2>2, <2>3
<1>6. g \in FramesOf(m)
  BY <1>1, <1>5, StillWithin
<1> HIDE DEF c, m
<1>7. /\ a \in FramesOf(m) /\ a.fn = "typename" /\ a.lo = c /\ Sits(a, nodes, c)
      /\ Ready(a, nodes, c, Token', Last')
  <2>1. ASSUME NEW t, NEW l
        PROVE  /\ a \in FramesOf(m) /\ a.fn = "typename" /\ a.lo = c /\ Sits(a, nodes, c)
               /\ Ready(a, nodes, c, t, l)
    <3>1. MayBegin("typename", "start", nodes, c, t)
      BY Named DEF MayBegin, States, Scripts
    <3> QED
      BY <1>1, <1>2, <3>1, FreshFrame
  <2> QED
    BY <2>1
<1> HIDE DEF a
<1>8. Ordered(g, nodes) /\ Before(g, nodes, c)
  BY <1>5, NoKids
<1>9. Sits(g, nodes, c)
  BY <1>1, <1>4, <1>5, <1>8 DEF Sits
<1>10. ~Fresh(g) /\ a.fn \in Ahead
  BY <1>4, <1>5, <1>7 DEF Fresh, Ahead
<1>11. Waits(a, g, nodes)
  BY <1>1, <1>4, <1>5, <1>7, <1>8, <1>10 DEF Waits
<1>12. StandsFor(g, Top) /\ Top.fn \notin Ahead /\ Top.fn # "unit"
  BY <1>4, <1>5 DEF StandsFor, Ahead, c
<1> QED
  BY <1>2, <1>3, <1>6, <1>7, <1>9, <1>10, <1>11, <1>12, Calls DEF m

\* parse_ident reads ahead for a type, to see whether a name starts one.
LEMMA TryTypeNameKeeps == PInv /\ TryTypeName => PInv'
<1> SUFFICES ASSUME PInv, TryTypeName PROVE PInv'
  OBVIOUS
<1> DEFINE g == [Top EXCEPT !.st = "named"]
<1>1. /\ Top.fn = "primary" /\ Restore
      /\ stack' = <<Frame("typename", "start", Top.lo, <<>>), g>> \o Rest
      /\ UNCHANGED nodes /\ UNCHANGED <<lexicon, status>>
  BY DEF TryTypeName, Running, Quiet
<1> HIDE DEF g
<1>2. Reading /\ cur' = Top.lo /\ cur' \in Nat
  BY <1>1, Restores
<1>3. Deciding(Top)
  BY <1>1 DEF Deciding
<1> QED
  BY <1>1, <1>2, <1>3, ReadsAhead DEF g

\* parse_use_spec reads ahead for the names of its list.
LEMMA UseAheadKeeps == PInv /\ UseAhead => PInv'
<1> SUFFICES ASSUME PInv, UseAhead PROVE PInv'
  OBVIOUS
<1> DEFINE g == [Top EXCEPT !.st = "named"]
<1>1. /\ Top.fn = "usespec" /\ Top.st = "ahead" /\ Stay
      /\ stack' = <<Frame("typename", "start", cur, <<>>), g>> \o Rest
      /\ UNCHANGED nodes /\ UNCHANGED <<lexicon, status>>
  BY DEF UseAhead, Running, Quiet
<1> HIDE DEF g
<1>2. Ready(Top, nodes, cur, Token, Last)
  BY TopFacts
<1>3. Deciding(Top) /\ Top.lo = cur
  BY <1>1, <1>2 DEF Deciding, Ready, Fresh
<1>4. Reading /\ cur' = Top.lo /\ cur' \in Nat
  BY <1>1, <1>3, Stays DEF PInv, Reads
<1>5. stack' = <<Frame("typename", "start", Top.lo, <<>>), g>> \o Rest
  BY <1>1, <1>3
<1> QED
  BY <1>1, <1>3, <1>4, <1>5, ReadsAhead DEF g

\* parse_ident goes back to the name and starts anew with what it found: no node
\* made ahead of the name is held.
LEMMA DecideByPeekKeeps == PInv /\ DecideByPeek => PInv'
<1> SUFFICES ASSUME PInv, DecideByPeek PROVE PInv'
  OBVIOUS
<1> DEFINE fn == NamedBy(Token)
<1>1. /\ Top.fn = "primary" /\ Restore /\ Become(Frame(fn, "start", Top.lo, <<>>))
      /\ UNCHANGED nodes /\ UNCHANGED <<lexicon, status>>
  BY DEF DecideByPeek, Running, Quiet
<1>2. Reading /\ cur' = Top.lo
  BY <1>1, Restores
<1>3. fn \in {"call", "init", "spec", "ref"}
  BY DEF NamedBy
<1> HIDE DEF fn
<1>4. Deciding(Top) /\ Top.fn \notin Nodeless \cup {"unit", "TARGS"}
  BY <1>1 DEF Deciding, Nodeless
<1>5. \A t : MayBegin(fn, "start", nodes, Top.lo, t)
  BY <1>3, Named DEF MayBegin, States, Scripts
<1>6. fn \notin Nodeless
  BY <1>3 DEF Nodeless
<1> QED
  BY <1>1, <1>2, <1>4, <1>5, <1>6, GivesWay

\* So does parse_use_spec.
LEMMA UseDecideKeeps == PInv /\ UseDecide => PInv'
<1> SUFFICES ASSUME PInv, UseDecide PROVE PInv'
  OBVIOUS
<1> DEFINE fn == IF Token = "{" THEN "init" ELSE "usespec"
<1>1. /\ Top.fn = "usespec" /\ Top.st = "named" /\ Restore
      /\ Become(Frame(fn, "start", Top.lo, <<>>))
      /\ UNCHANGED nodes /\ UNCHANGED <<lexicon, status>>
  BY DEF UseDecide, Running, Quiet
<1>2. Reading /\ cur' = Top.lo
  BY <1>1, Restores
<1>3. fn \in {"init", "usespec"}
  OBVIOUS
<1> HIDE DEF fn
<1>4. Deciding(Top) /\ Top.fn \notin Nodeless \cup {"unit", "TARGS"}
  BY <1>1 DEF Deciding, Nodeless
<1>5. \A n \in 1 .. Len(nodes) : nodes[n].hi < Top.lo
  BY <1>4, TopFacts
<1>6. \A t : MayBegin(fn, "start", nodes, Top.lo, t)
  BY <1>3, <1>5, Named DEF MayBegin, States, Scripts
<1>7. fn \notin Nodeless
  BY <1>3 DEF Nodeless
<1> QED
  BY <1>1, <1>2, <1>4, <1>6, <1>7, GivesWay

\* What is read as a reference, or has been read ahead of, begins at a name.
Looks(f) == f.fn = "ref" \/ (f.fn = "primary" /\ f.st # "start")

NameAt(f) == Looks(f) => toks[f.lo] \in Idents

Naming == \A j \in 1 .. Len(stack) : NameAt(stack[j])

\* A reference is a node of one token, the name: by then that token is a name and
\* not the end of the file, so that next() moves on.
LEMMA RefKeeps == PInv /\ Naming /\ Ref => PInv'
<1> SUFFICES ASSUME PInv, Naming, Ref PROVE PInv'
  OBVIOUS
<1>1. /\ Top.fn = "ref" /\ Make("ref", 0, cur, cur, <<>>) /\ Return(New) /\ Advance
      /\ UNCHANGED <<lexicon, status>>
  BY DEF Ref, Running, Quiet
<1>2. Ready(Top, nodes, cur, Token, Last) /\ stack \in Seq(Frames) /\ Len(stack) > 0
  BY TopFacts
<1>3. Fresh(Top) /\ Top.fn \in {"primary", "ref"}
  BY <1>1 DEF Fresh
<1>4. Top.lo = cur
  BY <1>2, <1>3 DEF Ready
<1>5. Token # "eof"
  <2>1. 1 \in 1 .. Len(stack) /\ Top = stack[1]
    BY <1>2 DEF Top
  <2>2. toks[Top.lo] \in Idents
    BY <1>1, <2>1 DEF Naming, NameAt, Looks
  <2> QED
    BY <1>4, <2>2 DEF Token, Idents, Keywords
<1> QED
  BY <1>1, <1>3, <1>5, TokenNode

\* What a specifier specifies starts where the primary that reads it starts.
LEMMA LeafStartKeeps == PInv /\ LeafStart => PInv'
<1> SUFFICES ASSUME PInv, LeafStart PROVE PInv'
  OBVIOUS
<1> DEFINE a == Frame("primary", "start", cur, <<>>)
           g == [Top EXCEPT !.st = "got"]
<1>1. /\ Top.fn = "leaf" /\ Top.st = "start" /\ Stay /\ stack' = <<a, g>> \o Rest
      /\ nodes' = nodes /\ UNCHANGED <<lexicon, status>>
  BY DEF LeafStart, Running
<1>2. /\ Reading /\ cur' = cur /\ toks' = toks /\ Token' = Token /\ Last' = Last
      /\ cur' \in Nat
  BY <1>1, Stays DEF PInv, Reads
<1>3. /\ Top \in FramesOf(Len(toks)) /\ Ready(Top, nodes, cur, Token, Last)
      /\ cur \in Nat \ {0} /\ cur <= Len(toks) /\ Len(toks) \in Nat
  BY TopFacts
<1>4. Top.lo = cur /\ Top.kids = <<>>
  BY <1>1, <1>3 DEF Ready, Fresh, Childless
<1>5. /\ g \in FramesOf(Len(toks)) /\ g.fn = "leaf" /\ g.st = "got" /\ g.lo = cur
      /\ g.kids = <<>>
  <2>1. "got" \in States
    BY DEF States
  <2> QED
    BY <1>1, <1>3, <1>4, <2>1, StFrame
<1>6. /\ a \in FramesOf(Len(toks)) /\ a.fn = "primary" /\ a.lo = cur
      /\ Sits(a, nodes, cur) /\ Ready(a, nodes, cur, Token, Last)
  <2>1. MayBegin("primary", "start", nodes, cur, Token)
    BY Named, NodesBefore DEF MayBegin, States
  <2> QED
    BY <1>3, <2>1, FreshFrame
<1> HIDE DEF a, g
<1>7. Ordered(g, nodes) /\ Before(g, nodes, cur)
  BY <1>5, NoKids
<1>8. ~Deciding(g) /\ ~Fresh(g) /\ ~Childless(g)
  BY <1>5 DEF Deciding, Fresh, Childless, Nodeless
<1>9. Sits(g, nodes, cur)
  BY <1>5, <1>7, <1>8 DEF Sits
<1>10. Waits(a, g, nodes)
  BY <1>3, <1>5, <1>6, <1>7, <1>8 DEF Waits, Nodeless
<1>11. StandsFor(g, Top) /\ Top.fn \notin Ahead /\ Top.fn # "unit"
  BY <1>1, <1>4, <1>5 DEF StandsFor, Ahead
<1>12. Grown' /\ Extends(nodes, nodes')
  BY <1>1, <1>2, <1>3, NodesStay
<1> QED
  BY <1>1, <1>2, <1>5, <1>6, <1>8, <1>9, <1>10, <1>11, <1>12, Calls

\* It is what that primary returned, with its first and its last token.
LEMMA LeafDoneKeeps == PInv /\ LeafDone => PInv'
<1> SUFFICES ASSUME PInv, LeafDone PROVE PInv'
  OBVIOUS
<1>1. /\ Top.fn = "leaf" /\ Top.st = "got" /\ Return(Top.kids[1])
      /\ Stay /\ UNCHANGED nodes /\ UNCHANGED <<lexicon, status>>
  BY DEF LeafDone, Running
<1>2. Ready(Top, nodes, cur, Token, Last)
  BY TopFacts
<1>3. Len(Top.kids) = 1 /\ Spans(Top.kids[1], nodes, Top.lo, cur - 1)
  BY <1>1, <1>2 DEF Ready
<1>4. Top.fn \notin Nodeless \cup {"unit", "TARGS"}
  BY <1>1 DEF Nodeless
<1> QED
  BY <1>1, <1>3, <1>4, GivesKid

-----------------------------------------------------------------------------
(* The steps of the statements.                                            *)

\* A statement hands over to the function that its first token calls for.
LEMMA StatementStartKeeps == PInv /\ StatementStart => PInv'
<1> SUFFICES ASSUME PInv, StatementStart PROVE PInv'
  OBVIOUS
<1> DEFINE fn == Statement(Token)
<1>1. /\ Top.fn = "stmt" /\ Stay /\ stack' = Callee(fn, cur) \o Rest
      /\ nodes' = nodes /\ UNCHANGED <<lexicon, status>>
  BY DEF StatementStart, Running, Quiet
<1>2. /\ Reading /\ cur' = cur /\ toks' = toks /\ Token' = Token /\ Last' = Last
      /\ cur' \in Nat
  BY <1>1, Stays DEF PInv, Reads
<1>3. /\ Ready(Top, nodes, cur, Token, Last)
      /\ cur \in Nat \ {0} /\ cur <= Len(toks) /\ Len(toks) \in Nat
  BY TopFacts
<1>4. Top.lo = cur
  BY <1>1, <1>3 DEF Ready, Fresh
<1>5. /\ fn \in {"block", "break", "var", "if", "match", "ret", "until", "expr"}
      /\ fn = "block" => Token = "{"
  BY DEF Statement
<1> HIDE DEF fn
<1>6. Grown' /\ Extends(nodes, nodes')
  BY <1>1, <1>2, <1>3, NodesStay
<1>7. Top.fn \notin Ahead /\ Top.fn # "unit" /\ Top.fn \notin Nodeless \cup {"TARGS"}
  BY <1>1 DEF Ahead, Nodeless
<1>8. CASE fn = "expr"
  <2> DEFINE a == Frame("prefix", "start", cur, <<>>)
             b == Frame("binary", "loop", cur, <<>>)
  <2>1. stack' = <<a, b>> \o Rest
    <3>1. Callee(fn, cur) = <<a, b>>
      BY <1>8, Named DEF Callee, ListNames
    <3> HIDE DEF a, b
    <3> QED
      BY <1>1, <3>1
  <2>2. /\ b \in FramesOf(Len(toks)) /\ b.fn = "binary" /\ b.lo = cur
        /\ Sits(b, nodes, cur) /\ Waits(a, b, nodes) /\ ~Deciding(b)
    BY <1>3, FreshBinary
  <2>3. /\ a \in FramesOf(Len(toks)) /\ a.fn = "prefix" /\ a.lo = cur
        /\ Sits(a, nodes, cur) /\ Ready(a, nodes, cur, Token, Last)
    <3>1. MayBegin("prefix", "start", nodes, cur, Token)
      BY Named DEF MayBegin, States
    <3> QED
      BY <1>3, <3>1, FreshFrame
  <2> HIDE DEF a, b
  <2>4. StandsFor(b, Top)
    BY <1>4, <1>7, <2>2 DEF StandsFor, Nodeless
  <2> QED
    BY <1>1, <1>2, <1>6, <1>7, <2>1, <2>2, <2>3, <2>4, Calls
<1>9. CASE fn # "expr"
  <2>1. PICK st \in {"start", "open"} :
           /\ Callee(fn, cur) = <<Frame(fn, st, cur, <<>>)>>
           /\ fn = "block" <=> st = "open"
    <3>1. fn = "block" => Callee(fn, cur) = <<Frame(fn, "open", cur, <<>>)>>
      BY DEF Callee
    <3>2. fn # "block" => Callee(fn, cur) = <<Frame(fn, "start", cur, <<>>)>>
      BY <1>5, <1>9, Named DEF Callee, ListNames
    <3> QED
      BY <3>1, <3>2
  <2> DEFINE f == Frame(fn, st, cur, <<>>)
  <2>2. /\ f \in FramesOf(Len(toks)) /\ f.fn = fn /\ f.lo = cur
        /\ Sits(f, nodes, cur) /\ Ready(f, nodes, cur, Token, Last)
    <3>1. MayBegin(fn, st, nodes, cur, Token)
      BY <1>5, <1>9, <2>1, Named DEF MayBegin, States, Scripts
    <3> QED
      BY <1>3, <3>1, FreshFrame
  <2>3. stack' = <<f>> \o Rest
    BY <1>1, <2>1
  <2> HIDE DEF f
  <2>4. StandsFor(f, Top)
    BY <1>4, <1>5, <1>7, <1>9, <2>2 DEF StandsFor, Nodeless
  <2> QED
    BY <1>1, <1>2, <1>6, <1>7, <2>2, <2>3, <2>4, Becomes
<1> QED
  BY <1>8, <1>9

\* A block goes on, with the statements it has.
LEMMA BlockGoesOn ==
    ASSUME PInv, Top.fn = "block", Reading, UNCHANGED nodes, cur' \in Nat, cur <= cur',
           NEW g, g \in FramesOf(Len(toks')), g.fn = "block", g.st \in {"loop", "semi"},
           g.lo = Top.lo, g.kids = Top.kids, Become(g)
    PROVE  PInv'
<1>1. /\ Ready(Top, nodes, cur, Token, Last) /\ Ordered(Top, nodes)
      /\ cur \in Nat \ {0} /\ nodes \in Seq(NodeSet) /\ Top.lo \in Nat \ {0}
      /\ Top.lo <= cur
  BY TopFacts
<1>2. Grown' /\ Extends(nodes, nodes') /\ nodes' = nodes
  BY NodesStay
<1>3. Ordered(g, nodes) /\ Before(g, nodes, cur')
  <2>1. Before(Top, nodes, cur')
    BY <1>1, BeforeLater DEF Ready
  <2> QED
    BY <1>1, <2>1, LikeKids
<1>4. ~Deciding(g) /\ ~Fresh(g) /\ ~Childless(g)
  BY DEF Deciding, Fresh, Childless, Nodeless
<1>5. g.lo <= cur'
  BY <1>1
<1>6. Sits(g, nodes, cur')
  BY <1>3, <1>4 DEF Sits
<1>7. Ready(g, nodes, cur', Token', Last')
  BY <1>3, <1>4, <1>5 DEF Ready
<1>8. StandsFor(g, Top) /\ Top.fn \notin Ahead /\ Top.fn # "unit"
  BY DEF StandsFor, Ahead
<1>9. stack' = <<g>> \o Rest
  BY DEF Become
<1> QED
  BY <1>2, <1>6, <1>7, <1>8, <1>9, Becomes

\* A block eats its brace and reads its statements after it.
LEMMA BlockOpenKeeps == PInv /\ BlockOpen => PInv'
<1> SUFFICES ASSUME PInv, BlockOpen PROVE PInv'
  OBVIOUS
<1> DEFINE g == [Top EXCEPT !.st = "loop"]
<1>1. /\ Top.fn = "block" /\ Top.st = "open" /\ Advance /\ Become(g)
      /\ UNCHANGED nodes /\ UNCHANGED <<lexicon, status>>
  BY DEF BlockOpen, Running
<1>2. /\ Top \in FramesOf(Len(toks)) /\ Len(toks) \in Nat /\ cur \in Nat
      /\ Ready(Top, nodes, cur, Token, Last)
  BY TopFacts
<1>3. Token # "eof"
  BY <1>1, <1>2 DEF Ready
<1>4. Reading /\ cur' = cur + 1 /\ cur' \in Nat /\ Len(toks) <= Len(toks') /\ Len(toks') \in Nat
  BY <1>1, <1>3, Advances DEF PInv, Reads, Reading
<1>5. /\ g \in FramesOf(Len(toks)) /\ g.fn = "block" /\ g.lo = Top.lo /\ g.kids = Top.kids
      /\ g.st \in {"loop", "semi"}
  <2>1. "loop" \in States
    BY DEF States
  <2> QED
    BY <1>1, <1>2, <2>1, StFrame
<1> HIDE DEF g
<1>6. cur <= cur' /\ g \in FramesOf(Len(toks'))
  BY <1>2, <1>4, <1>5, StillWithin
<1> QED
  BY <1>1, <1>4, <1>5, <1>6, BlockGoesOn

\* A block waits for its next statement, from its first token on.
LEMMA BlockStatementKeeps == PInv /\ BlockStatement => PInv'
<1> SUFFICES ASSUME PInv, BlockStatement PROVE PInv'
  OBVIOUS
<1> DEFINE g == [Top EXCEPT !.st = "semi"]
<1>1. /\ Top.fn = "block" /\ Stay /\ Call(g, "stmt")
      /\ UNCHANGED nodes /\ UNCHANGED <<lexicon, status>>
  BY DEF BlockStatement, Running, Quiet
<1>2. /\ Top \in FramesOf(Len(toks)) /\ Ordered(Top, nodes)
      /\ Ready(Top, nodes, cur, Token, Last)
  BY TopFacts
<1>3. /\ g \in FramesOf(Len(toks)) /\ g.fn = "block" /\ g.lo = Top.lo /\ g.kids = Top.kids
      /\ g.st = "semi"
  <2>1. "semi" \in States
    BY DEF States
  <2> QED
    BY <1>1, <1>2, <2>1, StFrame
<1> HIDE DEF g
<1>4. Ordered(g, nodes) /\ Before(g, nodes, cur) /\ g.lo <= cur
  BY <1>2, <1>3, LikeKids DEF Ready
<1>5. ~Deciding(g) /\ ~Fresh(g) /\ ~Childless(g)
  BY <1>3 DEF Deciding, Fresh, Childless, Nodeless
<1>6. Sits(g, nodes, cur)
  BY <1>3, <1>4, <1>5 DEF Sits
<1>7. Awaits(g, "stmt", nodes, cur)
  <2> SUFFICES ASSUME NEW a, a.fn = Entered("stmt"), a.lo = cur PROVE Waits(a, g, nodes)
    BY DEF Awaits
  <2>1. a.fn = "stmt"
    BY DEF Entered
  <2> QED
    BY <1>3, <1>4, <1>5, <2>1 DEF Waits, Nodeless
<1>8. StandsFor(g, Top) /\ Top.fn \notin Ahead /\ Top.fn # "unit" /\ "stmt" \in Calling
  BY <1>1, <1>3 DEF StandsFor, Ahead, Calling, Callable
<1> QED
  BY <1>1, <1>3, <1>5, <1>6, <1>7, <1>8, Calling1

\* After a statement, semicolons are eaten, and the block holds what it held.
LEMMA BlockSemiKeeps == PInv /\ BlockSemi => PInv'
<1> SUFFICES ASSUME PInv, BlockSemi PROVE PInv'
  OBVIOUS
<1> DEFINE g == [Top EXCEPT !.st = "loop"]
<1>1. /\ Top.fn = "block" /\ Top.st = "semi"
      /\ UNCHANGED nodes /\ UNCHANGED <<lexicon, status>>
  BY DEF BlockSemi, Running, Quiet
<1>2. Top \in FramesOf(Len(toks)) /\ Len(toks) \in Nat /\ cur \in Nat
  BY TopFacts
<1>3. CASE Token = ";" /\ Advance /\ UNCHANGED stack
  <2>1. /\ Reading /\ cur' = cur + 1 /\ cur' \in Nat
        /\ Len(toks) <= Len(toks') /\ Len(toks') \in Nat
    BY <1>1, <1>3, Advances DEF PInv, Reads, Reading
  <2>2. cur <= cur' /\ Top \in FramesOf(Len(toks'))
    BY <1>2, <2>1, StillWithin
  <2>3. Become(Top)
    <3>1. stack \in Seq(Frames) /\ Len(stack) > 0
      BY TopFacts
    <3>2. stack = <<Head(stack)>> \o Tail(stack)
      BY <3>1
    <3> QED
      BY <1>3, <3>2 DEF Become, Top, Rest
  <2>4. Top.st \in {"loop", "semi"}
    BY <1>1
  <2> QED
    BY <1>1, <2>1, <2>2, <2>3, <2>4, BlockGoesOn
<1>4. CASE Stay /\ Become(g)
  <2>1. Reading /\ cur' = cur /\ cur' \in Nat /\ toks' = toks
    BY <1>1, <1>4, Stays DEF PInv, Reads
  <2>2. /\ g \in FramesOf(Len(toks)) /\ g.fn = "block" /\ g.lo = Top.lo
        /\ g.kids = Top.kids /\ g.st \in {"loop", "semi"}
    <3>1. "loop" \in States
      BY DEF States
    <3> QED
      BY <1>1, <1>2, <3>1, StFrame
  <2> HIDE DEF g
  <2>3. cur <= cur' /\ g \in FramesOf(Len(toks'))
    BY <1>2, <2>1, <2>2
  <2> QED
    BY <1>1, <1>4, <2>1, <2>2, <2>3, BlockGoesOn
<1> QED
  BY <1>3, <1>4 DEF BlockSemi

\* A block at its closing brace makes its node of the statements, in order.
LEMMA BlockCloseKeeps == PInv /\ BlockClose => PInv'
<1> SUFFICES ASSUME PInv, BlockClose PROVE PInv'
  OBVIOUS
<1>1. /\ Top.fn = "block" /\ Token = "}" /\ Make("block", 0, Top.lo, cur, Top.kids)
      /\ Return(New) /\ Advance /\ UNCHANGED <<lexicon, status>>
  BY DEF BlockClose, Running
<1>2. Reading /\ cur' = cur + 1 /\ cur' \in Nat
  BY <1>1, Advances DEF PInv, Reads
<1>3. cur \in Nat /\ cur' - 1 = cur /\ cur <= cur' /\ 0 \in Nat
  BY <1>2, TopFacts
<1>4. "block" \in Tags /\ OperandsFit("block", 0, Top.lo, cur' - 1, Top.kids, nodes)
  BY Named DEF Tags, OperandsFit
<1>5. Make("block", 0, Top.lo, cur' - 1, Top.kids)
  BY <1>1, <1>3
<1>6. Top.fn \notin Nodeless \cup {"unit"} /\ Top.fn # "TARGS"
  BY <1>1 DEF Nodeless
<1> QED
  BY <1>1, <1>2, <1>3, <1>4, <1>5, <1>6, EndsMaking

\* Declaring a name leaves the frames as they are, but for its own.
LEMMA DeclareKeeps == PInv /\ Declare => PInv'
<1> SUFFICES ASSUME PInv, Declare PROVE PInv'
  OBVIOUS
<1>1. /\ Top.fn = "declare" /\ ReturnNothing /\ Stay
      /\ UNCHANGED nodes /\ UNCHANGED <<lexicon, status>>
  BY DEF Declare, Running
<1>2. Reading /\ cur' = cur
  BY <1>1, Stays DEF PInv, Reads
<1>3. Top.fn \in Nodeless
  BY <1>1 DEF Nodeless
<1> QED
  BY <1>1, <1>2, <1>3, Drops

\* The cases of a match are read.
LEMMA CasesTop ==
    ASSUME PInv, Top.fn = "cases", NEW st \in {"start", "sep"}, Top.st = st,
           NEW s2 \in {"start", "sep"}
    PROVE  /\ Plain(Top) /\ Top \in FramesOf(Len(toks)) /\ Len(toks) \in Nat /\ cur \in Nat
           /\ LET g == [Top EXCEPT !.st = s2] IN
              /\ g \in FramesOf(Len(toks)) /\ Plain(g) /\ g.fn = "cases"
              /\ g.lo = Top.lo /\ g.kids = Top.kids
<1> DEFINE g == [Top EXCEPT !.st = s2]
<1>1. Plain(Top) /\ Top \in FramesOf(Len(toks)) /\ Len(toks) \in Nat /\ cur \in Nat
  BY TopFacts DEF Plain
<1>2. /\ g \in FramesOf(Len(toks)) /\ g.fn = "cases" /\ g.lo = Top.lo /\ g.kids = Top.kids
      /\ g.st = s2
  <2>1. s2 \in States
    BY DEF States
  <2> QED
    BY <1>1, <2>1, StFrame
<1> HIDE DEF g
<1>3. Plain(g)
  BY <1>2 DEF Plain
<1> QED
  BY <1>1, <1>2, <1>3 DEF g

\* The cases of a match wait for the next pattern, at its first token.
LEMMA CaseStartKeeps == PInv /\ CaseStart => PInv'
<1> SUFFICES ASSUME PInv, CaseStart PROVE PInv'
  OBVIOUS
<1> DEFINE g == [Top EXCEPT !.st = "sep"]
           fn == IF Token = "_" THEN "default" ELSE "case"
<1>1. /\ Top.fn = "cases" /\ Top.st = "start" /\ Call(g, fn) /\ Stay
      /\ UNCHANGED nodes /\ UNCHANGED <<lexicon, status>>
  BY DEF CaseStart, Running, Quiet
<1>2. /\ Plain(Top) /\ g \in FramesOf(Len(toks)) /\ Plain(g) /\ g.fn = "cases"
      /\ g.lo = Top.lo /\ g.kids = Top.kids
  BY <1>1, CasesTop
<1>3. fn \in {"default", "case"}
  OBVIOUS
<1> HIDE DEF g, fn
<1>4. fn \in Calling /\ fn \notin Nodeless /\ g.fn \notin Nodeless
  BY <1>2, <1>3 DEF Calling, Nodeless
<1> QED
  BY <1>1, <1>2, <1>4, CallsOn

\* After a case, a comma may be eaten, and the match holds what it held.
LEMMA CaseSepKeeps == PInv /\ CaseSep => PInv'
<1> SUFFICES ASSUME PInv, CaseSep PROVE PInv'
  OBVIOUS
<1> DEFINE g == [Top EXCEPT !.st = "start"]
<1>1. /\ Top.fn = "cases" /\ Top.st = "sep" /\ Become(g)
      /\ (Token = "," /\ Advance) \/ Stay
      /\ UNCHANGED nodes /\ UNCHANGED <<lexicon, status>>
  BY DEF CaseSep, Running, Quiet
<1>2. /\ Plain(Top) /\ g \in FramesOf(Len(toks)) /\ Plain(g) /\ g.fn = "cases"
      /\ g.lo = Top.lo /\ g.kids = Top.kids /\ Len(toks) \in Nat /\ cur \in Nat
  BY <1>1, CasesTop
<1> HIDE DEF g
<1>3. Reading /\ cur' \in Nat /\ cur <= cur'
  <2>1. CASE Token = "," /\ Advance
    <3>1. Reading /\ cur' = cur + 1 /\ cur' \in Nat
      BY <1>1, <2>1, Advances DEF PInv, Reads
    <3> QED
      BY <1>2, <3>1
  <2>2. CASE Stay
    <3>1. Reading /\ cur' = cur /\ cur' \in Nat
      BY <1>1, <2>2, Stays DEF PInv, Reads
    <3> QED
      BY <1>2, <3>1
  <2> QED
    BY <1>1, <2>1, <2>2
<1>4. g \in FramesOf(Len(toks'))
  BY <1>2, <1>3, StillWithin DEF Reading
<1> QED
  BY <1>1, <1>2, <1>3, <1>4, GoesOn

\* A match at its closing brace makes its node of the cases, in order.
LEMMA CasesEndKeeps == PInv /\ CasesEnd => PInv'
<1> SUFFICES ASSUME PInv, CasesEnd PROVE PInv'
  OBVIOUS
<1>1. /\ Top.fn = "cases" /\ Make("cases", 0, Top.lo, cur - 1, Top.kids)
      /\ Return(New) /\ Stay /\ UNCHANGED <<lexicon, status>>
  BY DEF CasesEnd, Running, Quiet
<1>2. Reading /\ cur' = cur /\ cur' \in Nat
  BY <1>1, Stays DEF PInv, Reads
<1>3. cur <= cur' /\ 0 \in Nat
  BY <1>2
<1>4. "cases" \in Tags /\ OperandsFit("cases", 0, Top.lo, cur' - 1, Top.kids, nodes)
  BY Named DEF Tags, OperandsFit
<1>5. Make("cases", 0, Top.lo, cur' - 1, Top.kids)
  BY <1>1, <1>2
<1>6. Top.fn \notin Nodeless \cup {"unit"} /\ Top.fn # "TARGS"
  BY <1>1 DEF Nodeless
<1> QED
  BY <1>1, <1>2, <1>3, <1>4, <1>5, <1>6, EndsMaking

\* A step that only ends the parser, or is none.
LEMMA EndsKeep ==
    ASSUME PInv, UNCHANGED <<lexicon, toks, cur, stack, nodes>>,
           status' \in {"parsing", "parsed", "fatal"}
    PROVE  PInv'
<1>1. Reads'
  BY DEF PInv, Reads, EndKept
<1>2. Grown'
  BY DEF PInv, Grown
<1>3. Within' /\ Token' = Token /\ Last' = Last
  BY DEF PInv, Within, Token, Last
<1>4. Stacked'
  BY <1>3 DEF PInv, Stacked
<1> QED
  BY <1>1, <1>2, <1>3, <1>4 DEF PInv

-----------------------------------------------------------------------------
(* What begins at a name goes on beginning at it.                          *)

\* The tokens that were read stay.
Kept == Len(toks) <= Len(toks') /\ \A i \in 1 .. Len(toks) : toks'[i] = toks[i]

\* next(), restore_pos() and doing neither keep them.
LEMMA TokensKept ==
    ASSUME PInv, Stay \/ Restore \/ Advance
    PROVE  Kept
<1>1. toks \in Seq(Alphabet) /\ Len(toks) \in Nat
  BY DEF PInv, Reads
<1>2. CASE UNCHANGED toks
  BY <1>1, <1>2 DEF Kept
<1>3. CASE \E t \in Lexed(cur + 1) : toks' = Append(toks, t)
  <2>1. PICK t : toks' = Append(toks, t)
    BY <1>3
  <2> QED
    BY <1>1, <2>1 DEF Kept
<1> QED
  BY <1>2, <1>3 DEF Stay, Restore, Advance

\* Two frames are at the same point of the same function.
Same(f, g) == f.fn = g.fn /\ f.st = g.st /\ f.lo = g.lo

\* Naming is kept when each frame looks at no name, or at one, or stands where it
\* stood: parse_ident looks at the token where it was called.
LEMMA NamesKept ==
    ASSUME PInv, Naming, Kept,
           \A j \in 1 .. Len(stack') :
               \/ Looks(stack'[j]) => toks'[stack'[j].lo] \in Idents
               \/ \E k \in 1 .. Len(stack) : Same(stack'[j], stack[k])
    PROVE  Naming'
<1>1. stack \in Seq(FramesOf(Len(toks))) /\ Len(toks) \in Nat
  BY TopFacts DEF PInv, Within
<1>2. ASSUME NEW j \in 1 .. Len(stack'), Looks(stack'[j])
      PROVE  toks'[stack'[j].lo] \in Idents
  <2>1. CASE Looks(stack'[j]) => toks'[stack'[j].lo] \in Idents
    BY <1>2, <2>1
  <2>2. CASE \E k \in 1 .. Len(stack) : Same(stack'[j], stack[k])
    <3>1. PICK k \in 1 .. Len(stack) : Same(stack'[j], stack[k])
      BY <2>2
    <3>2. Looks(stack[k]) /\ stack'[j].lo = stack[k].lo
      BY <1>2, <3>1 DEF Same, Looks
    <3>3. toks[stack[k].lo] \in Idents
      BY <3>2 DEF Naming, NameAt
    <3>4. stack[k] \in FramesOf(Len(toks))
      BY <1>1
    <3>5. stack[k].lo \in 1 .. Len(toks)
      <4>1. stack[k] \in Frames /\ stack[k].lo <= Len(toks)
        BY <3>4 DEF FramesOf
      <4>2. stack[k].lo \in Nat \ {0}
        BY <4>1, FrameFields
      <4> QED
        BY <1>1, <4>1, <4>2
    <3> QED
      BY <3>2, <3>3, <3>5 DEF Kept
  <2> QED
    BY <2>1, <2>2
<1> QED
  BY <1>2 DEF Naming, NameAt, Looks

\* What is below the frames gs that a step puts on the stack was there.
LEMMA NamesUnder ==
    ASSUME PInv, Naming, Kept, NEW S, Frames \subseteq S, NEW gs \in Seq(S),
           stack' = gs \o Rest,
           \A i \in 1 .. Len(gs) : Looks(gs[i]) => toks'[gs[i].lo] \in Idents
    PROVE  Naming'
<1>1. stack \in Seq(S) /\ Len(stack) > 0 /\ Rest \in Seq(S)
  <2>1. stack \in Seq(Frames) /\ Len(stack) > 0
    BY TopFacts
  <2>2. stack \in Seq(S)
    BY <2>1
  <2> QED
    BY <2>1, <2>2 DEF Rest
<1>2. /\ Len(Rest) = Len(stack) - 1 /\ Len(stack) \in Nat
      /\ \A j \in 1 .. Len(Rest) : Rest[j] = stack[j + 1]
  BY <1>1 DEF Rest
<1>3. /\ \A j \in 1 .. Len(gs) : stack'[j] = gs[j]
      /\ \A j \in 1 .. Len(stack') :
            j > Len(gs) => /\ j - Len(gs) \in 1 .. Len(Rest)
                           /\ stack'[j] = Rest[j - Len(gs)]
      /\ Len(gs) \in Nat
  <2> DEFINE u == gs \o Rest
             t == Rest
  <2>1. t \in Seq(S)
    BY <1>1
  <2> HIDE DEF t
  <2>2. /\ \A j \in 1 .. Len(gs) : (gs \o t)[j] = gs[j]
        /\ \A j \in 1 .. Len(gs \o t) :
              j > Len(gs) => /\ j - Len(gs) \in 1 .. Len(t)
                             /\ (gs \o t)[j] = t[j - Len(gs)]
        /\ Len(gs) \in Nat
    BY <2>1, Concat
  <2>3. stack' = gs \o t
    BY DEF t
  <2> QED
    BY <2>2, <2>3 DEF t
<1>4. ASSUME NEW j \in 1 .. Len(stack')
      PROVE  \/ Looks(stack'[j]) => toks'[stack'[j].lo] \in Idents
             \/ \E k \in 1 .. Len(stack) : Same(stack'[j], stack[k])
  <2>1. CASE j \in 1 .. Len(gs)
    BY <1>3, <2>1
  <2>2. CASE j > Len(gs)
    <3> DEFINE i == j - Len(gs)
    <3>1. i \in 1 .. Len(Rest) /\ stack'[j] = Rest[i]
      BY <1>3, <2>2
    <3>2. i + 1 \in 1 .. Len(stack) /\ Rest[i] = stack[i + 1]
      BY <1>2, <3>1
    <3> HIDE DEF i
    <3> QED
      BY <3>1, <3>2 DEF Same
  <2> QED
    BY <1>3, <2>1, <2>2
<1> QED
  BY <1>4, NamesKept

\* One frame in the place of the top.
LEMMA NamesBecome ==
    ASSUME PInv, Naming, Kept, NEW f, Become(f),
           Looks(f) => toks'[f.lo] \in Idents
    PROVE  Naming'
<1> DEFINE gs == <<f>>
           S == Frames \cup {f}
<1>1. gs \in Seq(S) /\ stack' = gs \o Rest
  BY DEF Become
<1>2. \A i \in 1 .. Len(gs) : gs[i] = f
  OBVIOUS
<1>3. \A i \in 1 .. Len(gs) : Looks(gs[i]) => toks'[gs[i].lo] \in Idents
  BY <1>2
<1>4. Frames \subseteq S
  OBVIOUS
<1> HIDE DEF gs, S
<1> QED
  BY <1>1, <1>3, <1>4, NamesUnder

\* Two frames in the place of the top.
LEMMA NamesPush ==
    ASSUME PInv, Naming, Kept, NEW a, NEW f,
           stack' = <<a, f>> \o Rest, ~Looks(a),
           Looks(f) => toks'[f.lo] \in Idents
    PROVE  Naming'
<1> DEFINE gs == <<a, f>>
           S == Frames \cup {a, f}
<1>1. gs \in Seq(S) /\ stack' = gs \o Rest
  OBVIOUS
<1>2. \A i \in 1 .. Len(gs) : gs[i] = a \/ gs[i] = f
  OBVIOUS
<1>3. \A i \in 1 .. Len(gs) : Looks(gs[i]) => toks'[gs[i].lo] \in Idents
  BY <1>2
<1>4. Frames \subseteq S
  OBVIOUS
<1> HIDE DEF gs, S
<1> QED
  BY <1>1, <1>3, <1>4, NamesUnder

\* What a call puts on the stack looks at no name.
LEMMA CalleeFrames ==
    ASSUME NEW fn \in Calling \cup {"block"}, NEW c \in Nat \ {0}
    PROVE  /\ Callee(fn, c) \in Seq(Frames)
           /\ \A i \in 1 .. Len(Callee(fn, c)) : ~Looks(Callee(fn, c)[i])
<1>1. CASE fn = "expr"
  <2> DEFINE a == Frame("prefix", "start", c, <<>>)
             b == Frame("binary", "loop", c, <<>>)
  <2>1. Callee(fn, c) = <<a, b>>
    BY <1>1, Named DEF Callee, ListNames
  <2>2. a \in Frames /\ a.fn = "prefix"
    <3>1. "prefix" \in Functions /\ "start" \in States
      BY Named DEF States
    <3> HIDE DEF b
    <3> QED
      BY <3>1, NewEmpty
  <2>3. b \in Frames /\ b.fn = "binary"
    <3>1. "binary" \in Functions /\ "loop" \in States
      BY Named DEF States
    <3> HIDE DEF a
    <3> QED
      BY <3>1, NewEmpty
  <2> HIDE DEF a, b
  <2>4. ~Looks(a) /\ ~Looks(b)
    BY <2>2, <2>3 DEF Looks
  <2> DEFINE gs == <<a, b>>
  <2>5. gs \in Seq(Frames) /\ \A i \in 1 .. Len(gs) : gs[i] = a \/ gs[i] = b
    BY <2>2, <2>3
  <2>6. Callee(fn, c) = gs
    BY <2>1
  <2> HIDE DEF gs
  <2> QED
    BY <2>4, <2>5, <2>6
<1>2. CASE fn # "expr"
  <2>1. PICK st \in States : Callee(fn, c) = <<Frame(fn, st, c, <<>>)>>
    <3>1. CASE fn = "block"
      <4>1. Callee(fn, c) = <<Frame(fn, "open", c, <<>>)>>
        BY <3>1 DEF Callee
      <4> QED
        BY <4>1 DEF States
    <3>2. CASE fn # "block"
      BY <1>2, <3>2, CalleeIs
    <3> QED
      BY <3>1, <3>2
  <2>2. fn \in Functions /\ fn \notin {"ref", "primary"}
    BY <1>2, Named DEF Calling, Callable, Scripts, ListNames
  <2> DEFINE a == Frame(fn, st, c, <<>>)
             gs == <<a>>
  <2>3. a \in Frames /\ a.fn = fn
    BY <2>2, NewEmpty
  <2> HIDE DEF a
  <2>4. ~Looks(a)
    BY <2>2, <2>3 DEF Looks
  <2>5. gs \in Seq(Frames) /\ \A i \in 1 .. Len(gs) : gs[i] = a
    BY <2>3
  <2>6. Callee(fn, c) = gs
    BY <2>1 DEF a
  <2> HIDE DEF gs
  <2> QED
    BY <2>4, <2>5, <2>6
<1> QED
  BY <1>1, <1>2

\* A function that does not look at a name calls another one.
LEMMA NamesCall ==
    ASSUME PInv, Naming, Kept, NEW fn \in Calling, NEW f, Call(f, fn), ~Looks(f)
    PROVE  Naming'
<1> DEFINE cs == Callee(fn, cur)
           gs == cs \o <<f>>
           t == Rest
           S == Frames \cup {f}
<1>1. cs \in Seq(S) /\ \A i \in 1 .. Len(cs) : ~Looks(cs[i])
  <2>1. cs \in Seq(Frames) /\ \A i \in 1 .. Len(cs) : ~Looks(cs[i])
    BY CalleeFrames, TopFacts
  <2> QED
    BY <2>1
<1>2. t \in Seq(S) /\ stack' = cs \o <<f>> \o t
  <2>1. stack \in Seq(Frames) /\ Len(stack) > 0
    BY TopFacts
  <2>2. stack \in Seq(S)
    BY <2>1
  <2>3. t \in Seq(S)
    BY <2>1, <2>2 DEF Rest
  <2> QED
    BY <2>3 DEF Call
<1> HIDE DEF cs, t
<1>3. /\ gs \in Seq(S) /\ Len(gs) = Len(cs) + 1 /\ Len(cs) \in Nat
      /\ \A i \in 1 .. Len(cs) : gs[i] = cs[i]
      /\ gs[Len(cs) + 1] = f
  BY <1>1
<1>4. stack' = gs \o t /\ Frames \subseteq S
  BY <1>1, <1>2
<1> HIDE DEF gs, S
<1>5. ASSUME NEW i \in 1 .. Len(gs) PROVE ~Looks(gs[i])
  <2>1. i \in 1 .. Len(cs) \/ i = Len(cs) + 1
    BY <1>3
  <2> QED
    BY <1>1, <1>3, <2>1
<1> QED
  BY <1>3, <1>4, <1>5, NamesUnder DEF t

\* A function ends, with a node or without.
LEMMA NamesReturn ==
    ASSUME PInv, Naming, Kept, Top.fn # "unit",
           ReturnNothing \/ \E n : Return(n)
    PROVE  Naming'
<1>1. stack \in Seq(Frames) /\ Len(stack) > 0 /\ Len(stack) \in Nat /\ Len(stack) # 1
  <2>1. stack \in Seq(Frames) /\ Len(stack) > 0 /\ Len(stack) \in Nat /\ Top = stack[1]
    BY TopFacts DEF Top
  <2>2. Len(stack) = 1 => Frm(stack, 1).fn = "unit" /\ Frm(stack, 1) = stack[1]
    BY <2>1 DEF PInv, Stacked, StackOK, Frm
  <2> QED
    BY <2>1, <2>2
<1> DEFINE t == Rest
<1>2. /\ t \in Seq(Frames) /\ Len(t) = Len(stack) - 1 /\ Len(t) > 0
      /\ \A j \in 1 .. Len(t) : t[j] = stack[j + 1]
      /\ 2 \in 1 .. Len(stack)
  <2>1. /\ Tail(stack) \in Seq(Frames) /\ Len(Tail(stack)) = Len(stack) - 1
        /\ \A j \in 1 .. Len(stack) - 1 : Tail(stack)[j] = stack[j + 1]
    BY <1>1
  <2>2. \A c \in Nat : c > 0 /\ c # 1 => c - 1 > 0 /\ 2 \in 1 .. c
    OBVIOUS
  <2>3. Len(stack) - 1 > 0 /\ 2 \in 1 .. Len(stack)
    BY <1>1, <2>2
  <2> QED
    BY <2>1, <2>3 DEF Rest
<1>3. CASE ReturnNothing
  <2>1. stack' = t
    BY <1>3 DEF ReturnNothing
  <2>2. ASSUME NEW j \in 1 .. Len(stack')
        PROVE  \E k \in 1 .. Len(stack) : Same(stack'[j], stack[k])
    <3>1. j + 1 \in 1 .. Len(stack) /\ stack'[j] = stack[j + 1]
      BY <1>1, <1>2, <2>1, <2>2
    <3> QED
      BY <3>1 DEF Same
  <2> QED
    BY <2>2, NamesKept
<1>4. ASSUME NEW n, Return(n) PROVE Naming'
  <2> DEFINE h == Head(t)
             g == [h EXCEPT !.kids = Append(@, n)]
             r == Tail(t)
  <2>1. /\ h = stack[2] /\ h \in Frames /\ r \in Seq(Frames) /\ Len(r) = Len(stack) - 2
        /\ \A j \in 1 .. Len(r) : r[j] = stack[j + 2]
    <3>1. h = t[1] /\ t[1] = stack[1 + 1] /\ h \in Frames
      BY <1>1, <1>2
    <3>2. r \in Seq(Frames) /\ Len(r) = Len(t) - 1 /\ \A j \in 1 .. Len(r) : r[j] = t[j + 1]
      BY <1>2
    <3> HIDE DEF h, r, t
    <3>3. Len(r) = Len(stack) - 2
      BY <1>1, <1>2, <3>2
    <3>4. ASSUME NEW j \in 1 .. Len(r) PROVE r[j] = stack[j + 2]
      <4>1. j + 1 \in 1 .. Len(t) /\ (j + 1) + 1 = j + 2
        BY <1>1, <1>2, <3>2
      <4> QED
        BY <1>2, <3>2, <4>1
    <3> QED
      BY <3>1, <3>2, <3>3, <3>4
  <2>2. stack' = <<g>> \o r
    BY <1>4 DEF Return, Deliver
  <2> HIDE DEF h, r, t
  <2>3. Same(g, stack[2])
    BY <2>1 DEF Same, Frames
  <2> HIDE DEF g
  <2>4. /\ Len(stack') = Len(r) + 1 /\ stack'[1] = g
        /\ \A j \in 2 .. Len(stack') : stack'[j] = r[j - 1]
    BY <2>1, <2>2
  <2>5. ASSUME NEW j \in 1 .. Len(stack')
        PROVE  \E k \in 1 .. Len(stack) : Same(stack'[j], stack[k])
    <3>1. CASE j = 1
      <4>1. 2 \in 1 .. Len(stack)
        BY <1>2
      <4> QED
        BY <2>3, <2>4, <3>1, <4>1
    <3>2. CASE j # 1
      <4>1. j - 1 \in 1 .. Len(r) /\ j \in 2 .. Len(stack') /\ j + 1 \in 1 .. Len(stack)
            /\ (j - 1) + 2 = j + 1
        BY <1>1, <2>1, <2>4, <3>2
      <4>2. stack'[j] = stack[j + 1]
        BY <2>1, <2>4, <4>1
      <4> QED
        BY <4>1, <4>2 DEF Same
    <3> QED
      BY <3>1, <3>2
  <2> QED
    BY <2>5, NamesKept
<1> QED
  BY <1>3, <1>4

\* A function that looks at no name goes on.
LEMMA NamesGoOn ==
    ASSUME PInv, Naming, Kept, NEW f, Become(f), f.fn = Top.fn,
           Top.fn \notin {"ref", "primary"}
    PROVE  Naming'
<1>1. ~Looks(f)
  BY DEF Looks
<1> QED
  BY <1>1, NamesBecome

\* The name at which the running function began.
LEMMA TopName ==
    ASSUME PInv, Naming, Kept
    PROVE  /\ Looks(Top) => toks'[Top.lo] \in Idents
           /\ toks'[cur] = Token
<1>1. Top \in Frames /\ Top = stack[1] /\ 1 \in 1 .. Len(stack)
  BY TopFacts DEF Top
<1>2. cur \in 1 .. Len(toks) /\ Top.lo \in 1 .. Len(toks)
  BY TopFacts
<1>3. Looks(Top) => toks[Top.lo] \in Idents
  BY <1>1 DEF Naming, NameAt
<1> QED
  BY <1>2, <1>3 DEF Kept, Token

\* Functions with a script or a list look at no name.
LEMMA NoName ==
    ASSUME PInv, Scripted \/ InList
    PROVE  Top.fn \notin {"ref", "primary", "unit"}
BY Named DEF Scripted, InList, Scripts, ListNames

\* What begins at a name, or was read ahead of, goes on beginning at it: the
\* steps of all functions.
LEMMA NamingKeeps == PInv /\ Naming /\ Next => Naming'
<1> SUFFICES ASSUME PInv, Naming, Next PROVE Naming'
  OBVIOUS
<1>0. Top \in Frames /\ Ready(Top, nodes, cur, Token, Last) /\ cur \in Nat \ {0}
  BY TopFacts
<1>1. CASE ScriptEat
  <2> DEFINE f == Step(1)
  <2>1. Scripted /\ Advance /\ Become(f)
    BY <1>1 DEF ScriptEat
  <2>2. Top.fn \notin {"ref", "primary"}
    BY <2>1, NoName
  <2>3. f.fn = Top.fn
    BY <1>0 DEF Frames, Step
  <2>4. Kept
    BY <2>1, TokensKept
  <2> HIDE DEF f
  <2> QED
    BY <2>1, <2>2, <2>3, <2>4, NamesGoOn
<1>2. CASE ScriptChoose
  <2> DEFINE f == IF Taken(Element) THEN Step(1) ELSE Step(1 + Element.skip)
  <2>1. Scripted /\ Stay /\ Become(f)
    BY <1>2 DEF ScriptChoose
  <2>2. Top.fn \notin {"ref", "primary"}
    BY <2>1, NoName
  <2>3. Step(1).fn = Top.fn /\ Step(1 + Element.skip).fn = Top.fn
    BY <1>0 DEF Frames, Step
  <2>4. Kept
    BY <2>1, TokensKept
  <2>5. f.fn = Top.fn
    BY <2>3
  <2> HIDE DEF f
  <2> QED
    BY <2>1, <2>2, <2>4, <2>5, NamesGoOn
<1>3. CASE ListComma
  <2> DEFINE f == [Top EXCEPT !.st = "open"]
  <2>1. InList /\ Advance /\ Become(f)
    BY <1>3 DEF ListComma
  <2>2. Top.fn \notin {"ref", "primary"}
    BY <2>1, NoName
  <2>3. f.fn = Top.fn
    BY <1>0 DEF Frames
  <2>4. Kept
    BY <2>1, TokensKept
  <2> HIDE DEF f
  <2> QED
    BY <2>1, <2>2, <2>3, <2>4, NamesGoOn
<1>4. CASE PostfixOperator
  <2> DEFINE f == [Top EXCEPT !.kids = <<New>>]
  <2>1. Top.fn = "postfix" /\ Advance /\ Become(f)
    BY <1>4 DEF PostfixOperator, Running
  <2>2. Top.fn \notin {"ref", "primary"}
    BY <2>1
  <2>3. f.fn = Top.fn
    BY <1>0 DEF Frames
  <2>4. Kept
    BY <2>1, TokensKept
  <2> HIDE DEF f
  <2> QED
    BY <2>1, <2>2, <2>3, <2>4, NamesGoOn
<1>5. CASE BinaryJoin
  <2> DEFINE f == [Top EXCEPT !.st = "loop", !.kids = <<New>>]
  <2>1. Top.fn = "binary" /\ Stay /\ Become(f)
    BY <1>5 DEF BinaryJoin, Joining, Running
  <2>2. Top.fn \notin {"ref", "primary"}
    BY <2>1
  <2>3. f.fn = Top.fn
    BY <1>0 DEF Frames
  <2>4. Kept
    BY <2>1, TokensKept
  <2> HIDE DEF f
  <2> QED
    BY <2>1, <2>2, <2>3, <2>4, NamesGoOn
<1>6. CASE BlockOpen
  <2> DEFINE f == [Top EXCEPT !.st = "loop"]
  <2>1. Top.fn = "block" /\ Advance /\ Become(f)
    BY <1>6 DEF BlockOpen, Running
  <2>2. Top.fn \notin {"ref", "primary"}
    BY <2>1
  <2>3. f.fn = Top.fn
    BY <1>0 DEF Frames
  <2>4. Kept
    BY <2>1, TokensKept
  <2> HIDE DEF f
  <2> QED
    BY <2>1, <2>2, <2>3, <2>4, NamesGoOn
<1>7. CASE CaseSep
  <2> DEFINE f == [Top EXCEPT !.st = "start"]
  <2>1. Top.fn = "cases" /\ (Advance \/ Stay) /\ Become(f)
    BY <1>7 DEF CaseSep, Running
  <2>2. Top.fn \notin {"ref", "primary"}
    BY <2>1
  <2>3. f.fn = Top.fn
    BY <1>0 DEF Frames
  <2>4. Kept
    BY <2>1, TokensKept
  <2> HIDE DEF f
  <2> QED
    BY <2>1, <2>2, <2>3, <2>4, NamesGoOn
<1>8. CASE ScriptDone
  <2>1. Scripted /\ Stay /\ (ReturnNothing \/ \E n : Return(n))
    BY <1>8 DEF ScriptDone
  <2>2. Top.fn # "unit"
    BY <2>1, NoName
  <2>3. Kept
    BY <2>1, TokensKept
  <2> QED
    BY <2>1, <2>2, <2>3, NamesReturn
<1>9. CASE ListEnd
  <2>1. InList /\ Stay /\ (ReturnNothing \/ \E n : Return(n))
    BY <1>9 DEF ListEnd
  <2>2. Top.fn # "unit"
    BY <2>1, NoName
  <2>3. Kept
    BY <2>1, TokensKept
  <2> QED
    BY <2>1, <2>2, <2>3, NamesReturn
<1>10. CASE PrefixDone
  <2>1. Top.fn = "prefix" /\ Stay /\ Return(New)
    BY <1>10 DEF PrefixDone, Running
  <2>2. Kept
    BY <2>1, TokensKept
  <2> QED
    BY <2>1, <2>2, NamesReturn
<1>11. CASE PostfixDone
  <2>1. Top.fn = "postfix" /\ Stay /\ Return(Top.kids[1])
    BY <1>11 DEF PostfixDone, Running
  <2>2. Kept
    BY <2>1, TokensKept
  <2> QED
    BY <2>1, <2>2, NamesReturn
<1>12. CASE BinaryDone
  <2>1. Top.fn = "binary" /\ Stay /\ Return(Top.kids[1])
    BY <1>12 DEF BinaryDone, Running
  <2>2. Kept
    BY <2>1, TokensKept
  <2> QED
    BY <2>1, <2>2, NamesReturn
<1>13. CASE Literal
  <2>1. Top.fn = "primary" /\ Advance /\ Return(New)
    BY <1>13 DEF Literal, Running
  <2>2. Kept
    BY <2>1, TokensKept
  <2> QED
    BY <2>1, <2>2, NamesReturn
<1>14. CASE Ref
  <2>1. Top.fn = "ref" /\ Advance /\ Return(New)
    BY <1>14 DEF Ref, Running
  <2>2. Kept
    BY <2>1, TokensKept
  <2> QED
    BY <2>1, <2>2, NamesReturn
<1>15. CASE LeafDone
  <2>1. Top.fn = "leaf" /\ Stay /\ Return(Top.kids[1])
    BY <1>15 DEF LeafDone, Running
  <2>2. Kept
    BY <2>1, TokensKept
  <2> QED
    BY <2>1, <2>2, NamesReturn
<1>16. CASE BlockClose
  <2>1. Top.fn = "block" /\ Advance /\ Return(New)
    BY <1>16 DEF BlockClose, Running
  <2>2. Kept
    BY <2>1, TokensKept
  <2> QED
    BY <2>1, <2>2, NamesReturn
<1>17. CASE CasesEnd
  <2>1. Top.fn = "cases" /\ Stay /\ Return(New)
    BY <1>17 DEF CasesEnd, Running
  <2>2. Kept
    BY <2>1, TokensKept
  <2> QED
    BY <2>1, <2>2, NamesReturn
<1>18. CASE Declare
  <2>1. Top.fn = "declare" /\ Stay /\ ReturnNothing
    BY <1>18 DEF Declare, Running
  <2>2. Kept
    BY <2>1, TokensKept
  <2> QED
    BY <2>1, <2>2, NamesReturn
<1>19. CASE ScriptCall
  <2> DEFINE f == Step(1)
  <2>1. Scripted /\ Stay /\ Call(f, Element.fn)
    BY <1>19 DEF ScriptCall
  <2>2. Top.fn \notin {"ref", "primary"}
    BY <2>1, NoName
  <2>3. f.fn = Top.fn
    BY <1>0 DEF Frames, Step
  <2>4. Kept
    BY <2>1, TokensKept
  <2>5. Element.fn \in Calling
    <3>1. Scripted /\ ~Ended /\ Element.do = "call"
      BY <1>19 DEF ScriptCall
    <3>2. ElementOK(Top.fn, Top.i, Element)
      BY <3>1, ScriptTop
    <3> QED
      BY <3>1, <3>2 DEF ElementOK, Calling
  <2> HIDE DEF f
  <2>6. ~Looks(f)
    BY <2>2, <2>3 DEF Looks
  <2> QED
    BY <2>1, <2>4, <2>5, <2>6, NamesCall
<1>20. CASE ListItem
  <2> DEFINE f == [Top EXCEPT !.st = "sep"]
  <2>1. InList /\ Stay /\ Call(f, Lists[Top.fn].item)
    BY <1>20 DEF ListItem
  <2>2. Top.fn \notin {"ref", "primary"}
    BY <2>1, NoName
  <2>3. f.fn = Top.fn
    BY <1>0 DEF Frames, Step
  <2>4. Kept
    BY <2>1, TokensKept
  <2>5. Lists[Top.fn].item \in Calling
    <3>1. Top.fn \in ListNames
      BY <2>1, ListTop
    <3> QED
      BY <3>1, ListItems
  <2> HIDE DEF f
  <2>6. ~Looks(f)
    BY <2>2, <2>3 DEF Looks
  <2> QED
    BY <2>1, <2>4, <2>5, <2>6, NamesCall
<1>21. CASE BlockStatement
  <2> DEFINE f == [Top EXCEPT !.st = "semi"]
  <2>1. Top.fn = "block" /\ Stay /\ Call(f, "stmt")
    BY <1>21 DEF BlockStatement, Running
  <2>2. Top.fn \notin {"ref", "primary"}
    BY <2>1
  <2>3. f.fn = Top.fn
    BY <1>0 DEF Frames, Step
  <2>4. Kept
    BY <2>1, TokensKept
  <2>5. "stmt" \in Calling
    BY DEF Calling, Callable
  <2> HIDE DEF f
  <2>6. ~Looks(f)
    BY <2>2, <2>3 DEF Looks
  <2> QED
    BY <2>1, <2>4, <2>5, <2>6, NamesCall
<1>22. CASE CaseStart
  <2> DEFINE f == [Top EXCEPT !.st = "sep"]
             fn == IF Token = "_" THEN "default" ELSE "case"
  <2>1. Top.fn = "cases" /\ Stay /\ Call(f, fn)
    BY <1>22 DEF CaseStart, Running
  <2>2. f.fn = Top.fn
    BY <1>0 DEF Frames
  <2>3. Kept
    BY <2>1, TokensKept
  <2>4. fn \in Calling
    BY DEF Calling
  <2> HIDE DEF f, fn
  <2>5. ~Looks(f)
    BY <2>1, <2>2 DEF Looks
  <2> QED
    BY <2>1, <2>3, <2>4, <2>5, NamesCall
<1>23. CASE PrefixOperator
  <2> DEFINE a == Frame("prefix", "start", cur + 1, <<>>)
             f == [Top EXCEPT !.st = "operand"]
  <2>1. Top.fn = "prefix" /\ Advance /\ stack' = <<a, f>> \o Rest
    BY <1>23 DEF PrefixOperator, Running
  <2>2. Kept
    BY <2>1, TokensKept
  <2>3. ~Looks(a)
    BY DEF Looks, Frame
  <2>4. f.fn = Top.fn
    BY <1>0 DEF Frames
  <2> HIDE DEF a, f
  <2>5. ~Looks(f)
    BY <2>1, <2>4 DEF Looks
  <2> QED
    BY <2>1, <2>2, <2>3, <2>5, NamesPush
<1>24. CASE PostfixTail
  <2> DEFINE a == Frame(IF Token = "[" THEN "index" ELSE "member", "start", Top.lo, Top.kids)
             f == [Top EXCEPT !.kids = <<>>]
  <2>1. Top.fn = "postfix" /\ Stay /\ stack' = <<a, f>> \o Rest
    BY <1>24 DEF PostfixTail, Running
  <2>2. Kept
    BY <2>1, TokensKept
  <2>3. ~Looks(a)
    BY DEF Looks, Frame
  <2>4. f.fn = Top.fn
    BY <1>0 DEF Frames
  <2> HIDE DEF a, f
  <2>5. ~Looks(f)
    BY <2>1, <2>4 DEF Looks
  <2> QED
    BY <2>1, <2>2, <2>3, <2>5, NamesPush
<1>25. CASE BinaryOperator
  <2> DEFINE a == Frame("prefix", "start", cur + 1, <<>>)
             f == [Top EXCEPT !.st = "rhs", !.at = cur]
  <2>1. Top.fn = "binary" /\ Advance /\ stack' = <<a, f>> \o Rest
    BY <1>25 DEF BinaryOperator, Running
  <2>2. Kept
    BY <2>1, TokensKept
  <2>3. ~Looks(a)
    BY DEF Looks, Frame
  <2>4. f.fn = Top.fn
    BY <1>0 DEF Frames
  <2> HIDE DEF a, f
  <2>5. ~Looks(f)
    BY <2>1, <2>4 DEF Looks
  <2> QED
    BY <2>1, <2>2, <2>3, <2>5, NamesPush
<1>26. CASE BinaryNested
  <2> DEFINE b == Frame("binary", "loop", nodes[Top.kids[2]].lo, <<Top.kids[2]>>)
             a == [b EXCEPT !.prec = Top.prec + 1]
             f == [Top EXCEPT !.st = "nested", !.kids = <<Top.kids[1]>>]
  <2>1. Top.fn = "binary" /\ Stay /\ stack' = <<a, f>> \o Rest
    BY <1>26 DEF BinaryNested, Running
  <2>2. Kept
    BY <2>1, TokensKept
  <2>3. a.fn = "binary"
    BY DEF Frame
  <2>4. f.fn = Top.fn
    BY <1>0 DEF Frames
  <2> HIDE DEF a, b, f
  <2>5. ~Looks(f) /\ ~Looks(a)
    BY <2>1, <2>3, <2>4 DEF Looks
  <2> QED
    BY <2>1, <2>2, <2>5, NamesPush
<1>27. CASE UseAhead
  <2> DEFINE a == Frame("typename", "start", cur, <<>>)
             f == [Top EXCEPT !.st = "named"]
  <2>1. Top.fn = "usespec" /\ Stay /\ stack' = <<a, f>> \o Rest
    BY <1>27 DEF UseAhead, Running
  <2>2. Kept
    BY <2>1, TokensKept
  <2>3. ~Looks(a)
    BY DEF Looks, Frame
  <2>4. f.fn = Top.fn
    BY <1>0 DEF Frames
  <2> HIDE DEF a, f
  <2>5. ~Looks(f)
    BY <2>1, <2>4 DEF Looks
  <2> QED
    BY <2>1, <2>2, <2>3, <2>5, NamesPush
<1>28. CASE LeafStart
  <2> DEFINE a == Frame("primary", "start", cur, <<>>)
             f == [Top EXCEPT !.st = "got"]
  <2>1. Top.fn = "leaf" /\ Stay /\ stack' = <<a, f>> \o Rest
    BY <1>28 DEF LeafStart, Running
  <2>2. Kept
    BY <2>1, TokensKept
  <2>3. ~Looks(a)
    BY DEF Looks, Frame
  <2>4. f.fn = Top.fn
    BY <1>0 DEF Frames
  <2> HIDE DEF a, f
  <2>5. ~Looks(f)
    BY <2>1, <2>4 DEF Looks
  <2> QED
    BY <2>1, <2>2, <2>3, <2>5, NamesPush
<1>29. CASE PrefixNone
  <2> DEFINE a == Frame("primary", "start", cur, <<>>)
             f == Frame("postfix", "loop", cur, <<>>)
  <2>1. Stay /\ stack' = <<a, f>> \o Rest
    BY <1>29 DEF PrefixNone
  <2>2. Kept
    BY <2>1, TokensKept
  <2>3. ~Looks(a) /\ ~Looks(f)
    BY DEF Looks, Frame
  <2> HIDE DEF a, f
  <2> QED
    BY <2>1, <2>2, <2>3, NamesPush
<1>30. CASE TryTypeName
  <2> DEFINE a == Frame("typename", "start", Top.lo, <<>>)
             f == [Top EXCEPT !.st = "named"]
  <2>1. Top.fn = "primary" /\ Top.st = "peek" /\ Restore /\ stack' = <<a, f>> \o Rest
    BY <1>30 DEF TryTypeName, Running
  <2>2. Kept
    BY <2>1, TokensKept
  <2>3. ~Looks(a)
    BY DEF Looks, Frame
  <2>4. f.lo = Top.lo
    BY <1>0 DEF Frames
  <2>5. toks'[Top.lo] \in Idents
    BY <2>1, <2>2, TopName DEF Looks
  <2> HIDE DEF a, f
  <2> QED
    BY <2>1, <2>2, <2>3, <2>4, <2>5, NamesPush
<1>31. CASE DecideByPeek
  <2> DEFINE f == Frame(NamedBy(Token), "start", Top.lo, <<>>)
  <2>1. Top.fn = "primary" /\ Top.st # "start" /\ Restore /\ Become(f)
    BY <1>31 DEF DecideByPeek, Running
  <2>2. Kept
    BY <2>1, TokensKept
  <2>3. f.lo = Top.lo
    BY DEF Frame
  <2>4. toks'[Top.lo] \in Idents
    BY <2>1, <2>2, TopName DEF Looks
  <2> HIDE DEF f
  <2> QED
    BY <2>1, <2>2, <2>3, <2>4, NamesBecome
<1>32. CASE PrimaryBracketed
  <2> DEFINE f == Frame(Bracketed(Token), "start", cur, <<>>)
  <2>1. (Stay \/ Restore) /\ Become(f)
    BY <1>32 DEF PrimaryBracketed
  <2>2. Kept
    BY <2>1, TokensKept
  <2>3. ~Looks(f)
    BY DEF Looks, Frame, Bracketed
  <2> HIDE DEF f
  <2> QED
    BY <2>1, <2>2, <2>3, NamesBecome
<1>33. CASE UseDecide
  <2> DEFINE f == Frame(IF Token = "{" THEN "init" ELSE "usespec", "start", Top.lo, <<>>)
  <2>1. (Stay \/ Restore) /\ Become(f)
    BY <1>33 DEF UseDecide
  <2>2. Kept
    BY <2>1, TokensKept
  <2>3. ~Looks(f)
    BY DEF Looks, Frame
  <2> HIDE DEF f
  <2> QED
    BY <2>1, <2>2, <2>3, NamesBecome
<1>34. CASE Known
  <2>1. /\ Token \in Idents /\ Stay
        /\ \/ Become(Frame("usespec", "ahead", cur, <<>>))
           \/ Become(Frame("ref", "start", cur, <<>>))
    BY <1>34 DEF Known, LookedUp
  <2>2. Kept
    BY <2>1, TokensKept
  <2>3. toks'[cur] \in Idents
    BY <2>1, <2>2, TopName
  <2>4. \A fn, st : Frame(fn, st, cur, <<>>).lo = cur
    BY DEF Frame
  <2>5. CASE Become(Frame("usespec", "ahead", cur, <<>>))
    BY <2>2, <2>3, <2>4, <2>5, NamesBecome
  <2>6. CASE Become(Frame("ref", "start", cur, <<>>))
    BY <2>2, <2>3, <2>4, <2>6, NamesBecome
  <2> QED
    BY <2>1, <2>5, <2>6
<1>35. CASE PeekAfterName
  <2> DEFINE f == [Top EXCEPT !.st = "peek"]
  <2>1. /\ Running("primary", "start") /\ Token \in Idents /\ Advance /\ Become(f)
    BY <1>35 DEF PeekAfterName, Unknown, LookedUp
  <2>2. Kept
    BY <2>1, TokensKept
  <2>3. f.lo = Top.lo
    BY <1>0 DEF Frames
  <2>4. Top.lo = cur
    BY <2>1, PrimaryTop
  <2>5. toks'[cur] \in Idents
    BY <2>1, <2>2, TopName
  <2> HIDE DEF f
  <2> QED
    BY <2>1, <2>2, <2>3, <2>4, <2>5, NamesBecome
<1>36. CASE StatementStart
  <2> DEFINE fn == Statement(Token)
             gs == Callee(fn, cur)
  <2>1. Stay /\ stack' = gs \o Rest
    BY <1>36 DEF StatementStart
  <2>2. Kept
    BY <2>1, TokensKept
  <2>3. fn \in Calling \cup {"block"}
    BY DEF Statement, Calling, Callable
  <2> HIDE DEF fn
  <2>4. gs \in Seq(Frames) /\ \A i \in 1 .. Len(gs) : ~Looks(gs[i])
    BY <1>0, <2>3, CalleeFrames
  <2> HIDE DEF gs
  <2> DEFINE S == Frames
  <2>5. gs \in Seq(S) /\ Frames \subseteq S
    BY <2>4
  <2> HIDE DEF S
  <2> QED
    BY <2>1, <2>2, <2>4, <2>5, NamesUnder
<1>37. ASSUME UNCHANGED stack, Kept PROVE Naming'
  <2>1. \A j \in 1 .. Len(stack') : \E k \in 1 .. Len(stack) : Same(stack'[j], stack[k])
    BY <1>37 DEF Same
  <2> QED
    BY <1>37, <2>1, NamesKept
<1>38. CASE TypeSuffix
  <2>1. /\ Top.fn = "suffix"
        /\ \/ Advance /\ UNCHANGED stack
           \/ Call(Top, "bound") /\ Stay
           \/ ReturnNothing /\ Stay
    BY <1>38 DEF TypeSuffix, Running
  <2>2. Kept
    BY <2>1, TokensKept
  <2>3. ~Looks(Top) /\ "bound" \in Calling /\ Top.fn # "unit"
    BY <2>1 DEF Looks, Calling
  <2>4. CASE UNCHANGED stack
    BY <1>37, <2>2, <2>4
  <2>5. CASE Call(Top, "bound")
    BY <2>2, <2>3, <2>5, NamesCall
  <2>6. CASE ReturnNothing
    BY <2>2, <2>3, <2>6, NamesReturn
  <2> QED
    BY <2>1, <2>4, <2>5, <2>6
<1>39. CASE BlockSemi
  <2> DEFINE f == [Top EXCEPT !.st = "loop"]
  <2>1. /\ Top.fn = "block"
        /\ (Advance /\ UNCHANGED stack) \/ (Stay /\ Become(f))
    BY <1>39 DEF BlockSemi, Running
  <2>2. Kept
    BY <2>1, TokensKept
  <2>3. f.fn = Top.fn
    BY <1>0 DEF Frames
  <2>4. CASE UNCHANGED stack
    BY <1>37, <2>2, <2>4
  <2>5. CASE Become(f)
    <3>1. Top.fn \notin {"ref", "primary"}
      BY <2>1
    <3> HIDE DEF f
    <3> QED
      BY <2>2, <2>3, <2>5, <3>1, NamesGoOn
  <2> QED
    BY <2>1, <2>4, <2>5
<1>40. CASE Finish \/ Reject \/ Stopped
  <2>1. UNCHANGED <<stack, toks, cur>>
    BY <1>40 DEF Finish, Reject, Stopped, Stay, vars
  <2>2. Kept
    BY <2>1, TokensKept DEF Stay
  <2> QED
    BY <1>37, <2>1, <2>2
<1> QED
  BY <1>1, <1>2, <1>3, <1>4, <1>5, <1>6, <1>7, <1>8, <1>9, <1>10, <1>11, <1>12,
     <1>13, <1>14, <1>15, <1>16, <1>17, <1>18, <1>19, <1>20, <1>21, <1>22,
     <1>23, <1>24, <1>25, <1>26, <1>27, <1>28, <1>29, <1>30, <1>31, <1>32,
     <1>33, <1>34, <1>35, <1>36, <1>38, <1>39, <1>40 DEF Next

-----------------------------------------------------------------------------
(* The invariant of the specification.                                     *)

IInv == PInv /\ Naming /\ allow \in BOOLEAN

\* Whatever function runs first, its frame is in order, and so is what waits
\* for it.
LEMMA InitHolds == Init => IInv
<1> SUFFICES ASSUME Init PROVE IInv
  OBVIOUS
<1> DEFINE u == Frame("unit", "wait", 1, <<>>)
<1>1. /\ lexicon \in Lexicons /\ cur = 1 /\ nodes = <<>> /\ status = "parsing"
      /\ allow \in BOOLEAN
  BY DEF Init
<1>2. PICK t \in Alphabet : toks = <<t>>
  <2>1. PICK t \in Lexed(1) : toks = <<t>>
    BY DEF Init
  <2>2. t \in Alphabet
    BY <1>1 DEF Lexed, Alphabet
  <2> QED
    BY <2>1, <2>2
<1>3. toks \in Seq(Alphabet) /\ Len(toks) = 1 /\ Token = t /\ cur \in 1 .. Len(toks)
  BY <1>1, <1>2 DEF Token
<1>4. Reads
  <2>1. EndKept
    BY <1>1 DEF EndKept
  <2> QED
    BY <1>1, <1>3, <2>1 DEF Reads
<1> DEFINE d == nodes
<1>5. d \in Seq(NodeSet) /\ Len(d) = 0
  BY <1>1
<1>6. Grown
  BY <1>5 DEF Grown
<1>7. /\ u \in Frames /\ u.fn = "unit" /\ u.st = "wait" /\ u.lo = 1 /\ u.kids = <<>>
      /\ u.at = 0
  <2>1. "unit" \in Functions /\ "wait" \in States /\ 1 \in Nat \ {0}
    BY Named DEF States
  <2> QED
    BY <2>1, NewEmpty
<1> HIDE DEF u, d
<1>8. u \in FramesOf(1) /\ Ordered(u, d) /\ Before(u, d, 1)
  BY <1>7, NoKids DEF FramesOf
<1>9. ~Deciding(u) /\ ~Fresh(u) /\ ~Childless(u)
  BY <1>7 DEF Deciding, Fresh, Childless, Nodeless
<1>10. ASSUME NEW a, a.fn \in {"binary", "block"}, a.lo = 1
       PROVE  Waits(a, u, d)
  BY <1>7, <1>8, <1>9, <1>10 DEF Waits, Nodeless
<1>11. 1 \in Nat \ {0} /\ 1 \in Nat /\ 1 <= 1
  OBVIOUS
<1>12. CASE lexicon.start = "expr"
  <2> DEFINE a == Frame("prefix", "start", 1, <<>>)
             b == Frame("binary", "loop", 1, <<>>)
  <2>1. stack = <<a, b, u>>
    BY <1>12 DEF Init, u
  <2>2. /\ b \in FramesOf(1) /\ b.fn = "binary" /\ b.lo = 1
        /\ Sits(b, d, 1) /\ Waits(a, b, d) /\ ~Deciding(b)
    BY <1>11, FreshBinary
  <2>3. /\ a \in FramesOf(1) /\ a.fn = "prefix" /\ Sits(a, d, 1)
        /\ Ready(a, d, 1, Token, Last)
    <3>1. MayBegin("prefix", "start", d, 1, Token)
      BY Named DEF MayBegin, States
    <3> QED
      BY <1>11, <3>1, FreshFrame
  <2>4. ~Deciding(a) /\ ~Looks(a) /\ ~Looks(b) /\ ~Looks(u)
    BY <1>7, <2>2, <2>3 DEF Deciding, Looks
  <2> HIDE DEF a, b
  <2>5. /\ stack \in Seq(FramesOf(1)) /\ Len(stack) = 3
        /\ stack[1] = a /\ stack[2] = b /\ stack[3] = u
    BY <1>8, <2>1, <2>2, <2>3
  <2>6. /\ Frm(stack, 1) = u /\ Frm(stack, 2) = b /\ Frm(stack, 3) = a
        /\ \A p \in 1 .. Len(stack) : p = 1 \/ p = 2 \/ p = 3
        /\ \A p \in 1 .. Len(stack) - 1 : (p = 1 \/ p = 2)
        /\ 1 + 1 = 2 /\ 2 + 1 = 3
    BY <2>5 DEF Frm
  <2>7. Waits(b, u, d)
    BY <1>10, <2>2
  <2>8. StackOK(stack, d, cur, Token, Last)
    <3>1. stack \in Seq(Frames) /\ Len(stack) > 0
      BY <2>5 DEF FramesOf
    <3>2. ASSUME NEW p \in 1 .. Len(stack)
          PROVE  /\ Frm(stack, p).fn = "unit" <=> p = 1
                 /\ Ordered(Frm(stack, p), d) /\ ~Deciding(Frm(stack, p))
      BY <1>7, <1>8, <1>9, <2>2, <2>3, <2>4, <2>6 DEF Sits
    <3>3. \A p \in 1 .. Len(stack) - 1 : Waits(Frm(stack, p + 1), Frm(stack, p), d)
      BY <2>2, <2>6, <2>7
    <3>4. Ready(Frm(stack, Len(stack)), d, cur, Token, Last)
      BY <1>1, <2>3, <2>5, <2>6
    <3> QED
      BY <3>1, <3>2, <3>3, <3>4 DEF StackOK
  <2>9. Naming
    <3>1. \A j \in 1 .. Len(stack) : stack[j] = a \/ stack[j] = b \/ stack[j] = u
      BY <2>5
    <3> QED
      BY <2>4, <3>1 DEF Naming, NameAt
  <2> QED
    BY <1>1, <1>3, <1>4, <1>6, <2>5, <2>8, <2>9 DEF IInv, PInv, Within, Stacked, d
<1>13. CASE lexicon.start # "expr"
  <2> DEFINE a == Frame("block", "open", 1, <<>>)
  <2>1. stack = <<a, u>>
    BY <1>13 DEF Init, u
  <2>2. Token = "{"
    <3>1. lexicon.start = "block"
      BY <1>1, <1>13, LexiconsAssumption
    <3>2. toks = <<"{">>
      BY <3>1 DEF Init
    <3> QED
      BY <1>1, <3>2 DEF Token
  <2>3. /\ a \in FramesOf(1) /\ a.fn = "block" /\ a.lo = 1 /\ Sits(a, d, 1)
        /\ Ready(a, d, 1, Token, Last)
    <3>1. MayBegin("block", "open", d, 1, Token)
      BY <2>2, Named DEF MayBegin, States
    <3> QED
      BY <1>11, <3>1, FreshFrame
  <2>4. ~Deciding(a) /\ ~Looks(a) /\ ~Looks(u)
    BY <1>7, <2>3 DEF Deciding, Looks
  <2> HIDE DEF a
  <2>5. /\ stack \in Seq(FramesOf(1)) /\ Len(stack) = 2
        /\ stack[1] = a /\ stack[2] = u
    BY <1>8, <2>1, <2>3
  <2>6. /\ Frm(stack, 1) = u /\ Frm(stack, 2) = a
        /\ \A p \in 1 .. Len(stack) : p = 1 \/ p = 2
        /\ \A p \in 1 .. Len(stack) - 1 : p = 1
        /\ 1 + 1 = 2
    BY <2>5 DEF Frm
  <2>7. Waits(a, u, d)
    BY <1>10, <2>3
  <2>8. StackOK(stack, d, cur, Token, Last)
    <3>1. stack \in Seq(Frames) /\ Len(stack) > 0
      BY <2>5 DEF FramesOf
    <3>2. ASSUME NEW p \in 1 .. Len(stack)
          PROVE  /\ Frm(stack, p).fn = "unit" <=> p = 1
                 /\ Ordered(Frm(stack, p), d) /\ ~Deciding(Frm(stack, p))
      BY <1>7, <1>8, <1>9, <2>3, <2>4, <2>6 DEF Sits
    <3>3. \A p \in 1 .. Len(stack) - 1 : Waits(Frm(stack, p + 1), Frm(stack, p), d)
      BY <2>6, <2>7
    <3>4. Ready(Frm(stack, Len(stack)), d, cur, Token, Last)
      BY <1>1, <2>3, <2>5, <2>6
    <3> QED
      BY <3>1, <3>2, <3>3, <3>4 DEF StackOK
  <2>9. Naming
    <3>1. \A j \in 1 .. Len(stack) : stack[j] = a \/ stack[j] = u
      BY <2>5
    <3> QED
      BY <2>4, <3>1 DEF Naming, NameAt
  <2> QED
    BY <1>1, <1>3, <1>4, <1>6, <2>5, <2>8, <2>9 DEF IInv, PInv, Within, Stacked, d
<1> QED
  BY <1>12, <1>13

\* Every step of every function keeps the stack in order.
LEMMA StepHolds == IInv /\ [Next]_vars => IInv'
<1> SUFFICES ASSUME IInv, [Next]_vars PROVE IInv'
  OBVIOUS
<1>1. PInv /\ Naming /\ allow \in BOOLEAN
  BY DEF IInv
<1>2. CASE UNCHANGED vars
  <2>1. UNCHANGED <<lexicon, toks, cur, stack, nodes>> /\ status' = status /\ allow' = allow
    BY <1>2 DEF vars
  <2>2. status' \in {"parsing", "parsed", "fatal"}
    BY <1>1, <2>1 DEF PInv, Reads
  <2>3. PInv'
    BY <1>1, <2>1, <2>2, EndsKeep
  <2>4. Naming'
    BY <1>1, <2>1 DEF Naming, NameAt
  <2> QED
    BY <1>1, <2>1, <2>3, <2>4 DEF IInv
<1>3. CASE Next
  <2>1. Naming'
    BY <1>1, <1>3, NamingKeeps
  <2>2. CASE Finish \/ Reject \/ Stopped
    <3>1. /\ UNCHANGED <<lexicon, toks, cur, stack, nodes>> /\ allow' = allow
          /\ status' \in {"parsed", "fatal", status}
      BY <2>2 DEF Finish, Reject, Stopped, vars, Stay
    <3>2. status' \in {"parsing", "parsed", "fatal"}
      BY <1>1, <3>1 DEF PInv, Reads
    <3>3. PInv'
      BY <1>1, <3>1, <3>2, EndsKeep
    <3> QED
      BY <1>1, <2>1, <3>1, <3>3 DEF IInv
  <2>3. CASE \/ ScriptEat \/ ScriptCall \/ ScriptChoose \/ ScriptDone
             \/ ListItem \/ ListComma \/ ListEnd \/ TypeSuffix
             \/ PrefixOperator \/ PrefixDone \/ PrefixNone
             \/ PostfixOperator \/ PostfixTail \/ PostfixDone
             \/ BinaryOperator \/ BinaryNested \/ BinaryJoin \/ BinaryDone
    <3>1. PInv'
      BY <1>1, <2>3, ScriptEatKeeps, ScriptCallKeeps, ScriptChooseKeeps, ScriptDoneKeeps,
         ListItemKeeps, ListCommaKeeps, ListEndKeeps, TypeSuffixKeeps, PrefixOperatorKeeps,
         PrefixDoneKeeps, PrefixNoneKeeps, PostfixOperatorKeeps, PostfixTailKeeps,
         PostfixDoneKeeps, BinaryOperatorKeeps, BinaryNestedKeeps, BinaryJoinKeeps,
         BinaryDoneKeeps
    <3>2. allow' = allow
      BY <2>3 DEF ScriptEat, ScriptCall, ScriptChoose, ScriptDone, ListItem, ListComma,
         ListEnd, TypeSuffix, PrefixOperator, PrefixDone, PrefixNone, PostfixOperator,
         PostfixTail, PostfixDone, BinaryOperator, BinaryNested, BinaryJoin, Joining, BinaryDone, Quiet
    <3> QED
      BY <1>1, <2>1, <3>1, <3>2 DEF IInv
  <2>4. CASE \/ Literal \/ PrimaryBracketed \/ Known \/ PeekAfterName
             \/ TryTypeName \/ DecideByPeek \/ UseAhead \/ UseDecide
             \/ Ref \/ LeafStart \/ LeafDone
             \/ StatementStart \/ BlockOpen \/ BlockStatement \/ BlockSemi \/ BlockClose
             \/ Declare \/ CaseStart \/ CaseSep \/ CasesEnd
    <3>1. PInv'
      BY <1>1, <2>4, LiteralKeeps, PrimaryBracketedKeeps, KnownKeeps, PeekAfterNameKeeps,
         TryTypeNameKeeps, DecideByPeekKeeps, UseAheadKeeps, UseDecideKeeps, RefKeeps,
         LeafStartKeeps, LeafDoneKeeps, StatementStartKeeps, BlockOpenKeeps,
         BlockStatementKeeps, BlockSemiKeeps, BlockCloseKeeps, DeclareKeeps, CaseStartKeeps,
         CaseSepKeeps, CasesEndKeeps
    <3>2. allow' = allow \/ allow' \in BOOLEAN
      BY <2>4 DEF Literal, PrimaryBracketed, Known, PeekAfterName, TryTypeName, DecideByPeek,
         UseAhead, UseDecide, Ref, LeafStart, LeafDone, StatementStart, BlockOpen,
         BlockStatement, BlockSemi, BlockClose, Declare, CaseStart, CaseSep, CasesEnd, Quiet
    <3> QED
      BY <1>1, <2>1, <3>1, <3>2 DEF IInv
  <2> QED
    BY <1>3, <2>2, <2>3, <2>4 DEF Next
<1> QED
  BY <1>2, <1>3

\* Frames and nodes are about tokens and nodes that there are.
LEMMA TypesFollow == IInv => TypeOK
<1> SUFFICES ASSUME IInv PROVE TypeOK
  OBVIOUS
<1>1. PInv /\ allow \in BOOLEAN
  BY DEF IInv
<1>2. /\ cur \in 1 .. Len(toks) /\ status \in {"parsing", "parsed", "fatal"}
      /\ Len(toks) \in Nat /\ stack \in Seq(FramesOf(Len(toks))) /\ Len(stack) \in Nat
  BY <1>1, TopFacts DEF PInv, Reads, Within
<1>3. ASSUME NEW j \in 1 .. Len(stack)
      PROVE  /\ stack[j].fn \in Functions
             /\ stack[j].lo \in 1 .. Len(toks) /\ stack[j].at \in 0 .. Len(toks)
             /\ \A k \in 1 .. Len(stack[j].kids) : stack[j].kids[k] \in 1 .. Len(nodes)
  <2>1. stack[j] \in FramesOf(Len(toks))
    BY <1>2
  <2>2. stack[j] \in Frames /\ stack[j].lo <= Len(toks) /\ stack[j].at <= Len(toks)
    BY <2>1 DEF FramesOf
  <2>3. stack[j].fn \in Functions /\ stack[j].lo \in Nat \ {0} /\ stack[j].at \in Nat
    BY <2>2, FrameFields
  <2>4. Ordered(stack[j], nodes)
    <3> DEFINE p == Len(stack) + 1 - j
    <3>1. p \in 1 .. Len(stack) /\ Len(stack) + 1 - p = j
      BY <1>2
    <3>2. Frm(stack, p) = stack[j]
      BY <3>1 DEF Frm
    <3> HIDE DEF p
    <3>3. Ordered(Frm(stack, p), nodes)
      BY <1>1, <3>1 DEF PInv, Stacked, StackOK
    <3> QED
      BY <3>2, <3>3
  <2>5. stack[j].lo \in 1 .. Len(toks) /\ stack[j].at \in 0 .. Len(toks)
    BY <1>2, <2>2, <2>3
  <2> QED
    BY <2>3, <2>4, <2>5 DEF Ordered
<1>4. \A n \in 1 .. Len(nodes) :
         \A k \in 1 .. Len(nodes[n].kids) : nodes[n].kids[k] \in 1 .. (n - 1)
  BY <1>1 DEF PInv, Grown, NodeOK
<1> QED
  BY <1>1, <1>2, <1>3, <1>4 DEF TypeOK

\* The kids of a node lie inside it in order, operators between their operands.
LEMMA OrderFollows == IInv => InTextOrder
<1> SUFFICES ASSUME IInv, NEW n \in 1 .. Len(nodes)
             PROVE  /\ \A k \in 1 .. Len(nodes[n].kids) :
                          /\ nodes[n].lo <= nodes[nodes[n].kids[k]].lo
                          /\ nodes[nodes[n].kids[k]].hi <= nodes[n].hi
                          /\ k > 1 => nodes[nodes[n].kids[k - 1]].hi
                                         < nodes[nodes[n].kids[k]].lo
                    /\ IsBin(n) => /\ nodes[n].lo = nodes[Left(n)].lo
                                   /\ nodes[Left(n)].hi = nodes[n].at - 1
                                   /\ nodes[n].hi = nodes[Right(n)].hi
                                   /\ nodes[Right(n)].lo = nodes[n].at + 1
  BY DEF InTextOrder
<1>1. NodeOK(n, nodes) /\ nodes \in Seq(NodeSet)
  BY DEF IInv, PInv, Grown
<1>2. ASSUME NEW k \in 1 .. Len(nodes[n].kids)
      PROVE  /\ nodes[n].lo <= nodes[nodes[n].kids[k]].lo
             /\ nodes[nodes[n].kids[k]].hi <= nodes[n].hi
             /\ k > 1 => nodes[nodes[n].kids[k - 1]].hi < nodes[nodes[n].kids[k]].lo
  <2>1. k > 1 => k \in 2 .. Len(nodes[n].kids)
    OBVIOUS
  <2> QED
    BY <1>1, <2>1 DEF NodeOK
<1>3. IsBin(n) => /\ nodes[n].lo = nodes[Left(n)].lo
                  /\ nodes[Left(n)].hi = nodes[n].at - 1
                  /\ nodes[n].hi = nodes[Right(n)].hi
                  /\ nodes[Right(n)].lo = nodes[n].at + 1
  BY <1>1 DEF NodeOK, IsBin, Left, Right, Spans
<1> QED
  BY <1>2, <1>3

\* However the functions of the parser call each other, read ahead and go back,
\* their frames stay in order.
THEOREM StackInOrder == Spec => []IInv
<1>1. Init => IInv
  BY InitHolds
<1>2. IInv /\ [Next]_vars => IInv'
  BY StepHolds
<1> QED
  BY <1>1, <1>2, PTL DEF Spec

\* Every position and every node that a frame or a node names is there.
THEOREM TypeCorrect == Spec => []TypeOK
<1>1. IInv => TypeOK
  BY TypesFollow
<1> QED
  BY <1>1, StackInOrder, PTL

\* next() is never called at the end of the file, so that the lexer is asked for
\* no token after it.
THEOREM EndIsKept == Spec => []EndKept
<1>1. IInv => EndKept
  BY DEF IInv, PInv, Reads
<1> QED
  BY <1>1, StackInOrder, PTL

\* The tree that the parser builds follows the text: kids lie inside their node
\* in order, and an operator stands between the operands that it was given.
THEOREM TreeFollowsText == Spec => []InTextOrder
<1>1. IInv => InTextOrder
  BY OrderFollows
<1> QED
  BY <1>1, StackInOrder, PTL

=============================================================================
