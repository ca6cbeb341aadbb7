------------------------------ MODULE Context ------------------------------
(***************************************************************************)
(* The types of a program (compiler/tree/context.cpp, type.cpp, decl.cpp,  *)
(* substenv.cpp).  While a file is parsed, a type that is not declared yet *)
(* becomes a DeferredType, kept in the file's Context under the text of    *)
(* its name.  After the uses are resolved, Context::sanitate goes twice    *)
(* through the deferred types of each unit and parses their texts again;   *)
(* the second time it instantiates the templates it meets.  Units and      *)
(* deferred types are kept in unordered_maps and come in any order.        *)
(*                                                                         *)
(* A text is the sequence of its tokens: a name is one token, "*" and "[]" *)
(* follow it, "<" and ">" enclose the argument of a template.  A structure *)
(* has one field and a template one parameter; the types of further fields *)
(* and of methods are treated in the same way as that of the field.        *)
(***************************************************************************)
EXTENDS Naturals, FiniteSets, SequencesExt

CONSTANTS
    Files,       \* the units, in the order they are parsed
    NoUnit,
    StructsOf,   \* the names of structures that each unit may declare,
    TemplatesOf, \* and those of templates
    ParamOf,     \* the name of the parameter of each template
    FieldTexts,  \* the types that are written for the field of each of them,
    Texts,       \* and those that are written outside of structures
    MaxItems,    \* bound on the declarations and types of all files together,
    MaxDeferred  \* and on the types that are deferred

Units     == ToSet(Files)
Templates == UNION {TemplatesOf[u] : u \in Units}
Prims     == {"i32"}

ASSUME NamesAssumption ==
    /\ \A u \in Units : StructsOf[u] \cap Templates = {}
    /\ \A t \in Templates :
          \A u \in Units : ParamOf[t] \notin StructsOf[u] \cup Templates

VARIABLES
    phase,    \* "parse", "uses", "sanitate", "done", or how the program ended:
              \* "fatal", "lost" (substParam gave up), "unset" (a type was used
              \* before it had its value) or "null" (so was a null template)
    file,     \* the number of the file being parsed
    visible,  \* the declarations in the scope of each unit
    field,    \* the type of the field of each structure and template
    deferred, \* Context::m_Deferred of each unit
    written,  \* every type written so far: its text, its scope and what it became
    pool,     \* m_Pointers and m_Arrays of each unit, m_TemplateSpecs of each template
    todo,     \* the units that are not sanitated
    cur,      \* the unit that is
    order,    \* its deferred types, in the order of the map
    pos       \* how many of them went through the second loop

vars == <<phase, file, visible, field, deferred, written, pool, todo, cur, order,
          pos>>

-----------------------------------------------------------------------------
(* Type objects.  Two are the same object if they are equal: each Context  *)
(* has its own primitive, pointer and array types.                         *)

TypeObject(k, u, n, i) == [k |-> k, u |-> u, n |-> n, i |-> i]

Prim(u, p)   == TypeObject("prim", u, <<p>>, 0)
Struct(u, s) == TypeObject("struct", u, <<s>>, 0)
Param(u, t)  == TypeObject("param", u, <<t>>, 0)
Deferred(u, text) == TypeObject("defer", u, text, 0)

\* Not a type: no result, or the way in which the program ends.
No(why) == TypeObject(why, NoUnit, <<>>, 0)
Unset   == No("unset")
Failed(t) == t.k \in {"none", "fatal", "lost", "unset", "null"}

\* Type::getName; what a parameter is called depends on the template.
NameOf(t) == IF t.k = "param" THEN <<ParamOf[t.n[1]]>> ELSE t.n

\* The scope of a file, and that of a template in it.
Scope(u, t) == [u |-> u, t |-> t]

IsParam(text, s) == s.t # "" /\ text = <<ParamOf[s.t]>>

Decls(text, s) == {d \in visible[s.u] : <<d.n>> = text}

Declared(text, s) == IsParam(text, s) \/ Decls(text, s) # {}

DefinedType(text, s) ==
    IF IsParam(text, s) THEN Param(s.u, s.t)
    ELSE LET d == CHOOSE d \in Decls(text, s) : TRUE IN Struct(d.of, d.n)

-----------------------------------------------------------------------------
(* The parser.                                                             *)

Init ==
    /\ phase = "parse"
    /\ file = 1
    /\ visible = [u \in Units |-> {}]
    /\ field = <<>>
    /\ deferred = [u \in Units |-> <<>>]
    /\ written = <<>>
    /\ pool = [wraps |-> [u \in Units |-> <<>>], specs |-> <<>>]
    /\ todo = Units
    /\ cur = NoUnit
    /\ order = <<>>
    /\ pos = 0

This == Files[file]

Opens(token)  == token = "<"
Closes(token) == token = ">"
Squares(token) == token = "[]"

\* The calls of Type::get that parse_type makes for a text: the argument of a
\* template is parsed first.
RECURSIVE Parts(_)
Parts(text) ==
    IF Contains(text, "<")
    THEN Parts(SubSeq(text, SelectInSeq(text, Opens) + 1,
                      SelectLastInSeq(text, Closes) - 1)) \o <<text>>
    ELSE <<text>>

\* Type::get.
Get(text, s) ==
    IF Declared(text, s) THEN DefinedType(text, s)
    ELSE IF text[1] \in Prims /\ Len(text) = 1 THEN Prim(s.u, text[1])
    ELSE Deferred(s.u, text)

\* Its effect on m_Deferred: the scope is that of the first text of the name.
Enter(d, text, s) ==
    IF text \in DOMAIN d THEN d ELSE d @@ (text :> [scope |-> s, under |-> Unset])

\* Faulty: types are looked up in the file.
EnterForFile(d, text, s) == Enter(d, text, Scope(s.u, ""))

Defer(d, text, s) == Enter(d, text, s)

DeferredParts(text, s) ==
    SelectSeq(Parts(text), LAMBDA part : Get(part, s).k = "defer")

SumDeferred(d) ==
    FoldSet(LAMBDA u, sum : sum + Cardinality(DOMAIN d[u]), 0, Units)

ParseType(text, s) ==
    /\ phase = "parse"
    /\ Len(written) < MaxItems
    /\ deferred' = [deferred EXCEPT ![This] =
                       FoldLeft(LAMBDA d, part : Defer(d, part, s), @, DeferredParts(text, s))]
    /\ SumDeferred(deferred') <= MaxDeferred
    /\ written' = Append(written, [text |-> text, scope |-> s, type |-> Get(text, s)])
    /\ UNCHANGED <<phase, file, pool, todo, cur, order, pos>>

ParseStruct ==
    \E n \in StructsOf[This] \cup TemplatesOf[This] :
    \E text \in FieldTexts[n] :
        LET d == [n |-> n, of |-> This]
            s == Scope(This, IF n \in Templates THEN n ELSE "")
        IN /\ Decls(<<n>>, s) = {}
           /\ ParseType(text, s)
           /\ field' = field @@ (<<This, n>> :> Get(text, s))
           /\ visible' = [visible EXCEPT ![This] = @ \cup {d}]

\* The type of a variable, a parameter, a cast ...
ParseMention ==
    \E text \in Texts :
        /\ ParseType(text, Scope(This, ""))
        /\ UNCHANGED <<visible, field>>

EndOfFile ==
    /\ phase = "parse"
    /\ IF file = Len(Files) THEN phase' = "uses" /\ UNCHANGED file
                            ELSE file' = file + 1 /\ UNCHANGED phase
    /\ UNCHANGED <<visible, field, deferred, written, pool, todo, cur, order, pos>>

\* UnitManager::resolveUses, for uses that are accepted: what a unit comes to
\* see of another one is whatever is public there and named in its uses.
ResolveUses ==
    /\ phase = "uses"
    /\ \E from \in [Units -> SUBSET UNION {visible[v] : v \in Units}] :
          /\ \A u \in Units : \A d \in from[u] : d.of # u
          /\ \A u \in Units :
                \A d, e \in visible[u] \cup from[u] : d.n = e.n => d = e
          /\ visible' = [u \in Units |-> visible[u] \cup from[u]]
    /\ phase' = "sanitate"
    /\ UNCHANGED <<file, field, deferred, written, pool, todo, cur, order, pos>>

-----------------------------------------------------------------------------
(* What the functions on types return: a type and the pool they leave.     *)

Result(t, p) == [t |-> t, pool |-> p]

\* PointerType::get and ArrayType::get find a type by its name.
Wrap(u, r, suffix) ==
    LET name == NameOf(r.t) \o <<suffix>>
        t    == TypeObject("wrap", u, name, 0)
    IN IF Failed(r.t) THEN r
       ELSE IF name \in DOMAIN r.pool.wraps[u] THEN Result(t, r.pool)
       ELSE Result(t, [r.pool EXCEPT !.wraps[u] = @ @@ (name :> r.t)])

\* getPointee and getElement.
Inner(t, p) == p.wraps[t.u][t.n]

Specs(d, p) == IF d \in DOMAIN p.specs THEN p.specs[d] ELSE <<>>

\* The template and the entry of a specialization.
TemplateOf(t) == <<t.u, t.n[1]>>
SpecOf(t, p)  == Specs(TemplateOf(t), p)[t.i]

\* A deferred type stands for its underlying type.
RECURSIVE Plain(_)
Plain(t) == IF t.k = "defer" THEN Plain(deferred[t.u][t.n].under) ELSE t

\* compare: by kind for primitives, structural for pointers and arrays, and
\* identity for structures.
RECURSIVE Compare(_, _, _)
Compare(t, other, p) ==
    LET x == Plain(t)
        y == Plain(other)
    IN CASE x.k = "param" -> TRUE
         [] x.k = "prim"  -> y.k = "prim" /\ x.n = y.n
         [] x.k = "wrap"  -> /\ y.k = "wrap"
                             /\ Last(x.n) = Last(y.n)
                             /\ Compare(Inner(x, p), Inner(y, p), p)
         [] OTHER -> x = y

\* Faulty: arguments are the same only if they are one object.
SameObject(x, y, p) == x = y

\* compareArgs.
SameArgs(x, y, p) == Compare(x, y, p)

RECURSIVE IsParamDependent(_, _)
IsParamDependent(t, p) ==
    \/ t.k = "param"
    \/ t.k = "wrap" /\ IsParamDependent(Inner(t, p), p)
    \/ t.k = "struct" /\ IsParamDependent(field[<<t.u, t.n[1]>>], p)
    \/ t.k = "spec" /\ IsParamDependent(SpecOf(t, p).field, p)

\* Faulty: a pointer in a template keeps its pointee.
Shallow(u, t, r) == Result(t, r.pool)

Rewrap(u, t, r) == Wrap(u, r, Last(t.n))

RECURSIVE SubstType(_, _, _, _), FetchSpecialization(_, _, _)

\* SubstEnv::substType, param being the parameter of d and arg its argument.
SubstType(t, d, arg, p) ==
    CASE t.k = "defer" -> SubstType(Plain(t), d, arg, p)
      [] t.k = "wrap"  -> Rewrap(d[1], t, SubstType(Inner(t, p), d, arg, p))
      [] t.k = "param" -> Result(IF t = Param(d[1], d[2]) THEN arg ELSE No("lost"), p)
      [] t.k = "spec"  ->
            LET r == SubstType(SpecOf(t, p).arg, d, arg, p)
            IN IF Failed(r.t) THEN r
               ELSE IF r.t = SpecOf(t, p).arg THEN Result(t, r.pool)
               ELSE FetchSpecialization(TemplateOf(t), r.t, r.pool)
      [] OTHER -> Result(t, p)

\* fetchSpecialization of template d, and createSpecialization if there is none.
FetchSpecialization(d, arg, p) ==
    LET found == {i \in 1 .. Len(Specs(d, p)) : SameArgs(Specs(d, p)[i].arg, arg, p)}
        type(i) == TypeObject("spec", d[1], <<d[2], "<">> \o NameOf(arg) \o <<">">>, i)
        r == SubstType(field[d], d, arg, p)
        made == Append(Specs(d, r.pool), [arg |-> arg, field |-> r.t])
    IN IF found # {} THEN Result(type(Min(found)), p)
       ELSE IF Failed(r.t) THEN r
       ELSE Result(type(Len(made)), [r.pool EXCEPT !.specs = (d :> made) @@ @])

\* What resolveType takes for the outermost part of a text, which it splits at
\* the last tokens of the kind.
TakenApart(text) ==
    IF Last(text) = "*" THEN "pointer"
    ELSE IF Contains(text, "[]") THEN "array"
    ELSE IF Contains(text, "<") /\ Contains(text, ">") THEN "template"
    ELSE "name"

\* Faulty: templates are looked for first.
TemplatesFirst(text) ==
    IF Contains(text, "<") /\ Contains(text, ">") THEN "template" ELSE TakenApart(text)

Outermost(text) == TakenApart(text)

RECURSIVE ResolveType(_, _, _, _)
ResolveType(text, s, specialize, p) ==
    LET inside(part) == ResolveType(part, s, specialize, p)
        left == SelectLastInSeq(text, Opens)
        tmpl == SubSeq(text, 1, left - 1)
        arg  == SubSeq(text, left + 1, SelectLastInSeq(text, Closes) - 1)
        r    == inside(arg)
        fails(why) == Result(No(why), r.pool)
    IN IF Declared(text, s) THEN Result(DefinedType(text, s), p)
       ELSE CASE Outermost(text) = "pointer" -> Wrap(s.u, inside(Front(text)), "*")
              [] Outermost(text) = "array" ->
                    Wrap(s.u, inside(SubSeq(text, 1, SelectLastInSeq(text, Squares) - 1)), "[]")
              [] Outermost(text) = "name" ->
                    Result(IF Len(text) = 1 /\ text[1] \in Prims
                           THEN Prim(s.u, text[1]) ELSE No("none"), p)
              [] Outermost(text) = "template" ->
                    IF Declared(tmpl, s) /\ tmpl[1] \notin Templates
                    THEN Result(No("fatal"), p)
                    \* A ">" in the argument leaves the scan without any argument.
                    ELSE IF Contains(arg, ">")
                    THEN Result(No(IF specialize THEN "null" ELSE "none"), p)
                    ELSE IF Failed(r.t) THEN r
                    ELSE IF ~specialize THEN fails("none")
                    ELSE IF ~Declared(tmpl, s) THEN fails("null")
                    ELSE IF IsParamDependent(r.t, r.pool) THEN fails("none")
                    ELSE FetchSpecialization(TemplateOf(DefinedType(tmpl, s)), r.t, r.pool)

-----------------------------------------------------------------------------
(* Context::sanitate.                                                      *)

Underlying(u, text) == deferred[u][text].under

StartUnit ==
    /\ phase = "sanitate"
    /\ cur = NoUnit
    /\ \E u \in todo : cur' = u
    /\ order' = <<>>
    /\ pos' = 0
    /\ UNCHANGED <<phase, file, visible, field, deferred, written, pool, todo>>

\* Faulty: a type that is not found is left as it is, as in the first loop.
LeaveUnresolved(specialize) == FALSE

Unresolved(specialize) == specialize

\* An iteration of either loop over the deferred types.
Sanitate(text, specialize) ==
    \E r \in {ResolveType(text, deferred[cur][text].scope, specialize, pool)} :
       /\ pool' = r.pool
       /\ deferred' = IF Failed(r.t) THEN deferred
                      ELSE [deferred EXCEPT ![cur][text].under = r.t]
       /\ phase' = IF ~Failed(r.t) THEN phase
                   ELSE IF r.t.k # "none" THEN r.t.k
                   ELSE IF Unresolved(specialize) THEN "fatal" ELSE phase
       /\ UNCHANGED <<file, visible, field, written, todo, cur>>

FirstPass ==
    /\ phase = "sanitate"
    /\ cur # NoUnit
    /\ \E text \in DOMAIN deferred[cur] \ ToSet(order) :
          /\ Sanitate(text, FALSE)
          /\ order' = Append(order, text)
    /\ UNCHANGED pos

\* The map did not change and comes in the same order again.
SecondPass ==
    /\ phase = "sanitate"
    /\ cur # NoUnit
    /\ ToSet(order) = DOMAIN deferred[cur]
    /\ pos < Len(order)
    /\ Sanitate(order[pos + 1], TRUE)
    /\ pos' = pos + 1
    /\ UNCHANGED order

EndUnit ==
    /\ phase = "sanitate"
    /\ cur # NoUnit
    /\ pos = Cardinality(DOMAIN deferred[cur])
    /\ todo' = todo \ {cur}
    /\ phase' = IF todo' = {} THEN "done" ELSE phase
    /\ cur' = NoUnit
    /\ UNCHANGED <<file, visible, field, deferred, written, pool, order, pos>>

Over ==
    /\ phase \in {"done", "fatal", "lost", "unset", "null"}
    /\ UNCHANGED vars

Next == \/ ParseStruct \/ ParseMention \/ EndOfFile \/ ResolveUses
        \/ StartUnit \/ FirstPass \/ SecondPass \/ EndUnit \/ Over

Spec == Init /\ [][Next]_vars

-----------------------------------------------------------------------------
(* What the texts mean, by the grammar of the language: the type they begin*)
(* with and what is built around it, from the inside out; <<>> if nothing. *)

RECURSIVE Denotation(_, _)
Denotation(text, s) ==
    IF Len(text) = 1
    THEN IF Declared(text, s) THEN <<DefinedType(text, s)>>
         ELSE IF text[1] \in Prims THEN <<Prim(NoUnit, text[1])>> ELSE <<>>
    ELSE IF Last(text) \in {"*", "[]"}
    THEN LET d == Denotation(Front(text), s)
         IN IF d = <<>> THEN <<>>
            ELSE Append(d, TypeObject("wrap", NoUnit, <<Last(text)>>, 0))
    ELSE LET d == Denotation(SubSeq(text, 3, Len(text) - 1), s)
             t == <<text[1]>>
         IN IF d = <<>> \/ text[1] \notin Templates \/ ~Declared(t, s) THEN <<>>
            ELSE Append(d, [DefinedType(t, s) EXCEPT !.k = "spec"])

\* What a type object stands for.
RECURSIVE Meaning(_)
Meaning(t) ==
    CASE t.k = "defer" -> Meaning(Plain(t))
      [] t.k = "wrap"  -> Append(Meaning(Inner(t, pool)),
                                 TypeObject("wrap", NoUnit, <<Last(t.n)>>, 0))
      [] t.k = "spec"  -> Append(Meaning(SpecOf(t, pool).arg),
                                 TypeObject("spec", t.u, <<t.n[1]>>, 0))
      [] t.k = "prim"  -> <<Prim(NoUnit, t.n[1])>>
      [] OTHER -> <<t>>

\* A meaning with the parameter of template d replaced.
Replaced(m, d, arg) ==
    IF m[1] = Param(d[1], d[2]) THEN arg \o Tail(m) ELSE m

\* The types that can be written: no template in or around an argument, no
\* array in one, and no template of a parameter.
Supported(text, s) ==
    Contains(text, "<") =>
        LET arg == SubSeq(text, 3, SelectLastInSeq(text, Closes) - 1)
        IN /\ ~Contains(arg, "<") /\ ~Contains(arg, "[]")
           /\ Denotation(<<arg[1]>>, s) # <<>> =>
                 ~IsParamDependent(Denotation(<<arg[1]>>, s)[1], pool)

Good(w) == Denotation(w.text, w.scope) # <<>> /\ Supported(w.text, w.scope)

(* The state is well formed, and a unit has gone through the second loop   *)
(* only as far as everything before is resolved.                           *)
TypeOK ==
    /\ phase \in {"parse", "uses", "sanitate", "done", "fatal", "lost", "unset", "null"}
    /\ file \in 1 .. Len(Files)
    /\ DOMAIN field = {<<d.of, d.n>> : d \in UNION {visible[u] : u \in Units}}
    /\ todo \subseteq Units
    /\ cur \in todo \cup {NoUnit}
    /\ cur # NoUnit => /\ ToSet(order) \subseteq DOMAIN deferred[cur]
                       /\ phase = "sanitate" =>
                            \A i \in 1 .. pos : ~Failed(Underlying(cur, order[i]))
    /\ \A u \in Units : \A text \in DOMAIN deferred[u] :
          u \notin todo => ~Failed(Underlying(u, text))

(* When the types are resolved, every type in the program is the one that  *)
(* its text means where it stands, in whatever order the units and their   *)
(* types came, and whichever text the deferred type was made for.          *)
EveryTypeMeant ==
    phase = "done" =>
        \A i \in 1 .. Len(written) :
            Meaning(written[i].type) = Denotation(written[i].text, written[i].scope)

(* A template has one specialization for each argument, also when units    *)
(* spell, or build, the argument each for itself.                          *)
OneSpecialization ==
    \A d \in DOMAIN pool.specs : \A i, j \in 1 .. Len(pool.specs[d]) :
        Meaning(pool.specs[d][i].arg) = Meaning(pool.specs[d][j].arg) => i = j

(* The field of a specialization is that of its template, with the argument*)
(* in the place of the parameter.                                          *)
FieldsSubstituted ==
    phase = "done" =>
        \A d \in DOMAIN pool.specs : \A i \in 1 .. Len(pool.specs[d]) :
            LET spec == pool.specs[d][i]
            IN Meaning(spec.field) = Replaced(Meaning(field[d]), d, Meaning(spec.arg))

\* The program stopped at this text, since the template it specializes has a
\* field whose deferred type is resolved later: that of a unit which comes later,
\* or a specialization which comes later in the map.
MetTooEarly(text) ==
    \E d \in Decls(<<text[1]>>, deferred[cur][text].scope) :
        LET t == field[<<d.of, d.n>>]
        IN /\ t.k = "defer"
           /\ \/ t.u \in todo \ {cur}
              \/ /\ t.u = cur
                 /\ Contains(t.n, "<")
                 /\ t.n \notin ToSet(SubSeq(order, 1, pos - 1))

(* Whether the types of a program are accepted is decided by what is       *)
(* written: they are if each of them means something and is supported.  The*)
(* orders of the maps have no part in it but for one thing, that a template*)
(* is specialized while the type of its field is still to be resolved.     *)
VerdictOfTexts ==
    /\ phase = "done" => \A i \in 1 .. Len(written) : Good(written[i])
    /\ phase \in {"fatal", "lost", "null"} =>
          \E i \in 1 .. Len(written) : ~Good(written[i])
    /\ phase = "unset" => MetTooEarly(order[pos])

(* Every parameter in a template is its own.                               *)
ParamsMapped == phase # "lost"

=============================================================================
