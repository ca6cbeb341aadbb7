---------------------------- MODULE UnitManager ----------------------------
(***************************************************************************)
(* How translation units find each other: the parser registers the         *)
(* declarations, exports and 'use's of one file after the other (Parser,   *)
(* Scope, TranslationUnit), then UnitManager::resolveUses goes through the *)
(* units and puts what each 'use' asks for into the scope and the type     *)
(* context of the using unit.  The units are kept in an unordered_map, so  *)
(* the order in which they are resolved is any order.                      *)
(*                                                                         *)
(* A path is abstracted to what canonical() makes of it: a unit of the     *)
(* run, or NoUnit.  fatal() ends the program; what a handler did before it *)
(* is seen by nobody, so a handler is one step.                            *)
(***************************************************************************)
EXTENDS Naturals, Sequences, FiniteSets, Functions

CONSTANTS
    Files,     \* the files of the run, in the order they are parsed
    NoUnit,    \* what a path to no such file resolves to
    Names,     \* the names of declarations
    Aliases,   \* the names of named uses
    MaxItems,  \* bound on the top-level items of all files together
    MaxInFile  \* bound on the top-level items of one file

Units == {Files[i] : i \in 1 .. Len(Files)}

ASSUME FilesAssumption == Len(Files) \in Nat \ {0} /\ NoUnit \notin Units
ASSUME NamesAssumption == "" \notin Names \cup Aliases
ASSUME BoundsAssumption == MaxItems \in Nat /\ MaxInFile \in Nat

VARIABLES
    phase,    \* "parse", "resolve", "resolved", "fatal"
    why,      \* what fatal() complained about
    file,     \* the number of the file being parsed
    items,    \* the number of top-level items of each unit parsed so far
    runes,    \* Parser::m_Runes: whether it holds Rune::Public
    scope,    \* Scope::m_Decls of each unit
    exports,  \* m_Exports of each unit
    imports,  \* m_Imports of each unit, each with the use that asked for it
    uses,     \* m_Uses of each unit
    target,   \* UseDecl::m_Unit of each use; NoUnit for null
    types,    \* the keys of Context::m_Externals of each unit
    todo,     \* the units that resolveUses has not come to
    cur,      \* the unit whose uses are being resolved, or NoUnit
    pos       \* the use of cur that comes next

vars == <<phase, why, file, items, runes, scope, exports, imports, uses,
          target, types, todo, cur, pos>>

\* A declaration of unit u; a 'use' with a name declares that name.
Decl(n, u, sort) == [name |-> n, of |-> u, sort |-> sort]

\* alias: the name of a named use or ""; list: the names of a listed use.  One
\* form of a path to nowhere is as good as another.
UseForms ==
    [to : Units, alias : {""}, list : SUBSET Names]
    \cup [to : Units, alias : Aliases, list : {{}}]
    \cup [to : {NoUnit}, alias : {""}, list : {{}}]

NamesIn(decls) == {d.name : d \in decls}

Init ==
    /\ phase = "parse"
    /\ why = ""
    /\ file = 1
    /\ items = [u \in Units |-> 0]
    /\ runes = FALSE
    /\ scope = [u \in Units |-> {}]
    /\ exports = [u \in Units |-> {}]
    /\ imports = [u \in Units |-> {}]
    /\ uses = [u \in Units |-> <<>>]
    /\ target = [u \in Units |-> <<>>]
    /\ types = [u \in Units |-> {}]
    /\ todo = {}
    /\ cur = NoUnit
    /\ pos = 1

\* Faulty: only warns.
Warn(reason) == phase' = phase /\ why' = reason

Fatal(reason) == phase' = "fatal" /\ why' = reason

-----------------------------------------------------------------------------
(* The parser, one top-level item at a time.                               *)

This == Files[file]

\* parse_runes adds to m_Runes; nothing takes away from it again, and what the
\* members of a structure are marked with is added to the same set.
ReadRunes(public) == runes' = (runes \/ public)

ParseItem(public) ==
    /\ phase = "parse"
    /\ items[This] < MaxInFile
    /\ FoldFunction(+, 0, items) < MaxItems
    /\ items' = [items EXCEPT ![This] = @ + 1]
    /\ ReadRunes(public)
    /\ UNCHANGED <<file, imports, types, todo, cur, pos>>

\* Scope::addDecl finds a declaration of that name.
Clash(u, names) == names \cap NamesIn(scope[u]) # {}

\* Once the rune is held a further $public changes nothing.  member: a field or
\* method of a structure is marked; the structure took its runes before.
ParseDecl ==
    \E n \in Names, sort \in {"value", "type"}, public, member \in {FALSE, ~runes} :
        LET d == Decl(n, This, sort)
        IN /\ member => sort = "type"
           /\ ParseItem(public \/ member)
           /\ ~Clash(This, {n})
           /\ scope' = [scope EXCEPT ![This] = @ \cup {d}]
           /\ exports' =
                [exports EXCEPT ![This] = IF runes \/ public THEN @ \cup {d} ELSE @]
           /\ UNCHANGED <<phase, why, uses, target>>

ParseUse ==
    \E use \in UseForms, public \in {FALSE, ~runes} :
        LET declared == IF use.alias = "" THEN {} ELSE {Decl(use.alias, This, "use")}
        IN /\ ParseItem(public)
           /\ ~Clash(This, NamesIn(declared))
           /\ uses' = [uses EXCEPT ![This] = Append(@, use)]
           /\ target' = [target EXCEPT ![This] = Append(@, NoUnit)]
           /\ scope' = [scope EXCEPT ![This] = @ \cup declared]
           /\ UNCHANGED <<phase, why, exports>>

\* Either kind of item may be a duplicate.
ParseDuplicate ==
    /\ ParseItem(FALSE)
    /\ Clash(This, Names \cup Aliases)
    /\ Fatal("duplicate item")
    /\ UNCHANGED <<scope, exports, uses, target>>

\* addUnit; the next file gets a new Parser, and after the last one drive()
\* begins.  A unit without uses has nothing to resolve and is not waited for.
EndOfFile ==
    /\ phase = "parse"
    /\ phase' = IF file = Len(Files) THEN "resolve" ELSE "parse"
    /\ file' = IF file = Len(Files) THEN file ELSE file + 1
    /\ runes' = FALSE
    /\ todo' = IF uses[This] = <<>> THEN todo ELSE todo \cup {This}
    /\ UNCHANGED <<why, items, scope, exports, imports, uses, target, types,
                   cur, pos>>

\* addUnit: this path and that of an earlier file lead to one file.
SamePath ==
    /\ phase = "parse"
    /\ file > 1
    /\ Fatal("same path")
    /\ UNCHANGED <<file, items, runes, scope, exports, imports, uses, target,
                   types, todo, cur, pos>>

-----------------------------------------------------------------------------
(* UnitManager::resolveUses.                                               *)

resolving == <<phase, why, scope, imports, types, target>>

\* No call of resolveUsesUtil is running: the last one went through its uses.
Idle == cur # NoUnit => pos > Len(uses[cur])

StartUnit ==
    /\ phase = "resolve"
    /\ Idle
    /\ \E u \in todo : cur' = u
    /\ pos' = 1
    /\ todo' = todo \ {cur'}
    /\ UNCHANGED <<resolving, file, items, runes, exports, uses>>

\* Faulty: the lists of visited units are shared by all calls.
OnSharedStack(u) == u \notin todo

\* V and S are passed by value and no call goes deeper than a unit that is
\* visited already, so the only unit on the stack is the one at work.
OnStack(u) == u = cur

\* What a use asks for.
Requested(use) ==
    IF use.list = {} THEN exports[use.to]
    ELSE {d \in exports[use.to] : d.name \in use.list}

\* Faulty: the type is known by its own name even under an alias.
PlainKey(use, d) == <<"", d.name>>

\* The name under which Context::importType files a type.
TypeKey(use, d) == <<use.alias, d.name>>

TypeKeys(use) == {TypeKey(use, d) : d \in {e \in Requested(use) : e.sort = "type"}}

\* Faulty: looks only at what the unit declares itself.
OwnClash(u, decls) ==
    NamesIn(decls) \cap NamesIn({d \in scope[u] : d.of = u}) # {}

\* Faulty: looks only at what other uses have brought.
ForeignClash(u, decls) ==
    NamesIn(decls) \cap NamesIn({d \in scope[u] : d.of # u}) # {}

\* addDecl of the imports of an unnamed use meets a name in use.
ImportClash(u, decls) == Clash(u, NamesIn(decls))

Now == uses[cur][pos]

ResolveUse ==
    /\ phase = "resolve"
    /\ ~Idle
    /\ UNCHANGED <<file, items, runes, exports, uses, todo>>

Unresolved ==
    /\ ResolveUse
    /\ Now.to = NoUnit
    /\ Fatal("unresolved unit")
    /\ UNCHANGED <<scope, imports, types, target, cur, pos>>

SetUnit == target' = [target EXCEPT ![cur][pos] = Now.to]

\* The unit uses itself: the call returns true, and the caller ignores that.
CutShort ==
    /\ ResolveUse
    /\ Now.to # NoUnit
    /\ OnStack(Now.to)
    /\ SetUnit
    /\ cur' = NoUnit
    /\ UNCHANGED <<phase, why, scope, imports, types, pos>>

\* addImport, for each declaration that the k-th use of u asks for.
Brought(u, k) == {k} \X Requested(uses[u][k])

\* What a use adds to the scope; the imports of a named one stay behind it.
Visible(use) == IF use.alias = "" THEN Requested(use) ELSE {}

\* The ways in which resolveImports gives up, in the order of the code.
Objection(u, use) ==
    IF ~(use.list \subseteq NamesIn(exports[use.to])) THEN "unknown name"
    ELSE IF ImportClash(u, Visible(use)) THEN "duplicate name"
    ELSE IF TypeKeys(use) \cap types[u] # {} THEN "duplicate type"
    ELSE ""

Import ==
    /\ ResolveUse
    /\ Now.to # NoUnit
    /\ ~OnStack(Now.to)
    /\ Objection(cur, Now) = ""
    /\ SetUnit
    /\ imports' = [imports EXCEPT ![cur] = @ \cup Brought(cur, pos)]
    /\ scope' = [scope EXCEPT ![cur] = @ \cup Visible(Now)]
    /\ types' = [types EXCEPT ![cur] = @ \cup TypeKeys(Now)]
    /\ pos' = pos + 1
    /\ UNCHANGED <<phase, why, cur>>

Reject ==
    /\ ResolveUse
    /\ Now.to # NoUnit
    /\ ~OnStack(Now.to)
    /\ Objection(cur, Now) # ""
    /\ Fatal(Objection(cur, Now))
    /\ UNCHANGED <<scope, imports, types, target, cur, pos>>

AllResolved ==
    /\ phase = "resolve"
    /\ Idle
    /\ todo = {}
    /\ phase' = "resolved"
    /\ UNCHANGED <<why, file, items, runes, exports, imports, uses, scope,
                   types, target, todo, cur, pos>>

Resolve == \/ StartUnit \/ AllResolved
           \/ Unresolved \/ CutShort \/ Import \/ Reject

Over == phase \in {"resolved", "fatal"} /\ UNCHANGED vars

Next == \/ ParseDecl \/ ParseUse \/ ParseDuplicate \/ EndOfFile \/ SamePath
        \/ Resolve \/ Over

Spec == Init /\ [][Next]_vars

-----------------------------------------------------------------------------
\* What ends the program before the uses are looked at.
ParseReasons == {"duplicate item", "same path"}

Reasons == ParseReasons \cup {"unresolved unit", "unknown name",
                              "duplicate name", "duplicate type"}

Decls == [name : Names \cup Aliases, of : Units, sort : {"value", "type", "use"}]

(* The state is well formed, and the program goes on if and only if nothing*)
(* was complained about.                                                   *)
TypeOK ==
    /\ phase \in {"parse", "resolve", "resolved", "fatal"}
    /\ why \in {""} \cup Reasons
    /\ phase = "fatal" <=> why # ""
    /\ file \in 1 .. Len(Files)
    /\ items \in [Units -> 0 .. MaxInFile]
    /\ runes \in BOOLEAN
    /\ \A u \in Units :
         /\ scope[u] \cup exports[u] \subseteq Decls
         /\ imports[u] \subseteq (1 .. Len(uses[u])) \X Decls
         /\ \A k \in 1 .. Len(uses[u]) : uses[u][k] \in UseForms
         /\ target[u] \in [1 .. Len(uses[u]) -> Units \cup {NoUnit}]
         /\ types[u] \subseteq ({""} \cup Aliases) \X Names
    /\ todo \subseteq Units
    /\ cur \in Units \cup {NoUnit}
    /\ cur # NoUnit => pos \in 1 .. Len(uses[cur]) + 1

Own(u) == {d \in scope[u] : d.of = u}

\* The uses of u that are granted, if it uses itself only those before that.
Heeded(u) == {k \in 1 .. Len(uses[u]) : \A l \in 1 .. k : uses[u][l].to # u}

\* These uses can be granted, whatever is resolved before.
Consistent(u) ==
    /\ \A k \in Heeded(u) :
          /\ uses[u][k].to # NoUnit
          /\ uses[u][k].list \subseteq NamesIn(exports[uses[u][k].to])
          /\ NamesIn(Visible(uses[u][k])) \cap NamesIn(Own(u)) = {}
    /\ \A k \in Heeded(u) : \A l \in Heeded(u) \ {k} :
          NamesIn(Visible(uses[u][k])) \cap NamesIn(Visible(uses[u][l])) = {}

(* Whether the uses are accepted depends on the files alone and not on the *)
(* order in which the unordered_map hands out the units, cycles included:  *)
(* they are accepted exactly if every unit is consistent in itself.        *)
VerdictOfFiles ==
    /\ phase = "resolved" => \A u \in Units : Consistent(u)
    /\ phase = "fatal" /\ why \notin ParseReasons => \E u \in Units : ~Consistent(u)

(* Once resolved, a unit sees what it declares and what its uses ask for   *)
(* and nothing else, and the generator is given what they ask for as its   *)
(* imports, in whatever order the units were resolved.  A use of the unit  *)
(* itself is the exception: it and the uses after it are dropped.          *)
SeesWhatItUses ==
    phase = "resolved" => \A u \in Units :
        LET mine == {uses[u][k] : k \in Heeded(u)}
        IN /\ scope[u] = Own(u) \cup UNION {Visible(use) : use \in mine}
           /\ types[u] = UNION {TypeKeys(use) : use \in mine}
           /\ imports[u] = UNION {Brought(u, k) : k \in Heeded(u)}

(* Context::importType has a diagnostic for two imported types of one name.*)
(* The scope and the names of the uses keep them apart before that.        *)
TypesKeptApart == why # "duplicate type"

(* NameResolution relies on every use having its unit.                     *)
EveryUseResolved ==
    phase = "resolved" =>
        \A u \in Units : \A k \in 1 .. Len(uses[u]) : target[u][k] # NoUnit

-----------------------------------------------------------------------------
(* CGN::visit(TranslationUnit) declares the imports of a unit in its       *)
(* segment and then what the unit declares itself.                         *)

\* Each by the use that asked for it, the unit's own by none.
Declared(u) == imports[u] \cup {0} \X {d \in Own(u) : d.sort # "use"}

\* The name in the segment: mangle_name puts the ID of the unit before the name
\* of what is public; a structure keeps its own (an enum gets none).
SegmentName(d) == IF d.sort = "type" THEN <<NoUnit, d.name>> ELSE <<d.of, d.name>>

(* The generator asserts that what a segment declares has a name of its own*)
(* ("Function with name already exists.", "Struct type already exists.").  *)
(* The scope of a unit sees to that, whatever was resolved before, but for *)
(* what its named uses bring, which the scope does not hold.               *)
DeclaredApart ==
    phase = "resolved" => \A u \in Units : \A i, j \in Declared(u) :
        i # j /\ SegmentName(i[2]) = SegmentName(j[2]) =>
            \E k \in {i[1], j[1]} \ {0} : uses[u][k].alias # ""

=============================================================================
