---------------------------- MODULE UnitProofs ----------------------------
(***************************************************************************)
(* Why it does not matter in which order the units are resolved.  While a  *)
(* unit is at work nobody else writes to its scope, and what it reads of   *)
(* other units, their exports, was fixed by the parser; so each unit sees  *)
(* what it declares and what its uses, as far as it has come to them, ask  *)
(* for, and these do not contradict each other.                            *)
(***************************************************************************)
EXTENDS UnitManager, TLAPS

\* The uses of u that have been granted so far.
Granted(u) == IF u \in todo THEN {}
              ELSE IF u = cur THEN 1 .. pos - 1
              ELSE Heeded(u)

\* The uses K of u ask for what there is, and for no name twice.
Sound(u, K) ==
    /\ \A k \in K :
          /\ uses[u][k].to # NoUnit
          /\ uses[u][k].list \subseteq NamesIn(exports[uses[u][k].to])
          /\ NamesIn(Visible(uses[u][k])) \cap NamesIn(Own(u)) = {}
    /\ \A k \in K : \A l \in K \ {k} :
          NamesIn(Visible(uses[u][k])) \cap NamesIn(Visible(uses[u][l])) = {}

\* u sees what it declares and what the uses K ask for.
Sees(u, K) ==
    /\ scope[u] = Own(u) \cup UNION {Visible(uses[u][k]) : k \in K}
    /\ types[u] = UNION {TypeKeys(uses[u][k]) : k \in K}
    /\ imports[u] = UNION {Brought(u, k) : k \in K}

Exportable(u) == [name : Names, of : {u}, sort : {"value", "type"}]

Typed ==
    /\ phase \in {"parse", "resolve", "resolved", "fatal"}
    /\ why \in {""} \cup Reasons
    /\ phase = "fatal" <=> why # ""
    /\ file \in 1 .. Len(Files)
    /\ items \in [Units -> 0 .. MaxInFile]
    /\ runes \in BOOLEAN
    /\ scope \in [Units -> SUBSET Decls]
    /\ exports \in [Units -> SUBSET Decls]
    /\ imports \in [Units -> SUBSET (Nat \X Decls)]
    /\ \A u \in Units : imports[u] \subseteq (1 .. Len(uses[u])) \X Decls
    /\ uses \in [Units -> Seq(UseForms)]
    /\ target \in [Units -> Seq(Units \cup {NoUnit})]
    /\ \A u \in Units : Len(target[u]) = Len(uses[u])
    /\ types \in [Units -> SUBSET (({""} \cup Aliases) \X Names)]
    /\ todo \subseteq Units
    /\ cur \in Units \cup {NoUnit}
    /\ cur # NoUnit => pos \in 1 .. Len(uses[cur]) + 1

\* What the parser leaves behind: a unit exports what it declares itself, and
\* no two of its uses have the same name.
Parsed ==
    \A u \in Units :
        /\ exports[u] \subseteq Exportable(u)
        /\ \A k \in 1 .. Len(uses[u]) :
              uses[u][k].alias # "" => uses[u][k].alias \in NamesIn(scope[u])
        /\ \A k, l \in 1 .. Len(uses[u]) :
              uses[u][k].alias = uses[u][l].alias => k = l \/ uses[u][k].alias = ""

Parsing ==
    phase = "parse" =>
        /\ cur = NoUnit
        /\ \A u \in Units :
              /\ scope[u] = Own(u)
              /\ types[u] = {}
              /\ imports[u] = {}
              /\ \/ uses[u] = <<>>
                 \/ u \in todo
                 \/ \E i \in file .. Len(Files) : Files[i] = u

Resolving ==
    phase \in {"resolve", "resolved"} =>
        /\ cur \notin todo
        /\ \A u \in Units : /\ Granted(u) \subseteq Heeded(u)
                            /\ Sound(u, Granted(u))
                            /\ Sees(u, Granted(u))
        /\ phase = "resolved" => todo = {} /\ Idle

\* The uses are only refused for the fault of a unit.
Refusing ==
    phase = "fatal" /\ why \notin ParseReasons => \E u \in Units : ~Consistent(u)

VInv == Typed /\ Parsed /\ Parsing /\ Resolving /\ Refusing /\ TypesKeptApart

-----------------------------------------------------------------------------
(* Helpers.                                                                *)

\* What a use consists of.
LEMMA UseFields ==
    ASSUME NEW use \in UseForms
    PROVE  /\ use.to \in Units \cup {NoUnit}
           /\ use.alias \in {""} \cup Aliases
           /\ use.list \subseteq Names
BY DEF UseForms

\* The file that is parsed is one of the units, and no unit is NoUnit.
LEMMA ThisUnit ==
    ASSUME Typed
    PROVE  /\ This \in Units /\ NoUnit \notin Units
           /\ file \in 1 .. Len(Files) /\ Len(Files) \in Nat
           /\ \E i \in file .. Len(Files) : Files[i] = This
<1>1. file \in 1 .. Len(Files)
  BY DEF Typed
<1>2. Len(Files) \in Nat /\ NoUnit \notin Units
  BY FilesAssumption
<1>3. file \in file .. Len(Files)
  BY <1>1, <1>2
<1> QED
  BY <1>1, <1>2, <1>3 DEF This, Units

\* A well-typed state satisfies the type invariant of the runs.
LEMMA TypedOK == ASSUME Typed PROVE TypeOK
<1>1. \A u \in Units :
         /\ scope[u] \cup exports[u] \subseteq Decls
         /\ imports[u] \subseteq (1 .. Len(uses[u])) \X Decls
         /\ \A k \in 1 .. Len(uses[u]) : uses[u][k] \in UseForms
         /\ types[u] \subseteq ({""} \cup Aliases) \X Names
  <2> TAKE u \in Units
  <2>1. /\ scope[u] \subseteq Decls /\ exports[u] \subseteq Decls
        /\ imports[u] \subseteq (1 .. Len(uses[u])) \X Decls
    BY DEF Typed
  <2>2. uses[u] \in Seq(UseForms)
    BY DEF Typed
  <2>3. types[u] \subseteq ({""} \cup Aliases) \X Names
    BY DEF Typed
  <2>4. \A k \in 1 .. Len(uses[u]) : uses[u][k] \in UseForms
    BY <2>2
  <2> QED
    BY <2>1, <2>3, <2>4
<1>2. ASSUME NEW u \in Units
      PROVE  target[u] \in [1 .. Len(uses[u]) -> Units \cup {NoUnit}]
  <2>1. target[u] \in Seq(Units \cup {NoUnit}) /\ Len(target[u]) = Len(uses[u])
    BY DEF Typed
  <2> QED
    BY <2>1
<1> QED
  BY <1>1, <1>2 DEF Typed, TypeOK

\* What a handler that reads a top-level item always does.
LEMMA ItemRead ==
    ASSUME Typed, NEW public \in BOOLEAN, ParseItem(public)
    PROVE  /\ phase = "parse"
           /\ items' \in [Units -> 0 .. MaxInFile] /\ runes' \in BOOLEAN
           /\ UNCHANGED <<file, imports, types, todo, cur, pos>>
<1>1. This \in Units /\ items \in [Units -> 0 .. MaxInFile] /\ runes \in BOOLEAN
  BY ThisUnit DEF Typed
<1>2. /\ items' = [items EXCEPT ![This] = @ + 1] /\ items[This] < MaxInFile
      /\ phase = "parse" /\ runes' = (runes \/ public)
      /\ UNCHANGED <<file, imports, types, todo, cur, pos>>
  BY DEF ParseItem, ReadRunes
<1>3. items' \in [Units -> 0 .. MaxInFile]
  BY <1>1, <1>2, BoundsAssumption
<1> QED
  BY <1>1, <1>2, <1>3

-----------------------------------------------------------------------------
(* The parser.                                                             *)

\* A declaration changes the scope of its own unit only.
LEMMA ParseDeclKeeps ==
    ASSUME VInv, ParseDecl PROVE VInv'
<1>0. Typed /\ Parsed /\ Parsing /\ TypesKeptApart /\ This \in Units
  BY ThisUnit DEF VInv
<1>1. PICK n \in Names, sort \in {"value", "type"}, public, member \in {FALSE, ~runes} :
         LET d == Decl(n, This, sort) IN
         /\ ParseItem(public \/ member)
         /\ scope' = [scope EXCEPT ![This] = @ \cup {d}]
         /\ exports' =
              [exports EXCEPT ![This] = IF runes \/ public THEN @ \cup {d} ELSE @]
         /\ UNCHANGED <<phase, why, uses, target>>
  BY DEF ParseDecl
<1>2. (public \/ member) \in BOOLEAN
  BY <1>0 DEF Typed
<1>3. /\ phase = "parse"
      /\ items' \in [Units -> 0 .. MaxInFile] /\ runes' \in BOOLEAN
      /\ UNCHANGED <<file, imports, types, todo, cur, pos>>
  BY <1>0, <1>1, <1>2, ItemRead
<1> DEFINE d == Decl(n, This, sort)
<1>4. d \in Decls /\ d \in Exportable(This) /\ d.of = This
  BY <1>0 DEF Decl, Decls, Exportable
<1>5. /\ scope' = [scope EXCEPT ![This] = @ \cup {d}]
      /\ exports' =
           [exports EXCEPT ![This] = IF runes \/ public THEN @ \cup {d} ELSE @]
      /\ UNCHANGED <<phase, why, uses, target>>
  BY <1>1
<1> HIDE DEF d
<1>6. Typed'
  <2>1. scope' \in [Units -> SUBSET Decls]
    BY <1>0, <1>4, <1>5 DEF Typed
  <2>2. exports' \in [Units -> SUBSET Decls]
    BY <1>0, <1>4, <1>5 DEF Typed
  <2> QED
    BY <1>0, <1>3, <1>5, <2>1, <2>2 DEF Typed
<1>7. Parsed'
  <2> SUFFICES ASSUME NEW u \in Units
               PROVE  /\ exports'[u] \subseteq Exportable(u)
                      /\ \A k \in 1 .. Len(uses[u]) :
                            uses[u][k].alias # "" =>
                               uses[u][k].alias \in NamesIn(scope'[u])
                      /\ \A k, l \in 1 .. Len(uses[u]) :
                            uses[u][k].alias = uses[u][l].alias
                               => k = l \/ uses[u][k].alias = ""
    BY <1>5 DEF Parsed
  <2>1. exports'[u] \subseteq exports[u] \cup (IF u = This THEN {d} ELSE {})
    BY <1>0, <1>5 DEF Typed
  <2>2. scope[u] \subseteq scope'[u]
    BY <1>0, <1>5 DEF Typed
  <2>3. NamesIn(scope[u]) \subseteq NamesIn(scope'[u])
    BY <2>2 DEF NamesIn
  <2> QED
    BY <1>0, <1>4, <2>1, <2>3 DEF Parsed
<1>8. Parsing'
  <2>1. \A u \in Units : Own(u)' = scope'[u]
    <3> TAKE u \in Units
    <3>1. \A e \in scope[u] : e.of = u
      BY <1>0, <1>3 DEF Parsing, Own
    <3>2. scope'[u] \subseteq scope[u] \cup (IF u = This THEN {d} ELSE {})
      BY <1>0, <1>5 DEF Typed
    <3> QED
      BY <1>4, <3>1, <3>2 DEF Own
  <2> QED
    BY <1>0, <1>3, <1>5, <2>1 DEF Parsing
<1>9. Resolving' /\ Refusing' /\ TypesKeptApart'
  BY <1>0, <1>3, <1>5 DEF Resolving, Refusing, TypesKeptApart
<1> QED
  BY <1>6, <1>7, <1>8, <1>9 DEF VInv

\* A use with a name declares that name, which its unit did not have.
LEMMA ParseUseKeeps ==
    ASSUME VInv, ParseUse PROVE VInv'
<1>0. Typed /\ Parsed /\ Parsing /\ TypesKeptApart /\ This \in Units
  BY ThisUnit DEF VInv
<1>1. PICK use \in UseForms, public \in {FALSE, ~runes} :
         LET declared == IF use.alias = "" THEN {} ELSE {Decl(use.alias, This, "use")} IN
         /\ ParseItem(public)
         /\ ~Clash(This, NamesIn(declared))
         /\ uses' = [uses EXCEPT ![This] = Append(@, use)]
         /\ target' = [target EXCEPT ![This] = Append(@, NoUnit)]
         /\ scope' = [scope EXCEPT ![This] = @ \cup declared]
         /\ UNCHANGED <<phase, why, exports>>
  BY DEF ParseUse
<1>2. public \in BOOLEAN
  BY <1>0 DEF Typed
<1>3. /\ phase = "parse"
      /\ items' \in [Units -> 0 .. MaxInFile] /\ runes' \in BOOLEAN
      /\ UNCHANGED <<file, imports, types, todo, cur, pos>>
  BY <1>0, <1>1, <1>2, ItemRead
<1> DEFINE declared == IF use.alias = "" THEN {} ELSE {Decl(use.alias, This, "use")}
<1>4. /\ declared \subseteq Decls /\ \A e \in declared : e.of = This
      /\ use.alias # "" => use.alias \in NamesIn(declared)
  <2>1. CASE use.alias = ""
    BY <2>1
  <2>2. CASE use.alias # ""
    <3> DEFINE e == Decl(use.alias, This, "use")
    <3>1. use.alias \in Aliases
      BY <2>2, UseFields
    <3>2. e \in Decls /\ e.of = This /\ e.name = use.alias
      BY <1>0, <3>1 DEF Decl, Decls
    <3>3. declared = {e}
      BY <2>2
    <3> HIDE DEF e, declared
    <3> QED
      BY <3>2, <3>3 DEF NamesIn
  <2> QED
    BY <2>1, <2>2
<1>5. /\ ~Clash(This, NamesIn(declared))
      /\ uses' = [uses EXCEPT ![This] = Append(@, use)]
      /\ target' = [target EXCEPT ![This] = Append(@, NoUnit)]
      /\ scope' = [scope EXCEPT ![This] = @ \cup declared]
      /\ UNCHANGED <<phase, why, exports>>
  BY <1>1
<1> HIDE DEF declared
<1>6. \A u \in Units :
        /\ scope'[u] = scope[u] \cup (IF u = This THEN declared ELSE {})
        /\ u # This => uses'[u] = uses[u] /\ target'[u] = target[u]
  BY <1>0, <1>5 DEF Typed
<1> DEFINE s == uses[This]
<1>7. /\ s \in Seq(UseForms) /\ Len(s) \in Nat /\ uses'[This] = Append(s, use)
      /\ Len(uses'[This]) = Len(s) + 1
      /\ \A k \in 1 .. Len(s) : uses'[This][k] = s[k]
      /\ uses'[This][Len(s) + 1] = use
  <2>1. s \in Seq(UseForms) /\ uses'[This] = Append(s, use)
    BY <1>0, <1>5 DEF Typed
  <2> HIDE DEF s
  <2> QED
    BY <2>1
<1>8. Typed'
  <2>1. scope' \in [Units -> SUBSET Decls]
    BY <1>0, <1>4, <1>5 DEF Typed
  <2>2. uses' \in [Units -> Seq(UseForms)]
    <3>1. uses \in [Units -> Seq(UseForms)]
      BY <1>0 DEF Typed
    <3>2. Append(uses[This], use) \in Seq(UseForms)
      BY <1>0, <3>1
    <3> QED
      BY <1>0, <1>5, <3>1, <3>2
  <2>3. target' \in [Units -> Seq(Units \cup {NoUnit})]
    <3>1. target \in [Units -> Seq(Units \cup {NoUnit})]
      BY <1>0 DEF Typed
    <3>2. Append(target[This], NoUnit) \in Seq(Units \cup {NoUnit})
      BY <1>0, <3>1
    <3> QED
      BY <1>0, <1>5, <3>1, <3>2
  <2>4. \A u \in Units : Len(target'[u]) = Len(uses'[u])
    <3>1. /\ target[This] \in Seq(Units \cup {NoUnit}) /\ Len(target[This]) = Len(s)
          /\ target'[This] = Append(target[This], NoUnit)
      BY <1>0, <1>5 DEF Typed
    <3>2. Len(target'[This]) = Len(uses'[This])
      BY <1>7, <3>1
    <3> QED
      BY <1>0, <1>6, <3>2 DEF Typed
  <2>5. cur' = NoUnit /\ \A u \in Units : imports'[u] = {}
    BY <1>0, <1>3 DEF Parsing
  <2>6. \A u \in Units : imports'[u] \subseteq (1 .. Len(uses'[u])) \X Decls
    BY <2>5
  <2> QED
    BY <1>0, <1>3, <1>5, <2>1, <2>2, <2>3, <2>4, <2>5, <2>6 DEF Typed
<1> HIDE DEF s
<1>9. Parsed'
  <2> SUFFICES ASSUME NEW u \in Units
               PROVE  /\ exports'[u] \subseteq Exportable(u)
                      /\ \A k \in 1 .. Len(uses'[u]) :
                            uses'[u][k].alias # "" =>
                               uses'[u][k].alias \in NamesIn(scope'[u])
                      /\ \A k, l \in 1 .. Len(uses'[u]) :
                            uses'[u][k].alias = uses'[u][l].alias
                               => k = l \/ uses'[u][k].alias = ""
    BY DEF Parsed
  <2>1. NamesIn(scope[u]) \subseteq NamesIn(scope'[u]) /\ exports'[u] = exports[u]
    BY <1>5, <1>6 DEF NamesIn
  <2>2. CASE u # This
    <3>1. uses'[u] = uses[u]
      BY <1>6, <2>2
    <3>2. /\ \A k \in 1 .. Len(uses[u]) :
                uses[u][k].alias # "" => uses[u][k].alias \in NamesIn(scope[u])
          /\ \A k, l \in 1 .. Len(uses[u]) :
                uses[u][k].alias = uses[u][l].alias => k = l \/ uses[u][k].alias = ""
          /\ exports[u] \subseteq Exportable(u)
      BY <1>0 DEF Parsed
    <3> QED
      BY <2>1, <3>1, <3>2
  <2>3. CASE u = This
    <3> DEFINE w == uses'[u]
               c == Len(s)
    <3>1. /\ \A k \in 1 .. c : s[k].alias # "" => s[k].alias \in NamesIn(scope[u])
          /\ \A k, l \in 1 .. c :
                s[k].alias = s[l].alias => k = l \/ s[k].alias = ""
          /\ exports[u] \subseteq Exportable(u)
      BY <1>0, <2>3 DEF Parsed, s
    <3>2. use.alias # "" => use.alias \in NamesIn(scope'[u])
      <4>1. declared \subseteq scope'[u]
        BY <1>6, <2>3
      <4>2. NamesIn(declared) \subseteq NamesIn(scope'[u])
        BY <4>1 DEF NamesIn
      <4> QED
        BY <1>4, <4>2
    <3>3. use.alias # "" => use.alias \notin NamesIn(scope[u])
      BY <1>4, <1>5, <2>3 DEF Clash
    <3>4. c \in Nat /\ Len(w) = c + 1
      BY <1>7, <2>3
    <3>5. w[c + 1] = use /\ \A k \in 1 .. c : w[k] = s[k]
      BY <1>7, <2>3
    <3> HIDE DEF w, c
    <3>6. \A k \in 1 .. c + 1 : k = c + 1 \/ k \in 1 .. c
      BY <3>4
    <3>7. ASSUME NEW k \in 1 .. c + 1, w[k].alias # ""
          PROVE  w[k].alias \in NamesIn(scope'[u])
      <4>1. CASE k = c + 1
        BY <3>2, <3>5, <3>7, <4>1
      <4>2. CASE k \in 1 .. c
        BY <2>1, <3>1, <3>5, <3>7, <4>2
      <4> QED
        BY <3>6, <4>1, <4>2
    <3>8. ASSUME NEW k \in 1 .. c + 1, NEW l \in 1 .. c + 1,
                 w[k].alias = w[l].alias, k # l
          PROVE  w[k].alias = ""
      <4>1. CASE k = c + 1 /\ l \in 1 .. c
        BY <3>1, <3>3, <3>5, <3>8, <4>1
      <4>2. CASE k \in 1 .. c /\ l = c + 1
        BY <3>1, <3>3, <3>5, <3>8, <4>2
      <4>3. CASE k \in 1 .. c /\ l \in 1 .. c
        BY <3>1, <3>5, <3>8, <4>3
      <4> QED
        BY <3>6, <3>8, <4>1, <4>2, <4>3
    <3> QED
      BY <2>1, <3>1, <3>4, <3>7, <3>8 DEF w
  <2> QED
    BY <2>2, <2>3
<1>10. Parsing'
  <2>1. \A u \in Units : Own(u)' = scope'[u]
    <3> TAKE u \in Units
    <3>1. \A e \in scope[u] : e.of = u
      BY <1>0, <1>3 DEF Parsing, Own
    <3> QED
      BY <1>4, <1>6, <3>1 DEF Own
  <2>2. \E i \in file .. Len(Files) : Files[i] = This
    BY <1>0, ThisUnit
  <2> QED
    BY <1>0, <1>3, <1>5, <1>6, <2>1, <2>2 DEF Parsing
<1>11. Resolving' /\ Refusing' /\ TypesKeptApart'
  BY <1>0, <1>3, <1>5 DEF Resolving, Refusing, TypesKeptApart
<1> QED
  BY <1>8, <1>9, <1>10, <1>11 DEF VInv

\* A second declaration of a name ends the program.
LEMMA ParseDuplicateKeeps ==
    ASSUME VInv, ParseDuplicate PROVE VInv'
<1>0. Typed /\ Parsed
  BY DEF VInv
<1>1. /\ items' \in [Units -> 0 .. MaxInFile] /\ runes' \in BOOLEAN
      /\ UNCHANGED <<file, imports, types, todo, cur, pos>>
  BY <1>0, ItemRead DEF ParseDuplicate
<1>2. /\ phase' = "fatal" /\ why' = "duplicate item"
      /\ UNCHANGED <<scope, exports, uses, target>>
  BY DEF ParseDuplicate, Fatal
<1>3. Typed'
  BY <1>0, <1>1, <1>2 DEF Typed, Reasons, ParseReasons
<1>4. Parsed'
  BY <1>0, <1>2 DEF Parsed, NamesIn
<1>5. Parsing' /\ Resolving' /\ Refusing' /\ TypesKeptApart'
  BY <1>2 DEF Parsing, Resolving, Refusing, TypesKeptApart, ParseReasons
<1> QED
  BY <1>3, <1>4, <1>5 DEF VInv

\* A second file of one path ends it too.
LEMMA SamePathKeeps ==
    ASSUME VInv, SamePath PROVE VInv'
<1>0. Typed /\ Parsed
  BY DEF VInv
<1>1. /\ phase' = "fatal" /\ why' = "same path"
      /\ UNCHANGED <<file, items, runes, scope, exports, imports, uses, target,
                     types, todo, cur, pos>>
  BY DEF SamePath, Fatal
<1>2. Typed'
  BY <1>0, <1>1 DEF Typed, Reasons, ParseReasons
<1>3. Parsed'
  BY <1>0, <1>1 DEF Parsed, NamesIn
<1>4. Parsing' /\ Resolving' /\ Refusing' /\ TypesKeptApart'
  BY <1>1 DEF Parsing, Resolving, Refusing, TypesKeptApart, ParseReasons
<1> QED
  BY <1>2, <1>3, <1>4 DEF VInv

\* After the last file every unit with uses waits for its turn.
LEMMA EndOfFileKeeps ==
    ASSUME VInv, EndOfFile PROVE VInv'
<1>0. Typed /\ Parsed /\ Parsing /\ TypesKeptApart /\ This \in Units
      /\ NoUnit \notin Units
  BY ThisUnit DEF VInv
<1>1. /\ phase = "parse"
      /\ phase' = IF file = Len(Files) THEN "resolve" ELSE "parse"
      /\ file' = IF file = Len(Files) THEN file ELSE file + 1
      /\ runes' = FALSE
      /\ todo' = IF uses[This] = <<>> THEN todo ELSE todo \cup {This}
      /\ UNCHANGED <<why, items, scope, exports, imports, uses, target, types,
                     cur, pos>>
  BY DEF EndOfFile
<1>2. file' \in 1 .. Len(Files)
  BY <1>0, <1>1, ThisUnit
<1>3. Typed'
  BY <1>0, <1>1, <1>2 DEF Typed
<1>4. Parsed'
  BY <1>0, <1>1 DEF Parsed, NamesIn
<1>5. \A u \in Units : Own(u)' = Own(u)
  BY <1>1 DEF Own
<1>6. ASSUME NEW u \in Units
      PROVE  \/ uses[u] = <<>>
             \/ u \in todo'
             \/ \E i \in file + 1 .. Len(Files) : Files[i] = u
  <2>1. CASE u = This
    BY <1>1, <2>1
  <2>2. CASE u # This
    <3>1. \/ uses[u] = <<>> \/ u \in todo
          \/ \E i \in file .. Len(Files) : Files[i] = u
      BY <1>0, <1>1 DEF Parsing
    <3>2. ASSUME NEW i \in file .. Len(Files), Files[i] = u
          PROVE  i \in file + 1 .. Len(Files)
      <4>1. i # file
        BY <2>2, <3>2 DEF This
      <4> QED
        BY <1>0, <3>2, <4>1, ThisUnit
    <3> QED
      BY <1>1, <3>1, <3>2
  <2> QED
    BY <2>1, <2>2
<1>7. Parsing'
  <2> SUFFICES ASSUME phase' = "parse" PROVE Parsing'
    BY DEF Parsing
  <2>1. file' = file + 1
    BY <1>1
  <2> QED
    BY <1>0, <1>1, <1>5, <1>6, <2>1 DEF Parsing
<1>8. Resolving'
  <2> SUFFICES ASSUME phase' = "resolve" PROVE Resolving'
    BY <1>1 DEF Resolving
  <2>1. file = Len(Files) /\ cur' = NoUnit
    BY <1>0, <1>1 DEF Parsing
  <2>2. \A u \in Units : uses[u] = <<>> \/ u \in todo'
    <3>1. \A i : ~(i \in file + 1 .. Len(Files))
      BY <1>0, <2>1, FilesAssumption
    <3> QED
      BY <1>6, <3>1
  <2>3. \A u \in Units : Granted(u)' = {}
    <3> TAKE u \in Units
    <3>1. CASE u \in todo'
      BY <3>1 DEF Granted
    <3>2. CASE u \notin todo'
      <4>1. u # cur' /\ Len(uses'[u]) = 0
        BY <1>0, <1>1, <2>1, <2>2, <3>2
      <4> QED
        BY <3>2, <4>1 DEF Granted, Heeded
    <3> QED
      BY <3>1, <3>2
  <2>4. \A u \in Units : scope'[u] = Own(u)' /\ types'[u] = {} /\ imports'[u] = {}
    BY <1>0, <1>1, <1>5 DEF Parsing
  <2>5. todo' \subseteq Units
    BY <1>3 DEF Typed
  <2> QED
    BY <1>0, <2>1, <2>3, <2>4, <2>5 DEF Resolving, Sound, Sees
<1>9. Refusing' /\ TypesKeptApart'
  BY <1>0, <1>1 DEF Refusing, TypesKeptApart
<1> QED
  BY <1>3, <1>4, <1>7, <1>8, <1>9 DEF VInv

-----------------------------------------------------------------------------
(* The resolution of the uses.                                             *)

\* Nothing of a unit's view changes with a step that leaves its scope and its
\* types, and what the parser left, alone.
LEMMA SameView ==
    ASSUME UNCHANGED <<exports, uses>>, NEW u, NEW K,
           scope'[u] = scope[u], types'[u] = types[u], imports'[u] = imports[u]
    PROVE  /\ Heeded(u)' = Heeded(u)
           /\ Own(u)' = Own(u)
           /\ Sound(u, K) => Sound(u, K)'
           /\ Sees(u, K) => Sees(u, K)'
<1>1. Heeded(u)' = Heeded(u) /\ Own(u)' = Own(u)
  BY DEF Heeded, Own
<1>2. /\ \A use : Visible(use)' = Visible(use) /\ TypeKeys(use)' = TypeKeys(use)
      /\ \A k : Brought(u, k)' = Brought(u, k)
  BY DEF Visible, TypeKeys, Brought, Requested
<1>3. Sound(u, K) => Sound(u, K)'
  BY <1>1, <1>2 DEF Sound
<1>4. Sees(u, K) => Sees(u, K)'
  BY <1>1, <1>2 DEF Sees
<1> QED
  BY <1>1, <1>3, <1>4

\* The unit at work is in the middle of its uses, and none up to the one it
\* has come to was of the unit itself.
LEMMA AtWork ==
    ASSUME VInv, ResolveUse
    PROVE  /\ phase = "resolve" /\ cur \in Units /\ cur \notin todo
           /\ NoUnit \notin Units
           /\ pos \in 1 .. Len(uses[cur]) /\ Len(uses[cur]) \in Nat
           /\ Now = uses[cur][pos] /\ Now \in UseForms
           /\ Granted(cur) = 1 .. pos - 1
           /\ Granted(cur) \subseteq Heeded(cur)
           /\ Sound(cur, Granted(cur)) /\ Sees(cur, Granted(cur))
           /\ Now.to # cur => pos \in Heeded(cur)
<1>1. /\ Typed /\ Resolving /\ phase = "resolve"
      /\ cur # NoUnit /\ ~(pos > Len(uses[cur]))
  BY DEF VInv, ResolveUse, Idle
<1>2. /\ cur \in Units /\ NoUnit \notin Units /\ uses[cur] \in Seq(UseForms)
      /\ pos \in 1 .. Len(uses[cur]) + 1
  BY <1>1, ThisUnit DEF Typed
<1> DEFINE s == uses[cur]
<1>3. s \in Seq(UseForms) /\ pos \in 1 .. Len(s) + 1 /\ ~(pos > Len(s))
  BY <1>1, <1>2
<1> HIDE DEF s
<1>4. Len(s) \in Nat /\ pos \in 1 .. Len(s) /\ s[pos] \in UseForms
  BY <1>3
<1>5. /\ cur \notin todo /\ Granted(cur) \subseteq Heeded(cur)
      /\ Sound(cur, Granted(cur)) /\ Sees(cur, Granted(cur))
  BY <1>1, <1>2 DEF Resolving
<1>6. Granted(cur) = 1 .. pos - 1
  BY <1>5 DEF Granted
<1>7. ASSUME Now.to # cur PROVE pos \in Heeded(cur)
  <2> SUFFICES ASSUME NEW l \in 1 .. pos PROVE uses[cur][l].to # cur
    BY <1>4 DEF Heeded, s
  <2>1. CASE l = pos
    BY <1>7, <2>1 DEF Now
  <2>2. CASE l # pos
    <3>1. l \in 1 .. pos - 1 /\ l \in 1 .. l
      BY <1>4, <2>2
    <3> QED
      BY <1>5, <1>6, <3>1 DEF Heeded
  <2> QED
    BY <2>1, <2>2
<1> QED
  BY <1>1, <1>2, <1>4, <1>5, <1>6, <1>7 DEF Now, s

\* What Objection says.
LEMMA Objections ==
    ASSUME NEW u, NEW use
    PROVE  /\ Objection(u, use) \in Reasons \cup {""}
           /\ Objection(u, use) \notin ParseReasons
           /\ Objection(u, use) = "unknown name" =>
                 ~(use.list \subseteq NamesIn(exports[use.to]))
           /\ Objection(u, use) = "duplicate name" => ImportClash(u, Visible(use))
           /\ Objection(u, use) = "duplicate type" =>
                 /\ ~ImportClash(u, Visible(use))
                 /\ TypeKeys(use) \cap types[u] # {}
           /\ Objection(u, use) = "" =>
                 /\ use.list \subseteq NamesIn(exports[use.to])
                 /\ ~ImportClash(u, Visible(use))
BY DEF Objection, Reasons, ParseReasons

\* What a use asks for is exported by another unit than the one that uses it.
LEMMA Foreign ==
    ASSUME VInv, ResolveUse, Now.to # NoUnit, Now.to # cur
    PROVE  /\ Now.to \in Units
           /\ \A d \in Requested(Now) :
                 d \in Exportable(Now.to) /\ d \in Decls /\ d.of # cur
<1>1. Now \in UseForms /\ Typed /\ Parsed
  BY AtWork DEF VInv
<1>2. Now.to \in Units
  BY <1>1, UseFields
<1>3. Requested(Now) \subseteq exports[Now.to]
  BY DEF Requested
<1>4. /\ exports[Now.to] \subseteq Exportable(Now.to)
      /\ exports[Now.to] \subseteq Decls
  BY <1>1, <1>2 DEF Parsed, Typed
<1>5. \A d \in Exportable(Now.to) : d.of = Now.to
  BY DEF Exportable
<1> QED
  BY <1>2, <1>3, <1>4, <1>5

\* What is true of a unit's view stays true if nothing of it changes.
LEMMA ViewKept ==
    ASSUME UNCHANGED <<exports, uses>>, NEW u,
           scope'[u] = scope[u], types'[u] = types[u], imports'[u] = imports[u],
           Granted(u)' = Granted(u),
           Granted(u) \subseteq Heeded(u), Sound(u, Granted(u)), Sees(u, Granted(u))
    PROVE  /\ (Granted(u) \subseteq Heeded(u))'
           /\ Sound(u, Granted(u))'
           /\ Sees(u, Granted(u))'
<1>1. PICK K : K = Granted(u)
  OBVIOUS
<1>2. Sound(u, K) /\ Sees(u, K) /\ Granted(u)' = K
  BY <1>1
<1>3. Sound(u, K)' /\ Sees(u, K)' /\ Heeded(u)' = Heeded(u)
  BY <1>2, SameView
<1>4. Sound(u, Granted(u))'
  BY <1>2, <1>3 DEF Sound
<1>5. Sees(u, Granted(u))'
  BY <1>2, <1>3 DEF Sees
<1> QED
  BY <1>3, <1>4, <1>5

\* A call that went through its uses has granted all that count.
LEMMA Through ==
    ASSUME Typed, Resolving, phase \in {"resolve", "resolved"}, Idle, cur \in Units
    PROVE  Granted(cur) = Heeded(cur)
<1>1. cur \notin todo /\ Granted(cur) \subseteq Heeded(cur)
  BY DEF Resolving
<1>2. cur # NoUnit /\ uses[cur] \in Seq(UseForms)
  BY FilesAssumption DEF Typed
<1> DEFINE c == Len(uses[cur])
<1>3. pos \in 1 .. c + 1 /\ pos > c /\ c \in Nat
  <2>1. pos \in 1 .. Len(uses[cur]) + 1 /\ pos > Len(uses[cur])
    BY <1>2 DEF Typed, Idle
  <2> QED
    BY <1>2, <2>1
<1>4. Granted(cur) = 1 .. pos - 1
  BY <1>1 DEF Granted
<1>5. Heeded(cur) \subseteq 1 .. c
  BY DEF Heeded
<1> HIDE DEF c
<1>6. Heeded(cur) \subseteq 1 .. pos - 1
  BY <1>3, <1>5
<1> QED
  BY <1>1, <1>4, <1>6

\* Once all units are resolved, all uses that count have been granted.
LEMMA AllGranted ==
    ASSUME Typed, Resolving, phase = "resolved", NEW u \in Units
    PROVE  Granted(u) = Heeded(u)
<1>1. todo = {} /\ Idle
  BY DEF Resolving
<1>2. CASE u # cur
  BY <1>1, <1>2 DEF Granted
<1>3. CASE u = cur
  BY <1>1, <1>3, Through
<1> QED
  BY <1>2, <1>3

\* SetUnit notes the unit of one use.
LEMMA UnitSet ==
    ASSUME Typed, cur \in Units, pos \in 1 .. Len(uses[cur]), SetUnit,
           Now.to \in Units, uses' = uses
    PROVE  /\ target' \in [Units -> Seq(Units \cup {NoUnit})]
           /\ \A u \in Units : Len(target'[u]) = Len(uses'[u])
<1>1. /\ target \in [Units -> Seq(Units \cup {NoUnit})]
      /\ \A u \in Units : Len(target[u]) = Len(uses[u])
      /\ target' = [target EXCEPT ![cur] = [target[cur] EXCEPT ![pos] = Now.to]]
  BY DEF Typed, SetUnit
<1> DEFINE t == target[cur]
           w == [t EXCEPT ![pos] = Now.to]
<1>2. t \in Seq(Units \cup {NoUnit}) /\ Len(t) = Len(uses[cur])
  BY <1>1
<1>3. target' = [target EXCEPT ![cur] = w]
  BY <1>1
<1> HIDE DEF t
<1>4. w \in Seq(Units \cup {NoUnit}) /\ Len(w) = Len(t)
  BY <1>2
<1> HIDE DEF w
<1> QED
  BY <1>1, <1>2, <1>3, <1>4

\* A step of the resolution by which no unit sees more or less.
LEMMA NothingGranted ==
    ASSUME VInv, phase \in {"resolve", "resolved"}, phase' \in {"resolve", "resolved"},
           UNCHANGED <<why, scope, exports, imports, uses, types>>, Typed',
           cur' \notin todo', \A u \in Units : Granted(u)' = Granted(u),
           phase' = "resolved" => todo' = {} /\ Idle'
    PROVE  VInv'
<1>1. Parsed'
  BY DEF VInv, Parsed, NamesIn
<1>2. Parsing' /\ TypesKeptApart'
  BY DEF VInv, Parsing, TypesKeptApart
<1>3. \A u \in Units : /\ (Granted(u) \subseteq Heeded(u))'
                       /\ Sound(u, Granted(u))'
                       /\ Sees(u, Granted(u))'
  <2> TAKE u \in Units
  <2>1. /\ Granted(u) \subseteq Heeded(u) /\ Sound(u, Granted(u))
        /\ Sees(u, Granted(u))
    BY DEF VInv, Resolving
  <2> QED
    BY <2>1, ViewKept
<1>4. Resolving'
  BY <1>3 DEF Resolving
<1>5. Refusing'
  BY DEF Refusing
<1> QED
  BY <1>1, <1>2, <1>4, <1>5 DEF VInv

\* A call of resolveUsesUtil begins when the last one is through.
LEMMA StartUnitKeeps ==
    ASSUME VInv, StartUnit PROVE VInv'
<1>0. /\ Typed /\ Resolving /\ phase = "resolve" /\ Idle
      /\ cur' \in todo /\ pos' = 1 /\ todo' = todo \ {cur'}
      /\ UNCHANGED <<phase, why, scope, imports, types, target, file, items,
                     runes, exports, uses>>
  BY DEF VInv, StartUnit, resolving
<1>1. cur' \in Units /\ Len(uses[cur']) \in Nat
  <2>1. cur' \in Units
    BY <1>0 DEF Typed
  <2>2. uses[cur'] \in Seq(UseForms)
    BY <1>0, <2>1 DEF Typed
  <2> QED
    BY <2>1, <2>2
<1>2. pos' \in 1 .. Len(uses'[cur']) + 1
  BY <1>0, <1>1
<1>3. Typed'
  BY <1>0, <1>1, <1>2 DEF Typed
<1>4. ASSUME NEW u \in Units PROVE Granted(u)' = Granted(u)
  <2>1. CASE u = cur'
    BY <1>0, <2>1 DEF Granted
  <2>2. CASE u # cur' /\ u \in todo
    BY <1>0, <2>2 DEF Granted
  <2>3. CASE u # cur' /\ u \notin todo
    <3>1. Granted(u)' = Heeded(u)
      BY <1>0, <2>3 DEF Granted, Heeded
    <3>2. Granted(u) = Heeded(u)
      <4>1. CASE u # cur
        BY <2>3, <4>1 DEF Granted
      <4>2. CASE u = cur
        BY <1>0, <2>3, <4>2, Through
      <4> QED
        BY <4>1, <4>2
    <3> QED
      BY <3>1, <3>2
  <2> QED
    BY <2>1, <2>2, <2>3
<1> QED
  BY <1>0, <1>3, <1>4, NothingGranted

\* A use of the unit itself ends its call: it and what follows do not count.
LEMMA CutShortKeeps ==
    ASSUME VInv, CutShort PROVE VInv'
<1>0. /\ Typed /\ Resolving /\ cur' = NoUnit /\ Now.to = cur /\ SetUnit
      /\ UNCHANGED <<phase, why, scope, imports, types, pos, file, items, runes,
                     exports, uses, todo>>
  BY DEF VInv, CutShort, ResolveUse, OnStack
<1>1. /\ phase = "resolve" /\ cur \in Units /\ cur \notin todo
      /\ NoUnit \notin Units
      /\ pos \in 1 .. Len(uses[cur]) /\ Len(uses[cur]) \in Nat
      /\ Now = uses[cur][pos] /\ Now \in UseForms
      /\ Granted(cur) = 1 .. pos - 1 /\ Granted(cur) \subseteq Heeded(cur)
  BY AtWork DEF CutShort
<1>2. /\ target' \in [Units -> Seq(Units \cup {NoUnit})]
      /\ \A u \in Units : Len(target'[u]) = Len(uses'[u])
  <2>1. Now.to \in Units /\ uses' = uses
    BY <1>0, <1>1
  <2> QED
    BY <1>0, <1>1, <2>1, UnitSet
<1>3. Typed'
  BY <1>0, <1>1, <1>2 DEF Typed
<1>4. Heeded(cur) = 1 .. pos - 1
  <2>1. ASSUME NEW k \in Heeded(cur) PROVE k \in 1 .. pos - 1
    <3>1. k \in 1 .. Len(uses[cur]) /\ \A l \in 1 .. k : uses[cur][l].to # cur
      BY DEF Heeded
    <3>2. pos \notin 1 .. k
      BY <1>0, <1>1, <3>1
    <3> HIDE DEF Heeded
    <3> QED
      BY <1>1, <3>1, <3>2
  <2> QED
    BY <1>1, <2>1
<1>5. ASSUME NEW u \in Units PROVE Granted(u)' = Granted(u)
  <2>1. CASE u = cur
    BY <1>0, <1>1, <1>4, <2>1 DEF Granted, Heeded
  <2>2. CASE u # cur
    BY <1>0, <1>1, <2>2 DEF Granted, Heeded
  <2> QED
    BY <2>1, <2>2
<1>6. cur' \notin todo' /\ phase' = "resolve"
  BY <1>0, <1>1 DEF Typed
<1> QED
  BY <1>0, <1>1, <1>3, <1>5, <1>6, NothingGranted

\* All units are resolved.
LEMMA AllResolvedKeeps ==
    ASSUME VInv, AllResolved PROVE VInv'
<1>0. /\ Typed /\ Resolving /\ phase = "resolve" /\ Idle /\ todo = {}
      /\ phase' = "resolved"
      /\ UNCHANGED <<why, file, items, runes, exports, imports, uses, scope, types,
                     target, todo, cur, pos>>
  BY DEF VInv, AllResolved
<1>1. Typed'
  BY <1>0 DEF Typed
<1>2. \A u \in Units : Granted(u)' = Granted(u)
  BY <1>0 DEF Granted, Heeded
<1>3. cur' \notin todo' /\ Idle'
  BY <1>0 DEF Idle
<1> QED
  BY <1>0, <1>1, <1>2, <1>3, NothingGranted

\* A use is granted: the unit sees what it asks for, which contradicts nothing.
LEMMA Grows ==
    ASSUME UNCHANGED <<exports, uses>>, NEW u, NEW K, NEW p,
           scope'[u] = scope[u] \cup Visible(uses[u][p]),
           types'[u] = types[u] \cup TypeKeys(uses[u][p]),
           imports'[u] = imports[u] \cup Brought(u, p),
           Own(u)' = Own(u), Sound(u, K), Sees(u, K), uses[u][p].to # NoUnit,
           uses[u][p].list \subseteq NamesIn(exports[uses[u][p].to]),
           ~ImportClash(u, Visible(uses[u][p]))
    PROVE  Sound(u, K \cup {p})' /\ Sees(u, K \cup {p})'
<1> DEFINE V(k) == Visible(uses[u][k])
           T(k) == TypeKeys(uses[u][k])
           B(k) == Brought(u, k)
<1>1. \A use : Visible(use)' = Visible(use) /\ TypeKeys(use)' = TypeKeys(use)
  BY DEF Visible, TypeKeys, Requested
<1>2. \A k : /\ Visible(uses[u][k])' = V(k) /\ TypeKeys(uses[u][k])' = T(k)
             /\ Brought(u, k)' = B(k)
  BY <1>1 DEF Brought, Requested
<1>3. /\ scope[u] = Own(u) \cup UNION {V(k) : k \in K}
      /\ types[u] = UNION {T(k) : k \in K}
      /\ imports[u] = UNION {B(k) : k \in K}
  BY DEF Sees
<1>4. /\ \A k \in K : /\ uses[u][k].to # NoUnit
                      /\ uses[u][k].list \subseteq NamesIn(exports[uses[u][k].to])
                      /\ NamesIn(V(k)) \cap NamesIn(Own(u)) = {}
      /\ \A k \in K : \A l \in K \ {k} : NamesIn(V(k)) \cap NamesIn(V(l)) = {}
  BY DEF Sound
<1>5. NamesIn(V(p)) \cap NamesIn(scope[u]) = {}
  BY DEF ImportClash, Clash
<1>6. /\ scope'[u] = scope[u] \cup V(p)
      /\ types'[u] = types[u] \cup T(p)
      /\ imports'[u] = imports[u] \cup B(p)
  OBVIOUS
<1> HIDE DEF V, T, B
<1>7. /\ NamesIn(Own(u)) \subseteq NamesIn(scope[u])
      /\ \A k \in K : NamesIn(V(k)) \subseteq NamesIn(scope[u])
  BY <1>3 DEF NamesIn
<1>8. Sound(u, K \cup {p})'
  <2>1. \A k \in K \cup {p} :
           /\ uses[u][k].to # NoUnit
           /\ uses[u][k].list \subseteq NamesIn(exports[uses[u][k].to])
           /\ NamesIn(V(k)) \cap NamesIn(Own(u)) = {}
    BY <1>4, <1>5, <1>7
  <2>2. \A k \in K \cup {p} : \A l \in (K \cup {p}) \ {k} :
           NamesIn(V(k)) \cap NamesIn(V(l)) = {}
    BY <1>4, <1>5, <1>7
  <2>3. \A k : NamesIn(Visible(uses[u][k]))' = NamesIn(V(k))
    BY <1>2 DEF NamesIn
  <2>4. NamesIn(Own(u))' = NamesIn(Own(u))
        /\ \A k : NamesIn(exports[uses[u][k].to])' = NamesIn(exports[uses[u][k].to])
    BY DEF NamesIn
  <2> QED
    BY <2>1, <2>2, <2>3, <2>4 DEF Sound
<1>9. Sees(u, K \cup {p})'
  <2>1. scope'[u] = Own(u) \cup UNION {V(k) : k \in K \cup {p}}
    BY <1>3, <1>6
  <2>2. types'[u] = UNION {T(k) : k \in K \cup {p}}
    BY <1>3, <1>6
  <2>3. imports'[u] = UNION {B(k) : k \in K \cup {p}}
    BY <1>3, <1>6
  <2> QED
    BY <1>2, <2>1, <2>2, <2>3 DEF Sees
<1> QED
  BY <1>8, <1>9

\* What a use asks for becomes part of the scope and the types of its unit.
LEMMA ImportKeeps ==
    ASSUME VInv, Import PROVE VInv'
<1>0. /\ Typed /\ Parsed /\ Resolving /\ TypesKeptApart /\ ResolveUse
      /\ Now.to # NoUnit /\ Now.to # cur /\ Objection(cur, Now) = "" /\ SetUnit
      /\ scope' = [scope EXCEPT ![cur] = @ \cup Visible(Now)]
      /\ types' = [types EXCEPT ![cur] = @ \cup TypeKeys(Now)]
      /\ imports' = [imports EXCEPT ![cur] = @ \cup Brought(cur, pos)]
      /\ pos' = pos + 1
      /\ UNCHANGED <<phase, why, cur, file, items, runes, exports, uses, todo>>
  BY DEF VInv, Import, ResolveUse, OnStack
<1>1. /\ phase = "resolve" /\ cur \in Units /\ cur \notin todo
      /\ NoUnit \notin Units
      /\ pos \in 1 .. Len(uses[cur]) /\ Len(uses[cur]) \in Nat
      /\ Now = uses[cur][pos] /\ Now \in UseForms
      /\ Granted(cur) = 1 .. pos - 1 /\ Granted(cur) \subseteq Heeded(cur)
      /\ Sound(cur, Granted(cur)) /\ Sees(cur, Granted(cur))
      /\ pos \in Heeded(cur)
  BY <1>0, AtWork
<1>2. /\ Now.to \in Units
      /\ \A d \in Requested(Now) : /\ d \in Exportable(Now.to)
                                   /\ d \in Decls /\ d.of # cur
  BY <1>0, Foreign
<1>3. Visible(Now) \subseteq Decls /\ \A d \in Visible(Now) : d.of # cur
  BY <1>2 DEF Visible
<1>4. TypeKeys(Now) \subseteq ({""} \cup Aliases) \X Names
  <2>1. \A d \in Requested(Now) : d.name \in Names
    BY <1>2 DEF Exportable
  <2>2. Now.alias \in {""} \cup Aliases
    BY <1>1, UseFields
  <2> SUFFICES ASSUME NEW key \in TypeKeys(Now)
               PROVE  key \in ({""} \cup Aliases) \X Names
    OBVIOUS
  <2>3. PICK d \in Requested(Now) : key = <<Now.alias, d.name>>
    BY DEF TypeKeys, TypeKey
  <2> QED
    BY <2>1, <2>2, <2>3
<1>5. /\ scope'[cur] = scope[cur] \cup Visible(Now)
      /\ types'[cur] = types[cur] \cup TypeKeys(Now)
      /\ imports'[cur] = imports[cur] \cup Brought(cur, pos)
      /\ \A u \in Units \ {cur} : /\ scope'[u] = scope[u] /\ types'[u] = types[u]
                                  /\ imports'[u] = imports[u]
  BY <1>0, <1>1 DEF Typed
<1>6. Typed'
  <2>1. /\ target' \in [Units -> Seq(Units \cup {NoUnit})]
        /\ \A u \in Units : Len(target'[u]) = Len(uses'[u])
    <3>1. uses' = uses
      BY <1>0
    <3> QED
      BY <1>0, <1>1, <1>2, <3>1, UnitSet
  <2>2. scope' \in [Units -> SUBSET Decls]
    BY <1>0, <1>1, <1>3 DEF Typed
  <2>3. types' \in [Units -> SUBSET (({""} \cup Aliases) \X Names)]
    BY <1>0, <1>1, <1>4 DEF Typed
  <2>4. pos' \in 1 .. Len(uses'[cur']) + 1
    <3> DEFINE c == Len(uses[cur])
    <3>1. pos \in 1 .. c /\ c \in Nat /\ pos' = pos + 1 /\ Len(uses'[cur']) = c
      BY <1>0, <1>1
    <3> HIDE DEF c
    <3> QED
      BY <3>1
  <2>5. Brought(cur, pos) \subseteq (1 .. Len(uses[cur])) \X Decls
    <3>1. \A d \in Requested(uses[cur][pos]) : d \in Decls
      BY <1>1, <1>2
    <3> QED
      BY <1>1, <3>1 DEF Brought
  <2>6. /\ imports' \in [Units -> SUBSET (Nat \X Decls)]
        /\ \A u \in Units : imports'[u] \subseteq (1 .. Len(uses'[u])) \X Decls
    <3>1. \A u \in Units : imports'[u] \subseteq (1 .. Len(uses[u])) \X Decls
      BY <1>0, <1>5, <2>5 DEF Typed
    <3>2. imports' \in [Units -> SUBSET (Nat \X Decls)]
      <4>1. (1 .. Len(uses[cur])) \X Decls \subseteq Nat \X Decls
        BY <1>1
      <4>2. Brought(cur, pos) \in SUBSET (Nat \X Decls)
        BY <2>5, <4>1
      <4> QED
        BY <1>0, <1>1, <4>2 DEF Typed
    <3> QED
      BY <1>0, <3>1, <3>2
  <2> QED
    BY <1>0, <2>1, <2>2, <2>3, <2>4, <2>6 DEF Typed
<1>7. Parsed'
  <2>1. \A u \in Units : NamesIn(scope[u]) \subseteq NamesIn(scope'[u])
    BY <1>5 DEF NamesIn
  <2> QED
    BY <1>0, <2>1 DEF Parsed, NamesIn
<1>8. Parsing' /\ TypesKeptApart' /\ Refusing'
  BY <1>0, <1>1 DEF Parsing, TypesKeptApart, Refusing
<1>9. ASSUME NEW u \in Units, u = cur
      PROVE  /\ (Granted(u) \subseteq Heeded(u))'
             /\ Sound(u, Granted(u))' /\ Sees(u, Granted(u))'
  <2>1. PICK K, p : K = Granted(u) /\ p = pos
    OBVIOUS
  <2>2. Heeded(u)' = Heeded(u)
    BY <1>0 DEF Heeded
  <2>3. Own(u)' = Own(u)
    BY <1>3, <1>5, <1>9 DEF Own
  <2>4. Granted(u)' = 1 .. pos' - 1 /\ K = 1 .. p - 1
    BY <1>0, <1>1, <1>9, <2>1 DEF Granted
  <2>5. Granted(u)' = K \cup {p}
    <3> DEFINE c == Len(uses[cur])
    <3>1. pos' = p + 1 /\ p \in 1 .. c /\ c \in Nat
      BY <1>0, <1>1, <2>1
    <3> HIDE DEF c
    <3> QED
      BY <2>4, <3>1
  <2>6. Sound(u, K) /\ Sees(u, K) /\ Now = uses[u][p]
    BY <1>1, <1>9, <2>1
  <2>7. /\ Now.list \subseteq NamesIn(exports[Now.to])
        /\ ~ImportClash(u, Visible(Now))
    BY <1>0, <1>9, Objections
  <2>8. Sound(u, K \cup {p})' /\ Sees(u, K \cup {p})'
    <3>1. /\ scope'[u] = scope[u] \cup Visible(uses[u][p])
          /\ types'[u] = types[u] \cup TypeKeys(uses[u][p])
          /\ imports'[u] = imports[u] \cup Brought(u, p)
      BY <1>5, <1>9, <2>1, <2>6
    <3>2. /\ uses[u][p].to # NoUnit
          /\ uses[u][p].list \subseteq NamesIn(exports[uses[u][p].to])
          /\ ~ImportClash(u, Visible(uses[u][p]))
      BY <1>0, <2>6, <2>7
    <3> QED
      BY <1>0, <2>3, <2>6, <3>1, <3>2, Grows
  <2>9. K \cup {p} \subseteq Heeded(u)
    BY <1>1, <1>9, <2>1
  <2>10. Sound(u, Granted(u))'
    BY <2>5, <2>8 DEF Sound
  <2>11. Sees(u, Granted(u))'
    BY <2>5, <2>8 DEF Sees
  <2> QED
    BY <2>2, <2>5, <2>9, <2>10, <2>11
<1>10. ASSUME NEW u \in Units, u # cur
       PROVE  /\ (Granted(u) \subseteq Heeded(u))'
              /\ Sound(u, Granted(u))' /\ Sees(u, Granted(u))'
  <2>1. Granted(u)' = Granted(u)
    BY <1>0, <1>10 DEF Granted, Heeded
  <2>2. /\ Granted(u) \subseteq Heeded(u)
        /\ Sound(u, Granted(u)) /\ Sees(u, Granted(u))
    BY <1>0, <1>1 DEF Resolving
  <2> QED
    BY <1>0, <1>5, <1>10, <2>1, <2>2, ViewKept
<1>11. Resolving'
  <2>1. \A u \in Units : /\ (Granted(u) \subseteq Heeded(u))'
                         /\ Sound(u, Granted(u))' /\ Sees(u, Granted(u))'
    <3> TAKE u \in Units
    <3>1. CASE u = cur
      BY <1>9, <3>1
    <3>2. CASE u # cur
      BY <1>10, <3>2
    <3> QED
      BY <3>1, <3>2
  <2> QED
    BY <1>0, <1>1, <2>1 DEF Resolving
<1> QED
  BY <1>6, <1>7, <1>8, <1>11 DEF VInv

-----------------------------------------------------------------------------
(* A use that is refused.                                                  *)

\* Whether a unit is consistent depends on what is in the files.
LEMMA SameFiles ==
    ASSUME UNCHANGED <<scope, exports, uses>>, NEW u
    PROVE  Consistent(u)' <=> Consistent(u)
<1>1. Heeded(u)' = Heeded(u) /\ Own(u)' = Own(u)
  BY DEF Heeded, Own
<1>2. \A use : Visible(use)' = Visible(use)
  BY DEF Visible, Requested
<1>3. \A D : NamesIn(D)' = NamesIn(D)
  BY DEF NamesIn
<1> QED
  BY <1>1, <1>2 DEF Consistent, NamesIn

\* The program ends at a fault of the unit at work.
LEMMA RefusedKeeps ==
    ASSUME VInv, ResolveUse, NEW reason \in Reasons, phase' = "fatal", why' = reason,
           UNCHANGED <<scope, imports, types, target, cur, pos>>,
           reason # "duplicate type", ~Consistent(cur)
    PROVE  VInv'
<1>1. /\ Typed /\ Parsed /\ cur \in Units
      /\ UNCHANGED <<file, items, runes, exports, uses, todo>>
  BY AtWork DEF VInv, ResolveUse
<1>2. reason # ""
  BY DEF Reasons, ParseReasons
<1>3. Typed'
  BY <1>1, <1>2 DEF Typed
<1>4. Parsed'
  BY <1>1 DEF Parsed, NamesIn
<1>5. PICK u \in Units : u = cur
  BY <1>1
<1>6. Consistent(u)' <=> Consistent(u)
  BY <1>1, SameFiles
<1>7. Refusing'
  BY <1>5, <1>6 DEF Refusing
<1> QED
  BY <1>3, <1>4, <1>7 DEF VInv, Parsing, Resolving, TypesKeptApart

\* A path to no file is the fault of its unit.
LEMMA UnresolvedKeeps ==
    ASSUME VInv, Unresolved PROVE VInv'
<1>1. /\ ResolveUse /\ Now.to = NoUnit /\ phase' = "fatal"
      /\ why' = "unresolved unit" /\ UNCHANGED <<scope, imports, types, target, cur, pos>>
  BY DEF Unresolved, Fatal
<1>2. /\ cur \in Units /\ NoUnit \notin Units /\ Now = uses[cur][pos]
      /\ Now.to # cur => pos \in Heeded(cur)
  BY <1>1, AtWork
<1>3. ~Consistent(cur)
  BY <1>1, <1>2 DEF Consistent
<1> QED
  BY <1>1, <1>3, RefusedKeeps DEF Reasons, ParseReasons

\* Two imported types can only be filed alike if their names meet in the scope.
LEMMA KeysMeetInScope ==
    ASSUME VInv, ResolveUse, TypeKeys(Now) \cap types[cur] # {}
    PROVE  ImportClash(cur, Visible(Now))
<1>1. /\ cur \in Units /\ pos \in 1 .. Len(uses[cur]) /\ Len(uses[cur]) \in Nat
      /\ Now = uses[cur][pos] /\ Granted(cur) = 1 .. pos - 1
      /\ Sees(cur, Granted(cur)) /\ Parsed
  BY AtWork DEF VInv
<1>2. PICK k \in Granted(cur) :
         TypeKeys(Now) \cap TypeKeys(uses[cur][k]) # {}
  BY <1>1 DEF Sees
<1>3. PICK d \in Requested(Now), e \in Requested(uses[cur][k]) :
         /\ Now.alias = uses[cur][k].alias
         /\ d.name = e.name
  BY <1>2 DEF TypeKeys, TypeKey
<1>4. k \in 1 .. Len(uses[cur]) /\ k # pos
  BY <1>1
<1>5. Now.alias = ""
  BY <1>1, <1>3, <1>4 DEF Parsed
<1>6. d \in Visible(Now) /\ e \in Visible(uses[cur][k])
  BY <1>3, <1>5 DEF Visible
<1>7. e \in scope[cur]
  BY <1>1, <1>6 DEF Sees
<1> QED
  BY <1>3, <1>6, <1>7 DEF ImportClash, Clash, NamesIn

\* What a use is refused for is the fault of its unit, whatever was resolved
\* before.
LEMMA RejectKeeps ==
    ASSUME VInv, Reject PROVE VInv'
<1> DEFINE o == Objection(cur, Now)
<1>1. /\ ResolveUse /\ Now.to # NoUnit /\ Now.to # cur /\ o # ""
      /\ phase' = "fatal" /\ why' = o /\ UNCHANGED <<scope, imports, types, target, cur, pos>>
  BY DEF Reject, Fatal, OnStack
<1>2. /\ o \in Reasons \cup {""} /\ o \notin ParseReasons
      /\ o = "unknown name" => ~(Now.list \subseteq NamesIn(exports[Now.to]))
      /\ o = "duplicate name" => ImportClash(cur, Visible(Now))
      /\ o = "duplicate type" => /\ ~ImportClash(cur, Visible(Now))
                                 /\ TypeKeys(Now) \cap types[cur] # {}
  BY Objections
<1>3. /\ cur \in Units /\ Now = uses[cur][pos] /\ pos \in Heeded(cur)
      /\ pos \in 1 .. Len(uses[cur]) /\ Len(uses[cur]) \in Nat
      /\ Granted(cur) = 1 .. pos - 1 /\ Granted(cur) \subseteq Heeded(cur)
      /\ Sees(cur, Granted(cur))
  BY <1>1, AtWork
<1> HIDE DEF o
<1>4. o # "duplicate type"
  BY <1>1, <1>2, KeysMeetInScope
<1>5. ASSUME ImportClash(cur, Visible(Now)) PROVE ~Consistent(cur)
  <2>1. PICK d \in Visible(Now), e \in scope[cur] : d.name = e.name
    BY <1>5 DEF ImportClash, Clash, NamesIn
  <2>2. CASE e \in Own(cur)
    <3>1. NamesIn(Visible(Now)) \cap NamesIn(Own(cur)) # {}
      BY <2>1, <2>2 DEF NamesIn
    <3> QED
      BY <1>3, <3>1 DEF Consistent
  <2>3. CASE e \notin Own(cur)
    <3>1. PICK k \in Granted(cur) : e \in Visible(uses[cur][k])
      BY <1>3, <2>1, <2>3 DEF Sees
    <3>2. NamesIn(Visible(Now)) \cap NamesIn(Visible(uses[cur][k])) # {}
      BY <2>1, <3>1 DEF NamesIn
    <3>3. k \in Heeded(cur) /\ k # pos
      BY <1>3
    <3> QED
      BY <1>3, <3>2, <3>3 DEF Consistent
  <2> QED
    BY <2>2, <2>3
<1>6. ASSUME o = "unknown name" PROVE ~Consistent(cur)
  BY <1>2, <1>3, <1>6 DEF Consistent
<1>7. ASSUME o = "unresolved unit" PROVE FALSE
  BY <1>7 DEF o, Objection
<1>8. ~Consistent(cur) /\ o \in Reasons
  BY <1>1, <1>2, <1>4, <1>5, <1>6, <1>7 DEF Reasons, ParseReasons
<1> QED
  BY <1>1, <1>4, <1>8, RefusedKeeps

-----------------------------------------------------------------------------
(* The invariant.                                                          *)

\* Nothing is parsed at the start.
LEMMA InitVInv == Init => VInv
<1> SUFFICES ASSUME Init PROVE VInv
  OBVIOUS
<1>0. NoUnit \notin Units /\ Len(Files) \in Nat \ {0} /\ MaxInFile \in Nat
  BY FilesAssumption, BoundsAssumption
<1>1. \A u \in Units : /\ Len(uses[u]) = 0 /\ uses[u] = <<>> /\ target[u] = <<>>
                       /\ exports[u] = {}
  BY DEF Init
<1>2. Typed
  <2>1. /\ scope \in [Units -> SUBSET Decls] /\ exports \in [Units -> SUBSET Decls]
        /\ imports \in [Units -> SUBSET (Nat \X Decls)]
        /\ \A u \in Units : imports[u] \subseteq (1 .. Len(uses[u])) \X Decls
    BY DEF Init
  <2>2. uses \in [Units -> Seq(UseForms)]
    <3>1. <<>> \in Seq(UseForms)
      OBVIOUS
    <3>2. uses = [u \in Units |-> <<>>]
      BY DEF Init
    <3> QED
      BY <3>1, <3>2
  <2>3. target \in [Units -> Seq(Units \cup {NoUnit})]
    <3>1. <<>> \in Seq(Units \cup {NoUnit})
      OBVIOUS
    <3>2. target = [u \in Units |-> <<>>]
      BY DEF Init
    <3> QED
      BY <3>1, <3>2
  <2>4. types \in [Units -> SUBSET (({""} \cup Aliases) \X Names)]
    BY DEF Init
  <2>5. items \in [Units -> 0 .. MaxInFile]
    <3>1. 0 \in 0 .. MaxInFile
      BY <1>0
    <3>2. items = [u \in Units |-> 0]
      BY DEF Init
    <3> QED
      BY <3>1, <3>2
  <2>6. \A u \in Units : Len(target[u]) = Len(uses[u])
    BY <1>1
  <2>7. file \in 1 .. Len(Files)
    <3>1. 1 \in 1 .. Len(Files)
      BY <1>0
    <3> QED
      BY <3>1 DEF Init
  <2>8. /\ phase = "parse" /\ why = "" /\ runes = FALSE /\ todo = {}
        /\ cur = NoUnit
    BY DEF Init
  <2> QED
    BY <2>1, <2>2, <2>3, <2>4, <2>5, <2>6, <2>7, <2>8 DEF Typed
<1>3. Parsed
  <2> SUFFICES ASSUME NEW u \in Units
               PROVE  exports[u] \subseteq Exportable(u) /\ \A k : ~(k \in 1 .. Len(uses[u]))
    BY DEF Parsed
  <2> QED
    BY <1>1
<1>4. Parsing
  BY <1>1 DEF Init, Parsing, Own
<1> QED
  BY <1>2, <1>3, <1>4 DEF Init, VInv, Resolving, Refusing, TypesKeptApart

\* A step in which nothing changes.
LEMMA StutterKeeps == ASSUME VInv, UNCHANGED vars PROVE VInv'
<1>1. UNCHANGED <<phase, why, file, items, runes, scope, exports, imports, uses,
                  target, types, todo, cur, pos>>
  BY DEF vars
<1>2. Typed' /\ Parsed'
  BY <1>1 DEF VInv, Typed, Parsed, NamesIn
<1>3. Parsing'
  BY <1>1 DEF VInv, Parsing, Own
<1>4. Refusing' /\ TypesKeptApart'
  BY <1>1, SameFiles DEF VInv, Refusing, TypesKeptApart
<1>5. Resolving'
  <2> SUFFICES ASSUME phase \in {"resolve", "resolved"} PROVE Resolving'
    BY <1>1 DEF Resolving
  <2>1. ASSUME NEW u \in Units
        PROVE  /\ (Granted(u) \subseteq Heeded(u))'
               /\ Sound(u, Granted(u))' /\ Sees(u, Granted(u))'
    <3>1. Granted(u)' = Granted(u)
      BY <1>1 DEF Granted, Heeded
    <3>2. /\ Granted(u) \subseteq Heeded(u)
          /\ Sound(u, Granted(u)) /\ Sees(u, Granted(u))
      BY DEF VInv, Resolving
    <3> QED
      BY <1>1, <3>1, <3>2, ViewKept
  <2>2. Idle' <=> Idle
    BY <1>1 DEF Idle
  <2> QED
    BY <1>1, <2>1, <2>2 DEF VInv, Resolving
<1> QED
  BY <1>2, <1>3, <1>4, <1>5 DEF VInv

\* Each step, of the parser or of the resolution, keeps the invariant.
LEMMA NextKeepsVInv == VInv /\ [Next]_vars => VInv'
<1> SUFFICES ASSUME VInv, [Next]_vars PROVE VInv'
  OBVIOUS
<1>1. CASE ParseDecl
  BY <1>1, ParseDeclKeeps
<1>2. CASE ParseUse
  BY <1>2, ParseUseKeeps
<1>3. CASE ParseDuplicate
  BY <1>3, ParseDuplicateKeeps
<1>4. CASE EndOfFile
  BY <1>4, EndOfFileKeeps
<1>12. CASE SamePath
  BY <1>12, SamePathKeeps
<1>5. CASE StartUnit
  BY <1>5, StartUnitKeeps
<1>6. CASE AllResolved
  BY <1>6, AllResolvedKeeps
<1>7. CASE Unresolved
  BY <1>7, UnresolvedKeeps
<1>8. CASE CutShort
  BY <1>8, CutShortKeeps
<1>9. CASE Import
  BY <1>9, ImportKeeps
<1>10. CASE Reject
  BY <1>10, RejectKeeps
<1>11. CASE Over \/ UNCHANGED vars
  BY <1>11, StutterKeeps DEF Over
<1> QED
  BY <1>1, <1>2, <1>3, <1>4, <1>5, <1>6, <1>7, <1>8, <1>9, <1>10, <1>11,
     <1>12
     DEF Next, Resolve

\* In every run of the unit manager, of any files, a unit sees at each moment
\* what it declares and what its uses, as far as they are resolved, ask for.
THEOREM ViewsTracked == Spec => []VInv
<1>1. Init => VInv
  BY InitVInv
<1>2. VInv /\ [Next]_vars => VInv'
  BY NextKeepsVInv
<1> QED
  BY <1>1, <1>2, PTL DEF Spec

\* The state of the parser and of UnitManager is well formed, and the program
\* has ended if and only if something was complained about.
THEOREM UnitsWellTyped == Spec => []TypeOK
<1>1. VInv => TypeOK
  BY TypedOK DEF VInv
<1> QED
  BY <1>1, ViewsTracked, PTL

\* The order in which the unordered_map hands out the units does not decide
\* whether resolveUses accepts the files: it accepts them exactly if each unit
\* is consistent in itself.
THEOREM VerdictOfTheFiles == Spec => []VerdictOfFiles
<1>1. VInv => VerdictOfFiles
  <2> SUFFICES ASSUME VInv PROVE VerdictOfFiles
    OBVIOUS
  <2>1. ASSUME phase = "resolved", NEW u \in Units PROVE Consistent(u)
    <3>1. Granted(u) = Heeded(u) /\ Sound(u, Granted(u))
      BY <2>1, AllGranted DEF VInv, Resolving
    <3> QED
      BY <3>1 DEF Sound, Consistent
  <2> QED
    BY <2>1 DEF VInv, Refusing, VerdictOfFiles
<1> QED
  BY <1>1, ViewsTracked, PTL

\* Nor does it decide what a unit sees: what it declares itself and what the
\* uses ask for that resolveUses granted it, and of them all that count.
THEOREM EachSeesItsUses == Spec => []SeesWhatItUses
<1>1. VInv => SeesWhatItUses
  <2> SUFFICES ASSUME VInv, phase = "resolved", NEW u \in Units
               PROVE  LET mine == {uses[u][k] : k \in Heeded(u)}
                      IN /\ scope[u] = Own(u) \cup UNION {Visible(use) : use \in mine}
                         /\ types[u] = UNION {TypeKeys(use) : use \in mine}
                         /\ imports[u] = UNION {Brought(u, k) : k \in Heeded(u)}
    BY DEF SeesWhatItUses
  <2>1. Granted(u) = Heeded(u) /\ Sees(u, Granted(u))
    BY AllGranted DEF VInv, Resolving
  <2>2. /\ scope[u] = Own(u) \cup UNION {Visible(uses[u][k]) : k \in Heeded(u)}
        /\ types[u] = UNION {TypeKeys(uses[u][k]) : k \in Heeded(u)}
        /\ imports[u] = UNION {Brought(u, k) : k \in Heeded(u)}
    BY <2>1 DEF Sees
  <2> DEFINE mine == {uses[u][k] : k \in Heeded(u)}
  <2>3. /\ UNION {Visible(use) : use \in mine}
             = UNION {Visible(uses[u][k]) : k \in Heeded(u)}
        /\ UNION {TypeKeys(use) : use \in mine}
             = UNION {TypeKeys(uses[u][k]) : k \in Heeded(u)}
    OBVIOUS
  <2> QED
    BY <2>2, <2>3
<1> QED
  BY <1>1, ViewsTracked, PTL

\* The diagnostic of Context::importType for a second type of one name is never
\* given: names that would meet there meet in the scope before.
THEOREM TypesApart == Spec => []TypesKeptApart
<1>1. VInv => TypesKeptApart
  BY DEF VInv
<1> QED
  BY <1>1, ViewsTracked, PTL

\* A use with no name, by number; 0 stands for the unit itself.
Unnamed(u, k) == k # 0 => uses[u][k].alias = ""

\* What a segment gets has a name of its own, except for what the named uses of
\* its unit bring: names that would meet in the segment meet in the scope before.
THEOREM SegmentNames == Spec => []DeclaredApart
<1>1. VInv => DeclaredApart
  <2> SUFFICES ASSUME VInv, phase = "resolved", NEW u \in Units,
                      NEW i \in Declared(u), NEW j \in Declared(u),
                      i # j, SegmentName(i[2]) = SegmentName(j[2]),
                      Unnamed(u, i[1]), Unnamed(u, j[1])
               PROVE  FALSE
    BY Zenon DEF DeclaredApart, Unnamed
  <2> DEFINE K == Heeded(u)
             V(k) == Visible(uses[u][k])
  <2>1. Sound(u, K) /\ Sees(u, K)
    BY AllGranted DEF VInv, Resolving
  <2>2. NoUnit \notin Units /\ K \subseteq Nat \ {0}
    BY FilesAssumption DEF Heeded
  <2>3. ASSUME NEW x \in Declared(u), x \in {i, j}
        PROVE  /\ x = <<x[1], x[2]>>
               /\ x[2] \in Decls /\ x[2].sort \in {"value", "type"}
               /\ \/ x[1] = 0 /\ x[2] \in Own(u) /\ x[2].of = u
                  \/ /\ x[1] \in K /\ x[1] # 0
                     /\ x[2] \in V(x[1])
                     /\ x[2].of = uses[u][x[1]].to
    <3>0. scope \in [Units -> SUBSET Decls] /\ uses[u] \in Seq(UseForms)
      <4>1. scope \in [Units -> SUBSET Decls] /\ uses \in [Units -> Seq(UseForms)]
        BY Zenon DEF VInv, Typed
      <4> QED
        BY <4>1
    <3>1. CASE x \in {0} \X {d \in Own(u) : d.sort # "use"}
      <4>1. x[1] = 0 /\ x[2] \in Own(u) /\ x[2].sort # "use" /\ x = <<x[1], x[2]>>
        BY <3>1
      <4>2. x[2] \in scope[u] /\ x[2].of = u
        BY <4>1 DEF Own
      <4>3. scope[u] \subseteq Decls
        BY <3>0
      <4> QED
        BY <4>1, <4>2, <4>3 DEF Decls
    <3>2. CASE x \in imports[u]
      <4>1. PICK k \in K : x \in Brought(u, k)
        BY <3>2, <2>1 DEF Sees
      <4>2. x = <<x[1], x[2]>> /\ x[1] = k /\ x[2] \in Requested(uses[u][k]) /\ k # 0
        BY <4>1, <2>2 DEF Brought
      <4>3. Unnamed(u, k)
        BY <2>3, <4>2
      <4>4. x[2] \in V(k)
        BY <4>2, <4>3, Zenon DEF Visible, Unnamed
      <4>5. uses[u][k].to \in Units
        <5>1. k \in 1 .. Len(uses[u]) /\ uses[u] \in Seq(UseForms)
          BY <4>1, <3>0 DEF Heeded
        <5>2. uses[u][k] \in UseForms
          BY <5>1
        <5> QED
          BY <5>2, UseFields, <2>1, <4>1 DEF Sound
      <4>6. x[2] \in exports[uses[u][k].to]
        BY <4>2 DEF Requested
      <4>7. exports[uses[u][k].to] \subseteq Exportable(uses[u][k].to)
        BY <4>5, Zenon DEF VInv, Parsed
      <4>8. /\ x[2] \in Decls /\ x[2].sort \in {"value", "type"}
            /\ x[2].of = uses[u][k].to
        BY <4>5, <4>6, <4>7 DEF Exportable, Decls
      <4> QED
        BY <4>1, <4>2, <4>4, <4>8
    <3> QED
      BY <2>3, <3>1, <3>2 DEF Declared
  <2> HIDE DEF K, V
  <2>4. /\ i[2].name = j[2].name
        /\ i[2].of = j[2].of => i[2] = j[2]
    <3>1. i[2].name = j[2].name
      BY DEF SegmentName
    <3>2. /\ i[2] \in Decls /\ i[2].sort \in {"value", "type"}
          /\ j[2] \in Decls /\ j[2].sort \in {"value", "type"}
      BY <2>3
    <3>3. i[2].of = j[2].of => i[2].sort = j[2].sort
      BY <3>2, <2>2 DEF SegmentName, Decls
    <3> QED
      BY <3>1, <3>2, <3>3 DEF Decls
  <2>5. CASE i[1] = j[1]
    <3>1. i[2].of = j[2].of
      BY <2>3, <2>5
    <3> QED
      BY <3>1, <2>3, <2>4, <2>5
  <2>6. CASE i[1] # j[1] /\ i[1] # 0 /\ j[1] # 0
    <3>1. NamesIn(V(i[1])) \cap NamesIn(V(j[1])) = {}
      BY <2>1, <2>3, <2>6 DEF Sound, V, K
    <3>2. i[2] \in V(i[1]) /\ j[2] \in V(j[1])
      BY <2>3, <2>6
    <3> QED
      BY <3>1, <3>2, <2>4 DEF NamesIn
  <2>7. ASSUME NEW x \in {i, j}, NEW y \in {i, j}, x[1] = 0, y[1] # 0 PROVE FALSE
    <3>1. x[2] \in Own(u) /\ y[1] \in K /\ y[2] \in V(y[1])
      BY <2>3, <2>7
    <3>2. NamesIn(V(y[1])) \cap NamesIn(Own(u)) = {}
      BY <2>1, <3>1 DEF Sound, V, K
    <3>3. x[2].name = y[2].name
      BY <2>4
    <3> QED
      BY <3>1, <3>2, <3>3 DEF NamesIn
  <2> QED
    BY <2>5, <2>6, <2>7
<1> QED
  BY <1>1, ViewsTracked, PTL

=============================================================================
