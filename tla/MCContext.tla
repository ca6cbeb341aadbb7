----------------------------- MODULE MCContext -----------------------------
EXTENDS Context
CONSTANTS a, b
TwoFiles == <<a, b>>
OneFile == <<a>>

\* A file with a structure and a template, and one with a template.
Structs == (a :> {"S"}) @@ (b :> {})
OneTemplateEach == (a :> {"B"}) @@ (b :> {"P"})
OwnParams == ("B" :> "T") @@ ("P" :> "U")
Fields == ("S" :> {<<"i32">>, <<"B", "<", "S", "*", ">", "*">>})
       @@ ("B" :> {<<"T">>, <<"T", "*">>, <<"S", "*">>})
       @@ ("P" :> {<<"U", "[]">>, <<"B", "<", "i32", ">">>,
                 <<"P", "<", "i32", ">", "*">>})
Mentions == {<<"B", "<", "S", "*", ">">>, <<"P", "<", "i32", ">">>,
             <<"B", "<", "i32", "[]", ">">>, <<"P", "<", "B", "<", "S", ">", ">">>}

\* Two templates that call their parameter by the same name.
TwoTemplates == a :> {"B", "P"}
NoStructs == a :> {}
SharedParams == ("B" :> "T") @@ ("P" :> "T")
PointerFields == ("B" :> {<<"T", "*">>}) @@ ("P" :> {<<"T", "*">>})
OneMention == {<<"P", "<", "i32", ">">>}
=============================================================================
