----------------------------- MODULE MCFileEdits -----------------------------
(***************************************************************************)
(* Versions of a file with up to two definitions, also of one name, with   *)
(* and without a comment; with import lines, other text and bytes that are *)
(* no text; with a definition that has others inside.                      *)
(***************************************************************************)
EXTENDS FileEdits, TLC

Def(n, t, c, inside) == [name |-> n, text |-> t, comment |-> c, inside |-> inside]
Flat(n, t) == Def(n, t, NoComment, <<>>)
Source(imports, defs, other, utf8) ==
    [imports |-> imports, defs |-> defs, other |-> other, utf8 |-> utf8]

Texts == {"short", "long"}
Plain == {Flat(n, t) : n \in {"f", "g"}, t \in Texts}
Commented == Plain \cup {Def("f", "short", "says", <<>>)}
Pairs == {Source(<<>>, defs, 0, TRUE) : defs \in UNION {[1..n -> Commented] : n \in 0..2}}

Lines == {<<>>, <<"use a">>, <<"use b">>, <<"use b", "use a">>}
Single ==
    {Source(imports, <<Flat("f", t)>>, other, TRUE) :
        imports \in Lines, t \in Texts, other \in {0, 9}}
      \cup {Source(<<>>, <<Flat("f", "short")>>, 0, FALSE)}

Inside == {<<>>, <<Flat("m", "short")>>, <<Flat("m", "long")>>,
           <<Flat("m", "short"), Flat("g", "short")>>}
Nested ==
    {Source(<<>>, <<Def("C", "short", NoComment, inside)>> \o after, 0, TRUE) :
        inside \in Inside, after \in {<<>>, <<Flat("f", "short")>>, <<Flat("f", "long")>>}}

ThreeOf(files, parsed) ==
    [base : files, head : files, overlay : files, known : parsed]
MCSize == [t \in Texts |-> IF t = "short" THEN 1 ELSE 2]
MCEdits == ThreeOf(Pairs, {TRUE}) \cup ThreeOf(Single, BOOLEAN) \cup ThreeOf(Nested, {TRUE})
MCNested == ThreeOf(Nested, {TRUE})
=============================================================================
