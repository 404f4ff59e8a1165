----------------------------- MODULE MCHttpForm -----------------------------
(* HttpForm on a few forms.  Letters are bytes: a is 97, b 98, and so on. *)
EXTENDS HttpForm

A == <<97>>
B == <<98>>
AB == <<97, 98>>

MCKeys == {A, B, AB}

Pair(k, v) == [key |-> k, value |-> v]
Param(k, v, q) == [key |-> k, value |-> v, quoted |-> q]
Header(k, ps) == [key |-> k, params |-> ps]
Part(hs, c) == [headers |-> hs, content |-> c, bare |-> FALSE]
Bare(hs, c) == [Part(hs, c) EXCEPT !.bare = TRUE]

Disposition == Header(<<67>>, <<Param(<<102>>, <<>>, FALSE), Param(<<110>>, <<97, 59, 61, 98>>, TRUE),
                                Param(<<109>>, <<99>>, FALSE)>>)
Plain == Header(<<84>>, <<Param(<<116>>, <<>>, FALSE)>>)

\* Values with escapes, a space and an '='; a key that begins as another and one that is
\* there twice; values that decode to '%', '+' and '&'.
MCPairs ==
    {<<Pair(AB, <<47, 32, 99>>), Pair(A, <<58, 61>>), Pair(B, <<>>), Pair(A, <<98>>)>>,
     <<Pair(A, <<37, 52, 49>>), Pair(B, <<43>>)>>,
     <<Pair(A, <<99, 38, 98, 61, 99>>), Pair(B, <<97>>)>>,
     <<>>}

\* Headers up to the limit, content with line breaks and hyphens, empty content, headers
\* that do not end.
MCParts ==
    {<<Part(<<Disposition, Plain>>, <<45, 45, 13, 10, 45>>), Part(<<>>, <<99>>), Part(<<Plain>>, <<>>)>>,
     <<Part(<<Disposition>>, <<>>), Part(<<Plain, Plain, Plain>>, <<99>>), Part(<<Plain>>, <<99>>)>>,
     <<Part(<<Plain>>, <<99>>), Bare(<<Plain>>, <<97, 99, 99>>), Part(<<>>, <<99>>)>>,
     <<>>}

Type(m, bytes) == [multipart |-> m, rest |-> bytes]

\* "multipart/m=bb", and types without a boundary, with an empty, a too long one, or of another kind.
MCTypes ==
    {Type(TRUE, <<109, 61, 98, 98>>), Type(TRUE, <<109>>), Type(TRUE, <<109, 61>>),
     Type(TRUE, <<109, 61, 98, 98, 98, 98>>), Type(FALSE, <<61, 98, 98>>)}

Form(pairs, style, type, preamble, ps) ==
    [pairs |-> pairs, style |-> style, type |-> type, boundary |-> <<98, 98>>,
     preamble |-> preamble, parts |-> ps]

ValidType == Type(TRUE, <<109, 61, 98, 98>>)

MCForms ==
    {Form(pairs, style, ValidType, <<>>, <<>>) : pairs \in MCPairs, style \in {"small", "capital"}}
    \cup {Form(<<Pair(A, <<47>>)>>, "small", type, preamble, ps) :
             type \in MCTypes, preamble \in {<<>>, <<45, 13, 10>>}, ps \in MCParts}
=============================================================================
