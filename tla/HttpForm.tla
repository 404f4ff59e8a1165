------------------------------ MODULE HttpForm ------------------------------
(***************************************************************************)
(* A handler reads a submitted form: values of the query with               *)
(* HttpRequest::getQuery(key), in any order and again, the parts of the     *)
(* body with MultipartParser::getNextPart, and the parameters of a part's   *)
(* first header with ParameterParser::getKeyValue.  All three work in the   *)
(* buffers that hold the request and change them.                           *)
(*                                                                         *)
(* The form itself is the client's: pairs of a key and a plain value, and   *)
(* parts of headers and content.  How a client writes them down is external *)
(* to the repository.  The body may be cut short at any byte.               *)
(***************************************************************************)
EXTENDS QueryParser, Multipart

CONSTANTS Forms,     \* [pairs, style, type, boundary, preamble, parts]
          Keys,      \* the keys that the handler asks for
          MaxReads   \* bound: calls of getQuery for one request

VARIABLES form,    \* what the client meant
          whole,   \* its body came in full
          query,   \* the bytes of the query, from its '?' on
          asked,   \* the answers of getQuery: sequence of [key, found, value]
          reader,  \* the MultipartParser
          parts,   \* the parts it gave: sequence of [headers, content]
          ended,   \* getNextPart gave none
          line,    \* remainingLine of the ParameterParser on the last part's first header
          params   \* what it gave: sequence of [key, value]

vars == <<form, whole, query, asked, reader, parts, ended, line, params>>

-----------------------------------------------------------------------------
(* The client.                                                             *)

CRLF == <<CR, LF>>

\* The reserved bytes of a value that the encoder of this model escapes.
Reserved == {SPACE, AMPERSAND, EQUALS, PERCENT, PLUS, 47, 58}

HexOf(n, letters) == IF n > 9 THEN letters + n ELSE 48 + n

Escaped(b, style) ==
    CASE b \notin Reserved                -> <<b>>
      [] b = SPACE /\ style = "capital"   -> <<PLUS>>
      [] OTHER -> LET letters == IF style = "small" THEN 87 ELSE 55
                  IN <<PERCENT, HexOf(b \div 16, letters), HexOf(b % 16, letters)>>

EscapedValue(value, style) == FlattenSeq([i \in DOMAIN value |-> Escaped(value[i], style)])

\* "?key=value&key=value"
QueryOf(f) ==
    FlattenSeq([i \in DOMAIN f.pairs |->
        <<IF i = 1 THEN 63 ELSE AMPERSAND>> \o f.pairs[i].key \o <<EQUALS>>
            \o EscapedValue(f.pairs[i].value, f.style)])

\* "key; key=value; key="value""
ParamOf(p) ==
    p.key \o (IF p.quoted THEN <<EQUAL, QUOTE>> \o p.value \o <<QUOTE>>
              ELSE IF p.value = <<>> THEN <<>> ELSE <<EQUAL>> \o p.value)

LineOf(ps) ==
    FlattenSeq([i \in DOMAIN ps |-> (IF i = 1 THEN <<>> ELSE <<SEMICOLON, SPACE>>) \o ParamOf(ps[i])])

HeadersOf(part) ==
    FlattenSeq([i \in DOMAIN part.headers |->
        part.headers[i].key \o <<COLON, SPACE>> \o LineOf(part.headers[i].params) \o CRLF])

\* A bare part has neither the line break behind the headers nor that before the boundary.
TextOf(part) ==
    HeadersOf(part) \o (IF part.bare THEN part.content ELSE CRLF \o part.content \o CRLF)

BodyOf(f) ==
    LET delimiter == <<HYPHEN, HYPHEN>> \o f.boundary
    IN f.preamble \o delimiter
       \o FlattenSeq([i \in DOMAIN f.parts |-> CRLF \o TextOf(f.parts[i]) \o delimiter])
       \o <<HYPHEN, HYPHEN>> \o CRLF

-----------------------------------------------------------------------------
Init ==
    /\ form \in Forms
    /\ query = QueryOf(form)
    /\ \E n \in 0..Len(BodyOf(form)) :
          /\ reader = MultipartParser(form.type, SubSeq(BodyOf(form), 1, n))
          /\ whole = (n = Len(BodyOf(form)))
    /\ asked = <<>> /\ parts = <<>> /\ params = <<>>
    /\ line = <<>>
    /\ ended = FALSE

\* HttpRequest::getQuery(key).
GetQuery(key) ==
    LET answer == GetDecodedQueryValue(key, query)
    IN /\ Len(asked) < MaxReads
       /\ query' = answer.query
       /\ asked' = Append(asked, [key |-> key, found |-> answer.found, value |-> answer.value])
       /\ UNCHANGED <<form, whole, reader, parts, ended, line, params>>

\* isValid and getNextPart, by a handler that stops when there is none.  A ParameterParser
\* is made of the part's first header.
NextPart ==
    LET next == GetNextPart(reader)
    IN /\ reader.boundary # <<>>
       /\ ~ended
       /\ reader' = next.parser
       /\ ended' = ~next.some
       /\ parts' = IF next.some
                   THEN Append(parts, [headers |-> next.headers, content |-> next.content])
                   ELSE parts
       /\ line' = IF next.some /\ next.headers # <<>> THEN next.headers[1].value ELSE <<>>
       /\ params' = <<>>
       /\ UNCHANGED <<form, whole, query, asked>>

\* ParameterParser::getKeyValue, by a handler that stops at an empty key.
NextParameter ==
    LET next == GetKeyValue(line)
    IN /\ line # <<>>
       /\ next.key # <<>>
       /\ line' = next.rest
       /\ params' = Append(params, [key |-> next.key, value |-> next.value])
       /\ UNCHANGED <<form, whole, query, asked, reader, parts, ended>>

Next == (\E key \in Keys : GetQuery(key)) \/ NextPart \/ NextParameter

Spec == Init /\ [][Next]_vars

-----------------------------------------------------------------------------
\* The answer that getQuery(key) should give.
Meant(key) ==
    LET of == SelectSeq(form.pairs, LAMBDA p : p.key = key)
    IN [key |-> key, found |-> of # <<>>, value |-> IF of = <<>> THEN <<>> ELSE of[1].value]

\* Plain values that mean something else when they are decoded once more.
Ambiguous == \E i \in DOMAIN form.pairs :
    Range(form.pairs[i].value) \cap {PERCENT, PLUS, AMPERSAND} # {}

\* getQuery(key) gives the first value of that key as the client meant it, although it
\* decodes in place and so writes over the query that later calls search: the first call
\* always does, the later ones, for the same or another key, as long as no plain value has
\* a '%', a '+' or an '&' (QueryParser.h:53-103).
ReadsAgree ==
    \A i \in DOMAIN asked : i = 1 \/ ~Ambiguous => asked[i] = Meant(asked[i].key)

\* Every call of getQuery(key) gives what the client meant.  The comment at QueryParser.h:98
\* has the null stop the next read.  It does not stop the next decoding of what is before it.
EveryReadAgrees == \A i \in DOMAIN asked : asked[i] = Meant(asked[i].key)

\* The parameters that a part should give, and the part itself.
MeantParams(ps) == [i \in DOMAIN ps |-> [key |-> ps[i].key, value |-> ps[i].value]]
MeantPart(part) ==
    [content |-> part.content,
     headers |-> [i \in DOMAIN part.headers |->
         [key   |-> [k \in DOMAIN part.headers[i].key |-> LowerCased(part.headers[i].key[k])],
          value |-> LineOf(part.headers[i].params)]]]

\* The parts before the first one that has too many headers or does not end them.
MeantParts ==
    LET invalid == {i \in DOMAIN form.parts :
                       Len(form.parts[i].headers) >= MaxHeaders \/ form.parts[i].bare}
        n == Min(invalid \cup {Len(form.parts) + 1}) - 1
    IN [i \in 1..n |-> MeantPart(form.parts[i])]

\* The parts that came are those of the form, and of a whole body all of them came.
PartsWhole ==
    /\ IsPrefix(parts, MeantParts)
    /\ ended /\ whole => parts = MeantParts

\* The parameters of the part's first header come as the client meant them, and a line
\* that is used up has given all of them.
ParamsWhole ==
    LET headers == form.parts[Len(parts)].headers
    IN parts # <<>> /\ ~ended /\ headers # <<>> =>
          /\ IsPrefix(params, MeantParams(headers[1].params))
          /\ line = <<>> => params = MeantParams(headers[1].params)

\* The parser gives the parts of the form, whole, in their order, with their headers and
\* the parameters of these, quoted or not, whatever stands before the first boundary and
\* wherever the body was cut: never a part that was cut or whose headers do not end, nor
\* anything behind such a part, and all of them of a whole body (Multipart.h:42-119, 171-226).
PartsIntact == PartsWhole /\ ParamsWhole
=============================================================================
