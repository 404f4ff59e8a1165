------------------------------- MODULE MCApp -------------------------------
(***************************************************************************)
(* An app with one server name, a few routes that overlap, and requests     *)
(* that tell them apart.  Three segments of a URL do not fit.               *)
(***************************************************************************)
EXTENDS App

MCParamNames == {":", ":x", ":y"}
MCWildNames == {"*"}
MCMethodOrder == <<"DELETE", "POST">>

Http(method, pattern, kind) ==
    [method |-> method, pattern |-> pattern, kind |-> kind,
     compression |-> DISABLED]
Ws(pattern, compression) ==
    [method |-> "GET", pattern |-> pattern, kind |-> "ws", compression |-> compression]

Dedicated(bits) == bits * 16 + (bits - 7)

MCNotFound == Http("*", <<"*">>, "answers")

MCRoutes == {
    Http("GET", <<"a">>, "answers"),
    Http("GET", <<":x">>, "yields"),
    Http("GET", <<":x", ":y">>, "answers"),
    Http("POST", <<"*">>, "yields"),
    Http("*", <<"*">>, "yields"),
    Ws(<<"*">>, SHARED_COMPRESSOR),
    Ws(<<"a">>, Dedicated(10) + 11 * 256)}

Token(word) == [tok |-> word, val |-> 0]
Number(n) == [tok |-> "number", val |-> n]
Permessage == Token("permessage-deflate")
Webkit == Token("x-webkit-deflate-frame")
ClientBits == Token("client_max_window_bits")
ServerBits == Token("server_max_window_bits")

MCOffers == {
    <<>>,
    <<Permessage>>,
    <<Token("unknown"), Permessage, ClientBits>>,
    <<Permessage, ClientBits, Number(10), ServerBits, Number(8)>>,
    <<Permessage, ServerBits, Number(9), Token("client_no_context_takeover"), Permessage, ServerBits, Number(15)>>,
    <<Permessage, Token("server_no_context_takeover"), ClientBits, Number(16)>>,
    <<Permessage, ServerBits, Number(0), Token("client_no_context_takeover")>>,
    <<Webkit, Token("max_window_bits"), Number(9)>>,
    <<Webkit, Token("no_context_takeover")>>}

Request(domain, method, url) ==
    [domain |-> domain, method |-> method, url |-> url, key |-> FALSE, offer |-> <<>>, safari |-> FALSE]

MCRequests ==
    {Request("default", "GET", url) : url \in {<<"a">>, <<"b">>, <<"">>, <<"a", "b">>, <<"b", "", "c">>}}
    \cup {Request("default", "POST", <<"a">>), Request("default", "DELETE", <<"a", "b">>),
          Request("site", "GET", <<"a">>), Request("site", "POST", <<"a">>)}
    \cup {[Request("default", "GET", <<"a">>) EXCEPT !.key = TRUE, !.offer = offer] : offer \in MCOffers}
    \cup {[Request("default", "GET", <<"a">>) EXCEPT !.key = TRUE, !.offer = <<Permessage>>, !.safari = TRUE]}

Message(length, zlib, how, receiving) ==
    [length |-> length, zlib |-> zlib, opCode |-> 1, how |-> how, receiving |-> receiving]

\* Chunks of 6 bytes: none filled, one exactly, and one and a part.
MCMessages == {
    Message(0, 5, "compress", FALSE),
    Message(3, 5, "compress", FALSE),
    Message(9, 6, "compress", TRUE),
    Message(9, 6, "prepared", FALSE),
    Message(12, 14, "compress", FALSE),
    [Message(4, 6, "compress", FALSE) EXCEPT !.opCode = 9]}
=============================================================================
