----------------------------- MODULE MCHttpParser -----------------------------
(* Requests of every kind of body, alone and two in a row, and malformed   *)
(* ones behind a good one.                                                 *)
EXTENDS HttpParser

Line == <<"M", "SP", "/", "SP", "V", "CR", "LF">>
FieldBytes(f) == f.key \o <<":", "SP">> \o f.value \o <<"CR", "LF">>
HeadOf(fs) == Line \o FlattenSeq([i \in DOMAIN fs |-> FieldBytes(fs[i])]) \o <<"CR", "LF">>
F(name, value) == [key |-> <<name>>, value |-> value]
Host == F("h", <<"v">>)

Bytes(body) == [i \in DOMAIN body |-> <<"byte", body[i]>>]
Good(fs, wire, body) ==
    [wire |-> HeadOf(fs) \o wire, verdict |-> 200,
     events |-> <<<<"request", fs>>>> \o Bytes(body) \o <<<<"end">>>>]
Bad(wire, code) == [wire |-> wire, verdict |-> code, events |-> <<>>]

Plain == Good(<<Host>>, <<>>, <<>>)
Length(b) == Good(<<F("l", <<"2">>), Host>>, b, b)
TwoChunks == Good(<<Host, F("t", <<"c">>)>>,
                  <<"2", "CR", "LF", "x", "LF", "CR", "LF", "1", "CR", "LF", "y", "CR", "LF",
                    "0", "CR", "LF", "CR", "LF">>, <<"x", "LF", "y">>)
Long == Good(<<Host, F("t", <<"c">>)>>,
             <<"1", "0", "SP", "CR", "LF">> \o [i \in 1..16 |-> "x"] \o
             <<"CR", "LF", "0", "CR", "LF", "CR", "LF">>, [i \in 1..16 |-> "x"])
Frame(version, addresses) ==
    <<"CR", "LF", "CR", "LF", "Q", version, HexDigits[Len(addresses) + 1]>> \o addresses
Proxied == [Plain EXCEPT !.wire = Frame("2", <<"z", "z">>) \o @]

(* A frame that is not understood is waited upon until the fallback is full. *)
Unframed ==
    {Bad(Frame("1", <<"z", "z">>) \o Plain.wire \o Plain.wire, 431),
     Bad(Frame("2", <<"z", "z", "z">>) \o Plain.wire \o Plain.wire, 431)}

Malformed ==
    {Bad(<<"M", "SP", "/", "SP", "x", "CR", "LF">> \o <<"h", ":", "CR", "LF", "CR", "LF">>, 505),
     Bad(HeadOf(<<F("n", <<"v">>)>>), 400), Bad(HeadOf(<<Host, Host>>), 400),
     Bad(HeadOf(<<Host, F("l", <<"1">>), F("t", <<"c">>)>>), 400),
     Bad(Line \o <<"h", "SP", ":", "CR", "LF", "CR", "LF">>, 400),
     Bad(Line \o <<"h", ":", "BAD", "CR", "LF", "CR", "LF">>, 400),
     Bad(Line \o <<"h", ":", "v", "CR", "LF", "CR", "x", "LF">>, 400),
     Bad(HeadOf(<<Host, F("n", <<"v">>), F("n", <<>>), F("n", <<>>)>>), 431),
     Bad(HeadOf(<<Host, F("n", [i \in 1..15 |-> "v"])>>), 431),
     [Bad(HeadOf(<<Host, F("l", <<"x">>)>>), 400)
        EXCEPT !.events = <<<<"request", <<Host, F("l", <<"x">>)>>>>>>],
     [Bad(HeadOf(<<Host, F("t", <<"c">>)>>) \o <<"1", "0", "0", "0", "CR", "LF">>, 400)
        EXCEPT !.events = <<<<"request", <<Host, F("t", <<"c">>)>>>>>>]}

Then(a, b) == [wire |-> a.wire \o b.wire, events |-> a.events \o b.events, verdict |-> b.verdict]
Goods == {Plain, Length(<<"CR", "LF">>), TwoChunks, Proxied}

MCStreams ==
    {Then(a, b) : a \in Goods, b \in {Plain, Length(<<"x", "M">>), TwoChunks}}
        \union Malformed \union Unframed \union {Then(Plain, b) : b \in Malformed} \union {Long}
MCHashBits == [name \in Names |-> {name}]

(* A request with "Content-Length: 0".                                     *)
MCEmpty == {Good(<<Host, F("l", <<"0">>)>>, <<>>, <<>>)}
(* A host behind a field whose name has the bits of "host".                *)
MCCollides == {Good(<<F("n", <<"v">>), Host>>, <<>>, <<>>)}
MCColliding == [name \in Names |-> IF name = "n" THEN {"h", "n"} ELSE {name}]
===============================================================================
