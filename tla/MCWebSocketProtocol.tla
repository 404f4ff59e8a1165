-------------------------- MODULE MCWebSocketProtocol --------------------------
(* Streams of up to three of a few frames, with short headers.             *)
EXTENDS WebSocketProtocol

F(op, fin, size, payload) ==
    [op |-> op, fin |-> fin, rsv1 |-> FALSE, rsv23 |-> FALSE, size |-> size, payload |-> payload]
Compressed(f) == [f EXCEPT !.rsv1 = TRUE]

(* 195 169 is a character, cut in two; 237 160 128 is a surrogate.         *)
Starts == {F(TEXT, FALSE, "short", <<65, 195>>), F(BINARY, FALSE, "medium", <<1, 2, 3, 4, 5>>),
           F(TEXT, FALSE, "short", <<>>), Compressed(F(BINARY, FALSE, "short", <<6>>))}
Rests == {F(CONTINUATION, TRUE, "short", <<169>>), F(CONTINUATION, FALSE, "long", <<66, 67>>)}
Wholes == {F(TEXT, TRUE, "long", <<66>>), F(TEXT, TRUE, "short", <<237, 160, 128>>),
           F(BINARY, TRUE, "short", <<7, 8, 9, 1, 2, 3, 4>>),
           Compressed(F(BINARY, TRUE, "short", <<7, 8>>)),
           Compressed(F(TEXT, TRUE, "short", <<65, 66, 67, 68>>)),
           Compressed(F(BINARY, TRUE, "short", <<Corrupt>>))}
Controls == {F(PING, TRUE, "short", <<70, 71>>), F(PONG, TRUE, "short", <<>>),
             F(CLOSE, TRUE, "short", <<3, 232, 65>>), F(CLOSE, TRUE, "short", <<3, 237>>),
             F(CLOSE, TRUE, "short", <<3>>)}
Bad == {F(PING, FALSE, "short", <<>>), F(3, TRUE, "short", <<>>),
        [F(TEXT, TRUE, "short", <<>>) EXCEPT !.rsv23 = TRUE]}

MCHeaderSize == [short |-> 2, medium |-> 3, long |-> 5]
MCFrames == Starts \union Rests \union Wholes \union Controls \union Bad
(* Messages inside others that the parser does not notice are left out.    *)
MCStreams ==
    {fs \in {<<a, b>> : a, b \in MCFrames}
            \union {<<a, b, c>> : a \in Starts, b \in Rests \union Controls, c \in MCFrames}
            \union {<<a, b, c, d>> : a \in Starts, b, d \in Rests, c \in Controls} : Plain(fs)}

(* A compressed message whose frame has a longer header.                   *)
MCLongCompressed == {<<Compressed(F(BINARY, TRUE, "medium", <<1>>))>>}
=============================================================================
