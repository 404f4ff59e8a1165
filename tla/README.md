# uWebSockets: TLA+ models, checks and proofs

The repository is a fork of uWebSockets, a header-only C++ server library for
HTTP and WebSockets (`src/src`), with a few applications that publish price
ticks (`src/app`).  This project models the library's own control logic: what
is buffered where, who may write when, what happens when a socket is closed
inside a callback, and what crosses between threads.

Module names follow the headers; action names follow the functions.
`PROJECT.json` maps every definition to its lines.

## 1. The system

One `Loop` per thread runs an event loop of uSockets (an empty submodule here,
so everything about the kernel and the loop is modelled from how the headers
use it).  All library calls except `Loop::defer` are made on that thread, so
"interleaving" nearly always means *callbacks*: a library handler calls the
application, the application calls back into the library on the same or on
another socket, and the handler goes on with what it knew before.

| Component | State | Operations | Correct when |
|---|---|---|---|
| `TopicTree` | topics, subscribers, intrusive drain list, palette of outgoing messages, 16-bit indices | subscribe, unsubscribe, publish, publishBig, drain (one and all), free | every pending index denotes the message published; per socket everything arrives in call order, at most once; no list pointer outlives its subscriber |
| `AsyncSocket`, `BackPressure`, cork buffer | one cork buffer per loop with one owner, a lazily erased buffer per socket | write, cork, uncork, getSendBuffer | bytes are neither lost, doubled nor reordered, whatever the kernel takes; the cork is released |
| `WebSocket`, `WebSocketContext` | shutting-down flag, timers, the context's slot for the socket upgraded in the parser | send, end, close, cork, upgrade; data, writable, end, timeout handlers | FIN follows every accepted byte and is not forgotten; close is emitted exactly once; an ended socket is closed in the end |
| `HttpContext`, `HttpResponse` | state bits, offset, three application handlers, one timer | on_open/data/writable/end/timeout, request and data callbacks; write, end, tryEnd, endWithoutBody, cork, pause, ... | responses whole and in order; one outcome per request; a last response is sent and then the connection closed; idle connections time out |
| `Loop` | two defer queues, mutex, wakeup | defer (any thread), wakeupCb | one FIFO; the iterated queue is not touched; no callback is forgotten |
| `WebSocketProtocol`, `handleFragment` | resumable frame parser, spill buffer, mask, stack of opcodes, fragment buffer | consume, consumeMessage, consumeContinuation; handling of fragments, inflation, control frames | a stream parses alike however it is cut; nothing is emitted after a violation; limits hold |
| `HttpParser`, `ChunkedEncoding`, `ProxyParser`, `BloomFilter` | fallback buffer, remaining bytes with two state bits | consumePostPadded | the same for requests; every call ends |
| `HttpRouter` | tree of segments, handler list, ids of handlers in the nodes | add, remove, route | agrees with a table of routes |
| `App` | routers of server names, the router browsed to, WebSocket behaviours | get to any, ws, addServerName, removeServerName, domain | requests reach the routes registered; the current router exists |
| `WebSocketExtensions`, `PerMessageDeflate`, compression in `upgrade` and `send` | the streams' windows and histories | negotiateCompression, deflate, prepareMessage, sendPrepared | what is announced is what is used; a client can inflate what it gets |
| `QueryParser`, `Multipart`, `MessageParser` | the buffers they parse, which they change | getDecodedQueryValue, getNextPart, getHeaders, getKeyValue | a form is read as it was meant, in any order |
| Quote servers (`src/app/mt4_tick`) | map of last quotes with a lock, index of subscribers with another, deferred callbacks | the pumping thread's OnTick and `_quote_cb`; open, message and close handlers | quotes go to subscribers only; bars are exact; everyone ends up with the stored quote |
| `ClientApp`, `LocalCluster`, `CachingApp`, other tick applications, Http3, ... | | | not modelled, section 7 |

Interactions.  `WebSocket::send` drains the sender's subscriber in the tree
before it writes; the tree's drain callback calls `WebSocket::send`; both write
through `AsyncSocket`.  `HttpResponse::upgrade` turns an HTTP connection with
its backpressure and its cork into a WebSocket.  The loop's pre and post
handlers drain the tree.  `HttpContext` feeds `HttpParser`, whose request
callback asks `HttpRouter`; a ws route upgrades, after which the data goes
through `WebSocketProtocol` to `handleFragment`.  The quote servers sit on top:
their pumping thread reaches the loop through `Loop::defer` and publishes through
the topic tree.

What is hard: re-entrance of the one cork buffer and of the palette; partial
kernel writes in the middle of a composite write; uninitialised and left-over
list links; closing inside callbacks; one timer that many paths arm and
disarm; pipelined requests; FIN ordering; queues shared with other threads;
parsers that stop at any byte and go on in another buffer; ids that move when a
route is removed; parsing that writes into its own input.
The list is under `hazards` in `PROJECT.json`.

## 2. Modules

| Module | Models | Kind |
|---|---|---|
| `PubSub` | what publish/subscribe promises one WebSocket: an ordered mailbox | abstract specification |
| `TopicTree` | `TopicTree.h` with the calls of `WebSocket.h` and `App.h` that drive it | specification |
| `AsyncSocket` | `AsyncSocket.h`, `AsyncSocketData.h`, cork data of `LoopData.h` | operators on a record, composed by the next two |
| `WebSocket` | `WebSocket.h`, `WebSocketContext.h`, upgrade and its slot in `HttpContext.h`, the topic tree's callback of `App.h`, timeouts of `WebSocketContextData.h` | specification over `AsyncSocket` |
| `HttpResponse`, `HttpContext` | `HttpResponse.h` and `HttpResponseData.h`; `HttpContext.h` and the control flow of `HttpParser.h` | specification over `AsyncSocket` |
| `DeferFifo` | what `Loop::defer` promises | abstract specification |
| `LoopDefer` | `Loop::defer`, `Loop::wakeupCb` | specification |
| `WebSocketProtocol` | `WebSocketProtocol.h`, `handleFragment` of `WebSocketContext.h`, inflation of `PerMessageDeflate.h` | specification |
| `HttpParser` | `HttpParser.h`, `ChunkedEncoding.h`, `ProxyParser.h`, `BloomFilter.h` | specification |
| `RouteTable` | what a router promises | abstract specification |
| `HttpRouter`, `WebSocketExtensions` | `HttpRouter.h`; `WebSocketExtensions.h`, the compression part of `HttpResponse::upgrade`, `DeflationStream`, `prepareMessage` and the compression part of `WebSocket::send` | operators, composed by the next |
| `App` | `App.h` with `onHttp` and the request callback of `HttpContext.h` | specification over both |
| `MT4Manager` | `MT4Manager.cpp/h`, `Models.h`, `SafeMap.h` | state and steps of the pumping thread |
| `QuoteServer` | `main_quote.cpp` and `main_quote-point.cpp` over `MT4Manager` | specification |
| `QueryParser`, `Multipart` | `QueryParser.h`; `Multipart.h` and `MessageParser.h` | operators, composed by the next |
| `HttpForm` | a handler that reads a query, the parts of a body and the parameters of a header | specification |
| `TopicTreeProofs`, `AsyncSocketProofs`, `WebSocketProofs`, `HttpProofs`, `LoopDeferProofs`, `WebSocketProtocolProofs`, `HttpParserProofs`, `QuoteServerProofs` | | theorems and their lemmas |
| `MCTopicTree`, `MCWebSocket`, `MCHttpContext`, `MCWebSocketProtocol`, `MCHttpParser`, `MCApp`, `MCQuoteServer`, `MCHttpForm` | | instances for TLC |

**TopicTree.**  The loops that call back (publish, publishBig, drain) take one
step per iteration; `call` is the call in progress.  A message is its number in
the order of the calls that made it.  `list` holds the head and every `prev`
and `next`, including those of subscribers that are not in the list: a new
subscriber has a link from `Garbage`, because the constructor initialises none
of them.  `queued` and `wire` are history: what each pending index should
denote, and what each socket was given.  `PaletteMax` is UINT16_MAX and the
index is taken modulo the width, so wrapping is part of the model.

**AsyncSocket.**  The cork buffer, its owner, the raw backpressure buffers and
the bytes pending removal in them, as one record; each function of the class is
an operator from record to record.  One number, `room`, says how much the
kernel takes in a call.  Bytes are numbered (WebSocket) or are tokens (HTTP),
so that loss, repetition and reordering are visible.

**WebSocket and HTTP.**  A handler that calls the application in its middle is
two actions, entry and return, with a frame on `stack` between them; while a
frame is on top, the application may make any call on any socket.  No other
handler runs in between, since there is one thread.  `Malformed`, `Request`,
`PieceReceived` and `PieceIgnored` choose freely what the peer sends; whether
the parser goes on after a callback is `HttpParser`'s own control flow.  The
constant `Usage` of the HTTP model says which less usual things peers and the
application do (pipelining, malformed data, responding early, closing in a data
handler, ...), so that a passing run can state exactly under which use a
property holds and the configurations of section 3 what breaks it.  `early`,
`lateclose` and `split` are in no configuration: what they would break is under "Met on
the way".  Nor is `late`, a data handler attached when its body has already come.

In `WebSocket` a drain of published messages is a frame as well, one step per message,
and so are the `send` and the `end` that wait for one: the topic tree's callback corks
and uncorks for itself, and `needsUncork`, which it captures once for all sockets, stays
set behind its last message (`App.h:353`).  `slot` is the one `upgradedWebSocket` of the
HTTP context: taken by any upgrade inside the parser, and uncorked and sent FIN by the
data handler instead of the socket it parsed.  `timer` is what armed the timeout last, of
which `First` and `Armed` say whether it is one at all.  `Usage` names the calls, all
legal, that break what the code promises: `long` and `publish`, a long send on and a
message published to the socket being parsed; `upgrade`, of another response in the
parser; `end`, inside a block that corks that socket; `dropped`, calls in a dropped
handler that a drain runs.  `TopicTree` has what is drained and in which order,
`WebSocket` what that does to the cork; there a published message is one byte and
subscribers are not told apart by topic.

**LoopDefer.**  Lock, read of the current queue, push, unlock and wakeup are
separate steps of each thread; the loop's own thread may defer from inside a
callback, which the mutex does not cover during iteration.

**WebSocketProtocol and HttpParser.**  Init chooses what the peer sends; `Receive`
hands any number of further bytes to a call of `consume` or
`consumePostPadded`, and each pass of the call's loops is a step.  What the
application is given is a history of events, compared with what the whole stream
means: for frames `Meaning`, a definition over whole frames that knows nothing of
bytes; for requests the events written beside each stream in `MCHttpParser`.  A
byte of a frame carries its frame and place, so unmasking with the wrong byte of
the mask is seen.  Bytes of a head are the few that the parser tells apart; its
fence of two bytes behind the data is part of the model.

**App.**  A router is the tree of nodes with its vector of handlers, as in
`HttpRouter.h`, including the order of siblings and the ids that `cullNode`
lowers.  `RouteTable` has the list of routes only and finds the handlers of a
request by matching and sorting; the tree is shown to implement it.  Adding,
removing and browsing of server names, and requests, interleave freely; a route
record carries what `ws` copies into its context, so that the negotiated windows
are checked for the routes that exist.  For each agreement the
messages a socket may send are deflated by its own stream or by the loop's; a stream
is its window and what it has deflated since it was reset, and the client's inflater
is its counterpart.

**QuoteServer.**  One step per lock taken, by the pumping thread and by the
loop's: a tick is looked up, updates its quote, is read again, and is deferred; a
message subscribes symbol by symbol, each with its lookup, `SymbolAdd` and insert.
`accepted` is a history of the ticks of a quote but those `LeftOut`: of the same second
as the last one taken, with fewer milliseconds.  `asked` is a history of the symbols a
client asked for, whether or not they were granted.  `program` tells the two
servers apart (`main_quote-publish.cpp` is a copy of `main_quote.cpp`).

**HttpForm.**  The client's form is encoded by external definitions, a part may be
`bare` (its headers do not end), and the body may be cut anywhere; the parsers work on the bytes, and the buffers they change
are state, so that the order of reads matters.

## 3. What the runs check

All runs pass:

| Run | Shows |
|---|---|
| `topictree_calls` | Two subscribers, two topics: types and capacity, every pending index denotes its message (`IndexSound`), both sides of every subscription agree (`TopicsConsistent`), the tree implements `PubSub` (`RefinesPubSub`) up to the point where the palette outgrows the index, and `DrainsEventually` under the fairness of section 5 |
| `topictree_three` | Three subscribers with garbage links, so that one is unlinked from the middle: the list is exactly the pending subscribers (`DrainListExact`), its links agree (`LinksAgree`) |
| `websocket_stream` | Two sockets, nested handlers, blocks and drains, a backpressure limit, with `long`, `publish` and `end`: `StreamIntact`, `BackpressureExact`, `CorkReleased`, `CloseOnce` |
| `websocket_fin` | With cork blocks and published messages, without a limit and without what `Usage` names, one socket's route without an idle timeout: `FinAfterEverything`, `FinNotForgotten`, and `EndedIsClosed` under fairness |
| `http_responses` | A pipelining peer, malformed data, HEAD responses, closing in a data handler: `ResponseIntact`, `ResponsesNotMixed`, `OneOutcome`, `CorkReleased` |
| `http_closing` | A peer that waits for each response and an application that waits for each body: `LastResponseSent`, `IdleTimesOut`, `ClosesWhenDrained`, and data goes to the handler of its own request, which is told of the end and nothing after it (`HandlersInTurn`); no handler is called for a closed connection (`NothingAfterClose`) |
| `loop_defer` | Two threads and a deferring callback: `IteratedUntouched`, `RefinesFifo`, `DeferredRuns` |
| `frames` | Streams of two to four frames cut at every byte: the application is told the same as by the whole stream (`StreamParsed`), the fragment buffer holds no more than the limit (`BufferBounded`), and nothing is emitted after a violation (`SilentOnceBroken`) |
| `requests` | Requests cut at every byte: the same requests, body bytes, ends and errors (`RequestsIntact`); a head in the fallback is incomplete, so the subtraction on taking it over is never negative (`FallbackIncomplete`); each pass of a loop makes progress (`CallReturns`) |
| `routes` | Three registrations and any removals on two server names, with requests in between: the tree implements the table (`RoutesImplemented`); the windows agreed on fit the streams made, and the client can inflate whatever up to three messages, compressed, plain or prepared, it is sent (`WindowsFit`) |
| `quotes` | Two clients, two ticks, both servers, a symbol that is refused in front of one that is not: `OnlySubscribers`, `BarExact`, and under fairness that everyone who asked for a symbol is in its index with the stored quote (`Delivered`) |
| `forms` | Queries, parts and parameters come back as they were meant: `ReadsAgree`, and for parts and the parameters in their headers `PartsIntact` |

Where the code does not do what a comment, a document or the rest of the code says,
there is a configuration beside the runs, under which TLC reports the property named
in it violated.  They are the reason for the values of `Usage`, and for the streams
and bounds that the runs leave out:

| Configuration | Property | What the code does, against which line |
|---|---|---|
| `TopicTree_palette.cfg` | `PaletteFitsIndex` | `freeSubscriber` unlinks a pending subscriber without emptying the palette, and `drain` does nothing while the list is empty: the palette passes UINT16_MAX and indices wrap to other messages (`TopicTree.h:241`, 313; line 102, "Palette of outgoing messages, up to 64k") |
| `WebSocket_dropped.cfg` | `FinAfterEverything` | `end` over the limit: DROPPED converts to `true` like SUCCESS, so FIN goes ahead of the buffer (`WebSocket.h:236`; line 241, "If we are not corked, and we just sent off everything, we need to FIN right here") |
| `WebSocket_dropped.cfg`, with what its comment names | `FinAfterEverything` | A long send in the open handler that the kernel takes in part gives up the cork (`WebSocket.h:154`), so the `uncork` behind the upgrade has nothing to do, does not fail, and FIN goes ahead of what is buffered (`HttpContext.h:304`, "If we succeeded in uncorking, check if we have sent WebSocket FIN") |
| `WebSocket_dropped.cfg`, with `{"dropped"}` | `CorkReleased` | A drain that corked is at its dropped handler, where another socket is drained and, with `needsUncork` set, uncorked in its place; the cork is left to no one (`App.h:341`; line 353, "We should not uncork in all cases?") |
| `Http_lost.cfg` | `ResponseIntact` | `uncork` returns before the data passed to it is written or buffered when the kernel is short (`AsyncSocket.h:344`; line 331, "flush or buffer any corked and/or passed data") |
| `Http_goodbye.cfg` | `ClosesWhenDrained` | A pipelined request overwrites the state bits and with them the close of a buffered last response (`HttpContext.h:161`; `HttpResponse.h:103`, "we want to close the connection when drained") |
| `Http_afterclose.cfg` | `NothingAfterClose` | Chunks of the same data are delivered after the handler closed the connection (`HttpParser.h:574`; `HttpContext.h:240`, "Was the socket closed?") |
| `WebSocket_corkend.cfg` | `FinNotForgotten` | `end` inside `WebSocket::cork` outside a data handler: nobody sends FIN (`WebSocket.h:241`, "fin either if uncork was successful, or when drainage is complete") |
| `WebSocket_corkend.cfg`, with `{"upgrade"}` | `FinNotForgotten`, `CorkReleased` | The open handler of an upgrade upgrades another response, which takes the slot: the socket that was parsed is neither uncorked nor sent FIN (`HttpResponse.h:341`, "We need to tell the Http parser that we changed socket"; `Loop.h:71` then ends the process) |
| `WebSocket_corkend.cfg`, with `{"publish"}` | `FinAfterEverything` | A message published to the socket being parsed is drained by its next send, whose callback uncorks by a `needsUncork` of an earlier drain, in the middle of the handler; the `uncork` behind the upgrade then has nothing to do and FIN goes ahead of what is buffered (`App.h:353`; `HttpContext.h:304` as above) |
| `WebSocketProtocol_compressed.cfg` | `CompressedAccepted` | A compressed frame with a medium or long header, cut behind its first bytes: when they are parsed again the flag is already taken and the connection is closed (`WebSocketProtocol.h:488`; `WebSocketContext.h:43`) |
| `HttpParser_empty.cfg` | `RequestsIntact` | A head with `Content-Length: 0` that completes in the fallback: no end of data is emitted (`HttpParser.h:591`, 690; line 548, "If content-length then fixed length even if 0", and 601, "emit an empty data chunk to signal no data") |
| `HttpParser_empty.cfg`, with the streams its comment names | `RequestsIntact` | A single `Host` behind headers whose Bloom bits cover it is refused as a second one (`HttpParser.h:504`) |
| `App_domain.cfg` | `OwnMethodOnly` | A router without a route for ANY, as those of server names are, tries the handlers of whichever method is last (`HttpRouter.h:278`; line 244, "Always have ANY route") |
| `App_domain.cfg`, with what its comment names | `CurrentRouterAlive` | `removeServerName` of the name browsed to leaves `currentRouter` dangling (`App.h:115`) |
| `QuoteServer_reused.cfg` | `Converges` | A socket's address used again between copy and callback passes the check for life, and an older quote is sent behind the new one (`main_quote-point.cpp:86`) |
| `HttpForm_again.cfg` | `EveryReadAgrees` | A value read twice is decoded twice: `%2541` gives `%41`, then `A` (`QueryParser.h:98`, "put null char to stop next read") |

Met on the way, without a configuration:

* Topics and backpressure.  A WebSocket may publish to a topic it is not subscribed to
  (`WebSocket.h:378`, "must be subscribed to the topic itself").  The limit is checked
  before the message is added, so one message of any size passes it (`WebSocket.h:120`;
  `misc/READMORE.md:176`).  Draining less than 1/32 of the buffer does not reset the
  timeout (`WebSocketContext.h:349`).
* Timeouts.  `idleTimeout` 0 with automatic pings becomes 65532 seconds
  (`WebSocketContextData.h:93`; `App.h:305` allows 0 as none); `First` has it, the runs
  have 0 without pings.  A socket that ended on a route without any idle timeout loses the
  timer of `end` with the next partial drain (`WebSocketContext.h:351`) and stays as long
  as its peer likes (`WebSocket.h:251`, "to avoid long hanging sockets after end()"):
  the exception of `EndedIsClosed`.
* HTTP.  `endWithoutBody` with a length starts no timeout, and the last piece of a body
  turns off that of a response already complete (`HttpContext.h:73`).  An error response
  overtakes, and loses, earlier corked ones (`HttpContext.h:154`).  A head with
  `Content-Length: 0` in two pieces gives the data handler no last piece
  (`HttpContext.h:220`).  `Connection: close` is written into the body when it is first
  asked for after the head (`HttpResponse.h:106`).
* Frames.  rsv1 on a control frame marks the message around it, or the next one, as compressed
  (`WebSocketProtocol.h:488`).  The close codes 1012 to 3999 are refused (`WebSocketProtocol.h:189`).  A
  message begun inside another one is refused only as text directly behind an unfinished
  frame.
* Compression.  A prepared message is deflated in the loop's window of 15 bits, whatever
  was agreed, and by another stream than a dedicated compressor, so the client's history
  and the server's go apart (`Loop.h:137`, `WebSocket.h:105`): `FramesInflate` leaves
  these sockets out.  A prepared control message is sent deflated without saying so.
  Fragments sent with `compress` each say that they are compressed.  A shared compressor
  keeps its window when the client demands a smaller one in `x-webkit-deflate-frame`
  (`WebSocketExtensions.h:178`).  The test for `DEDICATED_COMPRESSOR_3KB` holds for every
  dedicated compressor (`HttpResponse.h:295`).
* Chunks.  `g` and `@` pass for the hexadecimal digit 16 (`ChunkedEncoding.h:57`); a
  chunk-size line cut behind white space reads on as digits.
* Routes.  A `:` inside a plain segment counts as a parameter (`HttpContext.h:451`).
* Forms.  A boundary inside a line splits content, and one in the epilogue gives a
  further part; a key without `=` that begins as the key asked for makes the rest of a
  query unreadable (`QueryParser.h:105`).
* Quotes.  A tick between `SymbolAdd` and `Insert` is dropped (`MT4Manager.cpp:117`); a
  failed `SymbolAdd` is not repeated until a client subscribes again
  (`MT4Manager.h:101`); the quote sent on subscription may be followed by an older one
  deferred before (`main_quote.cpp:100`); the terminal's seconds with the local clock's
  milliseconds are not monotone, so a later tick of the same second may be left out
  (`MT4Manager.cpp:120`), which `BarExact` allows and no other.

Hazards that no property covers, of which `PROJECT.json` lists the wrap of `idleTimeout`
only: the two of backpressure just named; the nested
`iterateTopics` (`WebSocket.h:366`); the unlocked prices of `tick_server.cpp:85`; the
dangling `currentRouter` (`App.h:115`), for which `App_domain.cfg` has the evidence; a
child app removed before its deferred socket arrives (`App.h:637`); `LocalCluster.h:44`
and `CachingApp.h:79`, outside what is modelled.

Every property of a passing run has a mutant: the same action with a plausible
mistake (a dropped guard, a missing reset, a swapped order), defined next to the
original and marked `\* Mutant`, under which TLC finds the property violated.

## 4. Bounds

* `MaxIndices` 1 or 2 stands for 32 and `PaletteMax` 2 or 3 for 65535: with 3
  messages a full subscriber and a full palette occur, with 4
  (`TopicTree_palette.cfg`) a wrapped index.  Three subscribers are the fewest with
  an inner list element; that run has every socket as a garbage link.
* `CorkSize` 2 with frames of 1 or 2 bytes: the buffer is empty, partly filled,
  exactly full and too small.  `EraseDivisor` 2 instead of 32 makes both lazy
  and real erasure occur with 4 bytes.
* `MaxBytes` 3 in the WebSocket runs: the response, and two bytes that are a long frame,
  two messages, or a message and the close frame, with backpressure between them; a
  message and an `end` in an open handler with a long send need 5, and a drain of one
  socket with another's 4 (the configurations of section 3).
* `MaxDepth` 2 bounds the handlers and blocks in one another: a data handler and the
  block of another socket, or of the response upgraded in it; a drain in either adds up to
  two frames (the `send` or `end` that waits and the drain).  `http_responses` uses 2 as
  well: with one connection a cork block inside its own data handler does nothing but call
  the application.
* `http_responses` and `http_closing` use a cork buffer larger than all tokens,
  because a smaller one shows the loss of `Http_lost.cfg`.  Two requests and 5 or 6
  tokens allow a complete response, chunked or with a partial body, and a second
  one after it.  `Rooms` has one token and everything; the other
  configurations also have nothing.
* `frames`: streams of two frames of 20 kinds, and longer ones that begin with a
  fragment; payloads from nothing to `MaxPayload` 7, which is one mask and a partial
  one; header sizes 2, 3 and 5 stand for 6, 8 and 14, so that all three are cut inside.
  Every cut of a stream into pieces occurs.
* `requests`: up to three requests, `MaxFallback` 30 bytes and `MaxHeaders` 5, both of
  which some streams reach, and PROXY frames at and past `MaxProxy` 2 and of another
  version; `MaxDigits` 2 and `MaxHexDigits` 1 so that lengths overflow.
* `routes`: seven routes that overlap (static, parameters, wildcards, ws, ANY), three
  registered at a time; two URL segments, with a URL of three; nine offers of
  extensions; sequences of up to three of six messages, with chunks of 6 bytes for
  zlib's output that are not filled, filled exactly, and filled and left over.
* `quotes`: `MaxTicks` 2 with seconds of 2 and minutes of 2 units, so that ticks fall
  in one minute or in two; of two symbols the one that comes first in a list is not
  traded, so that a list fails with another symbol behind it; two ticks of one second may
  be a later and an earlier one by their milliseconds.
* `forms`: three reads of up to four values; up to three parts and headers, at and
  past the limit, and a part whose headers do not end between two that are whole; every cut
  of the body.
* `MaxCallbacks` 4 with two threads: the queues are swapped twice with pushes
  before, during and after.

CHECK_DEADLOCK is FALSE where the model really ends: in `WebSocket` and
`HttpContext` when all connections are closed (a socket is not reused), in
`LoopDefer`, `QuoteServer` and `HttpForm` when the bound is reached, in
`WebSocketProtocol` when the stream is over.  `HttpParser` has a stuttering
`Terminated` instead, so that its deadlock check shows every call to go on.

## 5. Fairness

* `TopicTree`: weak fairness of the steps of a call in progress (a loop in C++
  runs to its end) and strong fairness of `Drain`, which the pre and post
  handlers of the loop call in every iteration; it is disabled while a call is
  under way.
* `WebSocket`: the loop is free again and again (`Returns`: the application's callbacks
  return), and a timer that is armed fires, once the loop is free for it again and again,
  for a socket that is shutting down (`TimerFires`: the loop sweeps timers for ever), unless
  the writable handler goes on putting it off.  That it is armed is not assumed: it is what
  `end`, the pings and the writable handler leave in `timer`, and with the timeout of `end`
  left out `EndedIsClosed` is violated.
* `LoopDefer`: weak fairness of `wakeupCb` once a wakeup is pending, and of each
  thread's steps inside `defer`.
* `QuoteServer`: weak fairness of the message being handled and of the pumping
  thread's steps, and strong fairness of the deferred callbacks: an iteration of the
  loop runs what was deferred before it whatever else is ready, which is what
  `DeferredRuns` shows of `LoopDefer`.

None is assumed of peers, of the kernel or of when the application calls.

## 6. Proofs

All hold for every value of the constants (any number of sockets, topics,
threads, messages; any capacity and index width), under the named assumptions of
the modules: `Nil` is no socket, sizes are positive naturals, garbage links are
some pointer, thread names differ, streams are made of frames (`StreamAssumption`) or of
bytes (`ParserAssumption`), prices are positive.

* **TopicTree** (`TopicTreeProofs`).  `IInv` is `TypeOK` and five parts.
  `TopicsConsistent`; `AliveInv`, no deleted subscriber is pending; `ListInv`;
  `IndexInv`; `CallInv`, about the call in progress.  The properties are not
  inductive by themselves for two reasons.  The list: that neighbours agree says
  nothing of reachability, so `ListOK` states that some rank function strictly
  decreases along `next` from the head through exactly the pending subscribers,
  with `WalkOK` for a walk in progress during `drain()`, when links already
  passed are stale.  The indices: while `publish` hands out the index of a
  message that it has not yet appended, the index equals the palette's length;
  `InRange` allows that for subscribers the loop has passed only.  From it:
  `TypeCorrect` (with the capacity of `messageIndices`), `ListWellLinked`,
  `IndicesSound`, `TopicsAgree`.  `DrainListKept` adds what neighbours cannot say, that the
  walk along `next` ends and visits exactly the pending subscribers, of any finite set: an
  induction along the walk, which visits by rank and one more subscriber with each step.
  (The induction is on the least counterexample, from the library's `WFMin`; and that
  a recursive function satisfies its definition is an induction of its own, `WalkIs`.)
* **Refinement** (`TopicTreeProofs`).  `ImplementsPubSub`: the mailbox of a
  socket is what its pending indices denote.  In addition to `IInv` it needs
  `FreshInv`: the message a call is about is later than everything a socket was
  or will be given, for those still to have it.  Both hold until the palette
  outgrows the index (`TopicTree_palette.cfg` shows that it can).
* **PubSub** (`TopicTreeProofs`).  `Promise`: the abstract mailboxes deliver in
  order and nothing twice; with `ImplementsPubSub`, `DeliveredInOrder` says so of the
  topic tree.
* **AsyncSocket** (`AsyncSocketProofs`).  Lemmas about every operator, used by the
  module below: each keeps `IOInv` and the stream of every socket, the concatenation of
  what was sent, what the raw buffer still holds and what is corked.  `IOInv` is more
  than the properties say.  `IOSafe`: what awaits removal is never the whole buffer and
  at most 1/`EraseDivisor` of it, which is what makes a lazily erased buffer report zero
  exactly when it is empty.  `CorkOwned`: corked bytes have an owner, which
  has no backpressure, for `uncork` would send them ahead of it.  The
  last lemmas say what a result means: a call that may buffer and reports a failure has
  left backpressure, and one that does not has left none.
* **WebSocket** (`WebSocketProofs`).  `Inv` has `StreamIntact` and `CloseOnce`, the types
  with `IOInv`, and what makes these inductive.  `Bytes`: a socket that is not yet upgraded
  has sent and buffered nothing but what it has accepted.  `Stacked`: handlers, blocks and
  drains nest in certain ways only (`Nested`), the socket of a drain stays open under it, and
  only somebody on the stack holds the cork and will give it up, which for a drain means that
  `needsUncork` is set.  From it `TypeCorrect`, `StreamKept`, `BackpressureKept`,
  `CorkAlwaysReleased`, `ClosedOnce`, whatever the nesting, limits and kernel results, of
  applications that are `Careful`: `Usage` without `upgrade` and `dropped`, each of which
  breaks `CorkReleased` (section 3).

  FIN is a theorem where the configurations of section 3 do not refute it.  `FinInv` says
  that a socket that has sent FIN is shutting down and holds nothing (`FinLast`), that no
  drain is under way for it (`DrainsOpen`), and that while an HTTP data handler is under way
  the socket it parses owns the cork, has nothing to drain, and nothing inside will give it
  up (`OpenCorked`); the last is why `long` and `publish` have to be out (`CarefulParsing`).
  From it `FinAfterAcceptedHolds`, for sockets that were refused no message, and `FinIsLast`,
  for all when there is no limit (with one, `WebSocket_dropped.cfg`).  `FinComes` needs that
  no socket ends inside a block that corked it (`CarefulEnd`; `WebSocket_corkend.cfg`), with
  any other cork blocks: by `DueInv` a socket that is shutting down has sent FIN, has
  backpressure, owns the cork of a handler that will send FIN when it uncorks, or is in
  the drain its `end` waits for.
* **HTTP** (`HttpProofs`).  `Inv` has the types with `IOInv` and three parts.  `Shape`: a
  handler of uSockets is at the bottom of the stack and a callback of the parser right above
  its data handler, of the same connection; the parser stops for a closed connection only.
  `Owner`: the cork belongs to the innermost handler or block that will release it.
  `Outcome`: the handlers attached are those of the request in progress, which is neither
  done nor aborted.  Every step is shown to be about one connection (`Keeps`), leaving the
  bytes, the handlers and the outcomes of all others alone.  From it `CorkAlwaysReleased` and
  `OneOutcomeHolds`, whatever peers, application and kernel do.  The others are theorems under
  the conditions that the configurations of section 3 show to be needed:

  - `ResponseKept` and `LastResponseKept`: what was made is what was sent, buffered and
    corked (`Intact`), of executions in which the responses of a corked connection fit the
    cork buffer (`CorkFits`; `Http_lost.cfg` without it), and so
    (`...Bounded`) of all executions when the bound `MaxTokens` is no more than `CorkSize`.
  - `LastResponseCloses`: a connection whose last response is complete has backpressure, or
    is corked by a data handler or a block that will close it (`Farewells`); this needs
    also that the parser is not inside of a further request, hence a peer that does not
    pipeline (`Http_goodbye.cfg`).
  - `IdleAlwaysTimesOut`: a connection without a pending response has its timer, or the data
    callback is about to return from the last piece of a body with no response (`Idle`);
    without `head` and `early`, which are under "Met on the way".
  - `HandlersKeepTurn` and `NothingFollowsClose`: a data handler belongs to the last request,
    whose body is under way or of which the parser owes the last piece (`Waiting`), and
    only the parser of an open connection calls back (`InTurn`); without `late` and
    `split`, under which a handler waits in vain, and without `closing`
    (`Http_afterclose.cfg`).  `http_closing` checks both.
  - `ResponsesKeptApart`: `ResponsesNotMixed`, under `CorkFits` (`...Bounded` as above).
    `Told` adds what the property does not say, that the bits of `HttpResponseData` agree
    with the bytes of the unfinished response (`Underway`: nothing, `InHead`, `InChunks` or
    `InBody` with so many bytes counted as `offset`); else the next call would write a
    second head, or end a body short.  `LengthMakes` shows that what `tryEnd` counts is what
    it made.  Without `lateclose`: `end` with `close` behind a head already written puts its
    header into the body (under "Met on the way").
* **LoopDefer** (`LoopDeferProofs`).  `IInv` adds to the types: `Exclusion` (who
  is between lock and unlock holds the mutex), `IntoCurrent` (the queue index
  read under the mutex is still current at the push), `QueuesSplit` (the drained
  queue is the other one, and empty when none is drained).  From it
  `IterationSafe` and `ImplementsFifo`, with the pending callbacks being the rest
  of the drained queue followed by the current one.

* **WebSocketProtocol** (`WebSocketProtocolProofs`).  `BufferInv` has the types and
  `Bounded`: between frames the fragment buffer holds at most `MaxPayload` bytes and no
  part of a control frame; within one, at most `MaxShort` bytes of it behind them, as
  the header was refused otherwise.  From it `BufferStaysBounded` and `SilentWhenBroken`,
  whatever the peer sends.

  `ParsedAsMeant` is about every stream of any length and every way to cut it.
  `ParseInv` says where the parser stands (`Stands`): between two frames, with the bytes
  that are left still to parse or spilled, and its buffer, its stack of opcodes and what
  it told the application as the frames so far mean (`InBetween`); inside a frame, with so
  many bytes of the payload taken and the mask rotated to match (`InFrame`); or behind
  the frame that broke the connection (`Over`).  The property alone is not inductive: it says
  nothing of what is kept between calls.  The lemmas below it are about each operator
  (`TakeWhole` and `TakePart` of `handleFragment`, `Unmasks` and `Rotates` of the mask,
  `HeadTaken` of the header), about the bytes of a stream (`FieldsGrow`, `BehindIs`), and
  about the meaning (`MeantFair`); `Utf8Same` shows `isValidUtf8` to accept what the automaton of
  `WellFormed` accepts.  Recursive functions are unfolded by induction on the least
  counterexample, as in `TopicTreeProofs`.

  Its hypothesis `Ordinary` is about the streams and leaves out those of which the code makes something
  else.  `Plain`: a message begun inside another one is text directly behind an
  unfinished data frame, the only case that is noticed.  And rsv1 is on frames that
  begin a message, with a short header, since `setCompressed` is called for frames of any
  opcode (`WebSocketProtocol.h:488`) and once more when a longer header was cut.  The streams of `frames`
  satisfy it, so that run checks the same property of them.

* **HttpParser** (`HttpParserProofs`). `FallbackIncomplete` says that
  `GetHeaders(Fenced(fallback))` finds nothing, and what makes it worth proving is a fact
  about `getHeaders` itself, `HeadSame`: a head that is found in some data, and ends in
  its first part, is found in that part alone, with its own fence. It says that no scan
  looks behind the line feed that ends the head, and is an induction over the passes of
  the loop over the fields (`FieldsSame`), with `FieldsBound` (a head ends in the data,
  not in the fence) and `ScanSame` below it; the PROXY frame and the request line are in
  front of it. `ParserInv` adds to the property which loop may use what: a body or a head
  in the data itself leaves the fallback empty, heads are only looked for where no body is
  left, and a chunk or trailer in progress is never of size 0. From it
  `FallbackStaysIncomplete` and, for every pass, `CallsReturn`: a head found in the
  fallback ends behind what was there before (by `HeadSame`), so that the number of bytes
  to skip in the new data is positive and at most all of it.

* **QuoteServer** (`QuoteServerProofs`).  `IInv` is `OnlySubscribers` and four parts.
  `PumpInv`: the pumping thread has a tick in hand while it works, whose quote stays in
  the map once it was found, and whose time is in no minute 0.  `QuoteInv`: every quote is
  that of the ticks it took (`Barred`, which says of the minimum and maximum of `BarExact`
  what an added tick needs, and that no earlier tick is of a later minute).  `JobInv`: a
  message is handled for an open connection, whose list has the symbol before anything is
  sent.  `ConnInv`: types.  Beside them `OrderInv`: ticks come in the order of the
  terminal's seconds, and no quote is of a later second than a tick still to come, so that
  a tick that looks earlier than its quote is of the same second, hence one of those
  `LeftOut` (`OlderSameSecond`).  From all this `SubscribersOnly`, with addresses used
  again as well, and `BarsExact`, for which prices have to be positive (`TickAssumption`).

Only model-checked: `EndedIsClosed` of `WebSocket`; `RequestsIntact` of `HttpParser` and
the forms (`ReadsAgree`, `PartsIntact`), which compare a parser with a reading of the
whole input that `MCHttpParser` and the reference definitions give for single inputs;
`App`, whose router is built with `RECURSIVE` operators; all liveness (out of the prover's
reach); and what the decoders compute.

## 7. Not modelled

* `pause`/`resume` of reads other than for HTTP, throttling, addresses;
  `writeContinue`, `overrideWriteOffset`, filters; the `iterateTopics` lock; sends in
  fragments; child apps.
* What a dropped, subscription or close handler calls on the very socket whose `send`,
  `end` or drain calls it (`WebSocket.h:127`, 255), or from inside one of the tree's calls:
  in `TopicTree` they call nothing back, in `WebSocket` a dropped handler may call on other
  sockets (`dropped`).  In `WebSocketProtocol` a dropped handler of the automatic pong may
  close the socket where there is a ping handler, whose test of that follows
  (`WebSocketContext.h:186`); without one the next frame would still be parsed.
* How long a timeout takes; only whether it is armed.
* zlib, SHA-1 and base64: data transformations without control state.
* Bytes of 128 and above in queries and forms; the lower-casing of header names in the
  buffer, which nothing reads again.
* `tick_client`, `tick_recorder` and `tick_gateway`: they start with
  `app.connect(url, ...)`, which in this library registers a route for the method
  CONNECT and connects to nothing, so what they would do with ticks never happens.
  `tick_server` is one thread that defers and publishes; its unlocked read of a symbol
  (`tick_server.cpp:85`) is a plain data race.
* In the quote servers: sessions by login and price differences, since no code sets
  `loginid`; day data, since no code sets `per_close`.
* `CachingApp` (does not compile: its base class is not in the repository),
  `LocalCluster` ("highly experimental"), `ClientApp` (a stub).
* Http3: experimental, on a QUIC library that is not in the repository.
* TLS: the model has plain sockets; SSL differs in how uSockets writes.
* The MT4 manager API: a closed library.

## 8. Plan

1. A definition of what a stream of requests means, for every stream, and with it a proof of
   `RequestsIntact`; `HeadSame` is the part of it about the head.
2. Child apps: accepted sockets handed out round robin and adopted on another loop, on
   top of `DeferFifo`.
3. The topic iteration lock; sends in fragments.
4. Http3 and `tick_server`, should the QUIC library and the connecting client that they
   need come into the repository.
