-------------------------------- MODULE App --------------------------------
(***************************************************************************)
(* An App (src/src/App.h) as its owner and its requests see it: the routes  *)
(* registered with get() to any() and ws() on the router browsed to, the    *)
(* routers of the server names, and a request routed and, where a ws route  *)
(* takes it, upgraded.                                                      *)
(*                                                                          *)
(* A route is a record [method, pattern, kind, compression]: kind is "ws"   *)
(* for ws(), and for the others whether the handler "answers" or "yields".  *)
(* A registered handler also has its priority and the number of its         *)
(* registration.  What else ws() is told, WebSocket has as constants.       *)
(***************************************************************************)
EXTENDS HttpRouter, WebSocketExtensions

CONSTANTS Domains,        \* server names
          Routes,         \* the routes the application registers and removes
          NotFound,       \* the route the constructor registers
          Requests,       \* [domain, method, url, key, offer, safari]
          Messages,       \* what a WebSocket sends
          MaxRegistered,  \* bound: how often a route is registered
          MaxSends,       \* bound: messages sent one after the other
          RemovesBrowsed  \* whether the application removes the name it is browsing

VARIABLES routers,     \* the default router and one for each server name there is
          current,     \* currentRouter, by its name
          registered,  \* how often a route was registered
          answer       \* what became of the request just served

vars == <<routers, current, registered, answer>>

Default == "default"

Priority(route) == IF route.method = ANY THEN LOW ELSE IF route.kind = "ws" THEN HIGH ELSE MEDIUM

Handler(route, number) ==
    [method |-> route.method, pattern |-> route.pattern, kind |-> route.kind,
     compression |-> route.compression, prio |-> Priority(route), number |-> number]

NoUpgrade == [agreed |-> Refused, options |-> DISABLED]

NoRequest == [routed |-> Nothing, method |-> "", offer |-> <<>>, upgrade |-> NoUpgrade]

Init ==
    /\ routers = (Default :> AddRoute(NewRouter, NotFound.method, NotFound.pattern,
                                      Handler(NotFound, 0), Priority(NotFound)))
    /\ current = Default
    /\ registered = 0
    /\ answer = NoRequest

\* onHttp, from get() to any() and ws(), with a handler.
Register(route) ==
    /\ answer = NoRequest
    /\ current \in DOMAIN routers
    /\ registered < MaxRegistered
    /\ registered' = registered + 1
    /\ routers' = [routers EXCEPT ![current] =
           AddRoute(@, route.method, route.pattern, Handler(route, registered'), Priority(route))]
    /\ UNCHANGED <<current, answer>>

\* onHttp with no handler removes the route.
Unregister(route) ==
    /\ answer = NoRequest
    /\ current \in DOMAIN routers
    /\ route.kind # "ws"
    /\ routers' = [routers EXCEPT ![current] =
           RemoveRoute(@, route.method, route.pattern, Priority(route))]
    /\ UNCHANGED <<current, registered, answer>>

\* A new router for the server name.  There is no 404 in it.
AddServerName(name) ==
    /\ answer = NoRequest
    /\ name \notin DOMAIN routers
    /\ routers' = (name :> NewRouter) @@ routers
    /\ UNCHANGED <<current, registered, answer>>

\* The router is deleted; currentRouter is not looked at.
RemoveServerName(name) ==
    /\ answer = NoRequest
    /\ name \in DOMAIN routers
    /\ name = current => RemovesBrowsed
    /\ routers' = [d \in DOMAIN routers \ {name} |-> routers[d]]
    /\ UNCHANGED <<current, registered, answer>>

Domain(name) ==
    /\ answer = NoRequest
    /\ current' = IF name \in DOMAIN routers THEN name ELSE Default
    /\ UNCHANGED <<routers, registered, answer>>

\* The request handler of on_data, as far as the route: the router of the
\* connection's server name or else the default one.
SelectedRouter(request) ==
    routers[IF request.domain \in DOMAIN routers THEN request.domain ELSE Default]

\* The handler of ws(): what it does with a request it takes.  A Safari 15 with
\* broken compression is treated as if it had offered none.
UpgradeBy(handler, request) ==
    IF handler.kind = "ws" /\ request.key
    THEN Upgrade(handler.compression, IF request.safari THEN <<>> ELSE request.offer)
    ELSE NoUpgrade

Serve(request) ==
    /\ answer = NoRequest
    /\ \E routed \in {Route(SelectedRouter(request), request)} :
           answer' = [routed |-> routed, method |-> request.method, offer |-> request.offer,
                      upgrade |-> IF routed.done THEN UpgradeBy(Last(routed.ran).handler, request)
                                  ELSE NoUpgrade]
    /\ UNCHANGED <<routers, current, registered>>

\* The handler has returned.
Returned ==
    /\ answer # NoRequest
    /\ answer' = NoRequest
    /\ UNCHANGED <<routers, current, registered>>

Next ==
    \/ Returned
    \/ \E route \in Routes : Register(route) \/ Unregister(route)
    \/ \E name \in Domains : AddServerName(name) \/ RemoveServerName(name) \/ Domain(name)
    \/ \E request \in Requests : Serve(request)

Spec == Init /\ [][Next]_vars
-----------------------------------------------------------------------------
\* The app as a table of routes: the handlers lie in their vector in the order
\* they were registered in.
Table == INSTANCE RouteTable WITH
             table <- [d \in DOMAIN routers |-> routers[d].handlers],
             answer <- answer.routed,
             Handlers <- {Handler(route, k) : route \in Routes \cup {NotFound},
                                              k \in 0..MaxRegistered}

\* Whatever is registered, replaced and removed in whatever order, a request runs
\* the handlers of the routes that match it, from the most to the least specific
\* and with their own parameters, until one answers (HttpRouter::route, add and
\* remove keep the tree and the ids in its nodes true to the list of handlers).
RoutesImplemented == Table!TSpec

\* currentRouter is a router that still exists when a route is registered on it
\* (domain() and removeServerName()).
CurrentRouterAlive == current \in DOMAIN routers

\* The client may use no window larger than the inflater's, the server's window is no
\* larger than it said and, if its compressor is dedicated, than the client demanded (9
\* bits being the least), and a side that resets its window has announced it.
WindowsAgreed(u, ep) ==
    LET inflater == DecompressorBits(u.options)
        deflater == CompressorBits(u.options)
        demanded == IF ep.webkit THEN ep.bits ELSE IF ep.serverNoTakeover THEN 0 ELSE ep.serverBits
    IN /\ IF inflater = 1 THEN u.agreed.clientSaid = 0 ELSE u.agreed.clientSaid \in 8..inflater
       /\ u.agreed.clientSaid \notin {0, 15} /\ ep.deflate => ep.clientBits # 0
       /\ IF deflater = 0 THEN ep.deflate => u.agreed.serverSaid = 0
          ELSE /\ deflater <= u.agreed.serverSaid
               /\ demanded # 0 => deflater <= Max({9, demanded})

\* What a client has inflated when it gets a frame; one that was told that there is
\* no context takeover forgets.
Inflated(u, frames) ==
    IF u.agreed.serverSaid = 0 THEN <<>>
    ELSE LET compressed == SelectSeq(frames, LAMBDA f : f.compressed)
         IN [k \in DOMAIN compressed |-> compressed[k].message]

\* A frame that says it is compressed is all of zlib's output but the flush, deflated
\* in a window the client has and after what the client has inflated too.  After a
\* prepared message that is not so where the compressor is dedicated.
FrameInflates(u, frames, k) ==
    LET f == frames[k]
        past == Inflated(u, SubSeq(frames, 1, k - 1))
    IN /\ f.compressed <=> f.payload = "deflated"
       /\ f.compressed => /\ f.message.length > 0 /\ f.message.opCode < 3
                          /\ f.size = f.message.zlib - 4
                          /\ f.window <= (IF u.agreed.serverSaid = 0 THEN 15 ELSE u.agreed.serverSaid)
                          /\ f.history \in {<<>>, past}

FramesInflate(u) ==
    \A messages \in BoundedSeq(Messages, MaxSends) :
        LET frames == FramesOf(u, messages)
            prepared == \E k \in DOMAIN frames : frames[k].message.how = "prepared"
        IN ~(prepared /\ Socket(u).own) => \A k \in DOMAIN frames : FrameInflates(u, frames, k)

\* What a WebSocket compresses and inflates with is what its client was told, and the
\* client can inflate what it is sent, whichever messages were sent before and whether
\* they were compressed (negotiateCompression, upgrade, send, sendPrepared and deflate).
WindowsFit ==
    answer.upgrade.agreed.ok =>
        /\ WindowsAgreed(answer.upgrade, ExtensionsParser(answer.offer))
        /\ FramesInflate(answer.upgrade)

\* A request is given to handlers of its own method and of ANY only ("Always have
\* ANY route", and route() tries the last method node as the one of ANY).
OwnMethodOnly ==
    \A k \in DOMAIN answer.routed.ran :
        answer.routed.ran[k].handler.method \in {answer.method, ANY}
=============================================================================
