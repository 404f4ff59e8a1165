----------------------------- MODULE RouteTable -----------------------------
(***************************************************************************)
(* What a router promises, without a tree: the routes registered for each   *)
(* domain, in the order of their registration, and for a request every      *)
(* route that matches it tried from the most to the least specific until    *)
(* one answers.                                                             *)
(***************************************************************************)
EXTENDS Naturals, SequencesExt

CONSTANTS Domains, Handlers, Requests,
          ParamNames, WildNames, MaxUrlSegments

VARIABLES table,    \* the routes of every domain there is
          answer    \* the handlers that ran for the request just served

tvars == <<table, answer>>

Default == "default"
NotAsked == [done |-> FALSE, ran |-> <<>>]

Kind(segment) ==
    CASE segment \in WildNames -> 2
      [] segment \in ParamNames -> 1
      [] OTHER -> 0

Cut(path) == SubSeq(path, 1, Min({Len(path), MaxUrlSegments}))

\* Two patterns are one route when they differ in the names of parameters only.
SamePath(p, q) ==
    /\ Len(Cut(p)) = Len(Cut(q))
    /\ \A k \in DOMAIN Cut(p) : p[k] = q[k] \/ (Kind(p[k]) = 1 /\ Kind(q[k]) = 1)

SameRoute(h, g) == h.method = g.method /\ h.prio = g.prio /\ SamePath(h.pattern, g.pattern)

Without(routes, h) == SelectSeq(routes, LAMBDA g : ~SameRoute(g, h))

SegmentFits(s, u) == IF Kind(s) = 1 THEN u # "" ELSE s = u

\* A wildcard is the last segment of its pattern and takes one segment or more.
Matches(pattern, url) ==
    LET p == Cut(pattern)
        u == Cut(url)
        fits(n) == \A k \in 1..n : Kind(p[k]) # 2 /\ SegmentFits(p[k], u[k])
    IN IF p # <<>> /\ Kind(Last(p)) = 2
       THEN Len(u) >= Len(p) /\ fits(Len(p) - 1)
       ELSE Len(u) = Len(p) /\ fits(Len(p))

MoreSpecific(p, q) ==
    \E k \in DOMAIN Cut(p) \cap DOMAIN Cut(q) :
        /\ Kind(p[k]) < Kind(q[k])
        /\ \A j \in 1..(k - 1) : Kind(p[j]) = Kind(q[j])

\* WebSocket routes come first, the ANY routes last, and else the more specific one.
TriedBefore(h, g) ==
    \/ h.prio < g.prio
    \/ h.prio = g.prio /\ MoreSpecific(h.pattern, g.pattern)

Candidates(routes, request) ==
    SortSeq(SelectSeq(routes, LAMBDA h : /\ h.method \in {request.method, "*"}
                                         /\ Matches(h.pattern, request.url)),
            TriedBefore)

Takes(h, request) == IF h.kind = "ws" THEN request.key ELSE h.kind = "answers"

\* The value of a parameter is the URL's segment where the pattern names it.
ParamsOf(pattern, url) ==
    LET named == {k \in DOMAIN Cut(pattern) : Kind(pattern[k]) = 1}
    IN [name \in {pattern[k] : k \in named} |-> url[Max({k \in named : pattern[k] = name})]]

Expected(routes, request) ==
    LET tried == Candidates(routes, request)
        takers == {k \in DOMAIN tried : Takes(tried[k], request)}
        last == IF takers = {} THEN Len(tried) ELSE Min(takers)
    IN [done |-> takers # {},
        ran |-> [k \in 1..last |-> [handler |-> tried[k],
                                    params |-> ParamsOf(tried[k].pattern, request.url)]]]

RoutesFor(request) ==
    table[IF request.domain \in DOMAIN table THEN request.domain ELSE Default]

HasAny(routes) == \E k \in DOMAIN routes : routes[k].method = "*"
-----------------------------------------------------------------------------
TInit ==
    /\ answer = NotAsked
    /\ \E h \in Handlers : table = (Default :> <<h>>)

TRegister(d, h) ==
    /\ answer = NotAsked
    /\ table' = [table EXCEPT ![d] = Append(Without(@, h), h)]
    /\ UNCHANGED answer

TUnregister(d, h) ==
    /\ answer = NotAsked
    /\ table' = [table EXCEPT ![d] = Without(@, h)]
    /\ UNCHANGED answer

TAddDomain(d) ==
    /\ answer = NotAsked
    /\ table' = (d :> <<>>) @@ table
    /\ UNCHANGED answer

TRemoveDomain(d) ==
    /\ answer = NotAsked
    /\ table' = [e \in DOMAIN table \ {d} |-> table[e]]
    /\ UNCHANGED answer

\* A request is tried on the routes of its domain.  Nothing is promised where no
\* ANY route is registered.
TServe(request) ==
    /\ HasAny(RoutesFor(request)) => answer' = Expected(RoutesFor(request), request)
    /\ UNCHANGED table

TReturned == answer' = NotAsked /\ UNCHANGED table

TNext ==
    \/ TReturned
    \/ \E d \in DOMAIN table, h \in Handlers : TRegister(d, h) \/ TUnregister(d, h)
    \/ \E d \in Domains \ DOMAIN table : TAddDomain(d)
    \/ \E d \in Domains \cap DOMAIN table : TRemoveDomain(d)
    \/ \E request \in Requests : TServe(request)

TSpec == TInit /\ [][TNext]_tvars
=============================================================================
