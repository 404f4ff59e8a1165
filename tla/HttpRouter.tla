----------------------------- MODULE HttpRouter -----------------------------
(***************************************************************************)
(* The URL router (src/src/HttpRouter.h): a tree of method nodes and, below *)
(* them, one node per path segment; the nodes hold the ids of handlers, and *)
(* the handlers lie in a vector.  A router is a value [root, handlers] and  *)
(* the operators of this module are its member functions.                   *)
(*                                                                          *)
(* A path is the sequence of its segments, as cut lazily at every '/'.  The *)
(* first character of a segment of a pattern says what it is: ParamNames    *)
(* are the segments that begin with ':', WildNames those with '*'.          *)
(* Handler ids count from 1 here and from 0 in the code; an entry           *)
(* [prio, id] of a node is the code's priority | id.                        *)
(***************************************************************************)
EXTENDS Naturals, SequencesExt

CONSTANTS ParamNames,     \* segments that begin with ':', ":" among them
          WildNames,      \* segments that begin with '*'
          MethodOrder,    \* the methods but for GET and ANY in alphabetical order
          MaxUrlSegments  \* MAX_URL_SEGMENTS

ANY == "*"
HIGH == 13
MEDIUM == 14
LOW == 15

\* What stands behind an id that is not one of the vector's.
NoHandler == [kind |-> "none"]

Node(name, high) == [name |-> name, high |-> high, children |-> <<>>, handlers |-> <<>>]

\* The segments that are looked at: there is room for MaxUrlSegments of them.
Segments(url) == SubSeq(url, 1, Min({Len(url), MaxUrlSegments}))

\* Wildcards sort after parameters and parameters after plain names.
LexicalOrder(name) ==
    CASE name \in ParamNames -> 1
      [] name \in WildNames -> 0
      [] OTHER -> 2

\* Mutant: a new node goes behind its siblings.
SortsBeforeNever(a, b, atRoot) == FALSE

SortsBefore(a, b, atRoot) ==
    IF a.high # b.high THEN a.high
    ELSE ~atRoot /\ LexicalOrder(b.name) < LexicalOrder(a.name)

IsNode(node, name, high) == node.name = name /\ node.high = high

\* The children of a node with the child asked for among them: inserted before
\* the first one it sorts before when it is not there.
GetNode(children, name, high, atRoot) ==
    IF \E k \in DOMAIN children : IsNode(children[k], name, high) THEN children
    ELSE LET new == Node(name, high)
             later == {k \in DOMAIN children : SortsBefore(new, children[k], atRoot)}
         IN InsertAt(children, Min(later \cup {Len(children) + 1}), new)

NodeIndex(children, name, high) == SelectInSeq(children, LAMBDA n : IsNode(n, name, high))

EntryBefore(a, b) == a.prio < b.prio \/ (a.prio = b.prio /\ a.id < b.id)

InsertEntry(entries, new) ==
    LET later == {k \in DOMAIN entries : EntryBefore(new, entries[k])}
    IN InsertAt(entries, Min(later \cup {Len(entries) + 1}), new)

\* A pattern's parameters are all named ":" in the tree.
Strip(pattern) ==
    LET path == Segments(pattern)
    IN [k \in DOMAIN path |-> IF path[k] \in ParamNames THEN ":" ELSE path[k]]

\* The walk of add() down a path, and the entry put in the node it ends at.
RECURSIVE AddBelow(_, _, _, _)
AddBelow(node, path, high, entry) ==
    IF path = <<>> THEN [node EXCEPT !.handlers = InsertEntry(@, entry)]
    ELSE LET children == GetNode(node.children, Head(path), high, FALSE)
             k == NodeIndex(children, Head(path), high)
         IN [node EXCEPT !.children =
                [children EXCEPT ![k] = AddBelow(@, Tail(path), high, entry)]]

MethodRank(method) ==
    CASE method = "GET" -> 0
      [] method = ANY -> Len(MethodOrder) + 1
      [] OTHER -> SelectInSeq(MethodOrder, LAMBDA m : m = method)

SortMethods(children) == SortSeq(children, LAMBDA a, b : MethodRank(a.name) < MethodRank(b.name))

\* findHandler: the entry of a pattern at a priority, as the set of at most one.
RECURSIVE FindBelow(_, _, _)
FindBelow(node, path, prio) ==
    IF path = <<>>
    THEN LET k == SelectInSeq(node.handlers, LAMBDA e : e.prio = prio)
         IN IF k = 0 THEN {} ELSE {node.handlers[k]}
    ELSE LET k == NodeIndex(node.children, Head(path), prio = HIGH)
         IN IF k = 0 THEN {} ELSE FindBelow(node.children[k], Tail(path), prio)

FindHandler(router, method, pattern, prio) ==
    LET k == NodeIndex(router.root, method, FALSE)
    IN IF k = 0 THEN {} ELSE FindBelow(router.root[k], Strip(pattern), prio)

\* cullNode's scan of a node: the entry goes, the ids above it move down by one.
LowerIds(entries, entry) ==
    LET kept == SelectSeq(entries, LAMBDA e : e # entry)
    IN [k \in DOMAIN kept |-> [kept[k] EXCEPT !.id = IF @ > entry.id THEN @ - 1 ELSE @]]

RECURSIVE CullNodes(_, _)
CullNodes(nodes, entry) ==
    SelectSeq([k \in DOMAIN nodes |->
                  [nodes[k] EXCEPT !.children = CullNodes(@, entry),
                                   !.handlers = LowerIds(@, entry)]],
              LAMBDA n : n.handlers # <<>> \/ n.children # <<>>)

\* remove(): every node without a handler or a child goes, the method nodes too.
RemoveRoute(router, method, pattern, prio) ==
    LET found == FindHandler(router, method, pattern, prio)
    IN IF found = {} THEN router
       ELSE LET entry == CHOOSE e \in found : TRUE
            IN [root |-> CullNodes(router.root, entry),
                handlers |-> RemoveAt(router.handlers, entry.id)]

\* add(), for the one method its callers give it.
AddTo(router, method, pattern, handler, prio) ==
    LET children == GetNode(router.root, method, FALSE, TRUE)
        k == NodeIndex(children, method, FALSE)
        entry == [prio |-> prio, id |-> Len(router.handlers) + 1]
    IN [root |-> SortMethods([children EXCEPT ![k] =
                                 AddBelow(@, Strip(pattern), prio = HIGH, entry)]),
        handlers |-> Append(router.handlers, handler)]

AddRoute(router, method, pattern, handler, prio) ==
    AddTo(RemoveRoute(router, method, pattern, prio), method, pattern, handler, prio)

\* A constructed router has the ANY node and nothing else.
NewRouter == [root |-> GetNode(<<>>, ANY, FALSE, TRUE), handlers |-> <<>>]

-----------------------------------------------------------------------------
\* Routing.  What a part of the search did: the handlers it ran with the
\* parameters they saw, and whether the last of them answered the request.

Nothing == [done |-> FALSE, ran |-> <<>>]

\* The parts of a search one after another, up to the first that answers.
UntilDone(parts) ==
    LET done == {k \in DOMAIN parts : parts[k].done}
        last == IF done = {} THEN Len(parts) ELSE Min(done)
    IN [done |-> done # {}, ran |-> FlattenSeq([k \in 1..last |-> parts[k].ran])]

\* The closure onHttp registers: the handler runs, with the router's parameters,
\* and has answered unless it yielded.  The one ws() registers yields a request
\* that carries no key.
Answers(handler, request) ==
    CASE handler.kind = "ws" -> request.key
      [] handler.kind = "yields" -> FALSE
      [] OTHER -> TRUE

\* onHttp's parameterOffsets: the position of a name among the pattern's parameters,
\* that of its last use.
ParameterOffsets(pattern) ==
    LET names == SelectSeq(pattern, LAMBDA s : s \in ParamNames)
    IN [name \in Range(names) |-> Max({k \in DOMAIN names : names[k] = name})]

\* HttpRequest::getParameter: nothing where the URL had fewer parameters.
GetParameter(params, k) == IF k <= Len(params) THEN params[k] ELSE ""

\* What getParameter gives the handler for each name of its pattern.
ParamsSeen(pattern, params) ==
    LET offsets == ParameterOffsets(pattern)
    IN [name \in DOMAIN offsets |-> GetParameter(params, offsets[name])]

RunEntries(router, entries, params, request) ==
    UntilDone([k \in DOMAIN entries |->
        IF entries[k].id \notin DOMAIN router.handlers
        THEN [done |-> TRUE, ran |-> <<[handler |-> NoHandler, params |-> <<>>]>>]
        ELSE LET handler == router.handlers[entries[k].id]
             IN [done |-> Answers(handler, request),
                 ran |-> <<[handler |-> handler,
                            params |-> ParamsSeen(handler.pattern, params)]>>]])

\* RouteParameters.  What was pushed for a child is popped when it has not answered.
PushParameter(params, segment) == Append(params, segment)

\* executeHandlers: the node's own handlers at the end of the URL, and before it
\* every child that fits the segment, in the order of the children.
RECURSIVE ExecuteHandlers(_, _, _, _, _)
ExecuteHandlers(router, node, url, params, request) ==
    IF url = <<>> THEN RunEntries(router, node.handlers, params, request)
    ELSE UntilDone([k \in DOMAIN node.children |->
        LET child == node.children[k]
        IN IF child.name \in WildNames
           THEN RunEntries(router, child.handlers, params, request)
           ELSE IF child.name \in ParamNames /\ Head(url) # ""
           THEN ExecuteHandlers(router, child, Tail(url), PushParameter(params, Head(url)), request)
           ELSE IF child.name = Head(url)
           THEN ExecuteHandlers(router, child, Tail(url), params, request)
           ELSE Nothing])

\* route(): the node of the method, then the last of the method nodes.
Route(router, request) ==
    LET k == NodeIndex(router.root, request.method, FALSE)
        search(node) == ExecuteHandlers(router, node, Segments(request.url), <<>>, request)
    IN UntilDone(<<IF k = 0 THEN Nothing ELSE search(router.root[k]),
                   IF router.root = <<>> THEN Nothing ELSE search(Last(router.root))>>)
=============================================================================
