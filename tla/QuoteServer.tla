---------------------------- MODULE QuoteServer -----------------------------
(***************************************************************************)
(* The quote servers on the MT4 manager: main_quote.cpp, of which           *)
(* main_quote-publish.cpp is a copy, subscribes each client to a topic and  *)
(* publishes; main_quote-point.cpp keeps the sockets of each symbol in an   *)
(* index with a lock of its own.                                            *)
(*                                                                          *)
(* Two threads: the pumping thread of MT4Manager, which defers to the loop, *)
(* and the loop's, which handles one message or deferred callback after the *)
(* other.  Each takes one step per lock it takes.  A socket is its address, *)
(* which a later connection may get again.  The loginid of a connection is  *)
(* never set: it has no session in uid_session_map and no price difference. *)
(* A client takes what it is sent: none is over its backpressure limit.     *)
(***************************************************************************)
EXTENDS MT4Manager

CONSTANTS Sockets,
          Programs,     \* of {"publish", "point"}
          Lists,        \* what may follow "sub:", as a sequence of characters
          MaxOpens,     \* bound: connections accepted
          AddressReused \* whether an address comes back while a copy of the index has it

VARIABLES program,      \* the program that runs
          main,         \* how far it is: "start", "login", "running" or "exited"
          conn,         \* of each socket: [open, sublist]
          index,        \* topics, or symbol_subscribers: the sockets of a symbol
          deferred,     \* what the pumping thread has deferred to the loop
          job,          \* the "sub:" message being handled
          opens,        \* connections accepted so far
          got,          \* what each client was last sent of each symbol
          asked         \* history: the symbols a connection's messages asked for

qvars == <<program, main, conn, index, deferred, job, opens, got, asked>>
vars == <<mvars, qvars>>

NoQuote == [bid |-> 0, ctm |-> 0]
Closed == [open |-> FALSE, sublist |-> {}]
NoSubscribers == [sym \in Symbols |-> {}]
NoJob == [pc |-> "none", ws |-> "", todo |-> <<>>, calls |-> 0]

(* The parts of a string between separators, without the empty ones.       *)
StringSplite(src, e) ==
    LET ends == SetToSortSeq({i \in DOMAIN src : src[i] = e} \cup {0, Len(src) + 1}, <)
    IN SelectSeq([k \in 1..(Len(ends) - 1) |-> SubSeq(src, ends[k] + 1, ends[k + 1] - 1)],
                 LAMBDA part : part # <<>>)

\* The symbols of a list, "a;b" or else "a,b", in the order of the std::set.
SymbolsOf(list) ==
    LET parts == StringSplite(list, ";")
        names == Range(IF Len(parts) = 1 THEN StringSplite(parts[1], ",") ELSE parts)
    IN SetToSeq({name[1] : name \in names})

Send(ws, sym, quote) == [got EXCEPT ![ws][sym] = Formatted(quote)]

-----------------------------------------------------------------------------
Init ==
    /\ MInit
    /\ program \in Programs /\ main = "start"
    /\ conn = [ws \in Sockets |-> Closed]
    /\ index = NoSubscribers
    /\ deferred = <<>> /\ job = NoJob /\ opens = 0
    /\ got = [ws \in Sockets |-> [sym \in Symbols |-> NoQuote]]
    /\ asked = [ws \in Sockets |-> {}]

\* main gives up on any other result than success.
LogIn ==
    /\ main = "start"
    /\ \E ret \in ManagerInitLogin : main' = IF ret = RET_OK THEN "login" ELSE "exited"
    /\ UNCHANGED <<mvars, program, conn, index, deferred, job, opens, got, asked>>

\* _quote_cb and g_uwsLoop are set before the pumping thread is started.
StartPumping ==
    /\ main = "login"
    /\ \E ret \in {RET_OK, 1} :
           StartCallBackThread(ret) /\ main' = IF ret = RET_OK THEN "running" ELSE "exited"
    /\ UNCHANGED <<program, conn, index, deferred, job, opens, got, asked>>

\* app.run(): one callback after the other.
LoopIdle == main = "running" /\ job = NoJob

\* The open handler: nothing is subscribed yet, and without a loginid there is no session.
Opened == [open |-> TRUE, sublist |-> {}]

\* The address of a closed socket is free for the next connection.
Open(ws) ==
    /\ LoopIdle /\ opens < MaxOpens /\ ~conn[ws].open
    /\ AddressReused \/ ws \notin UNION ({pump.targets} \cup {d.targets : d \in Range(deferred)})
    /\ conn' = [conn EXCEPT ![ws] = Opened]
    /\ opens' = opens + 1
    /\ UNCHANGED <<mvars, program, main, index, deferred, job, got, asked>>

\* The close handler.  uWS takes the socket out of its topics,
\* remove_ws_from_symbol_index out of the index.
Close(ws) ==
    /\ conn' = [conn EXCEPT ![ws] = Closed]
    /\ got' = [got EXCEPT ![ws] = [sym \in Symbols |-> NoQuote]]
    /\ index' = [sym \in Symbols |-> index[sym] \ {ws}]
    /\ asked' = [asked EXCEPT ![ws] = {}]

\* The peer closes, or has sent one message of no known kind too many.
Closes(ws) ==
    /\ LoopIdle /\ conn[ws].open
    /\ Close(ws)
    /\ UNCHANGED <<mvars, program, main, deferred, job, opens>>

\* The symbols of a "sub:" message are handled one after the other.
SubJob(ws, list) == [pc |-> "next", ws |-> ws, todo |-> SymbolsOf(list), calls |-> 0]

\* A message of subscriptions.  "ping", "auth:", "margin:" and "cmd:" and anything
\* of four bytes change nothing that is modelled.
Sub(ws, list) ==
    /\ LoopIdle /\ conn[ws].open /\ SymbolsOf(list) # <<>>
    /\ job' = SubJob(ws, list)
    /\ asked' = [asked EXCEPT ![ws] = @ \cup Range(SymbolsOf(list))]
    /\ UNCHANGED <<mvars, program, main, conn, index, deferred, opens, got>>

\* ws->subscribe, or the place in symbol_subscribers: a socket is in either once.
Subscribed(ws, sym) == [index EXCEPT ![sym] = @ \cup {ws}]

\* A symbol that is new to the client: sublist, and the topic or the index; the
\* program that publishes calls SubSymbolAndLast once more for it.
NextSymbol ==
    /\ job.pc = "next"
    /\ \E sym \in {Head(job.todo)} :
           /\ conn' = [conn EXCEPT ![job.ws].sublist = @ \cup {sym}]
           /\ index' = Subscribed(job.ws, sym)
           /\ job' = [job EXCEPT !.pc = "find",
                  !.calls = IF program = "publish" /\ sym \notin conn[job.ws].sublist THEN 2 ELSE 1]
    /\ UNCHANGED <<mvars, program, main, deferred, opens, got, asked>>

\* SubSymbolAndLast returns a quote; the last one is sent if there are prices in it.
Returned(quote) ==
    IF job.calls > 1 THEN job' = [job EXCEPT !.pc = "find", !.calls = @ - 1] /\ UNCHANGED got
    ELSE /\ job' = IF Len(job.todo) = 1 THEN NoJob
                   ELSE [job EXCEPT !.pc = "next", !.todo = Tail(@), !.calls = 0]
         /\ got' = IF IsVaild(quote) THEN Send(job.ws, Head(job.todo), quote) ELSE got

FindQuote ==
    /\ job.pc = "find"
    /\ IF ContainsKey(subed_quotes, Head(job.todo)) THEN Returned(subed_quotes[Head(job.todo)])
       ELSE job' = [job EXCEPT !.pc = "add"] /\ UNCHANGED got
    /\ UNCHANGED <<mvars, program, main, conn, index, deferred, opens, asked>>

\* Mutant: the rest of the list is given up.
SymbolRefusedLast ==
    /\ job.pc = "add"
    /\ job' = NoJob
    /\ UNCHANGED <<mvars, program, main, conn, index, deferred, opens, got, asked>>

\* SymbolAdd fails, always for a symbol the terminal does not have.
SymbolRefused ==
    /\ job.pc = "add"
    /\ Returned(LastQuote)
    /\ UNCHANGED <<mvars, program, main, conn, index, deferred, opens, asked>>

\* From here on the terminal sends ticks of the symbol.
SymbolAdd ==
    /\ job.pc = "add" /\ Head(job.todo) \in Traded
    /\ terminal' = [terminal EXCEPT !.added = @ \cup {Head(job.todo)}]
    /\ job' = [job EXCEPT !.pc = "insert"]
    /\ UNCHANGED <<subed_quotes, pump, accepted, program, main, conn, index, deferred, opens, got, asked>>

InsertQuote ==
    /\ job.pc = "insert"
    /\ subed_quotes' = Insert(subed_quotes, Head(job.todo), LastQuote)
    /\ Returned(LastQuote)
    /\ UNCHANGED <<terminal, pump, accepted, program, main, conn, index, deferred, opens, asked>>

Deferring(targets) ==
    /\ deferred' = Append(deferred, [sym |-> CurrentTick.sym, quote |-> pump.quote, targets |-> targets])
    /\ pump' = Done(pump)

\* _quote_cb in the pumping thread.  The program with the index takes a copy of the
\* symbol's sockets first, and does not defer if there are none.
QuoteCb ==
    /\ pump.pc = "callback"
    /\ IF program = "publish" THEN Deferring({})
       ELSE /\ pump' = IF index[CurrentTick.sym] = {} THEN Done(pump)
                       ELSE [pump EXCEPT !.pc = "defer", !.targets = index[CurrentTick.sym]]
            /\ UNCHANGED deferred
    /\ UNCHANGED <<subed_quotes, terminal, accepted, program, main, conn, index, job, opens, got, asked>>

Defer ==
    /\ pump.pc = "defer"
    /\ Deferring(pump.targets)
    /\ UNCHANGED <<subed_quotes, terminal, accepted, program, main, conn, index, job, opens, got, asked>>

\* app.publish: everyone who is subscribed to the topic by now.
Published(sym) == index[sym]

\* Mutant: the sockets of the copy are not looked up again.
ReceiversUnchecked(d) == IF program = "publish" THEN Published(d.sym) ELSE d.targets

\* Whom a deferred callback sends to: the topic's subscribers, or those of the copy
\* that are still in the index ("live_ws").
Receivers(d) == IF program = "publish" THEN Published(d.sym) ELSE d.targets \cap index[d.sym]

RunDeferred ==
    /\ LoopIdle /\ deferred # <<>>
    /\ \E d \in {Head(deferred)} :
           got' = [ws \in Sockets |->
               IF ws \in Receivers(d) THEN [got[ws] EXCEPT ![d.sym] = Formatted(d.quote)] ELSE got[ws]]
    /\ deferred' = Tail(deferred)
    /\ UNCHANGED <<mvars, program, main, conn, index, job, opens, asked>>

JobStep ==
    NextSymbol \/ FindQuote \/ SymbolRefused \/ SymbolAdd \/ InsertQuote
Pump == (PumpStep /\ UNCHANGED qvars) \/ QuoteCb \/ Defer

Next ==
    \/ LogIn \/ StartPumping
    \/ \E ws \in Sockets : Open(ws) \/ Closes(ws) \/ (\E list \in Lists : Sub(ws, list))
    \/ JobStep
    \/ RunDeferred
    \/ Pump
    \/ \E sym \in Symbols, bid \in Bids, later \in 0..1 : Quoted(sym, bid, later) /\ UNCHANGED qvars

Spec == Init /\ [][Next]_vars

\* A message is handled to its end, each iteration of the loop runs what was deferred
\* before it whatever else is ready, and the pumping thread goes on.
FairSpec == Spec /\ WF_vars(JobStep) /\ SF_vars(RunDeferred) /\ WF_vars(Pump)
-----------------------------------------------------------------------------
\* A quote goes to connections that asked for its symbol and are still there,
\* whatever was deferred for an earlier connection (the check that a ws is alive), and
\* the index by symbol stays in step with the lists of the connections (the message and
\* close handlers).
OnlySubscribers ==
    \A ws \in Sockets, sym \in Symbols :
        /\ got[ws][sym] # NoQuote => conn[ws].open /\ sym \in conn[ws].sublist
        /\ ws \in index[sym] <=> conn[ws].open /\ sym \in conn[ws].sublist

\* A client that asked for a symbol and is not subscribed to it or has not got the quote
\* that is stored.
Behind(ws, sym) ==
    /\ sym \in asked[ws]
    /\ \/ ws \notin index[sym]
       \/ /\ ContainsKey(subed_quotes, sym) /\ IsVaild(subed_quotes[sym])
          /\ got[ws][sym] # Formatted(subed_quotes[sym])

Settled ==
    LoopIdle /\ deferred = <<>> /\ pump.pc = "idle" /\ terminal.ticks = <<>>

\* When nothing is under way, whoever asked is subscribed and has the quote that is stored,
\* however its subscription was interleaved with the ticks of the pumping thread.
Converges == Settled => \A ws \in Sockets, sym \in Symbols : ~Behind(ws, sym)

\* The minute's bar is the first, highest, lowest and last price of the ticks of that
\* minute, and their number, but for ticks that the milliseconds put before the last one
\* of their second (UpdateLastQuote).
BarExact ==
    \A sym \in DOMAIN subed_quotes :
        LET taken == accepted[sym]
            minute == {k \in DOMAIN taken : MinuteOf(taken[k].msc) = MinuteOf(Last(taken).msc)}
            bids == {taken[k].bid : k \in minute}
            bar == subed_quotes[sym].lastm1
        IN IF taken = <<>> THEN bar = NoBar
           ELSE bar = [t |-> MinuteOf(Last(taken).msc), o |-> taken[Min(minute)].bid,
                       h |-> Max(bids), l |-> Min(bids), c |-> taken[Max(minute)].bid,
                       v |-> Cardinality(minute)]

\* A client that asked for a symbol is subscribed and gets the stored quote in the end, or
\* goes (the pumping thread and the loop make progress, nothing deferred is dropped, and
\* a symbol that is refused does not take the rest of its list with it).
Delivered == \A ws \in Sockets, sym \in Symbols : []<>~Behind(ws, sym)

=============================================================================
