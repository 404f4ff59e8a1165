----------------------------- MODULE MT4Manager -----------------------------
(***************************************************************************)
(* The MT4 manager (src/app/mt4_tick/MT4Manager.cpp and .h, Models.h): the  *)
(* last quote of every symbol that was subscribed to, in a SafeMap whose    *)
(* operations each hold its lock, and the pumping thread that brings it up  *)
(* to date.  The terminal behind the manager API is external.               *)
(*                                                                          *)
(* A tick is [sym, bid, lasttime]; its ask price is always above its bid    *)
(* and is left out.  Milliseconds and minutes are Second and Minute long.   *)
(* per_close is never set, and with it the branch for a new day never runs. *)
(***************************************************************************)
EXTENDS Integers, FiniteSets, SequencesExt

CONSTANTS Symbols,    \* the symbols clients ask for
          Traded,     \* those the terminal has
          Bids,       \* bid prices of a tick
          Second,     \* milliseconds of a second, in the code 1000
          Minute,     \* seconds of a minute, in the code 60
          MaxTicks    \* bound: ticks the terminal sends

ASSUME TimeAssumption == Second \in Nat \ {0} /\ Minute \in Nat \ {0}
ASSUME TickAssumption == Traded \subseteq Symbols /\ Bids \subseteq Nat \ {0}

VARIABLES subed_quotes, \* _subed_quotes: the last quote of each symbol it has
          terminal,     \* [added, ticks, sent, now]: the external MT4 terminal
          pump,         \* the pumping thread: [pc, batch, msc, quote, targets]
          accepted      \* history: the ticks each symbol's quote has to take

mvars == <<subed_quotes, terminal, pump, accepted>>

NoBar == [t |-> 0, o |-> 0, h |-> 0, l |-> 0, c |-> 0, v |-> 0]

LastQuote == [bid |-> 0, ctm |-> 0, lastm1 |-> NoBar, lastm1_p |-> NoBar]

IsVaild(quote) == quote.bid > 0

(* toString, as far as anything in it ever changes.                        *)
Formatted(quote) == [bid |-> quote.bid, ctm |-> quote.ctm]

MinuteOf(msc) == ((msc \div Second) \div Minute) * Minute

NewBar(quote, msc, bid) ==
    [quote EXCEPT !.lastm1_p = quote.lastm1,
                  !.lastm1 = [t |-> MinuteOf(msc), o |-> bid, h |-> bid, l |-> bid, c |-> bid, v |-> 1]]

SameBar(quote, bid) ==
    LET bar == quote.lastm1
    IN [quote EXCEPT !.lastm1 =
           [bar EXCEPT !.h = IF bar.h > 0 /\ bid > bar.h THEN bid ELSE bar.h,
                       !.l = IF bar.l > bid THEN bid ELSE bar.l,
                       !.c = bid, !.v = @ + 1]]

\* Mutant: a tick of the time of the last one is left out.
UpdateNewerOnly(quote, msc, bid) ==
    IF msc <= quote.ctm THEN quote
    ELSE LET barred == IF quote.lastm1.t <= 0 \/ MinuteOf(msc) # quote.lastm1.t
                       THEN NewBar(quote, msc, bid)
                       ELSE SameBar(quote, bid)
         IN [barred EXCEPT !.ctm = msc, !.bid = bid]

UpdateLastQuote(quote, msc, bid) ==
    IF msc < quote.ctm THEN quote
    ELSE LET barred == IF quote.lastm1.t <= 0 \/ MinuteOf(msc) # quote.lastm1.t
                       THEN NewBar(quote, msc, bid)
                       ELSE SameBar(quote, bid)
         IN [barred EXCEPT !.ctm = msc, !.bid = bid]

-----------------------------------------------------------------------------
(* SafeMap, each under its lock.                                           *)

ContainsKey(map, key) == key \in DOMAIN map
Insert(map, key, value) ==
    [k \in DOMAIN map \cup {key} |-> IF k \in DOMAIN map THEN map[k] ELSE value]

-----------------------------------------------------------------------------
CurrentTick == Head(pump.batch)

MInit ==
    /\ subed_quotes = <<>>
    /\ terminal = [added |-> {}, ticks |-> <<>>, sent |-> 0, now |-> Minute]
    /\ pump = [pc |-> "off", batch |-> <<>>, msc |-> 0, quote |-> LastQuote, targets |-> {}]
    /\ accepted = [sym \in Symbols |-> <<>>]

\* What managerInitLogin may return: 0, -1 where the factory is of no use, and
\* otherwise what Connect or Login said.
RET_OK == 0
ManagerInitLogin == {RET_OK, -1, 1}

\* PumpingSwitchEx: the terminal's thread calls back from here on, or it fails.
StartCallBackThread(ret) ==
    /\ pump' = IF ret = RET_OK THEN [pump EXCEPT !.pc = "idle"] ELSE pump
    /\ UNCHANGED <<subed_quotes, terminal, accepted>>

\* The terminal has a price for a symbol that was added.  Its clock, in seconds,
\* stands still or goes on.
Quoted(sym, bid, later) ==
    /\ sym \in terminal.added /\ terminal.sent < MaxTicks
    /\ terminal' = [terminal EXCEPT
           !.now = @ + later, !.sent = @ + 1,
           !.ticks = Append(@, [sym |-> sym, bid |-> bid, lasttime |-> terminal.now + later])]
    /\ UNCHANGED <<subed_quotes, pump, accepted>>

\* The loop of PUMP_UPDATE_BIDASK: SymbolInfoUpdated for as long as there is one.
SymbolInfoUpdated ==
    /\ pump.pc = "idle" /\ terminal.ticks # <<>>
    /\ terminal' = [terminal EXCEPT !.ticks = <<>>]
    /\ pump' = [pump EXCEPT !.pc = "tick", !.batch = terminal.ticks]
    /\ UNCHANGED <<subed_quotes, accepted>>

\* OnTick returns, and the next of the batch is due.
Done(p) ==
    [p EXCEPT !.batch = Tail(@), !.quote = LastQuote, !.targets = {}, !.msc = 0,
              !.pc = IF Len(p.batch) = 1 THEN "idle" ELSE "tick"]

\* A symbol that nobody subscribed to, or whose quote is not there yet, is skipped.
\* The milliseconds are those of the machine's clock, the seconds the terminal's.
OnTick(ms) ==
    /\ pump.pc = "tick"
    /\ IF ContainsKey(subed_quotes, CurrentTick.sym)
       THEN pump' = [pump EXCEPT !.pc = "update", !.msc = CurrentTick.lasttime * Second + ms]
       ELSE pump' = Done(pump)
    /\ UNCHANGED <<subed_quotes, terminal, accepted>>

\* A tick may be left out for the milliseconds only, when they put it before the last
\* one, which has the same second.
LeftOut(taken) ==
    /\ taken # <<>>
    /\ Last(taken).msc \div Second = CurrentTick.lasttime
    /\ pump.msc < Last(taken).msc

\* The quote is brought up to date in place, under the write lock.
UpdateQuote ==
    /\ pump.pc = "update"
    /\ subed_quotes' = [subed_quotes EXCEPT ![CurrentTick.sym] = UpdateLastQuote(@, pump.msc, CurrentTick.bid)]
    /\ accepted' = [accepted EXCEPT ![CurrentTick.sym] =
           IF LeftOut(@) THEN @
           ELSE Append(@, [msc |-> pump.msc, bid |-> CurrentTick.bid])]
    /\ pump' = [pump EXCEPT !.pc = "snapshot"]
    /\ UNCHANGED terminal

\* Mutant: the tick is sent in place of the quote it was to update.
SnapshotOfTick ==
    /\ pump.pc = "snapshot"
    /\ pump' = [pump EXCEPT !.pc = "callback",
                            !.quote = [LastQuote EXCEPT !.bid = CurrentTick.bid, !.ctm = pump.msc]]
    /\ UNCHANGED <<subed_quotes, terminal, accepted>>

\* A snapshot of the quote as it is now goes to _quote_cb.
Snapshot ==
    /\ pump.pc = "snapshot"
    /\ pump' = [pump EXCEPT !.pc = "callback", !.quote = subed_quotes[CurrentTick.sym]]
    /\ UNCHANGED <<subed_quotes, terminal, accepted>>

PumpStep == SymbolInfoUpdated \/ (\E ms \in 0..(Second - 1) : OnTick(ms)) \/ UpdateQuote \/ Snapshot
=============================================================================
