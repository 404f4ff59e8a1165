------------------------- MODULE QuoteServerProofs -------------------------
(***************************************************************************)
(* Proofs about QuoteServer, for any number of clients, symbols and ticks, *)
(* whatever the lists the clients send.                                    *)
(***************************************************************************)
EXTENDS QuoteServer, FiniteSetTheorems, TLAPS

-----------------------------------------------------------------------------
(* Minutes and bars.                                                       *)

(* A later time of the clock is in no earlier minute.                      *)
LEMMA MinutesGrow ==
    ASSUME NEW m \in Nat, NEW n \in Nat, m <= n
    PROVE  MinuteOf(m) \in Nat /\ MinuteOf(m) <= MinuteOf(n)
<1> DEFINE a == m \div Second
           b == n \div Second
           c == a \div Minute
           d == b \div Minute
<1>1. Second \in Nat \ {0} /\ Minute \in Nat \ {0}
  BY TimeAssumption
<1>2. a \in Nat /\ b \in Nat /\ a <= b
  BY <1>1
<1> HIDE DEF a, b
<1>3. c \in Nat /\ d \in Nat /\ c <= d
  BY <1>1, <1>2
<1> HIDE DEF c, d
<1>4. c * Minute \in Nat /\ c * Minute <= d * Minute
  BY <1>1, <1>3
<1> QED
  BY <1>4 DEF MinuteOf, a, b, c, d

(* The time of a tick is in no minute 0, as the terminal's clock is not.   *)
LEMMA TickMinute ==
    ASSUME NEW t \in Nat, t >= Minute, NEW ms \in 0..(Second - 1)
    PROVE  t * Second + ms \in Nat /\ MinuteOf(t * Second + ms) > 0
<1> DEFINE n == t * Second + ms
           a == n \div Second
           c == a \div Minute
<1>1. Second \in Nat \ {0} /\ Minute \in Nat \ {0}
  BY TimeAssumption
<1>2. n \in Nat /\ a = t
  BY <1>1
<1> HIDE DEF n, a
<1>3. c \in Nat /\ c >= 1
  BY <1>1, <1>2
<1> HIDE DEF c
<1>4. c * Minute > 0
  BY <1>1, <1>3
<1> QED
  BY <1>2, <1>4 DEF MinuteOf, n, a, c

Times == {t \in Nat : t >= Minute}
Ticks == [sym : Symbols, bid : Bids, lasttime : Times]
Bars == [t : Nat, o : Nat, h : Nat, l : Nat, c : Nat, v : Nat]
Quotes == [bid : Nat, ctm : Nat, lastm1 : Bars, lastm1_p : Bars]
Taken == [msc : Nat, bid : Bids]

(* The ticks of the minute of the last one.                                *)
Recent(taken) == {k \in DOMAIN taken : MinuteOf(taken[k].msc) = MinuteOf(Last(taken).msc)}

(* A quote has the time of the last tick it took, which is of no earlier   *)
(* minute than the others, and its bar is that of the last one's minute:   *)
(* the property with its minimum and maximum taken apart.                  *)
Barred(quote, taken) ==
    LET bar == quote.lastm1
    IN  IF taken = <<>> THEN quote.ctm = 0 /\ bar = NoBar
        ELSE /\ quote.ctm = Last(taken).msc /\ MinuteOf(quote.ctm) > 0
             /\ \A k \in DOMAIN taken : taken[k].msc <= quote.ctm
             /\ bar.t = MinuteOf(quote.ctm)
             /\ \E k \in Recent(taken) :
                   bar.o = taken[k].bid /\ \A j \in Recent(taken) : k <= j
             /\ \E k \in Recent(taken) : bar.h = taken[k].bid
             /\ \E k \in Recent(taken) : bar.l = taken[k].bid
             /\ \A k \in Recent(taken) : bar.l <= taken[k].bid /\ taken[k].bid <= bar.h
             /\ bar.c = Last(taken).bid /\ bar.v = Cardinality(Recent(taken))

(* The ticks with one more behind them.                                    *)
LEMMA OneMore ==
    ASSUME NEW taken \in Seq(Taken), NEW tick \in Taken
    PROVE  LET more == Append(taken, tick)
               n == Len(taken)
           IN  /\ n \in Nat /\ DOMAIN taken = 1..n /\ more \in Seq(Taken)
               /\ DOMAIN more = 1..(n + 1) /\ Len(more) = n + 1
               /\ more[n + 1] = tick /\ Last(more) = tick /\ more # <<>>
               /\ \A k \in 1..n : more[k] = taken[k] /\ taken[k] \in Taken
<1> DEFINE more == Append(taken, tick)
           n == Len(taken)
<1>1. /\ n \in Nat /\ DOMAIN taken = 1..n /\ more \in Seq(Taken) /\ Len(more) = n + 1
      /\ more[n + 1] = tick /\ DOMAIN more = 1..Len(more)
  OBVIOUS
<1>2. \A k \in 1..n : more[k] = taken[k] /\ taken[k] \in Taken
  OBVIOUS
<1>3. more # <<>>
  OBVIOUS
<1> HIDE DEF more, n
<1> QED
  BY <1>1, <1>2, <1>3 DEF Last, more, n

(* The first tick of a minute makes a bar of its own.                      *)
LEMMA NewMinute ==
    ASSUME NEW q \in Quotes, NEW taken \in Seq(Taken), Barred(q, taken),
           NEW msc \in Nat, NEW bid \in Bids, ~(msc < q.ctm), MinuteOf(msc) > 0,
           q.lastm1.t <= 0 \/ MinuteOf(msc) # q.lastm1.t
    PROVE  /\ UpdateLastQuote(q, msc, bid) \in Quotes
           /\ Barred(UpdateLastQuote(q, msc, bid), Append(taken, [msc |-> msc, bid |-> bid]))
<1> DEFINE tick == [msc |-> msc, bid |-> bid]
           more == Append(taken, tick)
           n == Len(taken)
           minute == MinuteOf(msc)
           bar == [t |-> minute, o |-> bid, h |-> bid, l |-> bid, c |-> bid, v |-> 1]
           u == UpdateLastQuote(q, msc, bid)
<1>1. bid \in Nat /\ minute \in Nat /\ minute > 0
  BY TickAssumption, MinutesGrow
<1>2. /\ n \in Nat /\ DOMAIN taken = 1..n /\ DOMAIN more = 1..(n + 1) /\ Len(more) = n + 1
      /\ more[n + 1] = tick /\ \A k \in 1..n : more[k] = taken[k] /\ taken[k] \in Taken
      /\ more # <<>> /\ Last(more) = tick
  <2>1. tick \in Taken
    BY DEF Taken
  <2> HIDE DEF tick
  <2> QED
    BY <2>1, OneMore
<1>3. u = [q EXCEPT !.lastm1_p = q.lastm1, !.lastm1 = bar, !.ctm = msc, !.bid = bid]
  BY DEF UpdateLastQuote, NewBar, Quotes
<1> HIDE DEF minute
<1>4. bar \in Bars
  BY <1>1 DEF Bars
<1> HIDE DEF bar
<1>5. u \in Quotes /\ u.lastm1 = bar /\ u.ctm = msc
  BY <1>1, <1>3, <1>4 DEF Quotes
<1> HIDE DEF u
<1>6. ASSUME NEW k \in 1..n
      PROVE  MinuteOf(more[k].msc) # minute /\ more[k].msc <= msc
  <2>1. /\ more[k] = taken[k] /\ taken[k].msc \in Nat /\ q.ctm \in Nat /\ q.lastm1.t \in Nat
        /\ taken # <<>>
    <3>1. taken[k] \in Taken /\ more[k] = taken[k]
      BY <1>2
    <3>2. taken # <<>>
      BY <1>2
    <3> HIDE DEF more
    <3> QED
      BY <3>1, <3>2 DEF Taken, Quotes, Bars
  <2>2. /\ taken[k].msc <= q.ctm /\ q.lastm1.t = MinuteOf(q.ctm) /\ MinuteOf(q.ctm) > 0
    BY <1>2, <2>1 DEF Barred
  <2>3. /\ MinuteOf(taken[k].msc) \in Nat /\ MinuteOf(q.ctm) \in Nat
        /\ MinuteOf(taken[k].msc) <= MinuteOf(q.ctm) /\ MinuteOf(q.ctm) <= minute
    <3>1. MinuteOf(taken[k].msc) \in Nat /\ MinuteOf(taken[k].msc) <= MinuteOf(q.ctm)
      <4> HIDE DEF more
      <4> QED
        BY ONLY <2>1, <2>2, MinutesGrow
    <3>2. q.ctm <= msc
      <4> HIDE DEF more
      <4> QED
        BY <2>1
    <3>3. MinuteOf(q.ctm) \in Nat /\ MinuteOf(q.ctm) <= MinuteOf(msc)
      BY ONLY <2>1, <3>2, msc \in Nat, MinutesGrow
    <3> QED
      BY ONLY <3>1, <3>3 DEF minute
  <2>4. MinuteOf(q.ctm) # minute
    BY <2>2, <2>3 DEF minute
  <2> QED
    BY <1>1, <2>1, <2>2, <2>3, <2>4
<1>7. Recent(more) = {n + 1}
  BY <1>2, <1>6 DEF Recent, minute
<1>8. Cardinality(Recent(more)) = 1
  BY <1>7, FS_Singleton
<1>9. \A k \in DOMAIN more : more[k].msc <= msc
  BY <1>2, <1>6
<1>10. /\ bar.t = minute /\ bar.o = bid /\ bar.h = bid /\ bar.l = bid /\ bar.c = bid
       /\ bar.v = 1
  BY DEF bar
<1> HIDE DEF more
<1>11. Barred(u, more)
  BY <1>1, <1>2, <1>5, <1>7, <1>8, <1>9, <1>10 DEF Barred, minute
<1> QED
  BY <1>5, <1>11 DEF u, more

(* A bar that has the time and the first price of another one.            *)
IsBar(e, b, h, l, c, v) ==
    e \in Bars /\ e.t = b.t /\ e.o = b.o /\ e.h = h /\ e.l = l /\ e.c = c /\ e.v = v

(* A bar with all but its time and its first price replaced.               *)
LEMMA BarChanged ==
    ASSUME NEW b \in Bars, NEW h \in Nat, NEW l \in Nat, NEW c \in Nat, NEW v \in Nat
    PROVE  IsBar([b EXCEPT !.h = h, !.l = l, !.c = c, !.v = v], b, h, l, c, v)
BY DEF Bars, IsBar

(* A further tick of the minute is added to the bar.                       *)
LEMMA SameMinute ==
    ASSUME NEW q \in Quotes, NEW taken \in Seq(Taken), Barred(q, taken),
           NEW msc \in Nat, NEW bid \in Bids, ~(msc < q.ctm), MinuteOf(msc) > 0,
           ~(q.lastm1.t <= 0 \/ MinuteOf(msc) # q.lastm1.t)
    PROVE  /\ UpdateLastQuote(q, msc, bid) \in Quotes
           /\ Barred(UpdateLastQuote(q, msc, bid), Append(taken, [msc |-> msc, bid |-> bid]))
<1> DEFINE tick == [msc |-> msc, bid |-> bid]
           more == Append(taken, tick)
           n == Len(taken)
           minute == MinuteOf(msc)
           old == q.lastm1
           high == IF old.h > 0 /\ bid > old.h THEN bid ELSE old.h
           low == IF old.l > bid THEN bid ELSE old.l
           bar == [old EXCEPT !.h = high, !.l = low, !.c = bid, !.v = old.v + 1]
           u == UpdateLastQuote(q, msc, bid)
<1>1. bid \in Nat /\ bid > 0 /\ minute \in Nat /\ old \in Bars
  BY TickAssumption, MinutesGrow DEF Quotes
<1>2. /\ n \in Nat /\ DOMAIN taken = 1..n /\ DOMAIN more = 1..(n + 1) /\ Len(more) = n + 1
      /\ more[n + 1] = tick /\ \A k \in 1..n : more[k] = taken[k] /\ taken[k] \in Taken
      /\ more # <<>> /\ Last(more) = tick
  <2>1. tick \in Taken
    BY DEF Taken
  <2> HIDE DEF tick
  <2> QED
    BY <2>1, OneMore
<1>3. u = [q EXCEPT !.lastm1 = bar, !.ctm = msc, !.bid = bid]
  BY DEF UpdateLastQuote, SameBar, Quotes
<1>4. /\ old.t \in Nat /\ old.o \in Nat /\ old.h \in Nat /\ old.l \in Nat /\ old.v \in Nat
      /\ high \in Nat /\ low \in Nat
  BY <1>1 DEF Bars
<1> HIDE DEF high, low
<1>5. /\ bar \in Bars /\ bar.t = old.t /\ bar.o = old.o /\ bar.h = high /\ bar.l = low
      /\ bar.c = bid /\ bar.v = old.v + 1
  <2> DEFINE v == old.v + 1
  <2>1. v \in Nat
    BY <1>4
  <2> HIDE DEF v, old
  <2> DEFINE e == [old EXCEPT !.h = high, !.l = low, !.c = bid, !.v = v]
  <2>2. IsBar(e, old, high, low, bid, v)
    BY <1>1, <1>4, <2>1, BarChanged
  <2>3. bar = e
    BY DEF v
  <2> HIDE DEF e, bar
  <2> QED
    BY <2>2, <2>3 DEF v, IsBar
<1> HIDE DEF bar, old
<1>6. u \in Quotes /\ u.lastm1 = bar /\ u.ctm = msc
  BY <1>1, <1>3, <1>5 DEF Quotes
<1> HIDE DEF u
<1>7. taken # <<>> /\ old.t = minute
  <2>1. taken # <<>>
    BY DEF Barred, NoBar
  <2> QED
    BY <2>1, <1>4 DEF old, minute
<1>8. /\ q.ctm = Last(taken).msc /\ MinuteOf(q.ctm) = minute /\ q.ctm \in Nat
      /\ \A k \in DOMAIN taken : taken[k].msc <= q.ctm
      /\ \E k \in Recent(taken) : old.o = taken[k].bid /\ \A j \in Recent(taken) : k <= j
      /\ \E k \in Recent(taken) : old.h = taken[k].bid
      /\ \E k \in Recent(taken) : old.l = taken[k].bid
      /\ \A k \in Recent(taken) : old.l <= taken[k].bid /\ taken[k].bid <= old.h
      /\ old.v = Cardinality(Recent(taken))
  BY <1>7 DEF Barred, old, Quotes
<1> DEFINE r == Recent(taken)
           s == Recent(more)
<1>9. r \subseteq 1..n /\ s = r \cup {n + 1}
  <2>1. r \subseteq 1..n
    BY <1>2 DEF Recent
  <2>2. \A k \in 1..n : k \in s <=> k \in r
    BY <1>2, <1>8 DEF Recent, minute
  <2>3. n + 1 \in s /\ s \subseteq 1..(n + 1)
    BY <1>2 DEF Recent
  <2>4. 1..(n + 1) = (1..n) \cup {n + 1}
    BY <1>2
  <2> HIDE DEF r, s, n
  <2> QED
    BY <2>1, <2>2, <2>3, <2>4
<1>10. Cardinality(s) = old.v + 1
  <2>1. IsFiniteSet(1..n)
    BY <1>2, FS_Interval
  <2>2. IsFiniteSet(r) /\ n + 1 \notin r
    BY <1>2, <1>9, <2>1, FS_Subset
  <2> HIDE DEF r, s
  <2>3. Cardinality(r \cup {n + 1}) = Cardinality(r) + 1
    BY <2>2, FS_AddElement
  <2> QED
    BY <1>8, <1>9, <2>3 DEF r
<1>11. \A k \in DOMAIN more : more[k].msc <= msc
  <2>1. \A k \in 1..n : more[k].msc \in Nat /\ more[k].msc <= q.ctm
    BY <1>2, <1>8 DEF Taken
  <2> QED
    BY <1>2, <1>8, <2>1
<1>12. \A k \in r : more[k].bid = taken[k].bid /\ taken[k].bid \in Nat
  BY <1>2, <1>9, TickAssumption DEF Taken
<1> HIDE DEF r, s, more
<1>13. \E k \in s : bar.o = more[k].bid /\ \A j \in s : k <= j
  BY <1>2, <1>5, <1>8, <1>9, <1>12 DEF r
<1>14. old.h > 0
  <2>1. PICK k \in r : old.h = taken[k].bid
    BY <1>8 DEF r
  <2>2. taken[k] \in Taken
    BY <1>2, <1>9, <2>1
  <2>3. taken[k].bid \in Bids
    BY <2>2 DEF Taken
  <2>4. taken[k].bid \in Nat \ {0}
    BY <2>3, TickAssumption
  <2> QED
    BY <2>1, <2>4
<1>15. \E k \in s : bar.h = more[k].bid
  BY <1>2, <1>5, <1>8, <1>9, <1>12, <1>14 DEF r, high
<1>16. \E k \in s : bar.l = more[k].bid
  BY <1>2, <1>5, <1>8, <1>9, <1>12 DEF r, low
<1>17. ASSUME NEW k \in s
       PROVE  bar.l <= more[k].bid /\ more[k].bid <= bar.h
  <2>1. CASE k = n + 1
    BY <1>1, <1>2, <1>4, <1>5, <1>14, <2>1 DEF high, low
  <2>2. CASE k \in r
    <3>1. more[k].bid = taken[k].bid /\ taken[k].bid \in Nat
      BY <1>12, <2>2
    <3>2. old.l <= taken[k].bid /\ taken[k].bid <= old.h
      BY <1>8, <2>2 DEF r
    <3>3. low <= old.l /\ old.h <= high
      BY <1>1, <1>4, <1>14 DEF high, low
    <3> QED
      BY <1>4, <1>5, <3>1, <3>2, <3>3
  <2> QED
    BY <1>9, <2>1, <2>2
<1>18. Barred(u, more)
  <2>1. Last(more).msc = msc /\ Last(more).bid = bid /\ minute = MinuteOf(msc) /\ minute > 0
    BY <1>2
  <2> HIDE DEF minute
  <2> QED
    BY <1>2, <1>5, <1>6, <1>7, <1>10, <1>11, <1>13, <1>15, <1>16, <1>17, <2>1 DEF Barred, s
<1> QED
  BY <1>6, <1>18 DEF u, more

(* UpdateLastQuote keeps the bar that of the ticks it took: one that is    *)
(* older than the quote changes neither.                                   *)
LEMMA BarUpdated ==
    ASSUME NEW q \in Quotes, NEW taken \in Seq(Taken), Barred(q, taken),
           NEW msc \in Nat, NEW bid \in Bids, MinuteOf(msc) > 0
    PROVE  LET u == UpdateLastQuote(q, msc, bid)
               more == IF msc < q.ctm THEN taken
                       ELSE Append(taken, [msc |-> msc, bid |-> bid])
           IN  u \in Quotes /\ Barred(u, more)
<1>1. CASE msc < q.ctm
  BY <1>1 DEF UpdateLastQuote
<1>2. CASE ~(msc < q.ctm)
  BY <1>2, NewMinute, SameMinute
<1> QED
  BY <1>1, <1>2

-----------------------------------------------------------------------------
(* The inductive invariant.                                                *)

Jobs == {"none", "next", "find", "add", "insert"}
Working == {"tick", "update", "snapshot", "callback", "defer"}
Prices == [bid : Nat, ctm : Nat]

(* The pumping thread has a tick in hand while it works; a quote that it   *)
(* looked up stays in the map.                                             *)
PumpInv ==
    /\ terminal \in [added : SUBSET Symbols, ticks : Seq(Ticks), sent : Nat, now : Times]
    /\ pump \in [pc : Working \cup {"off", "idle"}, batch : Seq(Ticks), msc : Nat,
                 quote : Quotes, targets : SUBSET Sockets]
    /\ pump.pc \in Working => pump.batch # <<>>
    /\ pump.pc = "update" => MinuteOf(pump.msc) > 0
    /\ pump.pc \in {"update", "snapshot"} => CurrentTick.sym \in DOMAIN subed_quotes

(* Every quote is that of the ticks it took.                               *)
QuoteInv ==
    /\ DOMAIN subed_quotes \subseteq Symbols
    /\ subed_quotes \in [DOMAIN subed_quotes -> Quotes]
    /\ accepted \in [Symbols -> Seq(Taken)]
    /\ \A sym \in Symbols :
          IF sym \in DOMAIN subed_quotes THEN Barred(subed_quotes[sym], accepted[sym])
          ELSE accepted[sym] = <<>>

(* A message is handled for a connection that is there, and past its first *)
(* step the connection has the symbol in its list.                         *)
JobInv ==
    /\ job = [pc |-> job.pc, ws |-> job.ws, todo |-> job.todo, calls |-> job.calls]
    /\ job.pc \in Jobs
    /\ job.pc # "none" => job.ws \in Sockets /\ conn[job.ws].open = TRUE
    /\ job.pc \in {"find", "add", "insert"} => Head(job.todo) \in conn[job.ws].sublist
    /\ job.pc = "insert" => Head(job.todo) \in Traded

ConnInv ==
    /\ conn = [ws \in Sockets |-> [open |-> conn[ws].open, sublist |-> conn[ws].sublist]]
    /\ index \in [Symbols -> SUBSET Sockets]
    /\ got \in [Sockets -> [Symbols -> Prices]]
    /\ deferred \in Seq([sym : Symbols, quote : Quotes, targets : SUBSET Sockets])

IInv == PumpInv /\ QuoteInv /\ JobInv /\ ConnInv /\ OnlySubscribers

(* Ticks come in the order of the terminal's clock, in seconds: those in   *)
(* the batch before those the terminal still has, and no quote is of a     *)
(* later second than any of them.  So a tick that looks earlier than the   *)
(* quote has the same second.                                              *)
Ordered(ticks) == \A i, j \in DOMAIN ticks : i <= j => ticks[i].lasttime <= ticks[j].lasttime

Waits(second) ==
    /\ second <= terminal.now
    /\ \A j \in DOMAIN terminal.ticks : second <= terminal.ticks[j].lasttime

OrderInv ==
    /\ Ordered(terminal.ticks) /\ Ordered(pump.batch)
    /\ \A j \in DOMAIN terminal.ticks : terminal.ticks[j].lasttime <= terminal.now
    /\ \A i \in DOMAIN pump.batch : Waits(pump.batch[i].lasttime)
    /\ \A sym \in DOMAIN subed_quotes :
          LET second == subed_quotes[sym].ctm \div Second
          IN  /\ Waits(second)
              /\ \A i \in DOMAIN pump.batch : second <= pump.batch[i].lasttime
    /\ pump.pc = "update" => pump.msc \div Second = CurrentTick.lasttime

(* Only some of the state matters to the parts of the invariant.           *)
LEMMA PumpSame ==
    ASSUME PumpInv, UNCHANGED <<terminal, pump>>, DOMAIN subed_quotes \subseteq DOMAIN subed_quotes'
    PROVE  PumpInv'
BY DEF PumpInv, CurrentTick

(* Nor do the loop and the terminal matter to the quotes.                  *)
LEMMA QuoteSame ==
    ASSUME QuoteInv, UNCHANGED <<subed_quotes, accepted>>
    PROVE  QuoteInv'
BY DEF QuoteInv

-----------------------------------------------------------------------------
(* Steps of the pumping thread and of the terminal.                        *)

(* OnTick returns with the next tick of the batch, or none.                *)
LEMMA DoneTyped ==
    ASSUME PumpInv, pump.pc \in Working
    PROVE  /\ Done(pump) \in [pc : Working \cup {"off", "idle"}, batch : Seq(Ticks), msc : Nat,
                              quote : Quotes, targets : SUBSET Sockets]
           /\ Done(pump).pc \in {"idle", "tick"}
           /\ Done(pump).pc = "tick" => Done(pump).batch # <<>>
<1> DEFINE b == Tail(pump.batch)
           c == IF Len(pump.batch) = 1 THEN "idle" ELSE "tick"
<1>1. /\ pump.batch \in Seq(Ticks) /\ pump.batch # <<>>
      /\ pump \in [pc : Working \cup {"off", "idle"}, batch : Seq(Ticks), msc : Nat,
                   quote : Quotes, targets : SUBSET Sockets]
  BY DEF PumpInv
<1>2. b \in Seq(Ticks) /\ (Len(pump.batch) # 1 => b # <<>>)
  <2> DEFINE s == pump.batch
  <2>1. s \in Seq(Ticks) /\ s # <<>>
    BY <1>1
  <2> HIDE DEF s
  <2>2. Len(s) \in Nat /\ Tail(s) \in Seq(Ticks) /\ Len(Tail(s)) = Len(s) - 1 /\ Len(s) # 0
    BY <2>1
  <2>3. Len(<<>>) = 0
    OBVIOUS
  <2>4. ASSUME Tail(s) = <<>> PROVE Len(s) = 1
    <3> DEFINE n == Len(s)
    <3>1. n - 1 = 0 /\ n \in Nat
      BY <2>2, <2>3, <2>4
    <3> HIDE DEF n
    <3>2. n = 1
      BY <3>1
    <3> QED
      BY <3>2 DEF n
  <2> QED
    BY <2>2, <2>4 DEF s
<1>3. LastQuote \in Quotes
  BY DEF LastQuote, Quotes, Bars, NoBar
<1> HIDE DEF b
<1>4. Done(pump) = [pump EXCEPT !.batch = b, !.quote = LastQuote, !.targets = {}, !.msc = 0, !.pc = c]
  BY DEF Done, b
<1>5. c \in {"idle", "tick"} /\ (c = "tick" => b # <<>>) /\ {"idle", "tick"} \subseteq Working \cup {"off", "idle"}
  BY <1>2 DEF Working
<1> HIDE DEF c
<1>6. Done(pump) = [pc |-> c, batch |-> b, msc |-> 0, quote |-> LastQuote, targets |-> {}]
  BY <1>1, <1>4
<1> QED
  BY <1>2, <1>3, <1>5, <1>6

(* The tick in hand.                                                       *)
LEMMA TickTyped ==
    ASSUME PumpInv, pump.pc \in Working
    PROVE  CurrentTick \in Ticks
BY DEF PumpInv, CurrentTick

(* SymbolInfoUpdated takes the ticks of the terminal as a batch.           *)
LEMMA InfoUpdated == ASSUME PumpInv, SymbolInfoUpdated PROVE PumpInv'
<1>1. /\ terminal' = [terminal EXCEPT !.ticks = <<>>] /\ terminal.ticks # <<>>
      /\ pump' = [pump EXCEPT !.pc = "tick", !.batch = terminal.ticks]
      /\ terminal.ticks \in Seq(Ticks)
  BY DEF SymbolInfoUpdated, PumpInv
<1>2. terminal' \in [added : SUBSET Symbols, ticks : Seq(Ticks), sent : Nat, now : Times]
  <2>1. terminal \in [added : SUBSET Symbols, ticks : Seq(Ticks), sent : Nat, now : Times]
    BY DEF PumpInv
  <2>2. <<>> \in Seq(Ticks)
    OBVIOUS
  <2>3. terminal' = [added |-> terminal.added, ticks |-> <<>>, sent |-> terminal.sent,
                     now |-> terminal.now]
    BY <1>1, <2>1
  <2> QED
    BY <2>1, <2>2, <2>3
<1>3. /\ pump' \in [pc : Working \cup {"off", "idle"}, batch : Seq(Ticks), msc : Nat,
                    quote : Quotes, targets : SUBSET Sockets]
      /\ pump'.pc = "tick" /\ pump'.batch # <<>>
  BY <1>1 DEF PumpInv, Working
<1> QED
  BY <1>2, <1>3 DEF PumpInv

(* OnTick looks the quote of the tick up, or is done with it.              *)
LEMMA TickTaken ==
    ASSUME PumpInv, NEW ms \in 0..(Second - 1), OnTick(ms)
    PROVE  PumpInv'
<1>1. pump.pc = "tick" /\ pump.pc \in Working
  BY DEF OnTick, Working
<1>2. CurrentTick \in Ticks
  BY <1>1, TickTyped
<1> DEFINE t == CurrentTick.lasttime
           msc == t * Second + ms
<1>3. t \in Nat /\ t >= Minute
  BY <1>2 DEF Ticks, Times
<1>4. msc \in Nat /\ MinuteOf(msc) > 0
  BY <1>3, TickMinute
<1> HIDE DEF msc
<1>5. CASE ContainsKey(subed_quotes, CurrentTick.sym)
  <2>1. /\ pump' = [pump EXCEPT !.pc = "update", !.msc = msc]
        /\ terminal' = terminal /\ subed_quotes' = subed_quotes
    BY <1>5 DEF OnTick, msc
  <2>2. /\ pump' \in [pc : Working \cup {"off", "idle"}, batch : Seq(Ticks), msc : Nat,
                      quote : Quotes, targets : SUBSET Sockets]
        /\ pump'.pc = "update" /\ pump'.batch = pump.batch /\ pump'.msc = msc
    BY <1>4, <2>1 DEF PumpInv, Working
  <2>3. CurrentTick' = CurrentTick
    BY <2>2 DEF CurrentTick
  <2> QED
    BY <1>1, <1>4, <1>5, <2>1, <2>2, <2>3 DEF PumpInv, ContainsKey
<1>6. CASE ~ContainsKey(subed_quotes, CurrentTick.sym)
  <2>1. pump' = Done(pump) /\ terminal' = terminal /\ subed_quotes' = subed_quotes
    BY <1>6 DEF OnTick
  <2> QED
    BY <1>1, <2>1, DoneTyped DEF PumpInv, Working
<1> QED
  BY <1>5, <1>6

(* A tick that looks earlier than the quote does so for its milliseconds.  *)
LEMMA OlderSameSecond ==
    ASSUME PumpInv, OrderInv, pump.pc = "update", CurrentTick.sym \in DOMAIN subed_quotes,
           NEW taken \in Seq(Taken), NEW q \in Quotes, q = subed_quotes[CurrentTick.sym],
           Barred(q, taken)
    PROVE  LeftOut(taken) <=> pump.msc < q.ctm
<1> DEFINE second == q.ctm \div Second
           t == CurrentTick.lasttime
<1>1. pump.msc \in Nat /\ q.ctm \in Nat /\ Second \in Nat \ {0}
  BY TimeAssumption DEF PumpInv, Quotes
<1>2. t \in Nat /\ second <= t /\ pump.msc \div Second = t
  <2>1. CurrentTick \in Ticks /\ pump.batch # <<>> /\ pump.batch \in Seq(Ticks)
    BY TickTyped DEF PumpInv, Working
  <2>2. 1 \in DOMAIN pump.batch /\ CurrentTick = pump.batch[1]
    BY <2>1 DEF CurrentTick
  <2>3. t \in Nat
    BY <2>1 DEF Ticks, Times
  <2> QED
    BY <2>2, <2>3 DEF OrderInv
<1>3. CASE taken = <<>>
  BY <1>1, <1>3 DEF Barred, LeftOut
<1>4. CASE taken # <<>>
  <2>1. q.ctm = Last(taken).msc
    BY <1>4 DEF Barred
  <2>2. pump.msc < q.ctm => t <= second
    <3> DEFINE m == pump.msc
               n == q.ctm
    <3> HIDE DEF m, n
    <3>1. m \in Nat /\ n \in Nat /\ Second \in Nat \ {0}
      BY <1>1 DEF m, n
    <3>2. m < n => m \div Second <= n \div Second
      BY <3>1
    <3> QED
      BY <1>2, <3>2 DEF m, n
  <2>3. second \in Nat
    BY <1>1
  <2> QED
    BY <1>2, <1>4, <2>1, <2>2, <2>3 DEF LeftOut
<1> QED
  BY <1>3, <1>4

(* The quote and its bar take the tick.                                    *)
LEMMA QuoteUpdated ==
    ASSUME PumpInv, QuoteInv, OrderInv, UpdateQuote
    PROVE  PumpInv' /\ QuoteInv' /\ DOMAIN subed_quotes' = DOMAIN subed_quotes
<1> DEFINE sym == CurrentTick.sym
           bid == CurrentTick.bid
           msc == pump.msc
           q == subed_quotes[sym]
           taken == accepted[sym]
           u == UpdateLastQuote(q, msc, bid)
           more == IF msc < q.ctm THEN taken
                   ELSE Append(taken, [msc |-> msc, bid |-> bid])
           next == IF LeftOut(taken) THEN taken
                   ELSE Append(taken, [msc |-> msc, bid |-> bid])
<1>1. pump.pc = "update" /\ pump.pc \in Working /\ sym \in DOMAIN subed_quotes
      /\ msc \in Nat /\ MinuteOf(msc) > 0
  BY DEF UpdateQuote, Working, PumpInv
<1>2. CurrentTick \in Ticks
  BY <1>1, TickTyped
<1>3. sym \in Symbols /\ bid \in Bids
  BY <1>2 DEF Ticks
<1>4. q \in Quotes /\ taken \in Seq(Taken) /\ Barred(q, taken)
  BY <1>1, <1>3 DEF QuoteInv
<1>5. /\ subed_quotes' = [subed_quotes EXCEPT ![sym] = u]
      /\ accepted' = [accepted EXCEPT ![sym] = more]
      /\ pump' = [pump EXCEPT !.pc = "snapshot"] /\ terminal' = terminal
  <2>1. /\ subed_quotes' = [subed_quotes EXCEPT ![sym] = u]
        /\ accepted' = [accepted EXCEPT ![sym] = next]
        /\ pump' = [pump EXCEPT !.pc = "snapshot"] /\ terminal' = terminal
    BY DEF UpdateQuote
  <2>2. LeftOut(taken) <=> msc < q.ctm
    BY <1>1, <1>4, OlderSameSecond
  <2> HIDE DEF u, sym, taken, msc, q, bid
  <2> QED
    BY <2>1, <2>2
<1> HIDE DEF sym, bid, msc, q, taken
<1>6. u \in Quotes /\ Barred(u, more)
  BY <1>1, <1>3, <1>4, BarUpdated
<1>7. more \in Seq(Taken)
  <2> DEFINE tick == [msc |-> msc, bid |-> bid]
  <2>1. tick \in Taken
    BY <1>1, <1>3 DEF Taken
  <2> HIDE DEF tick
  <2>2. Append(taken, tick) \in Seq(Taken)
    BY <1>4, <2>1
  <2> QED
    BY <1>4, <2>2 DEF tick
<1> HIDE DEF u, more
<1>8. DOMAIN subed_quotes' = DOMAIN subed_quotes
  BY <1>1, <1>5 DEF QuoteInv
<1>9. QuoteInv'
  BY <1>1, <1>3, <1>5, <1>6, <1>7, <1>8 DEF QuoteInv
<1>10. PumpInv'
  <2>1. /\ pump' \in [pc : Working \cup {"off", "idle"}, batch : Seq(Ticks), msc : Nat,
                      quote : Quotes, targets : SUBSET Sockets]
        /\ pump'.pc = "snapshot" /\ pump'.batch = pump.batch
    BY <1>5 DEF PumpInv, Working
  <2>2. CurrentTick' = CurrentTick
    BY <2>1 DEF CurrentTick
  <2> QED
    BY <1>1, <1>5, <1>8, <2>1, <2>2 DEF PumpInv, sym
<1> QED
  BY <1>8, <1>9, <1>10

(* What _quote_cb is given is a quote.                                     *)
LEMMA SnapshotTaken ==
    ASSUME PumpInv, QuoteInv, Snapshot
    PROVE  PumpInv'
<1>1. /\ pump.pc = "snapshot" /\ CurrentTick.sym \in DOMAIN subed_quotes /\ pump.batch # <<>>
      /\ pump' = [pump EXCEPT !.pc = "callback", !.quote = subed_quotes[CurrentTick.sym]]
      /\ terminal' = terminal
  BY DEF Snapshot, PumpInv, Working
<1>2. subed_quotes[CurrentTick.sym] \in Quotes
  BY <1>1 DEF QuoteInv
<1>3. /\ pump' \in [pc : Working \cup {"off", "idle"}, batch : Seq(Ticks), msc : Nat,
                    quote : Quotes, targets : SUBSET Sockets]
      /\ pump'.pc = "callback" /\ pump'.batch = pump.batch
  BY <1>1, <1>2 DEF PumpInv, Working
<1> QED
  BY <1>1, <1>3 DEF PumpInv

(* A tick from the terminal.                                               *)
LEMMA QuotedTyped ==
    ASSUME PumpInv, NEW sym \in Symbols, NEW bid \in Bids, NEW later \in 0..1,
           Quoted(sym, bid, later)
    PROVE  PumpInv'
<1> DEFINE now == terminal.now + later
           tick == [sym |-> sym, bid |-> bid, lasttime |-> now]
<1>1. /\ terminal \in [added : SUBSET Symbols, ticks : Seq(Ticks), sent : Nat, now : Times]
      /\ terminal' = [terminal EXCEPT !.now = now, !.sent = terminal.sent + 1,
                                      !.ticks = Append(terminal.ticks, tick)]
      /\ pump' = pump /\ subed_quotes' = subed_quotes
  BY DEF PumpInv, Quoted
<1>2. now \in Times
  BY <1>1, TimeAssumption DEF Times
<1> HIDE DEF now
<1>3. tick \in Ticks
  BY <1>2 DEF Ticks
<1> HIDE DEF tick
<1>4. terminal' \in [added : SUBSET Symbols, ticks : Seq(Ticks), sent : Nat, now : Times]
  <2> DEFINE more == Append(terminal.ticks, tick)
             sent == terminal.sent + 1
  <2>1. more \in Seq(Ticks) /\ sent \in Nat /\ terminal.added \in SUBSET Symbols
    BY <1>1, <1>3
  <2>2. terminal' = [added |-> terminal.added, ticks |-> more, sent |-> sent, now |-> now]
    BY <1>1
  <2> HIDE DEF more, sent
  <2> QED
    BY <1>2, <2>1, <2>2
<1> QED
  BY <1>1, <1>4 DEF PumpInv, CurrentTick

-----------------------------------------------------------------------------
(* Both threads, and the theorems.                                         *)

(* _quote_cb and its deferring take the tick in hand to its end.           *)
LEMMA CallbackTyped ==
    ASSUME PumpInv, ConnInv, QuoteCb \/ Defer
    PROVE  /\ PumpInv'
           /\ deferred' \in Seq([sym : Symbols, quote : Quotes, targets : SUBSET Sockets])
<1> DEFINE sym == CurrentTick.sym
           P == [pc : Working \cup {"off", "idle"}, batch : Seq(Ticks), msc : Nat,
                 quote : Quotes, targets : SUBSET Sockets]
           D == [sym : Symbols, quote : Quotes, targets : SUBSET Sockets]
<1>1. pump.pc \in Working /\ pump \in P /\ UNCHANGED <<terminal, subed_quotes>>
      /\ pump.batch # <<>> /\ deferred \in Seq(D) /\ index \in [Symbols -> SUBSET Sockets]
  BY DEF QuoteCb, Defer, Working, PumpInv, ConnInv
<1>2. sym \in Symbols
  BY <1>1, TickTyped DEF Ticks
<1> HIDE DEF sym, D
<1>3. ASSUME pump' = Done(pump) PROVE PumpInv'
  BY <1>1, <1>3, DoneTyped DEF PumpInv, Working
<1>4. ASSUME pump' = [pump EXCEPT !.pc = "defer", !.targets = index[sym]] PROVE PumpInv'
  <2>1. pump' \in P /\ pump'.pc = "defer" /\ pump'.batch = pump.batch
    BY <1>1, <1>2, <1>4 DEF Working
  <2> QED
    BY <1>1, <2>1 DEF PumpInv
<1>5. pump' = Done(pump) \/ pump' = [pump EXCEPT !.pc = "defer", !.targets = index[sym]]
  BY DEF QuoteCb, Defer, Deferring, sym
<1>6. ASSUME NEW targets \in SUBSET Sockets, Deferring(targets)
      PROVE  deferred' \in Seq(D)
  <2> DEFINE d == [sym |-> sym, quote |-> pump.quote, targets |-> targets]
  <2>1. d \in D
    BY <1>1, <1>2 DEF D
  <2>2. deferred' = Append(deferred, d)
    BY <1>6 DEF Deferring, sym
  <2> HIDE DEF d
  <2> QED
    BY <1>1, <2>1, <2>2
<1>7. deferred' \in Seq(D)
  <2>1. pump.targets \in SUBSET Sockets
    BY <1>1
  <2> QED
    BY <1>1, <1>6, <2>1 DEF QuoteCb, Defer
<1> QED
  BY <1>3, <1>4, <1>5, <1>7 DEF D

(* What is left of the state alone.                                        *)
LEMMA ServerSame ==
    ASSUME JobInv, ConnInv, OnlySubscribers, UNCHANGED <<job, conn, index, got, main>>,
           deferred' \in Seq([sym : Symbols, quote : Quotes, targets : SUBSET Sockets])
    PROVE  JobInv' /\ ConnInv' /\ OnlySubscribers'
BY DEF JobInv, ConnInv, OnlySubscribers

(* No step of the pumping thread or of the terminal breaks the invariant.  *)
LEMMA PumpNext ==
    ASSUME IInv, OrderInv,
           \/ Pump
           \/ \E sym \in Symbols, bid \in Bids, later \in 0..1 :
                 Quoted(sym, bid, later) /\ UNCHANGED qvars
    PROVE  IInv'
<1>1. CASE PumpStep /\ UNCHANGED qvars
  <2>1. JobInv' /\ ConnInv' /\ OnlySubscribers'
    BY <1>1, ServerSame DEF IInv, qvars, ConnInv
  <2>2. CASE SymbolInfoUpdated
    BY <2>1, <2>2, InfoUpdated, QuoteSame DEF IInv, SymbolInfoUpdated
  <2>3. CASE \E ms \in 0..(Second - 1) : OnTick(ms)
    BY <2>1, <2>3, TickTaken, QuoteSame DEF IInv, OnTick
  <2>4. CASE UpdateQuote
    BY <2>1, <2>4, QuoteUpdated DEF IInv
  <2>5. CASE Snapshot
    BY <2>1, <2>5, SnapshotTaken, QuoteSame DEF IInv, Snapshot
  <2> QED
    BY <1>1, <2>2, <2>3, <2>4, <2>5 DEF PumpStep
<1>2. CASE QuoteCb \/ Defer
  <2>1. UNCHANGED <<subed_quotes, accepted, main, conn, index, job, got>>
    BY <1>2 DEF QuoteCb, Defer
  <2> QED
    BY <1>2, <2>1, CallbackTyped, ServerSame, QuoteSame DEF IInv
<1>3. ASSUME NEW sym \in Symbols, NEW bid \in Bids, NEW later \in 0..1,
             Quoted(sym, bid, later), UNCHANGED qvars
      PROVE  IInv'
  <2>1. JobInv' /\ ConnInv' /\ OnlySubscribers'
    BY <1>3, ServerSame DEF IInv, qvars, ConnInv
  <2>2. UNCHANGED <<subed_quotes, accepted>>
    BY <1>3 DEF Quoted
  <2> QED
    BY <1>3, <2>1, <2>2, QuotedTyped, QuoteSame DEF IInv
<1> QED
  BY <1>1, <1>2, <1>3 DEF Pump

-----------------------------------------------------------------------------
(* The loop's thread.                                                      *)

(* A connection is opened, with nothing subscribed and nothing sent.       *)
LEMMA OpenSafe == ASSUME IInv, NEW ws \in Sockets, Open(ws) PROVE IInv'
<1>1. /\ job = NoJob /\ ~conn[ws].open /\ conn' = [conn EXCEPT ![ws] = Opened]
      /\ UNCHANGED <<mvars, index, deferred, job, got>>
  BY DEF Open, LoopIdle
<1>2. PumpInv' /\ QuoteInv'
  BY <1>1, PumpSame, QuoteSame DEF IInv, mvars
<1>3. job.pc = "none"
  BY <1>1 DEF NoJob
<1>4. JobInv'
  BY <1>1, <1>3 DEF IInv, JobInv
<1>5. /\ conn' = [x \in Sockets |-> [open |-> conn'[x].open, sublist |-> conn'[x].sublist]]
      /\ conn'[ws].open = TRUE /\ conn'[ws].sublist = {}
      /\ \A x \in Sockets : x # ws => conn'[x] = conn[x]
  BY <1>1 DEF IInv, ConnInv, Opened
<1>6. OnlySubscribers'
  BY <1>1, <1>5 DEF IInv, OnlySubscribers
<1> QED
  BY <1>1, <1>2, <1>4, <1>5, <1>6 DEF IInv, ConnInv

(* A connection is closed, and taken out of everything.                    *)
LEMMA ClosesSafe == ASSUME IInv, NEW ws \in Sockets, Closes(ws) PROVE IInv'
<1> DEFINE nothing == [sym \in Symbols |-> NoQuote]
           without == [sym \in Symbols |-> index[sym] \ {ws}]
<1>1. /\ job = NoJob /\ conn' = [conn EXCEPT ![ws] = Closed]
      /\ got' = [got EXCEPT ![ws] = nothing] /\ index' = without
      /\ UNCHANGED <<mvars, deferred, job>>
  BY DEF Closes, Close, LoopIdle
<1>2. PumpInv' /\ QuoteInv'
  BY <1>1, PumpSame, QuoteSame DEF IInv, mvars
<1>3. job.pc = "none"
  BY <1>1 DEF NoJob
<1>4. JobInv'
  BY <1>1, <1>3 DEF IInv, JobInv
<1>5. /\ conn' = [x \in Sockets |-> [open |-> conn'[x].open, sublist |-> conn'[x].sublist]]
      /\ conn'[ws].open = FALSE
      /\ \A x \in Sockets : x # ws => conn'[x] = conn[x]
  BY <1>1 DEF IInv, ConnInv, Closed
<1>6. nothing \in [Symbols -> Prices] /\ \A sym \in Symbols : nothing[sym] = NoQuote
  BY DEF NoQuote, Prices
<1> HIDE DEF nothing
<1>7. /\ got' \in [Sockets -> [Symbols -> Prices]] /\ got'[ws] = nothing
      /\ \A x \in Sockets : x # ws => got'[x] = got[x]
  BY <1>1, <1>6 DEF IInv, ConnInv
<1>8. /\ index' \in [Symbols -> SUBSET Sockets]
      /\ \A sym \in Symbols : index'[sym] = index[sym] \ {ws}
  BY <1>1 DEF IInv, ConnInv
<1>9. OnlySubscribers'
  BY <1>5, <1>6, <1>7, <1>8 DEF IInv, OnlySubscribers
<1> QED
  BY <1>1, <1>2, <1>4, <1>5, <1>7, <1>8, <1>9 DEF IInv, ConnInv

(* A message begins to be handled.                                         *)
LEMMA SubSafe == ASSUME IInv, NEW ws \in Sockets, NEW list, Sub(ws, list) PROVE IInv'
<1>1. /\ conn[ws].open /\ job' = SubJob(ws, list)
      /\ UNCHANGED <<mvars, conn, index, deferred, got>>
  BY DEF Sub
<1>2. PumpInv' /\ QuoteInv'
  BY <1>1, PumpSame, QuoteSame DEF IInv, mvars
<1>3. conn[ws].open = TRUE
  BY <1>1 DEF IInv, ConnInv
<1>4. JobInv'
  BY <1>1, <1>3 DEF JobInv, Jobs, SubJob
<1> QED
  BY <1>1, <1>2, <1>4 DEF IInv, ConnInv, OnlySubscribers

(* The list of a connection and the index take a symbol together.          *)
LEMMA NextSymbolSafe == ASSUME IInv, NextSymbol PROVE IInv'
<1> DEFINE sym == Head(job.todo)
           ws == job.ws
           calls == IF program = "publish" /\ sym \notin conn[ws].sublist THEN 2 ELSE 1
<1>1. /\ job.pc = "next"
      /\ conn' = [conn EXCEPT ![ws].sublist = conn[ws].sublist \cup {sym}]
      /\ index' = [index EXCEPT ![sym] = index[sym] \cup {ws}]
      /\ job' = [job EXCEPT !.pc = "find", !.calls = calls]
      /\ UNCHANGED <<mvars, main, deferred, got>>
  BY DEF NextSymbol, Subscribed
<1>2. PumpInv' /\ QuoteInv'
  BY <1>1, PumpSame, QuoteSame DEF IInv, mvars
<1>3. ws \in Sockets /\ conn[ws].open = TRUE
  BY <1>1 DEF IInv, JobInv
<1> HIDE DEF sym, ws, calls
<1>4. /\ conn' = [x \in Sockets |-> [open |-> conn'[x].open, sublist |-> conn'[x].sublist]]
      /\ conn'[ws].open = TRUE /\ conn'[ws].sublist = conn[ws].sublist \cup {sym}
      /\ \A x \in Sockets : x # ws => conn'[x] = conn[x]
  <2> DEFINE list == conn[ws].sublist \cup {sym}
             row == [conn[ws] EXCEPT !.sublist = list]
  <2>1. conn = [x \in Sockets |-> [open |-> conn[x].open, sublist |-> conn[x].sublist]]
    BY DEF IInv, ConnInv
  <2>2. conn[ws] = [open |-> TRUE, sublist |-> conn[ws].sublist]
    BY <1>3, <2>1
  <2>3. conn' = [conn EXCEPT ![ws] = row]
    BY <1>1
  <2> HIDE DEF list
  <2>4. row = [open |-> TRUE, sublist |-> list]
    <3> DEFINE o == TRUE
               c == conn[ws]
               v == conn[ws].sublist
    <3>1. c = [open |-> o, sublist |-> v]
      BY <2>2
    <3> HIDE DEF o, c, v
    <3>2. [c EXCEPT !.sublist = list] = [open |-> o, sublist |-> list]
      BY <3>1
    <3> QED
      BY <3>2 DEF c, o
  <2> HIDE DEF row
  <2>5. conn'[ws] = row /\ \A x \in Sockets : x # ws => conn'[x] = conn[x]
    BY <1>3, <2>1, <2>3
  <2>6. conn' = [x \in Sockets |-> [open |-> conn'[x].open, sublist |-> conn'[x].sublist]]
    BY <1>3, <2>1, <2>3, <2>4, <2>5
  <2> QED
    BY <2>4, <2>5, <2>6 DEF list
<1>5. /\ index' \in [Symbols -> SUBSET Sockets]
      /\ sym \in Symbols => index'[sym] = index[sym] \cup {ws}
      /\ \A x \in Symbols : x # sym => index'[x] = index[x]
  BY <1>1, <1>3 DEF IInv, ConnInv
<1>6. job' = [pc |-> "find", ws |-> job.ws, todo |-> job.todo, calls |-> calls]
  BY <1>1 DEF IInv, JobInv
<1>7. JobInv'
  BY <1>3, <1>4, <1>6 DEF JobInv, Jobs, sym, ws
<1>8. OnlySubscribers'
  BY <1>1, <1>3, <1>4, <1>5 DEF IInv, OnlySubscribers
<1> QED
  BY <1>1, <1>2, <1>4, <1>5, <1>7, <1>8 DEF IInv, ConnInv

(* SubSymbolAndLast returns: what is sent goes to the subscriber.          *)
LEMMA ReturnedSafe ==
    ASSUME JobInv, ConnInv, OnlySubscribers, job.pc \in {"find", "add", "insert"},
           NEW quote \in Quotes, Returned(quote), UNCHANGED <<conn, index, deferred>>
    PROVE  JobInv' /\ ConnInv' /\ OnlySubscribers'
<1> DEFINE sym == Head(job.todo)
           ws == job.ws
           price == Formatted(quote)
           fewer == job.calls - 1
           rest == Tail(job.todo)
<1>1. /\ ws \in Sockets /\ conn[ws].open = TRUE /\ sym \in conn[ws].sublist
      /\ job = [pc |-> job.pc, ws |-> ws, todo |-> job.todo, calls |-> job.calls]
  BY DEF JobInv
<1>2. price \in Prices
  BY DEF Formatted, Prices, Quotes
<1>3. \/ job' = [job EXCEPT !.pc = "find", !.calls = fewer]
      \/ job' = NoJob
      \/ job' = [job EXCEPT !.pc = "next", !.todo = rest, !.calls = 0]
  BY DEF Returned
<1>4. got' = got \/ got' = [got EXCEPT ![ws][sym] = price]
  BY DEF Returned, Send
<1>5. JobInv'
  <2> HIDE DEF fewer, rest
  <2>1. CASE job' = [job EXCEPT !.pc = "find", !.calls = fewer]
    <3>1. job' = [pc |-> "find", ws |-> ws, todo |-> job.todo, calls |-> fewer]
      BY <1>1, <2>1
    <3> QED
      BY <1>1, <3>1 DEF JobInv, Jobs
  <2>2. CASE job' = NoJob
    BY <2>2 DEF NoJob, JobInv, Jobs
  <2>3. CASE job' = [job EXCEPT !.pc = "next", !.todo = rest, !.calls = 0]
    <3>1. job' = [pc |-> "next", ws |-> ws, todo |-> rest, calls |-> 0]
      BY <1>1, <2>3
    <3> QED
      BY <1>1, <3>1 DEF JobInv, Jobs
  <2> QED
    BY <1>3, <2>1, <2>2, <2>3
<1> HIDE DEF sym, ws, price
<1>6. /\ got' \in [Sockets -> [Symbols -> Prices]]
      /\ \A x \in Sockets, s \in Symbols : got'[x][s] # got[x][s] => x = ws /\ s = sym
  <2>1. CASE got' = got
    BY <2>1 DEF ConnInv
  <2>2. CASE got' = [got EXCEPT ![ws][sym] = price]
    <3> DEFINE row == [got[ws] EXCEPT ![sym] = price]
    <3>1. got \in [Sockets -> [Symbols -> Prices]]
      BY DEF ConnInv
    <3>2. got[ws] \in [Symbols -> Prices]
      BY <1>1, <3>1
    <3>3. /\ row \in [Symbols -> Prices]
          /\ \A s \in Symbols : row[s] # got[ws][s] => s = sym
      BY <1>2, <3>2
    <3>4. got' = [got EXCEPT ![ws] = row]
      BY <2>2
    <3> HIDE DEF row
    <3>5. /\ got' \in [Sockets -> [Symbols -> Prices]] /\ got'[ws] = row
          /\ \A x \in Sockets : x # ws => got'[x] = got[x]
      BY <1>1, <3>1, <3>3, <3>4
    <3> QED
      BY <3>3, <3>5
  <2> QED
    BY <1>4, <2>1, <2>2
<1>7. OnlySubscribers'
  BY <1>1, <1>6 DEF OnlySubscribers
<1> QED
  BY <1>5, <1>6, <1>7 DEF ConnInv

(* What was deferred is sent to those in the index only.                   *)
LEMMA DeferredSafe == ASSUME IInv, RunDeferred PROVE IInv'
<1> DEFINE D == [sym : Symbols, quote : Quotes, targets : SUBSET Sockets]
           d == Head(deferred)
           price == Formatted(d.quote)
<1>1. /\ deferred # <<>> /\ deferred' = Tail(deferred) /\ deferred \in Seq(D)
      /\ got' = [ws \in Sockets |->
                    IF ws \in Receivers(d) THEN [got[ws] EXCEPT ![d.sym] = price] ELSE got[ws]]
      /\ UNCHANGED <<mvars, main, conn, index, job>>
  BY DEF RunDeferred, IInv, ConnInv
<1>2. PumpInv' /\ QuoteInv'
  BY <1>1, PumpSame, QuoteSame DEF IInv, mvars
<1> HIDE DEF D
<1>3. d \in D /\ deferred' \in Seq(D)
  BY <1>1
<1>4. d.sym \in Symbols /\ price \in Prices
  BY <1>3 DEF D, Formatted, Prices, Quotes
<1>5. Receivers(d) \subseteq index[d.sym]
  BY DEF Receivers, Published
<1> HIDE DEF d, price
<1>6. got \in [Sockets -> [Symbols -> Prices]]
  BY DEF IInv, ConnInv
<1>7. /\ got' \in [Sockets -> [Symbols -> Prices]]
      /\ \A x \in Sockets, s \in Symbols : got'[x][s] # got[x][s] => x \in index[s]
  BY <1>1, <1>4, <1>5, <1>6
<1>8. OnlySubscribers'
  BY <1>1, <1>7 DEF IInv, OnlySubscribers
<1> QED
  BY <1>1, <1>2, <1>3, <1>7, <1>8 DEF IInv, ConnInv, JobInv, D

(* The steps of SubSymbolAndLast.                                          *)
LEMMA JobSafe == ASSUME IInv, JobStep PROVE IInv'
<1> DEFINE sym == Head(job.todo)
<1>1. LastQuote \in Quotes /\ Barred(LastQuote, <<>>)
  BY DEF LastQuote, Quotes, Bars, NoBar, Barred
<1>2. CASE FindQuote
  <2>1. job.pc = "find" /\ UNCHANGED <<mvars, main, conn, index, deferred>>
    BY <1>2 DEF FindQuote
  <2>2. PumpInv' /\ QuoteInv'
    BY <2>1, PumpSame, QuoteSame DEF IInv, mvars
  <2>3. CASE ContainsKey(subed_quotes, sym) /\ Returned(subed_quotes[sym])
    <3>1. subed_quotes[sym] \in Quotes
      BY <2>3 DEF IInv, QuoteInv, ContainsKey
    <3> QED
      BY <2>1, <2>2, <2>3, <3>1, ReturnedSafe DEF IInv
  <2>4. CASE job' = [job EXCEPT !.pc = "add"] /\ UNCHANGED got
    <3>1. job' = [pc |-> "add", ws |-> job.ws, todo |-> job.todo, calls |-> job.calls]
      BY <2>4 DEF IInv, JobInv
    <3>2. JobInv'
      BY <2>1, <3>1 DEF IInv, JobInv, Jobs
    <3> QED
      BY <2>1, <2>2, <2>4, <3>2 DEF IInv, ConnInv, OnlySubscribers
  <2> QED
    BY <1>2, <2>3, <2>4 DEF FindQuote
<1>3. CASE SymbolRefused
  <2>1. /\ job.pc = "add" /\ UNCHANGED <<mvars, main, conn, index, deferred>>
        /\ Returned(LastQuote)
    BY <1>3 DEF SymbolRefused
  <2>2. PumpInv' /\ QuoteInv'
    BY <2>1, PumpSame, QuoteSame DEF IInv, mvars
  <2> QED
    BY <1>1, <2>1, <2>2, ReturnedSafe DEF IInv
<1>4. CASE SymbolAdd
  <2> DEFINE added == terminal.added \cup {sym}
  <2>1. /\ job.pc = "add" /\ sym \in Traded
        /\ terminal' = [terminal EXCEPT !.added = added]
        /\ job' = [job EXCEPT !.pc = "insert"]
        /\ UNCHANGED <<subed_quotes, pump, accepted, main, conn, index, deferred, got>>
    BY <1>4 DEF SymbolAdd
  <2>2. added \in SUBSET Symbols
    BY <2>1, TickAssumption DEF IInv, PumpInv
  <2> HIDE DEF added
  <2>3. terminal' \in [added : SUBSET Symbols, ticks : Seq(Ticks), sent : Nat, now : Times]
    BY <2>1, <2>2 DEF IInv, PumpInv
  <2>4. PumpInv'
    BY <2>1, <2>3 DEF IInv, PumpInv, CurrentTick
  <2>5. job' = [pc |-> "insert", ws |-> job.ws, todo |-> job.todo, calls |-> job.calls]
    BY <2>1 DEF IInv, JobInv
  <2>6. JobInv'
    BY <2>1, <2>5 DEF IInv, JobInv, Jobs
  <2> QED
    BY <2>1, <2>4, <2>6, QuoteSame DEF IInv, ConnInv, OnlySubscribers
<1>5. CASE InsertQuote
  <2>1. /\ job.pc = "insert" /\ Returned(LastQuote)
        /\ subed_quotes' = Insert(subed_quotes, sym, LastQuote)
        /\ UNCHANGED <<terminal, pump, accepted, main, conn, index, deferred>>
    BY <1>5 DEF InsertQuote
  <2>2. sym \in Symbols
    BY <2>1, TickAssumption DEF IInv, JobInv
  <2> HIDE DEF sym
  <2>3. subed_quotes' = [x \in DOMAIN subed_quotes \cup {sym} |->
                            IF x \in DOMAIN subed_quotes THEN subed_quotes[x] ELSE LastQuote]
    BY <2>1 DEF Insert
  <2>4. /\ DOMAIN subed_quotes' = DOMAIN subed_quotes \cup {sym}
        /\ subed_quotes' \in [DOMAIN subed_quotes' -> Quotes]
        /\ \A x \in DOMAIN subed_quotes : subed_quotes'[x] = subed_quotes[x]
        /\ sym \notin DOMAIN subed_quotes => subed_quotes'[sym] = LastQuote
    BY <1>1, <2>3 DEF IInv, QuoteInv
  <2>5. QuoteInv'
    BY <1>1, <2>1, <2>2, <2>4 DEF IInv, QuoteInv
  <2>6. PumpInv'
    BY <2>1, <2>4, PumpSame DEF IInv
  <2> QED
    BY <1>1, <2>1, <2>5, <2>6, ReturnedSafe DEF IInv
<1> QED
  BY <1>2, <1>3, <1>4, <1>5, NextSymbolSafe DEF JobStep

-----------------------------------------------------------------------------
(* Nothing is stored, deferred or subscribed at the start.                 *)
LEMMA Starts == Init => IInv
<1> SUFFICES ASSUME Init PROVE IInv
  OBVIOUS
<1>1. LastQuote \in Quotes /\ NoQuote \in Prices
  BY DEF LastQuote, Quotes, Bars, NoBar, NoQuote, Prices
<1>2. PumpInv
  <2>1. Minute \in Times
    BY TimeAssumption DEF Times
  <2>2. <<>> \in Seq(Ticks)
    OBVIOUS
  <2> QED
    BY <1>1, <2>1, <2>2 DEF Init, MInit, PumpInv, Working
<1>3. QuoteInv
  <2>1. DOMAIN <<>> = {} /\ <<>> \in Seq(Taken)
    OBVIOUS
  <2>2. subed_quotes = <<>> /\ accepted = [sym \in Symbols |-> <<>>]
    BY DEF Init, MInit
  <2>3. <<>> = [x \in {} |-> LastQuote]
    BY <2>1
  <2>4. <<>> \in [DOMAIN <<>> -> Quotes]
    BY <2>1, <2>3
  <2> QED
    BY <2>1, <2>2, <2>4 DEF QuoteInv
<1>4. JobInv
  BY DEF Init, NoJob, JobInv, Jobs
<1>5. ConnInv
  <2>1. deferred = <<>> /\ index = NoSubscribers /\ conn = [ws \in Sockets |-> Closed]
        /\ got = [ws \in Sockets |-> [sym \in Symbols |-> NoQuote]]
    BY DEF Init
  <2>2. conn = [ws \in Sockets |-> [open |-> conn[ws].open, sublist |-> conn[ws].sublist]]
    BY <2>1 DEF Closed
  <2>3. deferred \in Seq([sym : Symbols, quote : Quotes, targets : SUBSET Sockets])
    BY <2>1
  <2> QED
    BY <1>1, <2>1, <2>2, <2>3 DEF ConnInv, NoSubscribers
<1>6. OnlySubscribers
  BY DEF Init, OnlySubscribers, Closed, NoSubscribers
<1> QED
  BY <1>2, <1>3, <1>4, <1>5, <1>6 DEF IInv

(* Log-in and the start of the pumping thread.                             *)
LEMMA StartSafe == ASSUME IInv, LogIn \/ StartPumping PROVE IInv'
<1>1. CASE LogIn
  <2>1. UNCHANGED <<mvars, conn, index, deferred, job, got>>
    BY <1>1 DEF LogIn
  <2> QED
    BY <2>1, PumpSame, QuoteSame DEF IInv, mvars, JobInv, ConnInv, OnlySubscribers
<1>2. CASE StartPumping
  <2>1. /\ pump' = pump \/ pump' = [pump EXCEPT !.pc = "idle"]
        /\ UNCHANGED <<terminal, subed_quotes, accepted, conn, index, deferred, job, got>>
    BY <1>2 DEF StartPumping, StartCallBackThread
  <2>2. PumpInv'
    <3>1. CASE pump' = pump
      BY <2>1, <3>1, PumpSame DEF IInv
    <3>2. CASE pump' = [pump EXCEPT !.pc = "idle"]
      <4>1. /\ pump' \in [pc : Working \cup {"off", "idle"}, batch : Seq(Ticks), msc : Nat,
                          quote : Quotes, targets : SUBSET Sockets]
            /\ pump'.pc = "idle"
        BY <3>2 DEF IInv, PumpInv
      <4> QED
        BY <2>1, <4>1 DEF IInv, PumpInv, Working
    <3> QED
      BY <2>1, <3>1, <3>2
  <2> QED
    BY <2>1, <2>2, QuoteSame DEF IInv, JobInv, ConnInv, OnlySubscribers
<1> QED
  BY <1>1, <1>2

-----------------------------------------------------------------------------
(* The order of the ticks.                                                 *)

(* The times of ticks.                                                     *)
LEMMA TickTimes ==
    ASSUME NEW s \in Seq(Ticks), NEW i \in DOMAIN s
    PROVE  s[i].lasttime \in Nat
<1>1. s[i] \in Ticks
  OBVIOUS
<1> QED
  BY <1>1 DEF Ticks, Times

(* A sequence without its first element.                                   *)
LEMMA TailElements ==
    ASSUME NEW s \in Seq(Ticks), s # <<>>, NEW i \in DOMAIN Tail(s)
    PROVE  i \in Nat /\ i + 1 \in DOMAIN s /\ Tail(s)[i] = s[i + 1]
OBVIOUS

(* Only some of the state matters to it.                                   *)
LEMMA OrderSame ==
    ASSUME OrderInv, UNCHANGED <<terminal, pump, subed_quotes>>
    PROVE  OrderInv'
BY DEF OrderInv, Ordered, Waits, CurrentTick

(* The pumping thread keeps the batch, or is done with its first tick.     *)
LEMMA OrderPump ==
    ASSUME PumpInv, OrderInv, UNCHANGED <<terminal, subed_quotes>>, pump'.pc # "update",
           \/ pump'.batch = pump.batch
           \/ pump.batch # <<>> /\ pump'.batch = Tail(pump.batch)
    PROVE  OrderInv'
<1> DEFINE b == pump.batch
           c == pump'.batch
<1>1. b \in Seq(Ticks)
  BY DEF PumpInv
<1>2. ASSUME NEW i \in DOMAIN c
      PROVE  \E k \in DOMAIN b : c[i] = b[k]
  <2>1. CASE c = b
    BY <2>1
  <2>2. CASE b # <<>> /\ c = Tail(b)
    <3>1. i + 1 \in DOMAIN b /\ c[i] = b[i + 1]
      BY <1>1, <2>2, TailElements
    <3> QED
      BY <3>1
  <2> QED
    BY <2>1, <2>2
<1>3. ASSUME NEW i \in DOMAIN c, NEW j \in DOMAIN c, i <= j
      PROVE  c[i].lasttime <= c[j].lasttime
  <2>1. CASE c = b
    BY <1>3, <2>1 DEF OrderInv, Ordered
  <2>2. CASE b # <<>> /\ c = Tail(b)
    <3>1. /\ i + 1 \in DOMAIN b /\ j + 1 \in DOMAIN b /\ i + 1 <= j + 1
          /\ c[i] = b[i + 1] /\ c[j] = b[j + 1]
      BY <1>1, <1>3, <2>2
    <3> QED
      BY <3>1 DEF OrderInv, Ordered
  <2> QED
    BY <2>1, <2>2
<1>4. \A i \in DOMAIN c : Waits(c[i].lasttime)
  BY <1>2 DEF OrderInv
<1>5. \A sym \in DOMAIN subed_quotes, i \in DOMAIN c :
          subed_quotes[sym].ctm \div Second <= c[i].lasttime
  BY <1>2 DEF OrderInv
<1> QED
  BY <1>3, <1>4, <1>5 DEF OrderInv, Ordered, Waits

(* SymbolInfoUpdated: the ticks of the terminal are the batch.             *)
LEMMA OrderInfoUpdated == ASSUME PumpInv, OrderInv, SymbolInfoUpdated PROVE OrderInv'
<1>1. /\ terminal'.ticks = <<>> /\ terminal'.now = terminal.now
      /\ pump'.batch = terminal.ticks /\ pump'.pc = "tick" /\ subed_quotes' = subed_quotes
  BY DEF SymbolInfoUpdated, PumpInv
<1>2. DOMAIN <<>> = {}
  OBVIOUS
<1> QED
  BY <1>1, <1>2 DEF OrderInv, Ordered, Waits

(* OnTick gives the tick the terminal's second.                            *)
LEMMA OrderTick ==
    ASSUME PumpInv, OrderInv, NEW ms \in 0..(Second - 1), OnTick(ms)
    PROVE  OrderInv'
<1>1. pump.pc = "tick" /\ pump.pc \in Working /\ UNCHANGED <<terminal, subed_quotes>>
      /\ pump.batch # <<>>
  BY DEF OnTick, Working, PumpInv
<1>2. CASE ContainsKey(subed_quotes, CurrentTick.sym)
  <2> DEFINE t == CurrentTick.lasttime
             msc == t * Second + ms
  <2>1. pump' = [pump EXCEPT !.pc = "update", !.msc = msc]
    BY <1>2 DEF OnTick
  <2>2. t \in Nat /\ Second \in Nat \ {0}
    BY <1>1, TickTyped, TimeAssumption DEF Ticks, Times
  <2>3. msc \div Second = t
    <3> HIDE DEF t
    <3> QED
      BY <2>2
  <2> HIDE DEF msc, t
  <2>4. pump'.batch = pump.batch /\ pump'.msc = msc
    BY <2>1 DEF PumpInv
  <2>5. CurrentTick' = CurrentTick
    BY <2>4 DEF CurrentTick
  <2> QED
    BY <1>1, <2>3, <2>4, <2>5 DEF OrderInv, Ordered, Waits, t
<1>3. CASE ~ContainsKey(subed_quotes, CurrentTick.sym)
  <2>1. pump' = Done(pump)
    BY <1>3 DEF OnTick
  <2>2. pump'.batch = Tail(pump.batch) /\ pump'.pc # "update"
    BY <2>1 DEF Done, PumpInv
  <2> QED
    BY <1>1, <2>2, OrderPump
<1> QED
  BY <1>2, <1>3

(* The quote takes the time of the tick in hand, or keeps its own.         *)
LEMMA OrderUpdate ==
    ASSUME PumpInv, QuoteInv, OrderInv, UpdateQuote
    PROVE  OrderInv'
<1> DEFINE sym == CurrentTick.sym
           u == UpdateLastQuote(subed_quotes[sym], pump.msc, CurrentTick.bid)
<1>1. /\ pump.pc = "update" /\ sym \in DOMAIN subed_quotes /\ pump.batch # <<>>
      /\ pump.batch \in Seq(Ticks) /\ terminal' = terminal
      /\ pump' = [pump EXCEPT !.pc = "snapshot"]
      /\ subed_quotes' = [subed_quotes EXCEPT ![sym] = u]
      /\ subed_quotes[sym] \in Quotes
  BY DEF UpdateQuote, PumpInv, QuoteInv, Working
<1>2. u.ctm = subed_quotes[sym].ctm \/ u.ctm = pump.msc
  BY <1>1 DEF UpdateLastQuote, NewBar, SameBar, Quotes
<1>3. /\ pump'.batch = pump.batch /\ pump'.pc = "snapshot"
  BY <1>1 DEF PumpInv
<1>4. /\ Waits(CurrentTick.lasttime)
      /\ \A i \in DOMAIN pump.batch : CurrentTick.lasttime <= pump.batch[i].lasttime
  <2>1. /\ 1 \in DOMAIN pump.batch /\ CurrentTick = pump.batch[1]
        /\ \A i \in DOMAIN pump.batch : 1 <= i
    BY <1>1 DEF CurrentTick
  <2> QED
    BY <2>1 DEF OrderInv, Ordered
<1>5. pump.msc \div Second = CurrentTick.lasttime
  BY <1>1 DEF OrderInv
<1> HIDE DEF u
<1>6. ASSUME NEW x \in DOMAIN subed_quotes'
      PROVE  LET second == subed_quotes'[x].ctm \div Second
             IN  /\ Waits(second)
                 /\ \A i \in DOMAIN pump.batch : second <= pump.batch[i].lasttime
  <2>1. x \in DOMAIN subed_quotes
    BY <1>1 DEF QuoteInv
  <2>2. CASE x = sym /\ u.ctm = pump.msc
    <3>1. subed_quotes'[x].ctm = pump.msc
      BY <1>1, <2>1, <2>2 DEF QuoteInv
    <3> QED
      BY <1>4, <1>5, <3>1
  <2>3. CASE subed_quotes'[x].ctm = subed_quotes[x].ctm
    BY <2>1, <2>3 DEF OrderInv
  <2> QED
    BY <1>1, <1>2, <2>1, <2>2, <2>3 DEF QuoteInv
<1> QED
  BY <1>1, <1>3, <1>6 DEF OrderInv, Ordered, Waits

(* A tick from the terminal comes behind the others.                       *)
LEMMA OrderQuoted ==
    ASSUME PumpInv, QuoteInv, OrderInv, NEW sym \in Symbols, NEW bid \in Bids,
           NEW later \in 0..1, Quoted(sym, bid, later)
    PROVE  OrderInv'
<1> DEFINE now == terminal.now + later
           tick == [sym |-> sym, bid |-> bid, lasttime |-> now]
           old == terminal.ticks
           new == terminal'.ticks
           n == Len(old)
<1>1. /\ terminal.now \in Nat /\ old \in Seq(Ticks) /\ pump.batch \in Seq(Ticks)
      /\ terminal'.now = now /\ new = Append(old, tick)
      /\ pump' = pump /\ subed_quotes' = subed_quotes
  BY DEF PumpInv, Quoted, Times
<1>2. now \in Nat /\ terminal.now <= now
  BY <1>1
<1> HIDE DEF now
<1>3. /\ n \in Nat /\ DOMAIN new = 1..(n + 1) /\ DOMAIN old = 1..n
      /\ new[n + 1] = tick /\ \A i \in 1..n : new[i] = old[i] /\ old[i].lasttime \in Nat
  <2>1. \A i \in 1..n : old[i] \in Ticks
    BY <1>1
  <2>2. \A i \in 1..n : old[i].lasttime \in Nat
    BY <2>1 DEF Ticks, Times
  <2> HIDE DEF tick
  <2>3. /\ n \in Nat /\ DOMAIN new = 1..(n + 1) /\ DOMAIN old = 1..n
        /\ new[n + 1] = tick /\ \A i \in 1..n : new[i] = old[i]
    BY <1>1
  <2> QED
    BY <2>2, <2>3
<1>4. tick.lasttime = now
  OBVIOUS
<1> HIDE DEF tick, old, new, n
<1>5. \A i \in 1..n : new[i].lasttime <= terminal.now
  BY <1>3 DEF OrderInv, old
<1>6. \A j \in DOMAIN new : new[j].lasttime <= now
  BY <1>1, <1>2, <1>3, <1>4, <1>5
<1>7. \A i, j \in DOMAIN new : i <= j => new[i].lasttime <= new[j].lasttime
  <2> SUFFICES ASSUME NEW i \in DOMAIN new, NEW j \in DOMAIN new, i <= j
               PROVE  new[i].lasttime <= new[j].lasttime
    OBVIOUS
  <2>1. CASE j = n + 1
    BY <1>3, <1>4, <1>6, <2>1
  <2>2. CASE j # n + 1
    <3>1. i \in 1..n /\ j \in 1..n
      BY <1>3, <2>2
    <3> QED
      BY <1>3, <3>1 DEF OrderInv, Ordered, old
  <2> QED
    BY <2>1, <2>2
<1>8. ASSUME NEW second \in Nat, Waits(second) PROVE Waits(second)'
  <2>1. second <= now /\ \A j \in DOMAIN new : second <= new[j].lasttime
    BY <1>1, <1>2, <1>3, <1>4, <1>8 DEF Waits, old
  <2> QED
    BY <1>1, <2>1 DEF Waits, new
<1>9. \A i \in DOMAIN pump.batch : pump.batch[i].lasttime \in Nat
  BY <1>1, TickTimes
<1>10. ASSUME NEW x \in DOMAIN subed_quotes
       PROVE  subed_quotes[x].ctm \div Second \in Nat
  <2> DEFINE c == subed_quotes[x].ctm
  <2>1. c \in Nat /\ Second \in Nat \ {0}
    BY TimeAssumption DEF QuoteInv, Quotes
  <2> HIDE DEF c
  <2>2. c \div Second \in Nat
    BY <2>1
  <2> QED
    BY <2>2 DEF c
<1>11. /\ \A i \in DOMAIN pump.batch : Waits(pump.batch[i].lasttime)'
       /\ \A x \in DOMAIN subed_quotes : Waits(subed_quotes[x].ctm \div Second)'
  BY <1>1, <1>8, <1>9, <1>10 DEF OrderInv
<1> QED
  BY <1>1, <1>6, <1>7, <1>11 DEF OrderInv, Ordered, CurrentTick, new

(* No step at all puts ticks out of order.                                 *)
LEMMA OrderNext == IInv /\ OrderInv /\ [Next]_vars => OrderInv'
<1> SUFFICES ASSUME PumpInv, QuoteInv, OrderInv, [Next]_vars PROVE OrderInv'
  BY DEF IInv
<1>1. CASE UNCHANGED <<terminal, pump, subed_quotes>>
  BY <1>1, OrderSame
<1>2. CASE StartPumping
  <2>1. /\ pump'.batch = pump.batch /\ UNCHANGED <<terminal, subed_quotes>>
        /\ pump' = pump \/ pump'.pc # "update"
    BY <1>2 DEF StartPumping, StartCallBackThread, PumpInv
  <2> QED
    BY <2>1, OrderPump, OrderSame
<1>3. CASE SymbolAdd
  <2>1. /\ terminal'.ticks = terminal.ticks /\ terminal'.now = terminal.now
        /\ UNCHANGED <<pump, subed_quotes>>
    BY <1>3 DEF SymbolAdd, PumpInv
  <2> QED
    BY <2>1 DEF OrderInv, Ordered, Waits, CurrentTick
<1>4. CASE InsertQuote
  <2> DEFINE sym == Head(job.todo)
  <2>1. /\ UNCHANGED <<pump, terminal>> /\ subed_quotes' = Insert(subed_quotes, sym, LastQuote)
    BY <1>4 DEF InsertQuote
  <2> HIDE DEF sym
  <2>2. 0 \div Second = 0
    BY TimeAssumption
  <2>3. ASSUME NEW x \in DOMAIN subed_quotes'
        PROVE  \/ x \in DOMAIN subed_quotes /\ subed_quotes'[x] = subed_quotes[x]
               \/ subed_quotes'[x].ctm \div Second = 0
    BY <2>1, <2>2 DEF Insert, LastQuote
  <2>4. /\ \A i \in DOMAIN pump.batch : 0 <= pump.batch[i].lasttime
        /\ Waits(0)
    <3>1. /\ pump.batch \in Seq(Ticks) /\ terminal.ticks \in Seq(Ticks)
          /\ terminal.now \in Nat
      BY DEF PumpInv, Times
    <3>2. /\ \A i \in DOMAIN pump.batch : pump.batch[i].lasttime \in Nat
          /\ \A j \in DOMAIN terminal.ticks : terminal.ticks[j].lasttime \in Nat
      BY <3>1, TickTimes
    <3> QED
      BY <3>1, <3>2 DEF Waits
  <2>5. ASSUME NEW x \in DOMAIN subed_quotes'
        PROVE  LET second == subed_quotes'[x].ctm \div Second
               IN  /\ Waits(second)
                   /\ \A i \in DOMAIN pump.batch : second <= pump.batch[i].lasttime
    BY <2>3, <2>4 DEF OrderInv
  <2> QED
    BY <2>1, <2>5 DEF OrderInv, Ordered, Waits, CurrentTick
<1>5. CASE SymbolInfoUpdated
  BY <1>5, OrderInfoUpdated
<1>6. CASE \E ms \in 0..(Second - 1) : OnTick(ms)
  BY <1>6, OrderTick
<1>7. CASE UpdateQuote
  BY <1>7, OrderUpdate
<1>8. CASE Snapshot
  <2>1. /\ pump'.batch = pump.batch /\ pump'.pc # "update"
        /\ UNCHANGED <<terminal, subed_quotes>>
    BY <1>8 DEF Snapshot, PumpInv
  <2> QED
    BY <2>1, OrderPump
<1>9. CASE QuoteCb \/ Defer
  <2>1. UNCHANGED <<terminal, subed_quotes>> /\ pump.batch # <<>>
    BY <1>9 DEF QuoteCb, Defer, PumpInv, Working
  <2>2. \/ pump' = Done(pump)
        \/ \E targets \in {index[CurrentTick.sym]} :
              pump' = [pump EXCEPT !.pc = "defer", !.targets = targets]
    BY <1>9 DEF QuoteCb, Defer, Deferring
  <2>3. /\ pump'.pc # "update"
        /\ pump'.batch = pump.batch \/ pump'.batch = Tail(pump.batch)
    BY <2>2 DEF Done, PumpInv
  <2> QED
    BY <2>1, <2>3, OrderPump
<1>10. CASE \E sym \in Symbols, bid \in Bids, later \in 0..1 : Quoted(sym, bid, later)
  BY <1>10, OrderQuoted
<1>11. \/ UNCHANGED <<terminal, pump, subed_quotes>>
       \/ StartPumping \/ SymbolAdd \/ InsertQuote
       \/ PumpStep \/ QuoteCb \/ Defer
       \/ \E sym \in Symbols, bid \in Bids, later \in 0..1 : Quoted(sym, bid, later)
  BY DEF Next, vars, mvars, LogIn, Open, Closes, Sub, JobStep, NextSymbol, FindQuote,
         SymbolRefused, RunDeferred, Pump
<1> QED
  BY <1>1, <1>2, <1>3, <1>4, <1>5, <1>6, <1>7, <1>8, <1>9, <1>10, <1>11 DEF PumpStep

(* No step at all breaks the invariant.                                    *)
LEMMA IInvNext == IInv /\ OrderInv /\ [Next]_vars => IInv'
<1> SUFFICES ASSUME IInv, OrderInv, [Next]_vars PROVE IInv'
  OBVIOUS
<1>1. CASE LogIn \/ StartPumping
  BY <1>1, StartSafe
<1>2. CASE \E ws \in Sockets : Open(ws) \/ Closes(ws) \/ (\E list \in Lists : Sub(ws, list))
  BY <1>2, OpenSafe, ClosesSafe, SubSafe
<1>3. CASE JobStep
  BY <1>3, JobSafe
<1>4. CASE RunDeferred
  BY <1>4, DeferredSafe
<1>5. CASE \/ Pump
           \/ \E sym \in Symbols, bid \in Bids, later \in 0..1 :
                 Quoted(sym, bid, later) /\ UNCHANGED qvars
  BY <1>5, PumpNext
<1>6. CASE UNCHANGED vars
  BY <1>6, PumpSame, QuoteSame DEF IInv, JobInv, ConnInv, OnlySubscribers, vars, mvars, qvars
<1> QED
  BY <1>1, <1>2, <1>3, <1>4, <1>5, <1>6 DEF Next

(* So it holds of every execution.                                         *)
LEMMA Invariant == Spec => [](IInv /\ OrderInv)
<1>1. Init => OrderInv
  <2>1. DOMAIN <<>> = {}
    OBVIOUS
  <2> QED
    BY <2>1 DEF Init, MInit, OrderInv, Ordered
<1> QED
  BY <1>1, Starts, IInvNext, OrderNext, PTL DEF Spec

(* Quotes go to connections that asked for the symbol and are still there, *)
(* and the index of symbols and the lists of the connections (the message  *)
(* and close handlers) agree, however ticks, messages and closes of any    *)
(* clients are interleaved and whatever addresses are used again.          *)
THEOREM SubscribersOnly == Spec => []OnlySubscribers
BY Invariant, PTL DEF IInv

(* The number that Max or Min chooses.                                     *)
LEMMA Extremes ==
    ASSUME NEW S \in SUBSET Nat, NEW m \in S
    PROVE  /\ (\A x \in S : x <= m) => Max(S) = m
           /\ (\A x \in S : m <= x) => Min(S) = m
<1>1. ASSUME \A x \in S : x <= m PROVE Max(S) = m
  <2>1. \A y \in S : m >= y
    BY <1>1
  <2>2. ASSUME NEW z \in S, \A y \in S : z >= y PROVE z = m
    BY <1>1, <2>2
  <2> QED
    BY <2>1, <2>2 DEF Max
<1>2. ASSUME \A x \in S : m <= x PROVE Min(S) = m
  <2>1. ASSUME NEW z \in S, \A y \in S : z <= y PROVE z = m
    BY <1>2, <2>1
  <2> QED
    BY <1>2, <2>1 DEF Min
<1> QED
  BY <1>1, <1>2

(* UpdateLastQuote makes of each minute the bar of its ticks, of any       *)
(* number of symbols, prices and ticks and whatever the lock is held for   *)
(* in between.                                                             *)
THEOREM BarsExact == Spec => []BarExact
<1>1. IInv => BarExact
  <2> SUFFICES ASSUME IInv, NEW sym \in DOMAIN subed_quotes
               PROVE  LET taken == accepted[sym]
                          minute == {k \in DOMAIN taken :
                                        MinuteOf(taken[k].msc) = MinuteOf(Last(taken).msc)}
                          bids == {taken[k].bid : k \in minute}
                          bar == subed_quotes[sym].lastm1
                      IN IF taken = <<>> THEN bar = NoBar
                         ELSE bar = [t |-> MinuteOf(Last(taken).msc), o |-> taken[Min(minute)].bid,
                                     h |-> Max(bids), l |-> Min(bids), c |-> taken[Max(minute)].bid,
                                     v |-> Cardinality(minute)]
    BY DEF BarExact
  <2> DEFINE taken == accepted[sym]
             minute == Recent(taken)
             bids == {taken[k].bid : k \in minute}
             q == subed_quotes[sym]
             bar == q.lastm1
             n == Len(taken)
  <2>1. sym \in Symbols /\ q \in Quotes /\ taken \in Seq(Taken) /\ Barred(q, taken)
    BY DEF IInv, QuoteInv
  <2> HIDE DEF q, taken
  <2>2. CASE taken = <<>>
    BY <2>1, <2>2 DEF Barred, q, taken
  <2>3. CASE taken # <<>>
    <3>1. /\ q.ctm = Last(taken).msc /\ bar.t = MinuteOf(q.ctm)
          /\ \E k \in minute : bar.o = taken[k].bid /\ \A j \in minute : k <= j
          /\ \E k \in minute : bar.h = taken[k].bid
          /\ \E k \in minute : bar.l = taken[k].bid
          /\ \A k \in minute : bar.l <= taken[k].bid /\ taken[k].bid <= bar.h
          /\ bar.c = Last(taken).bid /\ bar.v = Cardinality(minute)
      BY <2>1, <2>3 DEF Barred
    <3>2. n \in Nat \ {0} /\ DOMAIN taken = 1..n /\ \A k \in 1..n : taken[k] \in Taken
      BY <2>1, <2>3
    <3>3. minute \subseteq 1..n /\ n \in minute /\ Last(taken) = taken[n]
      BY <3>2 DEF Recent, Last
    <3> HIDE DEF minute, n
    <3>4. minute \in SUBSET Nat /\ \A k \in minute : k <= n
      BY <3>2, <3>3
    <3>5. Max(minute) = n
      BY <3>3, <3>4, Extremes
    <3>6. bar.o = taken[Min(minute)].bid
      <4>1. PICK k \in minute : bar.o = taken[k].bid /\ \A j \in minute : k <= j
        BY <3>1
      <4>2. Min(minute) = k
        BY <3>4, <4>1, Extremes
      <4> QED
        BY <4>1, <4>2
    <3>7. bids \in SUBSET Nat
      BY <3>2, <3>3, TickAssumption DEF Taken
    <3>8. bar.h \in bids /\ bar.l \in bids /\ \A x \in bids : bar.l <= x /\ x <= bar.h
      BY <3>1
    <3> HIDE DEF bids
    <3>9. Max(bids) = bar.h /\ Min(bids) = bar.l
      BY <3>7, <3>8, Extremes
    <3>10. bar \in Bars
      BY <2>1 DEF Quotes
    <3>11. bar = [t |-> bar.t, o |-> bar.o, h |-> bar.h, l |-> bar.l, c |-> bar.c, v |-> bar.v]
      BY <3>10 DEF Bars
    <3>12. bar = [t |-> MinuteOf(Last(taken).msc), o |-> taken[Min(minute)].bid,
                  h |-> Max(bids), l |-> Min(bids), c |-> taken[Max(minute)].bid,
                  v |-> Cardinality(minute)]
      BY <3>1, <3>3, <3>5, <3>6, <3>9, <3>11
    <3> QED
      BY <2>3, <3>12 DEF minute, bids, Recent, taken, q
  <2> QED
    BY <2>2, <2>3
<1> QED
  BY <1>1, Invariant, PTL

=============================================================================
