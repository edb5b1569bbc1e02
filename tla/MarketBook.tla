----------------------------- MODULE MarketBook -----------------------------
(***************************************************************************)
(* The scoped markets' books with the least quantity each level showed in  *)
(* the trailing window, and their strikes: lists beside the owner's state, *)
(* checked against it (decision_v6.rs) and joined to it when a kernel reads *)
(* a market (market_state of projection.rs, MarketState of state.rs).      *)
(*                                                                         *)
(* The owner's books and window history are the host's and external,       *)
(* modelled with what can go wrong in them.  A price is a fraction of One. *)
(***************************************************************************)
EXTENDS ContextTimes

CONSTANTS
    MarketIds,      \* the scoped markets, 1..n in the context's order
    Prices,         \* bid prices
    One,            \* what a yes and a no are worth together
    Quantities,     \* displayed quantities, in hundredths of a contract
    Strikes,        \* strikes in thousandths of a degree Fahrenheit
    CelsiusStrikes, \* strikes in thousandths of a degree Celsius
    MaxBookWindow   \* MAX_BOOK_WINDOW_MS

ASSUME MarketAssumption ==
    /\ IsFiniteSet(MarketIds) /\ MarketIds = 1..Cardinality(MarketIds)
    /\ 1 \in MarketIds /\ 1 \in Prices
    /\ One \in Nat /\ Prices \subseteq 0..One
    /\ Quantities \subseteq Nat \ {0}
    /\ Strikes \subseteq Int /\ CelsiusStrikes \subseteq Int
    /\ MaxBookWindow \in Nat \ {0}

VARIABLES
    markets,  \* the owner's markets
    window,   \* book_window_min: None, or the window and an entry per market
    strikes   \* market_strikes: None, or an entry per market

Sides == {"yes_bids", "no_bids"}

BookLevels == [price : Prices, quantity : Nat]

Books == [Sides -> Seq(BookLevels)]

NoLevels == [side \in Sides |-> << >>]

\* The ticker's optional prices; no ticker is a ticker without any.
Quotes == {"last_price", "yes_ask", "yes_bid", "no_ask", "no_bid"}

Tickers == [Quotes -> Prices \cup {None}]

NoTicker == [quote \in Quotes |-> None]

\* The identity tells a floor in either unit, a cap in Celsius.
Markets ==
    [market_id : MarketIds, book : Books \cup {None}, ticker : Tickers,
     floor_f : Strikes \cup {None}, floor_c : CelsiusStrikes \cup {None},
     cap_c : CelsiusStrikes \cup {None}]

WindowEntries == [market_id : MarketIds, levels : Books]

Windows == [window_ms : Nat, entries : Seq(WindowEntries)]

StrikeEntries == [market_id : MarketIds, cap_f : Strikes \cup {None}]

\* An absent Option is no value.
ASSUME MarketNoneAssumption == None \notin Books /\ None \notin WindowEntries

MarketTypeOK ==
    /\ markets \in Seq(Markets)
    /\ window \in {None} \cup Windows
    /\ strikes \in {None} \cup Seq(StrikeEntries)

-----------------------------------------------------------------------------
(* What a context's lists must be to the owner's markets *)

\* Mutant: only the quantities are compared.
QuantitiesMatch(minimum, book) ==
    /\ Len(minimum) = Len(book)
    /\ \A i \in DOMAIN book : minimum[i].quantity =< book[i].quantity

\* Level for level the decision book's: same prices, never more than displayed now.
LevelsMatch(minimum, book) ==
    /\ Len(minimum) = Len(book)
    /\ \A i \in DOMAIN book :
          /\ minimum[i].price = book[i].price
          /\ minimum[i].quantity =< book[i].quantity

BookOf(market) == IF market.book = None THEN NoLevels ELSE market.book

ValidWindow ==
    window # None =>
        /\ window.window_ms \in 1..MaxBookWindow
        /\ Len(window.entries) = Len(markets)
        /\ \A i, j \in DOMAIN window.entries :
              i # j => window.entries[i].market_id # window.entries[j].market_id
        /\ \A i \in DOMAIN markets :
              /\ window.entries[i].market_id = markets[i].market_id
              /\ \A side \in Sides :
                    LevelsMatch(window.entries[i].levels[side], BookOf(markets[i])[side])

\* Mutant: a cap told in both units is let through.
StrikesOfAnyUnit ==
    strikes # None =>
        /\ Len(strikes) = Len(markets)
        /\ \A i \in DOMAIN markets :
              /\ strikes[i].market_id = markets[i].market_id
              /\ markets[i].floor_f # None /\ strikes[i].cap_f # None =>
                    markets[i].floor_f =< strikes[i].cap_f

\* A cap in one unit only; in Fahrenheit, not below a floor in Fahrenheit.
ValidStrikes ==
    strikes # None =>
        /\ Len(strikes) = Len(markets)
        /\ \A i \in DOMAIN markets :
              /\ strikes[i].market_id = markets[i].market_id
              /\ ~(strikes[i].cap_f # None /\ markets[i].cap_c # None)
              /\ markets[i].floor_f # None /\ strikes[i].cap_f # None =>
                    markets[i].floor_f =< strikes[i].cap_f

ValidMarkets == ValidWindow /\ ValidStrikes

-----------------------------------------------------------------------------
(* What a kernel reads of a market *)

\* derive_levels: an ask is the opposite bid, inverted.
Inverted(levels) ==
    [i \in DOMAIN levels |-> [price |-> One - levels[i].price,
                              quantity |-> levels[i].quantity]]

\* The window's entry is found by the market's id, where the market has a book.
WindowOf(market) ==
    LET Of(entry) == entry.market_id = market.market_id
        found == IF window = None THEN None ELSE FirstWhere(window.entries, Of)
    IN  IF market.book = None \/ found = None THEN None ELSE found.levels

\* The cap in Fahrenheit that is listed for the market.
CapOf(market) ==
    LET Of(strike) == strike.market_id = market.market_id
        found == IF strikes = None THEN None ELSE FirstWhere(strikes, Of)
    IN  IF found = None THEN None ELSE found.cap_f

\* A strike as it is read, in fifths of a thousandth of a degree Fahrenheit: the one in
\* Fahrenheit, else the one in Celsius, converted (c * 9 / 5 + 32).
StrikeRead(fahrenheit, celsius) ==
    IF fahrenheit # None THEN 5 * fahrenheit
    ELSE IF celsius # None THEN 9 * celsius + 160000
    ELSE None

\* The first of the quotes that the ticker tells; 0 where it tells none.
FirstQuoted(ticker, quotes) ==
    LET Told(quote) == ticker[quote] # None
        found == FirstWhere(quotes, Told)
    IN  IF found = None THEN 0 ELSE ticker[found]

YesPrice(ticker) == FirstQuoted(ticker, <<"last_price", "yes_ask", "yes_bid">>)

NoPrice(ticker) ==
    IF ticker["last_price"] # None THEN One - ticker["last_price"]
    ELSE FirstQuoted(ticker, <<"no_ask", "no_bid">>)

ReadMarket(market) ==
    LET book == BookOf(market)
    IN  [market_id |-> market.market_id,
         yes_bid_levels |-> book["yes_bids"], yes_ask_levels |-> Inverted(book["no_bids"]),
         no_bid_levels |-> book["no_bids"], no_ask_levels |-> Inverted(book["yes_bids"]),
         yes_price |-> YesPrice(market.ticker), no_price |-> NoPrice(market.ticker),
         window_min |-> WindowOf(market),
         floor_strike |-> StrikeRead(market.floor_f, market.floor_c),
         cap_strike |-> StrikeRead(CapOf(market), market.cap_c)]

-----------------------------------------------------------------------------
(* The owner's books and the host's window history (external) *)

\* Levels are kept best first; a quantity of 0 takes the level away.
WithLevel(levels, price, quantity) ==
    LET Better(level) == level.price > price
        Worse(level) == level.price < price
    IN  Selected(levels, Better)
            \o (IF quantity = 0 THEN << >> ELSE <<[price |-> price, quantity |-> quantity]>>)
            \o Selected(levels, Worse)

\* A level's minimum: what it was before and what it shows now; 0 where the history does
\* not cover the level.
Minima(levels, before) ==
    [i \in DOMAIN levels |->
        LET At(level) == level.price = levels[i].price
            held == FirstWhere(before, At)
        IN  [price |-> levels[i].price,
             quantity |-> IF held = None THEN 0
                          ELSE IF held.quantity < levels[i].quantity THEN held.quantity
                          ELSE levels[i].quantity]]

\* A level changes and the window's history with it, or (a slip) the history lags behind.
BookDelta ==
    \E i \in DOMAIN markets, side \in Sides, price \in Prices,
       quantity \in Quantities \cup {0}, slip \in {"none", "stale"} :
        LET levels == WithLevel(BookOf(markets[i])[side], price, quantity)
        IN  /\ markets' = [markets EXCEPT ![i].book = [BookOf(markets[i]) EXCEPT
                                                          ![side] = levels]]
            /\ window' = IF slip = "stale" \/ window = None THEN window
                         ELSE [window EXCEPT !.entries[i].levels[side] = Minima(levels, @)]
            /\ UNCHANGED strikes

\* The Sleeve asks for the window: an entry per market, all of its history or none yet.
WindowAsked ==
    \E window_ms \in {0, MaxBookWindow, MaxBookWindow + 1}, covered \in BOOLEAN,
       swapped \in BOOLEAN :
        LET LevelsOf(market) == [side \in Sides |->
                Minima(BookOf(market)[side],
                       IF covered THEN BookOf(market)[side] ELSE << >>)]
            Of(i) == IF swapped THEN Len(markets) + 1 - i ELSE i
        IN  /\ window' = [window_ms |-> window_ms,
                          entries |-> [i \in DOMAIN markets |->
                              [market_id |-> markets[Of(i)].market_id,
                               levels |-> LevelsOf(markets[Of(i)])]]]
            /\ UNCHANGED <<markets, strikes>>

\* The book is taken down until the next snapshot.
BookResync ==
    \E i \in DOMAIN markets, slip \in BOOLEAN :
        /\ markets[i].book # None
        /\ markets' = [markets EXCEPT ![i].book = None]
        /\ window' = IF slip \/ window = None THEN window
                     ELSE [window EXCEPT !.entries[i].levels = NoLevels]
        /\ UNCHANGED strikes

\* The ticker tells another price of one of its quotes, or no longer tells it.
Traded ==
    \E i \in DOMAIN markets, quote \in Quotes, price \in Prices \cup {None} :
        /\ markets' = [markets EXCEPT ![i].ticker = [markets[i].ticker EXCEPT
                                                        ![quote] = price]]
        /\ UNCHANGED <<window, strikes>>

\* A market's strikes become known, each in either unit; a slip lists the caps by the
\* wrong market.
StrikesKnown ==
    \E floor_f, cap_f \in Strikes \cup {None}, floor_c, cap_c \in CelsiusStrikes \cup {None},
       swapped \in BOOLEAN :
        LET Of(i) == IF swapped THEN Len(markets) + 1 - i ELSE i
        IN  /\ markets' = [markets EXCEPT ![1] = [markets[1] EXCEPT
                              !.floor_f = floor_f, !.floor_c = floor_c, !.cap_c = cap_c]]
            /\ strikes' = [i \in DOMAIN markets |->
                  [market_id |-> markets[Of(i)].market_id,
                   cap_f |-> IF Of(i) = 1 THEN cap_f ELSE None]]
            /\ UNCHANGED window

\* One market has a bid; the window is not asked for, or covers it.
MarketInit ==
    /\ markets = [i \in 1..Cardinality(MarketIds) |->
          [market_id |-> i,
           book |-> IF i = 1
                    THEN [NoLevels EXCEPT !["yes_bids"] = <<[price |-> 1, quantity |-> 1]>>]
                    ELSE None,
           ticker |-> NoTicker, floor_f |-> None, floor_c |-> None, cap_c |-> None]]
    /\ window \in {None,
          [window_ms |-> MaxBookWindow,
           entries |-> [i \in DOMAIN markets |->
               [market_id |-> i, levels |-> BookOf(markets[i])]]]}
    /\ strikes = None

MarketFold ==
    \/ BookDelta
    \/ WindowAsked
    \/ BookResync
    \/ Traded
    \/ StrikesKnown

-----------------------------------------------------------------------------
(* Properties *)

\* What a kernel reads beside a level as its least quantity in the window is of that market,
\* side and price and no more than can be hit there now, on the bid and on the ask it makes
\* on the other side, however the history lags behind the book; a cap that the market tells
\* in Celsius is the one read, and a bracket with both strikes in Fahrenheit is not empty.
\* Strikes of two units are compared by no rule.
\* (validate_book_window_min, validate_market_strikes; market_state, derive_levels.)
WindowIsOfTheBook ==
    ValidMarkets =>
        \A i \in DOMAIN markets :
            LET read == ReadMarket(markets[i])
                NoMore(least, levels, asks) ==
                    /\ DOMAIN least = DOMAIN levels
                    /\ \A n \in DOMAIN levels :
                          /\ least[n].price = levels[n].price
                          /\ least[n].quantity =< levels[n].quantity
                          /\ least[n].price + asks[n].price = One
                          /\ least[n].quantity =< asks[n].quantity
            IN  /\ read.window_min # None =>
                      /\ NoMore(read.window_min["yes_bids"], read.yes_bid_levels,
                                read.no_ask_levels)
                      /\ NoMore(read.window_min["no_bids"], read.no_bid_levels,
                                read.yes_ask_levels)
                /\ window # None /\ markets[i].book # None => read.window_min # None
                /\ markets[i].cap_c # None =>
                      read.cap_strike = StrikeRead(None, markets[i].cap_c)
                /\ markets[i].floor_f # None /\ CapOf(markets[i]) # None =>
                      read.floor_strike =< read.cap_strike
=============================================================================
