---------------------------- MODULE MCMarketFeed ----------------------------
(***************************************************************************)
(* Histories of the model: a Kalshi market whose book crosses and thins    *)
(* out, one that is empty for a while, and a Polymarket market whose       *)
(* messages change two tokens.                                             *)
(***************************************************************************)
EXTENDS MarketFeed

Change(s, p, q, a) == [side |-> s, price |-> p, quantity |-> q, action |-> a]
Token(t, s, p, q)  == [asset_id |-> t, side |-> s, price |-> p, size |-> q]

MCTrades == {[trade_id |-> "t1", yes |-> 60, count |-> 2, taker |-> "yes"]}

MCTokenTrades == {[asset_id |-> "A", price |-> 40, side |-> "SELL", size |-> 2,
                   hash |-> "h1", time |-> 7]}

MCHistories ==
  [kalshi |->
     {[opening |-> [yes |-> (40 :> 5), no |-> (50 :> 3)],
       changes |-> <<Change("no", 60, 4, "insert"), Change("yes", 40, None, "delete"),
                     Change("yes", 45, 1, "update")>>,
       trades  |-> {}, calls |-> {}],
      [opening |-> [yes |-> (40 :> 5), no |-> <<>>],
       changes |-> <<Change("yes", 40, 0, "update"), Change("no", 30, 2, "insert")>>,
       trades  |-> {}, calls |-> {}],
      [opening |-> [yes |-> (40 :> 5), no |-> <<>>],
       changes |-> <<>>,
       trades  |-> MCTrades, calls |-> {}]},
   polymarket |->
     {[opening |-> [BUY |-> (40 :> 5), SELL |-> (60 :> 3)],
       changes |-> <<<<Token("B", "BUY", 50, 1)>>,
                     <<Token("A", "BUY", 40, 0), Token("B", "SELL", 55, 2),
                       Token("A", "BUY", 45, 1)>>>>,
       trades  |-> {}, calls |-> {}],
      [opening |-> [BUY |-> (40 :> 5), SELL |-> (60 :> 3)],
       changes |-> <<<<Token("A", "SELL", 60, 1), Token("B", "BUY", 30, 1)>>>>,
       trades  |-> {}, calls |-> {"u2", "u3"}],
      [opening |-> [BUY |-> (40 :> 5), SELL |-> <<>>],
       changes |-> <<>>,
       trades  |-> MCTokenTrades, calls |-> {}]}]

MCMaxFaults == [kalshi |-> 2, polymarket |-> 1]

MCUpdatePlan ==
  [u2 |-> [operation |-> "unsubscribe", token_ids |-> {"A"}],
   u3 |-> [operation |-> "subscribe", token_ids |-> {"A"}]]
=============================================================================
