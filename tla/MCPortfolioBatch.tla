-------------------------- MODULE MCPortfolioBatch --------------------------
(* Two sales at different prices and a purchase that closes part of them.    *)
EXTENDS PortfolioBatch

Trade(rank, side, quantity, price, at) ==
    [id |-> rank, rank |-> rank, contract |-> "yes", side |-> side, quantity |-> quantity,
     price |-> price, fee |-> None, rebate |-> None, currency |-> "USD", at |-> at,
     received |-> at]

MCFills == {Trade(1, "sell", 4, 96000, 1), Trade(2, "sell", 29, 93000, 2),
            Trade(3, "buy", 17, 86000, 3)}
=============================================================================
