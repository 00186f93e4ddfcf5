-------------------------- MODULE MCPortfolioStore --------------------------
(* A small portfolio: one contract, two balances, prices in hundredths.  The *)
(* second fill leaves an average that has to be rounded; it happens at the   *)
(* instant of the transfer and of the settlement, so that the order in which *)
(* they are posted matters.  The last job corrects the settlement.           *)
EXTENDS PortfolioStore, TLC

CONSTANTS s1, s2

Cash(available, reserved) ==
    [currency |-> "USD", available |-> available, reserved |-> reserved,
     total |-> available + reserved, captured_at |-> 0, version |-> 0]

Fill(id, side, quantity, price, fee, rebate, at) ==
    [kind |-> "fill", id |-> id, contract |-> "yes", balance |-> "main", currency |-> "USD",
     side |-> side, quantity |-> quantity, price |-> price, fee |-> fee, rebate |-> rebate,
     at |-> at]

CashItem(kind, id, amount, currency, at) ==
    [kind |-> kind, id |-> id, balance |-> "main", currency |-> currency, amount |-> amount,
     at |-> at]

MCOpening == [b \in {"main", "side"} |-> IF b = "main" THEN Cash(500, 20) ELSE Cash(100, 0)]

Moved(source, target, at) ==
    [kind |-> "transfer", id |-> "t1", source |-> source, target |-> target, amount |-> 30,
     currency |-> "USD", at |-> at]

MCExchange ==
    <<CashItem("rebate", "r1", 7, "USD", 1),
      [kind |-> "observed", balance |-> "main", available |-> 510, total |-> 530,
       currency |-> "USD", reference |-> "o1", at |-> 2],
      Fill("f1", "buy", 2, 40, 1, None, 3),
      CashItem("fee", "e1", 3, "USD", 4),
      Moved("main", "side", 5),
      Fill("f2", "buy", 1, 75, None, 2, 5),
      [kind |-> "settlement", contract |-> "yes", balance |-> "main", settlement |-> "won",
       at |-> 5],
      [kind |-> "correction", contract |-> "yes", balance |-> "main", previous |-> "won",
       settlement |-> "lost", at |-> 6]>>

MCDeliverable == {MCExchange[n] : n \in 5 .. 8}
MCAnnounced == {MCExchange[6]}

MCSettlements ==
    [won |-> [id |-> "won", status |-> "settled", settled_at |-> 5, payout |-> 100,
              currency |-> "USD", winners |-> {"yes"}, corrects |-> None],
     lost |-> [id |-> "lost", status |-> "corrected", settled_at |-> 6, payout |-> 100,
               currency |-> "USD", winners |-> {"no"}, corrects |-> "won"]]

Symmetry == Permutations(Sessions)
=============================================================================
