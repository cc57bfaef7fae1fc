--------------------------- MODULE PortfolioView ---------------------------
(***************************************************************************)
(* What the portfolio screen calculates from one snapshot (portfolio): the *)
(* sellable quantity and the weight of a holding, totals by currency and   *)
(* their reference value in won.  A currency is known by its market; a     *)
(* holding is a record of its symbol, market, quantity and amounts, the    *)
(* holdings a sequence, as the snapshot has them.  Texts are left out.     *)
(***************************************************************************)
EXTENDS Pretrade, Sequences

(* sellable_quantity *)
SellableQuantity(item, orders) ==
  Max({item.quantity - SumFunctionOnSet(Remaining(orders), OpenOrdersOn(orders, item.symbol, "SELL")), 0})

EveryMarket(items, market) == DOMAIN items  \* mutant: currencies are mixed

(* the places of the holdings in one currency *)
SameCurrency(items, market) == {i \in DOMAIN items : items[i].market = market}

Amounts == {"purchase", "value", "profit", "daily"}

(* Sum of an amount of the holdings in one currency. *)
Total(items, market, amount) ==
  SumFunctionOnSet([i \in DOMAIN items |-> items[i][amount]], SameCurrency(items, market))

(* portfolio_weight, a fraction in percent, or None: one negative value    *)
(* spoils the weights of its currency.                                     *)
Weight(item, items) ==
  LET total == Total(items, item.market, "value")
  IN  IF \/ item.value < 0 \/ total <= 0
         \/ \E i \in SameCurrency(items, item.market) : items[i].value < 0
      THEN None ELSE <<100 * item.value, total>>

(* _per_currency_totals *)
Totals(items, market) == [a \in Amounts |-> Total(items, market, a)]

(* totals_section_text: the rate of the profit *)
TotalRate(items, market) ==
  LET totals == Totals(items, market)
  IN  IF totals.purchase = 0 THEN None ELSE <<100 * totals.profit, totals.purchase>>

(* exchange_rate_section_text: values and profits, never purchases, in won *)
InWon(items, mid) ==
  [a \in Amounts \ {"purchase"} |-> Totals(items, "kr")[a] + mid * Totals(items, "us")[a]]

-----------------------------------------------------------------------------
(* Every holding is counted once, in its own currency: the weights of a    *)
(* currency are all unknown or add up to 100, the value in won is that of  *)
(* the holdings one by one, and where the rate of profit is known for each *)
(* holding the total lies between the least and the greatest of them.      *)
HoldingsAddUp(items, mid) ==
  LET own(market) == {i \in DOMAIN items : items[i].market = market}
      weight(i) == Weight(items[i], items)
      rates(market) == {TotalRate(<<items[i]>>, market) : i \in own(market)}
      NoGreater(a, b) == a[1] * b[2] <= b[1] * a[2]
  IN  /\ \A market \in {items[i].market : i \in DOMAIN items} :
           /\ \/ \A i \in own(market) : weight(i) = None
              \/ \A i \in own(market) :
                   /\ weight(i) # None /\ 0 <= weight(i)[1] /\ weight(i)[1] <= 100 * weight(i)[2]
                   /\ SumFunction([j \in own(market) |-> weight(j)[1]]) = 100 * weight(i)[2]
           /\ None \notin rates(market) =>
                /\ \E r \in rates(market) : NoGreater(r, TotalRate(items, market))
                /\ \E r \in rates(market) : NoGreater(TotalRate(items, market), r)
      /\ \A a \in DOMAIN InWon(items, mid) :
           InWon(items, mid)[a] = SumFunction([i \in DOMAIN items |-> InWon(<<items[i]>>, mid)[a]])

(* What the portfolio calls sellable is what a ticket may sell: the PAPER  *)
(* facts of a sale of the holding pass exactly up to it.                   *)
SellableAgreesWithTheTicket(item, orders) ==
  \A n \in 1 .. item.quantity :
    LET intent == [symbol |-> item.symbol, market |-> item.market, side |-> "SELL",
                   quantity |-> n, holding |-> item.quantity]
    IN  SellRow(intent, orders, "PAPER") = "PASS" <=> n <= SellableQuantity(item, orders)
=============================================================================
