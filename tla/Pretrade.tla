------------------------------ MODULE Pretrade ------------------------------
(***************************************************************************)
(* What stands between an order and its approval: the risk gate that       *)
(* accepts or refuses the intent of a preview, and the six rows of facts   *)
(* shown beside a PAPER and a LIVE confirmation.  The facts block nothing  *)
(* themselves; they announce what the gates will do.                       *)
(*                                                                         *)
(* Prices and money are whole units, quantities are counted in 1/Unit of a *)
(* share, so that fractional shares exist; products are exact, as the      *)
(* decimals of the code are.  A currency is known by its market.           *)
(* Malformed numbers are refused before (parse_decimal_input) and left out.*)
(***************************************************************************)
EXTENDS Integers, FiniteSetsExt, Absent

CONSTANTS
  Unit,      \* parts of a share
  Cap        \* Cap[market]: RiskLimits

ASSUME PretradeAssumption ==
  /\ Unit \in Nat \ {0}
  /\ Cap \in [{"kr", "us"} -> Nat]

(* TERMINAL_OPEN_ORDER_STATUSES; any other status, known or not, is open.  *)
Terminal == {"FILLED", "CANCELED", "REJECTED", "REPLACED", "CANCEL_REJECTED", "REPLACE_REJECTED"}

UnitPrice(intent) == IF intent.type = "LIMIT" THEN intent.limit ELSE intent.reference

(* RiskGate.estimate, in 1/Unit of the currency *)
Estimate(intent) == intent.quantity * UnitPrice(intent)

Covers(money, amount) == Unit * money >= amount

WholeSharesOnly(intent) ==
  \/ intent.market = "kr"
  \/ intent.type = "LIMIT"
  \/ intent.side = "BUY"

(* RiskGate.validate raises nothing. *)
RiskGateAccepts(intent) ==
  /\ IF intent.side = "SELL" THEN intent.quantity <= intent.holding
                             ELSE Covers(intent.power, Estimate(intent))
  /\ WholeSharesOnly(intent) => intent.quantity % Unit = 0
  /\ Covers(Cap[intent.market], Estimate(intent))

(* fingerprint_payload: all that is sent, and the reference price, but not *)
(* the account data the gate compares it with.                             *)
Fingerprint(intent) ==
  [f \in {"symbol", "market", "side", "type", "quantity", "limit", "reference"} |-> intent[f]]

(* build_preview, where the risk gate raises nothing *)
Preview(intent) ==
  [intent |-> intent, estimated |-> Estimate(intent), fingerprint |-> Fingerprint(intent)]

(* create_live_plan takes a preview only if nothing in it was altered. *)
PlanAccepts(preview) ==
  /\ preview.fingerprint = Fingerprint(preview.intent)
  /\ preview.estimated = Estimate(preview.intent)

(* _revalidate_live_preview: the same order against a fresh account. *)
Revalidates(intent, holding, power) ==
  LET fresh == [intent EXCEPT !.holding = holding, !.power = power]
  IN  RiskGateAccepts(fresh) /\ Preview(fresh).fingerprint = Fingerprint(intent)

(* find_open_order_duplicates *)
OpenOrdersOn(orders, symbol, side) ==
  {o \in orders : o.symbol = symbol /\ o.side = side /\ o.status \notin Terminal}

Duplicates(intent, orders) == OpenOrdersOn(orders, intent.symbol, intent.side)

-----------------------------------------------------------------------------
(* _best_bid_ask: a book in another currency has no best prices. *)
OwnBook(intent, quote) == quote.book # None /\ quote.book.market = intent.market

Complete(book) == book.bid # None /\ book.ask # None

BookUsable(intent, quote) ==
  /\ OwnBook(intent, quote) /\ quote.bookFresh
  /\ Complete(quote.book) /\ quote.book.bid <= quote.book.ask

QuoteRow(quote) == IF quote.quoteFresh THEN "PASS" ELSE "BLOCK"

BestQuoteRow(intent, quote) ==
  CASE ~OwnBook(intent, quote) \/ ~quote.bookFresh -> "UNAVAILABLE"
    [] OwnBook(intent, quote) /\ quote.bookFresh ->
         IF ~Complete(quote.book) THEN "UNAVAILABLE"
         ELSE IF quote.book.ask < quote.book.bid THEN "WARN" ELSE "PASS"

OtherSide(intent, book) == IF intent.side = "BUY" THEN book.ask ELSE book.bid

(* _reference_execution_price: a price, or None, and how far to trust it. *)
Reference(intent, quote) ==
  CASE intent.type = "LIMIT" -> [price |-> intent.limit, status |-> "PASS"]
    [] intent.type = "MARKET" /\ BookUsable(intent, quote) ->
         [price |-> OtherSide(intent, quote.book), status |-> "PASS"]
    [] intent.type = "MARKET" /\ ~BookUsable(intent, quote) ->
         [price |-> quote.last, status |-> IF quote.last = None THEN "UNAVAILABLE" ELSE "WARN"]

Notional(intent, quote) ==
  LET price == Reference(intent, quote).price
  IN  IF price = None THEN None ELSE intent.quantity * price

NotionalRow(intent, quote) == IF Notional(intent, quote) = None THEN "UNAVAILABLE" ELSE "PASS"

ForMode(mode, paper, live) == IF mode = "PAPER" THEN paper ELSE live

PowerReached(intent) == Unit * intent.power <= Estimate(intent)  \* mutant

PowerExceeded(intent) == ~Covers(intent.power, Estimate(intent))

BuyingPowerRow(intent, quote, mode) ==
  LET shown == Notional(intent, quote)
  IN  IF PowerExceeded(intent) THEN "BLOCK"
      ELSE IF shown = None THEN "UNAVAILABLE"
      ELSE IF ~Covers(intent.power, shown) THEN "WARN"
      ELSE ForMode(mode, "PASS", "WARN")

ReservesNothing(intent, orders) == 0     \* mutant: open sells are not deducted

Remaining(orders) == [o \in orders |-> o.remaining]

Reserved(intent, orders) ==
  SumFunctionOnSet(Remaining(orders), OpenOrdersOn(orders, intent.symbol, "SELL"))

(* _sellable_quantity *)
Sellable(intent, orders) == Max({intent.holding - Reserved(intent, orders), 0})

SellRow(intent, orders, mode) ==
  IF intent.quantity > intent.holding THEN "BLOCK"
  ELSE IF orders = None THEN "UNAVAILABLE"
  ELSE IF intent.quantity > Sellable(intent, orders) THEN "WARN"
  ELSE ForMode(mode, "PASS", "WARN")

AccountRow(intent, quote, orders, mode) ==
  IF intent.side = "BUY" THEN BuyingPowerRow(intent, quote, mode) ELSE SellRow(intent, orders, mode)

DuplicateRow(intent, orders, mode) ==
  IF orders = None THEN "UNAVAILABLE"
  ELSE IF Duplicates(intent, orders) # {} THEN ForMode(mode, "WARN", "BLOCK")
  ELSE ForMode(mode, "PASS", "WARN")

(* build_pretrade_facts *)
Facts(intent, quote, orders, mode) ==
  [quote |-> QuoteRow(quote), best |-> BestQuoteRow(intent, quote),
   reference |-> Reference(intent, quote).status, notional |-> NotionalRow(intent, quote),
   account |-> AccountRow(intent, quote, orders, mode),
   duplicates |-> DuplicateRow(intent, orders, mode)]

Rows(facts) == {facts[row] : row \in DOMAIN facts}

HasBlock(facts) == "BLOCK" \in Rows(facts)

(* overall_status: the most urgent row *)
Overall(facts) ==
  LET Urgency == [PASS |-> 0, UNAVAILABLE |-> 1, WARN |-> 2, BLOCK |-> 3]
  IN  CHOOSE s \in Rows(facts) : \A r \in Rows(facts) : Urgency[r] <= Urgency[s]

-----------------------------------------------------------------------------
(* The submission of this order, with the account and the orders it was    *)
(* shown with: freshness test, revalidation, duplicate check.              *)
SubmissionPasses(intent, quote, orders) ==
  /\ quote.quoteFresh
  /\ PlanAccepts(Preview(intent))
  /\ Revalidates(intent, intent.holding, intent.power)
  /\ Duplicates(intent, orders) = {}

(* The facts of a preview never announce a block that no gate enforces,    *)
(* and a LIVE approval never hides one: with the open orders known, a row  *)
(* says BLOCK exactly when the submission on these data would be refused.  *)
(* A fresh account refuses it for what it holds, never for having changed. *)
FactsMatchTheGates(intent, quote, orders) ==
  RiskGateAccepts(intent) =>
    /\ HasBlock(Facts(intent, quote, orders, "PAPER")) <=> ~quote.quoteFresh
    /\ orders # None =>
         (HasBlock(Facts(intent, quote, orders, "LIVE")) <=> ~SubmissionPasses(intent, quote, orders))
    /\ \A power \in {0, intent.power + 1}, holding \in {0, intent.holding + 1} :
         Revalidates(intent, holding, power) <=>
           IF intent.side = "SELL" THEN intent.quantity <= holding
                                   ELSE Covers(power, Estimate(intent))

(* PASS is never said of what is not known or does not suffice: a sale     *)
(* fits into the holding beside all open sales, a purchase into the buying *)
(* power at both prices, a market price comes from the opposite side of a  *)
(* fresh own book; a LIVE screen, read before the fresh reads, promises    *)
(* nothing of the account; and where PAPER is all PASS, LIVE blocks nothing.*)
NoUnfoundedPass(intent, quote, orders) ==
  LET paper == Facts(intent, quote, orders, "PAPER")
      live == Facts(intent, quote, orders, "LIVE")
  IN RiskGateAccepts(intent) =>
    /\ paper.account = "PASS" /\ intent.side = "SELL" =>
         \A sold \in SUBSET {o \in orders : o.symbol = intent.symbol /\ o.side = "SELL"
                                           /\ o.status \notin Terminal} :
           intent.quantity + SumFunction(Remaining(sold)) <= intent.holding
    /\ paper.account = "PASS" /\ intent.side = "BUY" =>
         \A price \in {UnitPrice(intent), Reference(intent, quote).price} :
           Covers(intent.power, intent.quantity * price)
    /\ paper.reference = "PASS" /\ intent.type = "MARKET" =>
         /\ paper.best = "PASS"
         /\ Reference(intent, quote).price \in
              {IF intent.side = "BUY" THEN quote.book.ask ELSE quote.book.bid}
    /\ live.account # "PASS" /\ live.duplicates # "PASS"
    /\ Overall(paper) = "PASS" =>
         ~HasBlock(live) /\ SubmissionPasses(intent, quote, orders)
=============================================================================
