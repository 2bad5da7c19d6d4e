------------------------------ MODULE Cosmetics ------------------------------
(***************************************************************************)
(* What travelers dress up with.  The pilot sells pieces for simulated     *)
(* coins and an admin may refund one (economy/service.ts, migrations 028,  *)
(* 030 and 034); the shop sells items for points, gives some for badges    *)
(* and lets travelers wear what they own (shop/cosmetics.ts,               *)
(* routes/shop.ts, routes/adminShop.ts).  Accounts are travelers, the      *)
(* account that issues coins and the one that retires them.                *)
(***************************************************************************)
EXTENDS Integers, FiniteSets, FiniteSetsExt

CONSTANTS Shoppers,
          Pieces,        \* economic_cosmetics
          PieceCost,
          PurchaseKeys,  \* idempotency keys
          Refunds,       \* requests to refund
          Items,         \* cosmetic_items
          BadgeItems,    \* those with unlock_achievement_id
          ItemPrices,    \* bound: price_points
          Wears,         \* requests to change what is worn
          NoItem,
          Income,        \* bound: coins and points a traveler gets
          CoinReward     \* coins of a reward

ASSUME CosmeticsAssumption ==
  /\ IsFiniteSet(Shoppers) /\ IsFiniteSet(Pieces) /\ IsFiniteSet(Items)
  /\ {"issuance", "retired"} \cap Shoppers = {}
  /\ PieceCost \in [Pieces -> Nat \ {0}] /\ ItemPrices \subseteq Nat \ {0}
  /\ Income \in Nat /\ CoinReward \in Nat \ {0} /\ BadgeItems \subseteq Items

VARIABLES balances,     \* economic_accounts
          transfers,    \* economic_transfers, by transaction
          entitlements, \* economic_entitlements: none, held or refunded
          spendKeys,    \* economic_commands of operation spend
          refundKeys,   \* economic_commands of operation refund
          refund,       \* by request: what it looked up
          purse,       \* users.demo_points
          takings,      \* the treasury of the shop
          stock,      \* cosmetic_items
          closet,        \* user_cosmetics
          badges,       \* achievement_awards not revoked
          worn,         \* user_cosmetic_loadout
          wear          \* by request: the row it read

coinVars == <<balances, transfers, entitlements, spendKeys, refundKeys, refund>>
shopVars == <<purse, takings, stock, closet, badges, worn, wear>>
cosmeticVars == <<coinVars, shopVars>>

CoinAccounts == Shoppers \cup {"issuance", "retired"}
Slots == {"banner", "frame"}
StockRows == [kind : Slots, price : ItemPrices, active : BOOLEAN]
NotOwned == [source |-> "none", spent |-> 0, key |-> NoItem]
NoRefund == [at |-> "idle", of |-> NoItem, by |-> NoItem, key |-> NoItem]
NoWear == [at |-> "idle", by |-> NoItem, next |-> [s \in Slots |-> NoItem]]

-----------------------------------------------------------------------------
(* Coins *)

\* One transaction, one transfer: business_event is unique.
Posted(event) == \E t \in transfers : t.event = event

PostTransfer(event, from, to, amount) ==
  /\ ~Posted(event)
  /\ from = "issuance" \/ balances[from] >= amount
  /\ balances' = [balances EXCEPT ![from] = @ - amount, ![to] = @ + amount]
  /\ transfers' = transfers \cup {[event |-> event, from |-> from, to |-> to, amount |-> amount]}

\* Settled rewards; RewardReservations says when.
EarnCoins(u, n) ==
  /\ PostTransfer(<<"reward", u, n>>, "issuance", u, CoinReward)
  /\ UNCHANGED <<entitlements, spendKeys, refundKeys, refund, shopVars>>

\* Under the lock of the user; a key that was used before only repeats its answer.
PurchasePiece(u, p, k) ==
  /\ spendKeys[u][k] = NoItem
  /\ entitlements[u][p] = "none"
  /\ PostTransfer(<<"cosmetic", u, p>>, u, "retired", PieceCost[p])
  /\ entitlements' = [entitlements EXCEPT ![u][p] = "held"]
  /\ spendKeys' = [spendKeys EXCEPT ![u][k] = p]
  /\ UNCHANGED <<refundKeys, refund, shopVars>>

\* The key is looked up before anything is locked.
LookUpRefund(r, u, p, k) ==
  /\ refund[r].at = "idle"
  /\ Posted(<<"cosmetic", u, p>>)
  /\ refundKeys[k] = NoItem
  /\ refund' = [refund EXCEPT ![r] = [at |-> "looked", of |-> p, by |-> u, key |-> k]]
  /\ UNCHANGED <<balances, transfers, entitlements, spendKeys, refundKeys, shopVars>>

\* The rows are read again under their locks; a key used meanwhile rolls everything back.
RefundPiece(r) ==
  LET u == refund[r].by
      p == refund[r].of
      k == refund[r].key
      source == CHOOSE t \in transfers : t.event = <<"cosmetic", u, p>>
  IN /\ refund[r].at = "looked"
     /\ refund' = [refund EXCEPT ![r] = NoRefund]
     /\ IF entitlements[u][p] = "held" /\ refundKeys[k] = NoItem /\ balances["retired"] >= source.amount
        THEN /\ PostTransfer(<<"refund", u, p>>, source.to, source.from, source.amount)
             /\ entitlements' = [entitlements EXCEPT ![u][p] = "refunded"]
             /\ refundKeys' = [refundKeys EXCEPT ![k] = p]
        ELSE UNCHANGED <<balances, transfers, entitlements, refundKeys>>
     /\ UNCHANGED <<spendKeys, shopVars>>

\* What the reconciliation report lists.
Moved(a) == MapThenSumSet(LAMBDA t : IF t.to = a THEN t.amount ELSE 0, transfers)
            - MapThenSumSet(LAMBDA t : IF t.from = a THEN t.amount ELSE 0, transfers)
AccountDrift == {a \in CoinAccounts : balances[a] # Moved(a)}

-----------------------------------------------------------------------------
(* The shop *)

EarnPoints(u) ==
  /\ purse[u] + MapThenSumSet(LAMBDA i : closet[u][i].spent, Items) < Income
  /\ purse' = [purse EXCEPT ![u] = @ + 1]
  /\ UNCHANGED <<coinVars, takings, stock, closet, badges, worn, wear>>

AwardBadge(u, i) ==
  /\ badges' = [badges EXCEPT ![u] = IF i \in @ THEN @ \ {i} ELSE @ \cup {i}]
  /\ UNCHANGED <<coinVars, purse, takings, stock, closet, worn, wear>>

\* The traveler and the item are locked; the key repeats its answer.
PurchaseItem(u, i, k) ==
  /\ \A j \in Items : closet[u][j].key # k
  /\ stock[i].active /\ i \notin BadgeItems
  /\ closet[u][i] = NotOwned
  /\ purse[u] >= stock[i].price
  /\ purse' = [purse EXCEPT ![u] = @ - stock[i].price]
  /\ takings' = takings + stock[i].price
  /\ closet' = [closet EXCEPT ![u][i] =
       [source |-> "purchase", spent |-> stock[i].price, key |-> k]]
  /\ UNCHANGED <<coinVars, stock, badges, worn, wear>>

\* Mutant for WardrobeHolds: a grant takes the place of a purchase.
GivenTo_Replacing(u, given, source) ==
  [i \in Items |-> IF i \in given THEN [NotOwned EXCEPT !.source = source] ELSE closet[u][i]]
GivenTo(u, given, source) ==
  [i \in Items |-> IF i \in given /\ closet[u][i] = NotOwned
                   THEN [NotOwned EXCEPT !.source = source] ELSE closet[u][i]]

\* Whoever looks at the shop or at the own wardrobe gets the items of the badges.
GrantAchievementCosmetics(u) ==
  /\ closet' = [closet EXCEPT ![u] = GivenTo(u, badges[u], "achievement")]
  /\ UNCHANGED <<coinVars, purse, takings, stock, badges, worn, wear>>

GrantItem(u, i) ==
  /\ closet' = [closet EXCEPT ![u] = GivenTo(u, {i}, "grant")]
  /\ UNCHANGED <<coinVars, purse, takings, stock, badges, worn, wear>>

PatchItem(i, item) ==
  /\ stock' = [stock EXCEPT ![i] = item]
  /\ UNCHANGED <<coinVars, purse, takings, closet, badges, worn, wear>>

\* A request names the slots it changes; the others are read from the table, without a
\* lock, and written back.
BeginWear(r, u, slot, i) ==
  /\ wear[r].at = "idle"
  /\ i # NoItem => closet[u][i] # NotOwned /\ stock[i].kind = slot
  /\ wear' = [wear EXCEPT ![r] = [at |-> "read", by |-> u, next |-> [worn[u] EXCEPT ![slot] = i]]]
  /\ UNCHANGED <<coinVars, purse, takings, stock, closet, badges, worn>>

SaveWear(r) ==
  /\ wear[r].at = "read"
  /\ worn' = [worn EXCEPT ![wear[r].by] = wear[r].next]
  /\ wear' = [wear EXCEPT ![r] = NoWear]
  /\ UNCHANGED <<coinVars, purse, takings, stock, closet, badges>>

-----------------------------------------------------------------------------

CosmeticsInit ==
  /\ balances = [a \in CoinAccounts |-> 0] /\ transfers = {}
  /\ entitlements = [u \in Shoppers |-> [p \in Pieces |-> "none"]]
  /\ spendKeys = [u \in Shoppers |-> [k \in PurchaseKeys |-> NoItem]]
  /\ refundKeys = [k \in PurchaseKeys |-> NoItem] /\ refund = [r \in Refunds |-> NoRefund]
  /\ purse = [u \in Shoppers |-> 0] /\ takings = 0
  /\ stock \in [Items -> {row \in StockRows : row.active /\ row.price = Min(ItemPrices)}]
  /\ closet = [u \in Shoppers |-> [i \in Items |-> NotOwned]]
  /\ badges = [u \in Shoppers |-> {}]
  /\ worn = [u \in Shoppers |-> NoWear.next] /\ wear = [r \in Wears |-> NoWear]

CoinStep ==
  \/ \E u \in Shoppers : \E n \in 1..Income : EarnCoins(u, n)
  \/ \E u \in Shoppers, p \in Pieces, k \in PurchaseKeys :
        PurchasePiece(u, p, k) \/ \E r \in Refunds : LookUpRefund(r, u, p, k)
  \/ \E r \in Refunds : RefundPiece(r)

ShopStep ==
  \/ \E u \in Shoppers : EarnPoints(u) \/ GrantAchievementCosmetics(u)
  \/ \E u \in Shoppers, i \in BadgeItems : AwardBadge(u, i)
  \/ \E u \in Shoppers, i \in Items : GrantItem(u, i) \/ \E k \in PurchaseKeys : PurchaseItem(u, i, k)
  \/ \E i \in Items, item \in StockRows : PatchItem(i, item)
  \/ \E r \in Wears, u \in Shoppers, slot \in Slots, i \in Items \cup {NoItem} :
        BeginWear(r, u, slot, i)
  \/ \E r \in Wears : SaveWear(r)

CosmeticsSpec == CosmeticsInit /\ [][CoinStep \/ ShopStep]_cosmeticVars

-----------------------------------------------------------------------------

CosmeticsTypeOK ==
  /\ balances \in [CoinAccounts -> Int]
  /\ \A a \in CoinAccounts \ {"issuance"} : balances[a] >= 0
  /\ entitlements \in [Shoppers -> [Pieces -> {"none", "held", "refunded"}]]
  /\ spendKeys \in [Shoppers -> [PurchaseKeys -> Pieces \cup {NoItem}]]
  /\ refundKeys \in [PurchaseKeys -> Pieces \cup {NoItem}]
  /\ purse \in [Shoppers -> Nat] /\ takings \in Nat
  /\ \A u \in Shoppers, i \in Items :
       closet[u][i].source \in {"none", "purchase", "achievement", "grant"}
  /\ worn \in [Shoppers -> [Slots -> Items \cup {NoItem}]]

\* Coins are only where transfers put them, the retired ones are the price of the pieces
\* still held, and no purchase is paid back twice, however many requests look it up.
CoinsAccountedFor ==
  /\ AccountDrift = {}
  /\ balances["retired"] = MapThenSumSet(LAMBDA h : PieceCost[h[2]],
       {h \in Shoppers \X Pieces : entitlements[h[1]][h[2]] = "held"})
  /\ \A u \in Shoppers, p \in Pieces :
       Cardinality({t \in transfers : t.event[1] = "refund" /\ t.event[2] = u /\ t.event[3] = p}) =
         (IF entitlements[u][p] = "refunded" THEN 1 ELSE 0)

\* The treasury has what the owners paid, whatever they are given later, and travelers
\* wear only what they own.
ShopAccountedFor ==
  /\ takings = MapThenSumSet(LAMBDA h : closet[h[1]][h[2]].spent, Shoppers \X Items)
  /\ \A u \in Shoppers, s \in Slots : worn[u][s] # NoItem => closet[u][worn[u][s]] # NotOwned

\* Both stores account for what they sold, gave away and took back.
WardrobeHolds == CoinsAccountedFor /\ ShopAccountedFor
=============================================================================
