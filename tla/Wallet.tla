------------------------------- MODULE Wallet -------------------------------
(***************************************************************************)
(* A user's coins: the emulated payments (PaymentService) and the shop     *)
(* (ShopService.purchase).  A request's handler has a session of its own:  *)
(* it reads rows, computes, and commits columns with absolute values,      *)
(* while handlers of the same user run beside it.  The database isolates   *)
(* at READ COMMITTED: a statement sees the last commit, and an UPDATE      *)
(* waits for whoever has already updated the row and not yet committed.    *)
(*                                                                         *)
(* Abstractions.  The flags of a payment are the keys of its metadata; the *)
(* five scenarios that only set a status are one, "failed".  A             *)
(* registration is read in the step that commits it.  reserved_until and   *)
(* the events of a payment decide nothing: they are left out.              *)
(***************************************************************************)
EXTENDS Integers, FiniteSets, Functions

CONSTANTS
    Handlers,       \* the requests that can be in flight together
    EntryPayments,  \* payment intents for the entry of a tournament
    MatchPayments,  \* payment intents for a scheduled match
    Amount,         \* amount_cents of each
    Items,
    Consumables,    \* the items that can be bought again
    Price,
    StartCoins,
    MaxRequests     \* bound on the simulations and purchases

Payments == EntryPayments \cup MatchPayments

ASSUME WalletAssumption ==
    /\ EntryPayments \cap MatchPayments = {}
    /\ IsFiniteSet(Payments) /\ Amount \in [Payments -> Nat]
    /\ IsFiniteSet(Items) /\ Consumables \subseteq Items
    /\ Price \in [Items -> Nat]
    /\ StartCoins \in Nat /\ MaxRequests \in Nat

VARIABLES
    coins,          \* users.coins
    payment,        \* payment_intents
    registration,   \* the status of the user's row in tournament_players
    paid,           \* payment_status of the match is "paid"
    owned,          \* the quantity in user_shop_items, 0 without a row
    arrived,        \* how many simulations and purchases so far
    job,            \* what each handler holds in memory
    outdated        \* a handler has written coins over rows changed since it read them

walletVars == <<coins, payment, registration, paid, owned, arrived, job, outdated>>

PaymentRows ==
    [status : {"none", "created", "succeeded", "failed", "refunded"},
     debited : BOOLEAN, refunded : BOOLEAN]
NoPayment == [status |-> "none", debited |-> FALSE, refunded |-> FALSE]
NoJob == [at |-> "idle"]

WalletInit ==
    /\ coins = StartCoins
    /\ payment = [p \in Payments |-> NoPayment]
    /\ registration = "none"
    /\ paid = FALSE
    /\ owned = [i \in Items |-> 0]
    /\ arrived = 0
    /\ job = [h \in Handlers |-> NoJob]
    /\ outdated = FALSE

Hold(h, held) == job' = [job EXCEPT ![h] = held]
Reply(h) == Hold(h, NoJob)

\* The ORM writes a column whose value differs from the one it loaded.
Put(stored, loaded, value) == IF value # loaded THEN value ELSE stored

Arrives(h) ==
    /\ job[h] = NoJob
    /\ arrived < MaxRequests
    /\ arrived' = arrived + 1

-----------------------------------------------------------------------------
(* Payments. *)

\* create_entry_payment and create_scheduled_match_payment.
CreatePayment(p) ==
    /\ payment[p] = NoPayment
    /\ payment' = [payment EXCEPT ![p].status = "created"]
    /\ UNCHANGED <<coins, registration, paid, owned, arrived, job, outdated>>

\* simulate_payment reads the payment to check its owner; simulate gets the same
\* object again.
Simulate(h, p, scenario) ==
    /\ payment[p] # NoPayment
    /\ Arrives(h)
    /\ Hold(h, [at |-> "flush", of |-> p, scenario |-> scenario, row |-> payment[p]])
    /\ UNCHANGED <<coins, payment, registration, paid, owned, outdated>>

\* The row is locked from its UPDATE, before the user is read, to the commit.
RowIsFree(h, p) ==
    \A g \in Handlers \ {h} : ~(job[g].at = "settle" /\ job[g].of = p)

SettleFailed(h) ==
    LET p == job[h].of
    IN  /\ job[h].at = "flush" /\ job[h].scenario = "failed"
        /\ RowIsFree(h, p)
        /\ payment' = [payment EXCEPT ![p].status = Put(@, job[h].row.status, "failed")]
        /\ Reply(h)
        /\ UNCHANGED <<coins, registration, paid, owned, arrived, outdated>>

ReadUser(h) ==
    /\ job[h].at = "flush" /\ job[h].scenario # "failed"
    /\ RowIsFree(h, job[h].of)
    /\ Hold(h, [at |-> "settle", of |-> job[h].of, scenario |-> job[h].scenario,
                row |-> job[h].row, coins |-> coins])
    /\ UNCHANGED <<coins, payment, registration, paid, owned, arrived, outdated>>

\* Mutant: a payment that cannot be afforded succeeds without a charge.
ChargeOrPass(row, amount, balance) ==
    IF row.debited \/ amount > balance THEN {"none"} ELSE {"charge"}

\* apply_wallet_charge: nothing is left to do once the payment is debited, and
\* nothing may be done (402) if the balance does not reach.
WalletCharge(row, amount, balance) ==
    IF row.debited THEN {"none"} ELSE IF amount > balance THEN {} ELSE {"charge"}

\* Mutant: a refunded payment can be refunded again.
RefundAgain(row) == row.debited

\* apply_wallet_refund.
RefundIsDue(row) == row.debited /\ ~row.refunded

\* What a handler commits: the status, and with a change of the coins the flags.
Settle(h, status, change) ==
    LET p == job[h].of
        row == job[h].row
        flags(r) == <<r.debited, r.refunded>>
        stored == [payment[p] EXCEPT !.status = Put(@, row.status, status)]
    IN  /\ \/ /\ change = "none"
              /\ payment' = [payment EXCEPT ![p] = stored]
              /\ UNCHANGED <<coins, outdated>>
           \/ /\ change # "none"
              /\ payment' = [payment EXCEPT ![p] =
                        [stored EXCEPT !.debited = TRUE, !.refunded = (change = "refund")]]
              /\ coins' = job[h].coins + (IF change = "refund" THEN Amount[p] ELSE -Amount[p])
              /\ outdated' = (outdated \/ coins # job[h].coins \/ flags(payment[p]) # flags(row))
        /\ Reply(h)

\* A success confirms the registration, or that the match is paid for.
SettleSuccess(h) ==
    LET p == job[h].of
    IN  /\ job[h].at = "settle" /\ job[h].scenario = "success"
        /\ \E change \in WalletCharge(job[h].row, Amount[p], job[h].coins) :
                Settle(h, "succeeded", change)
        /\ registration' = IF p \in EntryPayments THEN "active" ELSE registration
        /\ paid' = (paid \/ p \in MatchPayments)
        /\ UNCHANGED <<owned, arrived>>

\* A refund withdraws the registration; a match stays paid for.
SettleRefund(h) ==
    LET p == job[h].of
    IN  /\ job[h].at = "settle" /\ job[h].scenario = "refunded"
        /\ Settle(h, "refunded", IF RefundIsDue(job[h].row) THEN "refund" ELSE "none")
        /\ registration' = IF p \in EntryPayments /\ registration # "none"
                           THEN "withdrawn" ELSE registration
        /\ UNCHANGED <<paid, owned, arrived>>

-----------------------------------------------------------------------------
(* The shop: the user's row is read first, the inventory later. *)

Purchase(h, i) ==
    /\ Arrives(h)
    /\ Hold(h, [at |-> "inventory", item |-> i, coins |-> coins])
    /\ UNCHANGED <<coins, payment, registration, paid, owned, outdated>>

ReadInventory(h) ==
    /\ job[h].at = "inventory"
    /\ owned[job[h].item] > 0 => job[h].item \in Consumables
    /\ Price[job[h].item] <= job[h].coins
    /\ Hold(h, [at |-> "pay", item |-> job[h].item, coins |-> job[h].coins,
                quantity |-> owned[job[h].item]])
    /\ UNCHANGED <<coins, payment, registration, paid, owned, arrived, outdated>>

\* A second row for an item violates its unique constraint.
Pay(h) ==
    LET i == job[h].item
    IN  /\ job[h].at = "pay"
        /\ job[h].quantity = 0 => owned[i] = 0
        /\ coins' = job[h].coins - Price[i]
        /\ owned' = [owned EXCEPT ![i] = job[h].quantity + 1]
        /\ outdated' = (outdated \/ coins # job[h].coins \/ owned[i] # job[h].quantity)
        /\ Reply(h)
        /\ UNCHANGED <<payment, registration, paid, arrived>>

-----------------------------------------------------------------------------
\* A handler that is refused, finds an error or dies leaves nothing behind: its
\* transaction is rolled back.
RollBack(h) ==
    /\ job[h] # NoJob
    /\ Reply(h)
    /\ UNCHANGED <<coins, payment, registration, paid, owned, arrived, outdated>>

Scenarios == {"success", "refunded", "failed"}

WalletNext ==
    \/ \E p \in Payments : CreatePayment(p)
    \/ \E h \in Handlers :
        \/ \E p \in Payments, scenario \in Scenarios : Simulate(h, p, scenario)
        \/ SettleFailed(h)
        \/ ReadUser(h)
        \/ SettleSuccess(h)
        \/ SettleRefund(h)
        \/ \E i \in Items : Purchase(h, i)
        \/ ReadInventory(h)
        \/ Pay(h)

-----------------------------------------------------------------------------
(* Properties. *)

WalletTypeOK ==
    /\ coins \in Nat
    /\ payment \in [Payments -> PaymentRows]
    /\ registration \in {"none", "active", "withdrawn"}
    /\ owned \in [Items -> Nat]

Charged == {p \in Payments : payment[p].debited}

\* The coins are what the open charges and the items bought leave of the coins
\* the user began with, however simulations, refunds and purchases are mixed:
\* only a handler that commits over rows changed since it read them breaks this.
CoinsAddUp ==
    /\ coins >= 0
    /\ ~outdated =>
        coins = StartCoins
                - SumFunctionOnSet(Amount, {p \in Charged : ~payment[p].refunded})
                - SumFunction([i \in Items |-> Price[i] * owned[i]])
=============================================================================
