---------------------------- MODULE SymbolLeases ----------------------------
(***************************************************************************)
(* The older leases of the lease contract, stored under a Symbol           *)
(* (contracts/leaseflow_contracts/src/lib.rs): two ways to create one,     *)
(* activation, payments with a buyout price, receipts and the end.  They   *)
(* share nothing with the lease instances of module LeaseContract.         *)
(*                                                                         *)
(* No KYC provider is set and every token is allowed; with them creation   *)
(* and payment may be refused more often.  No function sets an NFT of such *)
(* a lease, so its transfers never happen; rents, fees and debts are zero  *)
(* for good.  Payments move no token.                                      *)
(***************************************************************************)
EXTENDS Ledger

CONSTANTS
    Renters,            \* landlords and tenants
    Symbols,            \* ids offered to initialize_lease
    LeaseSpans,         \* durations offered
    SymbolPayments,     \* payment amounts offered, negative ones too
    SymbolPrices,       \* buyout prices offered
    Months,             \* months of receipts
    MaxSymbolPaid,      \* bound: payments on one lease
    MaxSymbolLeases     \* bound: leases created

ASSUME SymbolAssumption ==
    /\ None \notin Renters /\ "lease" \in Symbols /\ LeaseSpans \subseteq Nat
    /\ SymbolPayments \subseteq Int /\ SymbolPrices \subseteq Int /\ Months \subseteq Nat
    /\ MaxSymbolPaid \in Nat /\ MaxSymbolLeases \in Nat

VARIABLES
    symbol_lease,       \* symbol -> lease
    receipt,            \* <<symbol, month>> -> receipt
    symbol_created      \* observed: leases created

symbol_vars == <<symbol_lease, receipt, symbol_created>>

SymbolLease ==
    [landlord : Renters, tenant : Renters, deposit_amount : Int, start_date : Nat,
     end_date : Nat, status : {"Pending", "Active", "Terminated"}, active : BOOLEAN,
     buyout_price : Int \cup {None}, cumulative_payments : Int]

SymbolInit == symbol_lease = << >> /\ receipt = << >> /\ symbol_created = 0

new_lease(landlord, tenant, deposit_amount, end_date) ==
    [landlord |-> landlord, tenant |-> tenant, deposit_amount |-> deposit_amount,
     start_date |-> now, end_date |-> end_date, status |-> "Pending", active |-> TRUE,
     buyout_price |-> None, cumulative_payments |-> 0]

\* A lease already stored under the symbol is replaced.
initialize_lease(id, landlord, tenant, deposit_amount, duration) ==
    /\ symbol_created < MaxSymbolLeases
    /\ symbol_lease' = Store(symbol_lease, id,
                             new_lease(landlord, tenant, deposit_amount, now + duration))
    /\ symbol_created' = symbol_created + 1
    /\ UNCHANGED <<now, receipt>>

\* Every lease of create_lease has the one id "lease".
create_lease(landlord, tenant) ==
    /\ symbol_created < MaxSymbolLeases
    /\ symbol_lease' = Store(symbol_lease, "lease", new_lease(landlord, tenant, 0, 0))
    /\ symbol_created' = symbol_created + 1
    /\ UNCHANGED <<now, receipt>>

\* Nobody signs, and the status is not looked at: a terminated lease is Active again, but
\* its flag `active` stays off.
activate_lease(id, tenant) ==
    /\ id \in DOMAIN symbol_lease
    /\ symbol_lease[id].tenant = tenant
    /\ symbol_lease' = [symbol_lease EXCEPT ![id].status = "Active"]
    /\ UNCHANGED <<now, receipt, symbol_created>>

\* Wrong: the status is asked instead of the flag.
may_pay_X(lease) == lease.status # "Terminated"

may_pay(lease) == lease.active

bought_out(lease) ==
    lease.buyout_price # None /\ lease.cumulative_payments >= lease.buyout_price

after_payment(lease, amount) ==
    LET paid == [lease EXCEPT !.cumulative_payments = @ + amount]
    IN  IF bought_out(paid)
        THEN [paid EXCEPT !.active = FALSE, !.status = "Terminated"]
        ELSE paid

pay_rent(id, amount) ==
    /\ id \in DOMAIN symbol_lease
    /\ may_pay(symbol_lease[id])
    /\ symbol_lease[id].cumulative_payments + amount \in -MaxSymbolPaid..MaxSymbolPaid
    /\ symbol_lease' = [symbol_lease EXCEPT ![id] = after_payment(@, amount)]
    /\ UNCHANGED <<now, receipt, symbol_created>>

\* Anybody, for any lease and month; a receipt is replaced.
pay_rent_receipt(id, month, amount) ==
    /\ receipt' = Store(receipt, <<id, month>>, [amount |-> amount, date |-> now])
    /\ UNCHANGED <<now, symbol_lease, symbol_created>>

\* Nobody signs.  A price the payments have already reached sells at the next payment.
set_buyout_price(id, landlord, price) ==
    /\ id \in DOMAIN symbol_lease
    /\ symbol_lease[id].landlord = landlord
    /\ symbol_lease' = [symbol_lease EXCEPT ![id].buyout_price = price]
    /\ UNCHANGED <<now, receipt, symbol_created>>

end_lease(id, caller) ==
    /\ id \in DOMAIN symbol_lease
    /\ caller \in {symbol_lease[id].landlord, symbol_lease[id].tenant}
    /\ symbol_lease' = [symbol_lease EXCEPT ![id].status = "Terminated", ![id].active = FALSE]
    /\ UNCHANGED <<now, receipt, symbol_created>>

SymbolNext ==
    \/ Tick /\ UNCHANGED symbol_vars
    \/ \E l, t \in Renters :
          \/ \E id \in Symbols, d \in LeaseSpans : initialize_lease(id, l, t, 1, d)
          \/ create_lease(l, t)
    \/ \E id \in Symbols :
          \/ \E u \in Renters :
                \/ activate_lease(id, u)
                \/ end_lease(id, u)
                \/ \E price \in SymbolPrices : set_buyout_price(id, u, price)
          \/ \E amount \in SymbolPayments : pay_rent(id, amount)
          \/ \E m \in Months, amount \in SymbolPayments : pay_rent_receipt(id, m, amount)

SymbolSpec == now = StartTime /\ SymbolInit /\ [][SymbolNext]_<<now, symbol_vars>>

SymbolTypeOK ==
    /\ DOMAIN symbol_lease \subseteq Symbols
    /\ \A id \in DOMAIN symbol_lease : symbol_lease[id] \in SymbolLease
    /\ DOMAIN receipt \subseteq Symbols \X Months
    /\ symbol_created \in Nat

-----------------------------------------------------------------------------
(* Properties. *)

\* A lease that was sold or ended takes no further payment and keeps its parties, even
\* when activate_lease has put its status back to Active; only a new lease under the same
\* symbol, which starts with nothing paid and no price, is open again.
ClosedLeaseTakesNothing ==
    [][\A id \in DOMAIN symbol_lease :
          LET before == symbol_lease[id]
              after == symbol_lease'[id]
          IN  ~before.active =>
                 \/ /\ ~after.active
                    /\ after.cumulative_payments = before.cumulative_payments
                    /\ after.landlord = before.landlord /\ after.tenant = before.tenant
                 \/ /\ after.status = "Pending" /\ after.cumulative_payments = 0
                    /\ after.buyout_price = None /\ after.start_date = now]_symbol_lease
=============================================================================
