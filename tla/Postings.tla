------------------------------ MODULE Postings ------------------------------
(***************************************************************************)
(* The pure part of the posting engine: what a bundle of ledger lines does *)
(* to the accounts it names, and when an account row accepts it.           *)
(*                                                                         *)
(* A bundle is kept by its effect: `net` maps every account a line names   *)
(* to the signed sum of its lines (CREDIT +, DEBIT -), `cur` maps it to    *)
(* the currency those lines carry.  Amounts are integers scaled by 10^4,   *)
(* as parseScaledAmount produces them (module Decimals).                   *)
(***************************************************************************)
EXTENDS Integers, FiniteSets, FiniteSetsExt, Functions

CONSTANTS
    Accounts,    \* account ids; numbers, because the code sorts them
    Currencies,
    CurrencyOf,  \* accounts.currency, fixed when the row is created
    Overdraft    \* accounts.overdraft_limit, fixed when the row is created

ASSUME AccountsAssumption ==
    /\ Accounts \subseteq Nat /\ IsFiniteSet(Accounts)
    /\ CurrencyOf \in [Accounts -> Currencies]
    /\ Overdraft \in [Accounts -> Nat]

Statuses == {"NONE", "PENDING", "ACTIVE", "FROZEN", "CLOSED"}

\* A row of `accounts`; status "NONE" stands for a row that does not exist yet.
AccountRow == [status : Statuses, balance : Int, availableBalance : Int]

NoAccount == [status |-> "NONE", balance |-> 0, availableBalance |-> 0]

Sides == {"DEBIT", "CREDIT"}

\* A row of `ledger_entries`: a magnitude, and the side that gives it its sign.
Line == [number : Nat, account : Accounts, side : Sides, amount : Nat, currency : Currencies]

\* assignLineNumbers: explicit numbers differ, implicit ones count the lines.
NumberedApart(lines) == \A l, m \in lines : l.number = m.number => l = m

\* "Mixed currencies on the same account in one posting"
OneCurrencyPerAccount(lines) ==
    \A l, m \in lines : l.account = m.account => l.currency = m.currency

IsBody(lines) ==
    /\ lines \subseteq Line /\ IsFiniteSet(lines)
    /\ Cardinality(lines) >= 2
    /\ NumberedApart(lines)
    /\ OneCurrencyPerAccount(lines)

Signed(l) == IF l.side = "CREDIT" THEN l.amount ELSE -l.amount

\* assertBalancedPerCurrency: the two sums of every currency the lines carry.
DebitsEqualCredits(lines) ==
    LET Sum(side, c) ==
            SumFunctionOnSet([l \in lines |-> l.amount],
                             {l \in lines : l.side = side /\ l.currency = c})
    IN \A c \in Currencies : Sum("DEBIT", c) = Sum("CREDIT", c)

LinesOn(lines, a) == {l \in lines : l.account = a}

\* deltaByAccount and currencyByAccount of the lines.
BundleOf(lines) ==
    LET on == {l.account : l \in lines}
    IN [net |-> [a \in on |-> SumFunctionOnSet([l \in lines |-> Signed(l)], LinesOn(lines, a))],
        cur |-> [a \in on |-> (CHOOSE l \in LinesOn(lines, a) : TRUE).currency]]

Touched(bundle) == DOMAIN bundle.net

IsBundle(bundle) ==
    /\ Touched(bundle) \in (SUBSET Accounts) \ {{}}
    /\ bundle.net \in [Touched(bundle) -> Int]
    /\ bundle.cur \in [Touched(bundle) -> Currencies]

\* Mutant: no balance check.
BalancedAlways(bundle) == TRUE

\* The same of a bundle: the net amounts of every currency add up to zero.
BalancedPerCurrency(bundle) ==
    \A c \in Currencies :
        SumFunctionOnSet(bundle.net, {a \in Touched(bundle) : bundle.cur[a] = c}) = 0

\* Mutant: the check forgets the posting's own debit.
AcceptsPositive(row, a, bundle) ==
    /\ row.status = "ACTIVE"
    /\ CurrencyOf[a] = bundle.cur[a]
    /\ row.availableBalance >= -Overdraft[a]

\* What the posting engine asks of one locked account row before it inserts.
Accepts(row, a, bundle) ==
    /\ row.status = "ACTIVE"
    /\ CurrencyOf[a] = bundle.cur[a]
    /\ row.availableBalance + bundle.net[a] >= -Overdraft[a]

\* Mutant: the balance of debited accounts is left alone.
ProjectCreditsOnly(r, bundle) ==
    [a \in Accounts |->
        IF a \in Touched(bundle)
        THEN [r[a] EXCEPT !.balance = IF bundle.net[a] > 0 THEN @ + bundle.net[a] ELSE @,
                          !.availableBalance = @ + bundle.net[a]]
        ELSE r[a]]

\* The bundle's effect on the account rows: both projections move by the net.
Project(r, bundle) ==
    [a \in Accounts |->
        IF a \in Touched(bundle)
        THEN [status |-> r[a].status,
              balance |-> r[a].balance + bundle.net[a],
              availableBalance |-> r[a].availableBalance + bundle.net[a]]
        ELSE r[a]]

OtherSide(l) == [l EXCEPT !.side = IF l.side = "DEBIT" THEN "CREDIT" ELSE "DEBIT"]

\* The lines of a reversal: every line of the original on the other side.
Swapped(lines) == {OtherSide(l) : l \in lines}

\* The bundle of those lines.
Mirror(bundle) ==
    [net |-> [a \in Touched(bundle) |-> -bundle.net[a]], cur |-> bundle.cur]
=============================================================================
