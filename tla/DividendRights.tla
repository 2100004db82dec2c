--------------------------- MODULE DividendRights ---------------------------
(***************************************************************************)
(* What a vault promises to the people who hold rights in it, and nothing  *)
(* of how it keeps its accounts: there is an owner, who has what nobody    *)
(* else has a right to; a right is a share of every payout, given once,    *)
(* never worth more than what is left of the whole; and the money of the   *)
(* vault leaves it in a payout or, when no right is left, to the owner.    *)
(***************************************************************************)
EXTENDS Ledger

CONSTANTS
  Holders,      \* who can hold a right and be paid for it
  Rights,       \* the names of the rights
  Monies,       \* what the vault can be sent and pay out, of any worth; "Sol" is one
  Accounts,     \* where money can be: the Holders, "vault_payout" and others
  Prices,       \* what it may cost to buy a right back
  WHOLE,        \* the parts into which a payout is divided
  MOST_TIMES    \* how often one payout may pay the same right

VARIABLES
  open,         \* is there a vault?
  owner,        \* who owns it, or "burned"
  share,        \* the parts of a payout that each right carries, 0 for none
  price,        \* what it costs to buy each right back
  holder,       \* who holds each right, or "unminted", or "burned"
  purse         \* what each account has of each money

promises == <<open, owner, share, price, holder, purse>>

NothingOwed == \A y \in Rights : share[y] = 0

Init ==
  /\ open = FALSE
  /\ owner = "burned"
  /\ share = [y \in Rights |-> 0]
  /\ price = [y \in Rights |-> 0]
  /\ holder = [y \in Rights |-> "unminted"]
  /\ purse \in [Monies -> [Accounts -> Nat]]

(* A new vault owes nothing, not even what another one owed before it. *)
Found(w) ==
  /\ ~open /\ NothingOwed
  /\ open' = TRUE /\ owner' = w
  /\ UNCHANGED <<share, price, holder, purse>>

(* A right is given once, out of what no other right has. *)
Grant(y, w, part, cost) ==
  /\ open /\ owner \in Holders
  /\ holder[y] = "unminted"
  /\ Total(share, Rights) + part <= WHOLE
  /\ share' = [share EXCEPT ![y] = part]
  /\ price' = [price EXCEPT ![y] = cost]
  /\ holder' = [holder EXCEPT ![y] = w]
  /\ UNCHANGED <<open, owner, purse>>

(* A right is taken back from whoever holds it, for its price. *)
BuyOut(y) ==
  /\ open /\ owner \in Holders
  /\ share[y] > 0 /\ holder[y] \in Holders
  /\ price[y] <= purse["Sol"][owner]
  /\ purse' = [purse EXCEPT !["Sol"] = Transfer(@, owner, holder[y], price[y])]
  /\ share' = [share EXCEPT ![y] = 0]
  /\ holder' = [holder EXCEPT ![y] = "burned"]
  /\ UNCHANGED <<open, owner, price>>

(***************************************************************************)
(* A payout goes, to the last unit, to those who hold the rights that it   *)
(* pays and to the owner, at that moment.  Some rights may end with it.    *)
(* The vault does not promise what a payout is in: it can be a money that  *)
(* nobody wants, which anybody may have sent there for that purpose.       *)
(***************************************************************************)
Paid(payout, times) == [y \in Rights |-> times[y] * ((payout * share[y]) \div WHOLE)]

Income(payout, times) ==
  [w \in Holders |->
     Total(Paid(payout, times), {y \in Rights : holder[y] = w})
     + (IF owner = w THEN payout - Total(Paid(payout, times), Rights) ELSE 0)]

Pay(money, payout, times, ended) ==
  /\ \A y \in Rights : times[y] > 0 => share[y] > 0 /\ holder[y] \in Holders
  /\ Total(Paid(payout, times), Rights) <= payout
  /\ purse' = [purse EXCEPT ![money] =
       [a \in Accounts |->
          CASE a = "vault_payout" -> purse[money][a] - payout
            [] a \in Holders -> purse[money][a] + Income(payout, times)[a]
            [] OTHER -> purse[money][a]]]
  /\ share' = [y \in Rights |-> IF y \in ended THEN 0 ELSE share[y]]
  /\ UNCHANGED <<open, owner, price, holder>>

PayOut ==
  \E money \in Monies : \E payout \in 1 .. purse[money]["vault_payout"] :
    /\ open /\ owner \in Holders
    /\ purse'[money]["vault_payout"] = purse[money]["vault_payout"] - payout
    /\ \E times \in [Rights -> 0 .. MOST_TIMES], ended \in SUBSET Rights :
         Pay(money, payout, times, ended)

(* The vault ends when it owes nothing; the SOL it has is the owner's. *)
Close ==
  /\ open /\ owner \in Holders /\ NothingOwed
  /\ open' = FALSE /\ owner' = "burned"
  /\ purse' = [purse EXCEPT !["Sol"] = Transfer(@, "vault_payout", owner, @["vault_payout"])]
  /\ UNCHANGED <<share, price, holder>>

(* Rights, and the vault itself, are their holders' to pass on or to burn. *)
PassOn(y, w) ==
  /\ holder[y] \in Holders
  /\ holder' = [holder EXCEPT ![y] = w]
  /\ UNCHANGED <<open, owner, share, price, purse>>

PassOnVault(w) ==
  /\ owner \in Holders
  /\ owner' = w
  /\ UNCHANGED <<open, share, price, holder, purse>>

(* Money moves anywhere, but not out of the vault's payout account. *)
Move(money, from, to, n) ==
  /\ from # "vault_payout"
  /\ purse' = [purse EXCEPT ![money] = Transfer(@, from, to, n)]
  /\ UNCHANGED <<open, owner, share, price, holder>>

Next ==
  \/ \E w \in Holders : Found(w)
  \/ \E y \in Rights, w \in Holders, part \in 1 .. WHOLE, cost \in Prices : Grant(y, w, part, cost)
  \/ \E y \in Rights : BuyOut(y)
  \/ PayOut
  \/ Close
  \/ \E y \in Rights, w \in Holders \cup {"burned"} : PassOn(y, w)
  \/ \E w \in Holders \cup {"burned"} : PassOnVault(w)
  \/ \E money \in Monies, from, to \in Accounts :
       \E n \in 0 .. purse[money][from] : Move(money, from, to, n)

Spec == Init /\ [][Next]_promises
=============================================================================
