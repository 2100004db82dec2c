------------------------------- MODULE Ledger -------------------------------
(***************************************************************************)
(* Sums over finite sets and the ledgers built from them.  A ledger is a   *)
(* function from accounts to the natural number of units each one holds;   *)
(* a token program or the runtime moves units, it never makes them.        *)
(***************************************************************************)
EXTENDS Integers, FiniteSets

(* Every unit that f counts in S, each one told apart from the others. *)
Units(f, S) == UNION {{x} \X (1 .. f[x]) : x \in S}

(* The sum of f over S: the number of units. *)
Total(f, S) == Cardinality(Units(f, S))

(* a - b that stops at zero: u16 and u64 saturating_sub. *)
saturating_sub(a, b) == IF b > a THEN 0 ELSE a - b

(* Moving n units from one account of a ledger to another, or the same. *)
Transfer(ledger, from, to, n) ==
  LET taken == [ledger EXCEPT ![from] = @ - n]
  IN  [taken EXCEPT ![to] = @ + n]
=============================================================================
