------------------------------ MODULE Contracts ------------------------------
(***************************************************************************)
(* What the ledgers share: markets, prices and the two sides of a binary   *)
(* contract (core/types.hpp).                                              *)
(***************************************************************************)
EXTENDS Integers

CONSTANTS Tickers,   \* market tickers
          Prices,    \* prices of a contract, in cents
          MaxQty     \* bound on the contracts of one fill

ASSUME LedgerConstants == Prices \subseteq 1..99 /\ MaxQty \in Nat

ContractMaxCents == 100
Side == {"yes", "no"}
Opposite(s) == IF s = "yes" THEN "no" ELSE "yes"
=============================================================================
