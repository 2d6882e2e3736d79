-------------------------- MODULE MCQuoteLifecycle --------------------------
(* Small instances of QuoteLifecycle for TLC.                              *)
EXTENDS QuoteLifecycle

MCCents == {50, 51}
MCBand == 1..99
MCIds == 1..3

MCAllFaults == FaultKinds

\* Cancels fail too, and are forgotten by nobody: the order stays in
\* open_orders_.
MCLiveFaults == {"place_reject", "cancel_fail", "amend_reject"}
=============================================================================
