-------------------------- MODULE MCEconomyBalance --------------------------
(* Small instances of EconomyBalance for TLC.                              *)
EXTENDS EconomyBalance

\* A profitable delivery and one whose offences exceed its income (cfg files
\* cannot write negative numbers).
MCRevenues == {2, -1}
=============================================================================
