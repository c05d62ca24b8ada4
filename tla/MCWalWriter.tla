---------------------------- MODULE MCWalWriter -----------------------------
(* A small instance of WalWriter: two distinguishable records, files of at *)
(* most four of them.                                                      *)
EXTENDS WalWriter, TLC

CONSTANTS e1, e2

MCEvents == {e1, e2}
=============================================================================
