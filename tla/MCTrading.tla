----------------------------- MODULE MCTrading -----------------------------
(* Values for the constants of Trading, small enough for TLC. *)
EXTENDS Trading, TLC

MCCertDay == [c \in Certs |-> 1]
MCPrice == [c \in Codes |-> 2]

MCOwner == [c \in Certs |-> 1]

OrderSymmetry == Permutations(Requests)
BatchSymmetry == Permutations(Batches)
=============================================================================
