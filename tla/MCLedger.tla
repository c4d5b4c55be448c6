------------------------------ MODULE MCLedger ------------------------------
(* Values for the constants of Ledger and its order ticket: no locks, so more orders and prices. *)
EXTENDS OrderTicket, TLC

MCOwner == [c \in Certs |-> 1]
MCCertDay == [c \in Certs |-> 1]
MCPrice == [c \in Codes |-> 2]
OrderSymmetry == Permutations(Requests)
=============================================================================
