--------------------------- MODULE MCCertification ---------------------------
(* Two devices of one participant, two administrators. *)
EXTENDS Certification, TLC

MCOwner == [g \in Pages |-> "p"]
TabSymmetry == Permutations(Pages) \cup Permutations(Reviewers)
=============================================================================
