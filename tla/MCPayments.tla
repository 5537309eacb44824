------------------------------ MODULE MCPayments ------------------------------
(* Instances of the payments over the stage gate for TLC. *)
EXTENDS Payments, TLC

\* Payments are interchangeable, and so are the HTTP requests.
PaySymmetry == Permutations(Payments) \union Permutations(HttpRequests)

=============================================================================
