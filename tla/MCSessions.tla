----------------------------- MODULE MCSessions -----------------------------
(***************************************************************************)
(* Small instances of Sessions: one family and two requests at a time are  *)
(* enough for every race of two transactions, and a request that has ended *)
(* leaves room for the next; the number of refresh_tokens rows bounds the  *)
(* length of a rotation chain.                                             *)
(***************************************************************************)
EXTENDS Sessions, TLC

\* For the safety runs only: rows, families and requests are interchangeable.
Interchangeable ==
  Permutations(Tokens) \union Permutations(Families) \union Permutations(Calls)
=============================================================================
