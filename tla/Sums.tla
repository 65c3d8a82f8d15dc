-------------------------------- MODULE Sums --------------------------------
(***************************************************************************)
(* Sums of integer-valued functions over an initial segment of Nat.  The   *)
(* contract's books (balances, escrowed tips, refunds) are sums over       *)
(* accounts and tips numbered from 1.  The sum is a recursive function and *)
(* not a RECURSIVE operator, so that the provers can reason about it: the  *)
(* facts the accounting proofs need are the theorems of SumsProofs.        *)
(***************************************************************************)
EXTENDS Integers

\* PrefixSums(f)[k] is f[1] + ... + f[k], for f defined on all of Nat.
PrefixSums(f) ==
  LET prefix[k \in Nat] == IF k = 0 THEN 0 ELSE prefix[k - 1] + f[k]
  IN  prefix

\* f continued with zeros outside 1..n.
Padded(f, n) == [k \in Nat |-> IF k \in 1 .. n THEN f[k] ELSE 0]

\* f[1] + ... + f[n], for a function f whose domain includes 1..n.
SumTo(f, n) == PrefixSums(Padded(f, n))[n]
=============================================================================
