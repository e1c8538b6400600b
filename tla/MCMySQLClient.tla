--------------------------- MODULE MCMySQLClient ----------------------------
(* MySQLClient for TLC: callers and servers are interchangeable.           *)
EXTENDS MySQLClient, TLC

Symmetry == Permutations(Callers) \cup Permutations(Servers)
=============================================================================
