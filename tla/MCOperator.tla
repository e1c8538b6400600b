----------------------------- MODULE MCOperator -----------------------------
(* Operator for TLC: arguments and lists of member sizes, which a          *)
(* configuration file has no notation for.                                 *)
EXTENDS Operator

NoArgs == <<>>

\* As in config/manager/manager.yaml.
DeployedArgs == <<"--leader-elect">>

\* Without a first member, which makes the handler panic, and with one.
MixedLists == {<<>>, <<2>>}

\* A first member of two.
SizedLists == {<<2>>}
=============================================================================
