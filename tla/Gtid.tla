-------------------------------- MODULE Gtid --------------------------------
(***************************************************************************)
(* Choosing a member by its GTID set: internal/pkg/mysql/gtid.go.          *)
(*                                                                         *)
(* A server has executed a set of transactions, each with a source and a   *)
(* number.  What it prints of that set is a list of intervals, by source   *)
(* and then by number: "u:1-4:7, v:2-3".  An interval of one transaction   *)
(* is printed as one number.  Sources are numbered in the order in which   *)
(* their UUIDs are printed, so that a text is here a set of triples        *)
(* <<source, first, last>>, and its order that of the triples.             *)
(***************************************************************************)
EXTENDS Integers, Sequences

CONSTANTS
  Sources,   \* positive numbers: UUIDs in the order they are printed in
  MaxTx      \* bound: transactions of one source

ASSUME GtidAssumption ==
  /\ Sources \subseteq Nat \ {0}
  /\ MaxTx \in Nat

Transactions == Sources \X (1 .. MaxTx)

\* External: what @@global.gtid_executed prints of a set of transactions.
Printed(done) ==
  {r \in Sources \X (1 .. MaxTx) \X (1 .. MaxTx) :
     /\ r[2] <= r[3]
     /\ \A t \in r[2] .. r[3] : <<r[1], t>> \in done
     /\ <<r[1], r[2] - 1>> \notin done
     /\ <<r[1], r[3] + 1>> \notin done}

\* The transactions a text stands for.
Meant(text) == UNION {{r[1]} \X (r[2] .. r[3]) : r \in text}

Before(q, r) == q[1] < r[1] \/ (q[1] = r[1] /\ q[2] < r[2])

First(text) == CHOOSE r \in text : \A q \in text \ {r} : Before(r, q)

\* A GTID as the package keeps it.  Zero is the empty struct.
Zero == [uuid |-> 0, start |-> 0, end |-> 0]

Invalid == [uuid |-> 0, start |-> 0, end |-> -1]

\* The pattern takes the first interval of two numbers, wherever it is, and
\* for its UUID what stands before the colon: the source, or the number of an
\* interval in between (here 0).  With no such interval the text is invalid.
\* "0" and "1", which the code refuses too, are never printed.
parseGTID(text) ==
  LET ranges == {r \in text : r[2] < r[3]}
      r == First(ranges)
      direct == \A q \in text : q[1] = r[1] => q[2] >= r[2] IN
  IF ranges = {} THEN Invalid
  ELSE [uuid |-> IF direct THEN r[1] ELSE 0, start |-> r[2], end |-> r[3]]

\* Variant: the comparison is the wrong way round.
compareGTIDsLowest(gtids) ==
  IF DOMAIN gtids = {} THEN Zero
  ELSE LET lowest == {i \in DOMAIN gtids : \A j \in DOMAIN gtids : gtids[j].end >= gtids[i].end} IN
       gtids[CHOOSE i \in lowest : \A j \in lowest : i <= j]

\* The first of those with the highest end.
compareGTIDs(gtids) ==
  IF DOMAIN gtids = {} THEN Zero
  ELSE LET highest == {i \in DOMAIN gtids : \A j \in DOMAIN gtids : gtids[j].end <= gtids[i].end} IN
       gtids[CHOOSE i \in highest : \A j \in highest : i <= j]

\* One text that cannot be parsed fails the whole election; an end of zero,
\* which no printed interval has, would be left out.
GetMaxGTIDMember(texts) ==
  LET parsed == [i \in DOMAIN texts |-> parseGTID(texts[i])]
      kept == {i \in DOMAIN texts : parsed[i].end # 0} IN
  IF \E i \in DOMAIN texts : parsed[i] = Invalid THEN Invalid
  ELSE compareGTIDs([i \in kept |-> parsed[i]])
=============================================================================
