---------------------------- MODULE MCOrderBooks ----------------------------
(* Small instances of OrderBooks for TLC. *)
EXTENDS OrderBooks

CONSTANTS k1, c1, c2, r1, r2

Raw(p, q, ok) == [price |-> p, quantity |-> q, parses |-> ok]

\* A message all of whose levels parse, one with other prices whose best ask does not,
\* and one serde rejects.
Ordinary == [bids |-> {Raw(11, 3, TRUE)}, asks |-> {Raw(12, 2, TRUE)}, well_formed |-> TRUE]
Gap == [bids |-> {Raw(11, 1, TRUE), Raw(10, 2, TRUE)},
        asks |-> {Raw(12, 1, FALSE), Raw(13, 2, TRUE), Raw(14, 1, TRUE)},
        well_formed |-> TRUE]
Malformed == [bids |-> {}, asks |-> {}, well_formed |-> FALSE]

MCPayload == {Ordinary, Gap, Malformed}

\* Two connections for the same key: a reconnect beside a connection still open.
SharedKeyOf == [c \in {c1, c2} |-> k1]
=============================================================================
