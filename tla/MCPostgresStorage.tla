------------------------- MODULE MCPostgresStorage -------------------------
(* Values for the constants of PostgresStorage in TLC's runs. *)
EXTENDS PostgresStorage

CONSTANTS a, b, fin, c1, c2, c3

(* Two batches that lock the same rows in opposite orders, one of them     *)
(* with a nil pointer; single updates of either kind; lists.               *)
Batch(list) == [kind |-> "batch", list |-> list]
Update(m)   == [kind |-> "update", list |-> <<m>>]
List        == [kind |-> "list", list |-> <<>>]

MCOp == [c \in Caller |->
           CASE c = c1 -> {Batch(<<Count(a, 1), Count(b, 1)>>),
                          Update(Count(a, 1)), Update(Gauge(b, fin))}
             [] c = c2 -> {Batch(<<Count(b, 1), Gauge(a, Missing), Count(a, 1)>>)}
             [] c = c3 -> {Batch(<<>>), List}]
=============================================================================
