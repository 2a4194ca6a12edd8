--------------------------- MODULE MCSmioService ---------------------------
(* A small instance of SmioService: every kind of SMIO. *)
EXTENDS SmioService

MCSmios ==
    {[kind |-> k, inst |-> 0] : k \in Kinds}
    \cup {[kind |-> "fmc130m_4ch", inst |-> 1]}
    \cup {[kind |-> k, inst |-> TooLarge] : k \in {"acq", "fmc130m_4ch", "fmc250m_4ch"}}

MCDefaults == <<[val |-> 1, checked |-> TRUE], [val |-> 2, checked |-> TRUE]>>

MCUserCalls == {[fn |-> "write", val |-> 3, extra |-> FALSE],
                [fn |-> "read", val |-> 0, extra |-> FALSE],
                [fn |-> "read", val |-> 0, extra |-> TRUE],
                [fn |-> "func", val |-> 0, extra |-> FALSE]}
============================================================================
