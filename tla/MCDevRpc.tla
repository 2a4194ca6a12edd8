------------------------------ MODULE MCDevRpc ------------------------------
(* Instances of DevRpc: pages of two words, blocks that cross a page.       *)
EXTENDS DevRpc

None == << >>

MCRequests ==
    {Operation(d, 0, 0, 1, None) : d \in {"open", "release"}}
    \cup {Operation("read_32", bar, 1, 1, None) : bar \in {1, 4}}
    \cup {Operation("write_16", 4, 2, 1, <<7>>), Operation("write_64", 4, 2, 2, <<8, 9>>)}
    \cup {Operation("read_block", 2, 1, 3, None), Operation("read_block", 0, 0, 2, None)}
    \cup {Operation("write_block", 2, 1, 2, d) : d \in {<<5, 6>>, <<Ones, Ones>>}}
    \cup {Operation("read_dma", 2, 0, 1, None)}

MCCfgRequests == {Operation("read_32", 4, a, 1, None) : a \in {3}}
=============================================================================
