---------------------------- MODULE MCSmioChips -----------------------------
(***************************************************************************)
(* The instance of SmioChips: one or two values per function, frequencies  *)
(* in MHz, a memory of two pages of four bytes.                            *)
(***************************************************************************)
EXTENDS SmioChips

On(c, op, args) == {[on |-> c, op |-> op, arg |-> a] : a \in args}

PllCalls ==
    On("pll", "set_pll_a_div", {5}) \cup On("pll", "set_pll_b_div", {0, 259})
    \cup On("pll", "set_pll_prescaler", {2}) \cup On("pll", "set_pll_pdown", {1})
    \cup On("pll", "set_mux_status", {5}) \cup On("pll", "set_r_div", {513})
    \cup On("pll", "set_cp_current", {1200, 700}) \cup On("pll", "set_outputs", {37})
    \cup On("pll", "set_pll_clk_sel", {1, 2})
    \cup UNION {On("pll", op, {0}) : op \in Ad9510Getters}

AdcCalls ==
    UNION {On(c, op, {0}) : c \in Adcs, op \in {"new", "get_chipid", "get_chipver"}}
    \cup UNION {On(c, "set_test_mode", {5}) : c \in Adcs}

MCSpiCalls ==
    [b \in Boards |->
        CASE b = "pll"    -> PllCalls
          [] b = "pllcfg" -> On("pll", "new", {0}) \cup On("pll", "cfg_defaults", {0})
          [] b = "adc250" -> AdcCalls
          [] OTHER        -> {}]

Block(a, bytes) == [addr |-> a, bytes |-> bytes]

MCI2cCalls ==
    On("osc", "get_defaults", {0}) \cup On("osc", "get_freq", {0})
    \cup On("osc", "set_freq", {0, 100, 160, 970, 1213, 2000})
    \cup On("mux", "en_chan", {3, 8, 255}) \cup On("mux", "read_8", {0})
    \cup On("eep", "identify", {0})
    \cup On("eep", "write_block", {Block(0, <<7>>), Block(2, <<8, 9, 6>>), Block(0, <<1, 2, 3, 4, 5, 6, 7, 8>>)})
    \cup On("eep", "read_block", {[addr |-> 1, n |-> 2]})

MCRffeCalls ==
    {[op |-> "open", id |-> 0, val |-> <<>>, size |-> 0]}
    \cup {[op |-> "read_var", id |-> i, val |-> <<>>, size |-> 2] : i \in 0..2}
    \cup {[op |-> "read_var", id |-> 1, val |-> <<>>, size |-> 1],
          [op |-> "write_var", id |-> 0, val |-> <<17>>, size |-> 1],
          [op |-> "write_var", id |-> 1, val |-> <<0, 1>>, size |-> 2]}

MCMaxCalls  == [b \in Boards |-> IF b = "pll" THEN 2 ELSE IF b = "pllcfg" THEN 1 ELSE 3]
MCMaxFaults == [b \in Boards |-> IF b \in {"pll", "pllcfg", "osc"} THEN 1 ELSE 2]
MCJunk        == {0, 2, 5}
MCFactoryDivs == Divs([hs |-> 5, n1 |-> 8, rfreq |-> 800])
MCActiveCode  == <<203, 4>>
MCPassiveCode == <<89, 218>>
MCEepromInits ==
    {[a \in 0..7 |-> IF a < 2 THEN code[a + 1] ELSE 0] :
        code \in {MCActiveCode, MCPassiveCode}}
MCVarSizes    == [v \in {0, 1} |-> v + 1]
=============================================================================
