---------------------------- MODULE SmioTrigger ----------------------------
(***************************************************************************)
(* The tables of trigger_iface and trigger_mux, whose registers repeat for *)
(* every trigger channel.                                                  *)
(***************************************************************************)
EXTENDS RwParam

CONSTANTS
    NumChan,     \* trigger channels (24 in the code)
    SwClkChan    \* the channel of the switching clock (17 in the code)

ASSUME TriggerChannels == NumChan \in Nat \ {0} /\ SwClkChan \in 0..(NumChan - 1)

trigger_iface_codes ==
    [dir |-> 0, dir_pol |-> 1, rcv_count_rst |-> 2, transm_count_rst |-> 3,
     rcv_len |-> 4, transm_len |-> 5, count_rcv |-> 6, count_transm |-> 7]

\* The fields of one channel, the same for all of them.
trigger_iface_regs ==
    [CTL   |-> [DIR |-> {0}, DIR_POL |-> {1}, RCV_COUNT_RST |-> {2}, TRANSM_COUNT_RST |-> {3}],
     CFG   |-> [RCV_LEN |-> 0..7, TRANSM_LEN |-> 8..15],
     COUNT |-> [RCV |-> 0..15, TRANSM |-> 16..31]]

trigger_iface_addr == Layout(<<"CTL", "CFG", "COUNT">>)

TRIGGER_IFACE_CHAN_OFFSET == 12

trigger_iface_params ==
    LET R == trigger_iface_regs
    IN  [dir     |-> Single(R, "CTL", "DIR", Flag),
         dir_pol |-> Single(R, "CTL", "DIR_POL", Flag),
         rcv_count_rst    |-> Single(R, "CTL", "RCV_COUNT_RST", Flag),
         transm_count_rst |-> Single(R, "CTL", "TRANSM_COUNT_RST", Flag),
         rcv_len      |-> Mult(R, "CFG", "RCV_LEN", UpTo(8)),
         transm_len   |-> Mult(R, "CFG", "TRANSM_LEN", NoLimits),
         count_rcv    |-> Mult(R, "COUNT", "RCV", NoLimits),
         count_transm |-> Mult(R, "COUNT", "TRANSM", NoLimits)]

trigger_iface_exp_ops ==
    ChanOps(trigger_iface_codes,
            <<"dir", "dir_pol", "rcv_count_rst", "transm_count_rst",
              "rcv_len", "transm_len", "count_rcv", "count_transm">>)

trigger_iface_exp_fp ==
    <<"dir", "dir_pol", "rcv_count_rst", "transm_count_rst",
      "rcv_len", "transm_len", "count_rcv", "count_transm">>

trigger_iface_client ==
    [n \in DOMAIN trigger_iface_codes |-> ReadWriteChan(trigger_iface_codes[n])]

\* The error is assigned afresh for every channel.
trigger_iface_defaults ==
    ForEachChan(NumChan, <<"dir", "dir_pol", "rcv_count_rst", "transm_count_rst",
                           "rcv_len", "transm_len">>,
                [i \in 1..6 |-> Num(1)])

-----------------------------------------------------------------------------
trigger_mux_codes ==
    [rcv_src |-> 0, rcv_in_sel |-> 1, transm_src |-> 2, transm_out_sel |-> 3]

trigger_mux_regs ==
    [CTL |-> [RCV_SRC |-> {0}, RCV_IN_SEL |-> 8..15,
              TRANSM_SRC |-> {16}, TRANSM_OUT_SEL |-> 24..31]]

trigger_mux_addr == Layout(<<"CTL", "DUMMY">>)

TRIGGER_MUX_CHAN_OFFSET == 8

trigger_mux_params ==
    LET R == trigger_mux_regs
    IN  [rcv_src        |-> Single(R, "CTL", "RCV_SRC", Flag),
         rcv_in_sel     |-> Mult(R, "CTL", "RCV_IN_SEL", UpTo(8)),
         transm_src     |-> Single(R, "CTL", "TRANSM_SRC", Flag),
         transm_out_sel |-> Mult(R, "CTL", "TRANSM_OUT_SEL", UpTo(8))]

trigger_mux_exp_ops ==
    ChanOps(trigger_mux_codes, <<"rcv_src", "rcv_in_sel", "transm_src", "transm_out_sel">>)

trigger_mux_exp_fp == <<"rcv_src", "rcv_in_sel", "transm_src", "transm_out_sel">>

trigger_mux_client ==
    [n \in DOMAIN trigger_mux_codes |-> ReadWriteChan(trigger_mux_codes[n])]

\* Every channel, and then the switching clock's once more.
trigger_mux_defaults ==
    LET names == <<"rcv_src", "rcv_in_sel", "transm_src", "transm_out_sel">>
    IN  ForEachChan(NumChan, names, [i \in 1..4 |-> Num(0)])
            \o OneChan(SwClkChan, names, <<Num(1), Num(1), Num(0), Num(0)>>)
=============================================================================
