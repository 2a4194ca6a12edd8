------------------------------ MODULE SmioDsp ------------------------------
(***************************************************************************)
(* The tables of the two SMIOs of the position calculation: dsp and swap.  *)
(* For each: its operation codes, the registers of its core, the           *)
(* parameters (register, field, limits), the exported descriptors and the  *)
(* functions they are paired with, the calls of the client library and the *)
(* sets of its config_defaults function.                                   *)
(***************************************************************************)
EXTENDS RwParam

dsp_codes ==
    [kx |-> 0, ky |-> 1, ksum |-> 2,
     ds_tbt_thres |-> 3, ds_fofb_thres |-> 4, ds_monit_thres |-> 5,
     monit_amp_ch0 |-> 6, monit_amp_ch1 |-> 7, monit_amp_ch2 |-> 8, monit_amp_ch3 |-> 9,
     monit_pos_x |-> 10, monit_pos_y |-> 11, monit_pos_q |-> 12, monit_pos_sum |-> 13,
     monit_updt |-> 14]

\* Thresholds, gains, overflow counters and error clear of the core.
pos_calc_ctl_regs ==
    [DS_TBT_THRES |-> Value(26), DS_FOFB_THRES |-> Value(26), DS_MONIT_THRES |-> Value(26),
     KX |-> Value(25), KY |-> Value(25), KSUM |-> Value(25),
     DSP_CTNR_TBT    |-> [CH01 |-> 0..15, CH23 |-> 16..31],
     DSP_CTNR_FOFB   |-> [CH01 |-> 0..15, CH23 |-> 16..31],
     DSP_CTNR1_MONIT |-> [CIC |-> 0..15, CFIR |-> 16..31],
     DSP_CTNR2_MONIT |-> [PFIR |-> 0..15, FIR_01 |-> 16..31],
     DSP_ERR_CLR |-> [TBT |-> {0}, FOFB |-> {1}, MONIT_PART1 |-> {2}, MONIT_PART2 |-> {3}]]

pos_calc_addr ==
    Layout(<<"DS_TBT_THRES", "DS_FOFB_THRES", "DS_MONIT_THRES", "KX", "KY", "KSUM",
             "DSP_CTNR_TBT", "DSP_CTNR_FOFB", "DSP_CTNR1_MONIT", "DSP_CTNR2_MONIT",
             "DSP_ERR_CLR", "DDS_CFG",
             "DDS_PINC_CH0", "DDS_PINC_CH1", "DDS_PINC_CH2", "DDS_PINC_CH3",
             "DDS_POFF_CH0", "DDS_POFF_CH1", "DDS_POFF_CH2", "DDS_POFF_CH3",
             "DSP_MONIT_AMP_CH0", "DSP_MONIT_AMP_CH1", "DSP_MONIT_AMP_CH2",
             "DSP_MONIT_AMP_CH3", "DSP_MONIT_POS_X", "DSP_MONIT_POS_Y",
             "DSP_MONIT_POS_Q", "DSP_MONIT_POS_SUM", "DSP_MONIT_UPDT">>)

dsp_params ==
    LET Val(reg, lim) == Mult(pos_calc_ctl_regs, reg, "VAL", lim)
        Monit(reg)    == Whole(reg, NoLimits)
    IN  [kx |-> Val("KX", FromOne(25)), ky |-> Val("KY", FromOne(25)),
         ksum |-> Val("KSUM", FromOne(25)),
         ds_tbt_thres   |-> Val("DS_TBT_THRES", UpTo(26)),
         ds_fofb_thres  |-> Val("DS_FOFB_THRES", UpTo(26)),
         ds_monit_thres |-> Val("DS_MONIT_THRES", UpTo(26)),
         monit_amp_ch0 |-> Monit("DSP_MONIT_AMP_CH0"),
         monit_amp_ch1 |-> Monit("DSP_MONIT_AMP_CH1"),
         monit_amp_ch2 |-> Monit("DSP_MONIT_AMP_CH2"),
         monit_amp_ch3 |-> Monit("DSP_MONIT_AMP_CH3"),
         monit_pos_x   |-> Monit("DSP_MONIT_POS_X"),
         monit_pos_y   |-> Monit("DSP_MONIT_POS_Y"),
         monit_pos_q   |-> Monit("DSP_MONIT_POS_Q"),
         monit_pos_sum |-> Monit("DSP_MONIT_POS_SUM"),
         monit_updt    |-> Monit("DSP_MONIT_UPDT")]

dsp_ctl_exp ==
    RwOps(dsp_codes,
          <<"kx", "ky", "ksum", "ds_tbt_thres", "ds_fofb_thres", "ds_monit_thres">>)

dsp_monit_exp ==
    RwOps(dsp_codes,
          <<"monit_amp_ch0", "monit_amp_ch1", "monit_amp_ch2", "monit_amp_ch3",
            "monit_pos_x", "monit_pos_y", "monit_pos_q", "monit_pos_sum",
            "monit_updt">>)

dsp_exp_ops == dsp_ctl_exp \o dsp_monit_exp

dsp_exp_fp ==
    <<"kx", "ky", "ksum", "ds_tbt_thres", "ds_fofb_thres", "ds_monit_thres",
      "monit_amp_ch0", "monit_amp_ch1", "monit_amp_ch2", "monit_amp_ch3",
      "monit_pos_x", "monit_pos_y", "monit_pos_q", "monit_pos_sum", "monit_updt">>

dsp_ctl_client ==
    [n \in {"kx", "ky", "ksum", "ds_tbt_thres", "ds_fofb_thres", "ds_monit_thres"} |->
        ReadWrite(dsp_codes[n])]

dsp_monit_client ==
    [n \in DOMAIN dsp_codes \ DOMAIN dsp_ctl_client |-> ReadWrite(dsp_codes[n])]

dsp_defaults ==
    <<Must("kx", Num(10000000)), Must("ky", Num(10000000)), Must("ksum", Num(1)),
      Must("ds_tbt_thres", Num(0)), Must("ds_fofb_thres", Num(0)),
      Must("ds_monit_thres", Num(0))>>

-----------------------------------------------------------------------------
\* Operation code 3 is not used.
swap_codes ==
    [sw |-> 0, sw_en |-> 1, div_clk |-> 2, sw_dly |-> 4, wdw_en |-> 5, wdw_dly |-> 6,
     gain_a |-> 7, gain_b |-> 8, gain_c |-> 9, gain_d |-> 10]

bpm_swap_regs ==
    [CTRL |-> [RST |-> {0}, MODE1 |-> 1..2, MODE2 |-> 3..4,
               SWAP_DIV_F |-> 8..23, CLK_SWAP_EN |-> {24}],
     DLY |-> [DLY_1 |-> 0..15, DLY_2 |-> 16..31],
     A |-> [A |-> 0..15, C |-> 16..31], B |-> [B |-> 0..15, D |-> 16..31],
     C |-> [C |-> 0..15, A |-> 16..31], D |-> [D |-> 0..15, B |-> 16..31],
     WDW_CTL |-> [USE |-> {0}, SWCLK_EXT |-> {1}, RST_WDW |-> {2},
                  RESERVED |-> 3..15, DLY |-> 16..31]]

bpm_swap_addr == Layout(<<"CTRL", "DLY", "A", "B", "C", "D", "WDW_CTL">>)

\* sw and sw_dly write the same value in two fields; wdw_en sets two bits;
\* a gain is a whole register whose two halves are checked.
swap_params ==
    LET R == bpm_swap_regs
        Gain(reg) == [Whole(reg, <<Num(0), Bit>>) EXCEPT !.chk = "gain"]
    IN  [sw      |-> Param("CTRL", {R.CTRL.MODE1, R.CTRL.MODE2}, FALSE, UpTo(2)),
         sw_en   |-> Single(R, "CTRL", "CLK_SWAP_EN", Flag),
         div_clk |-> Mult(R, "CTRL", "SWAP_DIV_F", FromOne(16)),
         sw_dly  |-> Param("DLY", {R.DLY.DLY_1, R.DLY.DLY_2}, FALSE, UpTo(16)),
         wdw_en  |-> Param("WDW_CTL", {R.WDW_CTL.USE, R.WDW_CTL.SWCLK_EXT}, TRUE, Flag),
         wdw_dly |-> Mult(R, "WDW_CTL", "DLY", UpTo(16)),
         gain_a |-> Gain("A"), gain_b |-> Gain("B"),
         gain_c |-> Gain("C"), gain_d |-> Gain("D")]

swap_exp_ops ==
    RwOps(swap_codes,
          <<"sw", "sw_en", "div_clk", "sw_dly", "wdw_en", "wdw_dly",
            "gain_a", "gain_b", "gain_c", "gain_d">>)

swap_exp_fp ==
    <<"sw", "sw_en", "div_clk", "sw_dly", "wdw_en", "wdw_dly",
      "gain_a", "gain_b", "gain_c", "gain_d">>

swap_sw_client ==
    [n \in {"sw", "sw_en", "div_clk", "sw_dly", "wdw_en", "wdw_dly"} |->
        ReadWrite(swap_codes[n])]

\* The two 16-bit gains of a call are packed in one value.
swap_gain_client ==
    [n \in {"gain_a", "gain_b", "gain_c", "gain_d"} |-> ReadWrite(swap_codes[n])]

\* The result of the first set is not looked at.
swap_defaults ==
    LET Gain == {15, 31}
    IN  <<May("div_clk", Num(490)), Must("sw", Num(1)), Must("sw_en", Num(0)),
          Must("gain_a", Gain), Must("gain_b", Gain),
          Must("gain_c", Gain), Must("gain_d", Gain)>>
=============================================================================
