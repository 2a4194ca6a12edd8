----------------------------- MODULE SmioClock -----------------------------
(***************************************************************************)
(* The tables of fmc_active_clk: the clock distribution switches, and the  *)
(* operations of the AD9510 and Si571 drivers.                             *)
(***************************************************************************)
EXTENDS RwParam

fmc_active_clk_codes ==
    [si571_oe |-> 0, pll_function |-> 1, pll_status |-> 2, clk_sel |-> 3,
     ad9510_cfg_defaults |-> 4, ad9510_pll_a_div |-> 5, ad9510_pll_b_div |-> 6,
     ad9510_pll_prescaler |-> 7, ad9510_r_div |-> 8, ad9510_pll_pdown |-> 9,
     ad9510_mux_status |-> 10, ad9510_cp_current |-> 11, ad9510_outputs |-> 12,
     ad9510_pll_clk_sel |-> 13, si571_freq |-> 14, si571_get_defaults |-> 15]

fmc_active_clk_regs ==
    [CLK_DISTRIB |-> [SI571_OE |-> {0}, PLL_FUNCTION |-> {1}, PLL_STATUS |-> {2},
                      CLK_SEL |-> {3}, RESERVED |-> 4..31]]

fmc_active_clk_addr == Layout(<<"CLK_DISTRIB", "DUMMY">>)

fmc_active_clk_params ==
    LET Switch(f) == Single(fmc_active_clk_regs, "CLK_DISTRIB", f, Flag)
    IN  [si571_oe |-> Switch("SI571_OE"), pll_function |-> Switch("PLL_FUNCTION"),
         pll_status |-> Switch("PLL_STATUS"), clk_sel |-> Switch("CLK_SEL")]

\* Which of the driver functions exist.
fmc_active_clk_ad9510 ==
    [n \in {"ad9510_pll_a_div", "ad9510_pll_b_div", "ad9510_pll_prescaler", "ad9510_r_div",
            "ad9510_pll_pdown", "ad9510_mux_status", "ad9510_cp_current", "ad9510_outputs",
            "ad9510_pll_clk_sel", "ad9510_cfg_defaults"} |->
        [read |-> n # "ad9510_cfg_defaults", write |-> TRUE]]

fmc_active_clk_si571 ==
    [si571_freq |-> [read |-> TRUE, write |-> TRUE],
     si571_get_defaults |-> [read |-> FALSE, write |-> TRUE]]

fmc_active_clk_switch_exp ==
    RwOps(fmc_active_clk_codes, <<"si571_oe", "pll_function", "pll_status", "clk_sel">>)

fmc_active_clk_ad9510_exp ==
    RwOps(fmc_active_clk_codes,
          <<"ad9510_cfg_defaults", "ad9510_pll_a_div", "ad9510_pll_b_div",
            "ad9510_pll_prescaler", "ad9510_r_div", "ad9510_pll_pdown",
            "ad9510_mux_status", "ad9510_cp_current", "ad9510_outputs",
            "ad9510_pll_clk_sel">>)

fmc_active_clk_exp_ops ==
    fmc_active_clk_switch_exp \o fmc_active_clk_ad9510_exp
        \o <<Op("si571_freq", 14, 8, <<4, 8>>), Op("si571_get_defaults", 15, 0, <<4, 8>>)>>

fmc_active_clk_exp_fp ==
    <<"si571_oe", "pll_function", "pll_status", "clk_sel", "ad9510_cfg_defaults",
      "ad9510_pll_a_div", "ad9510_pll_b_div", "ad9510_pll_prescaler", "ad9510_r_div",
      "ad9510_pll_pdown", "ad9510_mux_status", "ad9510_cp_current", "ad9510_outputs",
      "ad9510_pll_clk_sel", "si571_freq", "si571_get_defaults">>

fmc_active_clk_switch_client ==
    [n \in DOMAIN fmc_active_clk_params |-> ReadWrite(fmc_active_clk_codes[n])]

fmc_active_clk_ad9510_client ==
    [n \in DOMAIN fmc_active_clk_ad9510 |-> ReadWrite(fmc_active_clk_codes[n])]

fmc_active_clk_si571_client ==
    [si571_freq |-> ReadWriteDouble(14),
     si571_get_defaults |-> ClientOp(15, <<4, 8>>, <<>>, 0)]

\* The values of the chip operations do not matter here.
fmc_active_clk_defaults ==
    <<Must("pll_function", Num(1)), Must("clk_sel", Num(0)),
      Again("ad9510_cfg_defaults", Num(0)), Must("si571_get_defaults", Num(0)),
      Must("si571_freq", Num(0)), Must("si571_oe", Num(1))>>
=============================================================================
