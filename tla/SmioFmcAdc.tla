----------------------------- MODULE SmioFmcAdc -----------------------------
(***************************************************************************)
(* The tables of the digitiser boards' SMIOs: fmc130m_4ch, fmc250m_4ch and *)
(* fmc_adc_common.                                                         *)
(***************************************************************************)
EXTENDS RwParam

fmc130m_codes ==
    [adc_rand |-> 5, adc_dith |-> 6, adc_shdn |-> 7, adc_pga |-> 8,
     adc_data0 |-> 9, adc_data1 |-> 10, adc_data2 |-> 11, adc_data3 |-> 12,
     adc_dly_val0 |-> 13, adc_dly_val1 |-> 14, adc_dly_val2 |-> 15, adc_dly_val3 |-> 16,
     adc_dly_line0 |-> 17, adc_dly_line1 |-> 18, adc_dly_line2 |-> 19, adc_dly_line3 |-> 20,
     adc_dly_updt0 |-> 21, adc_dly_updt1 |-> 22, adc_dly_updt2 |-> 23, adc_dly_updt3 |-> 24,
     adc_dly0 |-> 25, adc_dly1 |-> 26, adc_dly2 |-> 27, adc_dly3 |-> 28]

fmc130m_idelay ==
    [UPDATE |-> {0}, LINE |-> 1..17, VAL |-> 18..22, RESERVED |-> 23..31]

fmc130m_regs ==
    [ADC |-> [RAND |-> {0}, DITH |-> {1}, SHDN |-> {2}, PGA |-> {3}, RESERVED |-> 4..31],
     FPGA_CTRL |-> [FMC_IDELAY_RST |-> {0}, FMC_FIFO_RST |-> {1}, FMC_IDELAY0_RDY |-> {2},
                    FMC_IDELAY1_RDY |-> {3}, FMC_IDELAY2_RDY |-> {4}, FMC_IDELAY3_RDY |-> {5},
                    RESERVED1 |-> 6..7, TEMP_ALARM |-> {8}, RESERVED2 |-> 9..31],
     IDELAY0_CAL |-> fmc130m_idelay, IDELAY1_CAL |-> fmc130m_idelay,
     IDELAY2_CAL |-> fmc130m_idelay, IDELAY3_CAL |-> fmc130m_idelay]

fmc130m_data_regs ==
    [DATA0 |-> [VAL |-> Bit], DATA1 |-> [VAL |-> Bit],
     DATA2 |-> [VAL |-> Bit], DATA3 |-> [VAL |-> Bit],
     DCM |-> [ADC_EN |-> {0}, ADC_PHASE |-> {1}, ADC_DONE |-> {2},
              ADC_STATUS0 |-> {3}, ADC_RESET |-> {4}, RESERVED |-> 5..31]]

fmc130m_addr ==
    Layout(<<"ADC", "FPGA_CTRL", "IDELAY0_CAL", "IDELAY1_CAL", "IDELAY2_CAL", "IDELAY3_CAL",
             "DATA0", "DATA1", "DATA2", "DATA3", "DCM">>)

\* The switches of the converters and the samples, sign-extended when read.
fmc130m_adc_params ==
    LET Switch(f) == Single(fmc130m_regs, "ADC", f, Flag)
        Data(reg) == [Mult(fmc130m_data_regs, reg, "VAL", NoLimits) EXCEPT !.fmt = "sign"]
    IN  [adc_rand |-> Switch("RAND"), adc_dith |-> Switch("DITH"),
         adc_shdn |-> Switch("SHDN"), adc_pga |-> Switch("PGA"),
         adc_data0 |-> Data("DATA0"), adc_data1 |-> Data("DATA1"),
         adc_data2 |-> Data("DATA2"), adc_data3 |-> Data("DATA3")]

\* The delay lines: value, line selection and update bit, without limits.
fmc130m_dly_params ==
    LET Val(reg)  == Mult(fmc130m_regs, reg, "VAL", NoLimits)
        Line(reg) == Mult(fmc130m_regs, reg, "LINE", NoLimits)
        Updt(reg) == Single(fmc130m_regs, reg, "UPDATE", NoLimits)
    IN  [adc_dly_val0  |-> Val("IDELAY0_CAL"),  adc_dly_val1  |-> Val("IDELAY1_CAL"),
         adc_dly_val2  |-> Val("IDELAY2_CAL"),  adc_dly_val3  |-> Val("IDELAY3_CAL"),
         adc_dly_line0 |-> Line("IDELAY0_CAL"), adc_dly_line1 |-> Line("IDELAY1_CAL"),
         adc_dly_line2 |-> Line("IDELAY2_CAL"), adc_dly_line3 |-> Line("IDELAY3_CAL"),
         adc_dly_updt0 |-> Updt("IDELAY0_CAL"), adc_dly_updt1 |-> Updt("IDELAY1_CAL"),
         adc_dly_updt2 |-> Updt("IDELAY2_CAL"), adc_dly_updt3 |-> Updt("IDELAY3_CAL")]

\* Operations that write a whole delay register: the register of each.
fmc130m_delays ==
    [adc_dly0 |-> "IDELAY0_CAL", adc_dly1 |-> "IDELAY1_CAL",
     adc_dly2 |-> "IDELAY2_CAL", adc_dly3 |-> "IDELAY3_CAL"]

\* The lines of a delay type: data, clock or both.
fmc130m_lines(type) ==
    (IF 0 \in type THEN WriteField(0..15, fmc130m_idelay.LINE) ELSE {})
        \cup (IF 1 \in type THEN WriteField({16}, fmc130m_idelay.LINE) ELSE {})

fmc130m_adc_exp ==
    RwOps(fmc130m_codes,
          <<"adc_rand", "adc_dith", "adc_shdn", "adc_pga",
            "adc_data0", "adc_data1", "adc_data2", "adc_data3">>)

fmc130m_dly_exp ==
    RwOps(fmc130m_codes,
          <<"adc_dly_val0", "adc_dly_val1", "adc_dly_val2", "adc_dly_val3",
            "adc_dly_line0", "adc_dly_line1", "adc_dly_line2", "adc_dly_line3",
            "adc_dly_updt0", "adc_dly_updt1", "adc_dly_updt2", "adc_dly_updt3">>)

fmc130m_delay_exp ==
    <<Op("adc_dly0", 25, 0, <<4, 4>>), Op("adc_dly1", 26, 0, <<4, 4>>),
      Op("adc_dly2", 27, 0, <<4, 4>>), Op("adc_dly3", 28, 0, <<4, 4>>)>>

fmc130m_exp_ops == fmc130m_adc_exp \o fmc130m_dly_exp \o fmc130m_delay_exp

fmc130m_exp_fp ==
    <<"adc_rand", "adc_dith", "adc_shdn", "adc_pga",
      "adc_data0", "adc_data1", "adc_data2", "adc_data3",
      "adc_dly_val0", "adc_dly_val1", "adc_dly_val2", "adc_dly_val3",
      "adc_dly_line0", "adc_dly_line1", "adc_dly_line2", "adc_dly_line3",
      "adc_dly_updt0", "adc_dly_updt1", "adc_dly_updt2", "adc_dly_updt3",
      "adc_dly0", "adc_dly1", "adc_dly2", "adc_dly3">>

fmc130m_adc_client == [n \in DOMAIN fmc130m_adc_params |-> ReadWrite(fmc130m_codes[n])]

fmc130m_dly_client == [n \in DOMAIN fmc130m_dly_params |-> ReadWrite(fmc130m_codes[n])]

\* The delay type takes the place of the read/write argument.
fmc130m_delay_client == [n \in DOMAIN fmc130m_delays |-> WriteOnly(fmc130m_codes[n])]

\* There is nothing to set.
fmc130m_defaults == <<>>

-----------------------------------------------------------------------------
fmc250m_codes ==
    [adc_data0 |-> 9, adc_data1 |-> 10, adc_data2 |-> 11, adc_data3 |-> 12,
     rst_adcs |-> 45, rst_div_adcs |-> 46, sleep_adcs |-> 47,
     test_mode0 |-> 48, test_mode1 |-> 49, test_mode2 |-> 50, test_mode3 |-> 51]

fmc250m_adc_regs ==
    [ADC_STA |-> [CLK_CHAINS |-> 0..3, RESERVED_CLK_CHAINS |-> 4..7, DATA_CHAINS |-> 8..11,
                  RESERVED_DATA_CHAINS |-> 12..15, ADC_PKT_SIZE |-> 16..31],
     ADC_CTL |-> [UPDATE_CLK_DLY |-> {0}, UPDATE_DATA_DLY |-> {1}, RST_ADCS |-> {2},
                  RST_DIV_ADCS |-> {3}, SLEEP_ADCS |-> {4}, RESERVED |-> 5..31]]

\* The samples and the fine and coarse delays of one channel, the same for
\* the four of them.
fmc250m_fn_dly ==
    [CLK_CHAIN_DLY |-> 0..4, RESERVED_CLK_CHAIN_DLY |-> 5..7,
     DATA_CHAIN_DLY |-> 8..12, RESERVED_DATA_CHAIN_DLY |-> 13..15,
     INC_CLK_CHAIN_DLY |-> {16}, DEC_CLK_CHAIN_DLY |-> {17},
     RESERVED_CLK_INCDEC_DLY |-> 18..23, INC_DATA_CHAIN_DLY |-> {24},
     DEC_DATA_CHAIN_DLY |-> {25}, RESERVED_DATA_INCDEC_DLY |-> 26..31]

fmc250m_cs_dly ==
    [FE_DLY |-> 0..1, RESERVED_FE_DLY |-> 2..7, RG_DLY |-> 8..9, RESERVED_RG_DLY |-> 10..31]

fmc250m_chan_regs ==
    [CH0_STA |-> Value(16), CH0_FN_DLY |-> fmc250m_fn_dly, CH0_CS_DLY |-> fmc250m_cs_dly,
     CH1_STA |-> Value(16), CH1_FN_DLY |-> fmc250m_fn_dly, CH1_CS_DLY |-> fmc250m_cs_dly,
     CH2_STA |-> Value(16), CH2_FN_DLY |-> fmc250m_fn_dly, CH2_CS_DLY |-> fmc250m_cs_dly,
     CH3_STA |-> Value(16), CH3_FN_DLY |-> fmc250m_fn_dly, CH3_CS_DLY |-> fmc250m_cs_dly]

fmc250m_addr ==
    Layout(<<"ADC_STA", "ADC_CTL", "CH0_STA", "CH0_FN_DLY", "CH0_CS_DLY",
             "CH1_STA", "CH1_FN_DLY", "CH1_CS_DLY", "CH2_STA", "CH2_FN_DLY", "CH2_CS_DLY",
             "CH3_STA", "CH3_FN_DLY", "CH3_CS_DLY", "TEMP">>)

fmc250m_data_params ==
    LET Data(reg) == [Mult(fmc250m_chan_regs, reg, "VAL", NoLimits) EXCEPT !.fmt = "sign"]
    IN  [adc_data0 |-> Data("CH0_STA"), adc_data1 |-> Data("CH1_STA"),
         adc_data2 |-> Data("CH2_STA"), adc_data3 |-> Data("CH3_STA")]

fmc250m_ctl_params ==
    LET Switch(f) == Single(fmc250m_adc_regs, "ADC_CTL", f, Flag)
    IN  [rst_adcs |-> Switch("RST_ADCS"), rst_div_adcs |-> Switch("RST_DIV_ADCS"),
         sleep_adcs |-> Switch("SLEEP_ADCS")]

\* The test modes of the converters are set through their chip drivers.
fmc250m_chips ==
    [n \in {"test_mode0", "test_mode1", "test_mode2", "test_mode3"} |->
        [read |-> FALSE, write |-> TRUE]]

fmc250m_ctl_exp == RwOps(fmc250m_codes, <<"rst_adcs", "rst_div_adcs", "sleep_adcs">>)

fmc250m_data_exp ==
    RwOps(fmc250m_codes, <<"adc_data0", "adc_data1", "adc_data2", "adc_data3">>)

fmc250m_test_exp ==
    <<Op("test_mode0", 48, 0, <<4, 4>>), Op("test_mode1", 49, 0, <<4, 4>>),
      Op("test_mode2", 50, 0, <<4, 4>>), Op("test_mode3", 51, 0, <<4, 4>>)>>

fmc250m_exp_ops == fmc250m_data_exp \o fmc250m_ctl_exp \o fmc250m_test_exp

fmc250m_exp_fp ==
    <<"adc_data0", "adc_data1", "adc_data2", "adc_data3",
      "rst_adcs", "rst_div_adcs", "sleep_adcs",
      "test_mode0", "test_mode1", "test_mode2", "test_mode3">>

fmc250m_ctl_client ==
    [n \in DOMAIN fmc250m_ctl_params |-> ReadWrite(fmc250m_codes[n])]
        @@ [n \in DOMAIN fmc250m_chips |-> WriteOnly(fmc250m_codes[n])]

\* The samples are read with the functions, and the codes, of fmc130m_4ch.
fmc250m_data_client == [n \in DOMAIN fmc250m_data_params |-> ReadWrite(fmc130m_codes[n])]

fmc250m_defaults ==
    <<Must("rst_adcs", Num(1)), Must("rst_div_adcs", Num(1)), Must("sleep_adcs", Num(0))>>

-----------------------------------------------------------------------------
fmc_adc_common_codes ==
    [leds |-> 0, test_data_en |-> 1, trig_dir |-> 2, trig_term |-> 3, trig_val |-> 4]

fmc_adc_common_regs ==
    [FMC_STATUS |-> [MMCM_LOCKED |-> {0}, PWR_GOOD |-> {1}, PRST |-> {2}, RESERVED |-> 3..30],
     TRIGGER |-> [DIR |-> {0}, TERM |-> {1}, TRIG_VAL |-> {2}, RESERVED |-> 3..31],
     MONITOR |-> [TEST_DATA_EN |-> {0}, LED1 |-> {1}, LED2 |-> {2}, LED3 |-> {3},
                  RESERVED |-> 4..31]]

fmc_adc_common_addr == Layout(<<"FMC_STATUS", "TRIGGER", "MONITOR">>)

\* The three LEDs are one field of three bits.
fmc_adc_common_params ==
    LET R == fmc_adc_common_regs
    IN  [leds |-> Param("MONITOR", {R.MONITOR.LED1 \cup R.MONITOR.LED2 \cup R.MONITOR.LED3},
                        FALSE, UpTo(3)),
         test_data_en |-> Single(R, "MONITOR", "TEST_DATA_EN", Flag),
         trig_dir  |-> Single(R, "TRIGGER", "DIR", Flag),
         trig_term |-> Single(R, "TRIGGER", "TERM", Flag),
         trig_val  |-> Single(R, "TRIGGER", "TRIG_VAL", Flag)]

fmc_adc_common_exp_ops ==
    RwOps(fmc_adc_common_codes,
          <<"leds", "test_data_en", "trig_dir", "trig_term", "trig_val">>)

fmc_adc_common_exp_fp == <<"leds", "test_data_en", "trig_dir", "trig_term", "trig_val">>

fmc_adc_common_client ==
    [n \in DOMAIN fmc_adc_common_codes |-> ReadWrite(fmc_adc_common_codes[n])]

fmc_adc_common_defaults == <<Must("trig_dir", Num(0))>>
=============================================================================
