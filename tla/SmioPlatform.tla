---------------------------- MODULE SmioPlatform ----------------------------
(***************************************************************************)
(* The tables of rffe (the analog front end, a remote server reached       *)
(* through its chip driver), of afc_diag (the carrier board) and of the    *)
(* plain parameters of acq.                                                *)
(***************************************************************************)
EXTENDS RwParam

CONSTANT EndChanId    \* acquisition channels of the board (17 on the AFC)

ASSUME AcqChannels == EndChanId \in 1..31

RFFE_BLOCK_SIZE   == 127
RFFE_VERSION_SIZE == 8

rffe_codes ==
    [sw |-> 0, att1 |-> 1, att2 |-> 2, temp1 |-> 3, temp2 |-> 4, temp3 |-> 5, temp4 |-> 6,
     set_point1 |-> 7, set_point2 |-> 8, temp_control |-> 9, output1 |-> 10, output2 |-> 11,
     reset |-> 12, reprog |-> 13, data |-> 14, version |-> 15, sw_lvl |-> 16]

\* Every variable is read and written by number.
rffe_vars == [n \in DOMAIN rffe_codes |-> [read |-> TRUE, write |-> TRUE]]

rffe_uint_op(n)        == Op(n, rffe_codes[n], 4, <<4, 4>>)
rffe_double_op(n)      == Op(n, rffe_codes[n], 8, <<4, 8>>)
rffe_block_op(n, size) == Op(n, rffe_codes[n], size, <<4, size>>)

rffe_analog_exp ==
    <<rffe_uint_op("sw"), rffe_double_op("att1"), rffe_double_op("att2"),
      rffe_double_op("temp1"), rffe_double_op("temp2"),
      rffe_double_op("temp3"), rffe_double_op("temp4"),
      rffe_double_op("set_point1"), rffe_double_op("set_point2")>>

rffe_control_exp ==
    <<rffe_uint_op("temp_control"), rffe_double_op("output1"), rffe_double_op("output2"),
      rffe_uint_op("reset"), rffe_uint_op("reprog"),
      rffe_block_op("data", RFFE_BLOCK_SIZE), rffe_block_op("version", RFFE_VERSION_SIZE),
      rffe_uint_op("sw_lvl")>>

rffe_exp_ops == rffe_analog_exp \o rffe_control_exp

rffe_exp_fp ==
    <<"sw", "att1", "att2", "temp1", "temp2", "temp3", "temp4", "set_point1", "set_point2",
      "temp_control", "output1", "output2", "reset", "reprog", "data", "version", "sw_lvl">>

rffe_analog_client ==
    ("sw" :> ReadWrite(rffe_codes.sw))
        @@ [n \in {"att1", "att2", "set_point1", "set_point2"} |-> ReadWriteDouble(rffe_codes[n])]
        @@ [n \in {"temp1", "temp2", "temp3", "temp4"} |-> ReadDouble(rffe_codes[n])]

rffe_control_client ==
    [n \in {"temp_control", "reset", "reprog", "sw_lvl"} |-> ReadWrite(rffe_codes[n])]
        @@ [n \in {"output1", "output2"} |-> ReadWriteDouble(rffe_codes[n])]
        @@ [data |-> ClientOp(14, <<4, RFFE_BLOCK_SIZE>>, <<4, RFFE_BLOCK_SIZE>>,
                              RFFE_BLOCK_SIZE),
            version |-> ClientOp(15, <<>>, <<4, RFFE_VERSION_SIZE>>, RFFE_VERSION_SIZE)]

rffe_defaults == <<Must("sw", Num(1)), Must("att1", Num(0)), Must("att2", Num(0))>>

-----------------------------------------------------------------------------
AFC_DIAG_REVISION_SIZE == 128

afc_diag_codes ==
    [card_slot |-> 0, ipmi_addr |-> 1, build_revision |-> 2, build_date |-> 3,
     build_user_name |-> 4, build_user_email |-> 5]

afc_diag_regs == [GEO_ID |-> [CARD_SLOT |-> 0..15, IPMI_ADDR |-> 16..31]]

afc_diag_addr ==
    [ID_PART4 |-> 0, ID_PART3 |-> 4, ID_PART2 |-> 8, ID_PART1 |-> 12, GEO_ID |-> 16,
     DATA_VALID |-> 20, SENS_DATA_START |-> 24, SENS_DATA_END |-> 1016,
     FMC_SLOT_STATUS |-> 1020]

afc_diag_params ==
    [card_slot |-> Mult(afc_diag_regs, "GEO_ID", "CARD_SLOT", NoLimits),
     ipmi_addr |-> Mult(afc_diag_regs, "GEO_ID", "IPMI_ADDR", NoLimits)]

afc_diag_infos == {"build_revision", "build_date", "build_user_name", "build_user_email"}

afc_diag_exp_ops ==
    LET Info(n) == Op(n, afc_diag_codes[n], AFC_DIAG_REVISION_SIZE, <<4, 4>>)
    IN  RwOps(afc_diag_codes, <<"card_slot", "ipmi_addr">>)
            \o <<Info("build_revision"), Info("build_date"),
                 Info("build_user_name"), Info("build_user_email")>>

afc_diag_exp_fp ==
    <<"card_slot", "ipmi_addr", "build_revision", "build_date",
      "build_user_name", "build_user_email">>

\* The second argument of a read has the size of the result.
afc_diag_client ==
    [n \in DOMAIN afc_diag_codes |->
        IF n \in afc_diag_infos
        THEN ClientOp(afc_diag_codes[n], <<>>, <<4, AFC_DIAG_REVISION_SIZE>>,
                      AFC_DIAG_REVISION_SIZE)
        ELSE ReadWrite(afc_diag_codes[n])]

afc_diag_defaults == <<Look("card_slot"), Look("ipmi_addr")>>

-----------------------------------------------------------------------------
BLOCK_SIZE == 131072

acq_codes ==
    [data_acquire |-> 0, get_data_block |-> 1, check_data_acquire |-> 2, cfg_trigger |-> 3,
     hw_data_trig_pol |-> 4, hw_data_trig_sel |-> 5, hw_data_trig_filt |-> 6,
     hw_data_trig_thres |-> 7, hw_trig_dly |-> 8, sw_trig |-> 9, fsm_stop |-> 10,
     hw_data_trig_chan |-> 11]

acq_core_regs ==
    [CTL |-> [FSM_START_ACQ |-> {0}, FSM_STOP_ACQ |-> {1}, RESERVED1 |-> 2..15,
              FSM_ACQ_NOW |-> {16}, RESERVED2 |-> 17..31],
     STA |-> [FSM_STATE |-> 0..2, FSM_ACQ_DONE |-> {3}, RESERVED1 |-> 4..7,
              FC_TRANS_DONE |-> {8}, FC_FULL |-> {9}, RESERVED2 |-> 10..15,
              DDR3_TRANS_DONE |-> {16}, RESERVED3 |-> 17..31],
     TRIG_CFG |-> [HW_TRIG_SEL |-> {0}, HW_TRIG_POL |-> {1}, HW_TRIG_EN |-> {2},
                   SW_TRIG_EN |-> {3}, INT_TRIG_SEL |-> 4..5, RESERVED |-> 6..31],
     TRIG_DATA_CFG |-> [THRES_FILT |-> 0..7, RESERVED |-> 8..31],
     SHOTS |-> [NB |-> 0..15, RESERVED |-> 16..31],
     ACQ_CHAN_CTL |-> [WHICH |-> 0..4, RESERVED |-> 5..7, DTRIG_WHICH |-> 8..12,
                       RESERVED1 |-> 13..31]]

acq_core_addr ==
    Layout(<<"CTL", "STA", "TRIG_CFG", "TRIG_DATA_CFG", "TRIG_DATA_THRES", "TRIG_DLY",
             "SW_TRIG", "SHOTS", "TRIG_POS", "PRE_SAMPLES", "POST_SAMPLES", "SAMPLES_CNT",
             "DDR3_START_ADDR", "DDR3_END_ADDR", "ACQ_CHAN_CTL">>)

acq_params ==
    LET R == acq_core_regs
    IN  [hw_data_trig_pol   |-> Single(R, "TRIG_CFG", "HW_TRIG_POL", Flag),
         hw_data_trig_sel   |-> Mult(R, "TRIG_CFG", "INT_TRIG_SEL", UpTo(2)),
         hw_data_trig_filt  |-> Mult(R, "TRIG_DATA_CFG", "THRES_FILT", UpTo(8)),
         hw_data_trig_thres |-> Whole("TRIG_DATA_THRES", NoLimits),
         hw_trig_dly        |-> Whole("TRIG_DLY", NoLimits),
         sw_trig            |-> Whole("SW_TRIG", Flag),
         fsm_stop           |-> Single(R, "CTL", "FSM_STOP_ACQ", Flag),
         hw_data_trig_chan  |-> Mult(R, "ACQ_CHAN_CTL", "DTRIG_WHICH",
                                     <<Num(0), Num(EndChanId - 1)>>)]

\* The first three, and cfg_trigger, are actions of module Acq.
acq_exp_ops ==
    <<Op("data_acquire", 0, 0, <<4, 4, 4, 4>>), Op("check_data_acquire", 2, 0, <<>>),
      Op("get_data_block", 1, BLOCK_SIZE + 4, <<4, 4>>)>>
        \o RwOps(acq_codes,
                 <<"cfg_trigger", "hw_data_trig_pol", "hw_data_trig_sel", "hw_data_trig_filt",
                   "hw_data_trig_thres", "hw_trig_dly", "sw_trig", "fsm_stop",
                   "hw_data_trig_chan">>)

acq_exp_fp ==
    <<"data_acquire", "check_data_acquire", "get_data_block", "cfg_trigger",
      "hw_data_trig_pol", "hw_data_trig_sel", "hw_data_trig_filt", "hw_data_trig_thres",
      "hw_trig_dly", "sw_trig", "fsm_stop", "hw_data_trig_chan">>

acq_client ==
    [n \in DOMAIN acq_params |-> ReadWrite(acq_codes[n])]
=============================================================================
