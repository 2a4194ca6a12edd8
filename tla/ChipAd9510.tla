----------------------------- MODULE ChipAd9510 -----------------------------
(***************************************************************************)
(* The AD9510 clock distribution driver, src/sm_io/chips/sm_ch_ad9510.c:   *)
(* its register map, and each of its functions as the list of one-byte     *)
(* transfers it makes.  The registers are written to a buffer of the chip  *)
(* and take effect when the update register is written.                    *)
(***************************************************************************)
EXTENDS RwParam

Outputs == 0..7

OutRegs    == <<"OUT0", "OUT1", "OUT2", "OUT3", "OUT4", "OUT5", "OUT6", "OUT7">>
DcycleRegs == <<"DCYCLE0", "DCYCLE1", "DCYCLE2", "DCYCLE3", "DCYCLE4", "DCYCLE5",
                "DCYCLE6", "DCYCLE7">>
OptRegs    == <<"OPT0", "OPT1", "OPT2", "OPT3", "OPT4", "OPT5", "OPT6", "OPT7">>

OutReg(i) == OutRegs[i + 1]

Ad9510Regs ==
    {"CFG_SERIAL", "PLL_A_COUNTER", "PLL_B_MSB_COUNTER", "PLL_B_LSB_COUNTER", "PLL_2",
     "PLL_3", "PLL_4", "PLL_R_MSB_COUNTER", "PLL_R_LSB_COUNTER", "CLK_OPT", "FUNCTION",
     "UPDATE_REGS"}
    \cup ToSet(OutRegs) \cup ToSet(DcycleRegs) \cup ToSet(OptRegs)

Byte == 0..7

LONG_INST   == {4}
SOFT_RST    == {5}
PLL_A       == 0..5
PLL_B_MSB   == 0..4
PLL_R_MSB   == 0..5
LSB         == 0..7
CP_MODE     == 0..1
MUX_SEL     == 2..5
PFD_POL_POS == {6}
CP_CURRENT  == 4..6
PLL_PDOWN   == 0..1
PRESCALER_P == 2..4
B_BYPASS    == {6}
LVPECL_PDOWN == 0..1
LVPECL_LVL   == 2..3
LVDS_PDOWN   == {0}
LVDS_CURR    == 1..2
SEL_CLK1     == {0}
CLK1_PD      == {1}
DIV_START_HIGH == {4}
DIV_BYPASS     == {7}
SYNC_REG       == {2}
FUNC_SEL       == 5..6
UPDATE_VAL     == {0}

CP_CURRENT_MIN == 600
CP_CURRENT_MAX == 4800
PLL_B_MIN      == 3
DFLT_PLL_B     == 35
DFLT_PLL_R     == 4

(***************************************************************************)
(* The transfers.  Rd reads a register into the local data, Wr changes     *)
(* data and writes it; unless must is set a failure is not looked at, and  *)
(* the function goes on with the data it has.  A reading that shows the    *)
(* bits of ends, if any are named, is the last of its function.            *)
(***************************************************************************)
Rd(reg) ==
    [k |-> "rd", reg |-> reg, clear |-> {}, set |-> {}, must |-> FALSE, ends |-> {}]

Wr(reg, clear, set) ==
    [k |-> "wr", reg |-> reg, clear |-> clear, set |-> set, must |-> FALSE, ends |-> {}]

Put(reg, v)        == Wr(reg, Byte, v)
PutNum(reg, v, f)  == Put(reg, WriteField(Num(v), f))
Change(reg, f, v)  == <<Rd(reg), Wr(reg, f, WriteField(v, f))>>
Needed(step)       == [step EXCEPT !.must = TRUE]

\* reg_update: the write, and the wait for the chip to clear the bit.
reg_update == <<[Put("UPDATE_REGS", UPDATE_VAL) EXCEPT !.k = "update"]>>

ad9510_init ==
    <<Needed(Put("CFG_SERIAL", SOFT_RST \cup LONG_INST)),
      Needed(Put("CFG_SERIAL", LONG_INST))>>

\* The upper and the lower part of a counter of two registers.
PutCounter(msb, f, lsb, v) == <<PutNum(msb, v \div 256, f), PutNum(lsb, v, LSB)>>

cfg_defaults_pll ==
    <<PutNum("PLL_A_COUNTER", 0, PLL_A)>>
    \o PutCounter("PLL_B_MSB_COUNTER", PLL_B_MSB, "PLL_B_LSB_COUNTER", DFLT_PLL_B)
    \o <<Put("PLL_2", WriteField(Num(3), CP_MODE) \cup WriteField(Num(1), MUX_SEL)
                          \cup PFD_POL_POS),
         Put("PLL_4", {})>>
    \o PutCounter("PLL_R_MSB_COUNTER", PLL_R_MSB, "PLL_R_LSB_COUNTER", DFLT_PLL_R)

cfg_defaults_outputs ==
    LET Level(i) ==
            CASE i \in 0..3 -> WriteField(Num(2), LVPECL_LVL)
              [] i = 4      -> WriteField(Num(1), LVDS_CURR)
              [] OTHER      -> WriteField(Num(1), LVDS_CURR) \cup LVDS_PDOWN
    IN  [n \in 1..8 |-> Put(OutReg(n - 1), Level(n - 1))] \o <<Put("CLK_OPT", CLK1_PD)>>

cfg_defaults_dividers ==
    [n \in 1..8 |-> Put(DcycleRegs[n], {})]
    \o [n \in 1..8 |-> Put(OptRegs[n], DIV_BYPASS \cup DIV_START_HIGH)]

\* The function pin is SYNCB; the outputs are synchronised by software.
cfg_defaults_sync ==
    <<PutNum("FUNCTION", 1, FUNC_SEL)>> \o reg_update
    \o <<Wr("FUNCTION", {}, SYNC_REG)>> \o reg_update
    \o <<Wr("FUNCTION", SYNC_REG, {})>> \o reg_update

cfg_defaults ==
    ad9510_init \o cfg_defaults_pll \o cfg_defaults_outputs \o reg_update
    \o cfg_defaults_dividers \o cfg_defaults_sync

set_pll_a_div(div) == <<PutNum("PLL_A_COUNTER", div, PLL_A)>> \o reg_update

set_pll_b_div(div) ==
    (IF div = 0
     THEN <<Rd("PLL_4"), Wr("PLL_4", {}, B_BYPASS)>>
     ELSE PutCounter("PLL_B_MSB_COUNTER", PLL_B_MSB, "PLL_B_LSB_COUNTER", div))
    \o reg_update

\* Seeded defect: the register is written from scratch.
PrescalerOverwrites(pre) == <<PutNum("PLL_4", pre, PRESCALER_P)>> \o reg_update

set_pll_prescaler(pre) == Change("PLL_4", PRESCALER_P, Num(pre)) \o reg_update
set_pll_pdown(pdown)   == Change("PLL_4", PLL_PDOWN, Num(pdown)) \o reg_update
set_mux_status(mux)    == Change("PLL_2", MUX_SEL, Num(mux)) \o reg_update

\* Seeded defect: the registers are not put into effect.
RDivNotUpdated(div) ==
    PutCounter("PLL_R_MSB_COUNTER", PLL_R_MSB, "PLL_R_LSB_COUNTER", div)

set_r_div(div) ==
    PutCounter("PLL_R_MSB_COUNTER", PLL_R_MSB, "PLL_R_LSB_COUNTER", div) \o reg_update

set_cp_current(current) ==
    Change("PLL_3", CP_CURRENT, Num((current \div CP_CURRENT_MIN) - 1)) \o reg_update

\* Outputs 0 to 3 are LVPECL, with a power-down field, the others LVDS, with
\* a power-down bit.  data is set to zero before each of the latter is read.
set_outputs(out_en) ==
    LET Enabled(i) == i \in Num(out_en)
        Pecl(i) == Change(OutReg(i), LVPECL_PDOWN, IF Enabled(i) THEN Num(0) ELSE Num(2))
        Lvds(i) == <<[Rd(OutReg(i)) EXCEPT !.clear = Byte],
                     IF Enabled(i) THEN Wr(OutReg(i), LVDS_PDOWN, {})
                                   ELSE Wr(OutReg(i), {}, LVDS_PDOWN)>>
    IN  Pecl(0) \o Pecl(1) \o Pecl(2) \o Pecl(3)
            \o Lvds(4) \o Lvds(5) \o Lvds(6) \o Lvds(7) \o reg_update

set_pll_clk_sel(clk) ==
    <<Rd("CLK_OPT"),
      IF clk = 1 THEN Wr("CLK_OPT", {}, SEL_CLK1) ELSE Wr("CLK_OPT", SEL_CLK1, {})>>
    \o reg_update

\* What the functions that test their argument accept.
Ad9510Accepts(op, v) ==
    CASE op = "set_pll_a_div"   -> v < 64
      [] op = "set_pll_b_div"   -> v = 0 \/ v \in PLL_B_MIN..8191
      [] op = "set_pll_pdown"   -> v < 4
      [] op = "set_r_div"       -> v < 16384
      [] op = "set_cp_current"  -> v \in CP_CURRENT_MIN..CP_CURRENT_MAX
                                       /\ v % CP_CURRENT_MIN = 0
      [] op = "set_outputs"     -> v < 256
      [] op = "set_pll_clk_sel" -> v \in {1, 2}
      [] OTHER                  -> TRUE

(***************************************************************************)
(* The functions that report a setting, from what their reads left in      *)
(* data: a failed one leaves what was there.                               *)
(***************************************************************************)
get_pll_b_div ==
    <<[Rd("PLL_4") EXCEPT !.ends = B_BYPASS], Rd("PLL_B_MSB_COUNTER"), Rd("PLL_B_LSB_COUNTER")>>

get_outputs == [n \in 1..8 |-> Rd(OutReg(n - 1))]

ToNum(bits) == MapThenSumSet(LAMBDA b : 2^b, bits)
Counter(msb, f, lsb) == 256 * ToNum(ReadField(msb, f)) + ToNum(lsb)

OutputEnabled(i, data) ==
    IF i < 4 THEN data \cap LVPECL_PDOWN = {} ELSE data \cap LVDS_PDOWN = {}

Ad9510Value(op, got) ==
    CASE op = "get_pll_a_div"     -> ToNum(ReadField(got[1], PLL_A))
      [] op = "get_pll_b_div"     -> IF Len(got) = 1 THEN 1
                                     ELSE Counter(got[2], PLL_B_MSB, got[3])
      [] op = "get_pll_prescaler" -> ToNum(ReadField(got[1], PRESCALER_P))
      [] op = "get_pll_pdown"     -> ToNum(ReadField(got[1], PLL_PDOWN))
      [] op = "get_mux_status"    -> ToNum(ReadField(got[1], MUX_SEL))
      [] op = "get_r_div"         -> Counter(got[1], PLL_R_MSB, got[2])
      [] op = "get_cp_current"    ->
             (ToNum(ReadField(got[1], CP_CURRENT)) + 1) * CP_CURRENT_MIN
      [] op = "get_outputs"       -> ToNum({i \in Outputs : OutputEnabled(i, got[i + 1])})
      [] op = "get_pll_clk_sel"   -> IF SEL_CLK1 \subseteq got[1] THEN 1 ELSE 2

Ad9510Getters ==
    {"get_pll_a_div", "get_pll_b_div", "get_pll_prescaler", "get_pll_pdown",
     "get_mux_status", "get_r_div", "get_cp_current", "get_outputs", "get_pll_clk_sel"}

Ad9510Script(op, v) ==
    CASE op = "new"               -> ad9510_init
      [] op = "cfg_defaults"      -> cfg_defaults
      [] op = "set_pll_a_div"     -> set_pll_a_div(v)
      [] op = "set_pll_b_div"     -> set_pll_b_div(v)
      [] op = "set_pll_prescaler" -> set_pll_prescaler(v)
      [] op = "set_pll_pdown"     -> set_pll_pdown(v)
      [] op = "set_mux_status"    -> set_mux_status(v)
      [] op = "set_r_div"         -> set_r_div(v)
      [] op = "set_cp_current"    -> set_cp_current(v)
      [] op = "set_outputs"       -> set_outputs(v)
      [] op = "set_pll_clk_sel"   -> set_pll_clk_sel(v)
      [] op = "get_pll_a_div"     -> <<Rd("PLL_A_COUNTER")>>
      [] op = "get_pll_b_div"     -> get_pll_b_div
      [] op = "get_pll_prescaler" -> <<Rd("PLL_4")>>
      [] op = "get_pll_pdown"     -> <<Rd("PLL_4")>>
      [] op = "get_mux_status"    -> <<Rd("PLL_2")>>
      [] op = "get_r_div"         -> <<Rd("PLL_R_MSB_COUNTER"), Rd("PLL_R_LSB_COUNTER")>>
      [] op = "get_cp_current"    -> <<Rd("PLL_3")>>
      [] op = "get_outputs"       -> get_outputs
      [] op = "get_pll_clk_sel"   -> <<Rd("CLK_OPT")>>
=============================================================================
