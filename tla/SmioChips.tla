------------------------------ MODULE SmioChips -----------------------------
(***************************************************************************)
(* The chips behind the SMIOs, board by board: the drivers' calls against  *)
(* the buses and the hardware at their end, with transfers that fail.      *)
(***************************************************************************)
EXTENDS SpiChips, I2cChips, RffeLink

vars == <<board, spent, spiVars, i2cVars, rffeVars>>

Init == BusInit /\ SpiInit /\ I2cInit /\ RffeInit

Next ==
    \/ SpiNext  /\ UNCHANGED <<i2cVars, rffeVars>>
    \/ I2cNext  /\ UNCHANGED <<spiVars, rffeVars>>
    \/ RffeNext /\ UNCHANGED <<spiVars, i2cVars>>

Spec == Init /\ [][Next]_vars

\* The thread of the SMIO runs on while it has something to do.
SpiWork  == (\E fate \in SpiFates, junk \in {{}, Junk} : SpiStep(fate, junk) \/ SpiPoll(fate, junk))
                /\ UNCHANGED <<i2cVars, rffeVars>>
I2cWork  == (\/ \E f \in Fates : I2cWrite(f) \/ I2cRead(f)
             \/ \E good \in BOOLEAN : I2cPoll(good))
                /\ UNCHANGED <<spiVars, rffeVars>>
RffeWork == (\E done, good \in BOOLEAN : RffeSend(done, good) \/ RffeRecv(done, good))
                /\ UNCHANGED <<spiVars, i2cVars>>

FairSpec == Spec /\ WF_vars(SpiWork) /\ WF_vars(I2cWork) /\ WF_vars(RffeWork)

-----------------------------------------------------------------------------
\* Every variable has its type.
TypeOK ==
    /\ BusTypeOK
    /\ Len(core) <= 1
    /\ DOMAIN chip = SpiChipsOf(board)
    /\ \A c \in DOMAIN chip : \A r \in DOMAIN chip[c].buf :
           chip[c].buf[r] \subseteq Byte /\ chip[c].act[r] \subseteq Byte
    /\ job.data \subseteq Byte /\ job.tries \in 0..PollTries
    /\ job.st \in {"idle", "run", "ended"} /\ job.ret \in {"none", "ok", "failed", "refused"}
    /\ \A i \in 1..6 : dev.osc.divs[i] \in 0..255
    /\ dev.mux \in 0..255 /\ \A a \in 0..(EepromSize - 1) : dev.eep.mem[a] \in 0..255
    /\ self.hs \in {0} \cup HsDivs /\ self.n1 \in 0..N1_MAX
    /\ known \in {0, Cardinality(Vars)}

Changed(a, b) == (a \ b) \cup (b \ a)

\* The bits a setter of the AD9510 or of the ISLA216P is there to change.
Field(op, r) ==
    CASE op = "set_pll_a_div"     -> IF r = "PLL_A_COUNTER" THEN Byte ELSE {}
      [] op = "set_pll_b_div"     -> IF r = "PLL_4" THEN B_BYPASS
                                     ELSE IF r \in {"PLL_B_MSB_COUNTER", "PLL_B_LSB_COUNTER"}
                                     THEN Byte ELSE {}
      [] op = "set_pll_prescaler" -> IF r = "PLL_4" THEN PRESCALER_P ELSE {}
      [] op = "set_pll_pdown"     -> IF r = "PLL_4" THEN PLL_PDOWN ELSE {}
      [] op = "set_mux_status"    -> IF r = "PLL_2" THEN MUX_SEL ELSE {}
      [] op = "set_r_div"         -> IF r \in {"PLL_R_MSB_COUNTER", "PLL_R_LSB_COUNTER"}
                                     THEN Byte ELSE {}
      [] op = "set_cp_current"    -> IF r = "PLL_3" THEN CP_CURRENT ELSE {}
      [] op = "set_outputs"       -> IF r \in ToSet(SubSeq(OutRegs, 1, 4)) THEN LVPECL_PDOWN
                                     ELSE IF r \in ToSet(OutRegs) THEN LVDS_PDOWN ELSE {}
      [] op = "set_pll_clk_sel"   -> IF r = "CLK_OPT" THEN SEL_CLK1 ELSE {}
      [] op = "set_test_mode"     -> IF r = "TESTIO" THEN OUTMODE ELSE {}
      [] OTHER                    -> Byte

\* A setter leaves every other field of the chip's registers alone, those
\* that share a register with its own included, unless one of its reads
\* failed or met a core still busy with an older transfer: it then writes
\* back what it did not read, and succeeds all the same.
OtherFieldsKept ==
    job.st = "ended" /\ ~job.misread =>
        \A c \in DOMAIN chip : \A r \in DOMAIN chip[c].buf \ {"UPDATE_REGS"} :
            c # job.on \/ job.op \notin {"new", "cfg_defaults"} =>
                Changed(chip[c].buf[r], job.was[c].buf[r])
                    \subseteq (IF c = job.on THEN Field(job.op, r) ELSE {})

\* A setter of the AD9510 that met no failure has put everything it wrote
\* into effect when it returns, and a getter called then would report the
\* value set.  (The bypass of the B divider is never taken back.)
Reported(op, regs) ==
    LET got(rs) == [i \in 1..Len(rs) |-> regs[rs[i]]]
    IN  CASE op = "set_pll_a_div"     -> Ad9510Value("get_pll_a_div", got(<<"PLL_A_COUNTER">>))
          [] op = "set_pll_prescaler" -> Ad9510Value("get_pll_prescaler", got(<<"PLL_4">>))
          [] op = "set_pll_pdown"     -> Ad9510Value("get_pll_pdown", got(<<"PLL_4">>))
          [] op = "set_mux_status"    -> Ad9510Value("get_mux_status", got(<<"PLL_2">>))
          [] op = "set_r_div"         -> Ad9510Value("get_r_div",
                                             got(<<"PLL_R_MSB_COUNTER", "PLL_R_LSB_COUNTER">>))
          [] op = "set_cp_current"    -> Ad9510Value("get_cp_current", got(<<"PLL_3">>))
          [] op = "set_outputs"       -> Ad9510Value("get_outputs", got(OutRegs))
          [] op = "set_pll_clk_sel"   -> Ad9510Value("get_pll_clk_sel", got(<<"CLK_OPT">>))
          [] op = "set_pll_b_div"     -> Ad9510Value("get_pll_b_div",
                 IF B_BYPASS \subseteq regs["PLL_4"] THEN got(<<"PLL_4">>)
                 ELSE got(<<"PLL_4", "PLL_B_MSB_COUNTER", "PLL_B_LSB_COUNTER">>))

SettingInEffect ==
    job.st = "ended" /\ job.ret = "ok" /\ ~job.upset /\ job.on = "pll" =>
        LET regs == chip["pll"].act
        IN  /\ job.op \notin Getters \cup {"new"} => chip["pll"].act = chip["pll"].buf
            /\ job.op \notin Getters \cup {"new", "cfg_defaults"} =>
                   \/ Reported(job.op, regs) = job.arg
                   \/ job.op = "set_pll_b_div" /\ B_BYPASS \subseteq regs["PLL_4"]

\* A getter reports what the chip's registers hold, unless a read of its own
\* failed or met a core still busy with an older transfer.
ReportedIsHeld ==
    job.st = "ended" /\ job.ret = "ok" /\ ~job.misread /\ job.op \in Getters =>
        LET regs == chip[job.on].buf
            Is(setter) == Ad9510Value(job.op, job.got) = Reported(setter, regs)
        IN  CASE job.op = "get_pll_a_div"     -> Is("set_pll_a_div")
              [] job.op = "get_pll_b_div"     -> Is("set_pll_b_div")
              [] job.op = "get_pll_prescaler" -> Is("set_pll_prescaler")
              [] job.op = "get_pll_pdown"     -> Is("set_pll_pdown")
              [] job.op = "get_mux_status"    -> Is("set_mux_status")
              [] job.op = "get_r_div"         -> Is("set_r_div")
              [] job.op = "get_cp_current"    -> Is("set_cp_current")
              [] job.op = "get_outputs"       -> Is("set_outputs")
              [] job.op = "get_pll_clk_sel"   -> Is("set_pll_clk_sel")
              [] job.op = "get_chipid"        -> job.got[1] = regs["CHIPID"]
              [] job.op = "get_chipver"       -> job.got[1] = regs["CHIPVER"]

-----------------------------------------------------------------------------
\* The driver's copy of the oscillator's settings, which get_freq reports,
\* is what the oscillator runs at once a get_defaults went through without
\* a failure and no later set_freq failed.
CopyIsRight ==
    trust.xtal /\ trust.set /\ task.st # "run" =>
        /\ self.fxtal = FXTAL
        /\ Fout(self, self.fxtal) = Fout(get_divs(dev.osc.out), FXTAL)

\* set_freq reports success only if the oscillator runs at the frequency
\* asked for, but for the rounding of rfreq, provided that the crystal is
\* known; and it leaves the oscillator frozen only if it reports a failure.
FrequencyIsSet ==
    /\ task.st = "ended" /\ task.op = "set_freq" /\ task.ret = "ok" /\ task.arg > 0 /\ trust.xtal
           => Fout(get_divs(dev.osc.out), FXTAL) \in {task.arg - 1, task.arg}
    /\ task.st # "run" /\ dev.osc.frozen => ~trust.thawed

\* set_freq takes the dividers of the slowest oscillator the chip allows,
\* and refuses a frequency only if there are none; the one pair it
\* overlooks has n1 = 1 and the oscillator at its very minimum.
DividersAreBest ==
    task.op = "set_freq" /\ task.arg > 0 =>
        LET seen == {d \in Legal(task.arg) : d.n1 # 1 \/ Fdco(task.arg, d) # FDCO_MIN}
        IN  /\ task.ret = "refused" <=> seen = {}
            /\ task.st = "run" =>
                   /\ [hs |-> self.hs, n1 |-> self.n1] \in seen
                   /\ \A d \in seen : Fdco(task.arg, self) <= Fdco(task.arg, d)
                   /\ get_divs(Divs(self)) = [hs |-> self.hs, n1 |-> self.n1, rfreq |-> self.rfreq]

\* A block written to the memory is stored whole or not at all, whatever
\* the transfer went through, and stored if the call succeeds; bytes past
\* the end of a page go to its start, and no other byte is touched.
BlockWholeOrNot ==
    task.st = "ended" /\ task.op = "write_block" =>
        LET before == task.was.eep.mem
            whole  == Stored(before, task.arg.addr, task.arg.bytes)
        IN  /\ dev.eep.mem \in {before, whole}
            /\ task.ret = "ok" => dev.eep.mem = whole

\* A board is taken for an active one only if its memory says so, and for
\* another one than it is only if a transfer failed.
BoardIsKnown ==
    task.st = "ended" /\ task.op = "identify" =>
        LET says(code) == [i \in 1..Len(code) |-> dev.eep.mem[i - 1]] = code
        IN  /\ BoardType(task.data) = "active" => says(ActiveCode)
            /\ ~task.cut => (BoardType(task.data) = "active" <=> says(ActiveCode))

-----------------------------------------------------------------------------

=============================================================================
