------------------------------ MODULE I2cChips ------------------------------
(***************************************************************************)
(* The chips driven over I2C: the Si571 oscillator of the active clock     *)
(* board, and the 24AA64 memory and PCA9547 switch of the FMC130M.  A      *)
(* driver's function runs its list of transfers one by one, and a transfer *)
(* can be cut at every byte.                                               *)
(***************************************************************************)
EXTENDS BoardBus, ChipSi57x

CONSTANTS
    I2cCalls,        \* the calls made: records [on, op, arg]
    I2cTries,        \* SMCH_SI57X_WAIT_TRIES
    FXTAL,           \* the crystal of this oscillator
    FactoryDivs,     \* what a recall brings back
    EepromSize, PageBytes,
    EepromInits,     \* what the memory may hold at first
    ActiveCode, PassiveCode, \* FMC130M_4CH_ACTIVE_MD5, ..._PASSIVE_MD5
    BlockBytesMax    \* E24AA64_PAGE_DATA_BYTES_MAX, SI57X_DATA_BYTES_MAX

VARIABLES
    dev,             \* the chips
    self,            \* the oscillator driver's own copy of the settings
    task,            \* the call, running or ended
    trust            \* history: what earlier calls leave to rely on

i2cVars == <<dev, self, task, trust>>

I2cChipsOf(b) == CASE b = "osc" -> {"osc"} [] b = "adc130" -> {"eep", "mux"} [] OTHER -> {}

(***************************************************************************)
(* The transfers.                                                          *)
(***************************************************************************)
IWr(on, bytes) ==
    [k |-> "wr", on |-> on, bytes |-> bytes, n |-> 0, rep |-> FALSE, lost |-> "fails"]
IRd(on, n) ==
    [k |-> "rd", on |-> on, bytes |-> <<>>, n |-> n, rep |-> FALSE, lost |-> "fails"]
Restarted(step) == [step EXCEPT !.rep = TRUE]

\* What a failure of the step does to the call: it fails, it goes on with
\* the next step, or it ends as if all were well.
IfLost(step, then) == [step EXCEPT !.lost = then]

SI57X_REG_START      == 7
SI57X_REG_CONTROL    == 135
SI57X_REG_FREEZE_DCO == 137
RECALL  == 1
NEWFREQ == 64
FREEZE_DCO == 16

ReadRegs(addr, n) == <<Restarted(IWr("osc", <<addr>>)), IRd("osc", n)>>

\* The wait for the oscillator to take the new dividers.
wait_new_freq == <<[IRd("osc", 1) EXCEPT !.k = "poll"]>>

\* Seeded defect: the dividers are written with the oscillator running.
RawUnfrozenLate(divs) ==
    <<IWr("osc", <<SI57X_REG_START>> \o divs),
      IWr("osc", <<SI57X_REG_CONTROL, NEWFREQ>>),
      IWr("osc", <<SI57X_REG_FREEZE_DCO, FREEZE_DCO>>)>> \o wait_new_freq

set_freq_raw(divs) ==
    <<IWr("osc", <<SI57X_REG_FREEZE_DCO, FREEZE_DCO>>),
      IWr("osc", <<SI57X_REG_START>> \o divs),
      IWr("osc", <<SI57X_REG_FREEZE_DCO, 0>>),
      IWr("osc", <<SI57X_REG_CONTROL, NEWFREQ>>)>> \o wait_new_freq

\* Seeded defect: the factory settings are not recalled.
DefaultsNotRecalled == ReadRegs(SI57X_REG_START, 6)

\* The recall is not checked.
get_defaults ==
    <<IfLost(IWr("osc", <<SI57X_REG_CONTROL, RECALL>>), "goes on")>> \o ReadRegs(SI57X_REG_START, 6)

\* 24AA64: the address goes out with its high byte first.
EepromAddr(a) == <<a \div 256, a % 256>>

write_block(a, bytes) == <<IWr("eep", EepromAddr(a) \o bytes)>>
read_block(a, n)      == <<IWr("eep", EepromAddr(a)), IRd("eep", n)>>

\* PCA9547
NO_CHANNEL  == 255
ChannelCode(chan) == IF chan = NO_CHANNEL THEN 0 ELSE 8 + chan
en_chan(chan)     == <<IWr("mux", <<ChannelCode(chan)>>)>>

\* smio_fmc130m_4ch_new, without its allocations: neither the switch nor
\* the read of the memory is checked.
Identify ==
    LET r == read_block(0, Len(ActiveCode))
    IN  <<IfLost(en_chan(NO_CHANNEL)[1], "goes on"), IfLost(r[1], "ends"), IfLost(r[2], "ends")>>

\* Seeded defect: a board without a known code is taken for an active one.
TypeDefaultsToActive(code) == IF code = PassiveCode THEN "passive" ELSE "active"

\* set_type; only an active board gets a clock SMIO.
BoardType(code) ==
    IF code = ActiveCode THEN "active" ELSE IF code = PassiveCode THEN "passive" ELSE "undef"

Steps(t, d) ==
    CASE t.op = "set_freq"     -> set_freq_raw(Divs(d))
      [] t.op = "get_defaults" -> get_defaults
      [] t.op = "write_block"  -> write_block(t.arg.addr, t.arg.bytes)
      [] t.op = "read_block"   -> read_block(t.arg.addr, t.arg.n)
      [] t.op = "en_chan"      -> en_chan(t.arg)
      [] t.op = "read_8"       -> <<IRd("mux", 1)>>
      [] t.op = "identify"     -> Identify
      [] OTHER                 -> <<>>

(***************************************************************************)
(* The chips (external).  The oscillator and the memory keep a pointer;    *)
(* the memory stores what it was sent when the stop comes, inside the page *)
(* of the address.                                                         *)
(***************************************************************************)
OscTakes(o, bytes) ==
    LET a        == bytes[1]
        Given(r) == r \in a..(a + Len(bytes) - 2)
        At(r)    == bytes[r - a + 2]
        recalled == Given(SI57X_REG_CONTROL) /\ At(SI57X_REG_CONTROL) = RECALL
    IN  [ptr     |-> a + Len(bytes) - 1,
         divs    |-> IF recalled THEN FactoryDivs
                     ELSE [i \in 1..6 |-> IF Given(i + 6) THEN At(i + 6) ELSE o.divs[i]],
         out     |-> IF recalled THEN FactoryDivs ELSE o.out,
         newfreq |-> IF Given(SI57X_REG_CONTROL) THEN At(SI57X_REG_CONTROL) = NEWFREQ
                     ELSE o.newfreq,
         frozen  |-> IF Given(SI57X_REG_FREEZE_DCO) THEN At(SI57X_REG_FREEZE_DCO) = FREEZE_DCO
                     ELSE o.frozen]

OscGives(o, n) ==
    [i \in 1..n |-> LET a == o.ptr + i - 1
                    IN  IF a \in 7..12 THEN o.divs[a - 6]
                        ELSE IF a = SI57X_REG_CONTROL /\ o.newfreq THEN NEWFREQ ELSE 0]

InPage(a, i) == (a \div PageBytes) * PageBytes + ((a + i) % PageBytes)

Stored(mem, a, bytes) ==
    [m \in DOMAIN mem |->
        LET at == {i \in 1..Len(bytes) : InPage(a, i - 1) = m}
        IN  IF at = {} THEN mem[m] ELSE bytes[Max(at)]]

EepTakes(e, bytes, stop) ==
    LET a == (256 * bytes[1] + bytes[2]) % EepromSize
    IN  IF Len(bytes) < 2 THEN e
        ELSE [ptr |-> a,
              mem |-> IF stop THEN Stored(e.mem, a, SubSeq(bytes, 3, Len(bytes))) ELSE e.mem]

EepGives(e, n) == [i \in 1..n |-> e.mem[(e.ptr + i - 1) % EepromSize]]

Takes(on, bytes, stop) ==
    IF bytes = <<>> THEN dev
    ELSE CASE on = "osc" -> [dev EXCEPT !.osc = OscTakes(@, bytes)]
           [] on = "eep" -> [dev EXCEPT !.eep = EepTakes(@, bytes, stop)]
           [] on = "mux" -> [dev EXCEPT !.mux = bytes[1]]

Gives(on, n) ==
    CASE on = "osc" -> OscGives(dev.osc, n)
      [] on = "eep" -> EepGives(dev.eep, n)
      [] on = "mux" -> [i \in 1..n |-> dev.mux]

(***************************************************************************)
(* The calls.                                                              *)
(***************************************************************************)
NoTask ==
    [on |-> "none", op |-> "none", arg |-> 0, st |-> "idle", todo |-> <<>>, data |-> <<>>,
     tries |-> 0, ret |-> "none", cut |-> FALSE, was |-> <<>>]

\* A write of BlockBytesMax bytes is already too long, of either driver.
Refused(c) ==
    \/ c.op = "write_block" /\ Len(c.arg.bytes) >= BlockBytesMax
    \/ c.op = "en_chan" /\ ~(c.arg < 8 \/ c.arg = NO_CHANNEL)
    \/ c.op = "set_freq" /\ c.arg > 0 /\ Tried(c.arg) = {}

\* get_freq is worked out from the driver's copy; set_freq of 0 does
\* nothing and succeeds; another frequency is in the copy before the chip.
I2cStart(c) ==
    /\ task.st # "run"
    /\ c.on \in I2cChipsOf(board)
    /\ Call
    /\ LET sets == c.op = "set_freq" /\ c.arg > 0 /\ ~Refused(c)
           t    == [NoTask EXCEPT !.on = c.on, !.op = c.op, !.arg = c.arg, !.was = dev]
           none == c.op = "get_freq" \/ (c.op = "set_freq" /\ c.arg = 0)
       IN  \E d \in IF sets THEN calc_divs(c.arg, self.fxtal) ELSE {self} :
               /\ self' = d @@ self
               /\ task' = IF Refused(c) THEN [t EXCEPT !.st = "ended", !.ret = "refused"]
                          ELSE IF none THEN [t EXCEPT !.st = "ended", !.ret = "ok"]
                          ELSE [t EXCEPT !.st = "run", !.todo = Steps(t, d)]
               /\ trust' = [trust EXCEPT !.set = @ /\ ~sets /\ c.op # "get_defaults",
                                         !.xtal = @ /\ c.op # "get_defaults"]
    /\ UNCHANGED <<board, dev>>

\* The call ends well: what was read is made use of.
Conclude(t) ==
    /\ task' = [t EXCEPT !.st = "ended", !.ret = "ok", !.todo = <<>>]
    /\ self' = IF t.op # "get_defaults" THEN self
               ELSE LET d == get_divs(t.data) IN [fxtal |-> Fxtal(d)] @@ d
    /\ trust' = CASE t.op = "get_defaults" /\ ~t.cut -> [trust EXCEPT !.xtal = TRUE, !.set = TRUE]
                  [] t.op = "set_freq" -> [trust EXCEPT !.set = TRUE, !.thawed = TRUE]
                  [] OTHER -> trust

Fail(t) ==
    /\ task' = [t EXCEPT !.st = "ended", !.ret = "failed", !.todo = <<>>]
    /\ trust' = IF t.op = "set_freq" THEN [trust EXCEPT !.thawed = FALSE] ELSE trust
    /\ UNCHANGED self

GoOn(t) ==
    IF Len(t.todo) = 1 THEN Conclude([t EXCEPT !.tries = 0])
    ELSE task' = [t EXCEPT !.todo = Tail(@)] /\ UNCHANGED <<self, trust>>

Fates == I2cFates(BlockBytesMax + 2)

Outcome(t, step, good) ==
    IF good \/ step.lost = "goes on" THEN GoOn(t)
    ELSE IF step.lost = "ends" THEN Conclude(t) ELSE Fail(t)

I2cWrite(f) ==
    /\ task.st = "run" /\ Head(task.todo).k = "wr"
    /\ LET step == Head(task.todo)
           r    == i2c_write_generic(step.bytes, Len(step.bytes), step.rep, f)
           good == r.ret = Len(step.bytes)
           t    == [task EXCEPT !.cut = @ \/ ~good]
       IN  /\ f.took <= Len(step.bytes)
           /\ Fault(~good)
           /\ dev' = Takes(step.on, r.taken, r.stop)
           /\ Outcome(t, step, good)
    /\ UNCHANGED board

\* What was read before a cut is in the buffer.
I2cRead(f) ==
    /\ task.st = "run" /\ Head(task.todo).k = "rd"
    /\ LET step == Head(task.todo)
           r    == i2c_read_generic(step.n, step.n, f)
           good == r.ret = step.n
           t    == [task EXCEPT !.cut = @ \/ ~good, !.data = Gives(step.on, r.got)]
       IN  /\ f.took = f.acked /\ f.took <= step.n
           /\ Fault(~good)
           /\ Outcome(t, step, good)
    /\ UNCHANGED <<board, dev>>

\* One reading of the control register: the address, then the byte.
I2cPoll(good) ==
    /\ task.st = "run" /\ Head(task.todo).k = "poll"
    /\ Fault(~good)
    /\ dev' = [dev EXCEPT !.osc.ptr = SI57X_REG_CONTROL]
    /\ LET t == [task EXCEPT !.cut = @ \/ ~good, !.tries = @ + 1]
       IN  IF ~good THEN Fail(t)
           ELSE IF ~dev.osc.newfreq THEN GoOn(t)
           ELSE IF t.tries = I2cTries THEN Fail(t)
           ELSE task' = t /\ UNCHANGED <<self, trust>>
    /\ UNCHANGED board

\* The oscillator takes the new dividers.
Settle ==
    /\ "osc" \in I2cChipsOf(board)
    /\ dev.osc.newfreq
    /\ dev' = [dev EXCEPT !.osc.newfreq = FALSE,
                          !.osc.out = IF dev.osc.frozen THEN @ ELSE dev.osc.divs]
    /\ UNCHANGED <<board, spent, self, task, trust>>

Blank == [a \in 0..(EepromSize - 1) |-> 0]

I2cInit ==
    /\ \E mem \in IF board = "adc130" THEN EepromInits ELSE {Blank} : dev =
             [osc |-> [divs |-> FactoryDivs, out |-> FactoryDivs, frozen |-> FALSE,
                       newfreq |-> FALSE, ptr |-> 0],
              eep |-> [mem |-> mem, ptr |-> 0], mux |-> 0]
    /\ self = [fxtal |-> 0, n1 |-> 0, hs |-> 0, rfreq |-> 0]
    /\ task = NoTask
    /\ trust = [xtal |-> FALSE, set |-> FALSE, thawed |-> TRUE]

I2cNext ==
    \/ \E c \in I2cCalls : I2cStart(c)
    \/ \E f \in Fates : I2cWrite(f) \/ I2cRead(f)
    \/ \E good \in BOOLEAN : I2cPoll(good)
    \/ Settle
=============================================================================
