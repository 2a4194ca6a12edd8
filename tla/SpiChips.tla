------------------------------ MODULE SpiChips ------------------------------
(***************************************************************************)
(* The chips driven over SPI: the AD9510 of the active clock board and the *)
(* ISLA216P converters of the FMC250M, which share one core.  A driver's   *)
(* function runs its list of transfers one by one; the core may finish a   *)
(* transfer the driver no longer waits for, and the AD9510 moves its       *)
(* buffered registers into effect when it gets to it.                      *)
(***************************************************************************)
EXTENDS BoardBus, ChipAd9510

CONSTANTS
    SpiCalls,    \* the calls made, for each board: records [on, op, arg]
    PollTries,   \* SMCH_AD9510_WAIT_TRIES
    Junk         \* what a register reads as when nothing is known of it

VARIABLES
    core,        \* the transfer the SPI core was left with, or none
    chip,        \* the registers of each chip: buffered, and in effect
    job          \* the driver's call, running or ended

spiVars == <<core, chip, job>>

Adcs == {"adc0", "adc1"}
SpiChipsOf(b) == CASE b \in {"pll", "pllcfg"} -> {"pll"} [] b = "adc250" -> Adcs [] OTHER -> {}

(***************************************************************************)
(* ISLA216P, src/sm_io/chips/sm_ch_isla216p.c: every failure is reported.  *)
(***************************************************************************)
Isla216pRegs == {"PORTCONFIG", "NAPSLP", "TESTIO", "CHIPID", "CHIPVER"}
SDO_ACTIVE   == {0, 7}
OUTMODE      == 4..7

isla216p_init == <<Needed(Put("PORTCONFIG", SDO_ACTIVE)), Needed(PutNum("NAPSLP", 1, LSB))>>

set_test_mode(mode) ==
    LET c == Change("TESTIO", OUTMODE, Num(mode))
    IN  <<Needed(c[1]), Needed(c[2])>>

Isla216pScript(op, v) ==
    CASE op = "new"           -> isla216p_init
      [] op = "set_test_mode" -> set_test_mode(v)
      [] op = "get_chipid"    -> <<Needed(Rd("CHIPID"))>>
      [] op = "get_chipver"   -> <<Needed(Rd("CHIPVER"))>>

(***************************************************************************)
(* The calls.                                                              *)
(***************************************************************************)
Scripts ==
    [c \in UNION {SpiCalls[b] : b \in Boards} |->
        IF c.on = "pll" THEN Ad9510Script(c.op, c.arg) ELSE Isla216pScript(c.op, c.arg)]

Script(j) == Scripts[[on |-> j.on, op |-> j.op, arg |-> j.arg]]

Getters == Ad9510Getters \cup {"get_chipid", "get_chipver"}

NoJob ==
    [on |-> "none", op |-> "none", arg |-> 0, st |-> "idle", pc |-> 1, data |-> {},
     got |-> <<>>, tries |-> 0, ret |-> "none", misread |-> FALSE, upset |-> FALSE, was |-> <<>>]

\* misread: a read failed or met a core busy with an older transfer, or an
\* older transfer can still be performed.  upset: so did any transfer, or
\* the wait for an update was given up.  was: the chips before the call.
SpiStart(c) ==
    /\ job.st # "run"
    /\ Call
    /\ LET take == c.on # "pll" \/ Ad9510Accepts(c.op, c.arg)
       IN  job' = [NoJob EXCEPT !.on = c.on, !.op = c.op, !.arg = c.arg,
                                !.st = IF take THEN "run" ELSE "ended",
                                !.ret = IF take THEN "none" ELSE "refused",
                                !.misread = core # <<>>, !.upset = core # <<>>,
                                !.was = chip]
    /\ UNCHANGED <<board, core, chip>>

\* The chip at the other end of the transfer x.  A soft reset of the AD9510
\* works at once; an ISLA216P has no buffer.
Clean(on) == [r \in DOMAIN chip[on].buf |-> {}]

Perform(x) ==
    IF x.k # "wr" THEN chip
    ELSE LET reset == x.reg = "CFG_SERIAL" /\ SOFT_RST \subseteq x.val
             buf == [(IF reset THEN Clean(x.on) ELSE chip[x.on].buf) EXCEPT ![x.reg] = x.val]
             act == IF reset \/ x.on \in Adcs THEN buf ELSE chip[x.on].act
         IN  [chip EXCEPT ![x.on] = [buf |-> buf, act |-> act]]

PerformAll(done) == IF done = <<>> THEN chip ELSE Perform(done[1])

\* What the driver reads: the answer to the transfer the core performed,
\* and nothing it can rely on when that was a write.
Answer(done, junk) ==
    IF done # <<>> /\ done[1].k = "rd" THEN chip[done[1].on].buf[done[1].reg] ELSE junk

\* The call goes on to its next transfer, or returns.
Onward(j) ==
    IF j.pc = Len(Script(j)) THEN [j EXCEPT !.tries = 0, !.st = "ended", !.ret = "ok"]
    ELSE [j EXCEPT !.tries = 0, !.pc = @ + 1]

\* One byte of data makes one transfer of three bytes: 24 bits in a word of
\* the core.
Transfer(j, step, data) ==
    [k |-> IF step.k = "rd" THEN "rd" ELSE "wr", on |-> j.on, reg |-> step.reg, val |-> data]

SpiTransfer(x, fate) ==
    /\ Fault(fate # "ok")
    /\ LET r == spi_read_write_generic(core, x, 4, fate)
       IN  core' = r.busy /\ chip' = PerformAll(r.done)

Polling(j) == j.tries > 0

SpiStep(fate, junk) ==
    /\ job.st = "run" /\ ~Polling(job)
    /\ LET step == Script(job)[job.pc]
           data == (job.data \ step.clear) \cup step.set
           x    == Transfer(job, step, data)
           r    == spi_read_write_generic(core, x, 4, fate)
           good == r.ret = 4
           off  == ~good \/ core # <<>>
           read == IF step.k = "rd" /\ good THEN Answer(r.done, junk) ELSE data
           j    == [job EXCEPT !.data = read,
                               !.got = IF step.k = "rd" THEN Append(@, read) ELSE @,
                               !.misread = @ \/ (off /\ step.k = "rd"),
                               !.upset = @ \/ off]
       IN  /\ SpiTransfer(x, fate)
           /\ job' = IF ~good /\ step.must THEN [j EXCEPT !.st = "ended", !.ret = "failed"]
                     ELSE IF good /\ step.k = "update" THEN [j EXCEPT !.tries = 1]
                     ELSE IF step.ends # {} /\ step.ends \subseteq read
                     THEN [j EXCEPT !.st = "ended", !.ret = "ok"]
                     ELSE Onward(j)
    /\ UNCHANGED board

GivesUp(tries) == tries >= PollTries

\* wait_completion: reg_update reads its register until the bit is clear.
\* None of its callers look at the result.
SpiPoll(fate, junk) ==
    /\ job.st = "run" /\ Polling(job)
    /\ LET x    == Transfer(job, Rd("UPDATE_REGS"), {})
           r    == spi_read_write_generic(core, x, 4, fate)
           good == r.ret = 4
           done == good /\ Answer(r.done, junk) \cap UPDATE_VAL = {}
           j    == [job EXCEPT !.upset = @ \/ ~done \/ core # <<>>]
       IN  /\ SpiTransfer(x, fate)
           /\ job' = IF good /\ ~done /\ ~GivesUp(job.tries)
                     THEN [job EXCEPT !.tries = @ + 1] ELSE Onward(j)
    /\ UNCHANGED board

\* The core performs the transfer the driver gave up.
SpiDone ==
    /\ core # <<>>
    /\ core' = <<>>
    /\ chip' = PerformAll(core)
    /\ UNCHANGED <<board, spent, job>>

\* The AD9510 puts its buffered registers into effect.
Latch ==
    /\ "pll" \in DOMAIN chip
    /\ UPDATE_VAL \subseteq chip["pll"].buf["UPDATE_REGS"]
    /\ LET buf == [chip["pll"].buf EXCEPT !["UPDATE_REGS"] = {}]
       IN  chip' = [chip EXCEPT !["pll"] = [buf |-> buf, act |-> buf]]
    /\ UNCHANGED <<board, spent, core, job>>

\* A chip that was powered up some time ago: its registers hold what was
\* left there.
SpiInit ==
    /\ core = <<>> /\ job = NoJob
    /\ chip = [c \in SpiChipsOf(board) |->
                   LET regs == [r \in (IF c = "pll" THEN Ad9510Regs ELSE Isla216pRegs) |->
                                   IF r = "UPDATE_REGS" THEN {} ELSE Junk]
                   IN  [buf |-> regs, act |-> regs]]

SpiNext ==
    \/ \E c \in SpiCalls[board] : SpiStart(c)
    \/ \E fate \in SpiFates, junk \in {{}, Junk} : SpiStep(fate, junk) \/ SpiPoll(fate, junk)
    \/ SpiDone
    \/ Latch
=============================================================================
