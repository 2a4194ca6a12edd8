----------------------------- MODULE SmioParams -----------------------------
(***************************************************************************)
(* The parameters of the eleven SMIOs, from the call of the client library *)
(* to the registers of the core: the operation code is looked up in the    *)
(* table the SMIO exported, the sizes of the arguments are checked, the    *)
(* function paired with the descriptor reads and writes the register       *)
(* through the DEVIO, and the reply becomes the result of the call.        *)
(*                                                                         *)
(* One SMIO is looked at at a time.  Either free calls are made, or the    *)
(* config_defaults function of the SMIO runs.                              *)
(***************************************************************************)
EXTENDS SmioDsp, SmioTrigger, SmioFmcAdc, SmioClock, SmioPlatform

CONSTANTS
    Smios,     \* the SMIOs looked at
    Effort     \* bound on free calls: one costs one, and two when an access fails

VARIABLES
    smio,    \* the SMIO
    mem,     \* the registers of its core: address -> word
    held,    \* ghost: the values set with success and not overwritten since
    last,    \* ghost: the last call and its result
    cfg,     \* progress of config_defaults
    effort   \* what is left of Effort

vars == <<smio, mem, held, last, cfg, effort>>

-----------------------------------------------------------------------------
\* The SMIOs.  base is or-ed into every register offset; channels and stride
\* are those of the *_CHANNEL macros; chips, delays and infos are the
\* operations that are not register parameters.
Smio(base, addr, params, ops, fps, client, defaults) ==
    [base |-> base, addr |-> addr, params |-> params, ops |-> ops, fps |-> fps,
     client |-> client, defaults |-> defaults, channels |-> 1, stride |-> 0,
     chips |-> <<>>, delays |-> <<>>, infos |-> {}]

DSP_BPM_SWAP_OFFS            == 256
FMC_130M_FMC_ADC_COMMON_OFFS == 4096

Table ==
    [dsp  |-> Smio(0, pos_calc_addr, dsp_params, dsp_exp_ops, dsp_exp_fp,
                   dsp_ctl_client @@ dsp_monit_client,
                   dsp_defaults),
     swap |-> Smio(DSP_BPM_SWAP_OFFS, bpm_swap_addr, swap_params, swap_exp_ops, swap_exp_fp,
                   swap_sw_client @@ swap_gain_client, swap_defaults),
     trigger_iface |->
        [Smio(0, trigger_iface_addr, trigger_iface_params, trigger_iface_exp_ops,
              trigger_iface_exp_fp, trigger_iface_client, trigger_iface_defaults)
            EXCEPT !.channels = NumChan, !.stride = TRIGGER_IFACE_CHAN_OFFSET],
     trigger_mux |->
        [Smio(0, trigger_mux_addr, trigger_mux_params, trigger_mux_exp_ops,
              trigger_mux_exp_fp, trigger_mux_client, trigger_mux_defaults)
            EXCEPT !.channels = NumChan, !.stride = TRIGGER_MUX_CHAN_OFFSET],
     fmc130m |->
        [Smio(0, fmc130m_addr, fmc130m_adc_params @@ fmc130m_dly_params, fmc130m_exp_ops,
              fmc130m_exp_fp, fmc130m_adc_client @@ fmc130m_dly_client @@ fmc130m_delay_client,
              fmc130m_defaults)
            EXCEPT !.delays = fmc130m_delays],
     fmc250m |->
        [Smio(0, fmc250m_addr, fmc250m_data_params @@ fmc250m_ctl_params, fmc250m_exp_ops,
              fmc250m_exp_fp, fmc250m_ctl_client @@ fmc250m_data_client, fmc250m_defaults)
            EXCEPT !.chips = fmc250m_chips],
     fmc_adc_common |->
        Smio(FMC_130M_FMC_ADC_COMMON_OFFS, fmc_adc_common_addr, fmc_adc_common_params,
             fmc_adc_common_exp_ops, fmc_adc_common_exp_fp, fmc_adc_common_client,
             fmc_adc_common_defaults),
     fmc_active_clk |->
        [Smio(0, fmc_active_clk_addr, fmc_active_clk_params, fmc_active_clk_exp_ops,
              fmc_active_clk_exp_fp,
              fmc_active_clk_switch_client @@ fmc_active_clk_ad9510_client
                  @@ fmc_active_clk_si571_client, fmc_active_clk_defaults)
            EXCEPT !.chips = fmc_active_clk_ad9510 @@ fmc_active_clk_si571],
     rffe |-> [Smio(0, <<>>, <<>>, rffe_exp_ops, rffe_exp_fp,
                   rffe_analog_client @@ rffe_control_client, rffe_defaults)
                  EXCEPT !.chips = rffe_vars],
     afc_diag |->
        [Smio(0, afc_diag_addr, afc_diag_params, afc_diag_exp_ops, afc_diag_exp_fp,
              afc_diag_client, afc_diag_defaults) EXCEPT !.infos = afc_diag_infos],
     acq |-> Smio(0, acq_core_addr, acq_params, acq_exp_ops, acq_exp_fp, acq_client, <<>>)]

ASSUME SmiosAssumption == Smios \subseteq DOMAIN Table /\ Effort \in Nat

\* Where a register of channel c is in the core, and where the macros look
\* for it: an offset is or-ed, not added, to the base of the channel.
InCore(T, c, reg)   == Num(T.base + T.stride * c + T.addr[reg])
Computed(T, c, reg) == Num(T.base + T.stride * c) \cup Num(T.addr[reg])

\* The two for every channel and register that is used.
Placed(T) ==
    LET channels == 0..(T.channels - 1)
        used     == {T.params[n].reg : n \in DOMAIN T.params}
    IN  T @@ [inCore   |-> [x \in channels \X used |-> InCore(T, x[1], x[2])],
              computed |-> [x \in channels \X used |-> Computed(T, x[1], x[2])]]

PlacedTable == [s \in DOMAIN Table |-> Placed(Table[s])]

\* The table of the SMIO.  The operators below have it as their parameter T.
S == PlacedTable[smio]

Registers(T) == Range(T.inCore)

\* The register offset has bits in common with the base of the channel.
Aliased(T, n, c) ==
    /\ n \in DOMAIN T.params
    /\ c < T.channels
    /\ T.computed[<<c, T.params[n].reg>>] # T.inCore[<<c, T.params[n].reg>>]

(***************************************************************************)
(* What makes the tables of an SMIO work together.                         *)
(***************************************************************************)
\* A field is a run of bits; several fields of a parameter do not overlap.
\* A value within limits fits every field, and only a value without limits
\* is sign extended.
FieldsFit(p) ==
    /\ p.fields # {}
    /\ \A f \in p.fields : \E lo, hi \in Bit : lo <= hi /\ f = lo..hi
    /\ \A f, g \in p.fields : f # g => f \cap g = {}
    /\ IF p.lim = NoLimits THEN p.single \/ \E f \in p.fields : p.fields = {f}
       ELSE /\ {p.lim[1], p.lim[2]} \subseteq Word
            /\ \A f \in p.fields : p.lim[2] \subseteq IF p.single THEN One ELSE Ones(Cardinality(f))
    /\ p.fmt = "sign" => p.lim = NoLimits /\ ~p.single

\* No two parameters share bits, and what the macros compute for a register
\* is not a register of a channel without aliased ones, but itself.
RegistersApart(T) ==
    LET channels == 0..(T.channels - 1)
        regs     == {T.params[n].reg : n \in DOMAIN T.params}
    IN  /\ DOMAIN T.inCore = channels \X regs /\ DOMAIN T.computed = channels \X regs
        /\ \A n, m \in DOMAIN T.params :
              n # m /\ T.params[n].reg = T.params[m].reg => Mask(T.params[n]) \cap Mask(T.params[m]) = {}
        /\ \A c, e \in channels, r, q \in regs :
              /\ T.computed[<<e, q>>] = T.inCore[<<c, r>>]
              /\ \A n \in DOMAIN T.params : ~Aliased(T, n, c)
              => e = c /\ q = r
        /\ \A n \in DOMAIN T.delays : T.delays[n] \in regs /\ T.channels = 1

\* A descriptor that takes what the client sends under its code belongs to
\* the function of that name, which is of one kind.  A delay is not read.
FunctionsAgree(T) ==
    LET kinds == <<DOMAIN T.params, DOMAIN T.delays, DOMAIN T.chips, T.infos>>
    IN  /\ \A n \in DOMAIN T.client : \A i \in DOMAIN T.ops :
              T.ops[i].op = T.client[n].op /\ T.ops[i].args \in {T.client[n].set, T.client[n].get}
              => T.fps[i] = n /\ (n \in DOMAIN T.delays => T.ops[i].args # T.client[n].get)
        /\ \A n \in DOMAIN T.client : \E i \in 1..4 : n \in kinds[i]
        /\ \A i, j \in 1..4 : i # j => kinds[i] \cap kinds[j] = {}

\* The steps of config_defaults.  One that ends the function on an error does
\* not follow one whose error is kept for the end.
DefaultsInOrder(T) ==
    /\ \A i \in DOMAIN T.defaults :
          LET d == T.defaults[i]
          IN  /\ d.name \in DOMAIN T.client /\ d.chan \in 0..(T.channels - 1)
              /\ d.get \in BOOLEAN /\ d.value \in Word
              /\ d.result \in {"must", "may", "again", "first", "also"}
    /\ \A i, j \in DOMAIN T.defaults :
          i < j /\ T.defaults[i].result \in {"first", "also"} => T.defaults[j].result # "must"

WellFormed(T) ==
    /\ T.channels \in Nat \ {0}
    /\ \A n \in DOMAIN T.params : FieldsFit(T.params[n])
    /\ RegistersApart(T)
    /\ FunctionsAgree(T)
    /\ Len(T.defaults) \in Nat /\ DOMAIN T.defaults = 1..Len(T.defaults)
    /\ DefaultsInOrder(T)

ASSUME TablesAssumption == \A s \in Smios : WellFormed(PlacedTable[s])

-----------------------------------------------------------------------------
(***************************************************************************)
(* A call: name is the operation the caller means.                         *)
(***************************************************************************)
\* disp_table_fill_desc: descriptors and functions are paired by position.
Index(T, code) == {i \in DOMAIN T.ops : T.ops[i].op = code}

\* Seeded defect: the sizes are not looked at.
CheckedArgsCount(T, i, sizes) == Len(T.ops[i].args) = Len(sizes)

\* check_gen_zmq_args: number and sizes of the arguments of the message.
CheckedArgs(T, i, sizes) == T.ops[i].args = sizes

\* One register parameter: SET_GET_PARAM, or its CHANNEL form.
ParamCall(T, n, c, get, v, io) ==
    LET p == T.params[n]
        a == T.computed[<<c, p.reg>>]
    IN  IF c > T.channels - 1
        THEN [code |-> RW_INV, value |-> {}, mem |-> mem]
        ELSE IF get
        THEN LET r == GET_PARAM(p, mem[a], io)
             IN  [code |-> r.code, value |-> r.value, mem |-> mem]
        ELSE LET r == SET_PARAM(p, mem[a], v, io)
             IN  [code |-> r.code, value |-> {}, mem |-> [mem EXCEPT ![a] = r.word]]

\* A delay line: two writes, whose results are not looked at, and a
\* comparison with what is read back (nothing read: zero).
DelayCall(T, n, type, v, io) ==
    LET a       == T.computed[<<0, T.delays[n]>>]
        first   == fmc130m_lines(type) \cup WriteField(v, fmc130m_idelay.VAL)
        after   == IF io.write = "ok" THEN first \cup fmc130m_idelay.UPDATE
                   ELSE IF io.write = "unacked" THEN first ELSE mem[a]
        back    == IF io.read THEN after ELSE {}
    IN  IF type \ {0, 1} # {}
        THEN [code |-> 1, value |-> {}, mem |-> mem]
        ELSE [code |-> IF ReadField(back, fmc130m_idelay.VAL) = v THEN 0 ELSE 1,
              value |-> {}, mem |-> [mem EXCEPT ![a] = after]]

\* A function of a chip driver, which may be missing or fail.
ChipCall(T, n, get, io) ==
    [code |-> IF IF get THEN ~T.chips[n].read ELSE ~T.chips[n].write THEN 2
              ELSE IF io.write # "ok" THEN 1 ELSE 0,
     value |-> {}, mem |-> mem]

\* A build information string, which may not fit.
InfoCall(io) == [code |-> IF io.read THEN 0 ELSE 1, value |-> {}, mem |-> mem]

Handle(T, h, c, get, type, v, io) ==
    CASE h \in DOMAIN T.params -> ParamCall(T, h, c, get, v, io)
      [] h \in DOMAIN T.delays -> DelayCall(T, h, type, v, io)
      [] h \in DOMAIN T.chips  -> ChipCall(T, h, get, io)
      [] h \in T.infos         -> InfoCall(io)

\* The client's side: any reply code but success is an error, and the codes
\* of an unknown operation or of wrong arguments are among them.
Outcome(T, n, c, get, type, v, io) ==
    LET op    == T.client[n]
        sizes == IF get THEN op.get ELSE op.set
        found == Index(T, op.op)
        i     == CHOOSE j \in found : TRUE
    IN  IF found = {} \/ ~CheckedArgs(T, i, sizes)
        THEN [ok |-> FALSE, by |-> "none", value |-> {}, mem |-> mem]
        ELSE LET r == Handle(T, T.fps[i], c, get, type, v, io)
             IN  [ok |-> r.code = 0, by |-> T.fps[i], value |-> r.value, mem |-> r.mem]

-----------------------------------------------------------------------------
NoCall == [name |-> "none"]

\* Ghost: the values a call leaves known.  What is written into a register
\* by a faulty access, or by a delay operation, is not known any more.
Held(T, n, c, get, v, io, r) ==
    LET reg     == IF n \in DOMAIN T.params THEN T.params[n].reg
                   ELSE IF n \in DOMAIN T.delays THEN T.delays[n] ELSE "none"
        touched == {k \in DOMAIN held : T.params[k[1]].reg = reg /\ k[2] = c}
        lost    == IF n \in DOMAIN T.delays \/ ~NoFault(io) THEN touched ELSE {}
        kept    == [k \in DOMAIN held \ lost |-> held[k]]
    IN  IF get \/ (NoFault(io) /\ ~r.ok /\ n \in DOMAIN T.params) THEN held
        ELSE IF r.ok /\ n \in DOMAIN T.params
        THEN [k \in {<<n, c>>} \cup DOMAIN kept |-> IF k = <<n, c>> THEN v ELSE kept[k]]
        ELSE kept

Call(T, n, c, get, type, v, io) ==
    LET r == Outcome(T, n, c, get, type, v, io)
    IN  /\ mem' = r.mem
        /\ held' = Held(T, n, c, get, v, io, r)
        /\ last' = [name |-> n, chan |-> c, get |-> get, type |-> type, arg |-> v,
                    io |-> io, ok |-> r.ok, by |-> r.by, value |-> r.value]

Spend(io) ==
    LET cost == IF NoFault(io) THEN 1 ELSE 2
    IN  effort >= cost /\ effort' = effort - cost

Init ==
    /\ smio \in Smios
    /\ \E w \in {{}, Bit} : mem = [a \in Registers(S) |-> w]
    /\ held = <<>>
    /\ last = NoCall
    /\ cfg \in {[state |-> "off", pc |-> 1, err |-> FALSE, bad |-> {}],
                [state |-> "running", pc |-> 1, err |-> FALSE, bad |-> {}]}
    /\ effort = Effort

\* The number that follows a word.
Succ(w) == LET b == Min(Bit \ w) IN (w \ 0..(b - 1)) \cup {b}

\* Values around the limits of a parameter.
Values(T, n) ==
    IF n \notin DOMAIN T.params THEN {{}, {1, 4}, {6}}
    ELSE LET lim == T.params[n].lim
         IN  {{}} \cup IF lim = NoLimits \/ lim[2] = Bit THEN {Bit, 0..15}
                       ELSE {lim[1], lim[2], Succ(lim[2])}

Faults(get) ==
    {io \in Io : (io.read => io.junk = {}) /\ (get => io.write = "ok" /\ io.junk = {})}

Types(T, n) == IF n \in DOMAIN T.delays THEN {{0}, {0, 1}, {2}} ELSE {{}}

ClientSet(T) ==
    /\ cfg.state = "off"
    /\ \E n \in DOMAIN T.client : \E c \in 0..(IF T.channels = 1 THEN 0 ELSE T.channels),
         v \in Values(T, n), type \in Types(T, n), io \in Faults(FALSE) :
            /\ T.client[n].set # <<>>
            /\ Spend(io)
            /\ Call(T, n, c, FALSE, type, v, io)
    /\ UNCHANGED <<smio, cfg>>

ClientGet(T) ==
    /\ cfg.state = "off"
    /\ \E n \in DOMAIN T.client : \E c \in 0..(IF T.channels = 1 THEN 0 ELSE T.channels),
         io \in Faults(TRUE) :
            /\ T.client[n].get # <<>>
            /\ Spend(io)
            /\ Call(T, n, c, TRUE, {}, {}, io)
    /\ UNCHANGED <<smio, cfg>>

\* Seeded defect: a failed call does not end the function.
ConfigGoesOn(T) ==
    /\ cfg.state = "running"
    /\ cfg.pc <= Len(T.defaults)
    /\ LET d == T.defaults[cfg.pc]
       IN  \E io \in Faults(d.get) :
            /\ NoFault(io) \/ cfg.bad = {}
            /\ Call(T, d.name, d.chan, d.get, {}, d.value, io)
            /\ cfg' = [cfg EXCEPT !.pc = @ + 1, !.err = ~last'.ok,
                                  !.bad = IF last'.ok THEN @ ELSE @ \cup {cfg.pc}]
    /\ UNCHANGED <<smio, effort>>

\* One call of config_defaults and what becomes of its result; the accesses
\* of one call at most fail.
ConfigStep(T) ==
    /\ cfg.state = "running"
    /\ cfg.pc <= Len(T.defaults)
    /\ LET d == T.defaults[cfg.pc]
       IN  \E io \in Faults(d.get) :
            /\ NoFault(io) \/ cfg.bad = {}
            /\ Call(T, d.name, d.chan, d.get, {}, d.value, io)
            /\ LET ok == last'.ok
               IN  cfg' = [state |-> IF d.result = "must" /\ ~ok THEN "failed" ELSE "running",
                           pc    |-> cfg.pc + 1,
                           err   |-> IF d.result \in {"must", "first"} THEN ~ok
                                     ELSE IF d.result = "also" THEN cfg.err \/ ~ok ELSE cfg.err,
                           bad   |-> IF ok THEN cfg.bad ELSE cfg.bad \cup {cfg.pc}]
    /\ UNCHANGED <<smio, effort>>

\* The test at the end of the function.
ConfigEnd(T) ==
    /\ cfg.state = "running"
    /\ cfg.pc > Len(T.defaults)
    /\ cfg' = [cfg EXCEPT !.state = IF cfg.err THEN "failed" ELSE "done"]
    /\ UNCHANGED <<smio, mem, held, last, effort>>

Next == ClientSet(S) \/ ClientGet(S) \/ ConfigStep(S) \/ ConfigEnd(S)

Spec == Init /\ [][Next]_vars
-----------------------------------------------------------------------------
TypeOK ==
    /\ smio \in Smios
    /\ DOMAIN mem = Registers(S) /\ \A a \in Registers(S) : mem[a] \in Word
    /\ \A k \in DOMAIN held : k[1] \in DOMAIN S.params /\ held[k] \in Word
    /\ cfg.state \in {"off", "running", "failed", "done"}
    /\ effort \in 0..Effort

\* Whatever the client library calls is served by the function of that name
\* and its arguments pass the check, in all eleven SMIOs: operation codes,
\* descriptors, function tables and client calls agree.  The build strings
\* of afc_diag are the exception: the client sends a second argument of the
\* size of the result, the descriptor wants four bytes.
ServedByItsHandler ==
    last # NoCall => last.by = IF last.name \in S.infos THEN "none" ELSE last.name

\* A set whose register could be read changes no bit outside the fields of
\* its parameter, in the register where the core has it: read, merge and
\* write back keep the neighbours.  Only where the macros compute the
\* address of another register (the channels of trigger_iface) it does not.
SetsOwnField ==
    [][(last'.name \in DOMAIN S.params /\ last'.io.read
            /\ ~Aliased(S, last'.name, last'.chan))
       => \A a \in DOMAIN mem : mem'[a] # mem[a] =>
            /\ a = S.inCore[<<last'.chan, S.params[last'.name].reg>>]
            /\ (mem[a] \ mem'[a]) \cup (mem'[a] \ mem[a])
                    \subseteq Mask(S.params[last'.name])]_<<mem, last>>

\* What a value looks like when it is read back: a value within limits is
\* itself, a value without limits is cut to the width of the field.
Shown(p, v) ==
    LET cut == v \cap Ones(Cardinality(Mask(p)))
    IN  IF p.lim # NoLimits THEN v
        ELSE IF p.single THEN IF v # {} THEN One ELSE Zero
        ELSE IF p.fmt = "sign" THEN SignExtend(cut, 15) ELSE cut

\* A parameter set with success keeps its value until it is set again,
\* whatever other parameters are set in between: accepted limits fit the
\* fields, and no two parameters share bits.
ReadsBack ==
    \A k \in DOMAIN held :
        LET p == S.params[k[1]]
        IN  (\A n \in DOMAIN S.params : ~Aliased(S, n, k[2]))
                => Extract(p, mem[S.inCore[<<k[2], p.reg>>]]) = Shown(p, held[k])

\* A failed call of config_defaults fails the function, with these exceptions:
\* the clock divider of swap, whose result is dropped; the configuration of
\* the AD9510, whose error is accepted; and every trigger channel but the
\* last one, because each channel assigns the error afresh.
DefaultsReported ==
    cfg.state = "done" =>
        \A i \in cfg.bad :
            \/ S.defaults[i].result \in {"may", "again"}
            \/ \E j \in DOMAIN S.defaults : j > i /\ S.defaults[j].result = "first"

\* After a successful configuration every channel of trigger_iface has its
\* default direction, polarity and lengths.
TriggerDefaultsHold ==
    (cfg.state = "done" /\ cfg.bad = {}) =>
        \A i \in DOMAIN S.defaults :
            LET d == S.defaults[i]
            IN  Extract(S.params[d.name], mem[S.inCore[<<d.chan, S.params[d.name].reg>>]]) = d.value
=============================================================================
