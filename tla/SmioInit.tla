------------------------------ MODULE SmioInit ------------------------------
(***************************************************************************)
(* What the functions that create an SMIO acquire, what their error labels *)
(* give back, and what the functions that destroy it release.              *)
(*                                                                         *)
(* A constructor is a sequence of steps.  A step acquires a resource (or,  *)
(* with get = <<>>, only does something that may fail), and undo lists     *)
(* what the code releases when that step fails: the statements from its    *)
(* error label on.  A destructor is the sequence of what it releases.  *)
(* A resource is a sequence of names, from the object that owns it down.   *)
(* The children that an FMC registers while it starts are in Devio.        *)
(***************************************************************************)
EXTENDS Integers, Sequences

Step(get, undo) == [get |-> get, undo |-> undo, fails |-> TRUE]

\* A step that cannot fail.
Sure(get) == [get |-> get, undo |-> <<>>, fails |-> FALSE]

\* The same resources as parts of the object p.  (Here and below, appending
\* the empty sequence makes TLC build the sequence once.)
Of(p, rs) == [i \in DOMAIN rs |-> <<p>> \o rs[i]] \o <<>>

\* The steps of a constructor called for the object p, by a constructor that
\* releases undo when the call fails.
Calls(p, steps, undo) ==
    [i \in DOMAIN steps |->
       [get |-> IF steps[i].get = <<>> THEN <<>> ELSE <<p>> \o steps[i].get,
        undo |-> Of(p, steps[i].undo) \o undo,
        fails |-> steps[i].fails]] \o <<>>

Self == <<"self">>

(***************************************************************************)
(* Protocols.                                                              *)
(***************************************************************************)

smpr_new == <<Step(Self, <<>>), Step(<<"name">>, <<Self>>)>>

smpr_destroy == <<<<"name">>, Self>>

\* Opening SPI or I2C: the protocol handler, then the initialisation of the
\* core, which may fail.
spi_open == <<Step(Self, <<>>), Step(<<>>, <<Self>>)>>

spi_release == <<Self>>

i2c_open == <<Step(Self, <<>>), Step(<<>>, <<Self>>)>>

i2c_release == <<Self>>

\* BSMP also points the global bsmp_glue at the SMIO, and only its release
\* resets the pointer.
bsmp_open == <<Step(Self, <<>>), Step(<<"client">>, <<Self>>), Sure(<<"glue">>),
               Step(<<>>, <<<<"client">>, Self>>)>>

bsmp_release == <<<<"glue">>, <<"client">>, Self>>

(***************************************************************************)
(* Chips: the object, its protocol, and for some the initialisation of the *)
(* chip.                                                                   *)
(***************************************************************************)

ChipNew(open) ==
    <<Step(Self, <<>>)>> \o Calls("smpr", smpr_new, <<Self>>)
    \o Calls("proto", open, Of("smpr", smpr_destroy) \o <<Self>>)

ChipDestroy(release) == Of("proto", release) \o Of("smpr", smpr_destroy) \o <<Self>>

\* Seeded defect: the label of the initialisation does not release the
\* protocol handler.
ad9510_new_keeps_proto ==
    ChipNew(spi_open) \o <<Step(<<>>, Of("smpr", smpr_destroy) \o <<Self>>)>>

smch_ad9510_new == ChipNew(spi_open) \o <<Step(<<>>, ChipDestroy(spi_release))>>

smch_ad9510_destroy == ChipDestroy(spi_release)

smch_isla216p_new == ChipNew(spi_open) \o <<Step(<<>>, ChipDestroy(spi_release))>>

smch_isla216p_destroy == ChipDestroy(spi_release)

smch_24aa64_new == ChipNew(i2c_open)

smch_24aa64_destroy == ChipDestroy(i2c_release)

smch_pca9547_new == ChipNew(i2c_open)

smch_pca9547_destroy == ChipDestroy(i2c_release)

smch_si57x_new == ChipNew(i2c_open)

smch_si57x_destroy == ChipDestroy(i2c_release)

smch_rffe_new == ChipNew(bsmp_open)

smch_rffe_destroy == ChipDestroy(bsmp_release)

(***************************************************************************)
(* The handler of each kind of SMIO, for an instance.  An instance is 0,   *)
(* 1 or one that is too large for the board.                               *)
(***************************************************************************)

TooLarge == 2

SimpleNew == <<Step(Self, <<>>)>>

SimpleDestroy == <<Self>>

smio_dsp_new(inst) == SimpleNew

smio_dsp_destroy(inst) == SimpleDestroy

smio_swap_new(inst) == SimpleNew

smio_swap_destroy(inst) == SimpleDestroy

smio_afc_diag_new(inst) == SimpleNew

smio_afc_diag_destroy(inst) == SimpleDestroy

smio_fmc_adc_common_new(inst) == SimpleNew

smio_fmc_adc_common_destroy(inst) == SimpleDestroy

smio_trigger_iface_new(inst) == SimpleNew

smio_trigger_iface_destroy(inst) == SimpleDestroy

smio_trigger_mux_new(inst) == SimpleNew

smio_trigger_mux_destroy(inst) == SimpleDestroy

\* A step that fails for an instance that is too large, and for no other.
InRange(inst, undo) == IF inst = TooLarge THEN <<Step(<<"too large">>, undo)>> ELSE <<>>

\* The range is looked at last, and the object is not released.
smio_acq_new(inst) == SimpleNew \o InRange(inst, <<>>)

smio_acq_destroy(inst) == SimpleDestroy

smio_rffe_new(inst) == SimpleNew \o Calls("ctl", smch_rffe_new, <<Self>>)

smio_rffe_destroy(inst) == Of("ctl", smch_rffe_destroy) \o <<Self>>

smio_fmc_active_clk_new(inst) ==
    SimpleNew \o Calls("ad9510", smch_ad9510_new, <<Self>>)
    \o Calls("si571", smch_si57x_new, Of("ad9510", smch_ad9510_destroy) \o <<Self>>)

smio_fmc_active_clk_destroy(inst) ==
    Of("si571", smch_si57x_destroy) \o Of("ad9510", smch_ad9510_destroy) \o <<Self>>

\* Only instance 0 has the I2C switch.
Switch(inst) == IF inst = 0 THEN Of("pca9547", smch_pca9547_destroy) ELSE <<>>

smio_fmc130m_4ch_new(inst) ==
    SimpleNew \o InRange(inst, <<Self>>)
    \o (IF inst = 0 THEN Calls("pca9547", smch_pca9547_new, <<Self>>) ELSE <<>>)
    \o Calls("24aa64", smch_24aa64_new, Switch(inst) \o <<Self>>)

smio_fmc130m_4ch_destroy(inst) ==
    Of("24aa64", smch_24aa64_destroy) \o Switch(inst) \o <<Self>>

NUM_FMC250M_4CH_ISLA216P == 4

Adc == <<"adc0", "adc1", "adc2", "adc3">>

\* The first n converters.
Adcs(n) ==
    LET first[i \in 0..n] ==
          IF i = 0 THEN <<>> ELSE first[i - 1] \o Of(Adc[i], smch_isla216p_destroy)
    IN  first[n]

smio_fmc250m_4ch_new(inst) ==
    LET upTo[i \in 0..NUM_FMC250M_4CH_ISLA216P] ==
          IF i = 0 THEN SimpleNew \o InRange(inst, <<Self>>)
          ELSE upTo[i - 1] \o Calls(Adc[i], smch_isla216p_new, Adcs(i - 1) \o <<Self>>)
    IN  upTo[NUM_FMC250M_4CH_ISLA216P]

smio_fmc250m_4ch_destroy(inst) == Adcs(NUM_FMC250M_4CH_ISLA216P) \o <<Self>>

(***************************************************************************)
(* init: the name (released with the SMIO, not here), the descriptors of   *)
(* the exported operations, the handler.  The pointers to tables that init *)
(* sets and resets own nothing.  shutdown: the handler.                    *)
(***************************************************************************)

InitWith(handler) ==
    <<Step(<<"name">>, <<>>), Step(<<>>, <<>>)>> \o Calls("handler", handler, <<>>)

ShutdownWith(destroy) == Of("handler", destroy)

acq_init(inst) == InitWith(smio_acq_new(inst))

acq_shutdown(inst) == ShutdownWith(smio_acq_destroy(inst))

afc_diag_init(inst) == InitWith(smio_afc_diag_new(inst))

afc_diag_shutdown(inst) == ShutdownWith(smio_afc_diag_destroy(inst))

dsp_init(inst) == InitWith(smio_dsp_new(inst))

dsp_shutdown(inst) == ShutdownWith(smio_dsp_destroy(inst))

fmc130m_4ch_init(inst) == InitWith(smio_fmc130m_4ch_new(inst))

fmc130m_4ch_shutdown(inst) == ShutdownWith(smio_fmc130m_4ch_destroy(inst))

fmc250m_4ch_init(inst) == InitWith(smio_fmc250m_4ch_new(inst))

fmc250m_4ch_shutdown(inst) == ShutdownWith(smio_fmc250m_4ch_destroy(inst))

fmc_active_clk_init(inst) == InitWith(smio_fmc_active_clk_new(inst))

fmc_active_clk_shutdown(inst) == ShutdownWith(smio_fmc_active_clk_destroy(inst))

fmc_adc_common_init(inst) == InitWith(smio_fmc_adc_common_new(inst))

fmc_adc_common_shutdown(inst) == ShutdownWith(smio_fmc_adc_common_destroy(inst))

rffe_init(inst) == InitWith(smio_rffe_new(inst))

rffe_shutdown(inst) == ShutdownWith(smio_rffe_destroy(inst))

swap_init(inst) == InitWith(smio_swap_new(inst))

swap_shutdown(inst) == ShutdownWith(smio_swap_destroy(inst))

trigger_iface_init(inst) == InitWith(smio_trigger_iface_new(inst))

trigger_iface_shutdown(inst) == ShutdownWith(smio_trigger_iface_destroy(inst))

trigger_mux_init(inst) == InitWith(smio_trigger_mux_new(inst))

trigger_mux_shutdown(inst) == ShutdownWith(smio_trigger_mux_destroy(inst))

Kinds == {"acq", "afc_diag", "dsp", "fmc130m_4ch", "fmc250m_4ch", "fmc_active_clk",
          "fmc_adc_common", "rffe", "swap", "trigger_iface", "trigger_mux"}

\* The bootstrap operations of a kind of SMIO.
init(kind, inst) ==
    CASE kind = "acq" -> acq_init(inst)
      [] kind = "afc_diag" -> afc_diag_init(inst)
      [] kind = "dsp" -> dsp_init(inst)
      [] kind = "fmc130m_4ch" -> fmc130m_4ch_init(inst)
      [] kind = "fmc250m_4ch" -> fmc250m_4ch_init(inst)
      [] kind = "fmc_active_clk" -> fmc_active_clk_init(inst)
      [] kind = "fmc_adc_common" -> fmc_adc_common_init(inst)
      [] kind = "rffe" -> rffe_init(inst)
      [] kind = "swap" -> swap_init(inst)
      [] kind = "trigger_iface" -> trigger_iface_init(inst)
      [] kind = "trigger_mux" -> trigger_mux_init(inst)

shutdown(kind, inst) ==
    CASE kind = "acq" -> acq_shutdown(inst)
      [] kind = "afc_diag" -> afc_diag_shutdown(inst)
      [] kind = "dsp" -> dsp_shutdown(inst)
      [] kind = "fmc130m_4ch" -> fmc130m_4ch_shutdown(inst)
      [] kind = "fmc250m_4ch" -> fmc250m_4ch_shutdown(inst)
      [] kind = "fmc_active_clk" -> fmc_active_clk_shutdown(inst)
      [] kind = "fmc_adc_common" -> fmc_adc_common_shutdown(inst)
      [] kind = "rffe" -> rffe_shutdown(inst)
      [] kind = "swap" -> swap_shutdown(inst)
      [] kind = "trigger_iface" -> trigger_iface_shutdown(inst)
      [] kind = "trigger_mux" -> trigger_mux_shutdown(inst)

(***************************************************************************)
(* The SMIO itself.  pipe_msg is handed to it by the DEVIO and belongs to  *)
(* it from then on.                                                        *)
(***************************************************************************)

disp_table_new == <<Step(Self, <<>>), Step(<<"hash">>, <<Self>>)>>

\* What disp_table_destroy releases once the operations are removed.
disp_table_destroy == <<<<"hash">>, Self>>

\* What is released from the label err_pipe_frontend_alloc on.
FromPipeMsg == <<<<"pipe_msg">>>> \o Of("dtable", disp_table_destroy) \o <<<<"service">>, Self>>

FromPipes == <<<<"pipes">>>> \o FromPipeMsg

smio_new ==
    <<Step(Self, <<>>), Step(<<"service">>, <<Self>>)>>
    \o Calls("dtable", disp_table_new, <<<<"service">>, Self>>)
    \o <<Step(<<"pipes">>, FromPipeMsg),
         Step(<<"loop">>, FromPipes),
         Step(<<"timer">>, <<<<"loop">>>> \o FromPipes),
         Step(<<"worker">>, <<<<"timer">>, <<"loop">>>> \o FromPipes),
         Step(<<>>, <<<<"worker">>, <<"timer">>, <<"loop">>>> \o FromPipes)>>

smio_destroy ==
    <<<<"worker">>, <<"timer">>, <<"loop">>, <<"pipes">>, <<"pipe_msg">>>>
    \o Of("dtable", disp_table_destroy) \o <<<<"service">>, <<"name">>, Self>>

(***************************************************************************)
(* Running a constructor or a destructor.  m.held is what is held now and  *)
(* m.freed what was released; releasing what is neither held nor was       *)
(* released is a call with a null pointer, and does nothing.  m.twice      *)
(* collects what was released again.                                       *)
(***************************************************************************)

Release(m, rs) ==
    LET all == {rs[i] : i \in DOMAIN rs}
        again == {r \in all : \E i, j \in DOMAIN rs : i < j /\ rs[i] = r /\ rs[j] = r}
    IN  [held |-> m.held \ all,
         freed |-> m.freed \cup (m.held \cap all),
         twice |-> m.twice \cup (m.freed \cap all) \cup (m.held \cap again)]

\* The ways a constructor can go: it succeeds (at = 0), or step at fails.  An
\* instance that is too large always fails, at the latest where it is tested.
Fates(steps) ==
    LET bad == {i \in DOMAIN steps :
                  steps[i].get # <<>> /\ steps[i].get[Len(steps[i].get)] = "too large"}
        last == IF bad = {} THEN Len(steps) ELSE CHOOSE i \in bad : \A j \in bad : i <= j
    IN  {i \in 1..last : steps[i].fails} \cup (IF bad = {} THEN {0} ELSE {})

\* What each of them acquires, and what it then releases.
Ways(steps) ==
    {[ok |-> at = 0,
      got |-> {steps[i].get : i \in IF at = 0 THEN DOMAIN steps ELSE 1..(at - 1)} \ {<<>>},
      undo |-> IF at = 0 THEN <<>> ELSE steps[at].undo] : at \in Fates(steps)}

\* What is held after a constructor has gone way w.
Construct(m, w) == Release([m EXCEPT !.held = @ \cup w.got], w.undo)
=============================================================================
