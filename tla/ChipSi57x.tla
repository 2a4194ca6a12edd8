----------------------------- MODULE ChipSi57x ------------------------------
(***************************************************************************)
(* The arithmetic of the Si571 oscillator driver,                          *)
(* src/sm_io/chips/sm_ch_si57x.c.  The output is fxtal * rfreq / (hs * n1) *)
(* with rfreq a fixed-point number, and the oscillator at fxtal * rfreq    *)
(* must stay between FDCO_MIN and FDCO_MAX.                                *)
(***************************************************************************)
EXTENDS Integers, Sequences, FiniteSetsExt

CONSTANTS
    FDCO_MIN, FDCO_MAX,    \* in the unit of the frequencies
    FOUT_FACTORY,          \* the output after a recall
    RFREQ_ONE              \* 2^SI57X_RFREQ_FRAC_SIZE

HsDivs == {11, 9, 7, 6, 5, 4}
N1_MAX == 128

\* The lowest n1 tried with hs: the quotient rounded up to 1 or an even number.
FirstN1(hs, freq) ==
    LET n1 == (FDCO_MIN \div hs) \div freq
    IN  IF n1 = 0 \/ n1 % 2 = 1 THEN n1 + 1 ELSE n1

Fdco(freq, d) == freq * d.hs * d.n1

\* The dividers tried: from the lowest n1, in steps of two, while the
\* oscillator stays in range.
Tried(freq) ==
    {d \in [hs : HsDivs, n1 : 1..N1_MAX] :
        LET first == FirstN1(d.hs, freq)
        IN  /\ d.n1 = first \/ (d.n1 > first /\ d.n1 % 2 = 0)
            /\ Fdco(freq, d) \in FDCO_MIN..FDCO_MAX}

\* The pair whose oscillator runs at f, of several the one with the larger hs.
PairAt(pairs, freq, f) ==
    CHOOSE d \in pairs : /\ Fdco(freq, d) = f
                         /\ \A e \in pairs : Fdco(freq, e) = f => e.hs <= d.hs

\* Without fxtal the quotient is no number, and its conversion leaves the
\* low bits that reach the chip at zero.
Rfreq(fdco, fxtal) == IF fxtal = 0 THEN 0 ELSE (fdco * RFREQ_ONE) \div fxtal

\* Seeded defect: the fastest oscillator is taken, not the slowest.
CalcFastest(freq, fxtal) ==
    LET tried == Tried(freq)
        fdco  == Max({Fdco(freq, d) : d \in tried})
        best  == PairAt(tried, freq, fdco)
    IN  IF tried = {} THEN {}
        ELSE {[hs |-> best.hs, n1 |-> best.n1, rfreq |-> Rfreq(fdco, fxtal)]}

\* calc_divs: the dividers of the slowest oscillator, none if there are none.
calc_divs(freq, fxtal) ==
    LET tried == Tried(freq)
        fdco  == Min({Fdco(freq, d) : d \in tried})
        best  == PairAt(tried, freq, fdco)
    IN  IF tried = {} THEN {}
        ELSE {[hs |-> best.hs, n1 |-> best.n1, rfreq |-> Rfreq(fdco, fxtal)]}

(***************************************************************************)
(* The six divider registers, from SI57X_REG_HS_N1 on.                     *)
(***************************************************************************)

Divs(d) ==
    <<(d.hs - 4) * 32 + (((d.n1 - 1) \div 4) % 32),
      ((d.n1 - 1) % 4) * 64 + (((d.rfreq \div 2^30) \div 4) % 64),
      (d.rfreq \div 2^24) % 256, (d.rfreq \div 2^16) % 256, (d.rfreq \div 2^8) % 256,
      d.rfreq % 256>>

\* get_divs; an odd n1 other than 1 is taken for the even one below it.
get_divs(b) ==
    LET n1 == (b[1] % 32) * 4 + (b[2] \div 64) + 1
    IN  [hs |-> (b[1] \div 32) + 4,
         n1 |-> IF n1 > 1 THEN n1 - (n1 % 2) ELSE n1,
         rfreq |-> ((((b[2] % 64) * 256 + b[3]) * 256 + b[4]) * 256 + b[5]) * 256 + b[6]]

\* The crystal as get_defaults works it out, on the understanding that the
\* dividers are the factory's.
Fxtal(d) == IF d.rfreq = 0 THEN 0 ELSE (FOUT_FACTORY * d.n1 * d.hs * RFREQ_ONE) \div d.rfreq

\* get_freq
Fout(d, fxtal) ==
    IF d.hs * d.n1 = 0 THEN 0 ELSE (d.rfreq * fxtal) \div (RFREQ_ONE * d.hs * d.n1)

(***************************************************************************)
(* The reference for calc_divs: every pair of dividers the chip takes.     *)
(***************************************************************************)
Legal(freq) ==
    {d \in [hs : HsDivs, n1 : {1} \cup {n \in 1..N1_MAX : n % 2 = 0}] :
        Fdco(freq, d) \in FDCO_MIN..FDCO_MAX}
=============================================================================
