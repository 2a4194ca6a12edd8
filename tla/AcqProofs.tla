------------------------------ MODULE AcqProofs ------------------------------
(***************************************************************************)
(* The acquisition core and the SMIO agree, for every table of channels,   *)
(* every set of clients and requests, and any number of acquisitions.      *)
(***************************************************************************)
EXTENDS Acq, TLAPS

(* Provers of a leaf that names none, with their time limits in seconds.     *)
USE SMTT(20), ZenonT(20)

(* The types the other invariants need.                                    *)
ControlType ==
    /\ params \in [Chan -> [pre : Nat, post : Nat, shots : Nat, trig : Int]]
    /\ curr_chan \in Chan
    /\ reg \in [pre : Nat, post : Nat, shots : Nat, start : Nat, end : Nat, chan : Nat,
                now : BOOLEAN, hwEn : BOOLEAN, swEn : BOOLEAN, hwSel : BOOLEAN]
    /\ fsm \in {"idle", "acq", "drain"}
    /\ trigPos \in Int
    /\ acqs \in Nat

(* Nothing was ever started, or the core has the parameters of the current *)
(* channel.  A core that is running was started.                           *)
ControlInv ==
    /\ ControlType
    /\ CoreMatchesParams
    /\ fsm # "idle" => acqs > 0
    /\ SkipHasNoPost
    /\ OneTriggerSource

(* The alignment of a channel is at least one sample.                      *)
LEMMA AlignmentPositive ==
    ASSUME NEW ch \in Chan
    PROVE  SamplesAlignment(ch) \in Nat \ {0}
<1>1. acq_buf[ch].sample_size \in Nat \ {0} /\ PayloadSize \in Nat \ {0}
      /\ PayloadSize % acq_buf[ch].sample_size = 0
  BY LayoutAssumption
<1>2. ASSUME NEW p \in Nat \ {0}, NEW s \in Nat \ {0}, p % s = 0
      PROVE  p \div s \in Nat \ {0}
  BY <1>2
<1> QED BY <1>1, <1>2 DEF SamplesAlignment

(* A rounded count is a natural number.                                    *)
LEMMA AlignType ==
    ASSUME NEW n \in Nat, NEW a \in Nat \ {0}
    PROVE  Align(n, a) \in Nat
<1>1. n % a \in 0 .. a - 1
  OBVIOUS
<1>2. n + a - (n % a) \in Nat
  BY <1>1
<1> QED BY <1>2, LayoutAssumption DEF Align

(* So are the rounded counts of a request.                                 *)
LEMMA AlignedTypes ==
    ASSUME NEW ch \in Chan, NEW n \in Nat
    PROVE  PreAligned(ch, n) \in Nat /\ PostAligned(ch, n) \in Nat
BY AlignmentPositive, AlignType DEF PreAligned, PostAligned

(* No samples after the trigger stay none when they are rounded.           *)
LEMMA PostAlignedZero ==
    ASSUME NEW ch \in Chan
    PROVE  PostAligned(ch, 0) = 0
BY DEF PostAligned

(* A step that changes nothing these invariants look at keeps them.        *)
LEMMA ControlUnchanged ==
    ASSUME ControlInv, UNCHANGED <<params, curr_chan, reg, fsm, trigPos, acqs>>
    PROVE  ControlInv'
BY DEF ControlInv, ControlType, CoreMatchesParams, SkipHasNoPost, OneTriggerSource,
       GetTriggerType

(* A started acquisition: registers and parameters get the same values,    *)
(* and the core starts with samples after the trigger only when the        *)
(* trigger is not the skip trigger.                                        *)
LEMMA DataAcquireStep ==
    ASSUME ControlInv, NEW r \in Request, DataAcquire(r), acqs' = acqs + 1
    PROVE  ControlInv'
<1> DEFINE pre == PreAligned(r.chan, r.pre)
           post == PostAligned(r.chan, r.post)
           b == acq_buf[r.chan]
<1>1. r.chan \in Chan /\ r.chan \in Nat /\ r.pre \in Nat /\ r.post \in Nat /\ r.shots \in Nat
  BY RequestAssumption, LayoutAssumption DEF DataAcquire, Accepts
<1>2. pre \in Nat /\ post \in Nat
  BY <1>1, AlignedTypes
<1>3. b.start_addr \in Nat /\ b.end_addr \in Nat
  BY <1>1, LayoutAssumption
<1>4. r.shots % ShotsMod \in Nat
  BY <1>1, RequestAssumption
<1>5. /\ params' = [params EXCEPT ![r.chan].pre = pre, ![r.chan].post = post,
                                  ![r.chan].shots = r.shots]
      /\ reg' = [reg EXCEPT !.pre = pre, !.post = post, !.shots = r.shots % ShotsMod,
                            !.start = b.start_addr, !.end = b.end_addr, !.chan = r.chan]
      /\ curr_chan' = r.chan
      /\ fsm' = "acq"
      /\ trigPos' = trigPos
  BY DEF DataAcquire, CoreStart
<1> HIDE DEF pre, post, b
<1>6. params[r.chan] \in [pre : Nat, post : Nat, shots : Nat, trig : Int]
  BY <1>1 DEF ControlInv, ControlType
<1>7. params'[r.chan] = [pre |-> pre, post |-> post, shots |-> r.shots,
                         trig |-> params[r.chan].trig]
  BY <1>1, <1>5, <1>6, Zenon DEF ControlInv, ControlType
<1>8. /\ reg'.pre = pre /\ reg'.post = post /\ reg'.shots = r.shots % ShotsMod
      /\ reg'.chan = r.chan
      /\ reg'.now = reg.now /\ reg'.hwEn = reg.hwEn /\ reg'.swEn = reg.swEn
      /\ reg'.hwSel = reg.hwSel
  BY <1>5 DEF ControlInv, ControlType
<1>9. ControlType'
  <2>1. params' \in [Chan -> [pre : Nat, post : Nat, shots : Nat, trig : Int]]
    BY <1>1, <1>2, <1>5, <1>6 DEF ControlInv, ControlType
  <2>2. reg' \in [pre : Nat, post : Nat, shots : Nat, start : Nat, end : Nat, chan : Nat,
                  now : BOOLEAN, hwEn : BOOLEAN, swEn : BOOLEAN, hwSel : BOOLEAN]
    BY <1>1, <1>2, <1>3, <1>4, <1>5, Zenon DEF ControlInv, ControlType
  <2> QED BY <1>1, <1>5, <2>1, <2>2 DEF ControlInv, ControlType
<1>10. CoreMatchesParams'
  BY <1>5, <1>7, <1>8 DEF CoreMatchesParams
<1>11. SkipHasNoPost'
  <2> SUFFICES ASSUME reg.now PROVE post = 0
    BY <1>8 DEF SkipHasNoPost
  <2>1. GetTriggerType = "skip"
    BY DEF GetTriggerType, DataAcquire, Accepts
  <2>2. r.post = 0
    BY <1>1, <2>1 DEF DataAcquire, Accepts
  <2> QED BY <1>1, <2>2, PostAlignedZero DEF post
<1>12. OneTriggerSource'
  BY <1>8 DEF ControlInv, OneTriggerSource, GetTriggerType
<1>13. acqs' > 0
  BY DEF ControlInv, ControlType
<1> QED BY <1>9, <1>10, <1>11, <1>12, <1>13 DEF ControlInv

(* A recorded trigger address leaves the rest of the parameters alone.     *)
LEMMA CheckStep ==
    ASSUME ControlInv, CheckDataAcquire, UNCHANGED <<curr_chan, reg, fsm, trigPos, acqs>>
    PROVE  ControlInv'
<1>1. params' = [params EXCEPT ![curr_chan].trig = trigPos]
  BY DEF CheckDataAcquire
<1>2. params' \in [Chan -> [pre : Nat, post : Nat, shots : Nat, trig : Int]]
  BY <1>1 DEF ControlInv, ControlType
<1>3. params'[curr_chan].pre = params[curr_chan].pre
      /\ params'[curr_chan].post = params[curr_chan].post
      /\ params'[curr_chan].shots = params[curr_chan].shots
  BY <1>1 DEF ControlInv, ControlType
<1> QED
  BY <1>2, <1>3 DEF ControlInv, ControlType, CoreMatchesParams, SkipHasNoPost,
                    OneTriggerSource, GetTriggerType

(* Selecting a trigger enables one source and disables the others.         *)
LEMMA CfgTriggerStep ==
    ASSUME ControlInv, NEW t \in TriggerType, CfgTrigger(t)
    PROVE  ControlInv'
<1> USE DEF ControlInv, ControlType
<1>1. /\ reg' = TriggerRegs(t) /\ fsm = "idle"
      /\ UNCHANGED <<params, curr_chan, fsm, trigPos, acqs>>
  BY DEF CfgTrigger, CoreIdle, serverVars
<1>2. reg \in [pre : Nat, post : Nat, shots : Nat, start : Nat, end : Nat, chan : Nat,
               now : BOOLEAN, hwEn : BOOLEAN, swEn : BOOLEAN, hwSel : BOOLEAN]
  OBVIOUS
<1>3. /\ reg' \in [pre : Nat, post : Nat, shots : Nat, start : Nat, end : Nat, chan : Nat,
                   now : BOOLEAN, hwEn : BOOLEAN, swEn : BOOLEAN, hwSel : BOOLEAN]
      /\ reg'.pre = reg.pre /\ reg'.post = reg.post /\ reg'.shots = reg.shots
      /\ reg'.chan = reg.chan
      /\ reg'.now <=> t = "skip"
      /\ reg'.hwEn <=> t \in {"hw_pulse", "hw_data"}
      /\ reg'.swEn <=> t = "sw"
  <2>1. CASE t = "skip"
    <3>1. /\ t \notin {"hw_pulse", "hw_data"}
          /\ (t = "skip") = TRUE /\ (t \in {"hw_pulse", "hw_data"}) = FALSE /\ (t = "sw") = FALSE
      BY <2>1
    <3>2. reg' = [reg EXCEPT !.now = TRUE, !.hwEn = FALSE, !.swEn = FALSE, !.hwSel = reg.hwSel]
      BY <1>1, <3>1, Zenon DEF TriggerRegs
    <3> QED BY <1>2, <2>1, <3>2, Zenon
  <2>2. CASE t = "hw_pulse"
    <3>1. reg' = [reg EXCEPT !.now = FALSE, !.hwEn = TRUE, !.swEn = FALSE, !.hwSel = TRUE]
      BY <1>1, <2>2, Zenon DEF TriggerRegs
    <3> QED BY <1>2, <2>2, <3>1, Zenon
  <2>3. CASE t = "hw_data"
    <3>1. reg' = [reg EXCEPT !.now = FALSE, !.hwEn = TRUE, !.swEn = FALSE, !.hwSel = FALSE]
      BY <1>1, <2>3, Zenon DEF TriggerRegs
    <3> QED BY <1>2, <2>3, <3>1, Zenon
  <2>4. CASE t = "sw"
    <3>1. /\ t \notin {"hw_pulse", "hw_data"}
          /\ (t = "skip") = FALSE /\ (t \in {"hw_pulse", "hw_data"}) = FALSE /\ (t = "sw") = TRUE
      BY <2>4
    <3>2. reg' = [reg EXCEPT !.now = FALSE, !.hwEn = FALSE, !.swEn = TRUE, !.hwSel = reg.hwSel]
      BY <1>1, <3>1, Zenon DEF TriggerRegs
    <3> QED BY <1>2, <2>4, <3>2, Zenon
  <2> QED BY <2>1, <2>2, <2>3, <2>4 DEF TriggerType
<1>4. OneTriggerSource'
  BY <1>3 DEF OneTriggerSource, GetTriggerType
<1> QED BY <1>1, <1>3, <1>4 DEF CoreMatchesParams, SkipHasNoPost

------------------------------------------------------------------------------
(* The inductive invariant holds in every behaviour of the specification.  *)
THEOREM ControlInvariance == Spec => []ControlInv
<1>1. Init => ControlInv
  <2> SUFFICES ASSUME Init PROVE ControlInv
    OBVIOUS
  <2>1. ASSUME NEW ch \in Chan PROVE acq_buf[ch].start_addr \in Int
    <3>1. acq_buf[ch].start_addr \in Nat
      BY LayoutAssumption
    <3> QED BY <3>1
  <2>2. ControlType
    <3>1. params \in [Chan -> [pre : Nat, post : Nat, shots : Nat, trig : Int]]
      BY <2>1 DEF Init
    <3>2. curr_chan \in Chan
      BY LayoutAssumption DEF Init
    <3>3. /\ reg \in [pre : Nat, post : Nat, shots : Nat, start : Nat, end : Nat, chan : Nat,
                      now : BOOLEAN, hwEn : BOOLEAN, swEn : BOOLEAN, hwSel : BOOLEAN]
          /\ fsm \in {"idle", "acq", "drain"} /\ trigPos \in Int /\ acqs \in Nat
      BY DEF Init
    <3> QED BY <3>1, <3>2, <3>3 DEF ControlType
  <2> QED BY <2>2 DEF Init, ControlInv, CoreMatchesParams, SkipHasNoPost, OneTriggerSource,
                      GetTriggerType
<1>2. ControlInv /\ [Next]_vars => ControlInv'
  <2> SUFFICES ASSUME ControlInv, [Next]_vars PROVE ControlInv'
    OBVIOUS
  <2>1. CASE \E c \in Client, r \in Request : FullAcqAccepted(c, r)
    BY <2>1, DataAcquireStep DEF FullAcqAccepted
  <2>2. CASE \E c \in Client, r \in Request : FullAcqRefused(c, r) \/ ReadCurve(c, r)
    BY <2>2, ControlUnchanged DEF FullAcqRefused, ReadCurve, serverVars, coreVars
  <2>3. CASE \E c \in Client : PollDone(c)
    BY <2>3, CheckStep DEF PollDone, coreVars
  <2>4. CASE \E c \in Client : GiveUp(c) \/ CurveBlock(c) \/ CurveOutOfRange(c)
    BY <2>4, ControlUnchanged DEF GiveUp, CurveBlock, CurveOutOfRange, serverVars, coreVars
  <2>5. CASE \E r \in Request : AcqStart(r)
    BY <2>5, DataAcquireStep DEF AcqStart
  <2>6. CASE AcqCheck
    BY <2>6, CheckStep DEF AcqCheck, coreVars
  <2>7. CASE \E t \in TriggerType : CfgTrigger(t)
    BY <2>7, CfgTriggerStep
  <2>8. CASE SwTrig
    BY <2>8, ControlUnchanged DEF SwTrig, serverVars
  <2>9. CASE FsmStop
    BY <2>9 DEF FsmStop, serverVars, ControlInv, ControlType, CoreMatchesParams, SkipHasNoPost,
                OneTriggerSource, GetTriggerType
  <2>10. CASE \E d \in 0 .. MaxDelay : CoreTriggered(d)
    <3>1. PICK d \in 0 .. MaxDelay : CoreTriggered(d)
      BY <2>10
    <3> QED
      BY <3>1 DEF CoreTriggered, serverVars, ControlInv, ControlType, CoreMatchesParams,
                  SkipHasNoPost, OneTriggerSource, GetTriggerType
  <2>11. CASE CoreDrained
    BY <2>11 DEF CoreDrained, serverVars, ControlInv, ControlType, CoreMatchesParams,
                 SkipHasNoPost, OneTriggerSource, GetTriggerType
  <2>12. CASE UNCHANGED vars
    BY <2>12, ControlUnchanged DEF vars
  <2> QED
    BY <2>1, <2>2, <2>3, <2>4, <2>5, <2>6, <2>7, <2>8, <2>9, <2>10, <2>11, <2>12 DEF Next
<1> QED BY <1>1, <1>2, PTL DEF Spec

(* What the core does is what the SMIO keeps for the current channel.      *)
THEOREM CoreAgrees == Spec => []CoreMatchesParams
<1>1. ControlInv => CoreMatchesParams
  BY DEF ControlInv
<1> QED BY <1>1, ControlInvariance, PTL

(* The core never runs with the skip trigger and samples after it.         *)
THEOREM SkipIsCompatible == Spec => []SkipHasNoPost
<1>1. ControlInv => SkipHasNoPost
  BY DEF ControlInv
<1> QED BY <1>1, ControlInvariance, PTL

(* Trigger sources exclude each other.                                     *)
THEOREM TriggersExclusive == Spec => []OneTriggerSource
<1>1. ControlInv => OneTriggerSource
  BY DEF ControlInv
<1> QED BY <1>1, ControlInvariance, PTL

(* A running acquisition is not reconfigured by any request.               *)
THEOREM RunningKept == Spec => RunningIsFrozen
<1> DEFINE Frozen == fsm # "idle" => UNCHANGED <<reg, params, curr_chan>>
<1>1. [Next]_vars => [Frozen]_vars
  <2> SUFFICES ASSUME Next, fsm # "idle"
               PROVE  UNCHANGED <<reg, params, curr_chan>>
    OBVIOUS
  <2>1. \A r \in Request : ~ DataAcquire(r)
    BY DEF DataAcquire, Accepts, CoreIdle
  <2>2. ~ CheckDataAcquire
    BY DEF CheckDataAcquire, CoreComplete
  <2>3. \A t \in TriggerType : ~ CfgTrigger(t)
    BY DEF CfgTrigger, CoreIdle
  <2> QED
    BY <2>1, <2>2, <2>3, Zenon
       DEF Next, FullAcqAccepted, FullAcqRefused, ReadCurve, PollDone, GiveUp, CurveBlock,
           CurveOutOfRange, AcqStart, AcqCheck, SwTrig, FsmStop, CoreTriggered, CoreDrained,
           serverVars, coreVars
<1> QED BY <1>1, PTL DEF Spec, RunningIsFrozen

------------------------------------------------------------------------------
(* The remainder of a number below twice the modulus.                      *)
LEMMA ModTwice ==
    ASSUME NEW m \in Nat \ {0}, NEW x \in 0 .. 2 * m - 1
    PROVE  x % m = IF x < m THEN x ELSE x - m
<1>1. CASE x < m
  BY <1>1
<1>2. CASE x >= m
  <2>1. x - m \in 0 .. m - 1 /\ x = m * 1 + (x - m)
    BY <1>2
  <2> QED BY <1>2, <2>1
<1> QED BY <1>1, <1>2

(* The alignment of a channel is a small number of samples.                *)
LEMMA AlignmentSmall ==
    ASSUME NEW ch \in Chan
    PROVE  SamplesAlignment(ch) < U32
<1>1. /\ acq_buf[ch].sample_size \in Nat \ {0} /\ PayloadSize \in Nat \ {0} /\ U32 \in Nat
      /\ RegionSize(ch) \in Nat \ {0} /\ RegionSize(ch) < U32
      /\ RegionSize(ch) % PayloadSize = 0
  <2>1. PayloadSize \in Nat \ {0} /\ U32 \in Nat
    BY LayoutAssumption
  <2>2. /\ acq_buf[ch].sample_size \in Nat \ {0}
        /\ acq_buf[ch].start_addr \in Nat /\ acq_buf[ch].end_addr \in Nat
        /\ acq_buf[ch].start_addr < acq_buf[ch].end_addr
        /\ EndMem(ch) + 2 * PayloadSize < U32
    BY LayoutAssumption, SMTT(30)
  <2>3. RegionSize(ch) % PayloadSize = 0
    BY LayoutAssumption, SMTT(30)
  <2>4. RegionSize(ch) \in Nat \ {0} /\ RegionSize(ch) < U32
    BY <2>1, <2>2, SMTT(30) DEF RegionSize, EndMem
  <2> QED BY <2>1, <2>2, <2>3, <2>4
<1>2. ASSUME NEW p \in Nat \ {0}, NEW s \in Nat \ {0} PROVE p \div s <= p /\ p \div s \in Nat
  OBVIOUS
<1>3. ASSUME NEW p \in Nat \ {0}, NEW s \in Nat \ {0}, s % p = 0 PROVE p <= s
  BY <1>3
<1>4. PayloadSize <= RegionSize(ch)
  BY <1>1, <1>3
<1> QED BY <1>1, <1>2, <1>4 DEF SamplesAlignment

(* A count of 32 bits is rounded up by an alignment at most, and may wrap. *)
LEMMA AlignBounds ==
    ASSUME NEW n \in 0 .. U32 - 1, NEW a \in Nat \ {0}, a < U32
    PROVE  \E d \in 0 .. a : Align(n, a) = IF n + d < U32 THEN n + d ELSE n + d - U32
<1>1. n % a \in 0 .. a - 1 /\ U32 \in Nat \ {0} /\ n \in Nat
  BY LayoutAssumption
<1> DEFINE d == a - (n % a)
<1>2. d \in 0 .. a /\ n + d = n + a - (n % a)
  BY <1>1
<1>3. n + d \in 0 .. 2 * U32 - 1
  BY <1>1, <1>2
<1>4. Align(n, a) = (n + d) % U32
  BY <1>2 DEF Align
<1> HIDE DEF d
<1>5. (n + d) % U32 = IF n + d < U32 THEN n + d ELSE n + d - U32
  <2>1. \A x \in 0 .. 2 * U32 - 1 : x % U32 = IF x < U32 THEN x ELSE x - U32
    BY <1>1, ModTwice, Zenon
  <2> QED BY <1>1, <1>2, <1>3, <2>1
<1> QED BY <1>2, <1>4, <1>5

(* A request that is accepted is rounded to samples that exceed the memory *)
(* of its channel by two alignments at most, or whose sum wraps.           *)
LEMMA AcceptedRounding ==
    ASSUME NEW r \in Request, Accepts(r), r.shots = 1
    PROVE  LET pre == PreAligned(r.chan, r.pre)
               post == PostAligned(r.chan, r.post)
           IN  pre + post < U32 =>
                   pre + post <= acq_buf[r.chan].max_samples + 2 * SamplesAlignment(r.chan)
<1> DEFINE a == SamplesAlignment(r.chan)
           pre == PreAligned(r.chan, r.pre)
           post == PostAligned(r.chan, r.post)
           max == acq_buf[r.chan].max_samples
<1>1. r.chan \in Chan /\ r.pre \in 0 .. U32 - 1 /\ r.post \in 0 .. U32 - 1
  BY RequestAssumption DEF Accepts
<1>2. a \in Nat \ {0} /\ a < U32 /\ max \in Nat /\ U32 \in Nat \ {0}
  BY <1>1, AlignmentPositive, AlignmentSmall, LayoutAssumption, Zenon
<1>3. ~ ((r.pre + r.post) % U32 > max)
  BY DEF Accepts, TooManySamples
<1>4. (r.pre + r.post) % U32 = IF r.pre + r.post < U32 THEN r.pre + r.post
                                                       ELSE r.pre + r.post - U32
  <2>1. r.pre + r.post \in 0 .. 2 * U32 - 1
    BY <1>1, <1>2
  <2>2. \A x \in 0 .. 2 * U32 - 1 : x % U32 = IF x < U32 THEN x ELSE x - U32
    BY <1>2, ModTwice, Zenon
  <2> QED BY <1>1, <1>2, <2>1, <2>2
<1>5. PICK d \in 0 .. a : pre = IF r.pre + d < U32 THEN r.pre + d ELSE r.pre + d - U32
  BY <1>1, <1>2, AlignBounds, Zenon DEF PreAligned
<1>6. PICK e \in 0 .. a : post = IF r.post + e < U32 THEN r.post + e ELSE r.post + e - U32
  <2>1. CASE r.post = 0
    <3>1. post = 0 /\ 0 \in 0 .. a
      BY <1>2, <2>1 DEF PostAligned
    <3> QED BY <1>2, <2>1, <3>1
  <2>2. CASE r.post # 0
    BY <1>1, <1>2, <2>2, AlignBounds, Zenon DEF PostAligned
  <2> QED BY <2>1, <2>2
<1> HIDE DEF a, pre, post, max
<1>7. pre + post < U32 => pre + post <= max + 2 * a
  BY <1>1, <1>2, <1>3, <1>4, <1>5, <1>6
<1> QED BY <1>7 DEF a, pre, post, max

(* The core never runs an acquisition of one shot that exceeds the memory  *)
(* of its channel by more than the rounding, unless the sum of its samples *)
(* needs more than 32 bits.                                                *)
THEOREM OversizeBounded == Spec => []OversizeIsRounding
<1>1. Init => OversizeIsRounding
  BY DEF Init, OversizeIsRounding
<1>2. ControlInv /\ OversizeIsRounding /\ [Next]_vars => OversizeIsRounding'
  <2> SUFFICES ASSUME ControlInv, OversizeIsRounding, [Next]_vars PROVE OversizeIsRounding'
    OBVIOUS
  <2>1. ASSUME NEW r \in Request, DataAcquire(r) PROVE OversizeIsRounding'
    <3> DEFINE pre == PreAligned(r.chan, r.pre)
               post == PostAligned(r.chan, r.post)
    <3>1. r.chan \in Chan
      BY <2>1 DEF DataAcquire, Accepts
    <3>2. curr_chan' = r.chan
      BY <2>1 DEF DataAcquire
    <3>3. params[r.chan] \in [pre : Nat, post : Nat, shots : Nat, trig : Int]
      BY <3>1 DEF ControlInv, ControlType
    <3>4. params' = [params EXCEPT ![r.chan].pre = pre, ![r.chan].post = post,
                                   ![r.chan].shots = r.shots]
      BY <2>1 DEF DataAcquire
    <3> HIDE DEF pre, post
    <3>5. params'[r.chan].pre = pre /\ params'[r.chan].post = post
          /\ params'[r.chan].shots = r.shots
      BY <3>1, <3>3, <3>4 DEF ControlInv, ControlType
    <3>6. r.shots = 1 /\ pre + post < U32 =>
              pre + post <= acq_buf[r.chan].max_samples + 2 * SamplesAlignment(r.chan)
      BY <2>1, AcceptedRounding DEF DataAcquire, pre, post
    <3> QED BY <3>2, <3>5, <3>6 DEF OversizeIsRounding
  <2>2. ASSUME UNCHANGED <<params, curr_chan, fsm>> PROVE OversizeIsRounding'
    BY <2>2 DEF OversizeIsRounding
  <2>3. ASSUME fsm' = "idle" PROVE OversizeIsRounding'
    BY <2>3 DEF OversizeIsRounding
  <2>4. ASSUME fsm # "idle", UNCHANGED <<params, curr_chan>> PROVE OversizeIsRounding'
    BY <2>4 DEF OversizeIsRounding
  <2>5. CASE \E c \in Client, r \in Request :
               FullAcqAccepted(c, r) \/ FullAcqRefused(c, r) \/ ReadCurve(c, r)
    BY <2>1, <2>2, <2>5 DEF FullAcqAccepted, FullAcqRefused, ReadCurve, serverVars, coreVars
  <2>6. CASE \E c \in Client : PollDone(c)
    BY <2>3, <2>6 DEF PollDone, CheckDataAcquire, CoreComplete, coreVars
  <2>7. CASE \E c \in Client : GiveUp(c) \/ CurveBlock(c) \/ CurveOutOfRange(c)
    BY <2>2, <2>7 DEF GiveUp, CurveBlock, CurveOutOfRange, serverVars, coreVars
  <2>8. CASE \E r \in Request : AcqStart(r)
    BY <2>1, <2>8 DEF AcqStart
  <2>9. CASE AcqCheck
    BY <2>3, <2>9 DEF AcqCheck, CheckDataAcquire, CoreComplete, coreVars
  <2>10. CASE \E t \in TriggerType : CfgTrigger(t)
    BY <2>2, <2>10 DEF CfgTrigger, serverVars
  <2>11. CASE SwTrig \/ FsmStop
    BY <2>2, <2>3, <2>11 DEF SwTrig, FsmStop, serverVars
  <2>12. CASE \E d \in 0 .. MaxDelay : CoreTriggered(d)
    BY <2>4, <2>12 DEF CoreTriggered, serverVars
  <2>13. CASE CoreDrained
    BY <2>3, <2>13 DEF CoreDrained
  <2>14. CASE UNCHANGED vars
    BY <2>2, <2>14 DEF vars
  <2> QED
    BY <2>5, <2>6, <2>7, <2>8, <2>9, <2>10, <2>11, <2>12, <2>13, <2>14 DEF Next
<1> QED BY <1>1, <1>2, ControlInvariance, PTL DEF Spec

------------------------------------------------------------------------------
(* A number below the modulus is its own remainder.                        *)
LEMMA SmallMod ==
    ASSUME NEW m \in Nat \ {0}, NEW x \in 0 .. m - 1
    PROVE  x % m = x
OBVIOUS

(* _acq_get_start_address, for a trigger inside a memory that the          *)
(* acquisition fits in: the address lies in the memory, and is the trigger *)
(* address less the size, or one turn around the memory further.           *)
THEOREM StartAddressWraps ==
    ASSUME NEW start \in Nat, NEW end \in Nat, start < end, end < U64,
           NEW trig \in start .. end - 1, NEW size \in 0 .. end - start
    PROVE  LET a == StartAddress(trig, size, start, end)
           IN  /\ a \in start .. end - 1
               /\ a = trig - size \/ a = trig - size + (end - start)
<1>1. U64 \in Nat \ {0}
  BY LayoutAssumption
<1>2. (trig - start) % U64 = trig - start
  BY <1>1, SmallMod
<1>3. CASE trig - start >= size
  <2>1. (trig - size) % U64 = trig - size
    BY <1>1, <1>3, SmallMod
  <2> QED BY <1>2, <1>3, <2>1 DEF StartAddress
<1>4. CASE ~ (trig - start >= size)
  <2>1. (end - (size - (trig - start))) % U64 = end - (size - (trig - start))
    BY <1>1, <1>4, SmallMod
  <2> QED BY <1>2, <1>4, <2>1 DEF StartAddress
<1> QED BY <1>3, <1>4

(* _acq_get_read_block_addr, for an offset of at most one turn: the        *)
(* address is the start plus the offset, less one turn if that is beyond   *)
(* the end; it is the end itself, one past the last byte of the memory,    *)
(* exactly when the offset reaches the end.                                *)
THEOREM ReadBlockAddrWraps ==
    ASSUME NEW start \in Nat, NEW end \in Nat, start < end, end < U64,
           NEW addr \in start .. end - 1, NEW offset \in 0 .. end - start
    PROVE  LET a == ReadBlockAddr(addr, offset, start, end)
           IN  /\ a \in start .. end
               /\ a = addr + offset \/ a = addr + offset - (end - start)
               /\ a = end <=> offset = end - addr
<1>1. U64 \in Nat \ {0}
  BY LayoutAssumption
<1>2. (end - addr) % U64 = end - addr
  BY <1>1, SmallMod
<1>3. CASE offset <= end - addr
  <2>1. (addr + offset) % U64 = addr + offset
    BY <1>1, <1>3, SmallMod
  <2> QED BY <1>2, <1>3, <2>1 DEF ReadBlockAddr
<1>4. CASE ~ (offset <= end - addr)
  <2>1. (start + (offset - (end - addr))) % U64 = start + (offset - (end - addr))
    BY <1>1, <1>4, SmallMod
  <2> QED BY <1>2, <1>4, <2>1 DEF ReadBlockAddr
<1> QED BY <1>3, <1>4

------------------------------------------------------------------------------
(* The blocks of an acquisition.                                           *)

(* Samples and blocks: of m samples in blocks of b the last block that     *)
(* holds any has number v, and every block up to v ends within them.       *)
LEMMA BlockSamples ==
    ASSUME NEW m \in Nat \ {0}, NEW b \in Nat \ {0}, NEW v \in Nat, NEW n \in Nat,
           v = IF m \div b # 0 /\ m % b = 0 THEN (m \div b) - 1 ELSE m \div b,
           n <= v
    PROVE  /\ n = v /\ m % b > 0 => n * b + (m % b) = m
           /\ ~ (n = v /\ m % b > 0) => n * b + b <= m
           /\ \A l \in Nat : l < m => l \div b <= v
<1>1. PICK q \in Nat, o \in 0 .. b - 1 : m \div b = q /\ m % b = o /\ m = q * b + o
  BY SMTT(30)
<1>2. CASE o > 0
  <2>1. v = q
    BY <1>1, <1>2
  <2>2. n # v => n * b + b <= m
    <3>1. ASSUME n # v PROVE n + 1 <= q
      BY <2>1, <3>1
    <3>2. ASSUME n + 1 <= q PROVE (n + 1) * b <= q * b
      BY <3>2
    <3> QED BY <1>1, <3>1, <3>2
  <2>3. ASSUME NEW l \in Nat, l < m PROVE l \div b <= q
    <3>1. PICK x \in Nat, y \in 0 .. b - 1 : l \div b = x /\ l = x * b + y
      BY SMTT(30)
    <3>2. ASSUME x >= q + 1 PROVE FALSE
      <4>1. x * b >= (q + 1) * b
        BY <3>2
      <4> QED BY <1>1, <2>3, <3>1, <4>1
    <3> QED BY <3>1, <3>2
  <2> QED BY <1>1, <1>2, <2>1, <2>2, <2>3
<1>3. CASE o = 0
  <2>1. q # 0 /\ v = q - 1
    BY <1>1, <1>3
  <2>2. n * b + b <= m
    <3>1. (n + 1) * b <= q * b
      BY <2>1
    <3> QED BY <1>1, <1>3, <3>1
  <2>3. ASSUME NEW l \in Nat, l < m PROVE l \div b <= q - 1
    <3>1. PICK x \in Nat, y \in 0 .. b - 1 : l \div b = x /\ l = x * b + y
      BY SMTT(30)
    <3>2. ASSUME x >= q PROVE FALSE
      <4>1. x * b >= q * b
        BY <3>2
      <4> QED BY <1>1, <1>3, <2>3, <3>1, <4>1
    <3> QED BY <2>1, <3>1, <3>2
  <2> QED BY <1>1, <1>3, <2>1, <2>2, <2>3
<1> QED BY <1>1, <1>2, <1>3


(* The memory of a channel in numbers.                                     *)
LEMMA Layout ==
    ASSUME NEW ch \in Chan
    PROVE  /\ acq_buf[ch].sample_size \in Nat \ {0} /\ acq_buf[ch].start_addr \in Nat
           /\ EndMem(ch) \in Nat /\ RegionSize(ch) \in Nat \ {0}
           /\ EndMem(ch) = acq_buf[ch].start_addr + RegionSize(ch)
           /\ EndMem(ch) + 2 * PayloadSize < U32 /\ EndMem(ch) < U64 /\ EndMem(ch) % U32 = EndMem(ch)
           /\ PerBlock(ch) \in Nat \ {0} /\ BlockSize = PerBlock(ch) * acq_buf[ch].sample_size
           /\ SamplesAlignment(ch) * acq_buf[ch].sample_size = PayloadSize
           /\ acq_buf[ch].max_samples \in Nat
           /\ acq_buf[ch].max_samples * acq_buf[ch].sample_size
                = RegionSize(ch) - acq_buf[ch].sample_size
<1> DEFINE ss == acq_buf[ch].sample_size
           start == acq_buf[ch].start_addr
           last == acq_buf[ch].end_addr
           max == acq_buf[ch].max_samples
<1>1. /\ ss \in Nat \ {0} /\ start \in Nat /\ last \in Nat /\ start < last
      /\ max = (last - start) \div ss
  BY LayoutAssumption, SMTT(30)
<1>2. /\ PayloadSize % ss = 0 /\ BlockSize % ss = 0 /\ (last + ss - start) % PayloadSize = 0
      /\ last + ss + 2 * PayloadSize < U32
  BY LayoutAssumption, SMTT(30) DEF RegionSize, EndMem
<1>3. /\ PayloadSize \in Nat \ {0} /\ BlockSize \in Nat \ {0} /\ U32 \in Nat \ {0}
      /\ U64 \in Nat \ {0} /\ U32 <= U64
  BY LayoutAssumption
<1> HIDE DEF ss, start, last, max
<1>4. ASSUME NEW x \in Nat \ {0}, NEW y \in Nat \ {0}, x % y = 0
      PROVE  x \div y \in Nat \ {0} /\ x = (x \div y) * y
  BY <1>4, SMTT(30)
<1>5. PayloadSize = (PayloadSize \div ss) * ss
  BY <1>1, <1>2, <1>3, <1>4
<1>6. BlockSize \div ss \in Nat \ {0} /\ BlockSize = (BlockSize \div ss) * ss
  BY <1>1, <1>2, <1>3, <1>4
<1>7. PICK z \in Nat \ {0} : last + ss - start = z * PayloadSize
  <2>1. PICK x \in Nat \ {0} : x = last + ss - start
    BY <1>1
  <2>2. x \div PayloadSize \in Nat \ {0} /\ x = (x \div PayloadSize) * PayloadSize
    BY <1>2, <1>3, <1>4, <2>1, SMTT(30)
  <2> QED BY <2>1, <2>2
<1>8. PICK y \in Nat \ {0} : PayloadSize = y * ss
  BY <1>1, <1>2, <1>3, <1>4
<1>9. max \in Nat /\ max * ss = last - start
  <2>1. last + ss - start = (z * y) * ss
    BY <1>1, <1>7, <1>8
  <2>2. PICK w \in Nat \ {0} : w = z * y
    OBVIOUS
  <2>3. last - start = (w - 1) * ss
    BY <1>1, <2>1, <2>2
  <2>4. ASSUME NEW i \in Nat, NEW j \in Nat \ {0} PROVE (i * j) \div j = i
    BY SMTT(30)
  <2>5. max = w - 1
    BY <1>1, <2>3, <2>4
  <2> QED BY <2>2, <2>3, <2>5
<1>10. EndMem(ch) = last + ss /\ RegionSize(ch) = last + ss - start
  BY <1>1 DEF EndMem, RegionSize, last, ss, start
<1>11. (last + ss) % U32 = last + ss
  BY <1>1, <1>2, <1>3
<1>12. /\ EndMem(ch) \in Nat /\ RegionSize(ch) \in Nat \ {0} /\ EndMem(ch) = start + RegionSize(ch)
       /\ EndMem(ch) + 2 * PayloadSize < U32 /\ EndMem(ch) < U64
       /\ max * ss = RegionSize(ch) - ss
  BY <1>1, <1>2, <1>3, <1>9, <1>10
<1>13. EndMem(ch) % U32 = EndMem(ch)
  BY <1>10, <1>11
<1>14. PerBlock(ch) = BlockSize \div ss /\ SamplesAlignment(ch) = PayloadSize \div ss
  BY Zenon DEF PerBlock, SamplesAlignment, ss
<1> QED BY <1>1, <1>5, <1>6, <1>9, <1>12, <1>13, <1>14, Zenon DEF ss, start, max

(* All samples of an acquisition with parameters p.                        *)
Samples(p) == (p.pre + p.post) * p.shots

(* Bytes from its first sample to its last trigger, without the wrap.      *)
PreBytes(p, ch) == ((p.pre + p.post) * (p.shots - 1) + p.pre) * acq_buf[ch].sample_size

(* The numbers of _acq_get_data_block do not wrap for an acquisition that  *)
(* fits in its memory, and the blocks it hands out end within the samples. *)
LEMMA BlockNumbers ==
    ASSUME NEW ch \in Chan, NEW p, p.pre \in Nat, p.post \in Nat, p.shots \in Nat \ {0},
           Fits(p, ch), NEW n \in Nat, n <= BlockValid(p, ch), Samples(p) # 0
    PROVE  /\ AcqSizeBytes(p, ch) = PreBytes(p, ch)
           /\ PreBytes(p, ch) \in 0 .. RegionSize(ch)
           /\ (n * BlockSize) % U32 = n * BlockSize /\ n * BlockSize \in Nat
           /\ ReplySize(p, ch, n) \in 1 .. BlockSize
           /\ n * BlockSize + ReplySize(p, ch, n) <= Samples(p) * acq_buf[ch].sample_size
           /\ n # BlockValid(p, ch) => ReplySize(p, ch, n) = BlockSize
           /\ Samples(p) * acq_buf[ch].sample_size <= RegionSize(ch)
<1> DEFINE b == PerBlock(ch)
<1>1. PICK s \in Nat \ {0} : s = acq_buf[ch].sample_size
  BY Layout
<1>2. PICK R \in Nat \ {0} : R = RegionSize(ch) /\ R < U32
  BY Layout, LayoutAssumption
<1>3. PICK e \in Nat, h \in Nat \ {0}, f \in Nat : e = p.pre /\ f = p.post /\ h = p.shots
  OBVIOUS
<1>4. PICK m \in Nat : m = (e + f) * h
  OBVIOUS
<1>5. Samples(p) = m /\ m # 0
  BY <1>3, <1>4 DEF Samples
<1>6. m * s <= R
  BY <1>1, <1>2, <1>3, <1>4 DEF Fits
<1>7. m < U32 /\ e + f <= m /\ U32 \in Nat \ {0}
  <2>1. m <= m * s
    OBVIOUS
  <2>2. e + f <= m
    BY <1>4
  <2> QED BY <1>2, <1>6, <2>1, <2>2, LayoutAssumption
<1>8. PerShot(p) = e + f /\ MultiShot(p) = m
  <2>1. (e + f) % U32 = e + f
    BY <1>7
  <2>2. m % U32 = m
    BY <1>7
  <2>3. PerShot(p) = e + f
    BY <1>3, <2>1 DEF PerShot
  <2> QED BY <1>3, <1>4, <2>2, <2>3 DEF MultiShot
<1>9. PICK k \in Nat : k = (e + f) * (h - 1) + e /\ k <= m
  <2>1. (e + f) * h = (e + f) * (h - 1) + (e + f)
    OBVIOUS
  <2>2. (e + f) * (h - 1) \in Nat
    OBVIOUS
  <2> QED BY <1>4, <2>1, <2>2
<1>10. k * s <= m * s /\ k * s \in Nat
  BY <1>9
<1>11. PreBytes(p, ch) = k * s /\ AcqSizeBytes(p, ch) = k * s
  <2>1. (k * s) % U32 = k * s
    <3>1. PICK x \in Nat : x = k * s
      OBVIOUS
    <3>2. PICK y \in Nat : y = m * s
      OBVIOUS
    <3>3. x < U32
      BY <1>2, <1>6, <1>7, <1>10, <3>1, <3>2
    <3>4. x % U32 = x
      BY <1>7, <3>3
    <3> QED BY <3>1, <3>4
  <2> QED BY <1>1, <1>3, <1>8, <1>9, <2>1 DEF PreBytes, AcqSizeBytes
<1>12. b \in Nat \ {0} /\ BlockSize = b * s /\ BlockSize \in Nat \ {0} /\ BlockSize < U32
  BY <1>1, Layout, LayoutAssumption
<1>13. PICK v \in Nat : v = BlockValid(p, ch)
  <2>1. m \div b \in Nat
    BY <1>12
  <2> QED BY <1>8, <2>1 DEF BlockValid, OverSamples
<1>14. v = IF m \div b # 0 /\ m % b = 0 THEN (m \div b) - 1 ELSE m \div b
  BY <1>8, <1>13 DEF BlockValid, OverSamples
<1>15. PICK o \in 0 .. b - 1 : o = m % b /\ OverSamples(p, ch) = o
  BY <1>8, <1>12 DEF OverSamples
<1>16. PICK c \in 1 .. b : c = (IF n = v /\ o > 0 THEN o ELSE b)
  BY <1>12, <1>15
<1>17. n * b + c <= m
  <2>1. n <= v
    BY <1>13
  <2>2. /\ n = v /\ m % b > 0 => n * b + (m % b) = m
        /\ ~ (n = v /\ m % b > 0) => n * b + b <= m
    BY <1>5, <1>12, <1>14, <2>1, BlockSamples
  <2>3. PICK x \in Nat : x = n * b
    BY <1>12
  <2> QED BY <1>12, <1>15, <1>16, <2>2, <2>3
<1>18. ReplySize(p, ch, n) = c * s
  <2>1. o * s < U32 /\ o * s \in Nat
    <3>1. o * s <= b * s
      BY <1>12
    <3> QED BY <1>7, <1>12, <3>1
  <2>2. (o * s) % U32 = o * s
    <3>1. PICK x \in Nat : x = o * s
      BY <2>1
    <3> QED BY <1>7, <2>1, <3>1
  <2> QED BY <1>1, <1>12, <1>13, <1>15, <1>16, <2>2 DEF ReplySize
<1>19. c * s \in 1 .. BlockSize
  BY <1>12
<1>20. n * BlockSize + c * s <= m * s
  <2>1. n * BlockSize = (n * b) * s
    BY <1>12
  <2>2. PICK x \in Nat : x = n * b
    BY <1>12
  <2>3. (x + c) * s <= m * s
    BY <1>17, <2>2
  <2> QED BY <2>1, <2>2, <2>3
<1>21. PICK x \in Nat : x = n * BlockSize
  BY <1>12
<1>22. x % U32 = x
  <2>1. PICK y \in Nat : y = m * s
    OBVIOUS
  <2>2. PICK z \in 1 .. BlockSize : z = c * s
    BY <1>19
  <2>3. x < U32
    BY <1>2, <1>6, <1>7, <1>12, <1>20, <1>21, <2>1, <2>2
  <2> QED BY <1>7, <2>3
<1>23. n # v => c * s = BlockSize
  BY <1>12, <1>16
<1> HIDE DEF b
<1> QED BY <1>1, <1>2, <1>5, <1>6, <1>10, <1>11, <1>13, <1>18, <1>19, <1>20, <1>21, <1>22, <1>23

(* Address of the first byte of an acquisition.                            *)
FirstAddr(p, ch) ==
    StartAddress(p.trig, AcqSizeBytes(p, ch), acq_buf[ch].start_addr, EndMem(ch))

(* Where a block is read: the first byte lies in the memory, and the block *)
(* at its offset from there, a turn back when that is past the end.        *)
LEMMA BlockPlace ==
    ASSUME NEW ch \in Chan, NEW p, p.pre \in Nat, p.post \in Nat, p.shots \in Nat \ {0},
           Fits(p, ch), NEW n \in Nat, n <= BlockValid(p, ch), Samples(p) # 0,
           p.trig \in RegionOf(ch)
    PROVE  /\ FirstAddr(p, ch) \in RegionOf(ch)
           /\ \/ FirstAddr(p, ch) = p.trig - PreBytes(p, ch)
              \/ FirstAddr(p, ch) = p.trig - PreBytes(p, ch) + RegionSize(ch)
           /\ BlockAddr(p, ch, n) \in acq_buf[ch].start_addr .. EndMem(ch)
           /\ BlockAddr(p, ch, n) = IF FirstAddr(p, ch) + n * BlockSize <= EndMem(ch)
                                    THEN FirstAddr(p, ch) + n * BlockSize
                                    ELSE FirstAddr(p, ch) + n * BlockSize - RegionSize(ch)
<1>1. PICK start \in Nat, end \in Nat, R \in Nat \ {0} :
         /\ start = acq_buf[ch].start_addr /\ end = EndMem(ch) /\ R = RegionSize(ch)
         /\ end = start + R /\ end < U64 /\ end % U32 = end
  BY Layout
<1>2. PICK size \in 0 .. R : size = PreBytes(p, ch) /\ size = AcqSizeBytes(p, ch)
  BY <1>1, BlockNumbers
<1>3. PICK off \in 0 .. R : off = n * BlockSize /\ (n * BlockSize) % U32 = off
  <2>1. PICK x \in Nat : x = n * BlockSize /\ (n * BlockSize) % U32 = x
    BY BlockNumbers
  <2>2. PICK y \in Nat : y = ReplySize(p, ch, n)
    BY BlockNumbers, LayoutAssumption
  <2>3. x + y <= Samples(p) * acq_buf[ch].sample_size /\ Samples(p) * acq_buf[ch].sample_size <= R
    BY <1>1, <2>1, <2>2, BlockNumbers
  <2>4. Samples(p) * acq_buf[ch].sample_size \in Nat
    <3>1. Samples(p) \in Nat
      BY DEF Samples
    <3> QED BY <3>1, Layout
  <2>5. x <= R
    BY <2>3, <2>4
  <2> QED BY <2>1, <2>5
<1>4. PICK trig \in start .. end - 1 : trig = p.trig
  BY <1>1 DEF RegionOf
<1>5. PICK A \in start .. end - 1 : /\ A = StartAddress(trig, size, start, end)
                                    /\ A = trig - size \/ A = trig - size + R
  <2>1. start < end /\ size \in 0 .. end - start /\ end - start = R
    BY <1>1
  <2>2. /\ StartAddress(trig, size, start, end) \in start .. end - 1
        /\ \/ StartAddress(trig, size, start, end) = trig - size
           \/ StartAddress(trig, size, start, end) = trig - size + (end - start)
    <3>1. end < U64 /\ size \in 0 .. end - start /\ start < end
      BY <1>1, <2>1
    <3> QED BY <3>1, StartAddressWraps
  <2> QED BY <2>1, <2>2, Zenon
<1>6. PICK a \in start .. end : /\ a = ReadBlockAddr(A, off, start, end)
                                /\ a = A + off \/ a = A + off - R
                                /\ a = end <=> off = end - A
  <2>1. start < end /\ off \in 0 .. end - start /\ end - start = R
    BY <1>1
  <2>2. /\ ReadBlockAddr(A, off, start, end) \in start .. end
        /\ \/ ReadBlockAddr(A, off, start, end) = A + off
           \/ ReadBlockAddr(A, off, start, end) = A + off - (end - start)
        /\ ReadBlockAddr(A, off, start, end) = end <=> off = end - A
    <3>1. end < U64 /\ off \in 0 .. end - start /\ start < end
      BY <1>1, <2>1
    <3> QED BY <3>1, ReadBlockAddrWraps
  <2> QED BY <2>1, <2>2, Zenon
<1>7. a = IF A + off <= end THEN A + off ELSE A + off - R
  BY <1>1, <1>6
<1>8. FirstAddr(p, ch) = A
  BY <1>1, <1>2, <1>4, <1>5 DEF FirstAddr
<1>9. BlockAddr(p, ch, n) = a
  BY <1>1, <1>2, <1>3, <1>4, <1>5, <1>6 DEF BlockAddr
<1> QED BY <1>1, <1>2, <1>3, <1>4, <1>5, <1>7, <1>8, <1>9 DEF RegionOf

------------------------------------------------------------------------------
(* What the core leaves in the memory.                                     *)

(* Of the bytes acquired as number id, those before and after the trigger  *)
(* address trig are in the memory of channel ch, in their order.           *)
Holds(id, trig, pre, bytes, ch) ==
    \A a \in RegionOf(ch) :
        LET x == (a - trig + pre) % RegionSize(ch)
        IN  x < bytes => mem[a] = <<id, x>>

(* A completed acquisition that fits is in the memory of its channel.      *)
CoreInv ==
    /\ \A ch \in Chan : params[ch].shots # 0
    /\ done => fsm = "idle" /\ acqs > 0
    /\ acqs > 0 => /\ reg.start = acq_buf[curr_chan].start_addr
                   /\ reg.end = acq_buf[curr_chan].end_addr
    /\ fsm = "drain" \/ done => trigPos \in RegionOf(curr_chan)
    /\ done /\ CoreBytes <= RegionSize(curr_chan) =>
          Holds(acqs, trigPos, CorePreBytes, CoreBytes, curr_chan)

(* The core knows the memory of the channel it acquires for.               *)
LEMMA CoreKnowsRegion ==
    ASSUME ControlInv, CoreInv, acqs > 0
    PROVE  /\ CoreRegion = RegionSize(curr_chan) /\ reg.chan = curr_chan
           /\ reg.start = acq_buf[curr_chan].start_addr
           /\ CoreBytes \in Int /\ CorePreBytes \in Int
<1>1. curr_chan \in Chan /\ reg.chan = curr_chan
  BY DEF ControlInv, ControlType, CoreMatchesParams
<1>2. /\ reg.start = acq_buf[curr_chan].start_addr /\ reg.end = acq_buf[curr_chan].end_addr
  BY DEF CoreInv
<1>3. reg.pre \in Nat /\ reg.post \in Nat /\ reg.shots \in Nat
  BY DEF ControlInv, ControlType
<1>4. SampleSize \in Nat
  BY <1>1, Layout DEF SampleSize
<1>5. CoreRegion = RegionSize(curr_chan)
  <2>1. acq_buf[curr_chan].end_addr \in Nat /\ acq_buf[curr_chan].start_addr \in Nat
    BY <1>1, LayoutAssumption
  <2> QED BY <1>1, <1>2, <1>4, <2>1 DEF CoreRegion, SampleSize, RegionSize, EndMem
<1> QED BY <1>1, <1>2, <1>3, <1>4, <1>5 DEF CoreBytes, CorePreBytes

(* A step that leaves the core's state alone keeps it.                     *)
LEMMA CoreFrame ==
    ASSUME CoreInv, UNCHANGED <<curr_chan, fsm, done, trigPos, mem, acqs>>,
           \A ch \in Chan : params'[ch].shots = params[ch].shots,
           reg'.start = reg.start, reg'.end = reg.end, reg'.chan = reg.chan,
           reg'.pre = reg.pre, reg'.post = reg.post, reg'.shots = reg.shots
    PROVE  CoreInv'
<1>1. CoreBytes' = CoreBytes /\ CorePreBytes' = CorePreBytes
  BY Zenon DEF CoreBytes, CorePreBytes, SampleSize
<1>2. ASSUME Holds(acqs, trigPos, CorePreBytes, CoreBytes, curr_chan)
      PROVE  Holds(acqs, trigPos, CorePreBytes, CoreBytes, curr_chan)'
  BY <1>1, <1>2, Zenon DEF Holds
<1> QED BY <1>1, <1>2, Zenon DEF CoreInv

(* All samples are in the memory when the FIFOs are empty.                 *)
LEMMA DrainStep ==
    ASSUME ControlInv, CoreInv, CoreDrained
    PROVE  CoreInv'
<1>1. acqs > 0 /\ fsm = "drain" /\ trigPos \in RegionOf(curr_chan)
  BY DEF CoreDrained, ControlInv, CoreInv
<1>2. /\ UNCHANGED <<params, curr_chan, reg, trigPos, acqs>> /\ fsm' = "idle"
      /\ mem' = [a \in Addr |-> IF a \in RegionOf(reg.chan) THEN WrittenAt(a) ELSE mem[a]]
  BY Zenon DEF CoreDrained, serverVars
<1>3. CoreBytes' = CoreBytes /\ CorePreBytes' = CorePreBytes
  BY <1>2, Zenon DEF CoreBytes, CorePreBytes, SampleSize
<1>4. curr_chan \in Chan
  BY DEF ControlInv, ControlType
<1>5. ASSUME CoreBytes <= RegionSize(curr_chan), NEW a \in RegionOf(curr_chan),
             (a - trigPos + CorePreBytes) % RegionSize(curr_chan) < CoreBytes
      PROVE  mem'[a] = <<acqs, (a - trigPos + CorePreBytes) % RegionSize(curr_chan)>>
  <2>1. PICK R \in Nat \ {0} : R = RegionSize(curr_chan)
    BY <1>4, Layout
  <2>2. PICK b \in Int : b = CoreBytes
    BY <1>1, CoreKnowsRegion
  <2>3. PICK y \in Int : y = a - trigPos + CorePreBytes
    BY <1>1, <1>4, CoreKnowsRegion, Layout DEF RegionOf
  <2>4. PICK x \in 0 .. R - 1 : x = y % R
    BY <2>1
  <2>5. x < b /\ b <= R
    BY <1>5, <2>1, <2>2, <2>3, <2>4
  <2>6. (b - 1 - x) \div R = 0
    <3>1. b - 1 - x \in 0 .. R - 1
      BY <2>5
    <3> QED BY <3>1
  <2>7. x + R * ((b - 1 - x) \div R) = x
    BY <2>6
  <2>8. WrittenAt(a) = <<acqs, x>>
    <3>1. (a - trigPos + CorePreBytes) % CoreRegion = x /\ CoreRegion = R
      BY <1>1, <2>1, <2>3, <2>4, CoreKnowsRegion, Zenon
    <3>2. ~ (x >= b)
      BY <2>5
    <3> QED BY <2>2, <2>7, <3>1, <3>2, Zenon DEF WrittenAt
  <2>9. a \in Addr
    BY <1>4, Layout, MemoryAssumption DEF RegionOf, Addr
  <2>10. reg.chan = curr_chan
    BY <1>1, CoreKnowsRegion
  <2> QED BY <1>2, <2>1, <2>3, <2>4, <2>8, <2>9, <2>10, Zenon
<1>6. CoreBytes' <= RegionSize(curr_chan)' =>
          Holds(acqs, trigPos, CorePreBytes, CoreBytes, curr_chan)'
  BY <1>2, <1>3, <1>5, Zenon DEF Holds
<1> QED BY <1>1, <1>2, <1>6, Zenon DEF CoreInv

(* The trigger address that the core reports lies in the memory.           *)
LEMMA TriggerStep ==
    ASSUME ControlInv, CoreInv, NEW d \in 0 .. MaxDelay, CoreTriggered(d)
    PROVE  CoreInv'
<1>1. acqs > 0 /\ fsm = "acq" /\ ~ done
  BY DEF CoreTriggered, ControlInv, CoreInv
<1>2. /\ UNCHANGED <<params, curr_chan, reg, done, mem, acqs>> /\ fsm' = "drain"
      /\ trigPos' = reg.start + ((d * PayloadSize + CorePreBytes) % CoreRegion)
  BY DEF CoreTriggered, serverVars
<1>3. curr_chan \in Chan
  BY DEF ControlInv, ControlType
<1>4. PICK y \in Int : y = d * PayloadSize + CorePreBytes
  BY <1>1, CoreKnowsRegion, LayoutAssumption
<1>5. PICK R \in Nat \ {0} : R = CoreRegion /\ R = RegionSize(curr_chan)
  BY <1>1, <1>3, CoreKnowsRegion, Layout
<1>6. y % R \in 0 .. R - 1
  OBVIOUS
<1>7. trigPos' \in RegionOf(curr_chan)
  BY <1>1, <1>2, <1>3, <1>4, <1>5, <1>6, CoreKnowsRegion, Layout DEF RegionOf
<1> QED BY <1>1, <1>2, <1>7, Zenon DEF CoreInv

(* A started acquisition has nothing in the memory yet.                    *)
LEMMA StartStep ==
    ASSUME ControlInv, CoreInv, NEW r \in Request, DataAcquire(r)
    PROVE  CoreInv'
<1>1. r.chan \in Chan /\ r.shots # 0
  <2>1. r.shots >= 1 /\ r.shots \in Nat
    BY RequestAssumption, LayoutAssumption DEF DataAcquire, Accepts
  <2> QED BY <2>1 DEF DataAcquire, Accepts
<1>2. fsm' = "acq" /\ ~ done' /\ curr_chan' = r.chan
  BY DEF DataAcquire, CoreStart
<1>3. reg'.start = acq_buf[r.chan].start_addr /\ reg'.end = acq_buf[r.chan].end_addr
  BY Zenon DEF DataAcquire, ControlInv, ControlType
<1>4. ASSUME NEW ch \in Chan PROVE params'[ch].shots # 0
  <2>1. params[ch] \in [pre : Nat, post : Nat, shots : Nat, trig : Int] /\ params[ch].shots # 0
    BY DEF ControlInv, ControlType, CoreInv
  <2>2. ch # r.chan => params'[ch] = params[ch]
    BY <1>1, Zenon DEF DataAcquire, ControlInv, ControlType
  <2>3. ch = r.chan => params'[ch].shots = r.shots
    BY <2>1, Zenon DEF DataAcquire, ControlInv, ControlType
  <2> QED BY <1>1, <2>1, <2>2, <2>3, Zenon
<1> QED BY <1>2, <1>3, <1>4, Zenon DEF CoreInv

(* A recorded trigger address changes nothing else.                        *)
LEMMA CheckKeeps ==
    ASSUME ControlInv, CheckDataAcquire, NEW ch \in Chan
    PROVE  /\ params'[ch].pre = params[ch].pre /\ params'[ch].post = params[ch].post
           /\ params'[ch].shots = params[ch].shots
           /\ params'[ch].trig = IF ch = curr_chan THEN trigPos ELSE params[ch].trig
<1>1. params' = [params EXCEPT ![curr_chan].trig = trigPos]
  BY DEF CheckDataAcquire
<1>2. params \in [Chan -> [pre : Nat, post : Nat, shots : Nat, trig : Int]]
  BY DEF ControlInv, ControlType
<1> QED BY <1>1, <1>2

(* The invariant of the memory holds in every behaviour.                   *)
THEOREM CoreInvariance == Spec => []CoreInv
<1>1. Init => CoreInv
  <2> SUFFICES ASSUME Init PROVE CoreInv
    OBVIOUS
  <2>1. acqs = 0 /\ fsm = "idle" /\ ~ done /\ \A ch \in Chan : params[ch].shots = 1
    BY DEF Init
  <2> QED BY <2>1 DEF CoreInv
<1>2. ControlInv /\ CoreInv /\ [Next]_vars => CoreInv'
  <2> SUFFICES ASSUME ControlInv, CoreInv, [Next]_vars PROVE CoreInv'
    OBVIOUS
  <2>1. CASE \E c \in Client, r \in Request : FullAcqAccepted(c, r)
    BY <2>1, StartStep, Zenon DEF FullAcqAccepted
  <2>2. CASE \E c \in Client, r \in Request : FullAcqRefused(c, r) \/ ReadCurve(c, r)
    BY <2>2, CoreFrame, Zenon DEF FullAcqRefused, ReadCurve, serverVars, coreVars
  <2>3. CASE \E c \in Client : PollDone(c)
    <3>1. CheckDataAcquire /\ UNCHANGED <<curr_chan, reg, fsm, done, trigPos, mem, acqs>>
      BY <2>3, Zenon DEF PollDone, coreVars
    <3> QED BY <3>1, CheckKeeps, CoreFrame, Zenon
  <2>4. CASE \E c \in Client : GiveUp(c) \/ CurveBlock(c) \/ CurveOutOfRange(c)
    BY <2>4, CoreFrame, Zenon DEF GiveUp, CurveBlock, CurveOutOfRange, serverVars, coreVars
  <2>5. CASE \E r \in Request : AcqStart(r)
    BY <2>5, StartStep, Zenon DEF AcqStart
  <2>6. CASE AcqCheck
    <3>1. CheckDataAcquire /\ UNCHANGED <<curr_chan, reg, fsm, done, trigPos, mem, acqs>>
      BY <2>6, Zenon DEF AcqCheck, coreVars
    <3> QED BY <3>1, CheckKeeps, CoreFrame, Zenon
  <2>7. CASE \E t \in TriggerType : CfgTrigger(t)
    <3>1. PICK t \in TriggerType : CfgTrigger(t)
      BY <2>7
    <3>2. UNCHANGED <<params, curr_chan, fsm, done, trigPos, mem, acqs>> /\ reg' = TriggerRegs(t)
      BY <3>1, Zenon DEF CfgTrigger, serverVars
    <3>3. /\ reg'.start = reg.start /\ reg'.end = reg.end /\ reg'.chan = reg.chan
          /\ reg'.pre = reg.pre /\ reg'.post = reg.post /\ reg'.shots = reg.shots
      BY <3>2, Zenon DEF TriggerRegs, ControlInv, ControlType
    <3> QED BY <3>2, <3>3, CoreFrame, Zenon
  <2>8. CASE SwTrig
    BY <2>8, CoreFrame, Zenon DEF SwTrig, serverVars
  <2>9. CASE FsmStop
    <3>1. UNCHANGED <<params, curr_chan, reg, done, acqs>> /\ fsm = "acq" /\ fsm' = "idle"
      BY <2>9 DEF FsmStop, serverVars
    <3> QED BY <3>1 DEF CoreInv
  <2>10. CASE \E d \in 0 .. MaxDelay : CoreTriggered(d)
    BY <2>10, TriggerStep, Zenon
  <2>11. CASE CoreDrained
    BY <2>11, DrainStep, Zenon
  <2>12. CASE UNCHANGED vars
    BY <2>12, CoreFrame, Zenon DEF vars
  <2> QED
    BY <2>1, <2>2, <2>3, <2>4, <2>5, <2>6, <2>7, <2>8, <2>9, <2>10, <2>11, <2>12 DEF Next
<1> QED BY <1>1, <1>2, ControlInvariance, PTL DEF Spec

(* Of one curve at most one block is read past the end of the memory, for  *)
(* every layout of the memory, every request and every trigger address.    *)
THEOREM OnePastEnd == Spec => []OneBlockPastEnd
<1>1. ControlInv /\ CoreInv => OneBlockPastEnd
  <2> SUFFICES ASSUME ControlInv, CoreInv, NEW ch \in Chan, NEW n \in 0 .. BlockMax(ch),
                      NEW m \in 0 .. BlockMax(ch), done, ch = curr_chan,
                      params[ch].trig = trigPos, Fits(params[ch], ch),
                      BlockInRange(params[ch], ch, n), BlockInRange(params[ch], ch, m),
                      PastEnd(params[ch], ch, n), PastEnd(params[ch], ch, m)
               PROVE  n = m
    BY DEF OneBlockPastEnd
  <2>1. PICK p : p = params[ch]
    OBVIOUS
  <2>2. /\ p.pre \in Nat /\ p.post \in Nat /\ p.shots \in Nat \ {0} /\ p.trig \in RegionOf(ch)
        /\ Fits(p, ch) /\ n \in Nat /\ m \in Nat
        /\ n <= BlockValid(p, ch) /\ m <= BlockValid(p, ch)
    BY <2>1 DEF ControlInv, ControlType, CoreInv, BlockInRange
  <2>3. CASE Samples(p) = 0
    <3>1. BlockValid(p, ch) = 0
      <4>1. PICK x \in Nat : x = (p.pre + p.post) * p.shots /\ x = 0
        BY <2>2, <2>3 DEF Samples
      <4>2. p.pre + p.post = 0
        BY <2>2, <4>1
      <4>3. PerShot(p) = 0
        BY <4>2, LayoutAssumption DEF PerShot
      <4>4. MultiShot(p) = 0
        BY <2>2, <4>3, LayoutAssumption DEF MultiShot
      <4>5. PerBlock(ch) \in Nat \ {0}
        BY Layout
      <4>6. 0 \div PerBlock(ch) = 0
        BY <4>5
      <4> QED BY <4>4, <4>6 DEF BlockValid
    <3> QED BY <2>2, <3>1
  <2>4. CASE Samples(p) # 0
    <3>1. PICK A \in Int, end \in Nat, R \in Nat :
             /\ A = FirstAddr(p, ch) /\ end = EndMem(ch) /\ R = RegionSize(ch)
             /\ A + R >= end /\ A < end
      BY <2>2, <2>4, BlockPlace, Layout DEF RegionOf
    <3>2. ASSUME NEW i \in Nat, i <= BlockValid(p, ch), PastEnd(p, ch, i)
          PROVE  A + i * BlockSize <= end /\ A + i * BlockSize + BlockSize > end
      <4>1. PICK a \in Int : a = BlockAddr(p, ch, i)
        BY <2>2, <2>4, <3>2, BlockPlace, Layout
      <4>2. PICK x \in Nat : x = i * BlockSize
        BY LayoutAssumption
      <4>3. PICK y \in 1 .. BlockSize : y = ReplySize(p, ch, i)
        BY <2>2, <2>4, <3>2, BlockNumbers
      <4>4. x + y <= R
        <5>1. PICK z \in Nat : z = Samples(p) * acq_buf[ch].sample_size
          <6>1. Samples(p) \in Nat
            BY <2>2 DEF Samples
          <6> QED BY <6>1, Layout
        <5>2. x + y <= z /\ z <= R
          BY <2>2, <2>4, <3>1, <3>2, <4>2, <4>3, <5>1, BlockNumbers
        <5> QED BY <5>2, LayoutAssumption
      <4>5. a = IF A + x <= end THEN A + x ELSE A + x - R
        BY <2>2, <2>4, <3>1, <3>2, <4>1, <4>2, BlockPlace
      <4>6. a + y > end
        BY <3>1, <3>2, <4>1, <4>3 DEF PastEnd
      <4> QED BY <3>1, <4>2, <4>3, <4>4, <4>5, <4>6, LayoutAssumption
    <3>3. /\ A + n * BlockSize <= end /\ A + n * BlockSize + BlockSize > end
          /\ A + m * BlockSize <= end /\ A + m * BlockSize + BlockSize > end
      BY <2>1, <2>2, <3>2
    <3>4. ASSUME NEW i \in Nat, NEW j \in Nat, i < j
          PROVE  i * BlockSize + BlockSize <= j * BlockSize
      <4>1. (i + 1) * BlockSize <= j * BlockSize
        BY <3>4, LayoutAssumption
      <4> QED BY <4>1, LayoutAssumption
    <3>5. n * BlockSize \in Nat /\ m * BlockSize \in Nat
      BY <2>2, LayoutAssumption
    <3>6. ~ (n < m) /\ ~ (m < n)
      BY <2>2, <3>3, <3>4, <3>5, LayoutAssumption
    <3> QED BY <2>2, <3>6
  <2> QED BY <2>3, <2>4
<1> QED BY <1>1, ControlInvariance, CoreInvariance, PTL

------------------------------------------------------------------------------
(* What a client asks for and what is acquired for it.                     *)

(* A count that is not near the limit of 32 bits grows when it is rounded. *)
LEMMA AlignGrows ==
    ASSUME NEW n \in Nat, NEW a \in Nat \ {0}, n + a < U32
    PROVE  Align(n, a) \in n + 1 .. n + a
<1>1. PICK o \in 0 .. a - 1 : o = n % a
  OBVIOUS
<1>2. PICK x \in Nat : x = n + a - o
  BY <1>1
<1>3. x < U32 /\ U32 \in Nat \ {0} /\ x \in n + 1 .. n + a
  BY <1>1, <1>2, LayoutAssumption
<1>4. x % U32 = x
  BY <1>3
<1> QED BY <1>1, <1>2, <1>3, <1>4 DEF Align

(* The counts and the samples of a request as numbers.                     *)
LEMMA RequestNumbers ==
    ASSUME NEW r \in Request, r.chan \in Chan
    PROVE  /\ r.pre \in Nat /\ r.post \in Nat /\ r.shots \in Nat
           /\ Bytes(r) \in Nat /\ RoundedSamples(r) \in Nat
           /\ PreAligned(r.chan, r.pre) \in Nat /\ PostAligned(r.chan, r.post) \in Nat
<1>1. r.pre \in Nat /\ r.post \in Nat /\ r.shots \in Nat
  BY RequestAssumption, LayoutAssumption
<1>2. PreAligned(r.chan, r.pre) \in Nat /\ PostAligned(r.chan, r.post) \in Nat
  BY <1>1, AlignedTypes
<1>3. PICK s \in Nat : s = acq_buf[r.chan].sample_size
  BY Layout
<1>4. Bytes(r) \in Nat
  BY <1>1, <1>3 DEF Bytes
<1> QED BY <1>1, <1>2, <1>4 DEF RoundedSamples

(* A request that is accepted is not rounded to nothing: counts that wrap  *)
(* to zero are far beyond the limit on the samples.                        *)
LEMMA AcceptedNotEmpty ==
    ASSUME NEW r \in Request, Accepts(r)
    PROVE  RoundedSamples(r) # 0 /\ r.shots \in Nat \ {0}
<1>1. r.chan \in Chan /\ r.pre \in 0 .. U32 - 1 /\ r.post \in 0 .. U32 - 1
  BY RequestAssumption DEF Accepts
<1>2. PICK h \in Nat \ {0} : h = r.shots
  <2>1. r.shots \in Nat /\ r.shots >= 1
    BY <1>1, RequestNumbers DEF Accepts
  <2> QED BY <2>1
<1>3. PICK a \in Nat \ {0} : a = SamplesAlignment(r.chan) /\ a < U32 /\ a <= PayloadSize
  <2>1. PICK a \in Nat \ {0}, s \in Nat \ {0} :
           a = SamplesAlignment(r.chan) /\ s = acq_buf[r.chan].sample_size /\ a * s = PayloadSize
    BY <1>1, AlignmentPositive, Layout
  <2>2. a <= a * s
    OBVIOUS
  <2> QED BY <1>1, <2>1, <2>2, AlignmentSmall
<1>4. PICK max \in Nat : max = acq_buf[r.chan].max_samples /\ max + 2 * PayloadSize < U32
  <2>1. PICK s \in Nat \ {0}, R \in Nat, m \in Nat, z \in Nat, e \in Nat :
           /\ s = acq_buf[r.chan].sample_size /\ R = RegionSize(r.chan)
           /\ m = acq_buf[r.chan].max_samples /\ z = acq_buf[r.chan].start_addr
           /\ e = EndMem(r.chan) /\ e = z + R /\ e + 2 * PayloadSize < U32 /\ m * s = R - s
    BY <1>1, Layout, Zenon
  <2>2. m <= m * s
    OBVIOUS
  <2>3. m <= R
    BY <2>1, <2>2
  <2> QED BY <2>1, <2>3, LayoutAssumption
<1>5. (r.pre + r.post) % U32 <= max \/ (r.pre + r.post) % U32 <= MultishotMem
  <2>1. ~ TooManySamples(r)
    BY DEF Accepts
  <2>2. r.shots = 1 \/ r.shots > 1
    BY <1>2
  <2>3. (r.pre + r.post) % U32 \in Int
    BY <1>1, LayoutAssumption
  <2> QED BY <1>4, <2>1, <2>2, <2>3, RequestAssumption DEF TooManySamples
<1>6. PICK n \in Nat : n = (r.pre + r.post) % U32 /\ n + 2 * PayloadSize < U32
  <2>1. (r.pre + r.post) % U32 \in Nat
    BY <1>1, LayoutAssumption
  <2> QED BY <1>4, <1>5, <2>1, RequestAssumption, LayoutAssumption
<1>7. n = IF r.pre + r.post < U32 THEN r.pre + r.post ELSE r.pre + r.post - U32
  <2>1. PICK x \in 0 .. 2 * U32 - 1 : x = r.pre + r.post
    BY <1>1, LayoutAssumption
  <2>2. x % U32 = IF x < U32 THEN x ELSE x - U32
    BY ModTwice, LayoutAssumption, Zenon
  <2>3. n = x % U32
    BY <1>6, <2>1, Zenon
  <2>4. n = IF x < U32 THEN x ELSE x - U32
    BY <2>2, <2>3, Zenon
  <2> QED BY <1>1, <2>1, <2>4, LayoutAssumption
<1>8. ASSUME NEW x \in 0 .. U32 - 1, Align(x, a) = 0 PROVE x >= U32 - a
  <2>1. CASE x + a < U32
    BY <1>3, <1>8, <2>1, AlignGrows
  <2>2. CASE ~ (x + a < U32)
    BY <1>3, <2>2, LayoutAssumption
  <2> QED BY <2>1, <2>2
<1>9. PICK e \in Nat, f \in Nat : e = PreAligned(r.chan, r.pre) /\ f = PostAligned(r.chan, r.post)
  BY <1>1, RequestNumbers
<1>10. e + f # 0
  <2> SUFFICES ASSUME e = 0, f = 0 PROVE FALSE
    OBVIOUS
  <2>1. r.pre >= U32 - a
    BY <1>1, <1>3, <1>8, <1>9 DEF PreAligned
  <2>2. r.post = 0 \/ r.post >= U32 - a
    BY <1>1, <1>3, <1>8, <1>9 DEF PostAligned
  <2> QED BY <1>1, <1>3, <1>6, <1>7, <2>1, <2>2, LayoutAssumption
<1>11. (e + f) * h # 0
  BY <1>10
<1> QED BY <1>2, <1>9, <1>11 DEF RoundedSamples

(* p holds the counts that are acquired for r.                             *)
Rounded(p, r) ==
    /\ p.pre = PreAligned(r.chan, r.pre) /\ p.post = PostAligned(r.chan, r.post)
    /\ p.shots = r.shots

(* More samples are acquired than are asked for.                           *)
LEMMA MoreThanAsked ==
    ASSUME NEW r \in Request, r.chan \in Chan, r.shots # 0, Bytes(r) < RegionSize(r.chan)
    PROVE  (r.pre + r.post) * r.shots < RoundedSamples(r)
<1>1. PICK e \in Nat, f \in Nat, h \in Nat \ {0} : e = r.pre /\ f = r.post /\ h = r.shots
  BY RequestNumbers
<1>2. PICK s \in Nat \ {0}, R \in Nat, z \in Nat, g \in Nat :
         /\ s = acq_buf[r.chan].sample_size /\ R = RegionSize(r.chan)
         /\ z = acq_buf[r.chan].start_addr /\ g = EndMem(r.chan) /\ g = z + R
         /\ g + 2 * PayloadSize < U32
  BY Layout
<1>3. PICK a \in Nat \ {0} : a = SamplesAlignment(r.chan) /\ a <= PayloadSize
  <2>1. PICK a \in Nat \ {0} : a = SamplesAlignment(r.chan) /\ a * s = PayloadSize
    BY <1>2, AlignmentPositive, Layout
  <2>2. a <= a * s
    OBVIOUS
  <2> QED BY <2>1, <2>2
<1>4. e + f < R
  <2>1. PICK n \in Nat : n = (e + f) * h
    OBVIOUS
  <2>2. e + f <= n
    BY <2>1
  <2>3. PICK b \in Nat : b = n * s
    OBVIOUS
  <2>4. n <= b
    BY <2>3
  <2>5. b < R
    BY <1>1, <1>2, <2>1, <2>3 DEF Bytes
  <2> QED BY <2>2, <2>4, <2>5
<1>5. e + a < U32 /\ f + a < U32
  BY <1>2, <1>3, <1>4, LayoutAssumption
<1>6. PICK x \in Nat : x = PreAligned(r.chan, r.pre) /\ x >= e + 1
  BY <1>1, <1>3, <1>5, AlignGrows DEF PreAligned
<1>7. PICK y \in Nat : y = PostAligned(r.chan, r.post) /\ y >= f
  <2>1. CASE f = 0
    BY <1>1, <2>1 DEF PostAligned
  <2>2. CASE f # 0
    BY <1>1, <1>3, <1>5, <2>2, AlignGrows DEF PostAligned
  <2> QED BY <2>1, <2>2
<1>8. PICK d \in Nat \ {0} : x + y = e + f + d
  <2>1. x + y - e - f \in Nat \ {0} /\ x + y = e + f + (x + y - e - f)
    BY <1>6, <1>7
  <2> QED BY <2>1
<1>9. (e + f) * h < (e + f + d) * h
  <2>1. (e + f + d) * h = (e + f) * h + d * h
    OBVIOUS
  <2>2. d * h > 0
    OBVIOUS
  <2> QED BY <2>1, <2>2
<1> QED BY <1>1, <1>6, <1>7, <1>8, <1>9 DEF RoundedSamples

(* The client's blocks: all of them are in range, all but the last are     *)
(* full, and the last one has the rest of what was asked for.              *)
LEMMA ClientBlocks ==
    ASSUME NEW r \in Request, r.chan \in Chan, r.shots # 0,
           Bytes(r) < RegionSize(r.chan), RoundedSamples(r) < U32,
           NEW p, Rounded(p, r), NEW n \in Nat, n <= ClientBlockValid(r)
    PROVE  /\ ClientBlockValid(r) \in Nat
           /\ BlockInRange(p, r.chan, n)
           /\ n * BlockSize <= Bytes(r) /\ n * BlockSize \in Nat
           /\ ReplySize(p, r.chan, n) \in Nat
           /\ n # ClientBlockValid(r) => /\ ReplySize(p, r.chan, n) = BlockSize
                                         /\ n * BlockSize + BlockSize <= Bytes(r)
           /\ n = ClientBlockValid(r) => n * BlockSize + ReplySize(p, r.chan, n) >= Bytes(r)
<1> DEFINE ch == r.chan
           b == PerBlock(ch)
<1>1. PICK s \in Nat \ {0}, R \in Nat \ {0} :
         s = acq_buf[ch].sample_size /\ R = RegionSize(ch) /\ R < U32
  BY Layout, LayoutAssumption
<1>2. PICK l \in Nat : l = (r.pre + r.post) * r.shots /\ Bytes(r) = l * s
  BY <1>1, RequestNumbers DEF Bytes
<1>3. PICK m \in Nat \ {0} : m = RoundedSamples(r) /\ l < m /\ m < U32
  BY <1>2, RequestNumbers, MoreThanAsked
<1>4. MultiShot(p) = m
  <2>1. PICK q \in Nat, h \in Nat \ {0} : q = p.pre + p.post /\ h = p.shots
    BY RequestNumbers DEF Rounded
  <2>2. m = q * h
    BY <1>3, <2>1 DEF RoundedSamples, Rounded
  <2>3. q <= m
    BY <2>2
  <2>4. q % U32 = q /\ m % U32 = m
    <3>1. U32 \in Nat \ {0} /\ q < U32 /\ m < U32
      BY <1>3, <2>3, LayoutAssumption
    <3> QED BY <3>1
  <2> QED BY <2>1, <2>2, <2>4 DEF MultiShot, PerShot
<1>5. b \in Nat \ {0} /\ BlockSize = b * s /\ BlockSize \in Nat \ {0} /\ BlockSize < U32
  BY <1>1, Layout, LayoutAssumption, Zenon
<1> HIDE DEF b
<1>6. PICK v \in Nat : /\ v = BlockValid(p, ch)
                       /\ v = IF m \div b # 0 /\ m % b = 0 THEN (m \div b) - 1 ELSE m \div b
  <2>1. m \div b \in Nat
    BY <1>5
  <2> QED BY <1>4, <2>1 DEF BlockValid, OverSamples, b
<1>7. PICK w \in Nat, t \in 0 .. b - 1 : /\ w = ClientBlockValid(r) /\ w = l \div b
                                         /\ l = w * b + t
  <2>1. l % U32 = l
    BY <1>3, LayoutAssumption
  <2>2. PICK w \in Nat, t \in 0 .. b - 1 : w = l \div b /\ l = w * b + t
    BY <1>5, SMTT(30)
  <2> QED BY <1>2, <2>1, <2>2 DEF ClientBlockValid, b
<1>8. w <= v /\ n <= v /\ n <= w
  <2>1. \A i \in Nat : i < m => i \div b <= v
    <3>1. 0 \in Nat /\ 0 <= v
      OBVIOUS
    <3> QED BY <1>5, <1>6, <3>1, BlockSamples, Zenon
  <2>2. w <= v
    BY <1>3, <1>7, <2>1
  <2> QED BY <1>7, <2>2
<1>9. PICK o \in 0 .. b - 1 : o = m % b /\ OverSamples(p, ch) = o
  BY <1>4, <1>5 DEF OverSamples, b
<1>10. PICK c \in 1 .. b : c = (IF n = v /\ o > 0 THEN o ELSE b)
  BY <1>5, <1>9
<1>11. ReplySize(p, ch, n) = c * s
  <2>1. o * s < U32 /\ o * s \in Nat
    <3>1. PICK x \in Nat, y \in Nat : x = o * s /\ y = b * s
      BY <1>5
    <3>2. x <= y
      BY <1>5, <3>1
    <3> QED BY <1>5, <3>1, <3>2, LayoutAssumption
  <2>2. (o * s) % U32 = o * s
    <3>1. PICK x \in Nat : x = o * s
      BY <2>1
    <3> QED BY <2>1, <3>1, LayoutAssumption
  <2> QED BY <1>1, <1>5, <1>6, <1>9, <1>10, <2>2 DEF ReplySize
<1>12. PICK x \in Nat : x = n * b /\ n * BlockSize = x * s
  BY <1>5
<1>13. x <= l /\ (n # w => x + b <= l)
  <2>1. n * b <= w * b
    BY <1>5, <1>8
  <2>2. ASSUME n # w PROVE (n + 1) * b <= w * b
    BY <1>5, <1>8, <2>2
  <2> QED BY <1>5, <1>7, <1>12, <2>1, <2>2
<1>14. n = w => x + c >= l
  <2> SUFFICES ASSUME n = w PROVE x + c >= l
    OBVIOUS
  <2>1. CASE n = v /\ o > 0
    <3>1. n * b + o = m
      BY <1>5, <1>6, <1>8, <1>9, <2>1, BlockSamples
    <3> QED BY <1>3, <1>10, <1>12, <2>1, <3>1
  <2>2. CASE ~ (n = v /\ o > 0)
    BY <1>5, <1>7, <1>10, <1>12, <2>2
  <2> QED BY <2>1, <2>2
<1>15. x * s <= l * s /\ (n # w => (x + b) * s <= l * s) /\ (n = w => (x + c) * s >= l * s)
  <2>1. ASSUME NEW i \in Nat, NEW j \in Nat, i <= j PROVE i * s <= j * s
    BY <2>1
  <2>2. x + b \in Nat /\ x + c \in Nat
    BY <1>5
  <2> QED BY <1>13, <1>14, <2>1, <2>2
<1>16. (x + b) * s = x * s + b * s /\ (x + c) * s = x * s + c * s
  BY <1>5
<1>17. n # w => c = b
  BY <1>8, <1>10
<1>18. n <= BlockMax(ch)
  <2>1. PICK y \in Nat : y = acq_buf[ch].max_samples * s /\ y = R - s
    BY <1>1, Layout
  <2>2. y % U32 = y
    BY <1>1, <2>1, LayoutAssumption, SMTT(30)
  <2>3. BlockMax(ch) = y \div BlockSize
    BY <1>1, <2>1, <2>2 DEF BlockMax
  <2>4. l * s <= y
    <3>1. PICK g \in Nat : g = acq_buf[ch].max_samples /\ g * s = R - s
      BY <1>1, Layout
    <3>2. l * s < (g + 1) * s
      BY <1>1, <1>2, <3>1
    <3>3. l < g + 1
      BY <3>2
    <3>4. l * s <= g * s
      BY <3>3
    <3> QED BY <2>1, <3>1, <3>4
  <2>5. PICK u \in Nat : u = n * BlockSize /\ u <= y
    <3>1. PICK z \in Nat : z = l * s
      OBVIOUS
    <3> QED BY <1>5, <1>12, <1>15, <2>4, <3>1
  <2>6. PICK q \in Nat, i \in 0 .. BlockSize - 1 : q = y \div BlockSize /\ y = q * BlockSize + i
    BY <1>5, SMTT(30)
  <2>7. ASSUME n >= q + 1 PROVE FALSE
    <3>1. n * BlockSize >= (q + 1) * BlockSize
      BY <1>5, <2>7
    <3>2. (q + 1) * BlockSize = q * BlockSize + BlockSize
      BY <1>5
    <3> QED BY <1>5, <2>5, <2>6, <3>1, <3>2
  <2> QED BY <2>3, <2>6, <2>7
<1>19. BlockInRange(p, ch, n)
  BY <1>6, <1>8, <1>18 DEF BlockInRange
<1>20. x * s \in Nat /\ c * s \in Nat /\ l * s \in Nat
  BY <1>5
<1> QED BY <1>2, <1>5, <1>7, <1>11, <1>12, <1>15, <1>16, <1>17, <1>19, <1>20

------------------------------------------------------------------------------
(* Calls of clients.                                                       *)

CallType ==
    [pc : {"idle", "poll", "curve"}, op : {"full", "read"}, req : Request, acq : Nat,
     overtaken : BOOLEAN, lost : BOOLEAN, idx : Nat, left : Nat, total : Nat, own : BOOLEAN,
     res : {"none", "ok", "gave_up", "out_of_range"}]

(* The calls CurveIsComplete speaks of.                                    *)
Counted(k) ==
    /\ k.acq # 0 /\ ~ k.lost
    /\ Bytes(k.req) < RegionSize(k.req.chan) /\ RoundedSamples(k.req) < U32

(* What a call has counted so far, and what the SMIO keeps for it.         *)
CountInv(k) ==
    /\ k.req.chan \in Chan
    /\ k.pc # "idle" => k.res = "none"
    /\ k.pc = "poll" => k.idx = 0 /\ k.total = 0
    /\ k.total + k.left <= Bytes(k.req)
    /\ k.pc # "idle" => k.total + k.left = Bytes(k.req)
    /\ k.acq # 0 => RoundedSamples(k.req) # 0 /\ k.req.shots # 0
    /\ k.acq # 0 /\ ~ k.lost /\ k.pc # "idle" => Rounded(params[k.req.chan], k.req)
    /\ k.op = "full" /\ k.acq = 0 /\ (k.pc = "curve" \/ k.res = "ok") => acqs > 0
    /\ Counted(k) /\ k.pc = "curve" =>
          k.idx <= ClientBlockValid(k.req) /\ k.total = k.idx * BlockSize
    /\ Counted(k) => /\ k.res # "out_of_range"
                     /\ k.res = "ok" => k.total = Bytes(k.req)

(* The calls CurveIsOwn speaks of.                                         *)
Sole(k) ==
    /\ k.acq # 0 /\ ~ k.overtaken /\ ~ k.lost
    /\ RequestFits(k.req) /\ k.req.shots < ShotsMod

(* A call that polls has the core; one that reads its curve has it in the  *)
(* memory, from the recorded trigger address, whoever has the core now.    *)
OwnInv(k) ==
    LET ch == k.req.chan
        p  == params[ch]
    IN  /\ Sole(k) /\ k.pc = "poll" =>
              /\ k.acq = acqs /\ curr_chan = ch /\ k.own
              /\ fsm = "idle" => done
        /\ Sole(k) /\ k.pc = "curve" =>
              /\ p.trig \in RegionOf(ch)
              /\ Holds(k.acq, p.trig, PreBytes(p, ch), Samples(p) * acq_buf[ch].sample_size, ch)
              /\ curr_chan = ch => p.trig = trigPos /\ done
              /\ curr_chan # ch => RegionOf(ch) \cap RegionOf(curr_chan) = {}
              /\ k.own
              /\ k.total = k.idx * BlockSize \/ k.left = 0 \/ k.idx > BlockValid(p, ch)
        /\ Sole(k) /\ k.res = "ok" => k.own

ClientInv == client \in [Client -> CallType] /\ \A c \in Client : CountInv(client[c])

CurveInv == \A c \in Client : OwnInv(client[c])

(* A call that goes on: at most marked as overtaken or lost.               *)
Kept(k, o) ==
    /\ o.pc = k.pc /\ o.op = k.op /\ o.req = k.req /\ o.acq = k.acq
    /\ o.idx = k.idx /\ o.left = k.left /\ o.total = k.total /\ o.res = k.res
    /\ k.own => o.own
    /\ k.lost => o.lost
    /\ k.overtaken => o.overtaken

(* The record of a client that does nothing.                               *)
LEMMA IdleFields ==
    /\ IdleClient \in CallType
    /\ IdleClient.req.chan \in Chan /\ IdleClient.pc = "idle" /\ IdleClient.res = "none"
    /\ IdleClient.acq = 0 /\ IdleClient.total = 0 /\ IdleClient.left = 0 /\ IdleClient.idx = 0
    /\ IdleClient.own /\ ~ IdleClient.lost /\ ~ IdleClient.overtaken
<1>1. PICK r : r = CHOOSE x \in Request : x.chan \in Chan
  OBVIOUS
<1>2. r \in Request /\ r.chan \in Chan
  BY <1>1, RequestAssumption, Zenon
<1>3. IdleClient = [pc |-> "idle", op |-> "full", req |-> r, acq |-> 0,
                    overtaken |-> FALSE, lost |-> FALSE, idx |-> 0, left |-> 0, total |-> 0,
                    own |-> TRUE, res |-> "none"]
  BY <1>1, Zenon DEF IdleClient
<1>4. IdleClient.own /\ ~ IdleClient.lost /\ ~ IdleClient.overtaken
  BY <1>3, Zenon
<1>5. 0 \in Nat
  OBVIOUS
<1>6. IdleClient \in CallType
  BY <1>2, <1>3, <1>5, Zenon DEF CallType
<1> QED BY <1>2, <1>3, <1>4, <1>6, Zenon

(* The record of a new call.                                               *)
LEMMA NewCallFields ==
    ASSUME NEW r \in Request, NEW op \in {"full", "read"}, NEW id \in Nat, r.chan \in Chan
    PROVE  LET k == NewCall(r, op, id)
           IN  /\ k \in CallType
               /\ k.pc = (IF op = "full" THEN "poll" ELSE "curve") /\ k.op = op /\ k.req = r
               /\ k.acq = id /\ k.left = Bytes(r) /\ k.total = 0 /\ k.idx = 0 /\ k.res = "none"
               /\ k.own /\ ~ k.lost /\ ~ k.overtaken
<1>1. PICK i \in CallType : /\ i = IdleClient /\ i.total = 0 /\ i.idx = 0 /\ i.res = "none"
                            /\ i.own /\ ~ i.lost /\ ~ i.overtaken
  BY IdleFields, Zenon
<1>2. PICK b \in Nat : b = Bytes(r)
  BY RequestNumbers
<1>3. PICK s \in {"idle", "poll", "curve"} : s = IF op = "full" THEN "poll" ELSE "curve"
  OBVIOUS
<1>4. PICK k : k = NewCall(r, op, id)
  OBVIOUS
<1>5. k = [i EXCEPT !.pc = s, !.op = op, !.req = r, !.acq = id, !.left = b]
  BY <1>1, <1>2, <1>3, <1>4, Zenon DEF NewCall
<1>6. k \in CallType /\ k.pc = s /\ k.op = op /\ k.req = r /\ k.acq = id /\ k.left = b
  BY <1>5, Zenon DEF CallType
<1>7. /\ k.total = i.total /\ k.idx = i.idx /\ k.res = i.res /\ k.own = i.own
      /\ k.lost = i.lost /\ k.overtaken = i.overtaken
  BY <1>5, Zenon DEF CallType
<1> QED BY <1>1, <1>2, <1>3, <1>4, <1>6, <1>7, Zenon

(* The record of a call while another acquisition starts.                  *)
LEMMA OvertakeFields ==
    ASSUME NEW k \in CallType, NEW ch
    PROVE  /\ Overtake(k, ch) \in CallType /\ Kept(k, Overtake(k, ch))
           /\ k.pc = "poll" => Overtake(k, ch).overtaken
           /\ /\ k.pc \in {"poll", "curve"} /\ RegionOf(k.req.chan) \cap RegionOf(ch) # {}
              => Overtake(k, ch).lost
<1>1. PICK v \in BOOLEAN : v <=> (k.overtaken \/ k.pc = "poll")
  BY Zenon
<1>2. PICK l \in BOOLEAN : l <=> (k.lost \/ ( /\ k.pc \in {"poll", "curve"}
                                              /\ RegionOf(k.req.chan) \cap RegionOf(ch) # {} ))
  BY Zenon
<1>3. Overtake(k, ch) = [k EXCEPT !.overtaken = v, !.lost = l]
  <2>1. /\ v = (k.overtaken \/ (k.pc = "poll"))
        /\ l = (k.lost \/ ( /\ k.pc \in {"poll", "curve"}
                            /\ RegionOf(k.req.chan) \cap RegionOf(ch) # {} ))
    BY <1>1, <1>2, Zenon
  <2> QED BY <2>1, Zenon DEF Overtake
<1>4. PICK o : o = Overtake(k, ch)
  OBVIOUS
<1>5. o \in CallType /\ o.overtaken = v /\ o.lost = l
  BY <1>3, <1>4, Zenon DEF CallType
<1>6. /\ o.pc = k.pc /\ o.op = k.op /\ o.req = k.req /\ o.acq = k.acq
      /\ o.idx = k.idx /\ o.left = k.left /\ o.total = k.total /\ o.res = k.res /\ o.own = k.own
  BY <1>3, <1>4, Zenon DEF CallType
<1> QED BY <1>1, <1>2, <1>4, <1>5, <1>6, Zenon DEF Kept

(* A call that goes on keeps its counts, as long as the parameters of its  *)
(* channel are kept for it.                                                *)
LEMMA CountKept ==
    ASSUME NEW c \in Client, CountInv(client[c]), Kept(client[c], client'[c]),
           acqs > 0 => acqs' > 0,
           LET k == client[c]
           IN  k.acq # 0 /\ ~ client'[c].lost /\ k.pc # "idle" /\ Rounded(params[k.req.chan], k.req)
                  => Rounded(params'[k.req.chan], k.req)
    PROVE  CountInv(client[c])'
<1>1. PICK k, o : k = client[c] /\ o = client'[c]
  OBVIOUS
<1>2. Counted(o) => Counted(k)
  BY <1>1, Zenon DEF Counted, Kept
<1> QED BY <1>1, <1>2, Zenon DEF CountInv, Kept, Counted, Rounded

(* The SMIO's parameters of a channel are the same.                        *)
SameCounts(ch) ==
    /\ params'[ch].pre = params[ch].pre /\ params'[ch].post = params[ch].post
    /\ params'[ch].shots = params[ch].shots

(* One call changes, the others do nothing.                                *)
LEMMA OneClient ==
    ASSUME ClientInv, NEW c \in Client, NEW x \in CallType, client' = [client EXCEPT ![c] = x],
           acqs' = acqs, \A ch \in Chan : SameCounts(ch), CountInv(client[c])'
    PROVE  ClientInv'
<1>1. client' \in [Client -> CallType]
  BY Zenon DEF ClientInv
<1>2. ASSUME NEW d \in Client, d # c PROVE CountInv(client[d])'
  <2>1. client'[d] = client[d]
    BY <1>2, Zenon DEF ClientInv
  <2>2. client[d].req.chan \in Chan /\ CountInv(client[d])
    BY Zenon DEF ClientInv, CountInv
  <2>3. Kept(client[d], client'[d])
    BY <2>1, Zenon DEF Kept
  <2>4. Rounded(params[client[d].req.chan], client[d].req) =>
             Rounded(params'[client[d].req.chan], client[d].req)
    BY <2>2, Zenon DEF Rounded, SameCounts
  <2> QED BY <2>2, <2>3, <2>4, CountKept, Zenon
<1> QED BY <1>1, <1>2, Zenon DEF ClientInv

(* A new call, accepted as number id or not (0).                           *)
LEMMA NewCallCounts ==
    ASSUME NEW c \in Client, NEW r \in Request, r.chan \in Chan, NEW op \in {"full", "read"},
           NEW id \in Nat, client'[c] = NewCall(r, op, id), id # 0 => op = "full",
           id # 0 => RoundedSamples(r) # 0 /\ r.shots # 0 /\ Rounded(params'[r.chan], r)
    PROVE  CountInv(client[c])'
<1>1. PICK o : o = client'[c] /\ o = NewCall(r, op, id)
  OBVIOUS
<1>2. /\ o.pc = (IF op = "full" THEN "poll" ELSE "curve") /\ o.op = op /\ o.req = r
      /\ o.acq = id /\ o.left = Bytes(r) /\ o.total = 0 /\ o.idx = 0 /\ o.res = "none"
  BY <1>1, NewCallFields
<1>3. Bytes(r) \in Nat
  BY RequestNumbers
<1>4. o.total + o.left = Bytes(o.req) /\ o.total + o.left <= Bytes(o.req)
  BY <1>2, <1>3
<1>5. o.pc # "idle" /\ (o.pc = "curve" => o.op = "read" /\ o.acq = 0)
  BY <1>2
<1>6. Counted(o) => o.pc # "curve"
  BY <1>5, Zenon DEF Counted
<1>7. o.res # "ok" /\ o.res # "out_of_range"
  BY <1>2
<1>8. o.op = "read" => o.op # "full"
  OBVIOUS
<1> QED BY <1>1, <1>2, <1>4, <1>5, <1>6, <1>7, <1>8, Zenon DEF CountInv, Counted

(* A reply has a size.                                                     *)
LEMMA ReplyType ==
    ASSUME NEW ch \in Chan, NEW p, p.pre \in Nat, p.post \in Nat, p.shots \in Nat, NEW n
    PROVE  ReplySize(p, ch, n) \in Nat
<1>1. U32 \in Nat \ {0} /\ BlockSize \in Nat
  BY LayoutAssumption
<1>2. PICK b \in Nat \ {0}, s \in Nat : b = PerBlock(ch) /\ s = acq_buf[ch].sample_size
  BY Layout
<1>3. PerShot(p) \in Nat
  BY <1>1 DEF PerShot
<1>4. MultiShot(p) \in Nat
  <2>1. PICK x \in Nat : x = PerShot(p) * p.shots
    BY <1>3
  <2> QED BY <1>1, <2>1 DEF MultiShot
<1>5. PICK o \in Nat : o = OverSamples(p, ch)
  BY <1>2, <1>4 DEF OverSamples
<1>6. PICK y \in Nat : y = o * s
  OBVIOUS
<1>7. y % U32 \in Nat
  BY <1>1
<1> QED BY <1>1, <1>2, <1>5, <1>6, <1>7 DEF ReplySize

(* What a block changes in the record of its call.                         *)
LEMMA BlockFields ==
    ASSUME ControlInv, ClientInv, NEW c \in Client, CurveBlock(c)
    PROVE  LET k == client[c]
               o == client'[c]
               p == params[k.req.chan]
               a == BlockAddr(p, k.req.chan, k.idx)
               n == Least(k.left, ReplySize(p, k.req.chan, k.idx))
               last == k.idx = ClientBlockValid(k.req)
           IN  /\ o \in CallType /\ client' = [client EXCEPT ![c] = o]
               /\ n \in 0 .. k.left /\ n <= ReplySize(p, k.req.chan, k.idx)
               /\ n = k.left \/ n = ReplySize(p, k.req.chan, k.idx)
               /\ ReplySize(p, k.req.chan, k.idx) \in Nat
               /\ o.left = k.left - n /\ o.total = k.total + n /\ o.idx = k.idx + 1
               /\ o.op = k.op /\ o.req = k.req /\ o.acq = k.acq
               /\ o.lost = k.lost /\ o.overtaken = k.overtaken
               /\ last => o.pc = "idle" /\ o.res = "ok"
               /\ ~ last => o.pc = k.pc /\ o.res = k.res
               /\ o.own <=> k.own /\ \A j \in 0 .. n - 1 :
                                         a + j < EndMem(k.req.chan) =>
                                             ByteAt(a + j) = <<k.acq, k.total + j>>
<1>1. PICK k \in CallType : k = client[c]
  BY Zenon DEF ClientInv
<1>2. PICK ch \in Chan : ch = k.req.chan
  BY <1>1, Zenon DEF ClientInv, CountInv
<1>3. PICK p : p = params[ch] /\ p.pre \in Nat /\ p.post \in Nat /\ p.shots \in Nat
  BY DEF ControlInv, ControlType
<1>4. PICK z \in Nat : z = ReplySize(p, ch, k.idx)
  BY <1>3, ReplyType
<1>5. k.left \in Nat /\ k.total \in Nat /\ k.idx \in Nat
  BY Zenon DEF CallType
<1>6. PICK n \in Nat : /\ n = Least(k.left, z) /\ n \in 0 .. k.left /\ n <= z
                       /\ n = k.left \/ n = z
  BY <1>5 DEF Least
<1>7. PICK a : a = BlockAddr(p, ch, k.idx)
  OBVIOUS
<1>8. PICK w \in BOOLEAN : w <=> k.own /\ \A j \in 0 .. n - 1 :
                                   a + j < EndMem(ch) => ByteAt(a + j) = <<k.acq, k.total + j>>
  BY Zenon
<1>9. w = (k.own /\ \A j \in 0 .. n - 1 :
                        a + j < EndMem(ch) => ByteAt(a + j) = <<k.acq, k.total + j>>)
  BY <1>8, Zenon
<1>10. PICK q : q = CopyBlock(k, p)
  OBVIOUS
<1>11. q = [k EXCEPT !.left = k.left - n, !.total = k.total + n, !.own = w, !.idx = k.idx + 1]
  BY <1>2, <1>4, <1>6, <1>7, <1>9, <1>10, Zenon DEF CopyBlock
<1>12. k.left - n \in Nat /\ k.total + n \in Nat /\ k.idx + 1 \in Nat
  BY <1>5, <1>6
<1>13. q \in CallType
  BY <1>11, <1>12, Zenon DEF CallType
<1>14. /\ q.left = k.left - n /\ q.total = k.total + n /\ q.idx = k.idx + 1 /\ q.own = w
       /\ q.op = k.op /\ q.req = k.req /\ q.acq = k.acq /\ q.pc = k.pc /\ q.res = k.res
       /\ q.lost = k.lost /\ q.overtaken = k.overtaken
  BY <1>11, Zenon DEF CallType
<1>15. PICK o : o = IF k.idx = ClientBlockValid(k.req)
                    THEN [q EXCEPT !.pc = "idle", !.res = "ok"] ELSE q
  OBVIOUS
<1>16. client' = [client EXCEPT ![c] = o]
  BY <1>1, <1>2, <1>3, <1>10, <1>15, Zenon DEF CurveBlock
<1>17. client'[c] = o
  BY <1>16, Zenon DEF ClientInv
<1>18. o \in CallType
  BY <1>13, <1>15, Zenon DEF CallType
<1>19. /\ o.left = q.left /\ o.total = q.total /\ o.idx = q.idx /\ o.own = q.own
       /\ o.op = q.op /\ o.req = q.req /\ o.acq = q.acq
       /\ o.lost = q.lost /\ o.overtaken = q.overtaken
       /\ k.idx = ClientBlockValid(k.req) => o.pc = "idle" /\ o.res = "ok"
       /\ k.idx # ClientBlockValid(k.req) => o.pc = q.pc /\ o.res = q.res
  <2>1. CASE k.idx = ClientBlockValid(k.req)
    <3>1. o = [q EXCEPT !.pc = "idle", !.res = "ok"]
      BY <1>15, <2>1, Zenon
    <3> QED BY <1>13, <2>1, <3>1, Zenon DEF CallType
  <2>2. CASE k.idx # ClientBlockValid(k.req)
    BY <1>15, <2>2, Zenon
  <2> QED BY <2>1, <2>2
<1>20. o.own <=> k.own /\ \A j \in 0 .. n - 1 :
                             a + j < EndMem(ch) => ByteAt(a + j) = <<k.acq, k.total + j>>
  BY <1>8, <1>14, <1>19, Zenon
<1> QED
  BY <1>1, <1>2, <1>3, <1>4, <1>6, <1>7, <1>14, <1>16, <1>17, <1>18, <1>19, <1>20, Zenon

(* A block that is copied keeps the counts.                                *)
LEMMA BlockCounts ==
    ASSUME ControlInv, ClientInv, NEW c \in Client, CurveBlock(c)
    PROVE  ClientInv'
<1>1. PICK k \in CallType, o \in CallType : k = client[c] /\ o = client'[c]
  BY BlockFields, Zenon DEF ClientInv
<1>2. PICK ch \in Chan : ch = k.req.chan
  BY <1>1, Zenon DEF ClientInv, CountInv
<1>3. PICK p : p = params[ch]
  OBVIOUS
<1>4. PICK i \in Nat, l \in Nat, t \in Nat, b \in Nat :
         i = k.idx /\ l = k.left /\ t = k.total /\ b = Bytes(k.req)
  <2>1. k.idx \in Nat /\ k.left \in Nat /\ k.total \in Nat /\ k.req \in Request
    BY Zenon DEF CallType
  <2> QED BY <1>2, <2>1, RequestNumbers
<1>5. PICK z \in Nat, n \in 0 .. l : /\ z = ReplySize(p, ch, i) /\ n <= z /\ (n = l \/ n = z)
                                     /\ o.left = l - n /\ o.total = t + n /\ o.idx = i + 1
  BY <1>1, <1>2, <1>3, <1>4, BlockFields, Zenon
<1>6. /\ o.op = k.op /\ o.req = k.req /\ o.acq = k.acq
      /\ o.lost = k.lost /\ client' = [client EXCEPT ![c] = o]
      /\ i = ClientBlockValid(k.req) => o.pc = "idle" /\ o.res = "ok"
      /\ i # ClientBlockValid(k.req) => o.pc = k.pc /\ o.res = k.res
  BY <1>1, <1>4, BlockFields, Zenon
<1>7. k.pc = "curve" /\ UNCHANGED <<params, acqs>>
  BY <1>1 DEF CurveBlock, serverVars
<1>8. CountInv(k)
  BY <1>1, Zenon DEF ClientInv
<1>9. k.res = "none" /\ t + l = b
  BY <1>4, <1>7, <1>8 DEF CountInv
<1>10. o.total + o.left = b
  BY <1>5, <1>9
<1>11. Counted(o) <=> Counted(k)
  BY <1>6, Zenon DEF Counted
<1>12. ASSUME Counted(k)
       PROVE  IF i = ClientBlockValid(k.req) THEN o.total = b
              ELSE o.idx <= ClientBlockValid(k.req) /\ o.total = o.idx * BlockSize
  <2>1. i <= ClientBlockValid(k.req) /\ t = i * BlockSize
    BY <1>4, <1>7, <1>8, <1>12 DEF CountInv
  <2>2. Rounded(p, k.req) /\ k.req.shots # 0 /\ k.req \in Request
    BY <1>2, <1>3, <1>7, <1>8, <1>12, Zenon DEF CountInv, Counted, CallType
  <2>3. /\ ClientBlockValid(k.req) \in Nat
        /\ i # ClientBlockValid(k.req) => z = BlockSize /\ t + BlockSize <= b
        /\ i = ClientBlockValid(k.req) => t + z >= b
    <3>1. k.req.chan \in Chan /\ Bytes(k.req) < RegionSize(k.req.chan) /\ RoundedSamples(k.req) < U32
      BY <1>2, <1>12 DEF Counted
    <3>2. /\ ClientBlockValid(k.req) \in Nat
          /\ i # ClientBlockValid(k.req) => /\ ReplySize(p, k.req.chan, i) = BlockSize
                                            /\ i * BlockSize + BlockSize <= Bytes(k.req)
          /\ i = ClientBlockValid(k.req) =>
                i * BlockSize + ReplySize(p, k.req.chan, i) >= Bytes(k.req)
      BY <2>1, <2>2, <3>1, ClientBlocks
    <3> QED BY <1>2, <1>4, <1>5, <2>1, <3>2
  <2>4. CASE i = ClientBlockValid(k.req)
    BY <1>5, <1>9, <2>3, <2>4
  <2>5. CASE i # ClientBlockValid(k.req)
    <3>1. i + 1 <= ClientBlockValid(k.req)
      BY <2>1, <2>3, <2>5
    <3>2. n = BlockSize
      <4>1. z = BlockSize /\ t + BlockSize <= b /\ BlockSize \in Nat
        BY <2>3, <2>5, LayoutAssumption
      <4> QED BY <1>5, <1>9, <4>1
    <3>3. t + BlockSize = (i + 1) * BlockSize
      BY <2>1, LayoutAssumption
    <3> QED BY <1>5, <2>5, <3>1, <3>2, <3>3
  <2> QED BY <2>4, <2>5
<1>13. CountInv(o)'
  <2>1. CASE i = ClientBlockValid(k.req)
    <3>1. o.pc = "idle" /\ o.res = "ok" /\ o.pc # "curve" /\ o.pc # "poll" /\ o.res # "out_of_range"
      BY <1>6, <2>1
    <3>2. o.total + o.left <= b
      BY <1>4, <1>10
    <3> QED BY <1>1, <1>4, <1>6, <1>7, <1>8, <1>11, <1>12, <2>1, <3>1, <3>2, Zenon
            DEF CountInv, Counted
  <2>2. CASE i # ClientBlockValid(k.req)
    <3>1. /\ o.pc = "curve" /\ o.res = "none" /\ o.pc # "idle" /\ o.pc # "poll"
          /\ o.res # "ok" /\ o.res # "out_of_range"
      BY <1>6, <1>7, <1>9, <2>2
    <3>2. o.total + o.left <= b
      BY <1>4, <1>10
    <3>3. k.acq # 0 /\ ~ k.lost => Rounded(params[ch], k.req)
      BY <1>2, <1>7, <1>8 DEF CountInv
    <3> QED BY <1>1, <1>2, <1>4, <1>6, <1>7, <1>8, <1>10, <1>11, <1>12, <2>2, <3>1, <3>2, <3>3, Zenon
            DEF CountInv, Counted, Rounded
  <2> QED BY <2>1, <2>2
<1>14. \A x \in Chan : SameCounts(x)
  BY <1>7, Zenon DEF SameCounts
<1> QED BY <1>1, <1>6, <1>7, <1>13, <1>14, OneClient, Zenon

(* What an accepted request leaves in the parameters.                      *)
LEMMA AcquireParams ==
    ASSUME ControlInv, NEW r \in Request, DataAcquire(r)
    PROVE  /\ r.chan \in Chan /\ Rounded(params'[r.chan], r)
           /\ \A ch \in Chan : ch # r.chan => params'[ch] = params[ch]
<1>1. r.chan \in Chan
  BY DEF DataAcquire, Accepts
<1>2. params \in [Chan -> [pre : Nat, post : Nat, shots : Nat, trig : Int]]
  BY DEF ControlInv, ControlType
<1>3. PICK x, y : x = PreAligned(r.chan, r.pre) /\ y = PostAligned(r.chan, r.post)
  OBVIOUS
<1>4. params' = [params EXCEPT ![r.chan].pre = x, ![r.chan].post = y, ![r.chan].shots = r.shots]
  BY <1>3, Zenon DEF DataAcquire
<1>5. params'[r.chan].pre = x /\ params'[r.chan].post = y /\ params'[r.chan].shots = r.shots
  BY <1>1, <1>2, <1>4
<1>6. \A ch \in Chan : ch # r.chan => params'[ch] = params[ch]
  BY <1>1, <1>2, <1>4
<1> QED BY <1>1, <1>3, <1>5, <1>6, Zenon DEF Rounded

(* The memory of a channel has a first byte.                               *)
LEMMA RegionNotEmpty ==
    ASSUME NEW ch \in Chan
    PROVE  RegionOf(ch) # {}
<1>1. acq_buf[ch].start_addr \in RegionOf(ch)
  BY Layout DEF RegionOf
<1> QED BY <1>1

(* The calls of others while an acquisition starts.                        *)
LEMMA OthersCounts ==
    ASSUME ControlInv, ClientInv, NEW r \in Request, DataAcquire(r), acqs' = acqs + 1,
           NEW d \in Client, client'[d] = Overtake(client[d], r.chan)
    PROVE  CountInv(client[d])'
<1>1. PICK k \in CallType, o \in CallType : k = client[d] /\ o = client'[d] /\ CountInv(k)
  BY OvertakeFields, Zenon DEF ClientInv
<1>2. /\ Kept(k, o)
      /\ k.pc \in {"poll", "curve"} /\ RegionOf(k.req.chan) \cap RegionOf(r.chan) # {} => o.lost
  BY <1>1, OvertakeFields, Zenon
<1>3. k.req.chan \in Chan
  BY <1>1, Zenon DEF CountInv
<1>4. k.pc # "idle" /\ ~ o.lost => k.req.chan # r.chan
  <2>1. RegionOf(k.req.chan) # {}
    BY <1>3, RegionNotEmpty
  <2>2. RegionOf(k.req.chan) \cap RegionOf(k.req.chan) # {}
    BY <2>1, Zenon
  <2>3. k.pc # "idle" => k.pc \in {"poll", "curve"}
    BY Zenon DEF CallType
  <2> QED BY <1>2, <2>2, <2>3, Zenon
<1>5. k.acq # 0 /\ ~ o.lost /\ k.pc # "idle" /\ Rounded(params[k.req.chan], k.req)
         => Rounded(params'[k.req.chan], k.req)
  BY <1>3, <1>4, AcquireParams, Zenon
<1>6. acqs > 0 => acqs' > 0
  BY DEF ControlInv, ControlType
<1> QED BY <1>1, <1>2, <1>5, <1>6, CountKept, Zenon

(* The record of every call while an acquisition starts has its type.      *)
LEMMA OvertakeType ==
    ASSUME ClientInv, NEW ch, NEW x \in CallType, NEW c,
           \/ client' = [k \in Client |-> IF k = c THEN x ELSE Overtake(client[k], ch)]
           \/ client' = [k \in Client |-> Overtake(client[k], ch)]
    PROVE  client' \in [Client -> CallType]
<1>1. \A k \in Client : Overtake(client[k], ch) \in CallType
  BY OvertakeFields, Zenon DEF ClientInv
<1> QED BY <1>1

(* Starting an acquisition keeps the counts of all calls.                  *)
LEMMA StartCounts ==
    ASSUME ControlInv, ClientInv, NEW r \in Request,
           AcqStart(r) \/ \E c \in Client : FullAcqAccepted(c, r)
    PROVE  ClientInv'
<1>1. CASE AcqStart(r)
  <2>1. /\ DataAcquire(r) /\ acqs' = acqs + 1
        /\ client' = [k \in Client |-> Overtake(client[k], r.chan)]
    BY <1>1, Zenon DEF AcqStart
  <2>2. client' \in [Client -> CallType]
    BY <2>1, IdleFields, OvertakeType
  <2>3. \A d \in Client : client'[d] = Overtake(client[d], r.chan)
    BY <2>1, Zenon
  <2>4. ASSUME NEW d \in Client PROVE CountInv(client[d])'
    BY <2>1, <2>3, OthersCounts, Zenon
  <2> QED BY <2>2, <2>4, Zenon DEF ClientInv
<1>2. ASSUME NEW c \in Client, FullAcqAccepted(c, r) PROVE ClientInv'
  <2>1. /\ DataAcquire(r) /\ acqs' = acqs + 1
        /\ client' = [k \in Client |-> IF k = c THEN NewCall(r, "full", acqs + 1)
                                                ELSE Overtake(client[k], r.chan)]
    BY <1>2, Zenon DEF FullAcqAccepted
  <2>2. r.chan \in Chan /\ Rounded(params'[r.chan], r)
    BY <2>1, AcquireParams, Zenon
  <2>3. PICK id \in Nat : id = acqs + 1
    BY DEF ControlInv, ControlType
  <2>4. NewCall(r, "full", id) \in CallType
    BY <2>2, NewCallFields
  <2>5. client' \in [Client -> CallType]
    BY <2>1, <2>3, <2>4, OvertakeType
  <2>6. client'[c] = NewCall(r, "full", id)
    BY <2>1, <2>3, Zenon
  <2>7. \A d \in Client : d # c => client'[d] = Overtake(client[d], r.chan)
    BY <2>1, Zenon
  <2>8. RoundedSamples(r) # 0 /\ r.shots # 0
    BY <2>1, AcceptedNotEmpty DEF DataAcquire
  <2>9. CountInv(client[c])'
    BY <2>2, <2>6, <2>8, NewCallCounts
  <2>10. ASSUME NEW d \in Client PROVE CountInv(client[d])'
    BY <2>1, <2>7, <2>9, OthersCounts, Zenon
  <2> QED BY <2>5, <2>10, Zenon DEF ClientInv
<1> QED BY <1>1, <1>2

(* A call that starts without an acquisition of its own.                   *)
LEMMA RefusedCounts ==
    ASSUME ClientInv, NEW c \in Client, NEW r \in Request, FullAcqRefused(c, r) \/ ReadCurve(c, r)
    PROVE  ClientInv'
<1>1. PICK op \in {"full", "read"} : client' = [client EXCEPT ![c] = NewCall(r, op, 0)]
  BY Zenon DEF FullAcqRefused, ReadCurve
<1>2. r.chan \in Chan /\ UNCHANGED <<params, acqs>>
  BY Zenon DEF FullAcqRefused, ReadCurve, serverVars
<1>3. client'[c] = NewCall(r, op, 0)
  BY <1>1, Zenon DEF ClientInv
<1>4. NewCall(r, op, 0) \in CallType
  BY <1>2, NewCallFields
<1>5. CountInv(client[c])'
  BY <1>2, <1>3, NewCallCounts
<1>6. \A ch \in Chan : SameCounts(ch)
  BY <1>2, Zenon DEF SameCounts
<1> QED BY <1>1, <1>2, <1>4, <1>5, <1>6, OneClient, Zenon

(* A client that gives up does nothing.                                    *)
LEMMA GiveUpCounts ==
    ASSUME ClientInv, NEW c \in Client, GiveUp(c)
    PROVE  ClientInv'
<1>1. PICK i \in CallType : /\ i = IdleClient /\ i.req.chan \in Chan /\ i.pc = "idle" /\ i.acq = 0
                            /\ i.total = 0 /\ i.left = 0
  BY IdleFields, Zenon
<1>2. PICK o : o = [i EXCEPT !.res = "gave_up"]
  BY Zenon
<1>3. /\ o \in CallType /\ o.res = "gave_up" /\ o.req = i.req /\ o.pc = i.pc /\ o.acq = i.acq
      /\ o.total = i.total /\ o.left = i.left
  BY <1>2, Zenon DEF CallType
<1>4. client' = [client EXCEPT ![c] = o] /\ UNCHANGED <<params, acqs>>
  BY <1>1, <1>2, Zenon DEF GiveUp, serverVars
<1>5. client'[c] = o
  BY <1>4, Zenon DEF ClientInv
<1>6. o.total + o.left <= Bytes(o.req)
  <2>1. o.req \in Request /\ o.req.chan \in Chan
    BY <1>1, <1>3, Zenon DEF CallType
  <2>2. Bytes(o.req) \in Nat
    BY <2>1, RequestNumbers
  <2> QED BY <1>1, <1>3, <2>2
<1>7. o.pc # "curve" /\ o.pc # "poll" /\ o.res # "ok" /\ o.res # "out_of_range"
  BY <1>1, <1>3
<1>8. CountInv(client[c])'
  BY <1>1, <1>3, <1>5, <1>6, <1>7, Zenon DEF CountInv, Counted
<1>9. \A ch \in Chan : SameCounts(ch)
  BY <1>4, Zenon DEF SameCounts
<1> QED BY <1>3, <1>4, <1>8, <1>9, OneClient, Zenon

(* The last block a client asks for has a number.                          *)
LEMMA LastBlockType ==
    ASSUME NEW r \in Request, r.chan \in Chan
    PROVE  ClientBlockValid(r) \in Nat
<1>1. PICK b \in Nat \ {0} : b = PerBlock(r.chan)
  BY Layout
<1>2. PICK x \in Nat : x = (r.pre + r.post) * r.shots
  BY RequestNumbers
<1>3. PICK y \in Nat : y = x % U32
  BY LayoutAssumption
<1>4. y \div b \in Nat
  OBVIOUS
<1> QED BY <1>1, <1>2, <1>3, <1>4, Zenon DEF ClientBlockValid

(* A call that finds its acquisition complete begins with block 0.         *)
LEMMA PollCounts ==
    ASSUME ControlInv, CoreInv, ClientInv, NEW c \in Client, PollDone(c)
    PROVE  ClientInv'
<1>1. PICK k \in CallType : k = client[c] /\ k.pc = "poll" /\ CountInv(k)
  BY Zenon DEF ClientInv, PollDone
<1>2. PICK o : o = [k EXCEPT !.pc = "curve"]
  BY Zenon
<1>3. client' = [client EXCEPT ![c] = o]
  BY <1>1, <1>2, Zenon DEF PollDone
<1>4. /\ o \in CallType /\ o.pc = "curve" /\ o.op = k.op /\ o.req = k.req /\ o.acq = k.acq
      /\ o.overtaken = k.overtaken /\ o.lost = k.lost /\ o.idx = k.idx /\ o.left = k.left
      /\ o.total = k.total /\ o.own = k.own /\ o.res = k.res
  BY <1>2, Zenon DEF CallType
<1>5. client'[c] = o
  BY <1>3, Zenon DEF ClientInv
<1>6. CheckDataAcquire /\ acqs' = acqs
  BY Zenon DEF PollDone
<1>7. \A ch \in Chan : SameCounts(ch)
  BY <1>6, CheckKeeps, Zenon DEF SameCounts
<1>8. acqs > 0
  BY <1>6 DEF CheckDataAcquire, CoreComplete, CoreInv
<1>9. k.req \in Request /\ k.req.chan \in Chan /\ k.res = "none" /\ k.idx = 0 /\ k.total = 0
  BY <1>1 DEF CallType, CountInv
<1>10. k.idx <= ClientBlockValid(k.req) /\ k.total = k.idx * BlockSize
  <2>1. ClientBlockValid(k.req) \in Nat /\ BlockSize \in Nat
    BY <1>9, LastBlockType, LayoutAssumption
  <2> QED BY <1>9, <2>1
<1>11. k.acq # 0 /\ ~ k.lost => Rounded(params'[k.req.chan], k.req)
  <2>1. k.acq # 0 /\ ~ k.lost => Rounded(params[k.req.chan], k.req)
    BY <1>1, Zenon DEF CountInv
  <2> QED BY <1>7, <1>9, <2>1, Zenon DEF Rounded, SameCounts
<1>12. /\ k.total + k.left <= Bytes(k.req) /\ k.total + k.left = Bytes(k.req)
       /\ k.acq # 0 => RoundedSamples(k.req) # 0 /\ k.req.shots # 0
  BY <1>1 DEF CountInv
<1>13. o.pc # "poll" /\ o.pc # "idle" /\ o.res # "ok" /\ o.res # "out_of_range"
  BY <1>4, <1>9
<1>14. CountInv(client[c])'
  BY <1>4, <1>5, <1>6, <1>8, <1>9, <1>10, <1>11, <1>12, <1>13, Zenon DEF CountInv, Counted
<1> QED BY <1>3, <1>4, <1>6, <1>7, <1>14, OneClient, Zenon

(* Only a call that lost its acquisition, or asked for too much, is told   *)
(* that a block is out of range.                                           *)
LEMMA OutOfRangeCounts ==
    ASSUME ControlInv, ClientInv, NEW c \in Client, CurveOutOfRange(c)
    PROVE  ClientInv'
<1>1. PICK k \in CallType : k = client[c] /\ k.pc = "curve" /\ CountInv(k)
  BY Zenon DEF ClientInv, CurveOutOfRange
<1>2. PICK o : o = [k EXCEPT !.pc = "idle", !.res = "out_of_range"]
  OBVIOUS
<1>3. client' = [client EXCEPT ![c] = o]
  BY <1>1, <1>2, Zenon DEF CurveOutOfRange
<1>4. /\ o \in CallType /\ o.pc = "idle" /\ o.op = k.op /\ o.req = k.req /\ o.acq = k.acq
      /\ o.lost = k.lost /\ o.idx = k.idx /\ o.left = k.left
      /\ o.total = k.total /\ o.res = "out_of_range"
  BY <1>2, Zenon DEF CallType
<1>5. client'[c] = o
  BY <1>3, Zenon DEF ClientInv
<1>6. UNCHANGED <<params, acqs>> /\ ~ BlockInRange(params[k.req.chan], k.req.chan, k.idx)
  BY <1>1, Zenon DEF CurveOutOfRange, serverVars
<1>7. ~ Counted(k)
  <2> SUFFICES ASSUME Counted(k) PROVE FALSE
    OBVIOUS
  <2>1. /\ k.req \in Request /\ k.idx \in Nat /\ k.req.chan \in Chan /\ k.acq # 0 /\ ~ k.lost
        /\ Bytes(k.req) < RegionSize(k.req.chan) /\ RoundedSamples(k.req) < U32
    BY <1>1, Zenon DEF Counted, CallType, CountInv
  <2>2. /\ k.idx <= ClientBlockValid(k.req) /\ k.req.shots # 0
        /\ Rounded(params[k.req.chan], k.req)
    BY <1>1, <2>1, Zenon DEF CountInv
  <2>3. BlockInRange(params[k.req.chan], k.req.chan, k.idx)
    BY <2>1, <2>2, ClientBlocks, Zenon
  <2> QED BY <1>6, <2>3
<1>8. ~ Counted(o)
  BY <1>4, <1>7, Zenon DEF Counted
<1>9. o.pc # "poll" /\ o.pc # "curve" /\ o.res # "ok"
  BY <1>4
<1>10. CountInv(client[c])'
  BY <1>1, <1>4, <1>5, <1>6, <1>8, <1>9, Zenon DEF CountInv, Counted
<1>11. \A ch \in Chan : SameCounts(ch)
  BY <1>6, Zenon DEF SameCounts
<1> QED BY <1>3, <1>4, <1>6, <1>10, <1>11, OneClient, Zenon

(* A stopped acquisition is lost for the call that waits for it.           *)
LEMMA StopFields ==
    ASSUME ClientInv, FsmStop, NEW d \in Client
    PROVE  /\ client'[d] \in CallType /\ Kept(client[d], client'[d])
           /\ client[d].pc = "poll" /\ client[d].acq = acqs => client'[d].lost
<1>1. PICK k \in CallType : k = client[d]
  BY Zenon DEF ClientInv
<1>2. client'[d] = IF k.pc = "poll" /\ k.acq = acqs THEN [k EXCEPT !.lost = TRUE] ELSE k
  BY <1>1, Zenon DEF FsmStop
<1>3. CASE k.pc = "poll" /\ k.acq = acqs
  <2>1. PICK o : o = client'[d] /\ o = [k EXCEPT !.lost = TRUE]
    BY <1>2, <1>3, Zenon
  <2>2. /\ o \in CallType /\ o.lost /\ o.pc = k.pc /\ o.op = k.op /\ o.req = k.req
        /\ o.acq = k.acq /\ o.idx = k.idx /\ o.left = k.left /\ o.total = k.total
        /\ o.res = k.res /\ o.own = k.own /\ o.overtaken = k.overtaken
    BY <2>1, Zenon DEF CallType
  <2> QED BY <1>1, <2>1, <2>2, Zenon DEF Kept
<1>4. CASE ~ (k.pc = "poll" /\ k.acq = acqs)
  <2>1. client'[d] = k
    BY <1>2, <1>4, Zenon
  <2> QED BY <1>1, <1>4, <2>1, Zenon DEF Kept
<1> QED BY <1>3, <1>4

(* Steps after which every call is as it was, or marked as lost.           *)
LEMMA KeptCounts ==
    ASSUME ClientInv, client' \in [Client -> CallType],
           \A d \in Client : Kept(client[d], client'[d]),
           \A ch \in Chan : SameCounts(ch), acqs' = acqs
    PROVE  ClientInv'
<1>1. ASSUME NEW d \in Client PROVE CountInv(client[d])'
  <2>1. client[d].req.chan \in Chan /\ CountInv(client[d])
    BY Zenon DEF ClientInv, CountInv
  <2>2. Rounded(params[client[d].req.chan], client[d].req) =>
             Rounded(params'[client[d].req.chan], client[d].req)
    BY <2>1, Zenon DEF Rounded, SameCounts
  <2> QED BY <2>1, <2>2, CountKept, Zenon
<1> QED BY <1>1, Zenon DEF ClientInv

(* The invariant of the calls holds in every behaviour.                    *)
THEOREM ClientInvariance == Spec => []ClientInv
<1>1. Init => ClientInv
  <2> SUFFICES ASSUME Init PROVE ClientInv
    OBVIOUS
  <2>1. client = [c \in Client |-> IdleClient]
    BY DEF Init
  <2>2. PICK i \in CallType : /\ i = IdleClient /\ i.req.chan \in Chan /\ i.pc = "idle" /\ i.acq = 0
                              /\ i.total = 0 /\ i.left = 0 /\ i.res = "none"
    BY IdleFields, Zenon
  <2>3. i.total + i.left <= Bytes(i.req)
    <3>1. i.req \in Request
      BY Zenon DEF CallType
    <3>2. Bytes(i.req) \in Nat
      BY <2>2, <3>1, RequestNumbers
    <3> QED BY <2>2, <3>2
  <2>4. i.pc # "curve" /\ i.pc # "poll" /\ i.res # "ok" /\ i.res # "out_of_range"
    BY <2>2
  <2>5. CountInv(i)
    BY <2>2, <2>3, <2>4, Zenon DEF CountInv, Counted
  <2>6. ASSUME NEW c \in Client PROVE client[c] = i
    BY <2>1, <2>2, Zenon
  <2> QED BY <2>1, <2>2, <2>5, <2>6, Zenon DEF ClientInv
<1>2. ControlInv /\ CoreInv /\ ClientInv /\ [Next]_vars => ClientInv'
  <2> SUFFICES ASSUME ControlInv, CoreInv, ClientInv, [Next]_vars PROVE ClientInv'
    OBVIOUS
  <2>1. CASE \E c \in Client, r \in Request : FullAcqAccepted(c, r)
    BY <2>1, StartCounts, Zenon
  <2>2. CASE \E c \in Client, r \in Request : FullAcqRefused(c, r) \/ ReadCurve(c, r)
    BY <2>2, RefusedCounts, Zenon
  <2>3. CASE \E c \in Client : PollDone(c)
    BY <2>3, PollCounts, Zenon
  <2>4. CASE \E c \in Client : GiveUp(c)
    BY <2>4, GiveUpCounts, Zenon
  <2>5. CASE \E c \in Client : CurveBlock(c)
    BY <2>5, BlockCounts, Zenon
  <2>6. CASE \E c \in Client : CurveOutOfRange(c)
    BY <2>6, OutOfRangeCounts, Zenon
  <2>7. CASE \E r \in Request : AcqStart(r)
    BY <2>7, StartCounts, Zenon
  <2>8. ASSUME UNCHANGED <<client, acqs>>, \A ch \in Chan : SameCounts(ch) PROVE ClientInv'
    <3>1. client' \in [Client -> CallType] /\ \A d \in Client : Kept(client[d], client'[d])
      BY <2>8, Zenon DEF ClientInv, Kept
    <3> QED BY <2>8, <3>1, KeptCounts, Zenon
  <2>9. CASE AcqCheck
    <3>1. CheckDataAcquire /\ UNCHANGED <<client, acqs>>
      BY <2>9, Zenon DEF AcqCheck
    <3>2. \A ch \in Chan : SameCounts(ch)
      BY <3>1, CheckKeeps, Zenon DEF SameCounts
    <3> QED BY <2>8, <3>1, <3>2
  <2>10. CASE FsmStop
    <3>1. UNCHANGED <<params, acqs>> /\ client' = [c \in Client |-> client'[c]]
      BY <2>10, Zenon DEF FsmStop, serverVars
    <3>2. \A d \in Client : client'[d] \in CallType /\ Kept(client[d], client'[d])
      BY <2>10, StopFields, Zenon
    <3>3. client' \in [Client -> CallType]
      BY <3>1, <3>2
    <3>4. \A ch \in Chan : SameCounts(ch)
      BY <3>1, Zenon DEF SameCounts
    <3> QED BY <3>1, <3>2, <3>3, <3>4, KeptCounts, Zenon
  <2>11. CASE \/ \E t \in TriggerType : CfgTrigger(t)
              \/ SwTrig
              \/ \E d \in 0 .. MaxDelay : CoreTriggered(d)
              \/ CoreDrained
              \/ UNCHANGED vars
    <3>1. UNCHANGED <<client, acqs, params>>
      BY <2>11, Zenon DEF CfgTrigger, SwTrig, CoreTriggered, CoreDrained, serverVars, vars
    <3>2. \A ch \in Chan : SameCounts(ch)
      BY <3>1, Zenon DEF SameCounts
    <3> QED BY <2>8, <3>1, <3>2
  <2> QED BY <2>1, <2>2, <2>3, <2>4, <2>5, <2>6, <2>7, <2>9, <2>10, <2>11 DEF Next
<1> QED BY <1>1, <1>2, ControlInvariance, CoreInvariance, PTL DEF Spec

(* A call whose acquisition was accepted and not lost gets all its blocks  *)
(* and fills the caller's buffer; no call copies more than that buffer     *)
(* holds: for every layout of the memory and every request.                *)
THEOREM CurvesComplete == Spec => []CurveIsComplete
<1>1. ClientInv => CurveIsComplete
  <2> SUFFICES ASSUME ClientInv, NEW c \in Client
               PROVE  LET k == client[c] IN
                      /\ k.total <= Bytes(k.req)
                      /\ Counted(k) => /\ k.res # "out_of_range"
                                       /\ k.res = "ok" => k.total = Bytes(k.req)
    BY DEF CurveIsComplete, Counted
  <2>1. PICK k \in CallType : k = client[c] /\ CountInv(k)
    BY Zenon DEF ClientInv
  <2>2. k.total \in Nat /\ k.left \in Nat /\ k.req \in Request /\ k.req.chan \in Chan
    BY <2>1, Zenon DEF CallType, CountInv
  <2>3. Bytes(k.req) \in Nat
    BY <2>2, RequestNumbers
  <2>4. k.total <= Bytes(k.req)
    BY <2>1, <2>2, <2>3 DEF CountInv
  <2> QED BY <2>1, <2>4, Zenon DEF CountInv
<1> QED BY <1>1, ClientInvariance, PTL

------------------------------------------------------------------------------
(* What a call is handed.                                                  *)

(* What the place of an acquisition in the memory depends on.              *)
LEMMA SamePlace ==
    ASSUME NEW p, NEW q, NEW ch, q.pre = p.pre, q.post = p.post, q.shots = p.shots
    PROVE  /\ PreBytes(q, ch) = PreBytes(p, ch) /\ Samples(q) = Samples(p)
           /\ BlockValid(q, ch) = BlockValid(p, ch)
BY Zenon DEF PreBytes, Samples, BlockValid, OverSamples, MultiShot, PerShot

(* A call that reads its curve from channel ch does not notice the step.   *)
Still(ch) ==
    /\ params'[ch].trig = params[ch].trig
    /\ \A a \in RegionOf(ch) : mem'[a] = mem[a]
    /\ curr_chan = ch /\ done => trigPos' = trigPos /\ done'

(* A call that goes on while others, or the core, do something.            *)
LEMMA OwnKept ==
    ASSUME NEW k \in CallType, NEW o \in CallType, Kept(k, o), OwnInv(k), k.req.chan \in Chan,
           SameCounts(k.req.chan), UNCHANGED <<curr_chan, acqs>>,
           Sole(o) /\ k.pc = "poll" /\ (fsm = "idle" => done) => (fsm' = "idle" => done'),
           Sole(o) /\ k.pc = "curve" => Still(k.req.chan)
    PROVE  OwnInv(o)'
<1>1. PICK ch \in Chan : ch = k.req.chan /\ ch = o.req.chan
  BY Zenon DEF Kept
<1>2. Sole(o) => Sole(k)
  BY Zenon DEF Sole, Kept
<1>3. Sole(o)' <=> Sole(o)
  BY Zenon DEF Sole, RequestFits, RoundedSamples
<1>4. PICK p, q : p = params[ch] /\ q = params'[ch]
  OBVIOUS
<1>5. PICK x, y, z : /\ x = PreBytes(p, ch) /\ y = Samples(p) * acq_buf[ch].sample_size
                     /\ z = BlockValid(p, ch)
  BY Zenon
<1>6. /\ x = PreBytes(q, ch) /\ y = Samples(q) * acq_buf[ch].sample_size /\ z = BlockValid(q, ch)
  <2>1. q.pre = p.pre /\ q.post = p.post /\ q.shots = p.shots
    BY <1>1, <1>4, Zenon DEF SameCounts
  <2>2. /\ PreBytes(q, ch) = PreBytes(p, ch) /\ Samples(q) = Samples(p)
        /\ BlockValid(q, ch) = BlockValid(p, ch)
    BY <2>1, SamePlace
  <2> QED BY <1>5, <2>2, Zenon
<1>7. ASSUME Sole(o), o.pc = "poll"
      PROVE  /\ o.acq = acqs' /\ curr_chan' = ch /\ o.own
             /\ fsm' = "idle" => done'
  BY <1>1, <1>2, <1>7, Zenon DEF OwnInv, Kept
<1>8. ASSUME Sole(o), o.pc = "curve"
      PROVE  /\ q.trig \in RegionOf(ch)
             /\ Holds(o.acq, q.trig, x, y, ch)'
             /\ curr_chan' = ch => q.trig = trigPos' /\ done'
             /\ curr_chan' # ch => RegionOf(ch) \cap RegionOf(curr_chan') = {}
             /\ o.own
             /\ o.total = o.idx * BlockSize \/ o.left = 0 \/ o.idx > z
  <2>1. k.pc = "curve" /\ Sole(k) /\ Still(ch)
    BY <1>1, <1>2, <1>8, Zenon DEF Kept
  <2>2. /\ p.trig \in RegionOf(ch)
        /\ Holds(k.acq, p.trig, x, y, ch)
        /\ curr_chan = ch => p.trig = trigPos /\ done
        /\ curr_chan # ch => RegionOf(ch) \cap RegionOf(curr_chan) = {}
        /\ k.own
        /\ k.total = k.idx * BlockSize \/ k.left = 0 \/ k.idx > z
    BY <1>1, <1>4, <1>5, <2>1, Zenon DEF OwnInv
  <2>3. q.trig = p.trig
    BY <1>4, <2>1, Zenon DEF Still
  <2>4. Holds(o.acq, q.trig, x, y, ch)'
    BY <2>1, <2>2, <2>3, Zenon DEF Holds, Still, Kept
  <2> QED BY <2>1, <2>2, <2>3, <2>4, Zenon DEF Still, Kept
<1>9. Sole(o) /\ o.res = "ok" => o.own
  BY <1>2, Zenon DEF OwnInv, Kept
<1> QED BY <1>1, <1>3, <1>4, <1>6, <1>7, <1>8, <1>9, Zenon DEF OwnInv

(* A step of which the call of d notices nothing.                          *)
LEMMA OwnFrame ==
    ASSUME ControlInv, ClientInv, CurveInv, NEW d \in Client, client'[d] = client[d],
           \A ch \in Chan : SameCounts(ch),
           UNCHANGED <<curr_chan, acqs, fsm, done, trigPos, mem>>,
           \A ch \in Chan : \/ params'[ch].trig = params[ch].trig
                            \/ ch = curr_chan /\ params'[ch].trig = trigPos
    PROVE  OwnInv(client[d])'
<1>1. PICK k \in CallType : k = client[d] /\ k = client'[d] /\ OwnInv(k) /\ k.req.chan \in Chan
  BY Zenon DEF ClientInv, CurveInv, CountInv
<1>2. Kept(k, k) /\ SameCounts(k.req.chan)
  BY <1>1, Zenon DEF Kept
<1>3. ASSUME Sole(k), k.pc = "curve" PROVE Still(k.req.chan)
  <2>1. curr_chan = k.req.chan => params[k.req.chan].trig = trigPos
    BY <1>1, <1>3, Zenon DEF OwnInv
  <2> QED BY <1>1, <2>1, Zenon DEF Still
<1>4. OwnInv(k)'
  BY <1>1, <1>2, <1>3, OwnKept, Zenon
<1> QED BY <1>1, <1>4, Zenon

(* A new call.                                                             *)
LEMMA OwnNew ==
    ASSUME NEW c \in Client, NEW r \in Request, r.chan \in Chan, NEW op \in {"full", "read"},
           NEW id \in Nat, client'[c] = NewCall(r, op, id),
           id # 0 => /\ op = "full" /\ id = acqs' /\ curr_chan' = r.chan /\ fsm' # "idle"
    PROVE  OwnInv(client[c])'
<1>1. PICK o : o = client'[c] /\ o = NewCall(r, op, id)
  OBVIOUS
<1>2. /\ o.pc = (IF op = "full" THEN "poll" ELSE "curve") /\ o.req = r
      /\ o.acq = id /\ o.res = "none" /\ o.own
  BY <1>1, NewCallFields
<1>3. CASE id = 0
  <2>1. ~ Sole(o)
    BY <1>2, <1>3, Zenon DEF Sole
  <2>2. ~ Sole(client[c])'
    BY <1>1, <2>1, Zenon DEF Sole, RequestFits, RoundedSamples
  <2> QED BY <2>2, Zenon DEF OwnInv
<1>4. CASE id # 0
  <2>1. o.pc # "curve" /\ o.res # "ok"
    BY <1>2, <1>4
  <2> QED BY <1>1, <1>2, <1>4, <2>1, Zenon DEF OwnInv
<1> QED BY <1>3, <1>4

(* The calls of others when an acquisition starts.                         *)
LEMMA OwnOthers ==
    ASSUME ControlInv, ClientInv, CurveInv, NEW r \in Request, DataAcquire(r), acqs' = acqs + 1,
           NEW d \in Client, client'[d] = Overtake(client[d], r.chan)
    PROVE  OwnInv(client[d])'
<1>0. PICK k \in CallType : k = client[d] /\ OwnInv(k) /\ k.req.chan \in Chan
  BY Zenon DEF ClientInv, CurveInv, CountInv
<1>1. PICK o \in CallType : /\ k = client[d] /\ o = client'[d] /\ OwnInv(k)
                           /\ k.req.chan \in Chan
  BY <1>0, OvertakeFields, Zenon
<1>2. PICK ch \in Chan : ch = k.req.chan
  BY <1>1
<1>3. /\ Kept(k, o)
      /\ k.pc = "poll" => o.overtaken
      /\ k.pc \in {"poll", "curve"} /\ RegionOf(ch) \cap RegionOf(r.chan) # {} => o.lost
  BY <1>1, <1>2, OvertakeFields, Zenon
<1>4. Sole(o)' <=> Sole(o)
  BY Zenon DEF Sole, RequestFits, RoundedSamples
<1>5. Sole(o) => Sole(k) /\ o.pc # "poll"
  BY <1>3, Zenon DEF Sole, Kept
<1>6. ASSUME Sole(o), o.pc = "curve"
      PROVE  /\ params'[ch] = params[ch] /\ \A a \in RegionOf(ch) : mem'[a] = mem[a]
             /\ curr_chan' # ch /\ RegionOf(ch) \cap RegionOf(curr_chan') = {}
  <2>1. RegionOf(ch) \cap RegionOf(r.chan) = {}
    BY <1>3, <1>6, Zenon DEF Sole, Kept
  <2>2. ch # r.chan
    BY <2>1, RegionNotEmpty, Zenon
  <2>3. /\ curr_chan' = r.chan
        /\ mem' = [a \in Addr |-> IF a \in RegionOf(r.chan) THEN NoData ELSE mem[a]]
    BY Zenon DEF DataAcquire, CoreStart
  <2>4. \A a \in RegionOf(ch) : a \in Addr
    BY Layout, MemoryAssumption DEF RegionOf, Addr
  <2>5. \A a \in RegionOf(ch) : mem'[a] = mem[a]
    BY <2>1, <2>3, <2>4, Zenon
  <2> QED BY <2>1, <2>2, <2>3, <2>5, AcquireParams, Zenon
<1>7. PICK p, x, y, z : /\ p = params[ch] /\ x = PreBytes(p, ch) /\ z = BlockValid(p, ch)
                        /\ y = Samples(p) * acq_buf[ch].sample_size
  OBVIOUS
<1>8. ASSUME Sole(o), o.pc = "curve"
      PROVE  /\ p.trig \in RegionOf(ch) /\ Holds(o.acq, p.trig, x, y, ch)' /\ o.own
             /\ o.total = o.idx * BlockSize \/ o.left = 0 \/ o.idx > z
  <2>1. k.pc = "curve" /\ Sole(k)
    BY <1>3, <1>5, <1>8, Zenon DEF Kept
  <2>2. /\ p.trig \in RegionOf(ch) /\ Holds(k.acq, p.trig, x, y, ch) /\ k.own
        /\ k.total = k.idx * BlockSize \/ k.left = 0 \/ k.idx > z
    BY <1>1, <1>2, <1>7, <2>1, Zenon DEF OwnInv
  <2>3. Holds(o.acq, p.trig, x, y, ch)'
    BY <1>3, <1>6, <1>8, <2>2, Zenon DEF Holds, Kept
  <2> QED BY <1>3, <2>2, <2>3, Zenon DEF Kept
<1>9. Sole(o) /\ o.res = "ok" => o.own
  BY <1>1, <1>3, <1>5, Zenon DEF OwnInv, Kept
<1>10. ch = o.req.chan
  BY <1>2, <1>3, Zenon DEF Kept
<1> QED BY <1>1, <1>4, <1>5, <1>6, <1>7, <1>8, <1>9, <1>10, Zenon DEF OwnInv

(* The core writes only to the memory of the channel that has it.          *)
LEMMA OwnCore ==
    ASSUME ControlInv, CoreInv, ClientInv, CurveInv, NEW d \in Client,
           CoreDrained \/ \E x \in 0 .. MaxDelay : CoreTriggered(x)
    PROVE  OwnInv(client[d])'
<1>1. PICK k \in CallType : /\ k = client[d] /\ k = client'[d] /\ OwnInv(k)
                            /\ k.req.chan \in Chan
  BY Zenon DEF ClientInv, CurveInv, CountInv, CoreDrained, CoreTriggered
<1>2. PICK ch \in Chan : ch = k.req.chan
  BY <1>1
<1>3. UNCHANGED <<params, curr_chan, acqs>> /\ fsm # "idle" /\ (fsm' = "idle" => done')
  BY DEF CoreDrained, CoreTriggered, serverVars
<1>4. Kept(k, k) /\ SameCounts(ch)
  BY <1>3, Zenon DEF Kept, SameCounts
<1>5. ASSUME Sole(k), k.pc = "curve" PROVE Still(ch)
  <2>1. ~ done
    BY <1>3 DEF CoreInv
  <2>2. curr_chan # ch /\ RegionOf(ch) \cap RegionOf(curr_chan) = {}
    BY <1>1, <1>2, <1>5, <2>1, Zenon DEF OwnInv
  <2>3. reg.chan = curr_chan
    BY <1>3 DEF ControlInv, CoreMatchesParams
  <2>4. \A a \in RegionOf(ch) : a \in Addr
    BY Layout, MemoryAssumption DEF RegionOf, Addr
  <2>5. \A a \in RegionOf(ch) : mem'[a] = mem[a]
    BY <2>2, <2>3, <2>4, Zenon DEF CoreDrained, CoreTriggered
  <2> QED BY <1>3, <2>2, <2>5, Zenon DEF Still
<1>6. OwnInv(k)'
  BY <1>1, <1>2, <1>3, <1>4, <1>5, OwnKept, Zenon
<1> QED BY <1>1, <1>6, Zenon

(* A stopped acquisition belongs to no call any more.                      *)
LEMMA OwnStop ==
    ASSUME ControlInv, ClientInv, CurveInv, NEW d \in Client, FsmStop
    PROVE  OwnInv(client[d])'
<1>1. PICK k \in CallType, o \in CallType : /\ k = client[d] /\ o = client'[d] /\ OwnInv(k)
                                            /\ k.req.chan \in Chan
  BY StopFields, Zenon DEF ClientInv, CurveInv, CountInv
<1>2. Kept(k, o) /\ (k.pc = "poll" /\ k.acq = acqs => o.lost)
  BY <1>1, StopFields, Zenon
<1>3. UNCHANGED <<params, curr_chan, acqs, done, trigPos, mem>>
  BY Zenon DEF FsmStop, serverVars
<1>4. SameCounts(k.req.chan) /\ Still(k.req.chan)
  BY <1>3, Zenon DEF SameCounts, Still
<1>5. Sole(o) => k.pc # "poll"
  BY <1>1, <1>2, Zenon DEF Sole, Kept, OwnInv
<1>6. OwnInv(o)'
  BY <1>1, <1>2, <1>3, <1>4, <1>5, OwnKept, Zenon
<1> QED BY <1>1, <1>6, Zenon

(* The parameters kept for a call that fits are those of an acquisition    *)
(* that fits.                                                              *)
LEMMA SoleFits ==
    ASSUME NEW k \in CallType, CountInv(k), k.pc # "idle", Sole(k)
    PROVE  LET ch == k.req.chan
               p  == params[ch]
           IN  /\ ch \in Chan /\ p.pre \in Nat /\ p.post \in Nat /\ p.shots \in Nat \ {0}
               /\ p.shots = k.req.shots /\ Samples(p) # 0 /\ Samples(p) \in Nat /\ Fits(p, ch)
               /\ Samples(p) * acq_buf[ch].sample_size <= RegionSize(ch)
<1>0. PICK r \in Request, ch \in Chan : r = k.req /\ ch = r.chan
  BY Zenon DEF CallType, CountInv
<1>1. PICK p : r = k.req /\ ch = r.chan /\ p = params[ch]
  BY <1>0
<1>2. /\ p.pre = PreAligned(ch, r.pre) /\ p.post = PostAligned(ch, r.post) /\ p.shots = r.shots
      /\ RoundedSamples(r) # 0 /\ r.shots # 0
  BY <1>1, Zenon DEF CountInv, Sole, Rounded
<1>3. p.pre \in Nat /\ p.post \in Nat /\ p.shots \in Nat \ {0} /\ RoundedSamples(r) \in Nat
  BY <1>1, <1>2, RequestNumbers
<1>4. Samples(p) = RoundedSamples(r)
  BY <1>1, <1>2, Zenon DEF Samples, RoundedSamples
<1>5. RoundedSamples(r) * acq_buf[ch].sample_size <= RegionSize(ch)
  BY <1>1, Zenon DEF Sole, RequestFits
<1>6. Samples(p) * acq_buf[ch].sample_size <= RegionSize(ch) /\ Fits(p, ch)
  BY <1>4, <1>5, Zenon DEF Fits, Samples
<1> QED BY <1>1, <1>2, <1>3, <1>4, <1>6, Zenon

(* A call that finds its acquisition complete has it in the memory.        *)
LEMMA OwnPoll ==
    ASSUME ControlInv, CoreInv, ClientInv, CurveInv, NEW c \in Client, PollDone(c)
    PROVE  OwnInv(client[c])'
<1>1. PICK k \in CallType : /\ k = client[c] /\ k.pc = "poll" /\ OwnInv(k) /\ CountInv(k)
  BY Zenon DEF ClientInv, CurveInv, PollDone
<1>2. PICK o : o = client'[c] /\ o = [k EXCEPT !.pc = "curve"]
  BY <1>1, Zenon DEF PollDone, ClientInv
<1>3. /\ o.pc = "curve" /\ o.req = k.req /\ o.acq = k.acq
      /\ o.overtaken = k.overtaken /\ o.lost = k.lost /\ o.idx = k.idx /\ o.left = k.left
      /\ o.total = k.total /\ o.own = k.own /\ o.res = k.res
  BY <1>2, Zenon DEF CallType
<1>4. Sole(o) <=> Sole(k)
  BY <1>3, Zenon DEF Sole
<1>5. Sole(o)' <=> Sole(o)
  BY Zenon DEF Sole, RequestFits, RoundedSamples
<1>6. CASE ~ Sole(o)
  BY <1>2, <1>5, <1>6, Zenon DEF OwnInv
<1>7. CASE Sole(o)
  <2>0. PICK ch \in Chan : ch = k.req.chan
    BY <1>1, Zenon DEF CountInv
  <2>1. PICK p, q : ch = k.req.chan /\ p = params[ch] /\ q = params'[ch]
    BY <2>0
  <2>2. /\ p.pre \in Nat /\ p.post \in Nat /\ p.shots \in Nat \ {0} /\ p.shots = k.req.shots
        /\ Samples(p) * acq_buf[ch].sample_size <= RegionSize(ch)
    <3>1. k.pc # "idle" /\ Sole(k)
      BY <1>1, <1>4, <1>7
    <3> QED BY <1>1, <2>1, <3>1, SoleFits, Zenon
  <2>3. k.acq = acqs /\ curr_chan = ch /\ k.own
    BY <1>1, <1>4, <1>7, <2>1, Zenon DEF OwnInv
  <2>4. CheckDataAcquire /\ done /\ UNCHANGED <<curr_chan, trigPos, done, mem, acqs>>
    BY Zenon DEF PollDone, CheckDataAcquire, CoreComplete, coreVars
  <2>5. q.pre = p.pre /\ q.post = p.post /\ q.shots = p.shots /\ q.trig = trigPos
    BY <2>1, <2>3, <2>4, CheckKeeps, Zenon
  <2>6. acqs > 0 /\ trigPos \in RegionOf(ch)
    BY <2>3, <2>4, Zenon DEF CoreInv
  <2>7. /\ reg.chan = ch /\ reg.pre = p.pre /\ reg.post = p.post /\ reg.shots = p.shots % ShotsMod
    BY <2>1, <2>3, <2>6, Zenon DEF ControlInv, CoreMatchesParams
  <2>8. p.shots % ShotsMod = p.shots
    <3>1. p.shots < ShotsMod /\ ShotsMod \in Nat \ {0}
      BY <1>7, <1>3, <2>2, RequestAssumption DEF Sole
    <3> QED BY <2>2, <3>1, SmallMod
  <2>9. PICK x, y : x = PreBytes(p, ch) /\ y = Samples(p) * acq_buf[ch].sample_size
    OBVIOUS
  <2>10. CorePreBytes = x /\ CoreBytes = y
    BY <2>7, <2>8, <2>9, Zenon DEF CorePreBytes, CoreBytes, SampleSize, PreBytes, Samples
  <2>11. y <= RegionSize(ch)
    BY <2>2, <2>9, Zenon
  <2>12. Holds(acqs, trigPos, x, y, ch)
    BY <2>3, <2>4, <2>10, <2>11, Zenon DEF CoreInv
  <2>13. Holds(o.acq, q.trig, x, y, ch)'
    BY <1>3, <2>3, <2>4, <2>5, <2>12, Zenon DEF Holds
  <2>14. x = PreBytes(q, ch) /\ y = Samples(q) * acq_buf[ch].sample_size
    <3>1. PreBytes(q, ch) = PreBytes(p, ch) /\ Samples(q) = Samples(p)
      BY <2>5, SamePlace
    <3> QED BY <2>9, <3>1, Zenon
  <2>15. o.total = o.idx * BlockSize
    <3>1. o.total = 0 /\ o.idx = 0
      BY <1>1, <1>3, Zenon DEF CountInv
    <3> QED BY <3>1, LayoutAssumption
  <2>16. o.pc # "poll" /\ o.own
    BY <1>3, <2>3
  <2> QED BY <1>2, <1>3, <2>1, <2>3, <2>4, <2>5, <2>6, <2>13, <2>14, <2>15, <2>16, Zenon DEF OwnInv
<1> QED BY <1>6, <1>7

(* An offset within the memory, found a turn before or after.              *)
LEMMA TurnMod ==
    ASSUME NEW R \in Nat \ {0}, NEW o \in 0 .. R - 1, NEW y \in Int,
           y = o \/ y = o + R \/ y = o - R
    PROVE  y % R = o
OBVIOUS

(* Block n of an acquisition that fits, number id, which is in the memory  *)
(* of its channel.                                                         *)
BlockOf(id, p, ch, n) ==
    /\ p.pre \in Nat /\ p.post \in Nat /\ p.shots \in Nat \ {0} /\ Samples(p) # 0 /\ Fits(p, ch)
    /\ p.trig \in RegionOf(ch) /\ n <= BlockValid(p, ch)
    /\ Holds(id, p.trig, PreBytes(p, ch), Samples(p) * acq_buf[ch].sample_size, ch)

(* The bytes that are read for it inside the memory are its own.           *)
Handed(id, p, ch, n) ==
    \A j \in Nat : j < ReplySize(p, ch, n) /\ BlockAddr(p, ch, n) + j < EndMem(ch) =>
       ByteAt(BlockAddr(p, ch, n) + j) = <<id, n * BlockSize + j>>

(* A block of an acquisition that is in the memory: wherever it is read    *)
(* inside the memory, it is what it should be.                             *)
LEMMA BlockHeld ==
    ASSUME NEW ch \in Chan, NEW p, NEW n \in Nat, NEW id, BlockOf(id, p, ch, n)
    PROVE  Handed(id, p, ch, n)
<1> SUFFICES ASSUME NEW j \in Nat, j < ReplySize(p, ch, n), BlockAddr(p, ch, n) + j < EndMem(ch)
             PROVE  ByteAt(BlockAddr(p, ch, n) + j) = <<id, n * BlockSize + j>>
  BY DEF Handed
<1>0. /\ p.pre \in Nat /\ p.post \in Nat /\ p.shots \in Nat \ {0} /\ Samples(p) # 0 /\ Fits(p, ch)
      /\ p.trig \in RegionOf(ch) /\ n <= BlockValid(p, ch)
      /\ Holds(id, p.trig, PreBytes(p, ch), Samples(p) * acq_buf[ch].sample_size, ch)
  BY DEF BlockOf
<1>1. PICK start \in Nat, end \in Nat, R \in Nat \ {0} :
         /\ start = acq_buf[ch].start_addr /\ end = EndMem(ch) /\ R = RegionSize(ch)
         /\ end = start + R
  BY Layout
<1>2. PICK trig \in Int : trig = p.trig
  BY <1>0, <1>1 DEF RegionOf
<1>3. PICK pre \in 0 .. R, x \in Nat, z \in 1 .. BlockSize :
         /\ pre = PreBytes(p, ch) /\ x = n * BlockSize /\ z = ReplySize(p, ch, n)
  BY <1>0, <1>1, BlockNumbers, Zenon
<1>4. PICK y \in Int : y = Samples(p) * acq_buf[ch].sample_size /\ x + z <= y /\ y <= R
  <2>1. Samples(p) \in Nat /\ acq_buf[ch].sample_size \in Nat
    <3>1. p.pre \in Nat /\ p.post \in Nat /\ p.shots \in Nat
      BY <1>0, Zenon
    <3>2. (p.pre + p.post) * p.shots \in Nat
      BY <3>1
    <3>3. acq_buf[ch].sample_size \in Nat
      BY Layout
    <3> QED BY <3>2, <3>3, Zenon DEF Samples
  <2>2. Samples(p) * acq_buf[ch].sample_size \in Int
    <3>1. PICK u \in Nat, v \in Nat : u = Samples(p) /\ v = acq_buf[ch].sample_size
      BY <2>1
    <3> QED BY <3>1
  <2>3. /\ x + z <= Samples(p) * acq_buf[ch].sample_size
        /\ Samples(p) * acq_buf[ch].sample_size <= R
    BY <1>0, <1>1, <1>3, BlockNumbers, Zenon
  <2> QED BY <2>2, <2>3
<1>5. PICK f \in Int, a \in Int :
         /\ f = FirstAddr(p, ch) /\ a = BlockAddr(p, ch, n)
         /\ f = trig - pre \/ f = trig - pre + R
         /\ a \in start .. end
         /\ a = IF f + x <= end THEN f + x ELSE f + x - R
  <2>1. FirstAddr(p, ch) \in Int /\ BlockAddr(p, ch, n) \in Int
    <3>1. FirstAddr(p, ch) \in RegionOf(ch) /\ BlockAddr(p, ch, n) \in start .. end
      BY <1>0, <1>1, BlockPlace, Zenon
    <3>2. FirstAddr(p, ch) \in start .. end - 1
      BY <1>1, <3>1, Zenon DEF RegionOf
    <3> QED BY <3>1, <3>2
  <2>2. \/ FirstAddr(p, ch) = trig - pre
        \/ FirstAddr(p, ch) = trig - pre + R
    BY <1>0, <1>1, <1>2, <1>3, BlockPlace, Zenon
  <2>3. BlockAddr(p, ch, n) \in start .. end
    BY <1>0, <1>1, BlockPlace, Zenon
  <2>4. BlockAddr(p, ch, n) = IF FirstAddr(p, ch) + x <= end THEN FirstAddr(p, ch) + x
                              ELSE FirstAddr(p, ch) + x - R
    BY <1>0, <1>1, <1>3, BlockPlace, Zenon
  <2> QED BY <2>1, <2>2, <2>3, <2>4
<1>6. x + j \in 0 .. R - 1 /\ x + j < y
  <2>1. j < z
    BY <1>3
  <2> QED BY <1>4, <2>1, LayoutAssumption
<1>7. a + j \in RegionOf(ch)
  BY <1>1, <1>5 DEF RegionOf
<1>8. ((a + j) - trig + pre) % R = x + j
  <2>1. PICK w \in Int : w = (a + j) - trig + pre
    OBVIOUS
  <2>2. w = x + j \/ w = (x + j) + R \/ w = (x + j) - R
    BY <1>5, <2>1
  <2> QED BY <1>6, <2>1, <2>2, TurnMod, Zenon
<1>9. mem[a + j] = <<id, x + j>>
  <2>1. Holds(id, trig, pre, y, ch)
    BY <1>0, <1>2, <1>3, <1>4, Zenon
  <2>2. PICK e : e = a + j /\ e \in RegionOf(ch)
    BY <1>7
  <2>3. PICK w : w = x + j /\ w < y
    BY <1>6
  <2>4. (e - trig + pre) % RegionSize(ch) = w
    BY <1>1, <1>8, <2>2, <2>3, Zenon
  <2>5. mem[e] = <<id, w>>
    BY <2>1, <2>2, <2>3, <2>4, Zenon DEF Holds
  <2> QED BY <2>2, <2>3, <2>5, Zenon
<1>10. a + j \in Addr
  <2>1. a + j \in start .. end - 1
    BY <1>1, <1>7, Zenon DEF RegionOf
  <2>2. MemSize \in Nat /\ end <= MemSize
    BY <1>1, MemoryAssumption, Zenon
  <2> QED BY <2>1, <2>2 DEF Addr
<1> QED BY <1>3, <1>5, <1>9, <1>10, Zenon DEF ByteAt

(* A call that reads a block gets its own bytes.                           *)
LEMMA OwnBlock ==
    ASSUME ControlInv, ClientInv, CurveInv, NEW c \in Client, CurveBlock(c)
    PROVE  OwnInv(client[c])'
<1>1. PICK k \in CallType, o \in CallType : /\ k = client[c] /\ o = client'[c] /\ OwnInv(k)
                                            /\ CountInv(k)
  BY BlockFields, Zenon DEF ClientInv, CurveInv
<1>0. PICK ch \in Chan, i \in Nat, l \in Nat, t \in Nat :
         ch = k.req.chan /\ i = k.idx /\ l = k.left /\ t = k.total
  BY <1>1, Zenon DEF CountInv, CallType
<1>2. PICK p, a : /\ ch = k.req.chan /\ p = params[ch] /\ i = k.idx /\ l = k.left /\ t = k.total
                  /\ a = BlockAddr(p, ch, i)
  BY <1>0
<1>3. PICK z \in Nat, n \in 0 .. l :
         /\ z = ReplySize(p, ch, i) /\ n <= z /\ (n = l \/ n = z) /\ a = BlockAddr(p, ch, i)
         /\ o.left = l - n /\ o.total = t + n /\ o.idx = i + 1
         /\ o.own <=> k.own /\ \A j \in 0 .. n - 1 :
                                   a + j < EndMem(ch) => ByteAt(a + j) = <<k.acq, t + j>>
  <2>1. PICK z \in Nat, n \in 0 .. l : z = ReplySize(p, ch, i) /\ n = Least(l, z)
    BY <1>1, <1>2, BlockFields, Zenon
  <2>2. /\ n <= z /\ (n = l \/ n = z)
        /\ o.left = l - n /\ o.total = t + n /\ o.idx = i + 1
    BY <1>1, <1>2, <2>1, BlockFields, Zenon
  <2>3. o.own <=> k.own /\ \A j \in 0 .. n - 1 :
                              a + j < EndMem(ch) => ByteAt(a + j) = <<k.acq, t + j>>
    BY <1>1, <1>2, <2>1, BlockFields, Zenon
  <2> QED BY <1>2, <2>1, <2>2, <2>3, Zenon
<1>4. /\ o.req = k.req /\ o.acq = k.acq /\ o.lost = k.lost /\ o.overtaken = k.overtaken
      /\ o.pc = "idle" \/ o.pc = k.pc
  BY <1>1, BlockFields, Zenon
<1>5. /\ k.pc = "curve" /\ BlockInRange(p, ch, i)
      /\ UNCHANGED <<params, curr_chan, trigPos, done, mem, acqs>>
  BY <1>1, <1>2 DEF CurveBlock, serverVars, coreVars
<1>6. i <= BlockValid(p, ch)
  BY <1>5, Zenon DEF BlockInRange
<1>7. Sole(o) <=> Sole(k)
  BY <1>4, Zenon DEF Sole
<1>8. Sole(o)' <=> Sole(o)
  BY Zenon DEF Sole, RequestFits, RoundedSamples
<1>9. CASE ~ Sole(o)
  BY <1>1, <1>8, <1>9, Zenon DEF OwnInv
<1>10. CASE Sole(o)
  <2>1. /\ p.trig \in RegionOf(ch)
        /\ Holds(k.acq, p.trig, PreBytes(p, ch), Samples(p) * acq_buf[ch].sample_size, ch)
        /\ curr_chan = ch => p.trig = trigPos /\ done
        /\ curr_chan # ch => RegionOf(ch) \cap RegionOf(curr_chan) = {}
        /\ k.own
        /\ t = i * BlockSize \/ l = 0 \/ i > BlockValid(p, ch)
    BY <1>1, <1>2, <1>5, <1>7, <1>10, Zenon DEF OwnInv
  <2>2. /\ p.pre \in Nat /\ p.post \in Nat /\ p.shots \in Nat \ {0} /\ Fits(p, ch)
        /\ Samples(p) # 0
    <3>1. k.pc # "idle" /\ Sole(k)
      BY <1>5, <1>7, <1>10
    <3> QED BY <1>1, <1>2, <3>1, SoleFits, Zenon
  <2>3. BlockValid(p, ch) \in Int
    <3>1. PerShot(p) \in Nat
      BY <2>2, LayoutAssumption DEF PerShot
    <3>2. PICK u \in Nat : u = PerShot(p) * p.shots
      BY <2>2, <3>1
    <3>3. PICK v \in Nat, b \in Nat \ {0} : v = MultiShot(p) /\ b = PerBlock(ch)
      BY <3>2, Layout, LayoutAssumption DEF MultiShot
    <3>4. v \div b \in Nat
      OBVIOUS
    <3> QED BY <3>3, <3>4 DEF BlockValid
  <2>6. Holds(o.acq, p.trig, PreBytes(p, ch), Samples(p) * acq_buf[ch].sample_size, ch)'
    BY <1>4, <1>5, <2>1, Zenon DEF Holds
  <2>4. CASE l = 0
    <3>1. n = 0 /\ \A j \in 0 .. n - 1 : FALSE
      BY <1>3, <2>4
    <3>2. o.own
      BY <1>3, <2>1, <3>1, Zenon
    <3>3. o.left = 0
      BY <1>3, <2>4, <3>1
    <3> QED BY <1>1, <1>2, <1>4, <1>5, <2>1, <2>6, <3>2, <3>3, Zenon DEF OwnInv
  <2>5. CASE l # 0
    <3>1. t = i * BlockSize
      BY <1>2, <1>6, <2>1, <2>3, <2>5
    <3>0. \A j \in Nat : j < z /\ a + j < EndMem(ch) =>
                           ByteAt(a + j) = <<k.acq, i * BlockSize + j>>
      <4>1. BlockOf(k.acq, p, ch, i)
        BY <1>6, <2>1, <2>2, Zenon DEF BlockOf
      <4>2. Handed(k.acq, p, ch, i)
        BY <4>1, BlockHeld
      <4> QED BY <1>2, <1>3, <4>2, Zenon DEF Handed
    <3>2. ASSUME NEW j \in 0 .. n - 1, a + j < EndMem(ch)
          PROVE  ByteAt(a + j) = <<k.acq, t + j>>
      <4>1. j \in Nat /\ j < z
        BY <1>3, <3>2
      <4> QED BY <3>0, <3>1, <3>2, <4>1, Zenon
    <3>3. o.own
      BY <1>3, <2>1, <3>2, Zenon
    <3>4. o.total = o.idx * BlockSize \/ o.left = 0 \/ o.idx > BlockValid(p, ch)
      <4>1. CASE n = l
        BY <1>3, <4>1
      <4>2. CASE n = z /\ i = BlockValid(p, ch)
        BY <1>3, <2>3, <4>2
      <4>3. CASE n = z /\ i # BlockValid(p, ch)
        <5>1. z = BlockSize
          BY <1>3, <1>6, <2>2, <4>3, BlockNumbers, Zenon
        <5>2. i * BlockSize + BlockSize = (i + 1) * BlockSize
          BY LayoutAssumption
        <5> QED BY <1>3, <3>1, <4>3, <5>1, <5>2
      <4> QED BY <1>3, <4>1, <4>2, <4>3
    <3> QED BY <1>1, <1>2, <1>4, <1>5, <2>1, <2>6, <3>3, <3>4, Zenon DEF OwnInv
  <2> QED BY <2>4, <2>5
<1> QED BY <1>9, <1>10

(* What a call is handed is its own, in every behaviour.                   *)
THEOREM CurveInvariance == Spec => []CurveInv
<1>1. Init => CurveInv
  <2> SUFFICES ASSUME Init, NEW c \in Client PROVE OwnInv(client[c])
    BY DEF CurveInv
  <2>1. client[c] = IdleClient
    BY Zenon DEF Init
  <2>2. ~ Sole(client[c])
    BY <2>1, IdleFields, Zenon DEF Sole
  <2> QED BY <2>2, Zenon DEF OwnInv
<1>2. ControlInv /\ CoreInv /\ ClientInv /\ CurveInv /\ [Next]_vars => CurveInv'
  <2> SUFFICES ASSUME ControlInv, CoreInv, ClientInv, CurveInv, [Next]_vars, NEW d \in Client
               PROVE  OwnInv(client[d])'
    BY Zenon DEF CurveInv
  <2>1. ASSUME UNCHANGED <<params, curr_chan, acqs, fsm, done, trigPos, mem>>,
               client'[d] = client[d]
        PROVE  OwnInv(client[d])'
    <3>1. \A ch \in Chan : SameCounts(ch) /\ params'[ch].trig = params[ch].trig
      BY <2>1, Zenon DEF SameCounts
    <3> QED BY <2>1, <3>1, OwnFrame, Zenon
  <2>2. ASSUME client'[d].acq = 0 \/ (client'[d].pc = "idle" /\ client'[d].res # "ok")
        PROVE  OwnInv(client[d])'
    <3>1. CASE client'[d].acq = 0
      <4>1. ~ Sole(client[d])'
        BY <3>1, Zenon DEF Sole
      <4> QED BY <4>1, Zenon DEF OwnInv
    <3>2. CASE client'[d].pc = "idle" /\ client'[d].res # "ok"
      <4>1. client'[d].pc # "poll" /\ client'[d].pc # "curve"
        BY <3>2
      <4> QED BY <3>2, <4>1, Zenon DEF OwnInv
    <3> QED BY <2>2, <3>1, <3>2
  <2>3. ASSUME NEW c \in Client, NEW r \in Request, FullAcqAccepted(c, r)
        PROVE  OwnInv(client[d])'
    <3>1. /\ DataAcquire(r) /\ acqs' = acqs + 1
          /\ client' = [k \in Client |-> IF k = c THEN NewCall(r, "full", acqs + 1)
                                                  ELSE Overtake(client[k], r.chan)]
      BY <2>3, Zenon DEF FullAcqAccepted
    <3>2. CASE d # c
      <4>1. client'[d] = Overtake(client[d], r.chan)
        BY <3>1, <3>2, Zenon
      <4> QED BY <3>1, <4>1, OwnOthers, Zenon
    <3>3. CASE d = c
      <4>1. PICK id \in Nat : id = acqs + 1
        BY DEF ControlInv, ControlType
      <4>2. client'[d] = NewCall(r, "full", id) /\ id = acqs'
        BY <3>1, <3>3, <4>1, Zenon
      <4>3. r.chan \in Chan /\ curr_chan' = r.chan /\ fsm' # "idle"
        BY <3>1 DEF DataAcquire, Accepts, CoreStart
      <4> QED BY <4>2, <4>3, OwnNew
    <3> QED BY <3>2, <3>3
  <2>4. ASSUME NEW r \in Request, AcqStart(r) PROVE OwnInv(client[d])'
    <3>1. /\ DataAcquire(r) /\ acqs' = acqs + 1 /\ client'[d] = Overtake(client[d], r.chan)
      BY <2>4, Zenon DEF AcqStart
    <3> QED BY <3>1, OwnOthers, Zenon
  <2>5. ASSUME NEW c \in Client, NEW r \in Request, FullAcqRefused(c, r) \/ ReadCurve(c, r)
        PROVE  OwnInv(client[d])'
    <3>1. PICK op \in {"full", "read"} : client' = [client EXCEPT ![c] = NewCall(r, op, 0)]
      BY <2>5, Zenon DEF FullAcqRefused, ReadCurve
    <3>2. /\ r.chan \in Chan
          /\ UNCHANGED <<params, curr_chan, acqs, fsm, done, trigPos, mem>>
      BY <2>5, Zenon DEF FullAcqRefused, ReadCurve, serverVars, coreVars
    <3>3. CASE d # c
      <4>1. client'[d] = client[d]
        BY <3>1, <3>3, Zenon DEF ClientInv
      <4> QED BY <2>1, <3>2, <4>1
    <3>4. CASE d = c
      <4>1. client'[d] = NewCall(r, op, 0)
        BY <3>1, <3>4, Zenon DEF ClientInv
      <4>2. client'[d].acq = 0
        BY <3>2, <4>1, NewCallFields
      <4> QED BY <2>2, <4>2
    <3> QED BY <3>3, <3>4
  <2>6. ASSUME NEW c \in Client, PollDone(c) PROVE OwnInv(client[d])'
    <3>1. CASE d = c
      BY <2>6, <3>1, OwnPoll, Zenon
    <3>2. CASE d # c
      <4>1. /\ client'[d] = client[d] /\ CheckDataAcquire
            /\ UNCHANGED <<curr_chan, acqs, fsm, done, trigPos, mem>>
        BY <2>6, <3>2, Zenon DEF PollDone, coreVars, ClientInv
      <4> QED BY <4>1, CheckKeeps, OwnFrame, Zenon DEF SameCounts
    <3> QED BY <3>1, <3>2
  <2>7. ASSUME NEW c \in Client, GiveUp(c) \/ CurveOutOfRange(c) PROVE OwnInv(client[d])'
    <3>1. UNCHANGED <<params, curr_chan, acqs, fsm, done, trigPos, mem>>
      BY <2>7, Zenon DEF GiveUp, CurveOutOfRange, serverVars, coreVars
    <3>2. CASE d # c
      <4>1. client'[d] = client[d]
        BY <2>7, <3>2, Zenon DEF GiveUp, CurveOutOfRange, ClientInv
      <4> QED BY <2>1, <3>1, <4>1
    <3>3. CASE d = c /\ GiveUp(c)
      <4>1. client'[d] = [IdleClient EXCEPT !.res = "gave_up"]
        BY <3>3, Zenon DEF GiveUp, ClientInv
      <4>2. client'[d].acq = 0
        BY <4>1, IdleFields, Zenon DEF CallType
      <4> QED BY <2>2, <4>2
    <3>4. CASE d = c /\ CurveOutOfRange(c)
      <4>1. client' = [client EXCEPT ![c].pc = "idle", ![c].res = "out_of_range"]
        BY <3>4 DEF CurveOutOfRange
      <4>2. client'[d].pc = "idle" /\ client'[d].res # "ok"
        BY <3>4, <4>1 DEF ClientInv, CallType
      <4> QED BY <2>2, <4>2
    <3> QED BY <2>7, <3>2, <3>3, <3>4
  <2>8. ASSUME NEW c \in Client, CurveBlock(c) PROVE OwnInv(client[d])'
    <3>1. CASE d = c
      BY <2>8, <3>1, OwnBlock, Zenon
    <3>2. CASE d # c
      <4>1. UNCHANGED <<params, curr_chan, acqs, fsm, done, trigPos, mem>>
        BY <2>8, Zenon DEF CurveBlock, serverVars, coreVars
      <4>2. client'[d] = client[d]
        BY <2>8, <3>2, Zenon DEF CurveBlock, ClientInv
      <4> QED BY <2>1, <4>1, <4>2
    <3> QED BY <3>1, <3>2
  <2>9. CASE AcqCheck
    <3>1. /\ client'[d] = client[d] /\ CheckDataAcquire
          /\ UNCHANGED <<curr_chan, acqs, fsm, done, trigPos, mem>>
      BY <2>9, Zenon DEF AcqCheck, coreVars
    <3> QED BY <3>1, CheckKeeps, OwnFrame, Zenon DEF SameCounts
  <2>10. CASE \E t \in TriggerType : CfgTrigger(t)
    <3>1. client'[d] = client[d] /\ UNCHANGED <<params, curr_chan, acqs, fsm, done, trigPos, mem>>
      BY <2>10, Zenon DEF CfgTrigger, serverVars
    <3> QED BY <2>1, <3>1
  <2>11. CASE SwTrig \/ UNCHANGED vars
    <3>1. client'[d] = client[d] /\ UNCHANGED <<params, curr_chan, acqs, fsm, done, trigPos, mem>>
      BY <2>11, Zenon DEF SwTrig, serverVars, vars
    <3> QED BY <2>1, <3>1
  <2>12. CASE FsmStop
    BY <2>12, OwnStop, Zenon
  <2>13. CASE CoreDrained \/ \E x \in 0 .. MaxDelay : CoreTriggered(x)
    BY <2>13, OwnCore, Zenon
  <2> QED
    BY <2>3, <2>4, <2>5, <2>6, <2>7, <2>8, <2>9, <2>10, <2>11, <2>12, <2>13 DEF Next
<1> QED BY <1>1, <1>2, ControlInvariance, CoreInvariance, ClientInvariance, PTL DEF Spec

(* A call of bpm_full_acq that was not overtaken and not lost returns the  *)
(* bytes of its own acquisition, wherever the acquisition lies in the      *)
(* circular memory and whatever other clients acquire; and a curve that    *)
(* follows a refusal was acquired before.                                  *)
THEOREM CurvesOwn == Spec => []CurveIsOwn
<1>1. ClientInv /\ CurveInv => CurveIsOwn
  <2> SUFFICES ASSUME ClientInv, CurveInv, NEW c \in Client
               PROVE  LET k == client[c] IN
                      /\ Sole(k) /\ k.res = "ok" => k.own
                      /\ k.op = "full" /\ k.res = "ok" /\ k.acq = 0 => acqs > 0
    BY Zenon DEF CurveIsOwn, Sole
  <2>1. OwnInv(client[c]) /\ CountInv(client[c])
    BY Zenon DEF ClientInv, CurveInv
  <2> QED BY <2>1, Zenon DEF OwnInv, CountInv
<1> QED BY <1>1, ClientInvariance, CurveInvariance, PTL
==============================================================================
