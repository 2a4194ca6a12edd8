--------------------------------- MODULE Acq ---------------------------------
(***************************************************************************)
(* The acquisition SMIO, the acquisition core of the FPGA it drives, and   *)
(* clients of libbpmclient that acquire curves through it.                 *)
(*                                                                         *)
(* The SMIO serves one request at a time and the core does not leave its   *)
(* idle state by itself, so that every request is one step.  A client's    *)
(* call bpm_full_acq is a request for an acquisition, requests that ask    *)
(* whether it is complete, and one request per block: requests of other    *)
(* clients and steps of the core come between them.  Every request gets    *)
(* its reply before the client's timeout, and register accesses succeed.   *)
(*                                                                         *)
(* Acquisitions are numbered, and the memory holds, for every byte, which  *)
(* byte of which acquisition was written there: what a client is handed    *)
(* can then be compared with what it asked for.                            *)
(***************************************************************************)
EXTENDS AcqAddr

CONSTANTS
    Client,
    Request,        \* requests of clients, [pre, post, shots, chan]
    MultishotMem,   \* ACQ_CORE_MULTISHOT_MEM_SIZE, samples
    ShotsMod,       \* 2^16: width of the field NB of register SHOTS
    MemSize,        \* bytes of the acquisition memory
    MaxDelay,       \* bound: payloads written before the samples that are kept
    MaxAcq          \* bound: acquisitions started

ASSUME RequestAssumption ==
    /\ \E r \in Request : r.chan \in Chan
    /\ \A r \in Request : /\ r.pre \in 0 .. U32 - 1 /\ r.post \in 0 .. U32 - 1
                          /\ r.shots \in 0 .. U32 - 1 /\ r.chan \in 0 .. U32 - 1
    /\ ShotsMod \in Nat \ {0}
    /\ MultishotMem \in Nat /\ MultishotMem + 2 * PayloadSize < U32

(* The memory of every channel is there.                                   *)
ASSUME MemoryAssumption ==
    MemSize \in Nat /\ \A ch \in Chan : EndMem(ch) <= MemSize

VARIABLES
    params,         \* acq_params: per channel [pre, post, shots, trig]
    curr_chan,      \* channel of the acquisition that was started last
    reg,            \* registers of the core
    fsm,            \* the core: "idle", "acq" or "drain" (data still in its FIFOs)
    done,           \* the three DONE flags of register STA
    trigPos,        \* register TRIG_POS
    swTrig,         \* a software trigger was given to the running acquisition
    mem,            \* per byte <<acquisition, index>>, or NoData
    acqs,           \* number of acquisitions started
    client          \* per client, its call of bpm_full_acq

serverVars == <<params, curr_chan>>
coreVars == <<reg, fsm, done, trigPos, swTrig, mem>>
vars == <<params, curr_chan, reg, fsm, done, trigPos, swTrig, mem, acqs, client>>

TriggerType == {"skip", "hw_pulse", "hw_data", "sw"}

NoData == <<0, 0>>

Addr == 0 .. MemSize - 1

IdleClient ==
    [pc |-> "idle", op |-> "full", req |-> CHOOSE r \in Request : r.chan \in Chan, acq |-> 0,
     overtaken |-> FALSE, lost |-> FALSE, idx |-> 0, left |-> 0, total |-> 0,
     own |-> TRUE, res |-> "none"]

------------------------------------------------------------------------------
Init ==
    /\ params = [ch \in Chan |-> [pre |-> 0, post |-> 0, shots |-> 1,
                                  trig |-> acq_buf[ch].start_addr]]
    /\ curr_chan = 0
    /\ reg = [pre |-> 0, post |-> 0, shots |-> 0, start |-> 0, end |-> 0, chan |-> 0,
              now |-> FALSE, hwEn |-> FALSE, swEn |-> FALSE, hwSel |-> FALSE]
    /\ fsm = "idle"
    /\ done = FALSE
    /\ trigPos = 0
    /\ swTrig = FALSE
    /\ mem = [a \in Addr |-> NoData]
    /\ acqs = 0
    /\ client = [c \in Client |-> IdleClient]

------------------------------------------------------------------------------
(* Status of the core.                                                     *)

(* ACQ_CORE_IDLE_MASK.                                                     *)
CoreIdle == fsm = "idle"

(* ACQ_CORE_COMPLETE_MASK.                                                 *)
CoreComplete == fsm = "idle" /\ done

(* _acq_get_trigger_type; with no trigger enabled the 0 it started from is *)
(* returned, which is the value of the skip trigger.                       *)
GetTriggerType ==
    IF reg.now THEN IF reg.hwEn \/ reg.swEn THEN "error" ELSE "skip"
    ELSE IF reg.hwEn THEN IF reg.hwSel THEN "hw_pulse" ELSE "hw_data"
    ELSE IF reg.swEn THEN "sw"
    ELSE "skip"

------------------------------------------------------------------------------
(* Request for an acquisition.                                             *)

(* Seeded defect: the samples after the trigger are not counted.           *)
TooManyPreSamples(r) ==
    \/ r.shots = 1 /\ r.pre > acq_buf[r.chan].max_samples
    \/ r.shots > 1 /\ r.pre > MultishotMem

TooManySamples(r) ==
    LET n == (r.pre + r.post) % U32
    IN  \/ r.shots = 1 /\ n > acq_buf[r.chan].max_samples
        \/ r.shots > 1 /\ n > MultishotMem

(* Seeded defect: samples after the trigger are accepted whatever the      *)
(* trigger.                                                                *)
AcceptsAnyTrigger(r) ==
    CoreIdle /\ r.chan \in Chan /\ r.shots >= 1 /\ ~ TooManySamples(r)

(* The early returns of _acq_data_acquire, in their order.                 *)
Accepts(r) ==
    /\ CoreIdle
    /\ r.chan \in Chan
    /\ r.shots >= 1
    /\ ~ TooManySamples(r)
    /\ GetTriggerType # "error"
    /\ ~ (GetTriggerType = "skip" /\ r.post > 0)

RegionOf(ch) == acq_buf[ch].start_addr .. EndMem(ch) - 1

(* The core starts: flags are cleared, and from here on the bytes of the   *)
(* channel's memory may be overwritten at any moment.                      *)
CoreStart(ch) ==
    /\ fsm' = "acq"
    /\ done' = FALSE
    /\ swTrig' = FALSE
    /\ mem' = [a \in Addr |-> IF a \in RegionOf(ch) THEN NoData ELSE mem[a]]
    /\ UNCHANGED trigPos

(* _acq_data_acquire when it accepts the request.                          *)
DataAcquire(r) ==
    /\ Accepts(r)
    /\ LET b == acq_buf[r.chan]
           pre == PreAligned(r.chan, r.pre)
           post == PostAligned(r.chan, r.post)
       IN  /\ params' = [params EXCEPT ![r.chan].pre = pre, ![r.chan].post = post,
                                       ![r.chan].shots = r.shots]
           /\ reg' = [reg EXCEPT !.pre = pre, !.post = post, !.shots = r.shots % ShotsMod,
                                 !.start = b.start_addr, !.end = b.end_addr, !.chan = r.chan]
    /\ CoreStart(r.chan)
    /\ curr_chan' = r.chan

(* The client's record once another acquisition, of channel ch, started.   *)
(* The client is overtaken when it has not recorded its own trigger        *)
(* address yet; what it acquired is lost when it needs the memory of ch.   *)
Overtake(k, ch) ==
    [k EXCEPT !.overtaken = @ \/ (k.pc = "poll"),
              !.lost = @ \/ ( /\ k.pc \in {"poll", "curve"}
                              /\ RegionOf(k.req.chan) \cap RegionOf(ch) # {} )]

------------------------------------------------------------------------------
(* Calls of a client.                                                      *)

Bytes(r) == (r.pre + r.post) * r.shots * acq_buf[r.chan].sample_size

(* A new call; the caller's buffer has room for the samples it asks for.   *)
NewCall(r, op, id) ==
    [IdleClient EXCEPT !.pc = IF op = "full" THEN "poll" ELSE "curve", !.op = op,
                       !.req = r, !.acq = id, !.left = Bytes(r)]

(* bpm_full_acq, the request is accepted.                                  *)
FullAcqAccepted(c, r) ==
    /\ client[c].pc = "idle"
    /\ r.chan \in Chan
    /\ acqs < MaxAcq
    /\ DataAcquire(r)
    /\ acqs' = acqs + 1
    /\ client' = [k \in Client |-> IF k = c THEN NewCall(r, "full", acqs + 1)
                                            ELSE Overtake(client[k], r.chan)]

(* Seeded defect: a refused call reads the curve without polling.          *)
FullAcqRefusedNoPoll(c, r) ==
    /\ client[c].pc = "idle"
    /\ r.chan \in Chan
    /\ ~ Accepts(r)
    /\ client' = [client EXCEPT ![c] = [NewCall(r, "full", 0) EXCEPT !.pc = "curve"]]
    /\ UNCHANGED <<serverVars, coreVars, acqs>>

(* bpm_full_acq, the request is refused: the call goes on just the same.   *)
FullAcqRefused(c, r) ==
    /\ client[c].pc = "idle"
    /\ r.chan \in Chan
    /\ ~ Accepts(r)
    /\ client' = [client EXCEPT ![c] = NewCall(r, "full", 0)]
    /\ UNCHANGED <<serverVars, coreVars, acqs>>

(* bpm_full_acq_compat without a new acquisition.                          *)
ReadCurve(c, r) ==
    /\ client[c].pc = "idle"
    /\ r.chan \in Chan
    /\ client' = [client EXCEPT ![c] = NewCall(r, "read", 0)]
    /\ UNCHANGED <<serverVars, coreVars, acqs>>

(* Seeded defect: the trigger address is not recorded.                     *)
CheckForgetsTrigger ==
    CoreComplete /\ UNCHANGED params

(* _acq_check_data_acquire when the acquisition is complete.               *)
CheckDataAcquire ==
    /\ CoreComplete
    /\ params' = [params EXCEPT ![curr_chan].trig = trigPos]

(* _func_polling: the check succeeds and the curve is read next.           *)
PollDone(c) ==
    /\ client[c].pc = "poll"
    /\ CheckDataAcquire
    /\ client' = [client EXCEPT ![c].pc = "curve"]
    /\ UNCHANGED <<curr_chan, coreVars, acqs>>

(* _func_polling: no check succeeds in time, or the client is interrupted, *)
(* there or between two blocks.                                            *)
GiveUp(c) ==
    /\ client[c].pc \in {"poll", "curve"}
    /\ client' = [client EXCEPT ![c] = [IdleClient EXCEPT !.res = "gave_up"]]
    /\ UNCHANGED <<serverVars, coreVars, acqs>>

(* The last block the client asks for.                                     *)
ClientBlockValid(r) ==
    (((r.pre + r.post) * r.shots) % U32) \div PerBlock(r.chan)

Least(a, b) == IF a <= b THEN a ELSE b

ByteAt(a) == IF a \in Addr THEN mem[a] ELSE NoData

(* The client's record once block idx was copied to its buffer.            *)
CopyBlock(k, p) ==
    LET addr == BlockAddr(p, k.req.chan, k.idx)
        n    == Least(k.left, ReplySize(p, k.req.chan, k.idx))
    IN  [k EXCEPT !.left = @ - n,
                  !.total = @ + n,
                  !.own = @ /\ \A j \in 0 .. n - 1 :
                                  addr + j < EndMem(k.req.chan) =>
                                      ByteAt(addr + j) = <<k.acq, k.total + j>>,
                  !.idx = @ + 1]

(* _bpm_acq_get_curve: one block, served by _acq_get_data_block.           *)
CurveBlock(c) ==
    LET k == client[c]
        p == params[k.req.chan]
        copied == CopyBlock(k, p)
    IN  /\ k.pc = "curve"
        /\ BlockInRange(p, k.req.chan, k.idx)
        /\ client' = [client EXCEPT ![c] =
                        IF k.idx = ClientBlockValid(k.req)
                        THEN [copied EXCEPT !.pc = "idle", !.res = "ok"]
                        ELSE copied]
        /\ UNCHANGED <<serverVars, coreVars, acqs>>

(* The block is out of range and the call fails.                           *)
CurveOutOfRange(c) ==
    LET k == client[c]
    IN  /\ k.pc = "curve"
        /\ ~ BlockInRange(params[k.req.chan], k.req.chan, k.idx)
        /\ client' = [client EXCEPT ![c].pc = "idle", ![c].res = "out_of_range"]
        /\ UNCHANGED <<serverVars, coreVars, acqs>>

------------------------------------------------------------------------------
(* Single requests, of any client.                                         *)

(* bpm_acq_start, accepted (refused, it changes nothing).                  *)
AcqStart(r) ==
    /\ acqs < MaxAcq
    /\ DataAcquire(r)
    /\ acqs' = acqs + 1
    /\ client' = [k \in Client |-> Overtake(client[k], r.chan)]

(* bpm_acq_check.                                                          *)
AcqCheck ==
    /\ CheckDataAcquire
    /\ UNCHANGED <<curr_chan, coreVars, acqs, client>>

(* _acq_set_trigger_type: the new values of the registers CTL and TRIG_CFG.*)
(* HW_TRIG_SEL keeps its value when the hardware trigger is disabled.      *)
TriggerRegs(t) ==
    [reg EXCEPT !.now   = (t = "skip"),
                !.hwEn  = t \in {"hw_pulse", "hw_data"},
                !.swEn  = (t = "sw"),
                !.hwSel = IF t \in {"hw_pulse", "hw_data"} THEN t = "hw_pulse" ELSE reg.hwSel]

(* bpm_set_acq_trig.                                                       *)
CfgTrigger(t) ==
    /\ CoreIdle
    /\ reg' = TriggerRegs(t)
    /\ UNCHANGED <<serverVars, fsm, done, trigPos, swTrig, mem, acqs, client>>

(* bpm_set_acq_sw_trig; without effect unless an acquisition waits for it. *)
SwTrig ==
    /\ fsm = "acq" /\ reg.swEn
    /\ swTrig' = TRUE
    /\ UNCHANGED <<serverVars, reg, fsm, done, trigPos, mem, acqs, client>>

(* bpm_set_acq_fsm_stop: the core drops the running acquisition.           *)
FsmStop ==
    /\ fsm = "acq"
    /\ fsm' = "idle"
    /\ client' = [c \in Client |->
                    IF client[c].pc = "poll" /\ client[c].acq = acqs
                    THEN [client[c] EXCEPT !.lost = TRUE] ELSE client[c]]
    /\ UNCHANGED <<serverVars, reg, done, trigPos, swTrig, mem, acqs>>

------------------------------------------------------------------------------
(* The acquisition core.                                                   *)

SampleSize == acq_buf[reg.chan].sample_size
CoreRegion == reg.end + SampleSize - reg.start
CoreBytes == (reg.pre + reg.post) * reg.shots * SampleSize
CorePreBytes == ((reg.pre + reg.post) * (reg.shots - 1) + reg.pre) * SampleSize

(* The last trigger came after d payloads more than needed, and all        *)
(* samples are in the FIFOs.  The memory is circular from its first byte.  *)
CoreTriggered(d) ==
    /\ fsm = "acq"
    /\ reg.now \/ reg.hwEn \/ (reg.swEn /\ swTrig)
    /\ fsm' = "drain"
    /\ trigPos' = reg.start + ((d * PayloadSize + CorePreBytes) % CoreRegion)
    /\ UNCHANGED <<serverVars, reg, done, swTrig, mem, acqs, client>>

(* The byte at address a: the last one written there.                      *)
WrittenAt(a) ==
    LET first == (a - trigPos + CorePreBytes) % CoreRegion
    IN  IF first >= CoreBytes THEN mem[a]
        ELSE <<acqs, first + CoreRegion * ((CoreBytes - 1 - first) \div CoreRegion)>>

(* The FIFOs are empty and the memory has everything.                      *)
CoreDrained ==
    /\ fsm = "drain"
    /\ fsm' = "idle"
    /\ done' = TRUE
    /\ mem' = [a \in Addr |-> IF a \in RegionOf(reg.chan) THEN WrittenAt(a) ELSE mem[a]]
    /\ UNCHANGED <<serverVars, reg, trigPos, swTrig, acqs, client>>

------------------------------------------------------------------------------
Next ==
    \/ \E c \in Client, r \in Request :
          FullAcqAccepted(c, r) \/ FullAcqRefused(c, r) \/ ReadCurve(c, r)
    \/ \E c \in Client : PollDone(c) \/ GiveUp(c) \/ CurveBlock(c) \/ CurveOutOfRange(c)
    \/ \E r \in Request : AcqStart(r)
    \/ AcqCheck
    \/ \E t \in TriggerType : CfgTrigger(t)
    \/ SwTrig
    \/ FsmStop
    \/ \E d \in 0 .. MaxDelay : CoreTriggered(d)
    \/ CoreDrained

Spec == Init /\ [][Next]_vars

------------------------------------------------------------------------------
(* Properties.                                                             *)

ClientType ==
    [pc : {"idle", "poll", "curve"}, op : {"full", "read"}, req : Request, acq : 0 .. MaxAcq,
     overtaken : BOOLEAN, lost : BOOLEAN, idx : Nat, left : Nat, total : Nat, own : BOOLEAN,
     res : {"none", "ok", "gave_up", "out_of_range"}]

(* Type invariant.                                                         *)
TypeOK ==
    /\ params \in [Chan -> [pre : 0 .. U32 - 1, post : 0 .. U32 - 1, shots : 0 .. U32 - 1,
                            trig : 0 .. U32 - 1]]
    /\ curr_chan \in Chan
    /\ reg \in [pre : 0 .. U32 - 1, post : 0 .. U32 - 1, shots : 0 .. ShotsMod - 1,
                start : Addr, end : Addr, chan : Chan,
                now : BOOLEAN, hwEn : BOOLEAN, swEn : BOOLEAN, hwSel : BOOLEAN]
    /\ fsm \in {"idle", "acq", "drain"} /\ done \in BOOLEAN /\ swTrig \in BOOLEAN
    /\ trigPos \in 0 .. MemSize
    /\ mem \in [Addr -> (0 .. MaxAcq) \X Nat]
    /\ acqs \in 0 .. MaxAcq
    /\ client \in [Client -> ClientType]

(* What the core is doing, or did last, is what the SMIO will use to find  *)
(* it in the memory: the registers agree with the parameters kept for the  *)
(* current channel, whatever requests came in between.                     *)
CoreMatchesParams ==
    acqs > 0 =>
        /\ reg.chan = curr_chan
        /\ reg.pre = params[curr_chan].pre
        /\ reg.post = params[curr_chan].post
        /\ reg.shots = params[curr_chan].shots % ShotsMod

(* The core never runs with the skip trigger and samples to take after the *)
(* trigger, although trigger and samples are set by different requests.    *)
SkipHasNoPost == fsm # "idle" /\ reg.now => reg.post = 0

(* At most one trigger source is enabled, whatever the order in which      *)
(* trigger types were selected, so that _acq_get_trigger_type never meets  *)
(* its "Invalid skip trigger type".                                        *)
OneTriggerSource ==
    /\ ~ (reg.now /\ reg.hwEn) /\ ~ (reg.now /\ reg.swEn) /\ ~ (reg.hwEn /\ reg.swEn)
    /\ GetTriggerType # "error"

(* No request changes the registers of an acquisition that is running or   *)
(* being written out, nor the parameters of any channel.                   *)
RunningIsFrozen ==
    [][fsm # "idle" => UNCHANGED <<reg, params, curr_chan>>]_vars

Fits(p, ch) == (p.pre + p.post) * p.shots * acq_buf[ch].sample_size <= RegionSize(ch)

PastEnd(p, ch, n) == BlockAddr(p, ch, n) + ReplySize(p, ch, n) > EndMem(ch)

(* _acq_get_data_block takes care "for wraps in the end of the current     *)
(* memory space", but does not split a block there: of one curve at most   *)
(* one block is read past the end, all others lie in the channel's memory. *)
OneBlockPastEnd ==
    \A ch \in Chan : \A n, m \in 0 .. BlockMax(ch) :
        LET p == params[ch] IN
        /\ fsm = "idle" /\ done /\ ch = curr_chan /\ p.trig = trigPos
        /\ Fits(p, ch) /\ BlockInRange(p, ch, n) /\ BlockInRange(p, ch, m)
        /\ PastEnd(p, ch, n) /\ PastEnd(p, ch, m)
        => n = m

(* The samples that are acquired for r, and that they fit in the memory of *)
(* its channel.                                                            *)
RoundedSamples(r) == (PreAligned(r.chan, r.pre) + PostAligned(r.chan, r.post)) * r.shots

RequestFits(r) == RoundedSamples(r) * acq_buf[r.chan].sample_size <= RegionSize(r.chan)

(* A call of bpm_full_acq whose acquisition was accepted and fits, was not *)
(* overtaken by another one before it was checked, nor lost, returns the   *)
(* bytes of that very acquisition, in order, wherever it read inside the   *)
(* memory (see OneBlockPastEnd), although other clients acquire on other   *)
(* channels while the blocks are read, and although the acquisition may    *)
(* begin anywhere in the circular memory.  The register SHOTS takes a part *)
(* of the bits of the number of shots, which has to fit there.             *)
(* A call goes on after a refusal; a curve that it then returns was        *)
(* acquired before, by an earlier call or another client: it does not come *)
(* from a core that never ran.                                             *)
CurveIsOwn ==
    \A c \in Client :
        LET k == client[c] IN
        /\ /\ k.res = "ok" /\ k.acq # 0 /\ ~ k.overtaken /\ ~ k.lost
           /\ RequestFits(k.req) /\ k.req.shots < ShotsMod
           => k.own
        /\ k.op = "full" /\ k.res = "ok" /\ k.acq = 0 => acqs > 0

(* A call whose acquisition was accepted and not lost is never told that a *)
(* block is out of range, and fills the caller's buffer exactly.           *)
(* The client counts blocks by the samples it asked for, the SMIO by those *)
(* it acquired; a client that asks for a whole number of blocks asks for   *)
(* one block more, which is there only because samples that are aligned    *)
(* already are rounded up, and not when it asks for all of the memory.     *)
(* No call copies more bytes than that buffer holds.                       *)
CurveIsComplete ==
    \A c \in Client :
        LET k == client[c] IN
        /\ k.total <= Bytes(k.req)
        /\ /\ k.acq # 0 /\ ~ k.lost
           /\ Bytes(k.req) < RegionSize(k.req.chan) /\ RoundedSamples(k.req) < U32
           => /\ k.res # "out_of_range"
              /\ k.res = "ok" => k.total = Bytes(k.req)

(* The number of samples is compared with what the channel's memory holds  *)
(* before it is rounded, and after the sum of the two counts has wrapped   *)
(* to 32 bits.  An acquisition of one shot that the core runs exceeds the  *)
(* memory by the rounding of the two counts at most, unless their sum      *)
(* needs more than 32 bits.                                                *)
OversizeIsRounding ==
    LET p == params[curr_chan] IN
    fsm # "idle" /\ p.shots = 1 /\ p.pre + p.post < U32 =>
        p.pre + p.post <= acq_buf[curr_chan].max_samples + 2 * SamplesAlignment(curr_chan)

------------------------------------------------------------------------------
(* What a comment of the code says, and the code does not do.              *)

(* A call of bpm_full_acq that returns a curve, whose acquisition was      *)
(* accepted and is still in the memory, returns the bytes of that          *)
(* acquisition wherever it read inside the memory.                         *)
SuccessMeansOwnCurve ==
    \A c \in Client :
        LET k == client[c] IN
        k.res = "ok" /\ k.acq # 0 /\ ~ k.lost /\ RequestFits(k.req) => k.own
==============================================================================
