------------------------------- MODULE AcqAddr -------------------------------
(***************************************************************************)
(* The arithmetic of the acquisition SMIO: rounding of a request to the    *)
(* payload of the memory, and the place in the channel's circular memory   *)
(* of the blocks in which an acquisition is handed out.                    *)
(*                                                                         *)
(* A channel is a record [start_addr, end_addr, max_samples, sample_size]  *)
(* of the table acq_buf; end_addr is the address of the last sample.       *)
(* Additions and products of the C code on uint32_t and uint64_t are taken *)
(* modulo U32 and U64.                                                     *)
(***************************************************************************)
EXTENDS Integers

CONSTANTS
    Chan,           \* channels of the acquisition core, 0..SMIO_ACQ_NUM_CHANNELS-1
    acq_buf,        \* table of the channels, from the board's ddr3_map
    PayloadSize,    \* DDR3_PAYLOAD_SIZE, bytes
    BlockSize,      \* BLOCK_SIZE, bytes
    U32,            \* 2^32 in the code, a smaller power of two when checked
    U64             \* 2^64 in the code

EndMem(ch) == acq_buf[ch].end_addr + acq_buf[ch].sample_size

RegionSize(ch) == EndMem(ch) - acq_buf[ch].start_addr

(* What the macros of ddr3_map.h make of the memory of a channel that has  *)
(* any.                                                                    *)
ASSUME LayoutAssumption ==
    /\ Chan \subseteq Nat /\ 0 \in Chan
    /\ PayloadSize \in Nat \ {0} /\ BlockSize \in Nat \ {0}
    /\ U32 \in Nat \ {0} /\ U64 \in Nat \ {0} /\ U32 <= U64 /\ BlockSize < U32
    /\ \A ch \in Chan :
          LET b == acq_buf[ch] IN
          /\ b.start_addr \in Nat /\ b.end_addr \in Nat
          /\ b.sample_size \in Nat \ {0} /\ b.max_samples \in Nat \ {0}
          /\ b.start_addr < b.end_addr /\ EndMem(ch) + 2 * PayloadSize < U32
          /\ PayloadSize % b.sample_size = 0 /\ BlockSize % b.sample_size = 0
          /\ RegionSize(ch) % PayloadSize = 0
          /\ b.max_samples = (b.end_addr - b.start_addr) \div b.sample_size

------------------------------------------------------------------------------
(* Rounding of a request.                                                  *)

SamplesAlignment(ch) == PayloadSize \div acq_buf[ch].sample_size

(* Seeded defect: samples that are aligned already are left alone.         *)
AlignExact(n, a) == IF n % a = 0 THEN n ELSE (n + a - (n % a)) % U32

(* A count that is aligned already is still moved to the next multiple.    *)
Align(n, a) == (n + a - (n % a)) % U32

PreAligned(ch, pre) == Align(pre, SamplesAlignment(ch))

PostAligned(ch, post) ==
    IF post = 0 THEN 0 ELSE Align(post, SamplesAlignment(ch))

------------------------------------------------------------------------------
(* Blocks of an acquisition with parameters p, a record                    *)
(* [pre, post, shots, trig].                                               *)

PerShot(p) == (p.pre + p.post) % U32

MultiShot(p) == (PerShot(p) * p.shots) % U32

PerBlock(ch) == BlockSize \div acq_buf[ch].sample_size

OverSamples(p, ch) == MultiShot(p) % PerBlock(ch)

BlockMax(ch) == ((acq_buf[ch].max_samples * acq_buf[ch].sample_size) % U32) \div BlockSize

(* The last block that holds samples.                                      *)
BlockValid(p, ch) ==
    LET full == MultiShot(p) \div PerBlock(ch)
    IN  IF full # 0 /\ OverSamples(p, ch) = 0 THEN full - 1 ELSE full

BlockInRange(p, ch, n) == n <= BlockMax(ch) /\ n <= BlockValid(p, ch)

ReplySize(p, ch, n) ==
    IF n = BlockValid(p, ch) /\ OverSamples(p, ch) > 0
    THEN (OverSamples(p, ch) * acq_buf[ch].sample_size) % U32
    ELSE BlockSize

(* Bytes from the first sample to the last trigger.                        *)
AcqSizeBytes(p, ch) ==
    ((PerShot(p) * (p.shots - 1) + p.pre) * acq_buf[ch].sample_size) % U32

StartAddress(trig, size, start, end) ==
    LET rel == (trig - start) % U64
    IN  IF rel >= size THEN (trig - size) % U64
                       ELSE (end - (size - rel)) % U64

(* Seeded defect: the end of the memory is not taken into account.         *)
ReadBlockAddrNoWrap(addr, offset, start, end) == (addr + offset) % U64

ReadBlockAddr(addr, offset, start, end) ==
    LET rel == (end - addr) % U64
    IN  IF offset <= rel THEN (addr + offset) % U64
                         ELSE (start + (offset - rel)) % U64

(* Address at which block n is read.                                       *)
BlockAddr(p, ch, n) ==
    LET start == acq_buf[ch].start_addr
        end   == EndMem(ch) % U32
    IN  ReadBlockAddr(StartAddress(p.trig, AcqSizeBytes(p, ch), start, end),
                      (n * BlockSize) % U32, start, end)
==============================================================================
