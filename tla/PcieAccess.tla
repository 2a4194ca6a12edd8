----------------------------- MODULE PcieAccess -----------------------------
(***************************************************************************)
(* libllio: the register accesses by which the PCIe backend of the low     *)
(* level I/O layer performs one operation.  The board's memory (BAR2) and  *)
(* its Wishbone bus (BAR4) are seen through windows of one page; the page  *)
(* is chosen by a register of BAR0 that every access writes first.  Sizes  *)
(* and offsets count 32-bit words.                                         *)
(***************************************************************************)
EXTENDS Integers, Sequences

CONSTANTS
    SdramPgSize,    \* PCIE_SDRAM_PG_SIZE, the words of a page of the memory
    WbPgSize,       \* PCIE_WB_PG_SIZE, the words of a page of the Wishbone bus
    Bar2Size,       \* the size pd_getBARsize reports for BAR2
    Bar4Size        \* and for BAR4, whose words are 64 bits apart

ASSUME PageSizes ==
    /\ {SdramPgSize, WbPgSize, Bar2Size, Bar4Size} \subseteq Nat \ {0}
    /\ Bar2Size = SdramPgSize
    /\ Bar4Size >= WbPgSize

BAR0NO == 0
BAR2NO == 2
BAR4NO == 4

LLIO_ERR_FUNC_NOT_IMPL == 2

\* An operation of llio_ops_t: what it does, on which BAR, from which word
\* on, over how many words, and the words it writes.
Operation(does, bar, offs, size, data) ==
    [does |-> does, bar |-> bar, offs |-> offs, size |-> size, data |-> data]

Writes(op) == op.does \in {"write_16", "write_32", "write_64", "write_block"}
Block(op)  == op.does \in {"read_block", "write_block"}

PgSize(bar) == IF bar = BAR2NO THEN SdramPgSize ELSE WbPgSize
PgReg(bar)  == IF bar = BAR2NO THEN "SDRAM_PG" ELSE "WB_PG"

\* Seeded defect: the page is chosen only when it is not the first one.
StartKeepsPage(op) ==
    [turn |-> 0, rem |-> op.size, word |-> IF op.offs < PgSize(op.bar) THEN 1 ELSE 0]

\* Where the loops of an operation are: the turn of the loop over the pages,
\* the words that remained when it began, and its next word; 0 when the page
\* is still to be chosen.
Start(op) == [turn |-> 0, rem |-> op.size, word |-> 0]

\* The words of a block that one turn of the loop over the pages transfers.
Bar2Chunk(offs, rem) == IF offs + rem > Bar2Size THEN Bar2Size - offs ELSE rem
Bar4Chunk(offs, rem) == IF rem > Bar4Size THEN Bar4Size - offs ELSE rem

\* A turn: the page, the place of its first word in the window, its number of
\* words, and how many words of the operation come before.  Both halves of a
\* 64-bit word are transferred at the same offset.
rw_32(op, l) ==
    [page |-> op.offs \div PgSize(op.bar), at |-> op.offs % PgSize(op.bar),
     words |-> 1, before |-> l.turn]

\* BAR2 goes on in the buffer where it stopped, BAR4 at a multiple of the page.
rw_bar2_block(op, l) ==
    LET at == IF l.turn = 0 THEN op.offs % SdramPgSize ELSE 0
    IN  [page |-> (op.offs \div SdramPgSize) + l.turn, at |-> at,
         words |-> Bar2Chunk(at, l.rem), before |-> op.size - l.rem]

rw_bar4_block(op, l) ==
    LET at == IF l.turn = 0 THEN op.offs % WbPgSize ELSE 0
    IN  [page |-> (op.offs \div WbPgSize) + l.turn, at |-> at,
         words |-> Bar4Chunk(at, l.rem), before |-> l.turn * Bar4Size]

Turn(op, l) ==
    IF ~Block(op) THEN rw_32(op, l)
    ELSE IF op.bar = BAR2NO THEN rw_bar2_block(op, l) ELSE rw_bar4_block(op, l)

Turns(op) ==
    CASE op.does \in {"read_32", "write_32"} -> 1
      [] op.does \in {"read_64", "write_64"} -> 2
      [] Block(op) /\ op.bar = BAR2NO -> ((op.offs % SdramPgSize) + op.size) \div Bar2Size + 1
      [] Block(op) /\ op.bar = BAR4NO -> ((op.offs % WbPgSize) + op.size) \div Bar4Size + 1

Over(op, l) == l.turn = Turns(op)

\* After the page was chosen, or a word transferred.
Advance(op, l) ==
    IF l.word < Turn(op, l).words THEN [l EXCEPT !.word = l.word + 1]
    ELSE [turn |-> l.turn + 1, rem |-> l.rem - Turn(op, l).words, word |-> 0]

\* What an operation that makes no access returns, and whether it is one:
\* a function the backend lacks, a closed device, a BAR that is not there.
Refused(op, open) ==
    CASE op.does \in {"read_16", "write_16"} -> -LLIO_ERR_FUNC_NOT_IMPL
      [] op.does \in {"read_dma", "write_dma"} -> -1
      [] op.does \in {"read_64", "write_64"} /\ (~open \/ op.bar \notin {0, 2, 4}) -> -2
      [] op.does \in {"read_32", "write_32"} /\ (~open \/ op.bar \notin {0, 2, 4}) -> -1
      [] Block(op) /\ ~open -> -1
      [] Block(op) /\ open /\ op.bar \notin {2, 4} -> 0
      [] OTHER -> 1
=============================================================================
