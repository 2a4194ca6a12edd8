-------------------------------- MODULE SmPr --------------------------------
(***************************************************************************)
(* The SPI and I2C protocol operations of src/sm_io/protocols, over the    *)
(* cores in the FPGA that they drive.  An operation is one transfer on the *)
(* bus, and its fate says how far the core got: every access to a register *)
(* of the core may fail, the slave may not acknowledge, and the core may   *)
(* still be busy when the driver has polled it SM_PR_*_MAX_TRIES times.    *)
(***************************************************************************)
EXTENDS Integers, SequencesExt

(***************************************************************************)
(* SPI.  busy holds the transfer a driver gave up waiting for, if any.     *)
(* The core shifts one transfer at a time: what is written to it while it  *)
(* is busy is lost.                                                        *)
(***************************************************************************)

\* refused: CTRL, SS, CHARLEN or TX could not be accessed.  late: the
\* transfer was started, but polling failed or timed out.  unread: it was
\* done, but RX could not be read.
SpiFates == {"ok", "refused", "late", "unread"}

\* Bytes of a transfer: whole 32-bit registers, at most four of them.
SpiSize(size) == size > 0 /\ size <= 16 /\ size % 4 = 0

\* Seeded defect: the transfer counts as done when the polling ends.
SpiGivesUpSilently(busy, x, size, fate) ==
    [ret |-> IF fate = "refused" THEN -1 ELSE IF fate = "unread" THEN 0 ELSE size,
     busy |-> IF fate = "late" /\ busy = <<>> THEN <<x>>
              ELSE IF fate \in {"ok", "unread"} THEN <<>> ELSE busy,
     done |-> IF fate \in {"refused", "late"} THEN <<>>
              ELSE IF busy = <<>> THEN <<x>> ELSE busy]

spi_read_write_generic(busy, x, size, fate) ==
    IF fate = "refused" \/ ~SpiSize(size)
    THEN [ret |-> -1, busy |-> busy, done |-> <<>>]
    ELSE IF fate = "late"
    THEN [ret |-> -1, busy |-> IF busy = <<>> THEN <<x>> ELSE busy, done |-> <<>>]
    ELSE [ret |-> IF fate = "ok" THEN size ELSE 0, busy |-> <<>>,
          done |-> IF busy = <<>> THEN <<x>> ELSE busy]

(***************************************************************************)
(* I2C.  Of the bytes of a transfer the slave acknowledged the first       *)
(* acked, and took one more at most; a transfer with an unacknowledged     *)
(* address is one with no byte taken.  The stop goes out with the last     *)
(* byte of a write in normal mode and of every read, so that a transfer    *)
(* that is cut has none.                                                   *)
(***************************************************************************)
TRANS_SIZE_FLAGS_MAX == 511

I2cSize(bytes) == 8 * bytes <= TRANS_SIZE_FLAGS_MAX

I2cLength(size, trans) == Min({size, trans})

I2cFates(n) ==
    {[acked |-> a, took |-> a] : a \in 0..n} \cup {[acked |-> a - 1, took |-> a] : a \in 1..n}

\* Seeded defect: a write that fails is closed by a stop.
WriteStopsOnError(bytes, trans, rep, f) ==
    LET n == I2cLength(Len(bytes), trans)
    IN  [ret |-> IF f.acked = n THEN n ELSE -1, taken |-> SubSeq(bytes, 1, f.took),
         stop |-> ~rep]

i2c_write_generic(bytes, trans, rep, f) ==
    LET n == I2cLength(Len(bytes), trans)
    IN  [ret   |-> IF I2cSize(Len(bytes)) /\ f.acked = n THEN n ELSE -1,
         taken |-> IF I2cSize(Len(bytes)) THEN SubSeq(bytes, 1, f.took) ELSE <<>>,
         stop  |-> I2cSize(Len(bytes)) /\ f.took = n /\ ~rep]

\* The bytes read so far are in the caller's buffer even if the rest fails.
i2c_read_generic(size, trans, f) ==
    LET n == I2cLength(size, trans)
    IN  [ret |-> IF I2cSize(size) /\ f.acked = n THEN n ELSE -1,
         got |-> IF I2cSize(size) THEN f.acked ELSE 0]
=============================================================================
