---------------------------- MODULE DevRpcInv ----------------------------
(***************************************************************************)
(* The inductive invariant of DevRpc, and what its proof rests on: the     *)
(* arithmetic of the pages, the loops over the turns of an operation, the  *)
(* buffer they fill and what a client makes of an answer.  Then the steps  *)
(* of the clients and of the thread's loop over the messages.  The steps   *)
(* of the accesses themselves follow in DevRpcProofs.                      *)
(***************************************************************************)
EXTENDS DevRpc, TLAPS

(* Provers of a leaf that names none, with their time limits in seconds.     *)
USE SMTT(20), ZenonT(20)

(* ------------------------- pages and remainders ------------------------ *)

\* Division: quotient and remainder make up the number.
LEMMA DivMod ==
  ASSUME NEW P \in Nat \ {0}, NEW x \in Nat
  PROVE  x \div P \in Nat /\ x % P \in 0..(P - 1) /\ x = P * (x \div P) + (x % P)
<1>1. x % P \in 0..(P - 1) /\ x \div P \in Int
  OBVIOUS
<1>2. \A p, y \in Int : p > 0 => y = p * (y \div p) + (y % p)
  BY SMTT(30)
<1>3. x = P * (x \div P) + (x % P)
  BY <1>2
<1>4. x \div P >= 0
  BY <1>1, <1>3
<1> QED BY <1>1, <1>3, <1>4

\* A number lies between the multiples its quotient names.
LEMMA Quotient ==
  ASSUME NEW P \in Nat \ {0}, NEW x \in Nat
  PROVE  x \div P \in Nat /\ P * (x \div P) <= x /\ x < P * (x \div P) + P
<1>1. x \div P \in Nat /\ x % P \in 0..(P - 1) /\ x = P * (x \div P) + (x % P)
  BY DivMod, Zenon
<1>2. P * (x \div P) \in Int
  BY <1>1
<1> QED BY <1>1, <1>2

\* The next multiple.
LEMMA Multiple ==
  ASSUME NEW P \in Int, NEW x \in Int
  PROVE  P * x \in Int /\ P * (x + 1) = P * x + P
OBVIOUS

\* Multiples of P are at least P apart.
LEMMA Apart ==
  ASSUME NEW P \in Nat \ {0}, NEW a \in Int, NEW b \in Int, a < b
  PROVE  P * a + P <= P * b
OBVIOUS

\* The offset in its page of a word of page q.
LEMMA Remainder ==
  ASSUME NEW P \in Nat \ {0}, NEW q \in Nat, NEW r \in 0..(P - 1)
  PROVE  (P * q + r) % P = r
OBVIOUS

\* The page of a word lies within a memory of whole pages.
LEMMA WholePages ==
  ASSUME NEW P \in Nat \ {0}, NEW N \in Nat, N % P = 0, NEW x \in Nat, x < N
  PROVE  P * (x \div P) + P <= N
<1>1. N = P * (N \div P) /\ N \div P \in Nat
  BY DivMod
<1>2. x = P * (x \div P) + (x % P) /\ x \div P \in Nat /\ x % P >= 0 /\ x % P \in Int
  BY DivMod
<1> DEFINE n == N \div P
           m == x \div P
           r == x % P
<1>3. N = P * n /\ n \in Nat /\ x = P * m + r /\ m \in Nat /\ r >= 0 /\ r \in Int
  BY <1>1, <1>2
<1> HIDE DEF n, m, r
<1>4. m < n
  <2> SUFFICES ASSUME n <= m PROVE FALSE
    BY <1>3
  <2>1. n = m \/ P * n + P <= P * m
    BY <1>3, Apart
  <2> QED BY <1>3, <2>1, Multiple
<1>5. P * m + P <= P * n
  BY <1>3, <1>4, Apart
<1> QED BY <1>3, <1>5 DEF m

\* A return code keeps its value in RetBits bits; a negative one does not
\* become the number of words of an operation.
LEMMA ReturnCode ==
  ASSUME NEW M \in Nat, NEW n \in Nat, n < M - 2
  PROVE  n % M = n /\ \A r \in Int : r < 0 /\ r >= 0 - 2 => r % M # n
<1>1. \A r \in Int : r < 0 /\ r >= 0 - 2 => r % M = M + r
  OBVIOUS
<1>2. n % M = n
  OBVIOUS
<1> QED BY <1>1, <1>2

(* ------------------- the loops over pages and words -------------------- *)

\* The operations that make accesses.
Performed(op) ==
    /\ Fits(op) /\ op.bar \in {BAR2NO, BAR4NO}
    /\ op.does \in {"read_32", "write_32", "read_64", "write_64"} \/ Block(op)

Loops == [turn : Nat, rem : Nat, word : Nat]

\* The turn the loop is in transfers the words that come next, from their own
\* place on and within the page; when the loop is over no word remains.
LoopInv(op, l) ==
    /\ l \in Loops /\ l.rem <= op.size
    /\ Turns(op) \in Nat /\ l.turn <= Turns(op)
    /\ l.turn = Turns(op) => l.rem = 0 /\ l.word = 0
    /\ l.turn # Turns(op) =>
         LET t == Turn(op, l)
         IN  /\ t.words \in 0..l.rem /\ l.word <= t.words
             /\ t.before = op.size - l.rem
             /\ t.page \in Nat /\ t.at \in Nat /\ t.at + t.words <= PgSize(op.bar)
             /\ PgSize(op.bar) * t.page + t.at = op.offs + (IF Block(op) THEN t.before ELSE 0)

\* A block of BAR2 over D + 1 pages of P words, from word f of page q on: the
\* turn k starts where the one before stopped, and the last one ends the block.
LEMMA Bar2Turns ==
  ASSUME NEW P \in Nat \ {0}, NEW q \in Nat, NEW f \in Nat, NEW size \in Nat, NEW D \in Nat,
         NEW k \in Nat, NEW at \in Nat, NEW rem \in Nat,
         P * D <= f + size, f + size < P * D + P,
         P * (q + k) + at = P * q + f + (size - rem), at <= P, k <= D,
         NEW w \in Int, w = IF at + rem > P THEN P - at ELSE rem
  PROVE  /\ w \in 0..rem /\ at + w <= P
         /\ k < D => P * (q + (k + 1)) = P * q + f + (size - (rem - w))
         /\ k = D => rem = w
<1>1. P * (q + k) = P * q + P * k /\ P * q \in Int /\ P * k \in Int /\ P * D \in Int
  OBVIOUS
<1>2. P * k + at + rem = f + size
  BY <1>1
<1>3. P * (q + (k + 1)) = P * q + P * k + P
  BY <1>1, Multiple
<1>4. CASE at + rem > P
  <2>1. k # D
    BY <1>1, <1>2, <1>4
  <2> QED BY <1>1, <1>2, <1>3, <1>4, <2>1
<1>5. CASE at + rem <= P
  <2>1. ASSUME k < D
        PROVE  at + rem = P
    <3>1. P * k + P <= P * D
      BY <2>1, Apart
    <3> QED BY <1>1, <1>2, <1>5, <3>1
  <2> QED BY <1>1, <1>2, <1>3, <1>5, <2>1
<1> QED BY <1>4, <1>5

\* The pages and the operations that are performed have sizes.
LEMMA Sizes ==
  ASSUME NEW op, Performed(op)
  PROVE  /\ op.size \in Nat /\ op.offs \in Nat
         /\ PgSize(op.bar) \in Nat \ {0}
         /\ op.offs \div PgSize(op.bar) \in Nat
         /\ op.offs % PgSize(op.bar) \in 0..(PgSize(op.bar) - 1)
         /\ op.offs = PgSize(op.bar) * (op.offs \div PgSize(op.bar)) + (op.offs % PgSize(op.bar))
<1>1. op.size \in Nat /\ op.offs \in Nat
  BY DEF Performed, Fits
<1>2. PgSize(op.bar) \in Nat \ {0}
  BY PageSizes DEF PgSize
<1> QED BY <1>1, <1>2, DivMod, Zenon

\* An operation on single words: one turn for each, all of one word.
LEMMA SingleTurn ==
  ASSUME NEW op, Performed(op), ~Block(op), NEW l
  PROVE  /\ Turns(op) = op.size /\ op.size \in {1, 2}
         /\ Turn(op, l) = [page |-> op.offs \div PgSize(op.bar), at |-> op.offs % PgSize(op.bar),
                           words |-> 1, before |-> l.turn]
<1>1. Turns(op) = op.size /\ op.size \in {1, 2}
  BY DEF Performed, Fits, Block, Turns
<1>2. Turn(op, l) = rw_32(op, l)
  BY DEF Turn
<1> QED BY <1>1, <1>2 DEF rw_32

\* A block of BAR2: every turn but the first begins its page.
LEMMA Bar2Turn ==
  ASSUME NEW op, Performed(op), Block(op), op.bar = BAR2NO, NEW l
  PROVE  LET P == SdramPgSize
             at == IF l.turn = 0 THEN op.offs % P ELSE 0
         IN  /\ Turns(op) = ((op.offs % P) + op.size) \div P + 1
             /\ Turn(op, l) = [page |-> (op.offs \div P) + l.turn, at |-> at,
                               words |-> IF at + l.rem > P THEN P - at ELSE l.rem,
                               before |-> op.size - l.rem]
             /\ PgSize(op.bar) = P
<1>1. Turns(op) = ((op.offs % SdramPgSize) + op.size) \div SdramPgSize + 1
  BY PageSizes DEF Turns, Block, BAR2NO, BAR4NO
<1>2. Turn(op, l) = rw_bar2_block(op, l)
  BY DEF Turn
<1> QED BY <1>1, <1>2, PageSizes DEF rw_bar2_block, Bar2Chunk, PgSize

\* A block of BAR4: one turn, and the page holds all of it.
LEMMA Bar4Turn ==
  ASSUME NEW op, Performed(op), Block(op), op.bar = BAR4NO
  PROVE  /\ Turns(op) = 1
         /\ Turn(op, Start(op)) = [page |-> (op.offs \div WbPgSize) + 0, at |-> op.offs % WbPgSize,
                                   words |-> op.size, before |-> 0]
         /\ (op.offs % WbPgSize) + op.size <= WbPgSize
         /\ PgSize(op.bar) = WbPgSize
<1>1. PgSize(op.bar) = WbPgSize
  BY DEF PgSize, BAR2NO, BAR4NO
<1>2. op.size \in Nat /\ op.offs % WbPgSize \in Nat
  BY <1>1, Sizes
<1>3. (op.offs % WbPgSize) + op.size <= WbPgSize /\ (op.offs % WbPgSize) + op.size < Bar4Size
  BY DEF Performed, Fits
<1>4. ((op.offs % WbPgSize) + op.size) \div Bar4Size = 0
  <2>1. \A x, m \in Nat : x < m => x \div m = 0
    OBVIOUS
  <2> QED BY <1>2, <1>3, <2>1, PageSizes
<1>5. Turns(op) = 1
  BY <1>4 DEF Turns, Block, BAR2NO, BAR4NO
<1>6. Turn(op, Start(op)) = rw_bar4_block(op, Start(op))
  BY DEF Turn, BAR2NO, BAR4NO
<1>7. Bar4Chunk(op.offs % WbPgSize, op.size) = op.size
  BY <1>2, <1>3, PageSizes DEF Bar4Chunk
<1>8. 0 * Bar4Size = 0
  BY PageSizes
<1> QED BY <1>1, <1>3, <1>5, <1>6, <1>7, <1>8 DEF rw_bar4_block, Start

\* The loop begins within its bounds.
LEMMA StartLoop ==
  ASSUME NEW op, Performed(op)
  PROVE  LoopInv(op, Start(op))
<1> DEFINE l == Start(op)
           t == Turn(op, l)
<1>1. l = [turn |-> 0, rem |-> op.size, word |-> 0] /\ l \in Loops /\ op.size \in Nat
  BY Sizes DEF Start, Loops
<1>2. op.bar \in {BAR2NO, BAR4NO}
  BY DEF Performed
<1>3. CASE ~Block(op)
  <2>1. Turns(op) \in {1, 2} /\ Turns(op) = op.size
    BY <1>3, SingleTurn
  <2>2. t = [page |-> op.offs \div PgSize(op.bar), at |-> op.offs % PgSize(op.bar),
             words |-> 1, before |-> 0]
    BY <1>1, <1>3, SingleTurn
  <2> QED BY <1>1, <1>3, <2>1, <2>2, Sizes DEF LoopInv
<1>4. CASE Block(op) /\ op.bar = BAR2NO
  <2> DEFINE P == SdramPgSize
             q == op.offs \div P
             f == op.offs % P
             D == (f + op.size) \div P
  <2>1. P \in Nat \ {0} /\ q \in Nat /\ f \in 0..(P - 1) /\ op.offs = P * q + f /\ PgSize(op.bar) = P
    BY <1>4, Sizes, Bar2Turn
  <2>2. D \in Nat /\ P * D <= f + op.size /\ f + op.size < P * D + P /\ Turns(op) = D + 1
    <3>1. f + op.size \in Nat /\ Turns(op) = D + 1
      BY <1>1, <1>4, <2>1, Bar2Turn
    <3> HIDE DEF f
    <3> QED BY <2>1, <3>1, Quotient, Zenon
  <2>3. t = [page |-> q + 0, at |-> f, words |-> IF f + op.size > P THEN P - f ELSE op.size,
             before |-> op.size - op.size]
    BY <1>1, <1>4, Bar2Turn
  <2> HIDE DEF t, l, P, q, f, D
  <2>4. t.words \in 0..op.size /\ f + t.words <= P
    BY <1>1, <2>1, <2>3
  <2> QED BY <1>1, <1>4, <2>1, <2>2, <2>3, <2>4 DEF LoopInv, t, l
<1>5. CASE Block(op) /\ op.bar = BAR4NO
  BY <1>1, <1>5, Bar4Turn, Sizes DEF LoopInv
<1> QED BY <1>2, <1>3, <1>4, <1>5

\* It stays within them from one turn to the next.
LEMMA NextTurn ==
  ASSUME NEW op, Performed(op), NEW l, LoopInv(op, l), l.turn # Turns(op),
         NEW m, m = [turn |-> l.turn + 1, rem |-> l.rem - Turn(op, l).words, word |-> 0]
  PROVE  LoopInv(op, m)
<1> DEFINE t == Turn(op, l)
           u == Turn(op, m)
<1>1. op.bar \in {BAR2NO, BAR4NO} /\ op.size \in Nat
  BY Sizes DEF Performed
<1>2. /\ l.turn \in Nat /\ l.rem \in Nat /\ l.rem <= op.size
      /\ Turns(op) \in Nat /\ l.turn + 1 <= Turns(op) /\ t.words \in 0..l.rem /\ t.before = op.size - l.rem
  BY DEF LoopInv, Loops
<1>3. m \in Loops /\ m.rem \in Nat /\ m.rem <= op.size /\ m.turn = l.turn + 1 /\ m.word = 0
      /\ m.rem = l.rem - t.words
  BY <1>1, <1>2 DEF Loops
<1>4. CASE ~Block(op)
  <2>1. Turns(op) = op.size /\ t.words = 1 /\ t.before = l.turn
    BY <1>4, SingleTurn
  <2>2. u = [page |-> op.offs \div PgSize(op.bar), at |-> op.offs % PgSize(op.bar),
             words |-> 1, before |-> m.turn]
    BY <1>4, SingleTurn
  <2> QED BY <1>1, <1>2, <1>3, <1>4, <2>1, <2>2, Sizes DEF LoopInv
<1>5. CASE Block(op) /\ op.bar = BAR2NO
  <2> DEFINE P == SdramPgSize
             q == op.offs \div P
             f == op.offs % P
             D == (f + op.size) \div P
             at == IF l.turn = 0 THEN f ELSE 0
  <2>1. P \in Nat \ {0} /\ q \in Nat /\ f \in 0..(P - 1) /\ op.offs = P * q + f /\ PgSize(op.bar) = P
    BY <1>5, Sizes, Bar2Turn
  <2>2. D \in Nat /\ P * D <= f + op.size /\ f + op.size < P * D + P /\ Turns(op) = D + 1
    <3>1. Turns(op) = D + 1
      BY <1>5, Bar2Turn, Zenon
    <3>2. f \in Nat
      BY <2>1
    <3> HIDE DEF f, q, D, P
    <3>3. f + op.size \in Nat
      BY <1>1, <3>2
    <3> QED BY <2>1, <3>1, <3>3, Quotient, Zenon DEF D
  <2>3. t = [page |-> q + l.turn, at |-> at, words |-> IF at + l.rem > P THEN P - at ELSE l.rem,
             before |-> op.size - l.rem]
    BY <1>5, Bar2Turn
  <2>4. u = [page |-> q + m.turn, at |-> 0, words |-> IF 0 + m.rem > P THEN P - 0 ELSE m.rem,
             before |-> op.size - m.rem]
    BY <1>2, <1>3, <1>5, Bar2Turn
  <2>5. P * (q + l.turn) + at = op.offs + (op.size - l.rem)
    BY <1>5, <2>1, <2>3 DEF LoopInv
  <2> HIDE DEF t, u, P, q, f, D
  <2>6. /\ l.turn < D => P * (q + (l.turn + 1)) = P * q + f + (op.size - (l.rem - t.words))
        /\ l.turn = D => l.rem = t.words
    <3>1. at \in Nat /\ at <= P
      BY <2>1
    <3>2. t.words = IF at + l.rem > P THEN P - at ELSE l.rem
      BY <2>3
    <3>3. P * (q + l.turn) + at = P * q + f + (op.size - l.rem) /\ l.turn <= D
      BY <1>2, <2>1, <2>2, <2>5
    <3> HIDE DEF at
    <3> QED BY <1>1, <1>2, <2>1, <2>2, <3>1, <3>2, <3>3, Bar2Turns
  <2>7. u.words \in 0..m.rem /\ u.words <= P
    BY <1>3, <2>1, <2>4
  <2>8. CASE l.turn = D
    <3>1. m.turn = Turns(op) /\ m.rem = 0
      BY <1>2, <1>3, <2>2, <2>6, <2>8
    <3> QED BY <1>1, <1>2, <1>3, <3>1 DEF LoopInv
  <2>9. CASE l.turn < D
    <3>1. m.turn # Turns(op) /\ P * u.page + 0 = op.offs + (op.size - m.rem) /\ u.page \in Nat
      BY <1>1, <1>2, <1>3, <2>1, <2>2, <2>4, <2>6, <2>9
    <3>2. u.at = 0 /\ u.before = op.size - m.rem
      BY <2>4
    <3> QED BY <1>1, <1>2, <1>3, <1>5, <2>1, <2>2, <2>7, <3>1, <3>2 DEF LoopInv, u
  <2> QED BY <1>2, <2>2, <2>8, <2>9
<1>6. CASE Block(op) /\ op.bar = BAR4NO
  <2>1. Turns(op) = 1 /\ l.turn = 0
    BY <1>2, <1>6, Bar4Turn
  <2>2. t.words = l.rem
    <3>1. t = rw_bar4_block(op, l)
      BY <1>6 DEF Turn, BAR2NO, BAR4NO
    <3>2. t.words = Bar4Chunk(op.offs % WbPgSize, l.rem)
      BY <2>1, <3>1 DEF rw_bar4_block
    <3>3. op.size <= WbPgSize /\ op.offs % WbPgSize \in Nat
      BY <1>1, <1>6, Sizes, Bar4Turn
    <3> QED BY <1>1, <1>2, <3>2, <3>3, PageSizes DEF Bar4Chunk
  <2> QED BY <1>1, <1>2, <1>3, <2>1, <2>2 DEF LoopInv
<1> QED BY <1>1, <1>4, <1>5, <1>6

\* Choosing the page transfers nothing, each further step one word.
LEMMA AdvanceLoop ==
  ASSUME NEW op, Performed(op), NEW l, LoopInv(op, l), l.turn # Turns(op)
  PROVE  /\ LoopInv(op, Advance(op, l))
         /\ l.word = 0 => Moved(op, Advance(op, l)) = Moved(op, l)
         /\ l.word > 0 => Moved(op, Advance(op, l)) = Moved(op, l) + 1
<1> DEFINE t == Turn(op, l)
           m == Advance(op, l)
<1>1. /\ l \in Loops /\ op.size \in Nat /\ l.turn \in Nat /\ l.rem \in Nat /\ l.word \in Nat
      /\ t.words \in 0..l.rem /\ l.word <= t.words /\ l.rem <= op.size
  BY Sizes DEF LoopInv, Loops
<1>2. CASE l.word < t.words
  <2>1. m = [l EXCEPT !.word = l.word + 1]
    BY <1>2 DEF Advance
  <2>2. m \in Loops /\ m.turn = l.turn /\ m.rem = l.rem /\ m.word = l.word + 1
    BY <1>1, <2>1 DEF Loops
  <2>3. Turn(op, m) = t
    BY <2>2 DEF Turn, rw_32, rw_bar2_block, rw_bar4_block
  <2> HIDE DEF t, m
  <2>4. LoopInv(op, m)
    BY <1>1, <1>2, <2>2, <2>3 DEF LoopInv, t
  <2>5. m.word # 0 /\ m.word - 1 = l.word
    BY <1>1, <2>2
  <2> QED BY <1>1, <2>2, <2>4, <2>5 DEF Moved, m
<1>3. CASE ~(l.word < t.words)
  <2>1. m = [turn |-> l.turn + 1, rem |-> l.rem - t.words, word |-> 0]
    BY <1>3 DEF Advance
  <2>2. LoopInv(op, m)
    BY <2>1, NextTurn
  <2>3. m.rem = l.rem - t.words /\ m.word = 0 /\ l.word = t.words
    BY <1>1, <1>3, <2>1
  <2> HIDE DEF t, m
  <2> QED BY <1>1, <2>2, <2>3 DEF Moved, m
<1> QED BY <1>2, <1>3

\* Never more words than asked for, and all of them once the loop is over.
LEMMA MovedBounds ==
  ASSUME NEW op, Performed(op), NEW l, LoopInv(op, l)
  PROVE  /\ Moved(op, l) \in 0..op.size
         /\ l.turn = Turns(op) => Moved(op, l) = op.size
<1>1. /\ op.size \in Nat /\ l.rem \in Nat /\ l.word \in Nat /\ l.rem <= op.size
      /\ l.turn = Turns(op) => l.rem = 0 /\ l.word = 0
  BY Sizes DEF LoopInv, Loops
<1>2. l.turn # Turns(op) => Turn(op, l).words \in 0..l.rem /\ l.word <= Turn(op, l).words
  BY DEF LoopInv
<1> QED BY <1>1, <1>2 DEF Moved

\* The word that is next: its number, its place in the window and its address.
LEMMA NextWord ==
  ASSUME NEW op, Performed(op), NEW l, LoopInv(op, l), l.turn # Turns(op), l.word > 0
  PROVE  LET t == Turn(op, l)
             w == t.at + l.word - 1
         IN  /\ t.before + l.word = Moved(op, l) + 1
             /\ t.before + l.word \in 1..op.size
             /\ w \in 0..(PgSize(op.bar) - 1)
             /\ t.page \in Nat
             /\ Place(op, t.before + l.word) = <<op.bar, t.page * PgSize(op.bar) + w>>
             /\ Place(op, t.before + l.word)[2] = PgSize(op.bar) * t.page + w
<1> DEFINE t == Turn(op, l)
           P == PgSize(op.bar)
<1>1. /\ op.size \in Nat /\ op.offs \in Nat /\ l.rem \in Nat /\ l.word \in Nat /\ l.rem <= op.size
      /\ P \in Nat \ {0}
  BY Sizes DEF LoopInv, Loops
<1>2. /\ t.words \in 0..l.rem /\ l.word <= t.words /\ t.before = op.size - l.rem
      /\ t.page \in Nat /\ t.at \in Nat /\ t.at + t.words <= P
      /\ P * t.page + t.at = op.offs + (IF Block(op) THEN t.before ELSE 0)
  BY DEF LoopInv
<1> HIDE DEF t, P
<1>3. t.before + l.word = Moved(op, l) + 1 /\ t.before + l.word \in 1..op.size
  BY <1>1, <1>2 DEF Moved
<1>4. P * t.page \in Int /\ t.page * P = P * t.page
  BY <1>1, <1>2
<1>5. ~Block(op) => l.word = 1
  <2>1. ~Block(op) => t.words = 1
    BY SingleTurn DEF t
  <2> QED BY <1>1, <1>2, <2>1
<1>6. Place(op, t.before + l.word) = <<op.bar, P * t.page + (t.at + l.word - 1)>>
  <2>1. CASE Block(op)
    <3>1. op.offs + (t.before + l.word) - 1 = P * t.page + (t.at + l.word - 1)
      BY <1>1, <1>2, <1>4, <2>1
    <3> QED BY <2>1, <3>1 DEF Place
  <2>2. CASE ~Block(op)
    <3>1. op.offs = P * t.page + (t.at + l.word - 1)
      BY <1>1, <1>2, <1>4, <1>5, <2>2
    <3> QED BY <2>2, <3>1 DEF Place
  <2> QED BY <2>1, <2>2
<1>7. t.at + l.word - 1 \in 0..(P - 1)
  BY <1>1, <1>2
<1> QED BY <1>2, <1>3, <1>4, <1>6, <1>7 DEF t, P

(* ------------------------------ the buffer ----------------------------- *)

\* The first n elements of a sequence are a sequence of length n.
LEMMA Prefix ==
  ASSUME NEW s \in Seq(Int), NEW m \in 0..Len(s)
  PROVE  Len(SubSeq(s, 1, m)) = m
OBVIOUS

\* All of them are the sequence itself.
LEMMA PrefixAll ==
  ASSUME NEW s \in Seq(Int)
  PROVE  SubSeq(s, 1, Len(s)) = s
OBVIOUS

\* None of them are the empty sequence.
LEMMA PrefixNone ==
  ASSUME NEW s \in Seq(Int)
  PROVE  SubSeq(s, 1, 0) = << >>
OBVIOUS

\* One more of them appends the next.
LEMMA PrefixNext ==
  ASSUME NEW s \in Seq(Int), NEW m \in 0..(Len(s) - 1)
  PROVE  SubSeq(s, 1, m + 1) = Append(SubSeq(s, 1, m), s[m + 1])
OBVIOUS

\* The next word of a read comes into the buffer.
LEMMA PrefixStore ==
  ASSUME NEW s \in Seq(Int), NEW m \in 0..(Len(s) - 1), NEW v \in Int
  PROVE  /\ [s EXCEPT ![m + 1] = v] \in Seq(Int)
         /\ Len([s EXCEPT ![m + 1] = v]) = Len(s)
         /\ SubSeq([s EXCEPT ![m + 1] = v], 1, m + 1) = Append(SubSeq(s, 1, m), v)
<1> DEFINE r == [s EXCEPT ![m + 1] = v]
<1>1. r \in Seq(Int) /\ Len(r) = Len(s) /\ r[m + 1] = v
  OBVIOUS
<1>2. \A i \in 1..m : r[i] = s[i]
  OBVIOUS
<1> HIDE DEF r
<1>3. SubSeq(r, 1, m) = SubSeq(s, 1, m)
  BY <1>1, <1>2
<1>4. SubSeq(r, 1, m + 1) = Append(SubSeq(r, 1, m), v)
  BY <1>1, PrefixNext
<1> QED BY <1>1, <1>3, <1>4 DEF r

(* ----------------------- the inductive invariant ----------------------- *)

Addr == Bar0 \cup Sdram \cup Wb

Jobs == [op : Requests \cup CfgRequests, at : Loops, reset : BOOLEAN, tries : Nat,
         over : BOOLEAN, buf : Seq(Int)]

Types ==
    /\ mem \in [Addr -> Int] /\ stuck \in BOOLEAN /\ alone \in BOOLEAN
    /\ open \in [Procs -> BOOLEAN]
    /\ job \in [Procs -> Jobs \cup {NoJob}]
    /\ served \in Clients \cup {"none"}
    /\ effort \in [calls : [Clients -> Int], events : Int, opens : {0, 1}]
    /\ DOMAIN call = Clients /\ DOMAIN pipe = Clients

\* A call that waits has its request or the answer on the socket.
ClientInv(c) ==
    /\ call[c].state \in {"idle", "waiting", "done"}
    /\ call[c].state = "waiting" =>
         /\ call[c].op \in Requests
         /\ pipe[c].kind = "reply" \/ pipe[c] = [kind |-> "request", op |-> call[c].op]
    /\ pipe[c].kind = "request" => call[c].state = "waiting"

\* A page that is chosen stays, but for the other process on the Wishbone bus.
PageInv(j) ==
    j.at.word > 0 =>
      /\ j.op.bar = BAR2NO => mem[<<BAR0NO, "SDRAM_PG">>] = Turn(j.op, j.at).page
      /\ j.op.bar = BAR4NO /\ alone => mem[<<BAR0NO, "WB_PG">>] = Turn(j.op, j.at).page

JobInv(j) ==
    /\ Performed(j.op) /\ LoopInv(j.op, j.at)
    /\ Len(j.buf) = j.op.size
    /\ Writes(j.op) => j.buf = j.op.data

\* The thread performs the operation of the client it serves.
ServedInv ==
    /\ open["devio"] => effort.opens = 0
    /\ served = "none" <=> job["devio"] = NoJob
    /\ served # "none" =>
         /\ effort.opens = 0
         /\ call[served].state = "waiting" /\ pipe[served].kind = "request"
         /\ job["devio"].op = call[served].op
         /\ JobInv(job["devio"]) /\ PageInv(job["devio"])

\* The other process is gone for good once it was gone.
CfgInv ==
    /\ alone => ~open["cfg"] \/ CfgRequests = {}
    /\ ~open["cfg"] \/ CfgRequests = {} => job["cfg"] = NoJob
    /\ job["cfg"] # NoJob => job["cfg"].op \in CfgRequests /\ JobInv(job["cfg"])

WbPageInv ==
    /\ mem[<<BAR0NO, "WB_PG">>] \in Nat
    /\ WbPgSize * mem[<<BAR0NO, "WB_PG">>] + WbPgSize <= WbWords

RpcInv == Types /\ (\A c \in Clients : ClientInv(c)) /\ ServedInv /\ CfgInv /\ WbPageInv

(* ------------------- what a client makes of an answer ------------------ *)

\* The answer of RemoteAccess that a reply stands for.
Told(op, m) ==
    LET r == Returned(op, m)
    IN  [state |-> "answered", op |-> op, ok |-> Succeeded([op |-> op, ret |-> r.ret]), data |-> r.data]

\* What is put into a pipe is a reply.
LEMMA IsReply ==
  ASSUME NEW op, NEW ret, NEW data
  PROVE  Response(op, ret, data).kind = "reply"
BY DEF Response

\* What the client makes of the two kinds of replies.
LEMMA ReplyShort ==
  ASSUME NEW code \in Int, NEW n, NEW empty \in BOOLEAN, NEW m, m = [kind |-> "reply", code |-> code]
  PROVE  recv_rw(m, n, empty) = [ret |-> IF code = 0 /\ empty THEN 0 ELSE -1, data |-> << >>]
BY DEF recv_rw

\* A reply with data is as long as its return value says.
LEMMA ReplyLong ==
  ASSUME NEW ret \in Nat, NEW data \in Seq(Int), Len(data) = ret, NEW empty \in BOOLEAN,
         NEW m, m = [kind |-> "reply", code |-> 0, ret |-> ret, data |-> data]
  PROVE  recv_rw(m, ret, empty) = [ret |-> ret, data |-> data]
<1>1. m.code = 0 /\ "ret" \in DOMAIN m /\ m.ret = Len(m.data) /\ ~(Len(m.data) < ret) /\ m.data = data
  OBVIOUS
<1>2. SubSeq(data, 1, ret) = data
  BY PrefixAll
<1> QED BY <1>1, <1>2 DEF recv_rw

\* What a client is told by a reply.
LEMMA ToldIs ==
  ASSUME NEW op, NEW m, NEW ret, NEW data, Returned(op, m) = [ret |-> ret, data |-> data],
         NEW ok \in BOOLEAN, ok <=> (IF OpenRelease(op) THEN ret = 0 ELSE ret = op.size)
  PROVE  Told(op, m) = [state |-> "answered", op |-> op, ok |-> ok, data |-> data]
<1> DEFINE k == [op |-> op, ret |-> Returned(op, m).ret]
<1>1. k.op = op /\ k.ret = ret
  OBVIOUS
<1>2. Succeeded(k) = ok
  <2> HIDE DEF k
  <2>1. CASE OpenRelease(op)
    <3>1. Succeeded(k) = (ret = 0)
      BY <1>1, <2>1, Zenon DEF Succeeded
    <3>2. ok <=> ret = 0
      BY <2>1
    <3> QED BY <3>1, <3>2, Zenon
  <2>2. CASE ~OpenRelease(op)
    <3>1. Succeeded(k) = (ret = op.size)
      BY <1>1, <2>2, Zenon DEF Succeeded
    <3>2. ok <=> ret = op.size
      BY <2>2
    <3> QED BY <3>1, <3>2, Zenon
  <2> QED BY <2>1, <2>2
<1>3. Returned(op, m).data = data
  OBVIOUS
<1> QED BY <1>2, <1>3, Zenon DEF Told

\* Opening and releasing return no data.
LEMMA ToldOpen ==
  ASSUME NEW op \in Requests, OpenRelease(op), NEW m
  PROVE  \E ok \in BOOLEAN : Told(op, m) = [state |-> "answered", op |-> op, ok |-> ok, data |-> << >>]
<1>1. \E ret : Returned(op, m) = [ret |-> ret, data |-> << >>]
  BY Zenon DEF Returned
<1>2. PICK ret : Returned(op, m) = [ret |-> ret, data |-> << >>]
  BY <1>1, Zenon
<1>3. PICK ok \in BOOLEAN : ok <=> ret = 0
  BY Zenon
<1>4. ok <=> (IF OpenRelease(op) THEN ret = 0 ELSE ret = op.size)
  BY <1>3
<1> QED BY <1>2, <1>4, ToldIs

\* The return code of a write in the answer.
LEMMA WriteReturned ==
  ASSUME NEW op \in Requests, Writes(op), NEW ret \in Int, NEW data,
         NEW ok \in BOOLEAN, ok <=> ret % 2^RetBits = op.size
  PROVE  Told(op, Response(op, ret, data)) = [state |-> "answered", op |-> op, ok |-> ok, data |-> << >>]
<1> DEFINE m == Response(op, ret, data)
           r == recv_rw(m, 1, FALSE)
<1>1. ~OpenRelease(op)
  BY DEF Writes, OpenRelease
<1>2. m = [kind |-> "reply", code |-> 0, ret |-> 1, data |-> <<ret>>]
  BY <1>1 DEF Response, thsafe_block, thsafe_write
<1>3. r = [ret |-> 1, data |-> <<ret>>]
  <2>1. <<ret>> \in Seq(Int) /\ Len(<<ret>>) = 1 /\ 1 \in Nat
    OBVIOUS
  <2> HIDE DEF m
  <2> QED BY <1>2, <2>1, ReplyLong, Zenon
<1>4. r.ret = 1 /\ r.data[1] = ret
  <2> HIDE DEF r
  <2> QED BY <1>3
<1> HIDE DEF m
<1>5. Returned(op, m) = [ret |-> ret % 2^RetBits, data |-> << >>]
  <2>1. Returned(op, m) = [ret |-> IF r.ret = 1 THEN r.data[1] % 2^RetBits ELSE -1, data |-> << >>]
    BY <1>1, Zenon DEF Returned
  <2> HIDE DEF r
  <2> QED BY <1>4, <2>1, Zenon
<1>6. ok <=> (IF OpenRelease(op) THEN ret % 2^RetBits = 0 ELSE ret % 2^RetBits = op.size)
  BY <1>1
<1> QED BY <1>5, <1>6, ToldIs DEF m

\* A failure is not taken for success, but for an operation without words.
LEMMA ToldFailure ==
  ASSUME NEW op \in Requests, ~OpenRelease(op), NEW ret \in Int, ret <= 0, ret >= 0 - 2, NEW data
  PROVE  \E ok \in BOOLEAN :
           /\ Told(op, Response(op, ret, data)) =
                [state |-> "answered", op |-> op, ok |-> ok, data |-> << >>]
           /\ ok => op.size = 0 /\ ret = 0
<1> DEFINE m == Response(op, ret, data)
<1>1. op.size \in Nat /\ op.size < 2^RetBits - 2 /\ 2^RetBits \in Nat
  BY RequestsFit DEF Fits, LLIO_ERR_FUNC_NOT_IMPL
<1>2. CASE Writes(op)
  <2>1. ret # 0 => ret % 2^RetBits # op.size
    <3> DEFINE M == 2^RetBits
    <3>1. M \in Nat /\ op.size < M - 2
      BY <1>1
    <3> HIDE DEF M
    <3>2. ret # 0 => ret % M # op.size
      BY <1>1, <3>1, ReturnCode
    <3> QED BY <3>2 DEF M
  <2>2. 0 % 2^RetBits = 0
    <3> DEFINE M == 2^RetBits
    <3>1. M \in Nat /\ M > 0
      BY <1>1
    <3> HIDE DEF M
    <3>2. 0 % M = 0
      BY <3>1
    <3> QED BY <3>2 DEF M
  <2>3. PICK ok \in BOOLEAN : ok <=> ret % 2^RetBits = op.size
    BY Zenon
  <2>4. Told(op, m) = [state |-> "answered", op |-> op, ok |-> ok, data |-> << >>]
    BY <1>2, <2>3, WriteReturned
  <2>5. ok => op.size = 0 /\ ret = 0
    BY <2>1, <2>2, <2>3, Zenon
  <2> QED BY <2>4, <2>5, Zenon
<1>3. CASE ~Writes(op)
  <2>1. m = [kind |-> "reply", code |-> -ret]
    BY <1>3 DEF Response, thsafe_block, thsafe_read
  <2>2. -ret \in Int /\ (-ret = 0 <=> ret = 0)
    OBVIOUS
  <2>3. recv_rw(m, op.size, TRUE) = [ret |-> IF -ret = 0 /\ TRUE THEN 0 ELSE -1, data |-> << >>]
    <3> HIDE DEF m
    <3> QED BY <2>1, <2>2, ReplyShort, Zenon
  <2>4. PICK x \in Int : x = IF ret = 0 THEN 0 ELSE -1
    OBVIOUS
  <2> HIDE DEF m
  <2>5. Returned(op, m) = [ret |-> x, data |-> << >>]
    BY <1>3, <2>2, <2>3, <2>4, Zenon DEF Returned
  <2>6. PICK ok \in BOOLEAN : ok <=> x = op.size
    BY Zenon
  <2>7. ok <=> (IF OpenRelease(op) THEN x = 0 ELSE x = op.size)
    BY <2>6
  <2>8. Told(op, m) = [state |-> "answered", op |-> op, ok |-> ok, data |-> << >>]
    BY <2>5, <2>7, ToldIs
  <2>9. ok => op.size = 0 /\ ret = 0
    BY <1>1, <2>4, <2>6
  <2> QED BY <2>8, <2>9, Zenon DEF m
<1> QED BY <1>2, <1>3

\* An operation that was performed returns all its words.
LEMMA ToldSuccess ==
  ASSUME NEW op \in Requests, Performed(op), NEW data \in Seq(Int), Len(data) = op.size
  PROVE  Told(op, Response(op, op.size, data)) =
           [state |-> "answered", op |-> op, ok |-> TRUE, data |-> IF Writes(op) THEN << >> ELSE data]
<1> DEFINE m == Response(op, op.size, data)
<1>1. op.size \in Nat /\ op.size < 2^RetBits - 2 /\ 2^RetBits \in Nat /\ ~OpenRelease(op)
  BY RequestsFit, Zenon DEF Fits, LLIO_ERR_FUNC_NOT_IMPL, Performed, OpenRelease, Block
<1>2. CASE Writes(op)
  <2>1. op.size % 2^RetBits = op.size
    <3> DEFINE M == 2^RetBits
    <3>1. M \in Nat /\ op.size < M - 2
      BY <1>1
    <3> HIDE DEF M
    <3>2. op.size % M = op.size
      BY <1>1, <3>1, ReturnCode
    <3> QED BY <3>2 DEF M
  <2>2. TRUE <=> op.size % 2^RetBits = op.size
    BY <2>1
  <2>3. op.size \in Int /\ TRUE \in BOOLEAN
    BY <1>1
  <2>4. Told(op, m) = [state |-> "answered", op |-> op, ok |-> TRUE, data |-> << >>]
    BY <1>2, <2>2, <2>3, WriteReturned, Zenon
  <2> QED BY <1>2, <2>4
<1>3. ASSUME ~Writes(op), Returned(op, m) = [ret |-> op.size, data |-> data]
      PROVE  Told(op, m) = [state |-> "answered", op |-> op, ok |-> TRUE, data |-> data]
  <2>1. TRUE <=> (IF OpenRelease(op) THEN op.size = 0 ELSE op.size = op.size)
    BY <1>1
  <2>2. TRUE \in BOOLEAN
    OBVIOUS
  <2> QED BY <1>3, <2>1, <2>2, ToldIs, Zenon
<1>4. CASE ~Writes(op) /\ op.size = 0
  <2>1. m = [kind |-> "reply", code |-> -op.size]
    BY <1>1, <1>4 DEF Response, thsafe_block, thsafe_read
  <2>2. -op.size = 0 /\ -op.size \in Int
    <3>1. \A x \in Int : (-x = 0 <=> x = 0) /\ -x \in Int
      OBVIOUS
    <3>2. op.size \in Int
      BY <1>1
    <3> QED BY <1>4, <3>1, <3>2, Zenon
  <2>3. data = << >>
    BY <1>4
  <2>4. recv_rw(m, op.size, TRUE) = [ret |-> 0, data |-> << >>]
    <3> HIDE DEF m
    <3> QED BY <2>1, <2>2, ReplyShort, Zenon
  <2> HIDE DEF m
  <2>5. Returned(op, m) = [ret |-> op.size, data |-> data]
    BY <1>1, <1>4, <2>3, <2>4, Zenon DEF Returned
  <2> QED BY <1>3, <1>4, <2>5 DEF m
<1>5. CASE ~Writes(op) /\ op.size # 0
  <2>1. m = [kind |-> "reply", code |-> 0, ret |-> op.size, data |-> data]
    BY <1>1, <1>5 DEF Response, thsafe_block, thsafe_read
  <2>2. recv_rw(m, op.size, TRUE) = [ret |-> op.size, data |-> data]
    <3> HIDE DEF m
    <3> QED BY <1>1, <2>1, ReplyLong, Zenon
  <2> HIDE DEF m
  <2>3. Returned(op, m) = [ret |-> op.size, data |-> data]
    BY <1>1, <1>5, <2>2, Zenon DEF Returned
  <2> QED BY <1>3, <1>5, <2>3 DEF m
<1> QED BY <1>2, <1>4, <1>5

(* --------------------------- steps of the SMIOs ------------------------ *)

\* A step of one SMIO whose operation is not under way.
LEMMA ClientStep ==
  ASSUME RpcInv, NEW c \in Clients, served # c,
         UNCHANGED <<mem, stuck, open, job, served, alone>>,
         effort' \in [calls : [Clients -> Int], events : Int, opens : {0, 1}],
         effort'.opens = effort.opens,
         DOMAIN call' = Clients, DOMAIN pipe' = Clients,
         \A d \in Clients \ {c} : call'[d] = call[d] /\ pipe'[d] = pipe[d],
         ClientInv(c)'
  PROVE  RpcInv' /\ \A d \in Clients \ {c} : Shown(d)' = Shown(d)
<1>1. Types'
  BY DEF RpcInv, Types
<1>2. ASSUME NEW d \in Clients
      PROVE  ClientInv(d)'
  BY Zenon DEF RpcInv, ClientInv
<1>3. ServedInv'
  <2>1. served \in Clients \cup {"none"} /\ served' = served
    BY DEF RpcInv, Types
  <2>2. served # "none" => call'[served] = call[served] /\ pipe'[served] = pipe[served]
    BY <2>1
  <2> QED BY <2>1, <2>2, Zenon DEF RpcInv, ServedInv, JobInv, PageInv
<1>4. CfgInv' /\ WbPageInv'
  BY Zenon DEF RpcInv, CfgInv, WbPageInv, JobInv
<1>5. ASSUME NEW d \in Clients \ {c}
      PROVE  Shown(d)' = Shown(d)
  BY DEF Shown
<1> QED BY <1>1, <1>2, <1>3, <1>4, <1>5 DEF RpcInv

\* In the eyes of RemoteAccess the rest of the state is the same.
LEMMA RestKept ==
  ASSUME UNCHANGED <<mem, stuck, job, served, alone>>
  PROVE  /\ [a \in Sdram \cup Wb |-> mem[a]]' = [a \in Sdram \cup Wb |-> mem[a]]
         /\ (IF served = "none" THEN << >>
             ELSE SubSeq(job["devio"].buf, 1, Moved(job["devio"].op, job["devio"].at)))'
            = (IF served = "none" THEN << >>
               ELSE SubSeq(job["devio"].buf, 1, Moved(job["devio"].op, job["devio"].at)))
OBVIOUS

\* Send is a step Ask of RemoteAccess, or Refuse when no message goes out.
LEMMA SendStep ==
  ASSUME RpcInv, NEW c \in Clients, Send(c)
  PROVE  RpcInv' /\ [Abstract!Next]_(Abstract!vars)
<1>1. /\ call[c] = Idle /\ DOMAIN call = Clients /\ DOMAIN pipe = Clients
      /\ effort \in [calls : [Clients -> Int], events : Int, opens : {0, 1}]
      /\ pipe[c].kind # "request"
  BY DEF Send, RpcInv, Types, ClientInv, Idle
<1>2. UNCHANGED <<mem, stuck, open, job, served, alone>>
  BY DEF Send
<1>3. served # c
  BY <1>1, RpcAssumption DEF RpcInv, ServedInv, Idle
<1>4. effort' \in [calls : [Clients -> Int], events : Int, opens : {0, 1}] /\ effort'.opens = effort.opens
  <2>1. effort' = [effort EXCEPT !.calls = [effort.calls EXCEPT ![c] = effort.calls[c] - 1]]
    BY DEF Send
  <2>2. [effort.calls EXCEPT ![c] = effort.calls[c] - 1] \in [Clients -> Int]
    BY <1>1
  <2> QED BY <1>1, <2>1, <2>2
<1>5. PICK op \in Requests :
        IF Dma(op)
        THEN /\ call' = [call EXCEPT ![c] = [state |-> "done", op |-> op, ret |-> -1, data |-> << >>]]
             /\ UNCHANGED pipe
        ELSE /\ call' = [call EXCEPT ![c] = [state |-> "waiting", op |-> op]]
             /\ pipe' = [pipe EXCEPT ![c] = [kind |-> "request", op |-> op]]
  BY DEF Send
<1>6. /\ DOMAIN call' = Clients /\ DOMAIN pipe' = Clients
      /\ \A d \in Clients \ {c} : call'[d] = call[d] /\ pipe'[d] = pipe[d]
  BY <1>1, <1>5
<1>7. ClientInv(c)'
  BY <1>1, <1>5 DEF ClientInv
<1>8. RpcInv' /\ \A d \in Clients \ {c} : Shown(d)' = Shown(d)
  BY <1>2, <1>3, <1>4, <1>6, <1>7, ClientStep
<1>9. Shown(c) = Abstract!Idle
  BY <1>1 DEF Shown, Idle, Abstract!Idle
<1>10. CASE Dma(op)
  <2>1. call'[c] = [state |-> "done", op |-> op, ret |-> -1, data |-> << >>]
    BY <1>1, <1>5, <1>10
  <2>2. Shown(c)' = Abstract!Answered(op, FALSE, << >>)
    <3>1. Shown(c)' = LET r == call'[c]
                      IN  [state |-> "answered", op |-> op,
                           ok |-> Succeeded([op |-> op, ret |-> r.ret]), data |-> r.data]
      BY <2>1 DEF Shown
    <3>2. Succeeded([op |-> op, ret |-> call'[c].ret]) = FALSE
      <4>1. op.size \in Nat
        BY RequestsFit DEF Fits
      <4>2. ~OpenRelease(op)
        BY <1>10 DEF OpenRelease, Dma
      <4>3. ~(call'[c].ret = op.size)
        BY <2>1, <4>1
      <4> QED BY <4>2, <4>3, Zenon DEF Succeeded
    <3>3. call'[c].data = << >>
      BY <2>1
    <3> QED BY <3>1, <3>2, <3>3, Zenon DEF Abstract!Answered
  <2>3. Abstract!Refuse(c)
    BY <1>2, <1>8, <1>9, <2>2, RestKept, Zenon DEF Abstract!Refuse
  <2> QED BY <1>8, <2>3 DEF Abstract!Next
<1>11. CASE ~Dma(op)
  <2>1. Shown(c)' = [state |-> "asked", op |-> op]
    BY <1>1, <1>5, <1>11 DEF Shown
  <2>2. Abstract!Ask(c)
    BY <1>2, <1>8, <1>9, <2>1, RestKept, Zenon DEF Abstract!Ask
  <2> QED BY <1>8, <2>2 DEF Abstract!Next
<1> QED BY <1>10, <1>11

\* Receive changes nothing that RemoteAccess shows: the answer is in the pipe before.
LEMMA ReceiveStep ==
  ASSUME RpcInv, NEW c \in Clients, Receive(c)
  PROVE  RpcInv' /\ [Abstract!Next]_(Abstract!vars)
<1>1. /\ call[c].state = "waiting" /\ pipe[c].kind = "reply"
      /\ DOMAIN call = Clients /\ DOMAIN pipe = Clients
      /\ effort \in [calls : [Clients -> Int], events : Int, opens : {0, 1}]
  BY DEF Receive, RpcInv, Types
<1>2. UNCHANGED <<mem, stuck, open, job, served, alone, effort>>
  BY DEF Receive
<1>3. served # c
  BY <1>1, RpcAssumption, Zenon DEF RpcInv, ServedInv
<1>4. PICK r : r = Returned(call[c].op, pipe[c])
  BY Zenon
<1>5. /\ call' = [call EXCEPT ![c] = [state |-> "done", op |-> call[c].op, ret |-> r.ret, data |-> r.data]]
      /\ pipe' = [pipe EXCEPT ![c] = NoPipe]
  BY <1>4 DEF Receive
<1>6. /\ DOMAIN call' = Clients /\ DOMAIN pipe' = Clients
      /\ \A d \in Clients \ {c} : call'[d] = call[d] /\ pipe'[d] = pipe[d]
      /\ call'[c] = [state |-> "done", op |-> call[c].op, ret |-> r.ret, data |-> r.data]
      /\ pipe'[c] = NoPipe
  BY <1>1, <1>5
<1>7. ClientInv(c)'
  BY <1>6 DEF ClientInv, NoPipe
<1>8. RpcInv' /\ \A d \in Clients \ {c} : Shown(d)' = Shown(d)
  BY <1>1, <1>2, <1>3, <1>6, <1>7, ClientStep, Zenon
<1>9. Shown(c)' = Shown(c)
  <2> DEFINE Ans(op, x) == [state |-> "answered", op |-> op,
                            ok |-> Succeeded([op |-> op, ret |-> x.ret]), data |-> x.data]
  <2>1. Shown(c) = Ans(call[c].op, r)
    BY <1>1, <1>4 DEF Shown
  <2>2. Shown(c)' = Ans(call'[c].op, call'[c])
    BY <1>6 DEF Shown
  <2>3. call'[c].op = call[c].op /\ call'[c].ret = r.ret /\ call'[c].data = r.data
    BY <1>6
  <2> QED BY <2>1, <2>2, <2>3, Zenon
<1>10. [d \in Clients |-> Shown(d)]' = [d \in Clients |-> Shown(d)]
  BY <1>8, <1>9
<1> QED BY <1>2, <1>8, <1>10, RestKept DEF Abstract!vars

\* Proceed is the step Take of RemoteAccess.
LEMMA ProceedStep ==
  ASSUME RpcInv, NEW c \in Clients, Proceed(c)
  PROVE  RpcInv' /\ [Abstract!Next]_(Abstract!vars)
<1>1. /\ call[c].state = "done"
      /\ DOMAIN call = Clients /\ DOMAIN pipe = Clients
      /\ effort \in [calls : [Clients -> Int], events : Int, opens : {0, 1}]
      /\ pipe[c].kind # "request"
  BY DEF Proceed, RpcInv, Types, ClientInv
<1>2. UNCHANGED <<mem, stuck, open, job, served, alone, effort, pipe>> /\ call' = [call EXCEPT ![c] = Idle]
  BY DEF Proceed
<1>3. served # c
  BY <1>1, RpcAssumption DEF RpcInv, ServedInv
<1>4. /\ DOMAIN call' = Clients /\ DOMAIN pipe' = Clients
      /\ \A d \in Clients \ {c} : call'[d] = call[d] /\ pipe'[d] = pipe[d]
      /\ call'[c] = Idle /\ pipe'[c] = pipe[c]
  BY <1>1, <1>2
<1>5. ClientInv(c)'
  BY <1>1, <1>4 DEF ClientInv, Idle
<1>6. RpcInv' /\ \A d \in Clients \ {c} : Shown(d)' = Shown(d)
  BY <1>1, <1>2, <1>3, <1>4, <1>5, ClientStep, Zenon
<1>7. Shown(c).state = "answered" /\ Shown(c)' = Abstract!Idle
  BY <1>1, <1>4 DEF Shown, Idle, Abstract!Idle
<1>8. Abstract!Take(c)
  BY <1>2, <1>6, <1>7, RestKept, Zenon DEF Abstract!Take
<1> QED BY <1>6, <1>8 DEF Abstract!Next

(* ------------------------ steps of the DEVIO thread -------------------- *)

\* A request that is answered at once.
LEMMA AnsweredAtOnce ==
  ASSUME RpcInv, NEW c \in Clients, served = "none", pipe[c].kind = "request",
         NEW ret \in Int, pipe' = [pipe EXCEPT ![c] = Response(pipe[c].op, ret, << >>)],
         UNCHANGED <<mem, stuck, job, served, alone, call, effort>>,
         open' = open \/ open' = [open EXCEPT !["devio"] = FALSE],
         OpenRelease(pipe[c].op) \/ (ret <= 0 /\ ret >= 0 - 2)
  PROVE  RpcInv' /\ [Abstract!Next]_(Abstract!vars)
<1>1. PICK op \in Requests : op = call[c].op
  BY Zenon DEF RpcInv, ClientInv
<1>2. /\ call[c].state = "waiting" /\ pipe[c].op = op
      /\ DOMAIN call = Clients /\ DOMAIN pipe = Clients
  BY <1>1 DEF RpcInv, ClientInv, Types
<1>3. PICK m : m = Response(op, ret, << >>)
  OBVIOUS
<1>4. m.kind = "reply"
  BY <1>3, IsReply
<1>5. pipe'[c] = m /\ DOMAIN pipe' = Clients /\ \A d \in Clients \ {c} : pipe'[d] = pipe[d]
  BY <1>2, <1>3
<1>6. Types'
  BY <1>2, <1>5, Zenon DEF RpcInv, Types, Procs
<1>7. \A d \in Clients : ClientInv(d)'
  BY <1>2, <1>4, <1>5 DEF RpcInv, ClientInv
<1>8. ServedInv'
  BY DEF RpcInv, ServedInv, Types, Procs
<1>9. CfgInv' /\ WbPageInv'
  BY Zenon DEF RpcInv, CfgInv, WbPageInv, JobInv, Types, Procs
<1>10. RpcInv'
  BY <1>6, <1>7, <1>8, <1>9 DEF RpcInv
<1>11. \A d \in Clients \ {c} : Shown(d)' = Shown(d)
  BY <1>5 DEF Shown
<1>12. Shown(c) = [state |-> "asked", op |-> op]
  BY <1>1, <1>2 DEF Shown
<1>13. Shown(c)' = Told(op, m)
  BY <1>1, <1>2, <1>4, <1>5 DEF Shown, Told
<1>14. PICK ok \in BOOLEAN :
         /\ Told(op, m) = [state |-> "answered", op |-> op, ok |-> ok, data |-> << >>]
         /\ ok => Length(op) = 0
  <2>1. CASE OpenRelease(op)
    BY <2>1, ToldOpen DEF Length
  <2>2. CASE ~OpenRelease(op)
    <3>1. ret <= 0 /\ ret >= 0 - 2
      BY <1>2, <2>2
    <3> QED BY <1>3, <2>2, <3>1, ToldFailure DEF Length
  <2> QED BY <2>1, <2>2
<1>15. Abstract!Refuse(c)
  <2>1. Shown(c)' = Abstract!Answered(op, ok, << >>)
    BY <1>13, <1>14 DEF Abstract!Answered
  <2>2. [d \in Clients |-> Shown(d)]'
          = [[d \in Clients |-> Shown(d)] EXCEPT ![c] = Abstract!Answered(op, ok, << >>)]
    BY <1>11, <2>1, Zenon
  <2>3. [d \in Clients |-> Shown(d)][c].state = "asked" /\ [d \in Clients |-> Shown(d)][c].op = op
    BY <1>12
  <2> QED BY <1>14, <2>2, <2>3, RestKept, Zenon DEF Abstract!Refuse
<1> QED BY <1>10, <1>15 DEF Abstract!Next

\* A try at its start.
LEMMA NewJob ==
  ASSUME NEW op \in Requests \cup CfgRequests, Performed(op), NEW tries \in Nat
  PROVE  /\ Job(op, tries) \in Jobs /\ JobInv(Job(op, tries)) /\ Job(op, tries) # NoJob
         /\ Job(op, tries).op = op /\ Job(op, tries).at.word = 0
         /\ Moved(op, Job(op, tries).at) = 0
<1> DEFINE buf == IF Writes(op) THEN op.data ELSE [i \in 1..op.size |-> Junk]
           j == [op |-> op, at |-> Start(op), reset |-> FALSE, tries |-> tries, over |-> FALSE, buf |-> buf]
<1>1. op.size \in Nat
  BY Sizes
<1>2. buf \in Seq(Int) /\ Len(buf) = op.size
  <2>1. CASE Writes(op)
    BY <2>1, Zenon DEF Performed, Fits
  <2>2. CASE ~Writes(op)
    <3>1. buf = [i \in 1..op.size |-> Junk] /\ Junk \in Int
      BY <2>2, RpcAssumption
    <3> QED BY <1>1, <3>1
  <2> QED BY <2>1, <2>2, Zenon
<1>3. Writes(op) => buf = op.data
  OBVIOUS
<1>4. LoopInv(op, Start(op)) /\ Start(op) \in Loops
  BY StartLoop DEF LoopInv
<1>5. Start(op).word = 0 /\ Start(op).rem = op.size
  BY DEF Start
<1>6. Job(op, tries) = j
  BY Zenon DEF Job
<1> HIDE DEF buf
<1>7. j \in Jobs /\ j # NoJob
  <2>1. DOMAIN j # DOMAIN NoJob
    <3>1. "op" \in DOMAIN j /\ "op" \notin DOMAIN NoJob
      BY DEF NoJob
    <3> QED BY <3>1, Zenon
  <2> QED BY <1>2, <1>4, <2>1, Zenon DEF Jobs
<1>8. JobInv(j)
  BY <1>2, <1>3, <1>4 DEF JobInv
<1>9. Moved(op, Start(op)) = 0
  BY <1>1, <1>5 DEF Moved
<1> QED BY <1>5, <1>6, <1>7, <1>8, <1>9

\* A request that is not refused is one that is performed.
LEMMA RefusedValues ==
  ASSUME NEW op \in Requests, ~OpenRelease(op), NEW o \in BOOLEAN
  PROVE  /\ Refused(op, o) \in {-2, -1, 0, 1}
         /\ Refused(op, o) = 1 => Performed(op)
<1>1. Fits(op)
  BY RequestsFit
<1> QED BY <1>1 DEF Refused, Performed, Fits, OpenRelease, Dma, Single, Block, LLIO_ERR_FUNC_NOT_IMPL,
            BAR0NO, BAR2NO, BAR4NO

\* Handle answers a request at once or begins the operation.
LEMMA HandleStep ==
  ASSUME RpcInv, NEW c \in Clients, Handle(c)
  PROVE  RpcInv' /\ [Abstract!Next]_(Abstract!vars)
<1> DEFINE op == pipe[c].op
<1>1. served = "none" /\ pipe[c].kind = "request" /\ UNCHANGED <<mem, stuck, call, effort>>
      /\ (open["devio"] \/ effort.opens = 0)
  BY DEF Handle
<1>2. /\ call[c].state = "waiting" /\ call[c].op = op /\ op \in Requests
      /\ DOMAIN call = Clients /\ DOMAIN pipe = Clients
      /\ open \in [Procs -> BOOLEAN] /\ open["devio"] \in BOOLEAN
      /\ job \in [Procs -> Jobs \cup {NoJob}]
  BY <1>1 DEF RpcInv, ClientInv, Types, Procs
<1>3. CASE op.does = "open"
  <2>1. /\ pipe' = [pipe EXCEPT ![c] = Response(op, OpenResult, << >>)]
        /\ UNCHANGED <<open, job, served, alone>>
    BY <1>3 DEF Handle, OpenRelease
  <2>2. OpenResult \in Int /\ OpenRelease(op)
    BY <1>3 DEF OpenResult, OpenRelease
  <2> QED BY <1>1, <2>1, <2>2, AnsweredAtOnce, Zenon
<1>4. CASE op.does = "release"
  <2>1. /\ open' = [open EXCEPT !["devio"] = FALSE]
        /\ pipe' = [pipe EXCEPT ![c] = Response(op, 0, << >>)]
        /\ UNCHANGED <<job, served, alone>>
    BY <1>4 DEF Handle, OpenRelease
  <2>2. OpenRelease(op) /\ 0 \in Int
    BY <1>4 DEF OpenRelease
  <2> QED BY <1>1, <2>1, <2>2, AnsweredAtOnce, Zenon
<1>5. CASE ~OpenRelease(op) /\ Refused(op, open["devio"]) < 1
  <2>1. PICK ret : ret = Refused(op, open["devio"])
    OBVIOUS
  <2>2. /\ pipe' = [pipe EXCEPT ![c] = Response(op, ret, << >>)]
        /\ UNCHANGED <<open, job, served, alone>>
    BY <1>5, <2>1 DEF Handle, OpenRelease
  <2>3. ret \in Int /\ ret <= 0 /\ ret >= 0 - 2
    BY <1>2, <1>5, <2>1, RefusedValues
  <2> QED BY <1>1, <2>2, <2>3, AnsweredAtOnce, Zenon
<1>6. CASE ~OpenRelease(op) /\ ~(Refused(op, open["devio"]) < 1)
  <2>1. /\ served' = c /\ alone' = (~open["cfg"] \/ CfgRequests = {})
        /\ job' = [job EXCEPT !["devio"] = Job(op, 1)]
        /\ UNCHANGED <<open, pipe>>
    BY <1>6 DEF Handle, OpenRelease
  <2>2. Performed(op)
    BY <1>2, <1>6, RefusedValues
  <2>3. PICK j : j = Job(op, 1)
    OBVIOUS
  <2>4. j \in Jobs /\ JobInv(j) /\ j # NoJob /\ j.op = op /\ j.at.word = 0 /\ Moved(op, j.at) = 0
    BY <1>2, <2>2, <2>3, NewJob, Zenon
  <2>5. job'["devio"] = j /\ job'["cfg"] = job["cfg"] /\ job' \in [Procs -> Jobs \cup {NoJob}]
    BY <1>2, <2>1, <2>3, <2>4 DEF Procs
  <2>6. alone' \in BOOLEAN /\ (alone => alone') /\ (alone' <=> (~open["cfg"] \/ CfgRequests = {}))
    BY <2>1, Zenon DEF RpcInv, CfgInv, JobInv
  <2>7. Types'
    BY <1>1, <2>1, <2>5, <2>6 DEF RpcInv, Types
  <2>8. \A d \in Clients : ClientInv(d)'
    BY <1>1, <2>1 DEF RpcInv, ClientInv
  <2>9. ServedInv'
    <3>0. ~(j.at.word > 0)
      BY <2>4
    <3>1. PageInv(j)'
      BY <3>0, Zenon DEF PageInv
    <3>2. effort.opens = 0 /\ served' = c /\ c # "none"
      BY <1>1, <2>1, RpcAssumption, Zenon DEF RpcInv, ServedInv
    <3> QED BY <1>1, <1>2, <2>1, <2>4, <2>5, <3>1, <3>2, Zenon DEF ServedInv, JobInv
  <2>10. CfgInv' /\ WbPageInv'
    BY <1>1, <2>1, <2>5, <2>6, Zenon DEF RpcInv, CfgInv, WbPageInv, JobInv
  <2>11. RpcInv'
    BY <2>7, <2>8, <2>9, <2>10 DEF RpcInv
  <2>12. [d \in Clients |-> Shown(d)]' = [d \in Clients |-> Shown(d)]
    BY <1>1, <2>1 DEF Shown
  <2>13. [d \in Clients |-> Shown(d)][c].state = "asked"
    BY <1>1, <1>2 DEF Shown
  <2>14. SubSeq(job'["devio"].buf, 1, Moved(job'["devio"].op, job'["devio"].at)) = << >>
    BY <2>4, <2>5, PrefixNone DEF Jobs
  <2>15. alone' \in {alone, TRUE}
    BY <2>6, Zenon DEF RpcInv, Types
  <2>16. served' # "none"
    BY <2>1, RpcAssumption
  <2>17. [a \in Sdram \cup Wb |-> mem[a]]' = [a \in Sdram \cup Wb |-> mem[a]] /\ stuck' = stuck
    BY <1>1
  <2>18. Abstract!Begin(c)
    BY <1>1, <2>1, <2>12, <2>13, <2>14, <2>15, <2>16, <2>17, Zenon DEF Abstract!Begin
  <2> QED BY <2>11, <2>18 DEF Abstract!Next
<1> QED BY <1>3, <1>4, <1>5, <1>6 DEF OpenRelease

=============================================================================
