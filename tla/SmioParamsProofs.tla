-------------------------- MODULE SmioParamsProofs --------------------------
(***************************************************************************)
(* Proofs about SmioParams: what a set and a read of a parameter do to the *)
(* registers, for every SMIO whose tables are well formed and however many *)
(* calls are made.                                                         *)
(***************************************************************************)
EXTENDS SmioParams, FiniteSetTheorems, WellFoundedInduction, TLAPS

(* Provers of a leaf that names none, with their time limits in seconds.     *)
USE SMTT(20), ZenonT(20)

(***************************************************************************)
(* Smallest and largest elements.                                          *)
(***************************************************************************)
Below == {ss \in Nat \X Nat : ss[1] < ss[2]}

(* The order of the naturals is well founded. *)
LEMMA BelowWellFounded == IsWellFoundedOn(Below, Nat)
BY Zenon, NatLessThanWellFounded DEF OpToRel, Below

(* A set of naturals that is not empty has a smallest element. *)
LEMMA SmallestExists ==
    ASSUME NEW D \in SUBSET Nat, D # {}
    PROVE  \E x \in D : \A y \in D : x <= y
<1>1. \E x \in D : \A y \in D : ~ (<<y, x>> \in Below)
  BY BelowWellFounded, WFMin, Zenon
<1>2. PICK x \in D : \A y \in D : ~ (<<y, x>> \in Below)
  BY <1>1
<1>3. ASSUME NEW y \in D PROVE x <= y
  <2>1. x \in Nat /\ y \in Nat
    OBVIOUS
  <2>2. <<y, x>> \in Nat \X Nat
    BY <2>1
  <2>3. ~ (y < x)
    BY <1>2, <2>2 DEF Below
  <2> QED BY <2>1, <2>3
<1> QED BY <1>3

(* A set of bits that is not empty has a highest one, which Max returns. *)
LEMMA HighestBit ==
    ASSUME NEW D \in SUBSET Bit, D # {}
    PROVE  Max(D) \in D /\ \A y \in D : Max(D) >= y
<1> DEFINE E == {b \in Bit : 31 - b \in D}
<1>1. E \in SUBSET Nat /\ E # {}
  <2>1. PICK d \in D : TRUE
    OBVIOUS
  <2>2. 31 - d \in Bit /\ 31 - (31 - d) = d
    BY <2>1 DEF Bit
  <2>3. 31 - d \in E
    BY <2>1, <2>2
  <2>4. E \subseteq Bit /\ Bit \subseteq Nat
    BY DEF Bit
  <2> QED BY <2>3, <2>4, Zenon
<1>2. PICK x \in E : \A y \in E : x <= y
  BY <1>1, SmallestExists, Zenon
<1>3. 31 - x \in D /\ \A y \in D : 31 - x >= y
  <2>1. 31 - x \in D /\ x \in Bit
    BY <1>2
  <2>2. ASSUME NEW y \in D PROVE 31 - x >= y
    <3>1. y \in Bit /\ 31 - y \in Bit /\ 31 - (31 - y) = y
      BY DEF Bit
    <3>2. 31 - y \in E
      BY <3>1
    <3>3. x <= 31 - y
      BY <1>2, <3>2
    <3> QED BY <2>1, <3>1, <3>3 DEF Bit
  <2> QED BY <2>1, <2>2
<1>4. \E m \in D : \A y \in D : m >= y
  BY <1>3
<1> QED BY <1>4 DEF Max

(* A value that is not larger than one without bits from w on has none     *)
(* either (check_param_limits).                                            *)
LEMMA WithinLimit ==
    ASSUME NEW v \in Word, NEW top \in Word, NEW w \in Nat, top \subseteq Ones(w), ~Less(top, v)
    PROVE  v \subseteq Ones(w)
<1> SUFFICES ASSUME NEW x \in v, x \notin Ones(w) PROVE FALSE
  OBVIOUS
<1> DEFINE D == (top \ v) \cup (v \ top)
<1>1. x \in Bit /\ x >= w
  BY DEF Word, Bit, Ones
<1>2. D \in SUBSET Bit /\ x \in D
  BY DEF Word
<1>3. Max(D) \in D /\ Max(D) >= x
  BY <1>2, HighestBit
<1>4. Max(D) \in Bit
  BY <1>2, <1>3
<1>5. Max(D) \notin Ones(w)
  BY <1>1, <1>3, <1>4 DEF Ones, Bit
<1>6. Max(D) \in v /\ top # v
  BY <1>2, <1>3, <1>5
<1> QED BY <1>6 DEF Less

(***************************************************************************)
(* Fields.                                                                 *)
(***************************************************************************)
(* Where a field begins and how wide it is. *)
LEMMA FieldShape ==
    ASSUME NEW lo \in Bit, NEW hi \in Bit, lo <= hi
    PROVE  Min(lo..hi) = lo /\ Cardinality(lo..hi) = hi - lo + 1
<1>1. lo \in Int /\ hi \in Int /\ lo \in lo..hi /\ \A y \in lo..hi : lo <= y
  BY DEF Bit
<1>2. \A x \in lo..hi : (\A y \in lo..hi : x <= y) => x = lo
  BY <1>1
<1>3. Min(lo..hi) = lo
  BY <1>1, <1>2 DEF Min
<1> QED BY <1>1, <1>3, FS_Interval

(* A value is written inside its field. *)
LEMMA WriteInside ==
    ASSUME NEW lo \in Bit, NEW hi \in Bit, lo <= hi, NEW v
    PROVE  WriteField(v, lo..hi) \subseteq lo..hi
<1>1. Min(lo..hi) = lo /\ Cardinality(lo..hi) = hi - lo + 1
  BY FieldShape
<1> QED BY <1>1 DEF WriteField, Ones, Bit

(* What is written into a field is read back, cut to its width. *)
LEMMA ReadWritten ==
    ASSUME NEW lo \in Bit, NEW hi \in Bit, lo <= hi, NEW v, NEW rest,
           rest \cap (lo..hi) = {}
    PROVE  ReadField(rest \cup WriteField(v, lo..hi), lo..hi) = v \cap Ones(hi - lo + 1)
<1>1. Min(lo..hi) = lo /\ Cardinality(lo..hi) = hi - lo + 1
  BY FieldShape
<1>2. (rest \cup WriteField(v, lo..hi)) \cap (lo..hi) = WriteField(v, lo..hi)
  BY WriteInside
<1>3. WriteField(v, lo..hi) = {lo + b : b \in v \cap Ones(hi - lo + 1)}
  BY <1>1 DEF WriteField
<1> DEFINE W == {lo + b : b \in v \cap Ones(hi - lo + 1)}
<1>4. ReadField(rest \cup WriteField(v, lo..hi), lo..hi) = {b - lo : b \in W}
  BY <1>1, <1>2, <1>3 DEF ReadField
<1>5. {b - lo : b \in W} = v \cap Ones(hi - lo + 1)
  <2>1. ASSUME NEW x \in {b - lo : b \in W} PROVE x \in v \cap Ones(hi - lo + 1)
    <3>1. PICK b \in v \cap Ones(hi - lo + 1) : x = (lo + b) - lo
      OBVIOUS
    <3>2. b \in Int /\ lo \in Int
      BY DEF Ones, Bit
    <3> QED BY <3>1, <3>2
  <2>2. ASSUME NEW b \in v \cap Ones(hi - lo + 1) PROVE b \in {x - lo : x \in W}
    <3>1. b \in Int /\ lo \in Int
      BY DEF Ones, Bit
    <3>2. lo + b \in W /\ b = (lo + b) - lo
      BY <3>1
    <3> QED BY <3>2
  <2> QED BY <2>1, <2>2
<1> QED BY <1>4, <1>5, Zenon

(* A set changes no bit outside the fields of its parameter (SET_PARAM).    *)
LEMMA MergeKeepsRest ==
    ASSUME NEW p, FieldsFit(p), NEW w, NEW v, NEW b, b \notin Mask(p)
    PROVE  b \in Merge(p, w, v) <=> b \in w
<1>1. ASSUME NEW f \in p.fields PROVE WriteField(v, f) \subseteq f
  <2>1. PICK lo \in Bit, hi \in Bit : lo <= hi /\ f = lo..hi
    BY DEF FieldsFit
  <2> QED BY <2>1, WriteInside
<1>2. UNION {WriteField(v, f) : f \in p.fields} \subseteq Mask(p)
  BY <1>1 DEF Mask
<1> QED BY <1>2 DEF Merge

(* What a read returns depends on the bits of the parameter only.          *)
LEMMA ExtractOwnBits ==
    ASSUME NEW p, NEW w, NEW u, w \cap Mask(p) = u \cap Mask(p)
    PROVE  Extract(p, w) = Extract(p, u)
<1>1. ASSUME NEW f \in p.fields PROVE ReadField(w, f) = ReadField(u, f)
  <2>1. w \cap f = u \cap f
    BY DEF Mask
  <2> QED BY <2>1 DEF ReadField
<1>2. {ReadField(w, f) : f \in p.fields} = {ReadField(u, f) : f \in p.fields}
  BY <1>1
<1> QED BY <1>2, Zenon DEF Extract

(* A field is never empty, and its width is a number.                       *)
LEMMA StartsInside ==
    \A lo \in Bit, hi \in Bit : lo <= hi => lo \in lo..hi /\ hi - lo + 1 \in Nat
BY DEF Bit

(* What a set accepts is what a read then shows (SET_PARAM, GET_PARAM).     *)
LEMMA MergeThenExtract ==
    ASSUME NEW p, FieldsFit(p), NEW w, NEW v \in Word, Accepts(p, v)
    PROVE  Extract(p, Merge(p, w, v)) = Shown(p, v)
<1> DEFINE m == Merge(p, w, v)
<1>1. p.lim # NoLimits => /\ ~Less(p.lim[2], v) /\ p.lim[2] \in Word /\ p.fmt # "sign"
                          /\ \A f \in p.fields :
                                p.lim[2] \subseteq IF p.single THEN One ELSE Ones(Cardinality(f))
  BY DEF Accepts, check_param_limits, FieldsFit
<1>2. CASE p.single
  <2>1. Mask(p) # {}
    <3>1. PICK f \in p.fields : TRUE
      BY DEF FieldsFit
    <3>2. PICK lo \in Bit, hi \in Bit : lo <= hi /\ f = lo..hi
      BY <3>1 DEF FieldsFit
    <3>3. lo \in f
      BY <3>2, StartsInside, Zenon
    <3> QED BY <3>1, <3>3 DEF Mask
  <2>2. m \cap Mask(p) # {} <=> v # {}
    BY <1>2, <2>1 DEF Merge
  <2>3. p.fmt # "sign"
    BY <1>2 DEF FieldsFit
  <2>4. Extract(p, m) = IF v # {} THEN One ELSE Zero
    BY <1>2, <2>2, <2>3 DEF Extract
  <2>5. CASE p.lim = NoLimits
    BY <1>2, <2>4, <2>5 DEF Shown
  <2>6. CASE p.lim # NoLimits
    <3>1. PICK f \in p.fields : TRUE
      BY DEF FieldsFit
    <3>2. p.lim[2] \subseteq Ones(1)
      BY <1>1, <1>2, <2>6, <3>1 DEF Ones, One
    <3>3. v \subseteq Ones(1)
      BY <1>1, <2>6, <3>2, WithinLimit
    <3>4. v = {} \/ v = {0}
      BY <3>3 DEF Ones
    <3>5. Shown(p, v) = v
      BY <2>6 DEF Shown
    <3> QED BY <2>4, <3>4, <3>5 DEF One, Zero
  <2> QED BY <2>5, <2>6
<1>3. CASE ~p.single
  <2>1. ASSUME NEW f \in p.fields PROVE ReadField(m, f) = v \cap Ones(Cardinality(f))
    <3>1. PICK lo \in Bit, hi \in Bit : lo <= hi /\ f = lo..hi
      BY DEF FieldsFit
    <3>2. Cardinality(f) = hi - lo + 1
      BY <3>1, FieldShape
    <3> DEFINE rest == (w \ Mask(p)) \cup UNION {WriteField(v, g) : g \in p.fields \ {f}}
    <3>3. m = rest \cup WriteField(v, f)
      BY <1>3 DEF Merge
    <3>4. ASSUME NEW g \in p.fields \ {f} PROVE WriteField(v, g) \cap f = {}
      <4>1. PICK glo \in Bit, ghi \in Bit : glo <= ghi /\ g = glo..ghi
        BY DEF FieldsFit
      <4>2. WriteField(v, g) \subseteq g
        BY <4>1, WriteInside
      <4>3. f \cap g = {}
        BY DEF FieldsFit
      <4> QED BY <4>2, <4>3
    <3>5. rest \cap f = {}
      BY <3>4 DEF Mask
    <3>6. ReadField(rest \cup WriteField(v, lo..hi), lo..hi) = v \cap Ones(hi - lo + 1)
      BY <3>1, <3>5, ReadWritten, Zenon
    <3> QED BY <3>1, <3>2, <3>3, <3>6
  <2> DEFINE x == UNION {ReadField(m, f) : f \in p.fields}
  <2>2. CASE p.lim = NoLimits
    <3>1. PICK f \in p.fields : p.fields = {f}
      BY <1>3, <2>2 DEF FieldsFit
    <3>2. x = v \cap Ones(Cardinality(f)) /\ Mask(p) = f
      BY <2>1, <3>1 DEF Mask
    <3> QED BY <1>3, <2>2, <3>2, Zenon DEF Extract, Shown
  <2>3. CASE p.lim # NoLimits
    <3>1. ASSUME NEW f \in p.fields PROVE ReadField(m, f) = v
      <4>1. PICK lo \in Bit, hi \in Bit : lo <= hi /\ f = lo..hi
        BY DEF FieldsFit
      <4>2. Cardinality(f) \in Nat
        <5>1. Cardinality(f) = hi - lo + 1
          BY <4>1, FieldShape
        <5> QED BY <4>1, <5>1, StartsInside, Zenon
      <4>3. p.lim[2] \subseteq Ones(Cardinality(f))
        BY <1>1, <1>3, <2>3
      <4>4. v \subseteq Ones(Cardinality(f))
        BY <1>1, <2>3, <4>2, <4>3, WithinLimit
      <4> QED BY <2>1, <4>4
    <3>2. x = v
      BY <3>1 DEF FieldsFit
    <3> QED BY <1>1, <1>3, <2>3, <3>2 DEF Extract, Shown
  <2> QED BY <2>2, <2>3
<1> QED BY <1>2, <1>3

(***************************************************************************)
(* What a call does to the registers.                                      *)
(***************************************************************************)
\* What the reply of a call is made of.
Handled(T, n, c, get, type, v, io) ==
    LET r == Outcome(T, n, c, get, type, v, io)
        h == Handle(T, n, c, get, type, v, io)
    IN  \/ r.mem = mem /\ r.ok = FALSE
        \/ /\ r.mem = h.mem /\ r.ok = (h.code = 0)
           /\ get => n \notin DOMAIN T.delays

(* A message that passes the check of its arguments is handled by the      *)
(* function the caller means; one that does not changes nothing.           *)
LEMMA OutcomeHandled ==
    ASSUME NEW T, WellFormed(T), NEW n \in DOMAIN T.client, NEW c, NEW get \in BOOLEAN,
           NEW type, NEW v, NEW io
    PROVE  Handled(T, n, c, get, type, v, io)
<1> DEFINE op    == T.client[n]
           sizes == IF get THEN op.get ELSE op.set
           found == Index(T, op.op)
           i     == CHOOSE j \in found : TRUE
           r     == Outcome(T, n, c, get, type, v, io)
<1>1. CASE found = {} \/ ~CheckedArgs(T, i, sizes)
  BY <1>1, Zenon DEF Outcome, Handled
<1>2. CASE ~(found = {} \/ ~CheckedArgs(T, i, sizes))
  <2>1. i \in found
    BY <1>2
  <2>2. i \in DOMAIN T.ops /\ T.ops[i].op = op.op
    BY <2>1 DEF Index
  <2>3. T.ops[i].args = sizes
    BY <1>2 DEF CheckedArgs
  <2>4. sizes \in {op.set, op.get} /\ (get => sizes = op.get)
    OBVIOUS
  <2>5. T.fps[i] = n /\ (get => n \notin DOMAIN T.delays)
    BY <2>2, <2>3, <2>4 DEF WellFormed, FunctionsAgree
  <2>6. r.mem = Handle(T, n, c, get, type, v, io).mem
        /\ r.ok = (Handle(T, n, c, get, type, v, io).code = 0)
    BY <1>2, <2>5 DEF Outcome
  <2> QED BY <2>5, <2>6 DEF Handled
<1> QED BY <1>1, <1>2

\* The kinds of functions.
OfKind(T, n, c, get, type, v, io) ==
    LET h == Handle(T, n, c, get, type, v, io)
    IN  \/ n \in DOMAIN T.params /\ h = ParamCall(T, n, c, get, v, io)
        \/ n \in DOMAIN T.delays /\ n \notin DOMAIN T.params /\ h = DelayCall(T, n, type, v, io)
        \/ n \notin DOMAIN T.params /\ h.mem = mem

(* The function of a call is of one of them. *)
LEMMA HandleKinds ==
    ASSUME NEW T, WellFormed(T), NEW n \in DOMAIN T.client, NEW c, NEW get \in BOOLEAN,
           NEW type, NEW v, NEW io
    PROVE  OfKind(T, n, c, get, type, v, io)
<1> DEFINE kinds == <<DOMAIN T.params, DOMAIN T.delays, DOMAIN T.chips, T.infos>>
<1>1. /\ \E i \in 1..4 : n \in kinds[i]
      /\ \A i, j \in 1..4 : i # j => kinds[i] \cap kinds[j] = {}
  BY DEF WellFormed, FunctionsAgree
<1>2. kinds[1] = DOMAIN T.params /\ kinds[2] = DOMAIN T.delays /\ kinds[3] = DOMAIN T.chips
      /\ kinds[4] = T.infos
  OBVIOUS
<1>3. n \in DOMAIN T.params \/ n \in DOMAIN T.delays \/ n \in DOMAIN T.chips \/ n \in T.infos
  BY <1>1, <1>2
<1>4. /\ DOMAIN T.params \cap DOMAIN T.delays = {} /\ DOMAIN T.params \cap DOMAIN T.chips = {}
      /\ DOMAIN T.params \cap T.infos = {} /\ DOMAIN T.delays \cap DOMAIN T.chips = {}
      /\ DOMAIN T.delays \cap T.infos = {} /\ DOMAIN T.chips \cap T.infos = {}
  <2>1. 1 \in 1..4 /\ 2 \in 1..4 /\ 3 \in 1..4 /\ 4 \in 1..4
    OBVIOUS
  <2> HIDE DEF kinds
  <2>2. /\ kinds[1] \cap kinds[2] = {} /\ kinds[1] \cap kinds[3] = {} /\ kinds[1] \cap kinds[4] = {}
        /\ kinds[2] \cap kinds[3] = {} /\ kinds[2] \cap kinds[4] = {} /\ kinds[3] \cap kinds[4] = {}
    BY <1>1, <2>1
  <2> QED BY <1>2, <2>2
<1>5. CASE n \in DOMAIN T.params
  BY <1>4, <1>5 DEF OfKind, Handle
<1>6. CASE n \in DOMAIN T.delays
  BY <1>4, <1>6 DEF OfKind, Handle
<1>7. CASE n \in DOMAIN T.chips
  BY <1>4, <1>7 DEF OfKind, Handle, ChipCall
<1>8. CASE n \in T.infos
  BY <1>4, <1>8 DEF OfKind, Handle, InfoCall
<1> QED BY <1>3, <1>5, <1>6, <1>7, <1>8

(* A read changes no register. *)
LEMMA GetOutcome ==
    ASSUME NEW T, WellFormed(T), NEW n \in DOMAIN T.client, NEW c, NEW get \in BOOLEAN, get,
           NEW type, NEW v, NEW io
    PROVE  Outcome(T, n, c, get, type, v, io).mem = mem
<1> DEFINE r == Outcome(T, n, c, get, type, v, io)
           h == Handle(T, n, c, get, type, v, io)
<1>1. ParamCall(T, n, c, get, v, io).mem = mem
  BY DEF ParamCall
<1>2. r.mem = mem \/ (r.mem = h.mem /\ n \notin DOMAIN T.delays)
  <2>1. Handled(T, n, c, get, type, v, io)
    BY OutcomeHandled, Zenon
  <2> QED BY <2>1, Zenon DEF Handled
<1>3. \/ h = ParamCall(T, n, c, get, v, io)
      \/ n \in DOMAIN T.delays
      \/ h.mem = mem
  <2>1. OfKind(T, n, c, get, type, v, io)
    BY HandleKinds, Zenon
  <2> QED BY <2>1, Zenon DEF OfKind
<1> QED BY <1>1, <1>2, <1>3, Zenon

\* The register parameter n writes when it is set.
Target(T, n, c) == T.computed[<<c, T.params[n].reg>>]

\* What a set makes of the registers.
Written(T, n, c, v, io) ==
    [mem EXCEPT ![Target(T, n, c)] =
        Merge(T.params[n], IF io.read THEN mem[Target(T, n, c)] ELSE io.junk, v)]

\* What becomes of a set of a parameter.
SetResult(T, n, c, v, io, r) ==
    \/ r.mem = mem /\ r.ok = FALSE
    \/ /\ r.mem = Written(T, n, c, v, io) /\ r.ok = NoFault(io)
       /\ c <= T.channels - 1 /\ Accepts(T.params[n], v)

(* A set of a parameter is refused or lost, or merges the accepted value   *)
(* into the register; without a fault the second is what succeeds.         *)
LEMMA SetOutcome ==
    ASSUME NEW T, WellFormed(T), NEW n \in DOMAIN T.client, n \in DOMAIN T.params,
           NEW c \in Int, NEW get \in BOOLEAN, ~get, NEW type, NEW v, NEW io \in Io,
           mem = [a \in DOMAIN mem |-> mem[a]]
    PROVE  SetResult(T, n, c, v, io, Outcome(T, n, c, get, type, v, io))
<1> DEFINE h == ParamCall(T, n, c, get, v, io)
           p == T.params[n]
           a == Target(T, n, c)
           s == SET_PARAM(p, mem[a], v, io)
<1>1. \/ h.mem = mem /\ h.code # 0
      \/ /\ h.mem = Written(T, n, c, v, io) /\ ((h.code = 0) <=> NoFault(io))
         /\ c <= T.channels - 1 /\ Accepts(p, v)
  <2>1. CASE c > T.channels - 1
    BY <2>1 DEF ParamCall, RW_INV
  <2>2. CASE ~(c > T.channels - 1)
    <3>1. h.code = s.code /\ h.mem = [mem EXCEPT ![a] = s.word]
      BY <2>2 DEF ParamCall, Target
    <3>2. c <= T.channels - 1
      BY <2>2 DEF WellFormed
    <3>0. [mem EXCEPT ![a] = mem[a]] = mem
      OBVIOUS
    <3>3. CASE ~Accepts(p, v)
      BY <3>0, <3>1, <3>3 DEF SET_PARAM, RW_USR_ERR
    <3>4. CASE Accepts(p, v) /\ io.write = "lost"
      BY <3>0, <3>1, <3>4 DEF SET_PARAM, RW_WRITE_EAGAIN, NoFault
    <3>5. CASE Accepts(p, v) /\ io.write # "lost"
      <4>1. s.word = Merge(p, IF io.read THEN mem[a] ELSE io.junk, v)
        BY <3>5 DEF SET_PARAM
      <4>2. (s.code = 0) <=> NoFault(io)
        BY <3>5 DEF SET_PARAM, RW_WRITE_EAGAIN, RW_OK
      <4> QED BY <3>1, <3>2, <3>5, <4>1, <4>2 DEF Written
    <3> QED BY <3>3, <3>4, <3>5
  <2> QED BY <2>1, <2>2
<1> DEFINE r == Outcome(T, n, c, get, type, v, io)
           g == Handle(T, n, c, get, type, v, io)
<1>2. (r.mem = mem /\ r.ok = FALSE) \/ (r.mem = g.mem /\ r.ok = (g.code = 0))
  <2>1. Handled(T, n, c, get, type, v, io)
    BY OutcomeHandled, Zenon
  <2> QED BY <2>1 DEF Handled
<1>3. g = h
  <2>1. OfKind(T, n, c, get, type, v, io)
    BY HandleKinds, Zenon
  <2> QED BY <2>1 DEF OfKind
<1>4. (h.code = 0) = NoFault(io) <=> ((h.code = 0) <=> NoFault(io))
  BY DEF NoFault, Io
<1>5. CASE r.mem = mem /\ r.ok = FALSE
  BY <1>5 DEF SetResult
<1>6. CASE r.mem = h.mem /\ r.ok = (h.code = 0)
  BY <1>1, <1>4, <1>6 DEF SetResult
<1> QED BY <1>2, <1>3, <1>5, <1>6, Zenon

\* What becomes of any other call.
OtherResult(T, n, r) ==
    \/ r.mem = mem
    \/ /\ n \in DOMAIN T.delays
       /\ \E w : r.mem = [mem EXCEPT ![T.computed[<<0, T.delays[n]>>]] = w]

(* Any other function leaves the registers alone, but for the register of  *)
(* a delay.                                                                *)
LEMMA OtherOutcome ==
    ASSUME NEW T, WellFormed(T), NEW n \in DOMAIN T.client, n \notin DOMAIN T.params,
           NEW c, NEW get \in BOOLEAN, NEW type, NEW v, NEW io
    PROVE  OtherResult(T, n, Outcome(T, n, c, get, type, v, io))
<1> DEFINE h == DelayCall(T, n, type, v, io)
<1>1. h.mem = mem \/ \E w : h.mem = [mem EXCEPT ![T.computed[<<0, T.delays[n]>>]] = w]
  BY Zenon DEF DelayCall
<1> DEFINE r == Outcome(T, n, c, get, type, v, io)
           g == Handle(T, n, c, get, type, v, io)
<1>2. r.mem = mem \/ r.mem = g.mem
  <2>1. Handled(T, n, c, get, type, v, io)
    BY OutcomeHandled, Zenon
  <2> QED BY <2>1 DEF Handled
<1>3. (n \in DOMAIN T.delays /\ g = h) \/ g.mem = mem
  <2>1. OfKind(T, n, c, get, type, v, io)
    BY HandleKinds, Zenon
  <2> QED BY <2>1 DEF OfKind
<1> QED BY <1>1, <1>2, <1>3, Zenon DEF OtherResult

(***************************************************************************)
(* What is set stays set.                                                  *)
(***************************************************************************)
\* Parameter k[1] of channel k[2] reads as it was set, to x, in registers m.
Reads(T, m, k, x) ==
    LET p == T.params[k[1]]
    IN  (\A n \in DOMAIN T.params : ~Aliased(T, n, k[2]))
            => Extract(p, m[T.inCore[<<k[2], p.reg>>]]) = Shown(p, x)

IsKey(T, k) ==
    k[1] \in DOMAIN T.params /\ k[2] \in 0..(T.channels - 1) /\ k = <<k[1], k[2]>>

\* The registers are those of the core, and every value known reads back.
Keeps(T, m, h) ==
    /\ m = [a \in Registers(T) |-> m[a]]
    /\ \A k \in DOMAIN h : IsKey(T, k) /\ Reads(T, m, k, h[k])

HeldInv == smio \in Smios /\ cfg.pc \in Nat \ {0} /\ Keeps(S, mem, held)

(* Where offsets are not aliased, what the macros compute for one register *)
(* is not the place of another one.                                        *)
LEMMA PlacesApart ==
    ASSUME NEW T, WellFormed(T), NEW reg \in {T.params[j].reg : j \in DOMAIN T.params},
           NEW c \in 0..(T.channels - 1),
           NEW n \in DOMAIN T.params, NEW e \in 0..(T.channels - 1),
           \A j \in DOMAIN T.params : ~Aliased(T, j, e),
           c # e \/ reg # T.params[n].reg
    PROVE  T.computed[<<c, reg>>] # T.inCore[<<e, T.params[n].reg>>]
BY DEF WellFormed, RegistersApart

(* Without aliasing the macros compute the place of a register. *)
LEMMA InPlace ==
    ASSUME NEW T, WellFormed(T), NEW n \in DOMAIN T.params, NEW c \in 0..(T.channels - 1),
           \A j \in DOMAIN T.params : ~Aliased(T, j, c)
    PROVE  Target(T, n, c) = T.inCore[<<c, T.params[n].reg>>]
           /\ T.inCore[<<c, T.params[n].reg>>] \in Registers(T)
<1>1. c < T.channels
  BY DEF WellFormed
<1>2. Target(T, n, c) = T.inCore[<<c, T.params[n].reg>>]
  BY <1>1 DEF Aliased, Target
<1>3. T.inCore[<<c, T.params[n].reg>>] \in Registers(T)
  BY DEF WellFormed, RegistersApart, Registers, Range
<1> QED BY <1>2, <1>3

(* A parameter of another place reads as before, whatever is written. *)
LEMMA ElsewhereReads ==
    ASSUME NEW T, WellFormed(T), NEW m, m = [a \in Registers(T) |-> m[a]],
           NEW k, IsKey(T, k), NEW x, Reads(T, m, k, x),
           NEW reg \in {T.params[j].reg : j \in DOMAIN T.params},
           NEW c \in 0..(T.channels - 1), c # k[2] \/ reg # T.params[k[1]].reg, NEW u
    PROVE  Reads(T, [m EXCEPT ![T.computed[<<c, reg>>]] = u], k, x)
<1> DEFINE p == T.params[k[1]]
           i == T.inCore[<<k[2], p.reg>>]
           a == T.computed[<<c, reg>>]
           z == [m EXCEPT ![a] = u]
<1>1. k[1] \in DOMAIN T.params /\ k[2] \in 0..(T.channels - 1)
  BY DEF IsKey
<1> SUFFICES ASSUME \A j \in DOMAIN T.params : ~Aliased(T, j, k[2])
             PROVE  Extract(p, z[i]) = Shown(p, x)
  BY DEF Reads
<1>2. Extract(p, m[i]) = Shown(p, x)
  BY DEF Reads
<1>3. a # i
  <2>1. PICK j \in DOMAIN T.params, e \in 0..(T.channels - 1) : j = k[1] /\ e = k[2]
    BY <1>1
  <2>2. (\A l \in DOMAIN T.params : ~Aliased(T, l, e)) /\ (c # e \/ reg # T.params[j].reg)
    BY <2>1
  <2>3. T.computed[<<c, reg>>] # T.inCore[<<e, T.params[j].reg>>]
    BY <2>2, PlacesApart
  <2> QED BY <2>1, <2>3
<1>4. T.inCore[<<k[2], p.reg>>] \in Registers(T)
  BY <1>1, InPlace
<1>5. z[i] = m[i]
  BY <1>3, <1>4
<1> QED BY <1>2, <1>5, Zenon

(* Another parameter reads as before when one is set. *)
LEMMA OtherReads ==
    ASSUME NEW T, WellFormed(T), NEW m, m = [a \in Registers(T) |-> m[a]],
           NEW k, IsKey(T, k), NEW x, Reads(T, m, k, x),
           NEW n \in DOMAIN T.params, NEW c \in 0..(T.channels - 1), k # <<n, c>>,
           NEW v, NEW u, u = Merge(T.params[n], m[Target(T, n, c)], v)
    PROVE  Reads(T, [m EXCEPT ![Target(T, n, c)] = u], k, x)
<1> DEFINE p == T.params[k[1]]
           q == T.params[n]
           i == T.inCore[<<k[2], p.reg>>]
           a == Target(T, n, c)
           z == [m EXCEPT ![a] = u]
<1>1. k[1] \in DOMAIN T.params /\ k[2] \in 0..(T.channels - 1) /\ k = <<k[1], k[2]>>
  BY DEF IsKey
<1>2. CASE c # k[2] \/ q.reg # p.reg
  <2>1. PICK f \in {T.params[j].reg : j \in DOMAIN T.params} : f = q.reg
    OBVIOUS
  <2>2. c # k[2] \/ f # T.params[k[1]].reg
    BY <1>2, <2>1
  <2>3. Reads(T, [m EXCEPT ![T.computed[<<c, f>>]] = u], k, x)
    BY <2>2, ElsewhereReads, SMTT(30)
  <2> QED BY <2>1, <2>3, Zenon DEF Target
<1>3. CASE c = k[2] /\ q.reg = p.reg
  <2> SUFFICES ASSUME \A j \in DOMAIN T.params : ~Aliased(T, j, k[2])
               PROVE  Extract(p, z[i]) = Shown(p, x)
    BY DEF Reads
  <2>1. k[1] # n
    BY <1>1, <1>3
  <2>2. Mask(p) \cap Mask(q) = {}
    BY <1>1, <1>3, <2>1, Zenon DEF WellFormed, RegistersApart
  <2>3. a = i /\ i \in Registers(T)
    BY <1>3, InPlace
  <2>4. z[i] = Merge(q, m[i], v)
    BY <2>3, Zenon
  <2>5. FieldsFit(q)
    BY DEF WellFormed
  <2>6. ASSUME NEW b \in Mask(p) PROVE b \in z[i] <=> b \in m[i]
    <3>1. b \notin Mask(q)
      BY <2>2, Zenon
    <3> HIDE DEF p, q, i, z
    <3>2. b \in Merge(q, m[i], v) <=> b \in m[i]
      BY <2>5, <3>1, MergeKeepsRest, Zenon
    <3> QED BY <2>4, <3>2, Zenon
  <2>7. z[i] \cap Mask(p) = m[i] \cap Mask(p)
    BY <2>6
  <2>8. Extract(p, z[i]) = Extract(p, m[i])
    BY <2>7, ExtractOwnBits, Zenon
  <2>9. Extract(p, m[i]) = Shown(p, x)
    BY DEF Reads
  <2> QED BY <2>8, <2>9, Zenon
<1> QED BY <1>2, <1>3

(* The parameter that is set reads as it was set. *)
LEMMA OwnReads ==
    ASSUME NEW T, WellFormed(T), NEW m, m = [a \in Registers(T) |-> m[a]],
           NEW n \in DOMAIN T.params, NEW c \in 0..(T.channels - 1),
           NEW v \in Word, Accepts(T.params[n], v),
           NEW u, u = Merge(T.params[n], m[Target(T, n, c)], v)
    PROVE  Reads(T, [m EXCEPT ![Target(T, n, c)] = u], <<n, c>>, v)
<1> DEFINE p == T.params[n]
           i == T.inCore[<<c, p.reg>>]
           a == Target(T, n, c)
           z == [m EXCEPT ![a] = u]
<1> SUFFICES ASSUME \A j \in DOMAIN T.params : ~Aliased(T, j, c)
             PROVE  Extract(p, z[i]) = Shown(p, v)
  BY DEF Reads
<1>1. a = i /\ i \in Registers(T)
  BY InPlace
<1>3. z[i] = Merge(p, m[i], v)
  BY <1>1, Zenon
<1>4. FieldsFit(p)
  BY DEF WellFormed
<1>5. Extract(p, Merge(p, m[i], v)) = Shown(p, v)
  BY <1>4, MergeThenExtract
<1> QED BY <1>3, <1>5

\* Part of what is known.
Fewer(h) == \A k \in DOMAIN h : k \in DOMAIN held /\ h[k] = held[k]

\* What h, known after a call, is made of, by what became of the call.
Known(T, n, c, get, v, io, r, h) ==
    /\ get => h = held
    /\ (r.ok => n \notin DOMAIN T.params) => Fewer(h)
    /\ (~get /\ ~r.ok /\ ~NoFault(io) /\ n \in DOMAIN T.params) =>
         \A k \in DOMAIN h : T.params[k[1]].reg # T.params[n].reg \/ k[2] # c
    /\ (~get /\ n \in DOMAIN T.delays /\ n \notin DOMAIN T.params) =>
         \A k \in DOMAIN h : T.params[k[1]].reg # T.delays[n] \/ k[2] # c
    /\ (~get /\ r.ok /\ NoFault(io) /\ n \in DOMAIN T.params /\ n \notin DOMAIN T.delays) =>
         \A k \in DOMAIN h : \/ k = <<n, c>> /\ h[k] = v
                             \/ k # <<n, c>> /\ k \in DOMAIN held /\ h[k] = held[k]

(* Held is made like that. *)
LEMMA HeldForms ==
    ASSUME NEW T, NEW n, NEW c, NEW get \in BOOLEAN, NEW v, NEW io, NEW r
    PROVE  Known(T, n, c, get, v, io, r, Held(T, n, c, get, v, io, r))
<1> DEFINE h == Held(T, n, c, get, v, io, r)
<1>1. get => h = held
  BY DEF Held
<1>2. ASSUME r.ok => n \notin DOMAIN T.params PROVE Fewer(h)
  BY <1>2, Zenon DEF Held, Fewer
<1>3. ASSUME ~get, ~r.ok, ~NoFault(io), n \in DOMAIN T.params
      PROVE  \A k \in DOMAIN h : T.params[k[1]].reg # T.params[n].reg \/ k[2] # c
  BY <1>3 DEF Held
<1>4. ASSUME ~get, n \in DOMAIN T.delays, n \notin DOMAIN T.params
      PROVE  \A k \in DOMAIN h : T.params[k[1]].reg # T.delays[n] \/ k[2] # c
  BY <1>4 DEF Held
<1>5. ASSUME ~get, r.ok, NoFault(io), n \in DOMAIN T.params, n \notin DOMAIN T.delays
      PROVE  \A k \in DOMAIN h : \/ k = <<n, c>> /\ h[k] = v
                                 \/ k # <<n, c>> /\ k \in DOMAIN held /\ h[k] = held[k]
  BY <1>5 DEF Held
<1> QED BY <1>1, <1>2, <1>3, <1>4, <1>5 DEF Known

(* A call keeps what is known. *)
LEMMA CallKeeps ==
    ASSUME NEW T, WellFormed(T), Keeps(T, mem, held), NEW n \in DOMAIN T.client,
           NEW c \in 0..T.channels, T.channels = 1 => c = 0, NEW get \in BOOLEAN, NEW type,
           NEW v \in Word, NEW io \in Io,
           NEW r, r = Outcome(T, n, c, get, type, v, io),
           NEW h, Known(T, n, c, get, v, io, r, h)
    PROVE  Keeps(T, r.mem, h)
<1>1. mem = [a \in Registers(T) |-> mem[a]] /\ mem = [a \in DOMAIN mem |-> mem[a]]
  BY DEF Keeps
<1>2. \A k \in DOMAIN held : IsKey(T, k) /\ Reads(T, mem, k, held[k])
  BY DEF Keeps
<1>3. ASSUME Fewer(h) PROVE Keeps(T, mem, h)
  BY <1>1, <1>2, <1>3 DEF Keeps, Fewer
<1>4. T.channels \in Nat \ {0}
  BY DEF WellFormed
<1>5. ASSUME NEW reg \in {T.params[j].reg : j \in DOMAIN T.params}, NEW e \in 0..(T.channels - 1),
             NEW u, Fewer(h), \A k \in DOMAIN h : T.params[k[1]].reg # reg \/ k[2] # e
      PROVE  Keeps(T, [mem EXCEPT ![T.computed[<<e, reg>>]] = u], h)
  <2> DEFINE z == [mem EXCEPT ![T.computed[<<e, reg>>]] = u]
  <2>1. z = [a \in Registers(T) |-> z[a]]
    BY <1>1
  <2>2. ASSUME NEW k \in DOMAIN h PROVE IsKey(T, k) /\ Reads(T, z, k, h[k])
    <3>1. IsKey(T, k) /\ Reads(T, mem, k, h[k])
      BY <1>2, <1>5 DEF Fewer
    <3>2. e # k[2] \/ reg # T.params[k[1]].reg
      BY <1>5
    <3>3. Reads(T, [mem EXCEPT ![T.computed[<<e, reg>>]] = u], k, h[k])
      BY <1>1, <3>1, <3>2, ElsewhereReads, SMTT(30)
    <3> QED BY <3>1, <3>3
  <2> QED BY <2>1, <2>2 DEF Keeps
<1>6. CASE get
  <2>1. r.mem = mem
    BY <1>6, GetOutcome, Zenon
  <2>2. h = held
    BY <1>6 DEF Known
  <2> QED BY <2>1, <2>2
<1>7. CASE ~get /\ n \in DOMAIN T.params
  <2>1. n \notin DOMAIN T.delays
    BY <1>7 DEF WellFormed, FunctionsAgree
  <2>2. \/ r.mem = mem /\ r.ok = FALSE
        \/ /\ r.mem = Written(T, n, c, v, io) /\ r.ok = NoFault(io)
           /\ c <= T.channels - 1 /\ Accepts(T.params[n], v)
    <3>1. SetResult(T, n, c, v, io, r)
      <4>1. SetResult(T, n, c, v, io, Outcome(T, n, c, get, type, v, io))
        BY <1>1, <1>7, SetOutcome
      <4> QED BY <4>1
    <3> QED BY <3>1 DEF SetResult
  <2>3. CASE r.mem = mem /\ r.ok = FALSE
    <3>1. Fewer(h)
      BY <2>3 DEF Known
    <3> QED BY <1>3, <2>3, <3>1
  <2>4. CASE /\ r.mem = Written(T, n, c, v, io) /\ r.ok = NoFault(io)
             /\ c <= T.channels - 1 /\ Accepts(T.params[n], v)
    <3>1. c \in 0..(T.channels - 1)
      BY <1>4, <2>4
    <3>2. CASE NoFault(io)
      <4> DEFINE a == Target(T, n, c)
                 u == Merge(T.params[n], mem[a], v)
                 z == [mem EXCEPT ![a] = u]
      <4>1. r.mem = z
        BY <2>4, <3>2 DEF Written, NoFault
      <4>2. \A k \in DOMAIN h : \/ k = <<n, c>> /\ h[k] = v
                                \/ k # <<n, c>> /\ k \in DOMAIN held /\ h[k] = held[k]
        BY <1>7, <2>1, <2>4, <3>2 DEF Known
      <4>3. z = [b \in Registers(T) |-> z[b]]
        BY <1>1
      <4>4. ASSUME NEW k \in DOMAIN h PROVE IsKey(T, k) /\ Reads(T, z, k, h[k])
        <5>1. CASE k = <<n, c>> /\ h[k] = v
          <6>1. IsKey(T, k)
            BY <1>7, <3>1, <5>1 DEF IsKey
          <6>2. Reads(T, z, <<n, c>>, v)
            BY <1>1, <1>7, <2>4, <3>1, OwnReads
          <6> QED BY <5>1, <6>1, <6>2
        <5>2. CASE k # <<n, c>> /\ k \in DOMAIN held /\ h[k] = held[k]
          <6>1. IsKey(T, k) /\ Reads(T, mem, k, h[k])
            BY <1>2, <5>2
          <6>2. Reads(T, z, k, h[k])
            BY <1>1, <1>7, <3>1, <5>2, <6>1, OtherReads
          <6> QED BY <6>1, <6>2
        <5> QED BY <4>2, <5>1, <5>2
      <4> QED BY <4>1, <4>3, <4>4 DEF Keeps
    <3>3. CASE ~NoFault(io)
      <4>1. ~r.ok
        BY <2>4, <3>3
      <4>2. Fewer(h) /\ \A k \in DOMAIN h : T.params[k[1]].reg # T.params[n].reg \/ k[2] # c
        BY <1>7, <3>3, <4>1 DEF Known
      <4>3. PICK reg \in {T.params[j].reg : j \in DOMAIN T.params} : reg = T.params[n].reg
        BY <1>7
      <4>4. PICK u : r.mem = [mem EXCEPT ![T.computed[<<c, reg>>]] = u]
        BY <2>4, <4>3, Zenon DEF Written, Target
      <4>5. Keeps(T, [mem EXCEPT ![T.computed[<<c, reg>>]] = u], h)
        BY <1>5, <3>1, <4>2, <4>3, Zenon
      <4> QED BY <4>4, <4>5
    <3> QED BY <3>2, <3>3
  <2> QED BY <2>2, <2>3, <2>4, Zenon
<1>8. CASE ~get /\ n \notin DOMAIN T.params
  <2>1. Fewer(h)
    BY <1>8 DEF Known
  <2>2. \/ r.mem = mem
        \/ /\ n \in DOMAIN T.delays
           /\ \E w : r.mem = [mem EXCEPT ![T.computed[<<0, T.delays[n]>>]] = w]
    <3>1. OtherResult(T, n, Outcome(T, n, c, get, type, v, io))
      BY <1>8, OtherOutcome
    <3> QED BY <3>1, Zenon DEF OtherResult
  <2>3. CASE r.mem = mem
    BY <1>3, <2>1, <2>3
  <2>4. CASE /\ n \in DOMAIN T.delays
             /\ \E w : r.mem = [mem EXCEPT ![T.computed[<<0, T.delays[n]>>]] = w]
    <3>1. T.delays[n] \in {T.params[j].reg : j \in DOMAIN T.params} /\ T.channels = 1
      BY <2>4 DEF WellFormed, RegistersApart
    <3>2. c = 0 /\ 0 \in 0..(T.channels - 1)
      BY <3>1
    <3>3. \A k \in DOMAIN h : T.params[k[1]].reg # T.delays[n] \/ k[2] # 0
      BY <1>8, <2>4, <3>2 DEF Known
    <3>4. PICK w : r.mem = [mem EXCEPT ![T.computed[<<0, T.delays[n]>>]] = w]
      BY <2>4, Zenon
    <3>5. PICK reg \in {T.params[j].reg : j \in DOMAIN T.params} : reg = T.delays[n]
      BY <3>1
    <3>6. Keeps(T, [mem EXCEPT ![T.computed[<<0, reg>>]] = w], h)
      BY <1>5, <2>1, <3>2, <3>3, <3>5, Zenon
    <3> QED BY <3>4, <3>5, <3>6
  <2> QED BY <2>2, <2>3, <2>4, Zenon
<1> QED BY <1>6, <1>7, <1>8

(***************************************************************************)
(* The invariant.                                                          *)
(***************************************************************************)
(* The values clients send are words. *)
LEMMA ValuesAreWords ==
    ASSUME NEW T, WellFormed(T), NEW n, NEW v \in Values(T, n)
    PROVE  v \in Word
<1>1. CASE n \notin DOMAIN T.params
  BY <1>1 DEF Values, Word, Bit
<1>2. CASE n \in DOMAIN T.params
  <2> DEFINE lim == T.params[n].lim
  <2>1. CASE lim = NoLimits \/ lim[2] = Bit
    BY <1>2, <2>1 DEF Values, Word, Bit
  <2>2. CASE ~(lim = NoLimits \/ lim[2] = Bit)
    <3>1. lim[1] \in Word /\ lim[2] \in Word
      BY <1>2, <2>2 DEF WellFormed, FieldsFit
    <3>2. Min(Bit \ lim[2]) \in Bit
      <4>1. Bit \ lim[2] \in SUBSET Nat /\ Bit \ lim[2] # {}
        BY <2>2, <3>1 DEF Word, Bit
      <4>2. \E x \in Bit \ lim[2] : \A y \in Bit \ lim[2] : x <= y
        BY <4>1, SmallestExists, Zenon
      <4> QED BY <4>2 DEF Min
    <3>3. Succ(lim[2]) \in Word
      BY <3>1, <3>2 DEF Succ, Word
    <3>4. v \in {{}, lim[1], lim[2], Succ(lim[2])}
      BY <1>2, <2>2 DEF Values
    <3> QED BY <3>1, <3>3, <3>4 DEF Word
  <2> QED BY <2>1, <2>2
<1> QED BY <1>1, <1>2

\* The calls that are made.
Made(T, n, c, get, type, v, io) ==
    /\ n \in DOMAIN T.client /\ c \in 0..T.channels /\ (T.channels = 1 => c = 0)
    /\ get \in BOOLEAN /\ v \in Word /\ io \in Io
    /\ Call(T, n, c, get, type, v, io)

(* Every step but the last one of config_defaults is a call. *)
LEMMA StepIsCall ==
    ASSUME smio \in Smios, cfg.pc \in Nat \ {0}, Next
    PROVE  /\ UNCHANGED smio /\ cfg'.pc \in Nat \ {0}
           /\ \/ \E n, c, get, type, v, io : Made(S, n, c, get, type, v, io)
              \/ UNCHANGED <<mem, held, last>>
<1>1. PICK T : T = S /\ WellFormed(T)
  <2>1. S \in {PlacedTable[s] : s \in Smios}
    BY DEF S
  <2> QED BY <2>1, TablesAssumption
<1>2. T.channels \in Nat \ {0}
  BY <1>1 DEF WellFormed
<1>3. CASE ClientSet(T)
  <2>1. PICK n \in DOMAIN T.client : \E c \in 0..(IF T.channels = 1 THEN 0 ELSE T.channels),
              v \in Values(T, n), type \in Types(T, n), io \in Faults(FALSE) :
                 Call(T, n, c, FALSE, type, v, io)
    BY <1>3, Zenon DEF ClientSet
  <2>2. PICK c \in 0..(IF T.channels = 1 THEN 0 ELSE T.channels),
             v \in Values(T, n), type \in Types(T, n), io \in Faults(FALSE) :
                 Call(T, n, c, FALSE, type, v, io)
    BY <2>1, Zenon
  <2>3. v \in Word
    BY <1>1, ValuesAreWords
  <2>4. c \in 0..T.channels /\ (T.channels = 1 => c = 0)
    BY <1>2
  <2>5. io \in Io
    BY DEF Faults
  <2>6. Made(T, n, c, FALSE, type, v, io)
    BY <2>2, <2>3, <2>4, <2>5, Zenon DEF Made
  <2> QED BY <1>1, <1>3, <2>6, Zenon DEF ClientSet
<1>4. CASE ClientGet(T)
  <2>1. PICK n \in DOMAIN T.client : \E c \in 0..(IF T.channels = 1 THEN 0 ELSE T.channels),
              io \in Faults(TRUE) : Call(T, n, c, TRUE, {}, {}, io)
    BY <1>4, Zenon DEF ClientGet
  <2>2. PICK c \in 0..(IF T.channels = 1 THEN 0 ELSE T.channels), io \in Faults(TRUE) :
                 Call(T, n, c, TRUE, {}, {}, io)
    BY <2>1, Zenon
  <2>3. c \in 0..T.channels /\ (T.channels = 1 => c = 0)
    BY <1>2
  <2>4. io \in Io /\ {} \in Word
    BY DEF Faults, Word
  <2>5. Made(T, n, c, TRUE, {}, {}, io)
    BY <2>2, <2>3, <2>4, Zenon DEF Made
  <2> QED BY <1>1, <1>4, <2>5, Zenon DEF ClientGet
<1>5. CASE ConfigStep(T)
  <2> DEFINE d == T.defaults[cfg.pc]
  <2>0. cfg.pc \in DOMAIN T.defaults
    BY <1>1, <1>5 DEF ConfigStep, WellFormed
  <2>1. PICK io \in Faults(d.get) : Call(T, d.name, d.chan, d.get, {}, d.value, io)
    BY <1>5 DEF ConfigStep
  <2>2. /\ d.name \in DOMAIN T.client /\ d.chan \in 0..(T.channels - 1)
        /\ d.get \in BOOLEAN /\ d.value \in Word
    BY <1>1, <2>0 DEF WellFormed, DefaultsInOrder
  <2>3. d.chan \in 0..T.channels /\ (T.channels = 1 => d.chan = 0)
    BY <1>2, <2>2
  <2>4. io \in Io
    BY DEF Faults
  <2>5. Made(T, d.name, d.chan, d.get, {}, d.value, io)
    BY <2>1, <2>2, <2>3, <2>4 DEF Made
  <2>6. UNCHANGED smio /\ cfg'.pc \in Nat \ {0}
    BY <1>5 DEF ConfigStep
  <2> QED BY <1>1, <2>5, <2>6
<1>6. CASE ConfigEnd(T)
  <2>1. cfg'.pc = cfg.pc
    <3>1. PICK s : cfg' = [cfg EXCEPT !.state = s]
      BY <1>6, Zenon DEF ConfigEnd
    <3> QED BY <3>1
  <2> QED BY <1>6, <2>1 DEF ConfigEnd
<1> QED BY <1>1, <1>3, <1>4, <1>5, <1>6 DEF Next

(* The registers are those of the core and what is known reads back,       *)
(* whatever calls are made.                                                *)
THEOREM HeldInvariance == Spec => []HeldInv
<1>1. Init => HeldInv
  <2> SUFFICES ASSUME Init PROVE HeldInv
    OBVIOUS
  <2>1. smio \in Smios /\ cfg.pc \in Nat \ {0} /\ DOMAIN held = {}
    BY DEF Init
  <2>2. PICK T : T = S
    OBVIOUS
  <2>3. mem = [a \in Registers(T) |-> mem[a]]
    BY <2>2 DEF Init
  <2>4. Keeps(T, mem, held)
    BY <2>1, <2>3 DEF Keeps
  <2> QED BY <2>1, <2>2, <2>4 DEF HeldInv
<1>2. HeldInv /\ [Next]_vars => HeldInv'
  <2> SUFFICES ASSUME HeldInv, [Next]_vars PROVE HeldInv'
    OBVIOUS
  <2>1. CASE UNCHANGED vars
    BY <2>1, Zenon DEF HeldInv, vars, Keeps, Reads, S
  <2>2. CASE Next
    <3>1. smio \in Smios /\ cfg.pc \in Nat \ {0} /\ Keeps(S, mem, held)
      BY DEF HeldInv
    <3>2. /\ UNCHANGED smio /\ cfg'.pc \in Nat \ {0}
          /\ \/ \E n, c, get, type, v, io : Made(S, n, c, get, type, v, io)
             \/ UNCHANGED <<mem, held, last>>
      BY <2>2, <3>1, StepIsCall
    <3>3. PICK T : T = S /\ WellFormed(T)
      <4>1. S \in {PlacedTable[s] : s \in Smios}
        BY <3>1 DEF S
      <4> QED BY <4>1, TablesAssumption
    <3>4. S' = T /\ smio' \in Smios
      BY <3>1, <3>2, <3>3 DEF S
    <3>5. CASE UNCHANGED <<mem, held, last>>
      BY <3>1, <3>2, <3>3, <3>4, <3>5 DEF HeldInv
    <3>6. CASE \E n, c, get, type, v, io : Made(T, n, c, get, type, v, io)
      <4>1. PICK n, c, get, type, v, io : Made(T, n, c, get, type, v, io)
        BY <3>6
      <4>2. /\ n \in DOMAIN T.client /\ c \in 0..T.channels /\ (T.channels = 1 => c = 0)
            /\ get \in BOOLEAN /\ v \in Word /\ io \in Io
        BY <4>1 DEF Made
      <4>3. PICK r : r = Outcome(T, n, c, get, type, v, io)
        OBVIOUS
      <4>4. mem' = r.mem /\ held' = Held(T, n, c, get, v, io, r)
        BY <4>1, <4>3 DEF Made, Call
      <4>5. PICK h : h = held'
        OBVIOUS
      <4>6. Known(T, n, c, get, v, io, r, h)
        BY <4>2, <4>4, <4>5, HeldForms
      <4>7. Keeps(T, r.mem, h)
        BY <3>1, <3>3, <4>2, <4>3, <4>6, CallKeeps
      <4> QED BY <3>2, <3>4, <4>4, <4>5, <4>7 DEF HeldInv
    <3> QED BY <3>2, <3>3, <3>5, <3>6
  <2> QED BY <2>1, <2>2
<1> QED BY <1>1, <1>2, PTL DEF Spec

(* A parameter set with success keeps its value until it is set again,     *)
(* whatever else is called, however often, and whichever accesses fail     *)
(* (SET_PARAM, GET_PARAM and the tables of the SMIOs).                     *)
THEOREM SetValuesRead == Spec => []ReadsBack
<1>1. HeldInv => ReadsBack
  <2> SUFFICES ASSUME HeldInv, NEW k \in DOMAIN held,
                      \A n \in DOMAIN S.params : ~Aliased(S, n, k[2])
               PROVE  Extract(S.params[k[1]], mem[S.inCore[<<k[2], S.params[k[1]].reg>>]])
                        = Shown(S.params[k[1]], held[k])
    BY DEF ReadsBack
  <2>1. Reads(S, mem, k, held[k])
    BY DEF HeldInv, Keeps
  <2> QED BY <2>1 DEF Reads
<1> QED BY <1>1, HeldInvariance, PTL

(* A set changes no bit outside the fields of its parameter, in the        *)
(* register where the core has it (SET_PARAM).                             *)
THEOREM OwnFieldSet == Spec => SetsOwnField
<1>1. ASSUME HeldInv, [Next]_vars
      PROVE  [(last'.name \in DOMAIN S.params /\ last'.io.read
                  /\ ~Aliased(S, last'.name, last'.chan))
              => \A a \in DOMAIN mem : mem'[a] # mem[a] =>
                  /\ a = S.inCore[<<last'.chan, S.params[last'.name].reg>>]
                  /\ (mem[a] \ mem'[a]) \cup (mem'[a] \ mem[a])
                          \subseteq Mask(S.params[last'.name])]_<<mem, last>>
  <2>1. CASE UNCHANGED vars
    BY <2>1 DEF vars
  <2>2. CASE Next
    <3>1. smio \in Smios /\ cfg.pc \in Nat \ {0} /\ Keeps(S, mem, held)
      BY <1>1 DEF HeldInv
    <3>2. \/ \E n, c, get, type, v, io : Made(S, n, c, get, type, v, io)
          \/ UNCHANGED <<mem, held, last>>
      BY <2>2, <3>1, StepIsCall
    <3>3. PICK T : T = S /\ WellFormed(T)
      <4>1. S \in {PlacedTable[s] : s \in Smios}
        BY <3>1 DEF S
      <4> QED BY <4>1, TablesAssumption
    <3>5. CASE UNCHANGED <<mem, held, last>>
      BY <3>5
    <3>6. CASE \E n, c, get, type, v, io : Made(T, n, c, get, type, v, io)
      <4>1. PICK n, c, get, type, v, io : Made(T, n, c, get, type, v, io)
        BY <3>6
      <4>2. /\ n \in DOMAIN T.client /\ c \in 0..T.channels
            /\ get \in BOOLEAN /\ io \in Io
        BY <4>1 DEF Made
      <4>3. PICK r : r = Outcome(T, n, c, get, type, v, io)
        OBVIOUS
      <4>4. mem' = r.mem /\ last'.name = n /\ last'.chan = c /\ last'.io = io
        BY <4>1, <4>3 DEF Made, Call
      <4>5. SUFFICES ASSUME n \in DOMAIN T.params, io.read, ~Aliased(T, n, c),
                            NEW a \in DOMAIN mem, mem'[a] # mem[a]
                     PROVE  /\ a = T.inCore[<<c, T.params[n].reg>>]
                            /\ (mem[a] \ mem'[a]) \cup (mem'[a] \ mem[a]) \subseteq Mask(T.params[n])
        BY <3>3, <4>4
      <4>6. ~get
        BY <3>3, <4>2, <4>3, <4>4, <4>5, GetOutcome
      <4>7. mem = [b \in DOMAIN mem |-> mem[b]]
        BY <3>1 DEF Keeps
      <4>8. SetResult(T, n, c, v, io, r)
        <5>1. SetResult(T, n, c, v, io, Outcome(T, n, c, get, type, v, io))
          BY <3>3, <4>2, <4>5, <4>6, <4>7, SetOutcome
        <5> QED BY <4>3, <5>1
      <4>9. mem' = Written(T, n, c, v, io) /\ c <= T.channels - 1
        BY <4>4, <4>5, <4>8 DEF SetResult
      <4>10. c < T.channels
        BY <3>3, <4>2, <4>9 DEF WellFormed
      <4>11. Target(T, n, c) = T.inCore[<<c, T.params[n].reg>>]
        BY <4>5, <4>10 DEF Aliased, Target
      <4>12. mem' = [mem EXCEPT ![Target(T, n, c)] = Merge(T.params[n], mem[Target(T, n, c)], v)]
        BY <4>5, <4>9 DEF Written
      <4>13. a = Target(T, n, c) /\ mem'[a] = Merge(T.params[n], mem[a], v)
        BY <4>5, <4>7, <4>12
      <4>14. FieldsFit(T.params[n])
        BY <3>3, <4>5 DEF WellFormed
      <4>15. \A b : b \notin Mask(T.params[n]) => (b \in mem'[a] <=> b \in mem[a])
        BY <4>13, <4>14, MergeKeepsRest
      <4> QED BY <4>11, <4>13, <4>15
    <3> QED BY <3>2, <3>3, <3>5, <3>6
  <2> QED BY <1>1, <2>1, <2>2
<1> QED BY <1>1, HeldInvariance, PTL DEF Spec, SetsOwnField

(***************************************************************************)
(* config_defaults.                                                        *)
(***************************************************************************)
\* A failed step whose error is dropped or assigned over.
Excused(T, i) ==
    \/ T.defaults[i].result \in {"may", "again"}
    \/ \E j \in DOMAIN T.defaults : j > i /\ T.defaults[j].result = "first"

\* While the function runs, an error that is not excused is in err.
Pending(T, k) ==
    /\ k.pc \in Nat \ {0}
    /\ k.state \in {"off", "running", "failed", "done"}
    /\ k.state = "running" =>
         \A i \in k.bad : /\ i \in DOMAIN T.defaults /\ i < k.pc
                          /\ T.defaults[i].result # "must"
                          /\ Excused(T, i) \/ k.err = TRUE
    /\ k.state = "done" => \A i \in k.bad : Excused(T, i)

DefaultsInv == smio \in Smios /\ Pending(S, cfg)

(* A step of the function, ok being the result of its call, keeps that. *)
LEMMA PendingStep ==
    ASSUME NEW T, WellFormed(T), NEW k, Pending(T, k), k.state = "running",
           k.pc \in DOMAIN T.defaults, NEW ok \in BOOLEAN, NEW d, d = T.defaults[k.pc], NEW e,
           e = IF d.result \in {"must", "first"} THEN ~ok
               ELSE IF d.result = "also" THEN k.err \/ ~ok ELSE k.err,
           NEW z, z = [state |-> IF d.result = "must" /\ ~ok THEN "failed" ELSE "running",
                       pc    |-> k.pc + 1,
                       err   |-> e,
                       bad   |-> IF ok THEN k.bad ELSE k.bad \cup {k.pc}]
    PROVE  Pending(T, z)
<1>1. z.pc = k.pc + 1 /\ z.pc \in Nat \ {0} /\ k.pc \in Nat \ {0}
  BY DEF Pending
<1>2. z.state \in {"off", "running", "failed", "done"} /\ z.state # "done"
  OBVIOUS
<1>3. ASSUME z.state = "running", NEW i \in z.bad
      PROVE  /\ i \in DOMAIN T.defaults /\ i < z.pc /\ T.defaults[i].result # "must"
             /\ Excused(T, i) \/ z.err = TRUE
  <2>1. d.result # "must" \/ ok
    BY <1>3
  <2>2. z.err = e
    OBVIOUS
  <2>3. d.result \in {"must", "may", "again", "first", "also"}
    BY DEF WellFormed, DefaultsInOrder
  <2>4. CASE i = k.pc /\ ~ok
    <3>1. d.result # "must" /\ i < z.pc
      BY <1>1, <2>1, <2>4
    <3>2. CASE d.result \in {"may", "again"}
      BY <2>4, <3>1, <3>2 DEF Excused
    <3>3. CASE d.result \in {"first", "also"}
      <4>1. e = TRUE
        BY <2>4, <3>3, Zenon
      <4> QED BY <2>2, <2>4, <3>1, <4>1
    <3> QED BY <2>3, <3>1, <3>2, <3>3, Zenon
  <2>5. CASE i \in k.bad
    <3>1. /\ i \in DOMAIN T.defaults /\ i < k.pc /\ T.defaults[i].result # "must"
          /\ Excused(T, i) \/ k.err = TRUE
      BY <2>5 DEF Pending
    <3>2. i < z.pc
      <4>1. i \in Nat
        BY <3>1 DEF WellFormed
      <4> QED BY <1>1, <3>1, <4>1
    <3>3. CASE Excused(T, i)
      BY <3>1, <3>2, <3>3
    <3>4. CASE ~Excused(T, i)
      <4>1. T.defaults[i].result \in {"first", "also"}
        <5>1. T.defaults[i].result \in {"must", "may", "again", "first", "also"}
          BY <3>1 DEF WellFormed, DefaultsInOrder
        <5>2. T.defaults[i].result \notin {"may", "again"}
          BY <3>4 DEF Excused
        <5> QED BY <3>1, <5>1, <5>2
      <4>2. d.result # "must"
        BY <3>1, <4>1 DEF WellFormed, DefaultsInOrder
      <4>3. d.result # "first"
        <5>1. ASSUME d.result = "first" PROVE FALSE
          <6>1. k.pc > i
            <7>1. i \in Nat
              BY <3>1 DEF WellFormed
            <7> QED BY <1>1, <3>1, <7>1
          <6> QED BY <3>4, <5>1, <6>1 DEF Excused
        <5> QED BY <5>1
      <4>4. k.err = TRUE
        BY <3>1, <3>4
      <4>5. e = TRUE
        BY <4>2, <4>3, <4>4, Zenon
      <4> QED BY <2>2, <3>1, <3>2, <4>5
    <3> QED BY <3>3, <3>4, Zenon
  <2>6. (i = k.pc /\ ~ok) \/ i \in k.bad
    OBVIOUS
  <2> QED BY <2>4, <2>5, <2>6, Zenon
<1> QED BY <1>1, <1>2, <1>3, Zenon DEF Pending

(* The result of a call is a Boolean. *)
LEMMA ResultBoolean ==
    ASSUME NEW T, NEW n, NEW c, NEW get, NEW type, NEW v, NEW io
    PROVE  Outcome(T, n, c, get, type, v, io).ok \in BOOLEAN
BY Zenon DEF Outcome

(* An error of config_defaults that is not excused is pending while the    *)
(* function runs.                                                          *)
THEOREM DefaultsInvariance == Spec => []DefaultsInv
<1>1. Init => DefaultsInv
  <2> SUFFICES ASSUME Init PROVE DefaultsInv
    OBVIOUS
  <2>1. smio \in Smios /\ cfg.pc = 1 /\ cfg.state \in {"off", "running"} /\ cfg.bad = {}
    BY DEF Init
  <2> QED BY <2>1 DEF DefaultsInv, Pending
<1>2. DefaultsInv /\ [Next]_vars => DefaultsInv'
  <2> SUFFICES ASSUME DefaultsInv, [Next]_vars PROVE DefaultsInv'
    OBVIOUS
  <2>1. smio \in Smios /\ Pending(S, cfg)
    BY DEF DefaultsInv
  <2>2. CASE UNCHANGED vars
    BY <2>1, <2>2 DEF DefaultsInv, vars, S
  <2>3. CASE Next
    <3>1. cfg.pc \in Nat \ {0}
      BY <2>1 DEF Pending
    <3>2. UNCHANGED smio
      BY <2>1, <2>3, <3>1, StepIsCall
    <3>3. PICK T : T = S /\ WellFormed(T)
      <4>1. S \in {PlacedTable[s] : s \in Smios}
        BY <2>1 DEF S
      <4> QED BY <4>1, TablesAssumption
    <3>4. S' = T /\ smio' \in Smios /\ Pending(T, cfg)
      BY <2>1, <3>2, <3>3 DEF S
    <3>5. CASE cfg' = cfg
      BY <3>4, <3>5 DEF DefaultsInv
    <3>6. CASE ConfigStep(T)
      <4>1. cfg.state = "running" /\ cfg.pc \in DOMAIN T.defaults
        BY <3>1, <3>3, <3>6 DEF ConfigStep, WellFormed
      <4>2. PICK d : d = T.defaults[cfg.pc]
        OBVIOUS
      <4>3. PICK io \in Faults(d.get) :
              /\ Call(T, d.name, d.chan, d.get, {}, d.value, io)
              /\ LET ok == last'.ok
                 IN  cfg' = [state |-> IF d.result = "must" /\ ~ok THEN "failed" ELSE "running",
                             pc    |-> cfg.pc + 1,
                             err   |-> IF d.result \in {"must", "first"} THEN ~ok
                                       ELSE IF d.result = "also" THEN cfg.err \/ ~ok ELSE cfg.err,
                             bad   |-> IF ok THEN cfg.bad ELSE cfg.bad \cup {cfg.pc}]
        BY <3>6, <4>2 DEF ConfigStep
      <4>4. PICK ok \in BOOLEAN : ok = last'.ok
        <5>1. last'.ok = Outcome(T, d.name, d.chan, d.get, {}, d.value, io).ok
          BY <4>3, Zenon DEF Call
        <5> QED BY <5>1, ResultBoolean
      <4>5. PICK e : e = IF d.result \in {"must", "first"} THEN ~ok
                         ELSE IF d.result = "also" THEN cfg.err \/ ~ok ELSE cfg.err
        OBVIOUS
      <4>6. PICK z : z = cfg'
        OBVIOUS
      <4>7. z = [state |-> IF d.result = "must" /\ ~ok THEN "failed" ELSE "running",
                 pc    |-> cfg.pc + 1,
                 err   |-> e,
                 bad   |-> IF ok THEN cfg.bad ELSE cfg.bad \cup {cfg.pc}]
        BY <4>3, <4>4, <4>5, <4>6, Zenon
      <4>8. Pending(T, z)
        BY <3>3, <3>4, <4>1, <4>2, <4>5, <4>7, PendingStep, Zenon
      <4> QED BY <3>4, <4>6, <4>8 DEF DefaultsInv
    <3>7. CASE ConfigEnd(T)
      <4>1. /\ cfg.state = "running" /\ cfg.pc > Len(T.defaults)
            /\ cfg' = [cfg EXCEPT !.state = IF cfg.err THEN "failed" ELSE "done"]
        BY <3>7 DEF ConfigEnd
      <4>2. PICK s \in {"failed", "done"} : cfg' = [cfg EXCEPT !.state = s] /\ (s = "done" => ~cfg.err)
        BY <4>1
      <4>3. cfg'.pc = cfg.pc /\ cfg'.bad = cfg.bad
        BY <4>2
      <4>4. cfg'.state = s
        BY <4>2
      <4>5. s = "done" => \A i \in cfg.bad : Excused(T, i)
        BY <3>4, <4>1, <4>2 DEF Pending
      <4>6. Pending(T, cfg')
        BY <3>1, <4>3, <4>4, <4>5 DEF Pending
      <4> QED BY <3>4, <4>6 DEF DefaultsInv
    <3>8. CASE ClientSet(T) \/ ClientGet(T)
      BY <3>5, <3>8, Zenon DEF ClientSet, ClientGet
    <3> QED BY <2>3, <3>3, <3>6, <3>7, <3>8 DEF Next
  <2> QED BY <2>2, <2>3
<1> QED BY <1>1, <1>2, PTL DEF Spec

(* A failed call of config_defaults fails the function, but for the steps  *)
(* whose result is not looked at and those whose error a later step        *)
(* assigns over (the config_defaults functions of the SMIOs).              *)
THEOREM FailedDefaultsReported == Spec => []DefaultsReported
<1>1. DefaultsInv => DefaultsReported
  BY DEF DefaultsInv, Pending, Excused, DefaultsReported
<1> QED BY <1>1, DefaultsInvariance, PTL
=============================================================================
