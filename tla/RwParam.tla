------------------------------ MODULE RwParam ------------------------------
(***************************************************************************)
(* The parameter macros of include/rw_param.h over 32-bit registers.       *)
(*                                                                         *)
(* A word is the set of its one-bits and a field is the set of the bits it *)
(* occupies, so that the masks, shifts and merges of the generated WBGEN2  *)
(* macros are set operations and no arithmetic on 32-bit numbers is left.  *)
(***************************************************************************)
EXTENDS Integers, SequencesExt

Bit  == 0..31
Word == SUBSET Bit

\* The word of a number below 2^31, and the word 2^w - 1.
Num(n)  == {b \in 0..30 : (n \div 2^b) % 2 = 1}
Ones(w) == 0..(w - 1)
Zero    == {}
One     == {0}

\* a < b as unsigned numbers: the highest bit on which they differ is b's.
Less(a, b) == a # b /\ Max((a \ b) \cup (b \ a)) \in b

\* WBGEN2_GEN_WRITE and WBGEN2_GEN_READ of a field, WBGEN2_SIGN_EXTEND.
WriteField(v, f)   == {Min(f) + b : b \in v \cap Ones(Cardinality(f))}
ReadField(r, f)    == {b - Min(f) : b \in r \cap f}
SignExtend(v, bit) == IF bit \in v THEN v \cup (bit..31) ELSE v

(***************************************************************************)
(* A parameter: the register it lives in, the fields its value is written  *)
(* to, whether it is a SINGLE_BIT_PARAM, its limits (none: <<>>), and its  *)
(* check and format functions.                                             *)
(***************************************************************************)
Param(reg, fields, single, lim) ==
    [reg |-> reg, fields |-> fields, single |-> single, lim |-> lim,
     chk |-> "none", fmt |-> "none"]

NoLimits    == <<>>
Flag        == <<Zero, One>>
UpTo(w)     == <<Zero, Ones(w)>>
FromOne(w)  == <<One, Ones(w)>>

Single(R, reg, field, lim) == Param(reg, {R[reg][field]}, TRUE, lim)
Mult(R, reg, field, lim)   == Param(reg, {R[reg][field]}, FALSE, lim)
Whole(reg, lim)            == Param(reg, {Bit}, FALSE, lim)

\* A value register of the generated headers: VAL in the low bits, the rest
\* reserved.
Value(w) == [VAL |-> 0..(w - 1), RESERVED |-> w..31]

\* Register offsets of a core whose 32-bit registers follow one another.
Layout(regs) ==
    [r \in {regs[i] : i \in DOMAIN regs} |->
        4 * ((CHOOSE i \in DOMAIN regs : regs[i] = r) - 1)]

RW_OK           == 0
RW_USR_ERR      == 2
RW_INV          == 3
RW_READ_EAGAIN  == 4
RW_WRITE_EAGAIN == 5

Mask(p) == UNION p.fields

\* Seeded defect: the maximum is not tested.
CheckMinimum(v, lim) == ~Less(v, lim[1])

check_param_limits(v, lim) == ~Less(v, lim[1]) /\ ~Less(lim[2], v)

\* The gain check of the switching core: neither 16-bit half may be zero.
GainCheck(v) == ReadField(v, 0..15) # {} /\ ReadField(v, 16..31) # {}

Accepts(p, v) ==
    /\ p.lim # NoLimits => check_param_limits(v, p.lim)
    /\ p.chk = "gain" => GainCheck(v)

\* What a GET extracts from a register, and what a SET merges into it.
Extract(p, w) ==
    LET v == IF p.single THEN IF w \cap Mask(p) # {} THEN One ELSE Zero
                         ELSE UNION {ReadField(w, f) : f \in p.fields}
    IN  IF p.fmt = "sign" THEN SignExtend(v, 15) ELSE v

\* Seeded defect: the rest of the register is written as zero.
MergeDropsRest(p, w, v) ==
    IF p.single THEN IF v # {} THEN Mask(p) ELSE {}
                ELSE UNION {WriteField(v, f) : f \in p.fields}

Merge(p, w, v) ==
    IF p.single THEN IF v # {} THEN w \cup Mask(p) ELSE w \ Mask(p)
                ELSE (w \ Mask(p)) \cup UNION {WriteField(v, f) : f \in p.fields}

(***************************************************************************)
(* GET_PARAM_GEN and SET_PARAM_GEN.  io is the fate of the two accesses    *)
(* the handler makes through the DEVIO: whether the read returned four     *)
(* bytes (otherwise the local variable holds junk), and whether the write  *)
(* was done and acknowledged ("ok"), done but not acknowledged             *)
(* ("unacked") or not done ("lost").  SET goes on after a short read.      *)
(***************************************************************************)
Io == [read : BOOLEAN, junk : {{}, Bit}, write : {"ok", "unacked", "lost"}]

NoFault(io) == io.read /\ io.write = "ok"

GET_PARAM(p, w, io) ==
    [code |-> IF io.read THEN RW_OK ELSE RW_READ_EAGAIN,
     value |-> Extract(p, w)]

SET_PARAM(p, w, v, io) ==
    IF ~Accepts(p, v)
    THEN [code |-> RW_USR_ERR, word |-> w]
    ELSE [code |-> IF NoFault(io) THEN RW_OK ELSE RW_WRITE_EAGAIN,
          word |-> IF io.write = "lost" THEN w
                   ELSE Merge(p, IF io.read THEN w ELSE io.junk, v)]

(***************************************************************************)
(* Exported operations (a descriptor of an exports.c file) and the calls   *)
(* the client library makes to them; arguments and results are given by    *)
(* their sizes in bytes, 0 standing for DISP_ARG_END.                      *)
(***************************************************************************)
Op(name, code, ret, args) ==
    [name |-> name, op |-> code, ret |-> ret, args |-> args]

\* The usual signature: a UINT32 result, and rw and a UINT32 value.
RwOps(codes, names) ==
    [i \in DOMAIN names |-> Op(names[i], codes[names[i]], 4, <<4, 4>>)]

ChanOps(codes, names) ==
    [i \in DOMAIN names |-> Op(names[i], codes[names[i]], 4, <<4, 4, 4>>)]

ClientOp(code, set, get, out) ==
    [op |-> code, set |-> set, get |-> get, out |-> out]

\* A step of a config_defaults function: the parameter it sets (or gets), the
\* channel, the value, and what becomes of the result.  must: the function
\* ends with an error unless it is a success.  may: it is not looked at.
\* again: an error reported by the server is accepted.  first and also: it
\* is assigned to, or or-ed into, the error tested at the end.
Default(name, value, result) ==
    [name |-> name, chan |-> 0, value |-> value, result |-> result, get |-> FALSE]

Must(name, value)  == Default(name, value, "must")
May(name, value)   == Default(name, value, "may")
Again(name, value) == Default(name, value, "again")
Look(name)         == [Must(name, {}) EXCEPT !.get = TRUE]

\* A group of sets of one channel, and of every channel below n in turn.
OneChan(c, names, values) ==
    [i \in DOMAIN names |->
        [Default(names[i], values[i], IF i = 1 THEN "first" ELSE "also") EXCEPT !.chan = c]]

ForEachChan(n, names, values) ==
    FlattenSeq([c \in 1..n |-> OneChan(c - 1, names, values)])

ReadWrite(code)       == ClientOp(code, <<4, 4>>, <<4, 4>>, 4)
ReadWriteDouble(code) == ClientOp(code, <<4, 8>>, <<4, 8>>, 8)
ReadDouble(code)      == ClientOp(code, <<>>, <<4, 8>>, 8)
WriteOnly(code)       == ClientOp(code, <<4, 4>>, <<>>, 0)
ReadWriteChan(code)   == ClientOp(code, <<4, 4, 4>>, <<4, 4, 4>>, 4)
=============================================================================
