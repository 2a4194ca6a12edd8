------------------------------ MODULE RffeLink ------------------------------
(***************************************************************************)
(* The RF front end: sm_ch_rffe.c over the BSMP protocol of                *)
(* src/sm_io/protocols/ops/sm_pr_bsmp.c, over a TCP stream that DEVIO      *)
(* holds.  A request is one write of the stream; its reply is read in two, *)
(* a header and the number of bytes the header announces.  Each of the     *)
(* three is a remote access that can fail, before the stream is touched or *)
(* after.  A read waits for its bytes without limit.  The BSMP library     *)
(* itself is external.                                                     *)
(***************************************************************************)
EXTENDS BoardBus

CONSTANTS
    RffeCalls,     \* the calls made: records [op, id, val, size]
    VarSizes       \* the sizes, in bytes, of the controller's variables 0, 1, ...

VARIABLES
    stream,        \* bytes from the controller not read yet: [b, of]
    remote,        \* the controller's variables
    known,         \* the number of variables the last open found, 0 if none
    talk           \* the call, running or ended

rffeVars == <<stream, remote, known, talk>>

(***************************************************************************)
(* External: the codes of BSMP, and the controller, which answers every    *)
(* request in order.                                                       *)
(***************************************************************************)
VAR_VALUE == 17
CMD_OK    == 224
ListCodes == <<5, 3, 7, 9>>   \* functions, variables, curves, groups
HEADER    == 3

Vars == DOMAIN VarSizes

Packet(code, bytes) == <<code, Len(bytes) \div 256, Len(bytes) % 256>> \o bytes

\* A list has one byte per entry; only the variables matter here.
Lists(code) == IF code = 3 THEN [i \in 1..Cardinality(Vars) |-> VarSizes[i - 1]] ELSE <<>>

Reply(t) ==
    CASE t.op = "open"      -> Packet(ListCodes[t.turn], Lists(ListCodes[t.turn]))
      [] t.op = "read_var"  -> Packet(VAR_VALUE, remote[t.id])
      [] t.op = "write_var" -> Packet(CMD_OK, <<>>)

Expected(t, got) ==
    CASE t.op = "open"      -> got[1] = ListCodes[t.turn]
      [] t.op = "read_var"  -> got[1] = VAR_VALUE /\ Len(got) = HEADER + VarSizes[t.id]
      [] t.op = "write_var" -> got[1] = CMD_OK

(***************************************************************************)
(* The calls.  turn is the exchange of the call, at the send, the header   *)
(* or the payload; got the bytes of the reply.                             *)
(***************************************************************************)
NoTalk ==
    [op |-> "none", id |-> 0, val |-> <<>>, size |-> 0, st |-> "idle", at |-> "send",
     turn |-> 1, got |-> <<>>, ret |-> "none", own |-> TRUE, before |-> FALSE]

\* read_var_by_id, write_var_by_id: the variable must exist and fit.
Fits(c) == c.id < known /\ VarSizes[c.id] <= c.size

\* own: every byte of the reply answers this request.  before: a transfer
\* of an earlier call had failed.
RffeStart(c) ==
    /\ board = "rffe" /\ talk.st # "run"
    /\ (c.op = "open") = (spent.calls = 0)
    /\ c.op # "open" => known > 0
    /\ Call
    /\ LET t == [NoTalk EXCEPT !.op = c.op, !.id = c.id, !.val = c.val, !.size = c.size,
                               !.before = spent.faults > 0]
       IN  talk' = IF c.op = "open" \/ Fits(c) THEN [t EXCEPT !.st = "run"]
                   ELSE [t EXCEPT !.st = "ended", !.ret = "refused"]
    /\ UNCHANGED <<board, stream, remote, known>>

\* A call that fails; of an open nothing is kept.
Drop(t) ==
    /\ talk' = [t EXCEPT !.st = "ended", !.ret = "failed"]
    /\ UNCHANGED known


AfterSend(t) == [t EXCEPT !.at = "header"]

\* Of the request, the controller may get everything or nothing.
RffeSend(done, good) ==
    /\ talk.st = "run" /\ talk.at = "send"
    /\ good => done
    /\ Fault(~good)
    /\ stream' = stream \o (IF done THEN [i \in 1..Len(Reply(talk)) |->
                                             [b |-> Reply(talk)[i], of |-> spent.calls]]
                            ELSE <<>>)
    /\ remote' = IF done /\ talk.op = "write_var" THEN [remote EXCEPT ![talk.id] = talk.val]
                 ELSE remote
    /\ IF good THEN talk' = AfterSend(talk) /\ UNCHANGED known ELSE Drop(talk)
    /\ UNCHANGED board


\* How many bytes recv asks for.
Wanted(t) == IF t.at = "header" THEN HEADER ELSE 256 * t.got[2] + t.got[3]

Taken(n) == [i \in 1..n |-> stream[i].b]

\* The exchange is over: the next of an open, or the end of the call.
Exchanged(t) ==
    IF ~Expected(t, t.got) THEN Drop(t)
    ELSE IF t.op = "open" /\ t.turn < Len(ListCodes)
    THEN /\ talk' = [t EXCEPT !.turn = @ + 1, !.at = "send", !.got = <<>>]
         /\ UNCHANGED known
    ELSE /\ talk' = [t EXCEPT !.st = "ended", !.ret = "ok"]
         /\ known' = IF t.op = "open" THEN Cardinality(Vars) ELSE known

\* recv, one of its two reads: all the bytes asked for, or the read waits.
RffeRecv(done, good) ==
    /\ talk.st = "run" /\ talk.at \in {"header", "payload"}
    /\ good => done
    /\ Fault(~good)
    /\ LET n == Wanted(talk)
           t == [talk EXCEPT !.got = @ \o Taken(n),
                             !.own = @ /\ \A i \in 1..n : stream[i].of = spent.calls]
       IN  /\ Len(stream) >= n
           /\ stream' = IF done THEN SubSeq(stream, n + 1, Len(stream)) ELSE stream
           /\ IF ~good THEN Drop(talk)
              ELSE IF talk.at = "header"
              THEN talk' = [t EXCEPT !.at = "payload"] /\ UNCHANGED known
              ELSE Exchanged(t)
    /\ UNCHANGED <<board, remote>>

RffeInit ==
    /\ stream = <<>> /\ known = 0 /\ talk = NoTalk
    /\ remote = [v \in Vars |-> [i \in 1..VarSizes[v] |-> 0]]

RffeNext ==
    \/ \E c \in RffeCalls : RffeStart(c)
    \/ \E done, good \in BOOLEAN : RffeSend(done, good) \/ RffeRecv(done, good)
=============================================================================
