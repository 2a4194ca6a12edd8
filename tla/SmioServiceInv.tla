--------------------------- MODULE SmioServiceInv ---------------------------
(***************************************************************************)
(* The inductive invariant of SmioService: what relates the requests, the  *)
(* replies, the mailboxes and the timeouts of the clients of an SMIO.  The *)
(* lemmas are about one request, about the steps that send one and those   *)
(* of the thread that serve none, and about those that make or take a      *)
(* reply.                                                                  *)
(***************************************************************************)
EXTENDS SmioService, TLAPS

(* Provers of a leaf that names none, with their time limits in seconds.     *)
USE SMTT(20), ZenonT(20)

Call     == [fn : {"none", "write", "read", "func"}, val : Int, extra : BOOLEAN]
Res      == [fn : {"none", "write", "read", "func"}, n : Nat, for : Nat,
             ret : {"none", "SUCCESS", "SERVER", "AGAIN", "CODE"}, out : Int]
ClientOf == [pc : {"idle", "wait", "stop", "done"}, n : Nat, late : Nat, call : Call, res : Res]
\* The messages that clients send: those for the parameter have a mode and a value.
Msgs     == {m \in Seq([size : Nat, val : Int]) : m[1].val = PARAM => Len(m) >= 3}
Request  == [from : Clients, n : Nat, msg : Msgs]
Reply    == [code : Int, data : BOOLEAN, val : Int, for : Nat]

Types ==
    /\ "pc" \in DOMAIN smio
    /\ param \in Int
    /\ inbox \in Seq(Request)
    /\ box \in [Clients -> Seq(Reply)]
    /\ cl \in [Clients -> ClientOf]
    /\ hist \in [done : SUBSET (Clients \X (Nat \ {0})), answered : [Clients -> Seq(Nat)],
                 seen : [Clients -> SUBSET Int]]

\* The calls of c that have returned.
Returned(c) == IF cl[c].pc = "wait" THEN cl[c].n - 1 ELSE cl[c].n

\* How many requests of c were answered, and how many of the answers it took.
Answered(c) == Len(hist.answered[c])
Taken(c)    == Answered(c) - Len(box[c])

(* The replies in the mailbox of a client are the last ones of those that   *)
(* were sent, in order; a call returns by taking one or by timing out; the  *)
(* requests in the mailbox of the service were not answered and are in      *)
(* order, and while the service lives none is missing.                      *)
Numbered(c) ==
    /\ \A k \in 1..Answered(c) : hist.answered[c][k] = k
    /\ 0 <= Taken(c) /\ Answered(c) <= cl[c].n
    /\ Taken(c) + cl[c].late = Returned(c)
    /\ \A k \in 1..Len(box[c]) : box[c][k].for = Taken(c) + k

Queued(c) ==
    /\ \A i \in 1..Len(inbox) : inbox[i].from = c =>
          inbox[i].n \in (Answered(c) + 1)..cl[c].n
    /\ \A i, j \in 1..Len(inbox) : inbox[i].from = c /\ inbox[j].from = c /\ i < j =>
          inbox[i].n < inbox[j].n
    /\ smio.pc # "done" => \A k \in (Answered(c) + 1)..cl[c].n :
          \E i \in 1..Len(inbox) : inbox[i].from = c /\ inbox[i].n = k

(* A reply of success answers a request that was performed; one to the read *)
(* its client waits for carries a value the parameter had meanwhile.        *)
Truthful(c) ==
    \A k \in 1..Len(box[c]) :
       LET r == box[c][k]
       IN  /\ r.data => r.code = PARAM_OK
           /\ r.code = PARAM_OK => <<c, r.for>> \in hist.done
           /\ cl[c].pc = "wait" /\ cl[c].call.fn = "read" /\ r.for = cl[c].n /\ r.code = PARAM_OK
                => r.data /\ r.val \in hist.seen[c]

Asked(c) ==
    cl[c].pc = "wait" =>
       /\ cl[c].n > 0
       /\ cl[c].call.fn # "none"
       /\ \A i \in 1..Len(inbox) : inbox[i].from = c /\ inbox[i].n = cl[c].n =>
             inbox[i].msg = Message(cl[c].call)

Lag(c) ==
    LET res == cl[c].res
    IN  res.for # 0 => res.n - cl[c].late <= res.for /\ res.for <= res.n

Success(c) ==
    LET res == cl[c].res
    IN  res.ret = "SUCCESS" =>
          \/ <<c, res.for>> \in hist.done
          \/ res.fn = "func" /\ res.for = 0

Current(c) ==
    LET res == cl[c].res
    IN  res.fn = "read" /\ res.ret = "SUCCESS" /\ cl[c].late = 0 /\ cl[c].pc # "wait"
           => res.out \in hist.seen[c]

ClientInv ==
    \A c \in Clients : /\ Numbered(c) /\ Queued(c)
                       /\ Truthful(c) /\ Asked(c)
                       /\ Lag(c) /\ Success(c) /\ Current(c)

\* The default values up to the kth whose error the config thread drops.
Unchecked(k) == {i \in 1..k : ~Defaults[i].checked}

(* The config thread ends its list at the first error that it looks at: it  *)
(* has timed out once more than it dropped errors at most, and as long as   *)
(* it never did, its defaults up to now were performed.                     *)
ConfigInv ==
    LET me == cl[Config]
    IN  /\ me.n <= Len(Defaults)
        /\ me.pc = "wait" => me.call.fn = "write"
        /\ me.late <= Cardinality(Unchecked(Returned(Config)))
                         + (IF me.pc \in {"stop", "done"} THEN 1 ELSE 0)
        /\ me.pc # "wait" /\ me.n > 0 => me.res.n = me.n /\ me.res.fn = "write"
        /\ me.pc = "idle" /\ me.n > 0 /\ Defaults[me.n].checked => me.res.ret = "SUCCESS"
        /\ me.late = 0 /\ (\A i \in 1..Len(Defaults) : Defaults[i].checked) =>
              \A i \in 1..(me.n - 1) : <<Config, i>> \in hist.done

ServiceInv == Types /\ ClientInv /\ ConfigInv
-----------------------------------------------------------------------------
(* Sequences.                                                               *)

\* Messages that are appended leave the earlier ones in their places.
LEMMA ConcatFirst ==
    ASSUME NEW S, NEW s \in Seq(S), NEW t \in Seq(S), NEW i \in 1..Len(s)
    PROVE  (s \o t)[i] = s[i] /\ s \o t \in Seq(S)
OBVIOUS

\* An element of a sequence is of its type.
LEMMA Element ==
    ASSUME NEW S, NEW s \in Seq(S), NEW i \in 1..Len(s)
    PROVE  s[i] \in S
OBVIOUS

(* Append and Tail, by index. *)
LEMMA AppendSeq ==
    ASSUME NEW S, NEW s \in Seq(S), NEW e \in S
    PROVE  /\ Append(s, e) \in Seq(S) /\ Len(Append(s, e)) = Len(s) + 1
           /\ \A i \in 1..Len(s) : Append(s, e)[i] = s[i]
           /\ Append(s, e)[Len(s) + 1] = e
OBVIOUS

\* Taking the first message moves the others up by one.
LEMMA TailSeq ==
    ASSUME NEW S, NEW s \in Seq(S), s # <<>>
    PROVE  /\ Tail(s) \in Seq(S) /\ Len(Tail(s)) = Len(s) - 1 /\ Len(s) > 0
           /\ \A i \in 1..(Len(s) - 1) : Tail(s)[i] = s[i + 1]
OBVIOUS

(* What one request does.                                                   *)

(* Every request gets one reply.  It says PARAM_OK if and only if the       *)
(* operation was performed, and data only with PARAM_OK; a read that was    *)
(* performed has data (msg_handle_mlm_request).                             *)
LEMMA OneReply ==
    ASSUME NEW table, NEW msg, NEW ok \in BOOLEAN
    PROVE  \E code \in Int, data \in BOOLEAN :
              /\ msg_handle_mlm_request(table, msg,
                        IF Runs(table, msg) THEN Returns(msg, ok) ELSE -1)
                    = <<[code |-> code, data |-> data]>>
              /\ code = PARAM_OK <=> Runs(table, msg) /\ ok
              /\ data => code = PARAM_OK
              /\ code = PARAM_OK /\ msg[1].val = PARAM /\ msg[2].val = READ_MODE => data
<1> DEFINE reads == msg[1].val = PARAM /\ msg[2].val = READ_MODE
<1>0. ASSUME NEW ret \in Int
      PROVE  _msg_format_client_response(ret) =
                IF ret <= 0 THEN [code |-> 0 - ret, data |-> FALSE]
                            ELSE [code |-> PARAM_OK, data |-> TRUE]
  BY DEF _msg_format_client_response
<1>1. ASSUME NEW ret \in Int, Runs(table, msg)
      PROVE  msg_handle_mlm_request(table, msg, ret) =
                <<IF ret <= 0 THEN [code |-> 0 - ret, data |-> FALSE]
                              ELSE [code |-> PARAM_OK, data |-> TRUE]>>
  BY <1>1, <1>0, Zenon DEF Runs, msg_handle_mlm_request
<1> DEFINE reply == msg_handle_mlm_request(table, msg,
                        IF Runs(table, msg) THEN Returns(msg, ok) ELSE -1)
<1>2. ASSUME Runs(table, msg), ok, reads
      PROVE  reply = <<[code |-> 0, data |-> TRUE]>>
  <2>1. Returns(msg, ok) = 4
    BY <1>2 DEF Returns
  <2>2. msg_handle_mlm_request(table, msg, 4) = <<[code |-> 0, data |-> TRUE]>>
    BY <1>1, <1>2 DEF PARAM_OK
  <2> QED BY <1>2, <2>1, <2>2, Zenon
<1>3. ASSUME Runs(table, msg), ok, ~reads
      PROVE  reply = <<[code |-> 0, data |-> FALSE]>>
  <2>1. Returns(msg, ok) = 0
    BY <1>3 DEF Returns
  <2>2. msg_handle_mlm_request(table, msg, 0) = <<[code |-> 0, data |-> FALSE]>>
    BY <1>1, <1>3 DEF PARAM_OK
  <2> QED BY <1>3, <2>1, <2>2, Zenon
<1>4. ASSUME Runs(table, msg), ~ok
      PROVE  reply = <<[code |-> 2, data |-> FALSE]>>
  <2>1. Returns(msg, ok) = -2
    BY <1>4 DEF Returns
  <2>2. msg_handle_mlm_request(table, msg, -2) = <<[code |-> 2, data |-> FALSE]>>
    BY <1>1, <1>4 DEF PARAM_OK
  <2> QED BY <1>4, <2>1, <2>2
<1>5. ASSUME ~Runs(table, msg)
      PROVE  reply = <<[code |-> 1, data |-> FALSE]>>
  <2>1. CASE ~_msg_gen_get_opcode(msg)
    BY <1>5, <2>1, Zenon DEF msg_handle_mlm_request, PARAM_ERR
  <2>2. CASE _msg_gen_get_opcode(msg)
    <3>1. _msg_format_client_response(-1) = [code |-> 1, data |-> FALSE]
      BY <1>0
    <3> QED BY <1>5, <2>2, <3>1, Zenon DEF Runs, msg_handle_mlm_request
  <2> QED BY <2>1, <2>2
<1> HIDE DEF reply, reads
<1>6. CASE ~Runs(table, msg) \/ ~ok
  <2>1. PICK code \in {1, 2} : reply = <<[code |-> code, data |-> FALSE]>>
    BY <1>4, <1>5, <1>6
  <2> WITNESS code \in Int, FALSE \in BOOLEAN
  <2> QED BY <2>1, <1>6 DEF PARAM_OK, reply
<1>7. CASE Runs(table, msg) /\ ok /\ reads
  <2> WITNESS 0 \in Int, TRUE \in BOOLEAN
  <2> QED BY <1>2, <1>7, Zenon DEF PARAM_OK, reply
<1>8. CASE Runs(table, msg) /\ ok /\ ~reads
  <2> WITNESS 0 \in Int, FALSE \in BOOLEAN
  <2> QED BY <1>3, <1>8, Zenon DEF PARAM_OK, reply, reads
<1> QED BY <1>6, <1>7, <1>8, Zenon

(* A request as its client sends it: a read has the parameter's code and    *)
(* the read mode.                                                           *)
LEMMA MessageType ==
    ASSUME NEW call \in Call
    PROVE  /\ Message(call) \in Msgs
           /\ call.fn = "read" => /\ Message(call)[1].val = PARAM
                                  /\ Message(call)[2].val = READ_MODE
<1> DEFINE Frames == [size : Nat, val : Int]
           mode == IF call.fn = "write" THEN WRITE_MODE ELSE READ_MODE
           rw == send_gen_rw(mode, call.val)
           extra == IF call.extra THEN <<Frame(0)>> ELSE <<>>
<1>1. \A v \in Int : Frame(v) \in Frames /\ Frame(v).val = v
  BY DEF Frame
<1>2. call.val \in Int /\ PARAM \in Int /\ FUNC \in Int /\ mode \in Int
  BY DEF Call, PARAM, FUNC, READ_MODE, WRITE_MODE
<1>3. extra \in Seq(Frames)
  <2>1. <<Frame(0)>> \in Seq(Frames) /\ <<>> \in Seq(Frames)
    BY <1>1
  <2> QED BY <2>1, Zenon
<1>4. rw = <<Frame(PARAM), Frame(mode), Frame(call.val)>>
  BY DEF send_gen_rw
<1>5. call.fn = "read" => mode = READ_MODE
  OBVIOUS
<1> HIDE DEF rw, extra, mode, Frames
<1>6. CASE call.fn = "func"
  <2>1. Message(call) = <<Frame(FUNC)>> \o extra
    BY <1>6 DEF Message, extra
  <2>2. <<Frame(FUNC)>> \in Seq(Frames) /\ 1 \in 1..Len(<<Frame(FUNC)>>) /\ <<Frame(FUNC)>>[1] = Frame(FUNC)
    BY <1>1, <1>2
  <2>3. Message(call) \in Seq(Frames) /\ Message(call)[1] = Frame(FUNC)
    BY <1>3, <2>1, <2>2, ConcatFirst
  <2>4. Message(call)[1].val # PARAM
    BY <1>1, <1>2, <2>3 DEF FUNC, PARAM
  <2> QED BY <1>6, <2>3, <2>4 DEF Msgs, Frames
<1>7. CASE call.fn # "func"
  <2>1. Message(call) = rw \o extra
    BY <1>7 DEF Message, rw, mode, extra
  <2>2. rw \in Seq(Frames) /\ Len(rw) = 3 /\ rw[1] = Frame(PARAM) /\ rw[2] = Frame(mode)
    BY <1>1, <1>2, <1>4
  <2>3. 1 \in 1..Len(rw) /\ 2 \in 1..Len(rw)
    BY <2>2
  <2>4. (rw \o extra) \in Seq(Frames) /\ (rw \o extra)[1] = rw[1] /\ (rw \o extra)[2] = rw[2]
    BY <1>3, <2>2, <2>3, ConcatFirst
  <2>5. Len(rw \o extra) >= 3
    BY <1>3, <2>2
  <2>6. Message(call)[1].val = PARAM /\ Message(call)[2].val = mode
    BY <1>1, <1>2, <2>1, <2>2, <2>4
  <2> QED BY <1>5, <2>1, <2>4, <2>5, <2>6 DEF Msgs, Frames
<1> QED BY <1>6, <1>7

-----------------------------------------------------------------------------
(* What a step leaves to a client.                                          *)

(* Requests that are performed and values that are seen do not harm a       *)
(* client whose own state, mailbox and answers stay as they are.            *)
LEMMA ClientKept ==
    ASSUME Types, NEW c \in Clients, Numbered(c), Truthful(c), Lag(c), Success(c), Current(c),
           cl'[c] = cl[c], box'[c] = box[c], hist'.answered[c] = hist.answered[c],
           hist.done \subseteq hist'.done, hist.seen[c] \subseteq hist'.seen[c]
    PROVE  Numbered(c)' /\ Truthful(c)' /\ Lag(c)' /\ Success(c)' /\ Current(c)'
<1>1. Numbered(c)'
  BY Zenon DEF Numbered, Answered, Taken, Returned
<1>2. Truthful(c)'
  BY DEF Truthful
<1>3. Lag(c)' /\ Success(c)' /\ Current(c)'
  BY DEF Lag, Success, Current
<1> QED BY <1>1, <1>2, <1>3

(* The requests of a client stay in order when the mailbox keeps all of     *)
(* them, or loses all of them at the end of the service.                    *)
LEMMA InboxKept ==
    ASSUME Types, NEW c \in Clients, Queued(c), Asked(c),
           cl'[c] = cl[c], hist'.answered[c] = hist.answered[c],
           \/ inbox' = inbox /\ (smio'.pc # "done" => smio.pc # "done")
           \/ inbox' = <<>> /\ smio'.pc = "done"
    PROVE  Queued(c)' /\ Asked(c)'
<1>1. CASE inbox' = inbox /\ (smio'.pc # "done" => smio.pc # "done")
  <2>1. Queued(c)'
    BY <1>1 DEF Queued, Answered
  <2>2. Asked(c)'
    BY <1>1 DEF Asked
  <2> QED BY <2>1, <2>2
<1>2. CASE inbox' = <<>> /\ smio'.pc = "done"
  <2>1. Len(inbox') = 0
    BY <1>2
  <2>2. Queued(c)'
    BY <1>2, <2>1 DEF Queued, Answered
  <2>3. Asked(c)'
    BY <1>2, <2>1 DEF Asked
  <2> QED BY <2>2, <2>3
<1> QED BY <1>1, <1>2

\* Steps that are not of the config thread keep what it knows.
LEMMA ConfigKept ==
    ASSUME Types, ConfigInv, cl'[Config] = cl[Config], hist.done \subseteq hist'.done
    PROVE  ConfigInv'
BY DEF ConfigInv, Unchecked, Returned

-----------------------------------------------------------------------------
(* The steps of the thread of the SMIO other than Serve.                    *)

\* Steps of the SMIO thread other than serving change no mailbox of a client.
LEMMA ThreadStep ==
    ASSUME ServiceInv,
           \/ Boot \/ InitModule \/ (\E lacks \in 0..Len(exp_ops) : smio_export_ops(lacks))
           \/ Wake \/ Drained \/ Terminate \/ SendTerm
    PROVE  ServiceInv'
<1> USE DEF ServiceInv
<1>1. /\ "pc" \in DOMAIN smio'
      /\ \/ inbox' = inbox /\ (smio'.pc # "done" => smio.pc # "done")
         \/ inbox' = <<>> /\ smio'.pc = "done"
      /\ UNCHANGED <<param, box, cl, hist>>
  <2>1. ASSUME NEW m, Over(m)
        PROVE  "pc" \in DOMAIN smio' /\ smio'.pc = "done"
    BY <2>1 DEF Over, Types
  <2>2. CASE Boot
    BY <2>1, <2>2 DEF Boot, Types
  <2>3. CASE InitModule
    BY <2>1, <2>3 DEF InitModule, Types
  <2>4. CASE \E lacks \in 0..Len(exp_ops) : smio_export_ops(lacks)
    BY <2>4 DEF smio_export_ops, Types
  <2>5. CASE Wake
    BY <2>5 DEF Wake, Types
  <2>6. CASE Drained
    BY <2>6 DEF Drained, Types
  <2>7. CASE Terminate
    BY <2>1, <2>7 DEF Terminate, Types
  <2>8. CASE SendTerm
    BY <2>8 DEF SendTerm, Types
  <2> QED BY <2>2, <2>3, <2>4, <2>5, <2>6, <2>7, <2>8
<1>2. Types'
  <2>1. inbox' \in Seq(Request)
    <3>1. <<>> \in Seq(Request)
      OBVIOUS
    <3>2. inbox \in Seq(Request)
      BY DEF Types
    <3> QED BY <1>1, <3>1, <3>2, Zenon
  <2> QED BY <1>1, <2>1 DEF Types
<1>3. ClientInv'
  <2> SUFFICES ASSUME NEW c \in Clients
               PROVE  (Numbered(c) /\ Queued(c) /\ Truthful(c) /\ Asked(c)
                       /\ Lag(c) /\ Success(c) /\ Current(c))'
    BY DEF ClientInv, Clients
  <2> QED BY <1>1, ClientKept, InboxKept DEF ClientInv
<1>4. ConfigInv'
  BY <1>1, ConfigKept
<1> QED BY <1>2, <1>3, <1>4

-----------------------------------------------------------------------------
(* A client sends a request.                                                *)

(* The record of a client with its fields replaced. *)
LEMMA ClientFields ==
    ASSUME NEW P, NEW N, NEW L, NEW K, NEW R,
           NEW x \in [pc : P, n : N, late : L, call : K, res : R],
           NEW p \in P, NEW n \in N, NEW l \in L, NEW k \in K, NEW r \in R
    PROVE  /\ [x EXCEPT !.pc = p, !.n = n, !.call = k] \in [pc : P, n : N, late : L, call : K, res : R]
           /\ [x EXCEPT !.pc = p, !.late = l, !.call = k, !.res = r]
                 \in [pc : P, n : N, late : L, call : K, res : R]
           /\ [x EXCEPT !.pc = p] \in [pc : P, n : N, late : L, call : K, res : R]
<1>1. [x EXCEPT !.pc = p, !.n = n, !.call = k] \in [pc : P, n : N, late : L, call : K, res : R]
  BY Zenon
<1>2. [x EXCEPT !.pc = p, !.late = l, !.call = k, !.res = r]
        \in [pc : P, n : N, late : L, call : K, res : R]
  BY Zenon
<1>3. [x EXCEPT !.pc = p] \in [pc : P, n : N, late : L, call : K, res : R]
  OBVIOUS
<1> QED BY <1>1, <1>2, <1>3

(* What Send changes, component by component. *)
LEMMA SendEffect ==
    ASSUME Types, NEW c \in Clients, NEW call \in Call, Send(c, call)
    PROVE  /\ Types'
           /\ cl'[c].pc = "wait" /\ cl'[c].n = cl[c].n + 1 /\ cl'[c].late = cl[c].late
           /\ cl'[c].call = call /\ cl'[c].res = cl[c].res
           /\ \A d \in Clients \ {c} : cl'[d] = cl[d] /\ hist'.seen[d] = hist.seen[d]
           /\ hist'.done = hist.done /\ hist'.answered = hist.answered
           /\ box' = box /\ smio' = smio
           /\ Len(inbox') = Len(inbox) + 1
           /\ \A i \in 1..Len(inbox) : inbox'[i] = inbox[i]
           /\ inbox'[Len(inbox) + 1] = [from |-> c, n |-> cl[c].n + 1, msg |-> Message(call)]
<1> DEFINE req == [from |-> c, n |-> cl[c].n + 1, msg |-> Message(call)]
<1>1. cl[c] \in ClientOf /\ cl[c].n \in Nat
  BY DEF Types, ClientOf
<1>2. req \in Request
  BY <1>1, MessageType DEF Request
<1>3. inbox' = Append(inbox, req) /\ inbox \in Seq(Request)
  BY DEF Send, Types
<1> HIDE DEF req
<1>4. /\ inbox' \in Seq(Request)
      /\ Len(inbox') = Len(inbox) + 1
      /\ \A i \in 1..Len(inbox) : inbox'[i] = inbox[i]
      /\ inbox'[Len(inbox) + 1] = req
  BY <1>2, <1>3
<1> DEFINE me == [cl[c] EXCEPT !.pc = "wait", !.n = cl[c].n + 1, !.call = call]
<1>5. /\ me \in ClientOf
      /\ me.pc = "wait" /\ me.n = cl[c].n + 1 /\ me.late = cl[c].late
      /\ me.call = call /\ me.res = cl[c].res
  <2>1. cl[c].n + 1 \in Nat /\ "wait" \in {"idle", "wait", "stop", "done"}
    BY <1>1
  <2>2. me \in ClientOf
    BY <1>1, <2>1, ClientFields DEF ClientOf
  <2>3. me.pc = "wait" /\ me.n = cl[c].n + 1 /\ me.late = cl[c].late
    BY <1>1 DEF ClientOf
  <2>4. me.call = call /\ me.res = cl[c].res
    BY <1>1 DEF ClientOf
  <2> QED BY <2>2, <2>3, <2>4
<1>6. cl' = [cl EXCEPT ![c] = me] /\ cl \in [Clients -> ClientOf]
  BY DEF Send, Types
<1> HIDE DEF me
<1>7. /\ cl' \in [Clients -> ClientOf]
      /\ cl'[c].pc = "wait" /\ cl'[c].n = cl[c].n + 1 /\ cl'[c].late = cl[c].late
      /\ cl'[c].call = call /\ cl'[c].res = cl[c].res
      /\ \A d \in Clients \ {c} : cl'[d] = cl[d]
  BY <1>5, <1>6
<1>8. /\ hist' \in [done : SUBSET (Clients \X (Nat \ {0})), answered : [Clients -> Seq(Nat)],
                    seen : [Clients -> SUBSET Int]]
      /\ hist'.done = hist.done /\ hist'.answered = hist.answered
      /\ \A d \in Clients \ {c} : hist'.seen[d] = hist.seen[d]
  <2>1. (IF call.fn = "read" THEN {param} ELSE {}) \in SUBSET Int
    BY DEF Types
  <2> QED BY <2>1, Zenon DEF Send, Types
<1>9. box' = box /\ smio' = smio /\ param' = param
  BY DEF Send
<1>10. Types'
  BY <1>4, <1>7, <1>8, <1>9 DEF Types
<1> QED BY <1>4, <1>7, <1>8, <1>9, <1>10 DEF req

\* A request that is sent is the last one in the mailbox of the SMIO.
LEMMA SendStep ==
    ASSUME ServiceInv, NEW c \in Clients, NEW call \in Call, call.fn # "none",
           cl[c].pc = "idle", Send(c, call)
    PROVE  Types' /\ ClientInv'
<1> DEFINE len == Len(inbox)
<1>1. Types /\ ClientInv
  BY DEF ServiceInv
<1>2. len \in Nat /\ inbox \in Seq(Request)
  BY <1>1 DEF Types
<1>3. \A d \in Clients : cl[d].n \in Nat /\ cl[d].late \in Nat /\ Answered(d) \in Nat
                         /\ Len(box[d]) \in Nat
  BY <1>1 DEF Types, ClientOf, Answered
<1>4. /\ cl'[c].pc = "wait" /\ cl'[c].n = cl[c].n + 1 /\ cl'[c].late = cl[c].late
      /\ cl'[c].call = call /\ cl'[c].res = cl[c].res
      /\ \A d \in Clients \ {c} : cl'[d] = cl[d] /\ hist'.seen[d] = hist.seen[d]
      /\ hist'.done = hist.done /\ hist'.answered = hist.answered
      /\ box' = box /\ smio' = smio
      /\ Len(inbox') = len + 1
      /\ \A i \in 1..len : inbox'[i] = inbox[i]
      /\ inbox'[len + 1] = [from |-> c, n |-> cl[c].n + 1, msg |-> Message(call)]
  BY <1>1, SendEffect
<1> HIDE DEF len
<1>5. ASSUME NEW d \in Clients
      PROVE  Queued(d)' /\ Asked(d)'
  <2>1. Queued(d) /\ Asked(d) /\ Answered(d)' = Answered(d) /\ Numbered(d)
    BY <1>1, <1>4 DEF ClientInv, Answered
  <2>2. CASE d # c
    <3>1. inbox'[len + 1].from # d /\ cl'[d] = cl[d]
      BY <1>4, <2>2
    <3>2. Queued(d)'
      <4>1. \A i \in 1..(len + 1) : inbox'[i].from = d => i \in 1..len /\ inbox[i] = inbox'[i]
        BY <1>2, <1>4, <3>1
      <4>2. \A i \in 1..(len + 1) : inbox'[i].from = d =>
               inbox'[i].n \in (Answered(d) + 1)..cl'[d].n
        BY <2>1, <3>1, <4>1 DEF Queued, len
      <4>3. \A i, j \in 1..(len + 1) : inbox'[i].from = d /\ inbox'[j].from = d /\ i < j =>
               inbox'[i].n < inbox'[j].n
        BY <2>1, <4>1 DEF Queued, len
      <4>4. smio'.pc # "done" => \A k \in (Answered(d) + 1)..cl'[d].n :
               \E i \in 1..(len + 1) : inbox'[i].from = d /\ inbox'[i].n = k
        <5> SUFFICES ASSUME smio'.pc # "done", NEW k \in (Answered(d) + 1)..cl'[d].n
                     PROVE  \E i \in 1..(len + 1) : inbox'[i].from = d /\ inbox'[i].n = k
          OBVIOUS
        <5>1. PICK i \in 1..len : inbox[i].from = d /\ inbox[i].n = k
          BY <1>4, <2>1, <3>1 DEF Queued, len
        <5> QED BY <1>2, <1>4, <5>1
      <4> QED BY <1>4, <2>1, <4>2, <4>3, <4>4 DEF Queued
    <3>3. Asked(d)'
      BY <1>2, <1>4, <2>1, <3>1 DEF Asked, len
    <3> QED BY <3>2, <3>3
  <2>3. CASE d = c
    <3>1. inbox'[len + 1].from = c /\ inbox'[len + 1].n = cl'[c].n
          /\ inbox'[len + 1].msg = Message(cl'[c].call)
      BY <1>4
    <3>2. \A i \in 1..len : inbox'[i].from = c => inbox'[i].n \in (Answered(c) + 1)..cl[c].n
      BY <1>2, <1>4, <2>1, <2>3 DEF Queued, len
    <3>3. Answered(c) <= cl[c].n
      BY <2>1, <2>3 DEF Numbered
    <3>4. Queued(c)'
      <4>1. \A i \in 1..(len + 1) : inbox'[i].from = c =>
                inbox'[i].n \in (Answered(c) + 1)..cl'[c].n
        BY <1>2, <1>3, <1>4, <3>1, <3>2, <3>3
      <4>2. \A i, j \in 1..(len + 1) : inbox'[i].from = c /\ inbox'[j].from = c /\ i < j =>
                inbox'[i].n < inbox'[j].n
        <5> SUFFICES ASSUME NEW i \in 1..(len + 1), NEW j \in 1..(len + 1),
                            inbox'[i].from = c, inbox'[j].from = c, i < j
                     PROVE  inbox'[i].n < inbox'[j].n
          OBVIOUS
        <5>1. i \in 1..len
          BY <1>2
        <5>2. CASE j \in 1..len
          BY <1>4, <2>1, <2>3, <5>1, <5>2 DEF Queued, len
        <5>3. CASE j = len + 1
          BY <1>2, <1>3, <1>4, <3>1, <3>2, <5>1, <5>3
        <5> QED BY <1>2, <5>2, <5>3
      <4>3. ASSUME smio'.pc # "done", NEW k \in (Answered(c) + 1)..cl'[c].n
            PROVE  \E i \in 1..(len + 1) : inbox'[i].from = c /\ inbox'[i].n = k
        <5>1. CASE k = cl'[c].n
          BY <1>2, <3>1, <5>1
        <5>2. CASE k # cl'[c].n
          <6>1. k \in (Answered(c) + 1)..cl[c].n
            <7>1. cl[c].n \in Nat /\ Answered(c) \in Nat /\ cl'[c].n = cl[c].n + 1
              BY <1>3, <1>4
            <7> QED BY <5>2, <7>1
          <6>2. PICK i \in 1..len : inbox[i].from = c /\ inbox[i].n = k
            BY <1>4, <2>1, <2>3, <4>3, <6>1 DEF Queued, len
          <6> QED BY <1>2, <1>4, <6>2
        <5> QED BY <5>1, <5>2
      <4> QED BY <1>4, <2>1, <2>3, <4>1, <4>2, <4>3 DEF Queued
    <3>5. Asked(c)'
      <4>1. cl'[c].n > 0 /\ cl'[c].call.fn # "none"
        BY <1>3, <1>4
      <4>2. ASSUME NEW i \in 1..(len + 1), inbox'[i].from = c, inbox'[i].n = cl'[c].n
            PROVE  inbox'[i].msg = Message(cl'[c].call)
        <5>1. i \notin 1..len
          BY <1>3, <1>4, <3>2, <4>2
        <5> QED BY <1>2, <3>1, <5>1
      <4> QED BY <1>4, <4>1, <4>2 DEF Asked
    <3> QED BY <2>3, <3>4, <3>5
  <2> QED BY <2>2, <2>3
<1>6. ASSUME NEW d \in Clients \ {c}
      PROVE  Numbered(d)' /\ Truthful(d)' /\ Lag(d)' /\ Success(d)' /\ Current(d)'
  BY <1>1, <1>4, ClientKept DEF ClientInv
<1>7. Numbered(c)' /\ Truthful(c)' /\ Lag(c)' /\ Success(c)' /\ Current(c)'
  <2>1. Numbered(c) /\ Truthful(c) /\ Lag(c) /\ Success(c)
    BY <1>1 DEF ClientInv
  <2>2. Numbered(c)'
    <3>1. Answered(c)' = Answered(c) /\ Taken(c)' = Taken(c)
      BY <1>4 DEF Answered, Taken
    <3>2. Returned(c) = cl[c].n /\ Returned(c)' = cl[c].n
      BY <1>3, <1>4 DEF Returned
    <3>3. Answered(c) <= cl'[c].n
      BY <1>3, <1>4, <2>1 DEF Numbered
    <3> QED BY <1>4, <2>1, <3>1, <3>2, <3>3 DEF Numbered
  <2>3. \A k \in 1..Len(box[c]) : box[c][k].for # cl'[c].n
    BY <1>3, <1>4, <2>1, SMTT(30) DEF Numbered, Taken
  <2>4. Truthful(c)'
    BY <1>4, <2>1, <2>3, Zenon DEF Truthful
  <2>5. Lag(c)' /\ Success(c)' /\ Current(c)'
    BY <1>4, <2>1 DEF Lag, Success, Current
  <2> QED BY <2>2, <2>4, <2>5
<1>8. ClientInv'
  BY <1>5, <1>6, <1>7 DEF ClientInv, Clients
<1> QED BY <1>1, <1>8, SendEffect, Zenon

-----------------------------------------------------------------------------
(***************************************************************************)
(* The steps that make or take a reply keep the invariant: a request is    *)
(* served, a call returns with a reply or with a timeout.                  *)
(***************************************************************************)

(* A call returns.                                                          *)

Fns  == {"write", "read", "func"}
Rets == {"none", "SUCCESS", "SERVER", "AGAIN", "CODE"}

(* What a client makes of a reply x: success only of a reply that says so,  *)
(* and the value of a read is that of the reply, if it has one.             *)
LEMMA ReplyResult ==
    ASSUME NEW fn \in Fns, NEW x \in Reply, x.data => x.code = PARAM_OK
    PROVE  /\ Result(fn, <<x>>).ret \in Rets /\ Result(fn, <<x>>).out \in Int
           /\ Result(fn, <<x>>).ret = "SUCCESS" => x.code = PARAM_OK
           /\ fn = "read" /\ x.data => Result(fn, <<x>>).out = x.val
<1>1. <<x>> # <<>> /\ <<x>>[1] = x /\ x.data \in BOOLEAN /\ x.val \in Int
  BY DEF Reply
<1>2. CASE fn = "write"
  <2>1. Result(fn, <<x>>) = param_client_write_gen(<<x>>)
    BY <1>2 DEF Result
  <2> QED BY <1>1, <1>2, <2>1 DEF param_client_write_gen, Rets
<1>3. CASE fn = "read"
  <2>1. Result(fn, <<x>>) = param_client_read_gen(<<x>>)
    BY <1>3 DEF Result
  <2> QED BY <1>1, <1>3, <2>1 DEF param_client_read_gen, Rets
<1>4. CASE fn = "func"
  <2>1. Result(fn, <<x>>) = bpm_func_exec(<<x>>)
    BY <1>4 DEF Result
  <2> QED BY <1>1, <1>4, <2>1 DEF bpm_func_exec, Rets
<1> QED BY <1>2, <1>3, <1>4 DEF Fns

(* What it makes of no reply: an error, but for bpm_func_exec. *)
LEMMA NoReplyResult ==
    ASSUME NEW fn \in Fns
    PROVE  /\ Result(fn, <<>>).ret \in Rets /\ Result(fn, <<>>).out \in Int
           /\ fn # "func" => Result(fn, <<>>).ret = "SERVER"
<1>1. CASE fn = "write"
  BY <1>1 DEF Result, param_client_write_gen, Rets
<1>2. CASE fn = "read"
  BY <1>2 DEF Result, param_client_read_gen, Rets
<1>3. CASE fn = "func"
  BY <1>3 DEF Result, bpm_func_exec, Rets
<1> QED BY <1>1, <1>2, <1>3 DEF Fns

(* What Return changes, component by component. *)
LEMMA ReturnEffect ==
    ASSUME Types, NEW c \in Clients, cl[c].call.fn \in Fns, NEW r, NEW late \in Nat,
           Return(c, r, late),
           (IF r = <<>> THEN 0 ELSE r[1].for) \in Nat,
           Result(cl[c].call.fn, r).ret \in Rets, Result(cl[c].call.fn, r).out \in Int
    PROVE  /\ cl' \in [Clients -> ClientOf]
           /\ \A d \in Clients \ {c} : cl'[d] = cl[d]
           /\ cl'[c].pc = AfterCall(c, Result(cl[c].call.fn, r).ret)
           /\ cl'[c].n = cl[c].n /\ cl'[c].late = cl[c].late + late
           /\ cl'[c].res = [fn |-> cl[c].call.fn, n |-> cl[c].n,
                            ret |-> Result(cl[c].call.fn, r).ret,
                            out |-> Result(cl[c].call.fn, r).out,
                            for |-> IF r = <<>> THEN 0 ELSE r[1].for]
<1> DEFINE got == Result(cl[c].call.fn, r)
           res == [fn |-> cl[c].call.fn, n |-> cl[c].n, ret |-> got.ret, out |-> got.out,
                   for |-> IF r = <<>> THEN 0 ELSE r[1].for]
           pc == AfterCall(c, got.ret)
           me == [cl[c] EXCEPT !.pc = pc, !.late = cl[c].late + late, !.call = NoCall, !.res = res]
<1>1. cl[c] \in ClientOf /\ cl[c].n \in Nat /\ cl[c].late + late \in Nat
  BY DEF Types, ClientOf
<1>2. res \in Res
  BY <1>1 DEF Res, Fns, Rets
<1>3. pc \in {"idle", "wait", "stop", "done"}
  BY DEF AfterCall
<1>4. NoCall \in Call
  BY DEF NoCall, Call
<1>5. cl' = [cl EXCEPT ![c] = me] /\ cl \in [Clients -> ClientOf]
  BY DEF Return, Types
<1> HIDE DEF res, pc, got
<1>6. me \in ClientOf
  BY <1>1, <1>2, <1>3, <1>4, ClientFields DEF ClientOf
<1>7. me.pc = pc /\ me.n = cl[c].n /\ me.late = cl[c].late + late /\ me.res = res
  BY <1>1 DEF ClientOf
<1> HIDE DEF me
<1>8. /\ cl' \in [Clients -> ClientOf]
      /\ \A d \in Clients \ {c} : cl'[d] = cl[d]
      /\ cl'[c] = me
  BY <1>5, <1>6
<1> QED BY <1>7, <1>8 DEF res, pc, got

\* A reply that is taken is the oldest one that was not seen.
LEMMA ReceiveStep ==
    ASSUME ServiceInv, NEW c \in Clients, Receive(c)
    PROVE  /\ Types' /\ ClientInv'
           /\ cl'[c].n = cl[c].n /\ cl'[c].late = cl[c].late
           /\ cl'[c].pc = AfterCall(c, cl'[c].res.ret)
           /\ cl'[c].res.n = cl[c].n /\ cl'[c].res.fn = cl[c].call.fn
           /\ \A d \in Clients \ {c} : cl'[d] = cl[d]
<1> DEFINE x == Head(box[c])
           got == Result(cl[c].call.fn, <<x>>)
<1>1. Types /\ ClientInv
  BY DEF ServiceInv
<1>2. /\ box[c] \in Seq(Reply) /\ box[c] # <<>> /\ cl[c].pc = "wait"
      /\ cl[c].n \in Nat /\ cl[c].late \in Nat /\ Answered(c) \in Nat
  BY <1>1 DEF Receive, Types, ClientOf, Answered
<1>3. Len(box[c]) \in Nat /\ Len(box[c]) > 0 /\ x = box[c][1] /\ x \in Reply
  BY <1>2
<1>4. cl[c].call.fn \in Fns
  <2>1. cl[c].call.fn \in {"none", "write", "read", "func"}
    BY <1>1 DEF Types, ClientOf, Call
  <2> QED BY <1>1, <1>2, <2>1 DEF ClientInv, Asked, Fns
<1>5. Numbered(c) /\ Truthful(c) /\ Queued(c)
  BY <1>1 DEF ClientInv
<1> HIDE DEF x
<1>6. /\ x.data => x.code = PARAM_OK
      /\ x.code = PARAM_OK => <<c, x.for>> \in hist.done
      /\ cl[c].call.fn = "read" /\ x.for = cl[c].n /\ x.code = PARAM_OK
           => x.data /\ x.val \in hist.seen[c]
  <2>1. 1 \in 1..Len(box[c])
    BY <1>3
  <2> QED BY <1>2, <1>3, <1>5, <2>1, Zenon DEF Truthful
<1>7. x.for = cl[c].n - cl[c].late /\ x.for \in Nat /\ x.for = Taken(c) + 1
  <2>1. Taken(c) \in Int /\ x.for = Taken(c) + 1 /\ Taken(c) + cl[c].late = cl[c].n - 1
    <3>1. Taken(c) = Answered(c) - Len(box[c]) /\ Returned(c) = cl[c].n - 1
      BY <1>2 DEF Taken, Returned
    <3>2. Taken(c) + cl[c].late = Returned(c) /\ box[c][1].for = Taken(c) + 1
      BY <1>3, <1>5 DEF Numbered
    <3> QED BY <1>2, <1>3, <3>1, <3>2
  <2>2. x.for \in Nat
    BY <1>3 DEF Reply
  <2> QED BY <1>2, <2>1, <2>2
<1>8. /\ got.ret \in Rets /\ got.out \in Int
      /\ got.ret = "SUCCESS" => x.code = PARAM_OK
      /\ cl[c].call.fn = "read" /\ x.data => got.out = x.val
  BY <1>3, <1>4, <1>6, ReplyResult
<1>9. /\ cl' \in [Clients -> ClientOf]
      /\ \A d \in Clients \ {c} : cl'[d] = cl[d]
      /\ cl'[c].pc = AfterCall(c, got.ret)
      /\ cl'[c].n = cl[c].n /\ cl'[c].late = cl[c].late
      /\ cl'[c].res = [fn |-> cl[c].call.fn, n |-> cl[c].n, ret |-> got.ret, out |-> got.out,
                       for |-> x.for]
  <2>1. <<x>> # <<>> /\ <<x>>[1] = x /\ Return(c, <<x>>, 0)
    BY DEF Receive, x
  <2>2. (IF <<x>> = <<>> THEN 0 ELSE <<x>>[1].for) = x.for
    BY <2>1
  <2>3. (IF <<x>> = <<>> THEN 0 ELSE <<x>>[1].for) \in Nat
    BY <1>7, <2>2
  <2>4. /\ cl' \in [Clients -> ClientOf]
        /\ \A d \in Clients \ {c} : cl'[d] = cl[d]
        /\ cl'[c].pc = AfterCall(c, got.ret)
        /\ cl'[c].n = cl[c].n /\ cl'[c].late = cl[c].late + 0
        /\ cl'[c].res = [fn |-> cl[c].call.fn, n |-> cl[c].n, ret |-> got.ret, out |-> got.out,
                         for |-> IF <<x>> = <<>> THEN 0 ELSE <<x>>[1].for]
    BY <1>1, <1>4, <1>8, <2>1, <2>3, 0 \in Nat, ReturnEffect, Zenon
  <2> HIDE DEF got
  <2> QED BY <1>2, <2>2, <2>4
<1> HIDE DEF got
<1>10. /\ cl'[c].res.fn = cl[c].call.fn /\ cl'[c].res.n = cl[c].n /\ cl'[c].res.ret = got.ret
       /\ cl'[c].res.out = got.out /\ cl'[c].res.for = x.for /\ cl'[c].pc # "wait"
  BY <1>9 DEF AfterCall
<1>11. /\ box' \in [Clients -> Seq(Reply)] /\ \A d \in Clients \ {c} : box'[d] = box[d]
       /\ box'[c] = Tail(box[c])
       /\ Len(box'[c]) = Len(box[c]) - 1
       /\ \A k \in 1..Len(box'[c]) : k + 1 \in 1..Len(box[c]) /\ box'[c][k] = box[c][k + 1]
  <2>1. Tail(box[c]) \in Seq(Reply) /\ Len(Tail(box[c])) = Len(box[c]) - 1
        /\ \A k \in 1..(Len(box[c]) - 1) : Tail(box[c])[k] = box[c][k + 1]
    BY <1>2
  <2>2. /\ box' \in [Clients -> Seq(Reply)] /\ box'[c] = Tail(box[c])
        /\ \A d \in Clients \ {c} : box'[d] = box[d]
    BY <1>1, <2>1 DEF Receive, Types
  <2> QED BY <1>3, <2>1, <2>2
<1>12. UNCHANGED <<smio, param, inbox, hist>>
  BY DEF Receive
<1>13. Types'
  BY <1>1, <1>9, <1>11, <1>12 DEF Types
<1>14. ASSUME NEW d \in Clients \ {c}
       PROVE  (Numbered(d) /\ Queued(d) /\ Truthful(d) /\ Asked(d)
               /\ Lag(d) /\ Success(d) /\ Current(d))'
  BY <1>1, <1>9, <1>11, <1>12, ClientKept, InboxKept DEF ClientInv
<1>15. (Numbered(c) /\ Queued(c) /\ Truthful(c) /\ Asked(c)
        /\ Lag(c) /\ Success(c) /\ Current(c))'
  <2>1. Numbered(c)'
    <3>1. Answered(c)' = Answered(c) /\ Taken(c)' = Taken(c) + 1 /\ Taken(c) \in Int
      <4>1. Answered(c)' = Answered(c)
        BY <1>12 DEF Answered
      <4>2. Taken(c)' = Answered(c)' - Len(box'[c])
        BY DEF Taken
      <4>3. Taken(c) = Answered(c) - Len(box[c])
        BY DEF Taken
      <4> QED BY <1>2, <1>3, <1>11, <4>1, <4>2, <4>3
    <3>2. Returned(c)' = cl[c].n
      BY <1>9, <1>10 DEF Returned
    <3>3. \A k \in 1..Len(box'[c]) : box'[c][k].for = Taken(c)' + k
      BY <1>3, <1>5, <1>11, <3>1 DEF Numbered
    <3>4. Taken(c)' + cl'[c].late = Returned(c)' /\ 0 <= Taken(c)'
      BY <1>2, <1>5, <1>7, <1>9, <3>1, <3>2 DEF Numbered
    <3> QED BY <1>5, <1>9, <1>12, <3>1, <3>3, <3>4 DEF Numbered
  <2>2. Queued(c)'
    BY <1>5, <1>9, <1>12 DEF Queued, Answered
  <2>3. Truthful(c)'
    BY <1>5, <1>10, <1>11, <1>12, Zenon DEF Truthful
  <2>4. Asked(c)'
    BY <1>10 DEF Asked
  <2>5. Lag(c)'
    BY <1>2, <1>7, <1>9, <1>10 DEF Lag
  <2>6. Success(c)'
    BY <1>6, <1>8, <1>10, <1>12 DEF Success
  <2>7. Current(c)'
    <3> SUFFICES ASSUME cl'[c].res.fn = "read", cl'[c].res.ret = "SUCCESS", cl'[c].late = 0
                 PROVE  cl'[c].res.out \in hist'.seen[c]
      BY DEF Current
    <3>1. x.for = cl[c].n /\ x.code = PARAM_OK
      BY <1>2, <1>7, <1>8, <1>9, <1>10
    <3> QED BY <1>6, <1>8, <1>10, <1>12, <3>1
  <2> QED BY <2>1, <2>2, <2>3, <2>4, <2>5, <2>6, <2>7
<1>16. ClientInv'
  BY <1>14, <1>15 DEF ClientInv, Clients
<1> QED BY <1>9, <1>10, <1>13, <1>16

\* A call that gives up leaves one more reply to come.
LEMMA TimeoutStep ==
    ASSUME ServiceInv, NEW c \in Clients, Timeout(c)
    PROVE  /\ Types' /\ ClientInv'
           /\ cl'[c].n = cl[c].n /\ cl'[c].late = cl[c].late + 1
           /\ cl'[c].pc = AfterCall(c, cl'[c].res.ret)
           /\ cl'[c].res.n = cl[c].n /\ cl'[c].res.fn = cl[c].call.fn
           /\ cl'[c].res.fn # "func" => cl'[c].res.ret = "SERVER"
           /\ \A d \in Clients \ {c} : cl'[d] = cl[d]
<1> DEFINE got == Result(cl[c].call.fn, <<>>)
<1>1. Types /\ ClientInv
  BY DEF ServiceInv
<1>2. /\ box[c] \in Seq(Reply) /\ cl[c].pc = "wait"
      /\ cl[c].n \in Nat /\ cl[c].late \in Nat /\ Answered(c) \in Nat
  BY <1>1 DEF Timeout, Types, ClientOf, Answered
<1>4. cl[c].call.fn \in Fns
  <2>1. cl[c].call.fn \in {"none", "write", "read", "func"}
    BY <1>1 DEF Types, ClientOf, Call
  <2> QED BY <1>1, <1>2, <2>1 DEF ClientInv, Asked, Fns
<1>5. Numbered(c) /\ Truthful(c) /\ Queued(c)
  BY <1>1 DEF ClientInv
<1>8. /\ got.ret \in Rets /\ got.out \in Int
      /\ cl[c].call.fn # "func" => got.ret = "SERVER"
  BY <1>4, NoReplyResult
<1>9. /\ cl' \in [Clients -> ClientOf]
      /\ \A d \in Clients \ {c} : cl'[d] = cl[d]
      /\ cl'[c].pc = AfterCall(c, got.ret)
      /\ cl'[c].n = cl[c].n /\ cl'[c].late = cl[c].late + 1
      /\ cl'[c].res = [fn |-> cl[c].call.fn, n |-> cl[c].n, ret |-> got.ret, out |-> got.out,
                       for |-> 0]
  <2>1. Return(c, <<>>, 1)
    BY DEF Timeout
  <2>2. (IF <<>> = <<>> THEN 0 ELSE <<>>[1].for) = 0
    OBVIOUS
  <2> HIDE DEF got
  <2> QED BY <1>1, <1>4, <1>8, <2>1, <2>2, ReturnEffect DEF got
<1> HIDE DEF got
<1>10. /\ cl'[c].res.fn = cl[c].call.fn /\ cl'[c].res.n = cl[c].n /\ cl'[c].res.ret = got.ret
       /\ cl'[c].res.out = got.out /\ cl'[c].res.for = 0 /\ cl'[c].pc # "wait"
  BY <1>9 DEF AfterCall
<1>12. UNCHANGED <<smio, param, inbox, box, hist>>
  BY DEF Timeout
<1>13. Types'
  BY <1>1, <1>9, <1>12 DEF Types
<1>14. ASSUME NEW d \in Clients \ {c}
       PROVE  (Numbered(d) /\ Queued(d) /\ Truthful(d) /\ Asked(d)
               /\ Lag(d) /\ Success(d) /\ Current(d))'
  BY <1>1, <1>9, <1>12, ClientKept, InboxKept DEF ClientInv
<1>15. (Numbered(c) /\ Queued(c) /\ Truthful(c) /\ Asked(c)
        /\ Lag(c) /\ Success(c) /\ Current(c))'
  <2>1. Numbered(c)'
    <3>1. Answered(c)' = Answered(c) /\ Taken(c)' = Taken(c) /\ Taken(c) \in Int
      BY <1>2, <1>12 DEF Answered, Taken
    <3>2. Returned(c)' = cl[c].n /\ Returned(c) = cl[c].n - 1
      BY <1>2, <1>9, <1>10 DEF Returned
    <3>3. Taken(c)' + cl'[c].late = Returned(c)'
      <4>1. Taken(c) + cl[c].late = cl[c].n - 1
        BY <1>5, <3>2 DEF Numbered
      <4>2. cl'[c].late = cl[c].late + 1 /\ cl[c].late \in Nat /\ cl[c].n \in Nat
        BY <1>2, <1>9
      <4> QED BY <3>1, <3>2, <4>1, <4>2
    <3> QED BY <1>5, <1>9, <1>12, <3>1, <3>3 DEF Numbered
  <2>2. Queued(c)'
    BY <1>5, <1>9, <1>12 DEF Queued, Answered
  <2>3. Truthful(c)'
    BY <1>5, <1>10, <1>12 DEF Truthful
  <2>4. Asked(c)'
    BY <1>10 DEF Asked
  <2>5. Lag(c)'
    BY <1>10 DEF Lag
  <2>6. Success(c)'
    BY <1>8, <1>10 DEF Success
  <2>7. Current(c)'
    BY <1>8, <1>10 DEF Current
  <2> QED BY <2>1, <2>2, <2>3, <2>4, <2>5, <2>6, <2>7
<1>16. ClientInv'
  BY <1>14, <1>15 DEF ClientInv, Clients
<1> QED BY <1>8, <1>9, <1>10, <1>13, <1>16

-----------------------------------------------------------------------------
(* The SMIO serves a request.                                               *)

(* What Serve changes, component by component: there is one reply r.        *)
LEMMA ServeEffect ==
    ASSUME Types, NEW ok \in BOOLEAN, Serve(ok), inbox[1].n > 0
    PROVE  \E r \in Reply :
              LET c == inbox[1].from
                  n == inbox[1].n
                  msg == inbox[1].msg
              IN  /\ r.for = n
                  /\ r.data => r.code = PARAM_OK
                  /\ cl[c].call.fn = "read" /\ r.code = PARAM_OK
                       /\ msg[1].val = PARAM /\ msg[2].val = READ_MODE
                       => r.data /\ r.val \in hist'.seen[c]
                  /\ box' = [box EXCEPT ![c] = Append(box[c], r)]
                  /\ hist'.answered = [hist.answered EXCEPT ![c] = Append(hist.answered[c], n)]
                  /\ hist'.done = hist.done \cup (IF r.code = PARAM_OK THEN {<<c, n>>} ELSE {})
                  /\ hist'.seen \in [Clients -> SUBSET Int]
                  /\ \A d \in Clients : hist.seen[d] \subseteq hist'.seen[d]
                  /\ param' \in Int
                  /\ inbox # <<>> /\ inbox' = Tail(inbox) /\ smio.pc = "drain"
                  /\ UNCHANGED <<smio, cl>>
                  /\ hist' = [done |-> hist'.done, answered |-> hist'.answered, seen |-> hist'.seen]
<1> DEFINE req == Head(inbox)
           msg == req.msg
           reply == msg_handle_mlm_request(smio.table, msg,
                        IF Runs(smio.table, msg) THEN Returns(msg, ok) ELSE -1)
           writes == Performed(msg, ok) /\ msg[1].val = PARAM /\ msg[2].val = WRITE_MODE
<1>1. /\ smio.pc = "drain" /\ inbox # <<>>
      /\ inbox' = Tail(inbox)
      /\ param' = IF writes THEN msg[3].val ELSE param
      /\ box' = [box EXCEPT ![req.from] = @ \o
                   [i \in DOMAIN reply |-> [code |-> reply[i].code, data |-> reply[i].data,
                                            val |-> param, for |-> req.n]]]
      /\ hist' = [hist EXCEPT
           !.done = IF Performed(msg, ok) THEN @ \cup {<<req.from, req.n>>} ELSE @,
           !.answered[req.from] = @ \o [i \in DOMAIN reply |-> req.n],
           !.seen = [c \in Clients |-> IF cl[c].call.fn = "read" THEN @[c] \cup {param'} ELSE @[c]]]
      /\ UNCHANGED <<smio, cl>>
  BY DEF Serve, ServeWith
<1>2. PICK code \in Int, data \in BOOLEAN :
         /\ reply = <<[code |-> code, data |-> data]>>
         /\ code = PARAM_OK <=> Performed(msg, ok)
         /\ data => code = PARAM_OK
         /\ code = PARAM_OK /\ msg[1].val = PARAM /\ msg[2].val = READ_MODE => data
  BY OneReply, Zenon DEF Performed
<1>3. inbox \in Seq(Request) /\ param \in Int /\ req = inbox[1] /\ req \in Request
  <2>1. inbox \in Seq(Request) /\ inbox # <<>> /\ param \in Int
    BY <1>1 DEF Types
  <2>2. Len(inbox) > 0 /\ Len(inbox) \in Nat
    BY <2>1
  <2> QED BY <2>1, <2>2
<1>4. req.from \in Clients /\ req.n \in Nat /\ msg \in Msgs /\ req.n > 0
  BY <1>3 DEF Request
<1>5. param' = IF writes THEN msg[3].val ELSE param
  BY <1>1
<1>6. writes => msg[1].val = PARAM /\ msg[2].val = WRITE_MODE
  OBVIOUS
<1> HIDE DEF reply, writes, msg
<1>7. param' \in Int /\ (msg[2].val = READ_MODE => param' = param)
  <2>1. CASE writes
    <3>1. Len(msg) >= 3 /\ msg \in Seq([size : Nat, val : Int])
      BY <1>4, <1>6, <2>1 DEF Msgs
    <3>2. 3 \in 1..Len(msg)
      BY <3>1
    <3>3. msg[3] \in [size : Nat, val : Int]
      BY <3>1, <3>2, Element, Zenon
    <3> QED BY <1>5, <1>6, <2>1, <3>3 DEF READ_MODE, WRITE_MODE
  <2>2. CASE ~writes
    BY <1>3, <1>5, <2>2
  <2> QED BY <2>1, <2>2
<1> DEFINE r == [code |-> code, data |-> data, val |-> param, for |-> req.n]
<1>8. r \in Reply
  BY <1>3, <1>4 DEF Reply
<1>9. DOMAIN reply = {1} /\ reply[1].code = code /\ reply[1].data = data
  BY <1>2
<1>10. /\ [i \in DOMAIN reply |-> [code |-> reply[i].code, data |-> reply[i].data,
                                  val |-> param, for |-> req.n]] = <<r>>
      /\ [i \in DOMAIN reply |-> req.n] = <<req.n>>
  BY <1>9
<1>11. box' = [box EXCEPT ![req.from] = Append(box[req.from], r)]
  <2>1. box[req.from] \in Seq(Reply)
    BY <1>4 DEF Types
  <2>2. box[req.from] \o <<r>> = Append(box[req.from], r)
    BY <1>8, <2>1
  <2> QED BY <1>1, <1>10, <2>2
<1>12. /\ hist'.done = IF Performed(msg, ok) THEN hist.done \cup {<<req.from, req.n>>} ELSE hist.done
       /\ hist'.answered = [hist.answered EXCEPT ![req.from] =
                               hist.answered[req.from] \o [i \in DOMAIN reply |-> req.n]]
       /\ hist'.seen = [c \in Clients |-> IF cl[c].call.fn = "read"
                                         THEN hist.seen[c] \cup {param'} ELSE hist.seen[c]]
       /\ hist' = [done |-> hist'.done, answered |-> hist'.answered, seen |-> hist'.seen]
  BY <1>1, Zenon DEF Types
<1>13. hist'.answered = [hist.answered EXCEPT ![req.from] = Append(hist.answered[req.from], req.n)]
  <2>1. hist.answered[req.from] \in Seq(Nat)
    BY <1>4 DEF Types
  <2>2. hist.answered[req.from] \o <<req.n>> = Append(hist.answered[req.from], req.n)
    BY <1>4, <2>1
  <2> QED BY <1>10, <1>12, <2>2
<1>14. /\ hist'.seen \in [Clients -> SUBSET Int]
       /\ \A d \in Clients : hist.seen[d] \subseteq hist'.seen[d]
       /\ cl[req.from].call.fn = "read" => param' \in hist'.seen[req.from]
  BY <1>4, <1>7, <1>12 DEF Types
<1>15. hist'.done = hist.done \cup (IF code = PARAM_OK THEN {<<req.from, req.n>>} ELSE {})
  BY <1>2, <1>12
<1>16. /\ r.for = req.n /\ (r.data => r.code = PARAM_OK)
       /\ r.code = code /\ r.data = data /\ r.val = param
  BY <1>2
<1>17. cl[req.from].call.fn = "read" /\ r.code = PARAM_OK
         /\ msg[1].val = PARAM /\ msg[2].val = READ_MODE
         => r.data /\ r.val \in hist'.seen[req.from]
  BY <1>2, <1>7, <1>14, <1>16
<1> HIDE DEF r
<1> QED BY <1>1, <1>3, <1>7, <1>8, <1>11, <1>12, <1>13, <1>14, <1>15, <1>16, <1>17, Zenon DEF msg

\* A request that is served is performed at most once and answered once.
LEMMA ServeStep ==
    ASSUME ServiceInv, NEW ok \in BOOLEAN, Serve(ok)
    PROVE  ServiceInv'
<1> DEFINE len == Len(inbox)
<1>1. Types /\ ClientInv /\ ConfigInv
  BY DEF ServiceInv
<1>2. inbox # <<>> /\ smio.pc = "drain" /\ inbox \in Seq(Request)
  BY <1>1 DEF Serve, ServeWith, Types
<1>3. len \in Nat /\ len > 0 /\ 1 \in 1..len
  BY <1>2
<1>4. inbox[1] \in Request
  BY <1>2, <1>3, Element
<1>5. PICK c \in Clients, n \in Nat : c = inbox[1].from /\ n = inbox[1].n
  BY <1>4 DEF Request
<1> HIDE DEF len
<1>6. \A d \in Clients : /\ cl[d].n \in Nat /\ Answered(d) \in Nat
                         /\ Numbered(d) /\ Queued(d) /\ Truthful(d) /\ Asked(d)
  BY <1>1 DEF Types, ClientOf, Answered, ClientInv
<1>7. n = Answered(c) + 1 /\ n <= cl[c].n
  <2>1. n \in (Answered(c) + 1)..cl[c].n
    BY <1>3, <1>5, <1>6 DEF Queued, len
  <2>2. Answered(c) + 1 \in (Answered(c) + 1)..cl[c].n
    BY <1>5, <1>6, <2>1
  <2>3. PICK i \in 1..len : inbox[i].from = c /\ inbox[i].n = Answered(c) + 1
    BY <1>2, <1>5, <1>6, <2>2 DEF Queued, len
  <2>4. i > 1 => n < inbox[i].n
    BY <1>3, <1>5, <1>6, <2>3 DEF Queued, len
  <2> QED BY <1>3, <1>5, <1>6, <2>1, <2>3, <2>4
<1>8. PICK r \in Reply :
        /\ r.for = n
        /\ r.data => r.code = PARAM_OK
        /\ cl[c].call.fn = "read" /\ r.code = PARAM_OK
             /\ inbox[1].msg[1].val = PARAM /\ inbox[1].msg[2].val = READ_MODE
             => r.data /\ r.val \in hist'.seen[c]
        /\ box' = [box EXCEPT ![c] = Append(box[c], r)]
        /\ hist'.answered = [hist.answered EXCEPT ![c] = Append(hist.answered[c], n)]
        /\ hist'.done = hist.done \cup (IF r.code = PARAM_OK THEN {<<c, n>>} ELSE {})
        /\ hist'.seen \in [Clients -> SUBSET Int]
        /\ \A d \in Clients : hist.seen[d] \subseteq hist'.seen[d]
        /\ param' \in Int
        /\ inbox' = Tail(inbox)
        /\ UNCHANGED <<smio, cl>>
        /\ hist' = [done |-> hist'.done, answered |-> hist'.answered, seen |-> hist'.seen]
  <2>1. inbox[1].n > 0
    BY <1>5, <1>6, <1>7
  <2> QED BY <1>1, <1>5, <2>1, ServeEffect, Zenon
<1>9. /\ inbox' \in Seq(Request) /\ Len(inbox') = len - 1
      /\ \A i \in 1..(len - 1) : i + 1 \in 1..len /\ inbox'[i] = inbox[i + 1]
  BY <1>2, <1>3, <1>8, TailSeq DEF len
<1>10. /\ box' \in [Clients -> Seq(Reply)]
       /\ \A d \in Clients \ {c} : box'[d] = box[d] /\ hist'.answered[d] = hist.answered[d]
       /\ box'[c] = Append(box[c], r) /\ hist'.answered[c] = Append(hist.answered[c], n)
       /\ hist'.answered \in [Clients -> Seq(Nat)]
  <2>1. box[c] \in Seq(Reply) /\ hist.answered[c] \in Seq(Nat)
    BY <1>1, <1>5 DEF Types
  <2>2. Append(box[c], r) \in Seq(Reply) /\ Append(hist.answered[c], n) \in Seq(Nat)
    BY <1>5, <2>1, AppendSeq
  <2>3. box \in [Clients -> Seq(Reply)] /\ hist.answered \in [Clients -> Seq(Nat)]
    BY <1>1 DEF Types
  <2>4. /\ box' \in [Clients -> Seq(Reply)] /\ box'[c] = Append(box[c], r)
        /\ \A d \in Clients \ {c} : box'[d] = box[d]
    <3>1. box' = [box EXCEPT ![c] = Append(box[c], r)]
      BY <1>8
    <3> QED BY <2>2, <2>3, <3>1
  <2>5. /\ hist'.answered \in [Clients -> Seq(Nat)]
        /\ hist'.answered[c] = Append(hist.answered[c], n)
        /\ \A d \in Clients \ {c} : hist'.answered[d] = hist.answered[d]
    <3>1. hist'.answered = [hist.answered EXCEPT ![c] = Append(hist.answered[c], n)]
      BY <1>8
    <3> QED BY <2>2, <2>3, <3>1
  <2> QED BY <2>4, <2>5
<1>11. hist.done \subseteq hist'.done /\ (r.code = PARAM_OK => <<c, n>> \in hist'.done)
  BY <1>8
<1>12. Types'
  <2>1. hist'.done \in SUBSET (Clients \X (Nat \ {0}))
    <3>1. <<c, n>> \in Clients \X (Nat \ {0})
      BY <1>5, <1>6, <1>7
    <3>2. hist.done \subseteq Clients \X (Nat \ {0})
      BY <1>1 DEF Types
    <3> QED BY <1>8, <3>1, <3>2
  <2>2. hist' \in [done : SUBSET (Clients \X (Nat \ {0})), answered : [Clients -> Seq(Nat)],
                   seen : [Clients -> SUBSET Int]]
    BY <1>8, <1>10, <2>1, Zenon
  <2> QED BY <1>1, <1>8, <1>9, <1>10, <2>2 DEF Types
<1>13. ASSUME NEW d \in Clients
       PROVE  Asked(d)'
  BY <1>6, <1>8, <1>9 DEF Asked, len
<1>14. ASSUME NEW d \in Clients
       PROVE  Queued(d)'
  <2>1. Answered(d)' = IF d = c THEN Answered(d) + 1 ELSE Answered(d)
    <3>1. CASE d = c
      <4>1. hist.answered[c] \in Seq(Nat) /\ hist'.answered[c] = Append(hist.answered[c], n)
        BY <1>1, <1>10 DEF Types
      <4> QED BY <3>1, <4>1, AppendSeq DEF Answered
    <3>2. CASE d # c
      BY <1>10, <3>2 DEF Answered
    <3> QED BY <3>1, <3>2
  <2>2. \A i \in 1..(len - 1) : inbox'[i].from = d =>
           inbox'[i].n \in (Answered(d)' + 1)..cl'[d].n
    <3> SUFFICES ASSUME NEW i \in 1..(len - 1), inbox'[i].from = d
                 PROVE  inbox'[i].n \in (Answered(d)' + 1)..cl'[d].n
      OBVIOUS
    <3>1. i + 1 \in 1..len /\ inbox[i + 1].from = d /\ inbox'[i].n = inbox[i + 1].n
      BY <1>9
    <3>2. inbox[i + 1].n \in (Answered(d) + 1)..cl[d].n
      BY <1>6, <3>1 DEF Queued, len
    <3>3. CASE d = c
      <4>1. n < inbox[i + 1].n
        <5>1. inbox[1].from = d /\ inbox[1].n = n /\ 1 < i + 1
          BY <1>3, <1>5, <3>3
        <5> QED BY <1>3, <1>6, <3>1, <5>1 DEF Queued, len
      <4>2. Answered(d)' = Answered(d) + 1 /\ n = Answered(d) + 1 /\ cl'[d].n = cl[d].n
            /\ Answered(d) \in Nat /\ cl[d].n \in Nat
        BY <1>6, <1>7, <1>8, <2>1, <3>3
      <4> QED BY <3>1, <3>2, <4>1, <4>2
    <3>4. CASE d # c
      BY <1>8, <2>1, <3>1, <3>2, <3>4, Zenon
    <3> QED BY <3>3, <3>4
  <2>3. \A i, j \in 1..(len - 1) : inbox'[i].from = d /\ inbox'[j].from = d /\ i < j =>
           inbox'[i].n < inbox'[j].n
    <3> SUFFICES ASSUME NEW i \in 1..(len - 1), NEW j \in 1..(len - 1),
                        inbox'[i].from = d, inbox'[j].from = d, i < j
                 PROVE  inbox'[i].n < inbox'[j].n
      OBVIOUS
    <3>1. i + 1 \in 1..len /\ inbox'[i] = inbox[i + 1] /\ j + 1 \in 1..len /\ inbox'[j] = inbox[j + 1]
          /\ i + 1 < j + 1
      BY <1>9
    <3>2. \A k, m \in 1..len : inbox[k].from = d /\ inbox[m].from = d /\ k < m =>
            inbox[k].n < inbox[m].n
      BY <1>6, Zenon DEF Queued, len
    <3>3. inbox[i + 1].from = d /\ inbox[j + 1].from = d
      BY <3>1
    <3>4. inbox[i + 1].n < inbox[j + 1].n
      BY <3>1, <3>2, <3>3, Zenon
    <3> QED BY <3>1, <3>4
  <2>4. ASSUME NEW k \in (Answered(d)' + 1)..cl'[d].n
        PROVE  \E i \in 1..(len - 1) : inbox'[i].from = d /\ inbox'[i].n = k
    <3>1. k \in (Answered(d) + 1)..cl[d].n /\ (d = c => k # n)
      BY <1>6, <1>7, <1>8, <2>1
    <3>2. PICK i \in 1..len : inbox[i].from = d /\ inbox[i].n = k
      BY <1>2, <1>6, <3>1 DEF Queued, len
    <3>3. i # 1
      BY <1>5, <3>1, <3>2
    <3>4. i - 1 \in 1..(len - 1) /\ (i - 1) + 1 = i
      BY <1>3, <3>3
    <3> QED BY <1>9, <3>2, <3>4
  <2> QED BY <1>9, <2>2, <2>3, <2>4, Zenon DEF Queued
<1>15. ASSUME NEW d \in Clients \ {c}
       PROVE  Numbered(d)' /\ Truthful(d)' /\ Lag(d)' /\ Success(d)' /\ Current(d)'
  BY <1>1, <1>8, <1>10, <1>11, ClientKept, Zenon DEF ClientInv
<1>16. Lag(c)' /\ Success(c)' /\ Current(c)'
  BY <1>1, <1>5, <1>8, <1>11 DEF ClientInv, Lag, Success, Current
<1>17. box[c] \in Seq(Reply) /\ hist.answered[c] \in Seq(Nat)
  BY <1>1, <1>5 DEF Types
<1>18. /\ Len(hist'.answered[c]) = Answered(c) + 1
       /\ \A k \in 1..Answered(c) : hist'.answered[c][k] = hist.answered[c][k]
       /\ hist'.answered[c][Answered(c) + 1] = n
  <2>1. hist'.answered[c] = Append(hist.answered[c], n) /\ hist.answered[c] \in Seq(Nat)
    BY <1>10, <1>17
  <2> QED BY <2>1, AppendSeq DEF Answered
<1>19. /\ Len(box'[c]) = Len(box[c]) + 1 /\ Len(box[c]) \in Nat
       /\ \A k \in 1..Len(box[c]) : box'[c][k] = box[c][k]
       /\ box'[c][Len(box[c]) + 1] = r
  BY <1>10, <1>17, AppendSeq
<1>20. Numbered(c)'
  <2>1. Answered(c)' = Answered(c) + 1 /\ Taken(c)' = Taken(c) /\ Taken(c) = Answered(c) - Len(box[c])
    <3>1. Answered(c)' = Answered(c) + 1
      BY <1>18 DEF Answered
    <3>2. Taken(c)' = Answered(c)' - Len(box'[c]) /\ Taken(c) = Answered(c) - Len(box[c])
      BY DEF Taken
    <3>3. Answered(c) \in Nat
      BY <1>5, <1>6
    <3> QED BY <1>19, <3>1, <3>2, <3>3
  <2>2. \A k \in 1..(Answered(c) + 1) : hist'.answered[c][k] = k
    <3>1. ASSUME NEW k \in 1..Answered(c)
          PROVE  hist'.answered[c][k] = k
      BY <1>6, <1>18, Zenon DEF Numbered
    <3> QED BY <1>6, <1>7, <1>18, <3>1
  <2>3. \A k \in 1..(Len(box[c]) + 1) : box'[c][k].for = Taken(c) + k
    <3>1. ASSUME NEW k \in 1..Len(box[c])
          PROVE  box'[c][k].for = Taken(c) + k
      BY <1>5, <1>6, <1>19, Zenon DEF Numbered
    <3>2. r.for = Taken(c) + (Len(box[c]) + 1)
      <4>1. r.for = Answered(c) + 1 /\ Answered(c) \in Nat
        BY <1>6, <1>7, <1>8
      <4> QED BY <1>19, <2>1, <4>1
    <3> QED BY <1>19, <3>1, <3>2
  <2>4. Returned(c)' = Returned(c)
    BY <1>8 DEF Returned
  <2> QED BY <1>5, <1>6, <1>7, <1>8, <1>19, <2>1, <2>2, <2>3, <2>4, Zenon DEF Numbered
<1>21. Truthful(c)'
  <2>1. ASSUME cl[c].pc = "wait", cl[c].call.fn = "read", n = cl[c].n, r.code = PARAM_OK
        PROVE  r.data /\ r.val \in hist'.seen[c]
    <3>1. inbox[1].msg = Message(cl[c].call)
      BY <1>3, <1>5, <1>6, <2>1, Zenon DEF Asked, len
    <3>2. cl[c].call \in Call
      BY <1>1, <1>5 DEF Types, ClientOf
    <3> QED BY <1>8, <2>1, <3>1, <3>2, MessageType
  <2>2. ASSUME NEW k \in 1..(Len(box[c]) + 1)
        PROVE  /\ box'[c][k].data => box'[c][k].code = PARAM_OK
               /\ box'[c][k].code = PARAM_OK => <<c, box'[c][k].for>> \in hist'.done
               /\ cl'[c].pc = "wait" /\ cl'[c].call.fn = "read" /\ box'[c][k].for = cl'[c].n
                    /\ box'[c][k].code = PARAM_OK
                    => box'[c][k].data /\ box'[c][k].val \in hist'.seen[c]
    <3>1. CASE k = Len(box[c]) + 1
      BY <1>8, <1>11, <1>19, <2>1, <3>1
    <3>2. CASE k \in 1..Len(box[c])
      <4>1. box'[c][k] = box[c][k] /\ cl'[c] = cl[c] /\ hist.seen[c] \subseteq hist'.seen[c]
        BY <1>8, <1>19, <3>2
      <4>2. Truthful(c)
        BY <1>6
      <4> QED BY <1>11, <3>2, <4>1, <4>2 DEF Truthful
    <3> QED BY <1>19, <3>1, <3>2
  <2> QED BY <1>19, <2>2 DEF Truthful
<1>22. ClientInv'
  BY <1>13, <1>14, <1>15, <1>16, <1>20, <1>21 DEF ClientInv, Clients
<1>23. ConfigInv'
  <2>1. cl'[Config] = cl[Config]
    BY <1>8
  <2> QED BY <1>1, <1>11, <2>1, ConfigKept
<1> QED BY <1>12, <1>22, <1>23 DEF ServiceInv
=============================================================================
