----------------------------- MODULE SmioService -----------------------------
(***************************************************************************)
(* An SMIO as a service: the thread that creates it, serves the requests   *)
(* that clients send over the broker and destroys it (sm_io_bootstrap.c,   *)
(* sm_io.c), the config thread that sends it its default values as a       *)
(* client like any other (smio_config_defaults), and the client library    *)
(* (libbpmclient) with its timeouts.                                       *)
(*                                                                         *)
(* The broker (Malamute, not part of the repository) keeps a mailbox per   *)
(* address and delivers it in order: inbox is that of the service, box[c]  *)
(* that of client c.  What is sent to a service that is not there yet      *)
(* waits for it; what was delivered to a client that goes away is lost.    *)
(*                                                                         *)
(* The service has two operations: a parameter that is written and read    *)
(* (PARAM) and a function without arguments (FUNC).                        *)
(***************************************************************************)
EXTENDS SmioInit, MsgDispatch, FiniteSets, TLC

CONSTANTS
    Users,      \* the clients other than the config thread
    Smios,      \* the kinds and instances of SMIOs that are started
    Served,     \* bound: the kinds that clients send requests to
    Defaults,   \* the default values, [val, checked]: whether an error ends the list
    UserCalls,  \* what users call: [fn, val, extra], extra: one argument too many
    MaxCalls    \* bound on the calls of a user

ASSUME ServiceAssumption ==
    /\ "config" \notin Users
    /\ Defaults \in Seq([val : Int, checked : BOOLEAN])
    /\ UserCalls \subseteq [fn : {"write", "read", "func"}, val : Int, extra : BOOLEAN]
    /\ MaxCalls \in Nat

VARIABLES
    smio,   \* the SMIO thread
    param,  \* the parameter of the device
    inbox,  \* requests in the mailbox of the service
    box,    \* replies in the mailbox of each client
    cl,     \* the clients
    hist    \* history: requests performed and answered, values during a read

vars == <<smio, param, inbox, box, cl, hist>>

Config == "config"

Clients == Users \cup {Config}

PARAM == 1

FUNC == 2

READ_MODE == 1

WRITE_MODE == 0

Arg(n) == [size |-> n, var |-> FALSE]

\* The exported operations, in the order of their table.
exp_ops == <<[opcode |-> PARAM, args |-> <<Arg(4), Arg(4)>>], [opcode |-> FUNC, args |-> <<>>]>>

(***************************************************************************)
(* Requests.                                                               *)
(***************************************************************************)

Frame(v) == [size |-> 4, val |-> v]

\* param_client_send_gen_rw: operation, mode, value.
send_gen_rw(rw, val) == <<Frame(PARAM), Frame(rw), Frame(val)>>

Message(call) ==
    (IF call.fn = "func" THEN <<Frame(FUNC)>>
     ELSE send_gen_rw(IF call.fn = "write" THEN WRITE_MODE ELSE READ_MODE, call.val))
    \o (IF call.extra THEN <<Frame(0)>> ELSE <<>>)

(***************************************************************************)
(* What a client makes of a reply, or of a timeout (r = <<>>).  out is the *)
(* value it hands on; 0 stands for an output that was not touched.         *)
(***************************************************************************)

\* Seeded defect: a write that is not answered counts as done.
write_gen_optimist(r) ==
    [ret |-> IF r = <<>> \/ r[1].data \/ r[1].code = PARAM_OK THEN "SUCCESS" ELSE "AGAIN", out |-> 0]

\* Only the code of a reply with a single frame is looked at.
param_client_write_gen(r) ==
    [ret |-> IF r = <<>> THEN "SERVER"
             ELSE IF r[1].data \/ r[1].code = PARAM_OK THEN "SUCCESS" ELSE "AGAIN",
     out |-> 0]

param_client_read_gen(r) ==
    [ret |-> IF r = <<>> THEN "SERVER" ELSE IF r[1].code = PARAM_OK THEN "SUCCESS" ELSE "AGAIN",
     out |-> IF r # <<>> /\ r[1].data THEN r[1].val ELSE 0]

\* A timeout leaves the result at its initial value, success.
bpm_func_exec(r) ==
    [ret |-> IF r = <<>> \/ r[1].code = PARAM_OK THEN "SUCCESS" ELSE "CODE",
     out |-> IF r # <<>> /\ r[1].data THEN r[1].val ELSE 0]

Result(fn, r) ==
    CASE fn = "write" -> param_client_write_gen(r)
      [] fn = "read" -> param_client_read_gen(r)
      [] fn = "func" -> bpm_func_exec(r)

(***************************************************************************)
(* Initial state.  th_args and the end of the message pipe were made by    *)
(* the DEVIO for the thread.                                               *)
(***************************************************************************)

NoCall == [fn |-> "none", val |-> 0, extra |-> FALSE]

NoResult == [fn |-> "none", n |-> 0, for |-> 0, ret |-> "none", out |-> 0]

Init ==
    /\ \E s \in Smios :
         smio = [of |-> s, pc |-> "boot", table |-> <<>>,
                 term |-> FALSE, ready |-> FALSE,
                 m |-> [held |-> {<<"th_args">>, <<"smio", "pipe_msg">>},
                        freed |-> {}, twice |-> {}]]
    /\ param = 0
    /\ inbox = <<>>
    /\ box = [c \in Clients |-> <<>>]
    /\ cl = [c \in Clients |-> [pc |-> "idle", n |-> 0, late |-> 0,
                                call |-> NoCall, res |-> NoResult]]
    /\ hist = [done |-> {}, answered |-> [c \in Clients |-> <<>>], seen |-> [c \in Clients |-> {}]]

(***************************************************************************)
(* The SMIO thread (smio_startup).                                         *)
(***************************************************************************)

ThreadEnd == <<<<"smio_service">>, <<"inst_id_str">>, <<"th_args">>>>

startup_steps ==
    <<Step(<<"inst_id_str">>, <<<<"th_args">>>>),
      Step(<<"smio_service">>, <<<<"inst_id_str">>, <<"th_args">>>>)>>
    \o Calls("smio", smio_new, ThreadEnd)

\* The thread has ended and left m; whether it had the pipes is remembered.
Over(m) ==
    smio' = [smio EXCEPT !.pc = "done", !.table = _disp_table_remove_all(@),
                         !.m = [m EXCEPT !.freed = @ \cap {<<"smio", "pipes">>}]]

\* The ways of the thread up to the connection, of the init function of each
\* SMIO, which the destruction of the SMIO follows when it fails, and what a
\* thread that was ended releases.
StartupWays == Ways(startup_steps)

InitWays ==
    {[of |-> s, ways |-> Ways(Calls("smio", init(s.kind, s.inst), Of("smio", smio_destroy) \o ThreadEnd))] :
     s \in Smios}

Ends ==
    {[of |-> s, all |-> Of("smio", shutdown(s.kind, s.inst)) \o Of("smio", smio_destroy) \o ThreadEnd] :
     s \in Smios}

\* The strings and smio_new, which ends with the connection to the broker.
Boot ==
    /\ smio.pc = "boot"
    /\ \E w \in StartupWays :
         LET m == Construct(smio.m, w)
         IN  IF w.ok THEN smio' = [smio EXCEPT !.pc = "init", !.m = m] ELSE Over(m)
    /\ UNCHANGED <<param, inbox, box, cl, hist>>

\* The attachment and the init function of the module.  When it fails
\* shutdown is not called.  Nobody reads what was delivered to the worker.
InitModule ==
    /\ smio.pc = "init"
    /\ \E i \in InitWays : \E w \in i.ways :
         LET m == Construct(smio.m, w)
         IN  /\ i.of = smio.of
             /\ IF w.ok
                THEN smio' = [smio EXCEPT !.pc = "export", !.m = m, !.ready = TRUE] /\ UNCHANGED inbox
                ELSE Over(m) /\ inbox' = <<>>
    /\ UNCHANGED <<param, box, cl, hist>>

\* The operations are exported and the reactor starts, even when memory ran
\* out at operation number lacks and only those before it were inserted.
smio_export_ops(lacks) ==
    /\ smio.pc = "export"
    /\ smio' = [smio EXCEPT !.pc = "poll",
                            !.table = _disp_table_insert_all(@, exp_ops, lacks).table]
    /\ UNCHANGED <<param, inbox, box, cl, hist>>

\* The reactor looks at the pipe of the DEVIO before the mailbox.
Wake ==
    /\ smio.pc = "poll" /\ ~smio.term /\ inbox # <<>>
    /\ smio' = [smio EXCEPT !.pc = "drain"]
    /\ UNCHANGED <<param, inbox, box, cl, hist>>

\* Seeded defect: the handler waits for another message.
DrainedNever == FALSE /\ UNCHANGED vars

\* The handler returns when no message is left.
Drained ==
    /\ smio.pc = "drain" /\ inbox = <<>>
    /\ smio' = [smio EXCEPT !.pc = "poll"]
    /\ UNCHANGED <<param, inbox, box, cl, hist>>

\* What the function of an operation returns: bytes read, no error, an error.
Returns(msg, ok) ==
    IF ~ok THEN -2 ELSE IF msg[1].val = PARAM /\ msg[2].val = READ_MODE THEN 4 ELSE 0

Performed(msg, ok) == Runs(smio.table, msg) /\ ok

\* The state after the request at the head of the mailbox, whose reply
\* carries the value val.
ServeWith(ok, val) ==
    LET req == Head(inbox)
        msg == req.msg
        reply == msg_handle_mlm_request(smio.table, msg,
                     IF Runs(smio.table, msg) THEN Returns(msg, ok) ELSE -1)
        writes == Performed(msg, ok) /\ msg[1].val = PARAM /\ msg[2].val = WRITE_MODE
    IN  /\ smio.pc = "drain" /\ inbox # <<>>
        /\ inbox' = Tail(inbox)
        /\ param' = IF writes THEN msg[3].val ELSE param
        /\ box' = [box EXCEPT ![req.from] = @ \o
                     [i \in DOMAIN reply |-> [code |-> reply[i].code, data |-> reply[i].data,
                                              val |-> val, for |-> req.n]]]
        /\ hist' = [hist EXCEPT
             !.done = IF Performed(msg, ok) THEN @ \cup {<<req.from, req.n>>} ELSE @,
             !.answered[req.from] = @ \o [i \in DOMAIN reply |-> req.n],
             !.seen = [c \in Clients |-> IF cl[c].call.fn = "read" THEN @[c] \cup {param'} ELSE @[c]]]
        /\ UNCHANGED <<smio, cl>>

\* Seeded defect: the buffer of the return value is not filled.
ServeEmptyBuffer(ok) == ServeWith(ok, 0)

\* One request (_smio_do_op); the device may fail.
Serve(ok) == ServeWith(ok, param)

\* The DEVIO sends $TERM.
SendTerm ==
    /\ ~smio.term /\ smio.pc # "done"
    /\ smio' = [smio EXCEPT !.term = TRUE]
    /\ UNCHANGED <<param, inbox, box, cl, hist>>

\* $TERM ends the reactor: the operations, the module and the SMIO go.
Terminate ==
    /\ smio.pc = "poll" /\ smio.term
    /\ \E e \in Ends : e.of = smio.of /\ Over(Release(smio.m, e.all))
    /\ inbox' = <<>>
    /\ UNCHANGED <<param, box, cl, hist>>

(***************************************************************************)
(* Clients.                                                                *)
(***************************************************************************)

Send(c, call) ==
    /\ smio.of.kind \in Served
    /\ cl' = [cl EXCEPT ![c] = [@ EXCEPT !.pc = "wait", !.n = cl[c].n + 1, !.call = call]]
    /\ inbox' = Append(inbox, [from |-> c, n |-> cl[c].n + 1, msg |-> Message(call)])
    /\ hist' = [hist EXCEPT !.seen[c] = IF call.fn = "read" THEN {param} ELSE {}]
    /\ UNCHANGED <<smio, param, box>>

UserSend(c, call) == cl[c].pc = "idle" /\ cl[c].n < MaxCalls /\ Send(c, call)

\* The config thread goes on to its next default value, or ends its list
\* after an error it looks at.
AfterCall(c, ret) ==
    IF c = Config /\ ret # "SUCCESS" /\ Defaults[cl[c].n].checked THEN "stop" ELSE "idle"

\* The call returns with what reply r, if any, says.
Return(c, r, late) ==
    LET res == Result(cl[c].call.fn, r)
    IN  cl' = [cl EXCEPT ![c] =
                 [@ EXCEPT !.pc = AfterCall(c, res.ret), !.late = cl[c].late + late, !.call = NoCall,
                           !.res = [fn |-> cl[c].call.fn, n |-> cl[c].n, ret |-> res.ret,
                                    out |-> res.out, for |-> IF r = <<>> THEN 0 ELSE r[1].for]]]

\* Seeded defect: the reply stays in the mailbox.
ReceiveKeep(c) ==
    /\ cl[c].pc = "wait" /\ box[c] # <<>>
    /\ Return(c, <<Head(box[c])>>, 0)
    /\ UNCHANGED <<smio, param, inbox, box, hist>>

\* param_client_recv_timeout: the first message in the mailbox, whatever it
\* answers.
Receive(c) ==
    /\ cl[c].pc = "wait" /\ box[c] # <<>>
    /\ Return(c, <<Head(box[c])>>, 0)
    /\ box' = [box EXCEPT ![c] = Tail(@)]
    /\ UNCHANGED <<smio, param, inbox, hist>>

Timeout(c) ==
    /\ cl[c].pc = "wait" /\ box[c] = <<>>
    /\ Return(c, <<>>, 1)
    /\ UNCHANGED <<smio, param, inbox, box, hist>>

\* Seeded defect: errors do not end the list of default values.
ConfigGoesOn ==
    /\ cl[Config].pc \in {"idle", "stop"} /\ cl[Config].n < Len(Defaults)
    /\ Send(Config, [fn |-> "write", val |-> Defaults[cl[Config].n + 1].val, extra |-> FALSE])

ConfigSend ==
    /\ cl[Config].pc = "idle" /\ cl[Config].n < Len(Defaults)
    /\ Send(Config, [fn |-> "write", val |-> Defaults[cl[Config].n + 1].val, extra |-> FALSE])

\* The client of the config thread goes, and the thread sends CONFIG DONE.
ConfigDone ==
    /\ \/ cl[Config].pc = "stop"
       \/ cl[Config].pc = "idle" /\ cl[Config].n = Len(Defaults)
    /\ cl' = [cl EXCEPT ![Config].pc = "done"]
    /\ UNCHANGED <<smio, param, inbox, box, hist>>

\* The client could not be created or connected: CONFIG DONE all the same.
ConfigNoClient ==
    /\ cl[Config].pc = "idle" /\ cl[Config].n = 0
    /\ cl' = [cl EXCEPT ![Config].pc = "done"]
    /\ UNCHANGED <<smio, param, inbox, box, hist>>

SmioStep ==
    \/ Boot
    \/ InitModule
    \/ \E lacks \in 0..Len(exp_ops) : smio_export_ops(lacks)
    \/ Wake
    \/ Drained
    \/ \E ok \in BOOLEAN : Serve(ok)
    \/ Terminate

ConfigStep == ConfigSend \/ ConfigDone \/ ConfigNoClient \/ Receive(Config) \/ Timeout(Config)

UserStep(c) == (\E call \in UserCalls : UserSend(c, call)) \/ Receive(c) \/ Timeout(c)

Next == SmioStep \/ SendTerm \/ ConfigStep \/ \E c \in Users : UserStep(c)

\* The threads are scheduled, and the poller of a client expires.
FairSpec == Init /\ [][Next]_vars /\ WF_vars(SmioStep) /\ WF_vars(ConfigStep)

(***************************************************************************)
(* Properties.                                                             *)
(***************************************************************************)

(* Every variable holds a value of its type. *)
TypeOK ==
    /\ smio.of.kind \in Kinds /\ smio.of.inst \in 0..TooLarge
    /\ smio.pc \in {"boot", "init", "export", "poll", "drain", "done"}
    /\ DOMAIN smio.table \subseteq {PARAM, FUNC}
    /\ \A i \in DOMAIN inbox : inbox[i].from \in Clients
    /\ \A c \in Clients : /\ cl[c].pc \in {"idle", "wait", "stop", "done"}
                          /\ cl[c].res.ret \in {"none", "SUCCESS", "SERVER", "AGAIN", "CODE"}
                          /\ cl[c].late <= cl[c].n

(* Nothing is released twice, whichever step of a creation failed, and      *)
(* when the thread of an SMIO has ended, wherever it failed, it has given   *)
(* back everything, with three exceptions: its end of the message pipe,     *)
(* when it failed before the pipes of its reactor existed (smio_new); the   *)
(* handler of an acquisition SMIO with too large an instance (smio_acq_new) *)
(* and the global pointer of the BSMP protocol, when the RFFE could not be  *)
(* initialised (bsmp_open).                                                 *)
NothingLeft ==
    LET left == smio.m.held
        pipe == <<"smio", "pipe_msg">>
        acq == <<"smio", "handler", "self">>
        glue == <<"smio", "handler", "ctl", "proto", "glue">>
    IN  /\ smio.m.twice = {}
        /\ smio.pc = "done" =>
          /\ left \subseteq {pipe, acq, glue}
          /\ pipe \in left => <<"smio", "pipes">> \notin smio.m.freed
          /\ acq \in left => smio.of.kind = "acq" /\ smio.of.inst = TooLarge
          /\ glue \in left => smio.of.kind = "rffe" /\ ~smio.ready

(* A reply carries no number.  The one that a client takes answers an       *)
(* earlier request of its by at most as many requests as it has timed out   *)
(* on: a client that never timed out always gets its own reply              *)
(* (param_client_recv_timeout).                                             *)
LagWithinTimeouts ==
    \A c \in Clients :
       LET res == cl[c].res
       IN  res.for # 0 => res.n - cl[c].late <= res.for /\ res.for <= res.n

(* A client that never timed out and reads the parameter successfully gets  *)
(* a value that the parameter had during the call, not one from before it.  *)
ReadIsCurrent ==
    \A c \in Clients :
       LET res == cl[c].res
       IN  res.fn = "read" /\ res.ret = "SUCCESS" /\ cl[c].late = 0 /\ cl[c].pc # "wait"
           => res.out \in hist.seen[c]

(* A call that reports success rests on a request that was performed: the   *)
(* one the reply answers.  The exception is bpm_func_exec, which reports    *)
(* success when nobody answered.                                            *)
SuccessMeansPerformed ==
    \A c \in Clients :
       LET res == cl[c].res
       IN  res.ret = "SUCCESS" =>
             \/ <<c, res.for>> \in hist.done
             \/ res.fn = "func" /\ res.for = 0

(* While the SMIO lives every request is answered exactly once and in the   *)
(* order of its client: those of a client that were answered are its first  *)
(* ones, the others wait in the mailbox, each once and in order.  One that  *)
(* is refused (an operation that is not in the table, arguments that do not *)
(* fit) is answered too.                                                    *)
AnsweredOnce ==
    \A c \in Clients :
       LET answered == hist.answered[c]
           waiting == {i \in DOMAIN inbox : inbox[i].from = c}
       IN  smio.pc # "done" =>
             /\ \A k \in DOMAIN answered : answered[k] = k
             /\ Len(answered) <= cl[c].n
             /\ {inbox[i].n : i \in waiting} = (Len(answered) + 1)..cl[c].n
             /\ \A i, j \in waiting : i < j => inbox[i].n < inbox[j].n

(* CONFIG DONE does not say that the default values are in place.  A config *)
(* thread that neither timed out nor met an error has had all of them       *)
(* performed; otherwise some may still be on their way, one for every       *)
(* timeout, and it timed out at most once on a call whose error it looks    *)
(* at.                                                                      *)
LateDefaults ==
    LET unchecked == Cardinality({i \in DOMAIN Defaults : ~Defaults[i].checked})
        queued == Cardinality({i \in DOMAIN inbox : inbox[i].from = Config})
    IN  cl[Config].pc = "done" =>
          /\ queued <= cl[Config].late
          /\ cl[Config].late <= unchecked + 1
          /\ (cl[Config].n = Len(Defaults) /\ cl[Config].late = 0
              /\ \A i \in DOMAIN Defaults : Defaults[i].checked
              /\ cl[Config].res.ret = "SUCCESS") =>
                 \A i \in DOMAIN Defaults : <<Config, i>> \in hist.done

(* The threads of an SMIO end.  The config thread always gets to CONFIG     *)
(* DONE, also when its SMIO could not be created or is destroyed meanwhile: *)
(* no call waits for ever.  $TERM ends the thread of the SMIO, however many *)
(* requests are waiting: the handler that empties the mailbox returns to    *)
(* the reactor.                                                             *)
ThreadsEnd ==
    /\ <>(cl[Config].pc = "done")
    /\ smio.term ~> smio.pc = "done"
============================================================================
