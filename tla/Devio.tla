------------------------------- MODULE Devio -------------------------------
(***************************************************************************)
(* The life of the threads of one DEVIO process (src/src/dev_io and        *)
(* src/src/sm_io): the main thread, the reactor thread devio_loop, and for *)
(* every registered SMIO a worker thread (smio_startup) and a short-lived  *)
(* configuration thread (smio_config_defaults).                            *)
(*                                                                         *)
(* The slot idx = nnodes++ of a registration identifies its two threads    *)
(* and its three sockets: pipes_msg[idx] (hardware accesses of the SMIO),  *)
(* pipes_mgmt[idx] (the actor of the SMIO) and pipes_config[idx] (the      *)
(* actor of its configuration thread).                                     *)
(*                                                                         *)
(* An access of an SMIO to the hardware is a synchronous call to the       *)
(* reactor over pipes_msg[idx]: the SMIO waits, without a timeout, for the *)
(* one reply.  What a call carries is left out here.                       *)
(***************************************************************************)
EXTENDS Integers, Sequences, FiniteSets

CONSTANTS
  Key,            \* hash keys: SMIO name followed by the instance number
  Unsupported,    \* keys whose smio_id is not in smio_mod_dispatch
  Children,       \* Children[k]: the SMIOs that the init of SMIO k registers
  NODES_MAX_LEN,  \* length of the arrays pipes_msg, pipes_mgmt, pipes_config
  MaxCommands,    \* bound: commands the main thread sends to the reactor
  MaxAccesses     \* bound: hardware accesses of all the SMIOs together

ASSUME KeyAssumption ==
  /\ Unsupported \subseteq Key
  /\ Children \in [Key -> Seq(Key)]
  /\ "none" \notin Key
ASSUME BoundAssumption ==
  /\ NODES_MAX_LEN \in Nat
  /\ MaxCommands \in Nat
  /\ MaxAccesses \in Nat

VARIABLES
  loop,         \* the reactor thread: "run" or "ended"
  main,         \* the main thread: "run", "join" (in zactor_destroy of the
                \* reactor), "destroy" (in devio_destroy) or "done"
  interrupted,  \* zsys_interrupted, set by a signal
  crashed,      \* the process was aborted
  pipe,         \* commands in the pipe from the main thread to the reactor
  sent,         \* number of commands the main thread has sent
  nnodes,       \* self->nnodes
  sm_io_h,      \* self->sm_io_h: key -> slot of an SMIO actor, or NULL
  sm_io_cfg_h,  \* self->sm_io_cfg_h: key -> slot of a config actor, or NULL
  pipes_msg,    \* pipes_msg[i] is a socket, not NULL
  pipes_mgmt,   \* pipes_mgmt[i] is an actor, not NULL
  pipes_config, \* pipes_config[i] is an actor, not NULL
  readers,      \* the sockets the reactor polls
  key,          \* the key the threads of slot i were created for
  smio,         \* the state of the SMIO thread of slot i
  cfg,          \* the state of the config thread of slot i
  term,         \* $TERM was sent to the SMIO thread of slot i
  cfg_term,     \* $TERM was sent to the config thread of slot i
  mgmt_q,       \* keys in $REGISTER_SMIO messages from the SMIO of slot i
  cfg_q,        \* CONFIG DONE from the config thread of slot i is unread
  req,          \* a request of the SMIO of slot i is unread in pipes_msg[i]
  rep,          \* a reply to the SMIO of slot i is unread
  accesses,     \* number of accesses so far
  args_freed,   \* number of calls of free on the th_args of slot i
  cfg_keys,     \* the keys of sm_io_cfg_h still to destroy
  smio_keys,    \* the keys of sm_io_h still to destroy
  cur           \* the zactor_destroy in progress

mainVars == <<main, interrupted, sent>>
hashVars == <<sm_io_h, sm_io_cfg_h>>
pipeVars == <<pipes_msg, pipes_mgmt, pipes_config>>
argVars  == <<nnodes, key, args_freed>>
smioVars == <<smio, term, mgmt_q>>
cfgVars  == <<cfg, cfg_term, cfg_q>>
rpcVars  == <<req, rep, accesses>>
jobVars  == <<cfg_keys, smio_keys, cur>>
vars == <<loop, mainVars, crashed, pipe, argVars, hashVars, pipeVars, readers,
          smioVars, cfgVars, rpcVars, jobVars>>

-----------------------------------------------------------------------------
NULL  == -1
NoKey == "none"

\* The test nnodes <= NODES_MAX_LEN lets a registration take the slot
\* NODES_MAX_LEN, one past the end of the arrays.
Slot == 0 .. NODES_MAX_LEN

Socket == {"msg", "mgmt", "cfg"} \X Slot

Command == [op : {"register"}, key : Key]
           \cup [op : {"unregister", "unregister_all", "term"}]

\* An SMIO thread is in smio_new ("boot"), in its init function ("init"),
\* waits for a reply there ("init_rpc"), is in its reactor ("loop"), executes
\* an operation for a client ("op"), waits for a reply there ("op_rpc"), or has
\* returned ("exit").
SmioState  == {"off", "boot", "init", "init_rpc", "loop", "op", "op_rpc", "exit"}
InAccess   == {"init_rpc", "op_rpc"}
SmioAlive  == SmioState \ {"off", "exit"}

\* A config thread runs config_defaults ("config"), has sent CONFIG DONE and
\* waits for $TERM ("wait_term"), or has returned ("exit").
CfgState == {"off", "config", "wait_term", "exit"}
CfgAlive == {"config", "wait_term"}

\* The zactor_destroy a thread is in: of a config actor or an SMIO actor found
\* in a hash, or of the SMIO actor of a registration that is being undone.
Destroying == [kind : {"idle", "cfg", "smio", "undo"},
               key : Key \cup {NoKey}, slot : Slot \cup {NULL}]
Idle == [kind |-> "idle", key |-> NoKey, slot |-> NULL]

TypeOK ==
  /\ loop \in {"run", "ended"}
  /\ main \in {"run", "join", "destroy", "done"}
  /\ interrupted \in BOOLEAN
  /\ crashed \in BOOLEAN
  /\ pipe \in Seq(Command)
  /\ sent \in 0 .. MaxCommands
  /\ nnodes \in 0 .. NODES_MAX_LEN + 1
  /\ sm_io_h \in [Key -> Slot \cup {NULL}]
  /\ sm_io_cfg_h \in [Key -> Slot \cup {NULL}]
  /\ pipes_msg \in [Slot -> BOOLEAN]
  /\ pipes_mgmt \in [Slot -> BOOLEAN]
  /\ pipes_config \in [Slot -> BOOLEAN]
  /\ readers \in SUBSET Socket
  /\ key \in [Slot -> Key \cup {NoKey}]
  /\ smio \in [Slot -> SmioState]
  /\ cfg \in [Slot -> CfgState]
  /\ term \in [Slot -> BOOLEAN]
  /\ cfg_term \in [Slot -> BOOLEAN]
  /\ mgmt_q \in [Slot -> Seq(Key)]
  /\ cfg_q \in [Slot -> BOOLEAN]
  /\ req \in [Slot -> BOOLEAN]
  /\ rep \in [Slot -> BOOLEAN]
  /\ accesses \in 0 .. MaxAccesses
  /\ args_freed \in [Slot -> 0 .. 2]
  /\ cfg_keys \in SUBSET Key
  /\ smio_keys \in SUBSET Key
  /\ cur \in Destroying

Init ==
  /\ loop = "run" /\ main = "run" /\ interrupted = FALSE /\ crashed = FALSE
  /\ pipe = <<>> /\ sent = 0 /\ nnodes = 0 /\ accesses = 0
  /\ sm_io_h = [k \in Key |-> NULL]
  /\ sm_io_cfg_h = [k \in Key |-> NULL]
  /\ pipes_msg = [i \in Slot |-> FALSE]
  /\ pipes_mgmt = [i \in Slot |-> FALSE]
  /\ pipes_config = [i \in Slot |-> FALSE]
  /\ readers = {}
  /\ key = [i \in Slot |-> NoKey]
  /\ smio = [i \in Slot |-> "off"]
  /\ cfg = [i \in Slot |-> "off"]
  /\ term = [i \in Slot |-> FALSE]
  /\ cfg_term = [i \in Slot |-> FALSE]
  /\ mgmt_q = [i \in Slot |-> <<>>]
  /\ cfg_q = [i \in Slot |-> FALSE]
  /\ req = [i \in Slot |-> FALSE]
  /\ rep = [i \in Slot |-> FALSE]
  /\ args_freed = [i \in Slot |-> 0]
  /\ cfg_keys = {} /\ smio_keys = {} /\ cur = Idle

-----------------------------------------------------------------------------
(***************************************************************************)
(* _devio_register_sm_raw, executed by the reactor thread.                 *)
(***************************************************************************)

\* All the slots are taken, or the dispatch table does not know the SMIO.
RegisterRejected(k) ==
  /\ nnodes > NODES_MAX_LEN \/ k \in Unsupported
  /\ UNCHANGED <<argVars, hashVars, pipeVars, readers, smio, cfg, term, cur>>

Registrable(k) == nnodes <= NODES_MAX_LEN /\ k \notin Unsupported

\* The socket pair or the SMIO thread could not be created.  What was allocated
\* is given back, th_args included, but the slot is not.
RegisterNoThread(k) ==
  /\ Registrable(k)
  /\ nnodes' = nnodes + 1
  /\ \E allocated \in {0, 1} :
       args_freed' = [args_freed EXCEPT ![nnodes] = allocated]
  /\ UNCHANGED <<key, hashVars, pipeVars, readers, smio, cfg, term, cur>>

\* _devio_engine_handle_socket for the sockets of a new slot.  Seeded defects: one
\* of them is never polled.
NewReadersNoMsg(n) == {<<"mgmt", n>>, <<"cfg", n>>}
NewReaders(n) == {<<"msg", n>>, <<"mgmt", n>>, <<"cfg", n>>}

ConfigEntry(k, n) == [sm_io_cfg_h EXCEPT ![k] = n]

\* Both threads run, both hashes know the key and the three sockets are polled.
\* The insertion in sm_io_cfg_h cannot fail: see ConfigBelongsToSmio.
RegisterSpawned(k) ==
  /\ Registrable(k)
  /\ sm_io_h[k] = NULL /\ sm_io_cfg_h[k] = NULL
  /\ nnodes' = nnodes + 1
  /\ key' = [key EXCEPT ![nnodes] = k]
  /\ pipes_msg' = [pipes_msg EXCEPT ![nnodes] = TRUE]
  /\ pipes_mgmt' = [pipes_mgmt EXCEPT ![nnodes] = TRUE]
  /\ pipes_config' = [pipes_config EXCEPT ![nnodes] = TRUE]
  /\ readers' = readers \cup NewReaders(nnodes)
  /\ smio' = [smio EXCEPT ![nnodes] = "boot"]
  /\ cfg' = [cfg EXCEPT ![nnodes] = "config"]
  /\ sm_io_h' = [sm_io_h EXCEPT ![k] = nnodes]
  /\ sm_io_cfg_h' = ConfigEntry(k, nnodes)
  /\ UNCHANGED <<args_freed, term, cur>>

\* The SMIO thread runs, but sm_io_h has the key already, or (whatever the
\* hash holds) the config thread could not be created: the reactor stops
\* polling the new actor and enters its zactor_destroy.
RegisterUndone(k) ==
  /\ Registrable(k)
  /\ nnodes' = nnodes + 1
  /\ key' = [key EXCEPT ![nnodes] = k]
  /\ pipes_msg' = [pipes_msg EXCEPT ![nnodes] = TRUE]
  /\ pipes_mgmt' = [pipes_mgmt EXCEPT ![nnodes] = TRUE]
  /\ readers' = readers \cup {<<"msg", nnodes>>}
  /\ smio' = [smio EXCEPT ![nnodes] = "boot"]
  /\ term' = [term EXCEPT ![nnodes] = TRUE]
  /\ cur' = [kind |-> "undo", key |-> k, slot |-> nnodes]
  /\ UNCHANGED <<args_freed, hashVars, pipes_config, cfg>>

_devio_register_sm_raw(k) ==
  \/ RegisterRejected(k)
  \/ RegisterNoThread(k)
  \/ RegisterSpawned(k)
  \/ RegisterUndone(k)

-----------------------------------------------------------------------------
(***************************************************************************)
(* The main thread (main of ebpm.c, devio_destroy).                        *)
(***************************************************************************)
othersThanPipe == <<loop, crashed, argVars, hashVars, pipeVars, readers,
                    smioVars, cfgVars, rpcVars, jobVars>>

\* devio_register_sm, devio_unregister_sm and devio_unregister_all_sm.
MainCommand ==
  /\ ~crashed
  /\ main = "run" /\ sent < MaxCommands
  /\ \E c \in Command : c.op # "term" /\ pipe' = Append(pipe, c)
  /\ sent' = sent + 1
  /\ UNCHANGED <<main, interrupted, othersThanPipe>>

\* A signal sets zsys_interrupted.  One signal is assumed, and none once the
\* teardown has begun: it would make zactor_destroy return without its thread.
Signal ==
  /\ ~crashed
  /\ main = "run" /\ ~interrupted
  /\ interrupted' = TRUE
  /\ UNCHANGED <<main, sent, pipe, othersThanPipe>>

\* The main thread was interrupted, or an error ends it: zactor_destroy of the
\* reactor.
MainTeardown ==
  /\ ~crashed
  /\ main = "run"
  /\ main' = "join"
  /\ pipe' = Append(pipe, [op |-> "term"])
  /\ UNCHANGED <<interrupted, sent, othersThanPipe>>

ListKeys ==
  /\ cfg_keys' = {k \in Key : sm_io_cfg_h[k] # NULL}
  /\ smio_keys' = {k \in Key : sm_io_h[k] # NULL}

\* The reactor thread is gone; devio_destroy lists the keys of both hashes.
MainDestroy ==
  /\ ~crashed
  /\ main = "join" /\ loop = "ended"
  /\ main' = "destroy"
  /\ ListKeys
  /\ UNCHANGED <<loop, interrupted, sent, crashed, pipe, argVars, hashVars,
                 pipeVars, readers, smioVars, cfgVars, rpcVars, cur>>

\* Seeded defect: the sockets are left to the reactor.
MainReleaseKeepsSockets ==
  /\ ~crashed
  /\ main = "destroy"
  /\ cur = Idle /\ cfg_keys = {} /\ smio_keys = {}
  /\ main' = "done"
  /\ readers' = {}
  /\ UNCHANGED <<loop, interrupted, sent, crashed, pipe, argVars, hashVars,
                 pipeVars, smioVars, cfgVars, rpcVars, jobVars>>

\* The rest of devio_destroy: the device is released, the reactor and the
\* sockets of the first NODES_MAX_LEN slots are destroyed.
MainRelease ==
  /\ ~crashed
  /\ main = "destroy"
  /\ cur = Idle /\ cfg_keys = {} /\ smio_keys = {}
  /\ main' = "done"
  /\ readers' = {}
  /\ pipes_msg' = [i \in Slot |-> i = NODES_MAX_LEN /\ pipes_msg[i]]
  /\ UNCHANGED <<loop, interrupted, sent, crashed, pipe, argVars, hashVars,
                 pipes_mgmt, pipes_config, smioVars, cfgVars, rpcVars, jobVars>>

-----------------------------------------------------------------------------
(***************************************************************************)
(* _devio_destroy_smio and _devio_destroy_smio_all.  They run in the       *)
(* reactor thread (a command or CONFIG DONE) or, once it has ended, in the *)
(* main thread (devio_destroy).  zactor_destroy sends $TERM and waits for  *)
(* the thread of the actor to return; it does not wait for one that has    *)
(* returned before.                                                        *)
(***************************************************************************)
DestroyFrame == <<loop, mainVars, crashed, pipe, nnodes, key, pipes_msg, smio,
                  mgmt_q, cfg, cfg_q, rpcVars>>

\* zloop_reader_end.  Seeded defect: the socket stays in the poll set.
EndReaderNot(socket, i) == readers
EndReader(socket, i) == readers \ {<<socket, i>>}

\* What zactor_destroy waits for.  Seeded defect: it does not wait.
SmioReturnedNot(i) == TRUE
SmioReturned(i) == smio[i] = "exit"

DeleteConfig(k) == [sm_io_cfg_h EXCEPT ![k] = NULL]

\* The next key of sm_io_cfg_h, in the order of the hash.
DestroyConfig(k) ==
  /\ ~crashed
  /\ cur = Idle /\ k \in cfg_keys
  /\ LET i == sm_io_cfg_h[k] IN
       /\ cfg_term' = [cfg_term EXCEPT ![i] = TRUE]
       /\ readers' = EndReader("cfg", i)
       /\ cur' = [kind |-> "cfg", key |-> k, slot |-> i]
  /\ cfg_keys' = cfg_keys \ {k}
  /\ UNCHANGED <<DestroyFrame, hashVars, pipes_mgmt, pipes_config, term,
                 args_freed, smio_keys>>

\* The next key of sm_io_h, after all those of sm_io_cfg_h.
DestroySmio(k) ==
  /\ ~crashed
  /\ cur = Idle /\ cfg_keys = {} /\ k \in smio_keys
  /\ LET i == sm_io_h[k] IN
       /\ term' = [term EXCEPT ![i] = TRUE]
       /\ readers' = EndReader("mgmt", i)
       /\ cur' = [kind |-> "smio", key |-> k, slot |-> i]
  /\ smio_keys' = smio_keys \ {k}
  /\ UNCHANGED <<DestroyFrame, hashVars, pipes_mgmt, pipes_config, cfg_term,
                 args_freed, cfg_keys>>

\* The config thread has returned: its actor and its hash entry go.
ConfigDestroyed ==
  /\ ~crashed
  /\ cur.kind = "cfg" /\ cfg[cur.slot] = "exit"
  /\ pipes_config' = [pipes_config EXCEPT ![cur.slot] = FALSE]
  /\ sm_io_cfg_h' = DeleteConfig(cur.key)
  /\ cur' = Idle
  /\ UNCHANGED <<DestroyFrame, sm_io_h, pipes_mgmt, readers, term, cfg_term,
                 args_freed, cfg_keys, smio_keys>>

\* The SMIO thread has returned: its actor and its hash entry go.
SmioDestroyed ==
  /\ ~crashed
  /\ cur.kind = "smio" /\ SmioReturned(cur.slot)
  /\ pipes_mgmt' = [pipes_mgmt EXCEPT ![cur.slot] = FALSE]
  /\ sm_io_h' = [sm_io_h EXCEPT ![cur.key] = NULL]
  /\ cur' = Idle
  /\ UNCHANGED <<DestroyFrame, sm_io_cfg_h, pipes_config, readers, term,
                 cfg_term, args_freed, cfg_keys, smio_keys>>

\* The SMIO thread of a registration that is being undone has returned.  It
\* has freed th_args and destroyed its end of pipes_msg; the error path of the
\* registration does both again, which the C library may or may not survive.
RegisterUndoneEnd ==
  /\ ~crashed
  /\ cur.kind = "undo" /\ SmioReturned(cur.slot)
  /\ pipes_mgmt' = [pipes_mgmt EXCEPT ![cur.slot] = FALSE]
  /\ pipes_msg' = [pipes_msg EXCEPT ![cur.slot] = FALSE]
  /\ readers' = EndReader("msg", cur.slot)
  /\ args_freed' = [args_freed EXCEPT ![cur.slot] = @ + 1]
  /\ crashed' \in BOOLEAN
  /\ cur' = Idle
  /\ UNCHANGED <<loop, mainVars, pipe, nnodes, key, hashVars, pipes_config,
                 smioVars, cfgVars, rpcVars, cfg_keys, smio_keys>>

-----------------------------------------------------------------------------
(***************************************************************************)
(* The reactor thread.  A handler runs only when the previous one has      *)
(* returned.                                                               *)
(***************************************************************************)
LoopReady ==
  ~crashed /\ loop = "run" /\ cur = Idle /\ cfg_keys = {} /\ smio_keys = {}

\* _devio_handle_pipe: $REGISTER_SMIO.
HandleRegister ==
  /\ LoopReady /\ pipe # <<>> /\ Head(pipe).op = "register"
  /\ _devio_register_sm_raw(Head(pipe).key)
  /\ pipe' = Tail(pipe)
  /\ UNCHANGED <<loop, mainVars, crashed, mgmt_q, cfg_term, cfg_q, rpcVars,
                 cfg_keys, smio_keys>>

HandleUnregisterAll ==
  /\ LoopReady /\ pipe # <<>> /\ Head(pipe).op = "unregister_all"
  /\ ListKeys
  /\ pipe' = Tail(pipe)
  /\ UNCHANGED <<loop, mainVars, crashed, argVars, hashVars, pipeVars, readers,
                 smioVars, cfgVars, rpcVars, cur>>

\* _devio_handle_pipe: $UNREGISTER_SMIO.  Its argument is a string where the
\* handler expects an integer, and the handler looks up the key NULL: the
\* message is discarded as malformed, or the lookup aborts the process.
HandleUnregister ==
  /\ LoopReady /\ pipe # <<>> /\ Head(pipe).op = "unregister"
  /\ crashed' \in BOOLEAN
  /\ pipe' = Tail(pipe)
  /\ UNCHANGED <<loop, mainVars, argVars, hashVars, pipeVars, readers,
                 smioVars, cfgVars, rpcVars, jobVars>>

\* _devio_handle_pipe: $TERM ends the reactor.
HandleTerm ==
  /\ LoopReady /\ pipe # <<>> /\ Head(pipe).op = "term"
  /\ loop' = "ended"
  /\ pipe' = Tail(pipe)
  /\ UNCHANGED <<mainVars, crashed, argVars, hashVars, pipeVars, readers,
                 smioVars, cfgVars, rpcVars, jobVars>>

\* After a signal the reactor ends the next time it wakes up.
LoopInterrupted ==
  /\ LoopReady /\ interrupted
  /\ loop' = "ended"
  /\ UNCHANGED <<mainVars, crashed, pipe, argVars, hashVars, pipeVars, readers,
                 smioVars, cfgVars, rpcVars, jobVars>>

\* _devio_handle_pipe_mgmt: an SMIO asks for another one.
HandleMgmt(i) ==
  /\ LoopReady /\ <<"mgmt", i>> \in readers /\ mgmt_q[i] # <<>>
  /\ _devio_register_sm_raw(Head(mgmt_q[i]))
  /\ mgmt_q' = [mgmt_q EXCEPT ![i] = Tail(@)]
  /\ UNCHANGED <<loop, mainVars, crashed, pipe, cfg_term, cfg_q, rpcVars,
                 cfg_keys, smio_keys>>

HandleMsg(i) ==
  /\ LoopReady /\ <<"msg", i>> \in readers /\ req[i]
  /\ req' = [req EXCEPT ![i] = FALSE]
  /\ rep' = [rep EXCEPT ![i] = TRUE]
  /\ UNCHANGED <<loop, mainVars, crashed, pipe, argVars, hashVars, pipeVars,
                 readers, smioVars, cfgVars, accesses, jobVars>>

\* _devio_handle_pipe_cfg: $TERM to the thread that sent CONFIG DONE, then
\* zactor_destroy of the actor sm_io_cfg_h has for its key.  A key that is not
\* there ends the reactor.
HandleCfg(i) ==
  /\ LoopReady /\ <<"cfg", i>> \in readers /\ cfg_q[i]
  /\ cfg_q' = [cfg_q EXCEPT ![i] = FALSE]
  /\ LET j == sm_io_cfg_h[key[i]] IN
       /\ cfg_term' = [n \in Slot |-> n \in {i, j} \/ cfg_term[n]]
       /\ readers' = EndReader("cfg", j)
       /\ loop' = IF j = NULL THEN "ended" ELSE loop
       /\ cur' = IF j = NULL THEN Idle
                 ELSE [kind |-> "cfg", key |-> key[i], slot |-> j]
  /\ UNCHANGED <<mainVars, crashed, pipe, argVars, hashVars, pipeVars,
                 smioVars, cfg, rpcVars, cfg_keys, smio_keys>>

-----------------------------------------------------------------------------
(***************************************************************************)
(* An SMIO thread (smio_startup, smio_loop).                               *)
(***************************************************************************)
SmioFrame == <<loop, mainVars, crashed, pipe, nnodes, key, hashVars, pipeVars,
               readers, term, cfgVars, jobVars>>

\* smio_new connects to the broker and registers its service there.
SmioConnect(i) ==
  /\ ~crashed
  /\ smio[i] = "boot"
  /\ smio' = [smio EXCEPT ![i] = "init"]
  /\ UNCHANGED <<SmioFrame, mgmt_q, rpcVars, args_freed>>

\* The thread unwinds and frees its th_args: smio_new failed, the init function
\* failed, or $TERM arrived in the reactor.  Seeded defect: $TERM does not end
\* the reactor.
SmioExitOnFailure(i) ==
  /\ ~crashed
  /\ smio[i] \in {"boot", "init"}
  /\ smio' = [smio EXCEPT ![i] = "exit"]
  /\ args_freed' = [args_freed EXCEPT ![i] = @ + 1]
  /\ UNCHANGED <<SmioFrame, mgmt_q, rpcVars>>
\* Seeded defect: th_args is not freed.
SmioExitKeepsArgs(i) ==
  /\ ~crashed
  /\ \/ smio[i] \in {"boot", "init"}
     \/ smio[i] = "loop" /\ term[i]
  /\ smio' = [smio EXCEPT ![i] = "exit"]
  /\ UNCHANGED <<SmioFrame, mgmt_q, rpcVars, args_freed>>
SmioExit(i) ==
  /\ ~crashed
  /\ \/ smio[i] \in {"boot", "init"}
     \/ smio[i] = "loop" /\ term[i]
  /\ smio' = [smio EXCEPT ![i] = "exit"]
  /\ args_freed' = [args_freed EXCEPT ![i] = @ + 1]
  /\ UNCHANGED <<SmioFrame, mgmt_q, rpcVars>>

\* After a signal the reactor of an SMIO ends the next time it wakes up.
SmioInterrupted(i) ==
  /\ ~crashed
  /\ smio[i] = "loop" /\ interrupted
  /\ smio' = [smio EXCEPT ![i] = "exit"]
  /\ args_freed' = [args_freed EXCEPT ![i] = @ + 1]
  /\ UNCHANGED <<SmioFrame, mgmt_q, rpcVars>>

\* The end of the init function registers further SMIOs; the reactor starts.
SmioStart(i) ==
  /\ ~crashed
  /\ smio[i] = "init"
  /\ smio' = [smio EXCEPT ![i] = "loop"]
  /\ mgmt_q' = [mgmt_q EXCEPT ![i] = @ \o Children[key[i]]]
  /\ UNCHANGED <<SmioFrame, rpcVars, args_freed>>

\* A hardware access of the init function or of an operation, which a request
\* of a client starts: the request is sent and the thread waits for the reply.
SmioAccess(i) ==
  /\ ~crashed
  /\ smio[i] \in {"init", "loop", "op"} /\ accesses < MaxAccesses
  /\ smio' = [smio EXCEPT ![i] = IF @ = "init" THEN "init_rpc" ELSE "op_rpc"]
  /\ req' = [req EXCEPT ![i] = TRUE]
  /\ accesses' = accesses + 1
  /\ UNCHANGED <<SmioFrame, mgmt_q, rep, args_freed>>

\* The operation has made its last access.
SmioOpDone(i) ==
  /\ ~crashed
  /\ smio[i] = "op"
  /\ smio' = [smio EXCEPT ![i] = "loop"]
  /\ UNCHANGED <<SmioFrame, mgmt_q, rpcVars, args_freed>>

\* The reply arrives.
SmioReply(i) ==
  /\ ~crashed
  /\ smio[i] \in InAccess /\ rep[i]
  /\ smio' = [smio EXCEPT ![i] = IF @ = "init_rpc" THEN "init" ELSE "op"]
  /\ rep' = [rep EXCEPT ![i] = FALSE]
  /\ UNCHANGED <<SmioFrame, mgmt_q, req, accesses, args_freed>>

(***************************************************************************)
(* A config thread (smio_config_defaults).  The calls of config_defaults   *)
(* are those of a client of the SMIO and end, at the latest, with their    *)
(* timeouts.                                                               *)
(***************************************************************************)
CfgFrame == <<loop, mainVars, crashed, pipe, argVars, hashVars, pipeVars,
              readers, smioVars, cfg_term, rpcVars, jobVars>>

\* config_defaults is over, whatever came of it, and CONFIG DONE is sent.  Seeded
\* defect: it is not sent.
ConfigDoneSilently(i) ==
  /\ ~crashed
  /\ cfg[i] = "config"
  /\ cfg' = [cfg EXCEPT ![i] = "wait_term"]
  /\ UNCHANGED <<CfgFrame, cfg_q>>
ConfigDone(i) ==
  /\ ~crashed
  /\ cfg[i] = "config"
  /\ cfg' = [cfg EXCEPT ![i] = "wait_term"]
  /\ cfg_q' = [cfg_q EXCEPT ![i] = TRUE]
  /\ UNCHANGED CfgFrame

ConfigExit(i) ==
  /\ ~crashed
  /\ cfg[i] = "wait_term" /\ cfg_term[i]
  /\ cfg' = [cfg EXCEPT ![i] = "exit"]
  /\ UNCHANGED <<CfgFrame, cfg_q>>

-----------------------------------------------------------------------------
MainNext == Signal \/ MainCommand \/ MainTeardown \/ MainDestroy \/ MainRelease

DestroyNext ==
  \/ \E k \in Key : DestroyConfig(k) \/ DestroySmio(k)
  \/ ConfigDestroyed \/ SmioDestroyed \/ RegisterUndoneEnd

LoopNext ==
  \/ HandleRegister \/ HandleUnregisterAll \/ HandleUnregister \/ HandleTerm
  \/ LoopInterrupted
  \/ \E i \in Slot : HandleMgmt(i) \/ HandleMsg(i) \/ HandleCfg(i)

\* What an SMIO thread does without waiting for anybody but the reactor.
SmioStep(i) ==
  SmioConnect(i) \/ SmioExit(i) \/ SmioStart(i) \/ SmioOpDone(i) \/ SmioReply(i)

ConfigNext(i) == ConfigDone(i) \/ ConfigExit(i)

Next ==
  \/ MainNext
  \/ DestroyNext
  \/ LoopNext
  \/ \E i \in Slot :
       SmioStep(i) \/ SmioAccess(i) \/ SmioInterrupted(i) \/ ConfigNext(i)

Spec == Init /\ [][Next]_vars

\* The threads are scheduled, zloop serves every readable socket in turn, and
\* every client call of a config thread has a timeout.  Nothing makes a signal,
\* a command, the teardown or an access happen.
Fairness ==
  /\ WF_vars(MainDestroy \/ MainRelease)
  /\ WF_vars(DestroyNext)
  /\ WF_vars(HandleRegister \/ HandleUnregisterAll \/ HandleUnregister \/ HandleTerm)
  /\ \A i \in Slot :
       /\ WF_vars(HandleMgmt(i))
       /\ WF_vars(HandleMsg(i))
       /\ WF_vars(HandleCfg(i))
       /\ WF_vars(SmioStep(i))
       /\ WF_vars(ConfigNext(i))

FairSpec == Spec /\ Fairness

-----------------------------------------------------------------------------
(***************************************************************************)
(* Safety                                                                  *)
(***************************************************************************)

\* A hash entry always points to the actor that was created for its key, and
\* that actor has not been destroyed (_devio_destroy_actor asserts *actor).
NoDanglingReference ==
  \A k \in Key :
    /\ sm_io_h[k] # NULL => pipes_mgmt[sm_io_h[k]] /\ key[sm_io_h[k]] = k
    /\ sm_io_cfg_h[k] # NULL => pipes_config[sm_io_cfg_h[k]] /\ key[sm_io_cfg_h[k]] = k

\* The DEVIO can always reach a thread that still runs: its key is in the hash,
\* or the thread of the registration being undone is being destroyed ("we will
\* loose our reference to the SMIO thread otherwise", _devio_register_sm_raw).
NoLostThread ==
  \A i \in Slot :
    /\ smio[i] \in SmioAlive =>
         /\ pipes_mgmt[i]
         /\ sm_io_h[key[i]] = i \/ (cur.kind = "undo" /\ cur.slot = i)
    /\ cfg[i] \in CfgAlive => pipes_config[i] /\ sm_io_cfg_h[key[i]] = i

\* A key of sm_io_cfg_h is a key of sm_io_h and both entries are of the same
\* registration: the insertion in sm_io_cfg_h that follows one in sm_io_h
\* cannot meet a key left behind.
ConfigBelongsToSmio == \A k \in Key : sm_io_cfg_h[k] \in {NULL, sm_io_h[k]}

\* The reactor never polls a socket that has been destroyed.
PolledSocketsOpen ==
  \A i \in Slot :
    /\ <<"msg", i>> \in readers => pipes_msg[i]
    /\ <<"mgmt", i>> \in readers => pipes_mgmt[i]
    /\ <<"cfg", i>> \in readers => pipes_config[i]

\* An SMIO thread that waits for a reply has exactly one message on its way, the
\* request or its reply; at all other times both directions are empty, so a
\* reply is never taken for the answer to a later request.
OneMessagePerAccess ==
  \A i \in Slot :
    IF smio[i] \in InAccess THEN req[i] # rep[i] ELSE ~req[i] /\ ~rep[i]

\* The reactor ends only when the main thread tears the DEVIO down or a signal
\* arrives: CONFIG DONE always finds its key in sm_io_cfg_h
\* (_devio_handle_pipe_cfg returns -1 otherwise).
ReactorEndsOnTeardown == loop = "ended" => main # "run" \/ interrupted

\* When devio_destroy releases the device no SMIO thread and no config thread
\* runs any more ("Destroy children threads before proceeding").
ChildrenGoneBeforeRelease ==
  main = "done" => \A i \in Slot : smio[i] \notin SmioAlive /\ cfg[i] \notin CfgAlive

\* th_args is given back: by the end of devio_destroy it was freed for every
\* thread that ran, whichever way the thread ended ("the responsability of the
\* calling thread to clear this structure after using it").  It is freed twice
\* only where a registration was undone, before it had a config thread.
ThreadArgsReleased ==
  \A i \in Slot :
    /\ main = "done" /\ key[i] \in Key => args_freed[i] > 0
    /\ args_freed[i] > 1 => cfg[i] = "off" /\ ~pipes_mgmt[i]

\* Of the sockets of the SMIOs at most one outlives devio_destroy ("Destroy all
\* remamining sockets if any"), that of the slot past the end of pipes_msg,
\* and only when all the slots before it have been taken.
OneSocketLeft ==
  main = "done" =>
    \A i \in Slot : pipes_msg[i] => i = NODES_MAX_LEN /\ nnodes = NODES_MAX_LEN + 1

\* A key leaves sm_io_h only once the thread it stands for has returned (the
\* FIXME of _devio_destroy_smio fears the contrary), and never for another one.
ReferenceKeptUntilExit ==
  [][\A k \in Key :
       sm_io_h[k] # NULL /\ sm_io_h'[k] # sm_io_h[k] =>
         sm_io_h'[k] = NULL /\ smio[sm_io_h[k]] = "exit"]_vars

(***************************************************************************)
(* The inductive invariant                                                 *)
(***************************************************************************)

\* A slot that no registration has taken holds nothing.
FreshSlots ==
  \A i \in Slot : i >= nnodes =>
    /\ smio[i] = "off" /\ cfg[i] = "off"
    /\ ~pipes_msg[i] /\ ~pipes_mgmt[i] /\ ~pipes_config[i]
    /\ ~term[i] /\ ~cfg_term[i] /\ ~cfg_q[i] /\ args_freed[i] = 0

\* th_args is freed by the thread when it returns, and once more by the error
\* path of the registration.
ArgsOK ==
  \A i \in Slot :
    /\ smio[i] \in SmioAlive => args_freed[i] = 0
    /\ pipes_mgmt[i] => args_freed[i] <= 1

\* Every actor is known by the hash of its kind, but for that of a registration
\* being undone; every running thread has its actor.
Owned ==
  \A i \in Slot :
    /\ pipes_mgmt[i] =>
         /\ key[i] \in Key
         /\ sm_io_h[key[i]] = i \/ (cur.kind = "undo" /\ cur.slot = i)
    /\ pipes_config[i] => key[i] \in Key /\ sm_io_cfg_h[key[i]] = i
    /\ smio[i] \in SmioAlive => pipes_mgmt[i]
    /\ cfg[i] \in CfgAlive => pipes_config[i]

\* The zactor_destroy in progress is of an actor that exists and that the
\* reactor no longer polls.
CurOK ==
  /\ cur.kind = "idle" => cur = Idle
  /\ cur.kind = "cfg" =>
       /\ cur.key \in Key /\ cur.slot \in Slot
       /\ sm_io_cfg_h[cur.key] = cur.slot
       /\ <<"cfg", cur.slot>> \notin readers
       /\ cur.key \notin cfg_keys
  /\ cur.kind = "smio" =>
       /\ cur.key \in Key /\ cur.slot \in Slot
       /\ sm_io_h[cur.key] = cur.slot
       /\ sm_io_cfg_h[cur.key] = NULL
       /\ <<"mgmt", cur.slot>> \notin readers
       /\ cur.key \notin smio_keys /\ cfg_keys = {}
  /\ cur.kind = "undo" =>
       /\ cur.slot \in Slot /\ pipes_mgmt[cur.slot]
       /\ \A k \in Key : sm_io_h[k] # cur.slot
       /\ <<"mgmt", cur.slot>> \notin readers
       /\ loop = "run" /\ cfg_keys = {} /\ smio_keys = {}

\* The keys still to destroy are keys of the hashes, and every config actor goes
\* before the SMIO actor of its key.
KeysOK ==
  /\ \A k \in cfg_keys : sm_io_cfg_h[k] # NULL
  /\ \A k \in smio_keys :
       /\ sm_io_h[k] # NULL
       /\ sm_io_cfg_h[k] # NULL => k \in cfg_keys \/ (cur.kind = "cfg" /\ cur.key = k)

\* Only the main thread or a signal ends the reactor; then devio_destroy leaves
\* out no key.
PhaseOK ==
  /\ main = "run" => \A n \in DOMAIN pipe : pipe[n].op # "term"
  /\ loop = "ended" => main # "run" \/ interrupted
  /\ main \in {"run", "join"} /\ loop = "ended" =>
       cur = Idle /\ cfg_keys = {} /\ smio_keys = {}
  /\ main \in {"destroy", "done"} =>
       /\ loop = "ended"
       /\ \A k \in Key :
            /\ sm_io_cfg_h[k] # NULL => k \in cfg_keys \/ (cur.kind = "cfg" /\ cur.key = k)
            /\ sm_io_h[k] # NULL => k \in smio_keys \/ (cur.kind = "smio" /\ cur.key = k)
  /\ main = "done" => cur = Idle /\ cfg_keys = {} /\ smio_keys = {}

\* Together with the type invariant these say why every thread of the process
\* can be found and ended: NoLostThread, ReactorEndsOnTeardown and
\* ChildrenGoneBeforeRelease follow from it.
DevioInv ==
  /\ TypeOK
  /\ FreshSlots
  /\ ArgsOK
  /\ NoDanglingReference
  /\ ConfigBelongsToSmio
  /\ PolledSocketsOpen
  /\ OneMessagePerAccess
  /\ Owned
  /\ CurOK
  /\ KeysOK
  /\ PhaseOK

(***************************************************************************)
(* Liveness                                                                *)
(***************************************************************************)

\* A zactor_destroy waits for an SMIO thread that waits for a reply that
\* only the reactor can give: and the reactor has ended or is the one waiting.
BlockedOnAccess ==
  cur.kind \in {"smio", "undo"} /\ smio[cur.slot] \in InAccess /\ req[cur.slot]

\* A teardown ends, unless it meets an SMIO in the middle of an access.
TeardownEndsOrBlocks ==
  main = "join" ~> main = "done" \/ crashed \/ BlockedOnAccess

\* A request for an access is answered, unless the reactor is gone or blocked.
AccessAnswered ==
  \A i \in Slot :
    req[i] ~> ~req[i] \/ crashed \/ loop = "ended" \/ BlockedOnAccess

\* Every config thread is destroyed, whether it has sent CONFIG DONE or not
\* when something else destroys it.
ConfigReaped ==
  \A i \in Slot :
    pipes_config[i] ~> ~pipes_config[i] \/ crashed \/ loop = "ended" \/ BlockedOnAccess

(***************************************************************************)
(* What the comments of the code say and the code does not do.             *)
(***************************************************************************)

\* devio_destroy gets to its end ("Destroy children threads before
\* proceeding").
DestroyEnds == main = "destroy" ~> main = "done"
=============================================================================
