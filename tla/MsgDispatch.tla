----------------------------- MODULE MsgDispatch -----------------------------
(***************************************************************************)
(* The way of a request through src/msg/msg.c and libdisptable: from the   *)
(* frames of a message to the operation it names, and from what that       *)
(* operation returns to the reply.                                         *)
(*                                                                         *)
(* An operation is [opcode, args]: args holds the sizes of its arguments,  *)
(* with var for an argument that may be shorter.  A message is a sequence  *)
(* of frames [size, val]; the tag that tells the two kinds of messages     *)
(* apart is the one the receiver puts on it.  A dispatch table is a        *)
(* function from opcodes to operations.                                    *)
(***************************************************************************)
EXTENDS Integers, Sequences, TLC

MSG_OPCODE_SIZE == 4

MSG_OPCODE_MAX == 200

PARAM_OK == 0

PARAM_ERR == 1

(***************************************************************************)
(* The dispatch table.                                                     *)
(***************************************************************************)

\* An insertion fails when the opcode is there already, or, with lacks, for
\* want of memory; it then takes back what it allocated.
_disp_table_insert(table, op, lacks) ==
    [ok |-> ~lacks /\ op.opcode \notin DOMAIN table,
     table |-> IF lacks \/ op.opcode \in DOMAIN table THEN table
               ELSE table @@ (op.opcode :> op)]

\* All operations up to the first that fails; memory runs out at operation
\* number lacks, if at all.  The result is success in any case: the error of
\* the insertion is assigned to a variable of the loop's body.
_disp_table_insert_all(table, ops, lacks) ==
    LET after[i \in 0..Len(ops)] ==
          IF i = 0 THEN [ok |-> TRUE, table |-> table]
          ELSE IF ~after[i - 1].ok THEN after[i - 1]
          ELSE _disp_table_insert(after[i - 1].table, ops[i], i = lacks)
    IN  [ok |-> TRUE, table |-> after[Len(ops)].table]

\* Removing all operations leaves nothing, the return values included.
_disp_table_remove_all(table) == <<>>

(***************************************************************************)
(* Arguments.                                                              *)
(***************************************************************************)

msg_check_gen_zmq_args(op, frames) ==
    /\ \A i \in DOMAIN op.args :
          /\ i <= Len(frames)
          /\ frames[i].size <= op.args[i].size
          /\ op.args[i].var \/ frames[i].size = op.args[i].size
    /\ Len(frames) <= Len(op.args)

(***************************************************************************)
(* A request of an SMIO, which comes from the broker.                      *)
(***************************************************************************)

\* The opcode is the first frame, and is taken off the message.
_msg_gen_get_opcode(msg) ==
    /\ msg # <<>>
    /\ Head(msg).size = MSG_OPCODE_SIZE
    /\ Head(msg).val < MSG_OPCODE_MAX

\* Whether the operation is called: it is registered and the arguments fit.
disp_table_check_call(table, msg) ==
    /\ Head(msg).val \in DOMAIN table
    /\ msg_check_gen_zmq_args(table[Head(msg).val], Tail(msg))

Runs(table, msg) == _msg_gen_get_opcode(msg) /\ disp_table_check_call(table, msg)

\* The reply to an operation that returned ret: an error code alone, or
\* PARAM_OK with as many bytes as ret says.
_msg_format_client_response(ret) ==
    IF ret <= 0 THEN [code |-> -ret, data |-> FALSE]
    ELSE [code |-> PARAM_OK, data |-> TRUE]

\* Seeded defect: a request that was not run is not answered.
handle_request_silent(table, msg, ret) ==
    IF Runs(table, msg) THEN <<_msg_format_client_response(ret)>> ELSE <<>>

\* The reply to a message whose operation, if it is called, returns ret.
msg_handle_mlm_request(table, msg, ret) ==
    IF ~_msg_gen_get_opcode(msg) THEN <<[code |-> PARAM_ERR, data |-> FALSE]>>
    ELSE <<_msg_format_client_response(IF disp_table_check_call(table, msg) THEN ret ELSE -1)>>
=============================================================================
