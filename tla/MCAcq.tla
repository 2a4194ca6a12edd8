-------------------------------- MODULE MCAcq --------------------------------
(***************************************************************************)
(* Small instances of Acq.  Channels 0 and 2 share their memory, as        *)
(* channels of the boards do; samples have one or two bytes, the payload   *)
(* four and a block eight.                                                 *)
(***************************************************************************)
EXTENDS Acq, TLC

MCChan == 0 .. 2

MCBuf ==
    LET b(start, size) == [start_addr |-> start, end_addr |-> start + 16 - size,
                           max_samples |-> (16 - size) \div size, sample_size |-> size]
    IN  (0 :> b(0, 1)) @@ (1 :> b(16, 2)) @@ (2 :> b(0, 1))

Req(pre, post, shots, chan) == [pre |-> pre, post |-> post, shots |-> shots, chan |-> chan]

(* Exactly a block; samples on both sides of the trigger; two shots; one   *)
(* on the shared memory.                                                   *)
MCRequest == {Req(8, 0, 1, 0), Req(3, 4, 1, 0), Req(2, 0, 2, 1), Req(5, 0, 1, 2)}

(* Refused for the number of samples or for the channel.                   *)
MCRefused == {Req(8, 8, 1, 0), Req(4, 0, 1, 3)}

MCRequestAll == MCRequest \cup MCRefused

(* Sizes below, at and above a multiple of the payload and of the block;   *)
(* refused for the number of samples per shot, and for that of the shots;  *)
(* within the limit before the samples are rounded, not after; samples     *)
(* whose sum is more than 32 bits hold, and samples that exceed the limit. *)
MCRequestMany ==
    {Req(p, 0, 1, ch) : p \in {4, 7, 8, 9, 15}, ch \in 0 .. 1}
        \cup {Req(p, 3, s, 0) : p \in {0, 1, 4}, s \in 1 .. 2}
        \cup {Req(8, 0, 2, 1), Req(4, 0, 0, 0)}
        \cup {Req(5, 10, 1, 0), Req(40, 30, 1, 0), Req(12, 14, 1, 0)}
==============================================================================
