------------------------------ MODULE BoardBus ------------------------------
(***************************************************************************)
(* What the drivers of one SMIO have in common.  A SMIO is one thread: it  *)
(* runs one call of a driver at a time, transfer by transfer, and the      *)
(* hardware moves on between two transfers.                                *)
(***************************************************************************)
EXTENDS SmPr, TLC

CONSTANTS
    Boards,     \* the SMIOs to look at, one at a time; of the clock board's chips
                \* one at a time, and the AD9510's configuration by itself
    MaxCalls,   \* bound: the calls made, for each board
    MaxFaults   \* bound: the transfers that fail, for each board

VARIABLES
    board,      \* the SMIO this behaviour is about
    spent       \* how much of the two bounds is used

BusInit == board \in Boards /\ spent = [calls |-> 0, faults |-> 0]

Call == spent.calls < MaxCalls[board] /\ spent' = [spent EXCEPT !.calls = @ + 1]

Costs(n) ==
    /\ spent.faults + n <= MaxFaults[board]
    /\ spent' = [spent EXCEPT !.faults = @ + n]

Fault(failed) == Costs(IF failed THEN 1 ELSE 0)

BusTypeOK ==
    /\ board \in Boards
    /\ spent \in [calls : 0..MaxCalls[board], faults : 0..MaxFaults[board]]
=============================================================================
