---------------------------- MODULE RemoteAccess ----------------------------
(***************************************************************************)
(* What the register access functions of an SMIO promise.  The SMIOs of a  *)
(* board share its memory; the operations take their turn one at a time,   *)
(* and the one whose turn it is transfers its words one after the other,   *)
(* each at its own address.  An operation that succeeds has transferred    *)
(* all of them; while the board does not answer, a word read is all ones   *)
(* and a word written is lost.  As long as another process is at work on   *)
(* the same board, a word may be transferred at the same place of another  *)
(* page instead.                                                           *)
(***************************************************************************)
EXTENDS Integers, Sequences

CONSTANTS
    Clients,    \* the SMIOs
    Memory,     \* the addresses of the board's words
    Requests,   \* the operations they may ask for
    Ones,       \* the word of an access that is not answered
    Length(_),  \* the number of words an operation transfers
    Place(_, _),\* the address of the nth word of an operation
    Mirrors(_), \* the addresses at the same place of their page as this one
    Store(_),   \* whether an operation writes
    Again(_, _) \* whether a transfer of these words is repeated

VARIABLES
    mem,        \* the memory of the board
    stuck,      \* the board does not answer
    alone,      \* no other process is at work on the board in this turn
    turn,       \* the client whose operation is performed, or "none"
    call,       \* per client, what it waits for
    moved       \* the words moved so far in this turn

vars == <<mem, stuck, alone, turn, call, moved>>

Idle == [state |-> "idle"]

Init ==
    /\ mem \in [Memory -> Int]
    /\ stuck = FALSE /\ alone \in BOOLEAN
    /\ turn = "none"
    /\ call = [c \in Clients |-> Idle]
    /\ moved = << >>

\* A client asks for an operation and waits.
Ask(c) ==
    /\ call[c] = Idle
    /\ \E op \in Requests : call' = [call EXCEPT ![c] = [state |-> "asked", op |-> op]]
    /\ UNCHANGED <<mem, stuck, alone, turn, moved>>

Answered(op, ok, data) == [state |-> "answered", op |-> op, ok |-> ok, data |-> data]

\* An operation that cannot be performed is refused; one without words, which
\* opens or closes the device, may succeed.
Refuse(c) ==
    /\ \/ call[c] = Idle /\ \E op \in Requests : call' = [call EXCEPT ![c] = Answered(op, FALSE, << >>)]
       \/ /\ turn = "none" /\ call[c].state = "asked"
          /\ \E ok \in BOOLEAN :
                 /\ ok => Length(call[c].op) = 0
                 /\ call' = [call EXCEPT ![c] = Answered(call[c].op, ok, << >>)]
    /\ UNCHANGED <<mem, stuck, alone, turn, moved>>

\* Its turn begins when no other operation is performed; a process that has
\* gone does not come back.
Begin(c) ==
    /\ turn = "none" /\ call[c].state = "asked"
    /\ turn' = c /\ moved' = << >> /\ alone' \in {alone, TRUE}
    /\ UNCHANGED <<mem, stuck, call>>

\* The next word is transferred, if the board answers.
Word(c) ==
    /\ turn = c /\ Len(moved) < Length(call[c].op)
    /\ LET op == call[c].op
           n  == Len(moved) + 1
           A  == IF alone THEN {Place(op, n)} ELSE Mirrors(Place(op, n))
       IN  IF Store(op)
           THEN /\ moved' = Append(moved, op.data[n])
                /\ \E a \in A : mem' = IF stuck THEN mem ELSE [mem EXCEPT ![a] = op.data[n]]
           ELSE /\ \E a \in A : moved' = Append(moved, IF stuck THEN Ones ELSE mem[a])
                /\ UNCHANGED mem
    /\ UNCHANGED <<stuck, alone, turn, call>>

\* A complete transfer that looks as if nothing had answered is repeated.
Repeat(c) ==
    /\ turn = c /\ Len(moved) = Length(call[c].op) /\ Again(call[c].op, moved)
    /\ moved' = << >>
    /\ UNCHANGED <<mem, stuck, alone, turn, call>>

\* The turn ends, with success only when every word was transferred.
End(c) ==
    /\ turn = c
    /\ \E ok \in BOOLEAN :
           /\ ok => Len(moved) = Length(call[c].op) /\ ~Again(call[c].op, moved)
           /\ call' = [call EXCEPT ![c] =
                  Answered(call[c].op, ok, IF ok /\ ~Store(call[c].op) THEN moved ELSE << >>)]
    /\ turn' = "none" /\ moved' = << >>
    /\ UNCHANGED <<mem, stuck, alone>>

\* The client goes on with the answer.
Take(c) ==
    /\ call[c].state = "answered"
    /\ call' = [call EXCEPT ![c] = Idle]
    /\ UNCHANGED <<mem, stuck, alone, turn, moved>>

\* The board stops to answer, or answers again.
Board ==
    /\ stuck' = ~stuck
    /\ UNCHANGED <<mem, alone, turn, call, moved>>

Next ==
    \/ Board
    \/ \E c \in Clients : Ask(c) \/ Refuse(c) \/ Begin(c) \/ Word(c) \/ Repeat(c) \/ End(c) \/ Take(c)

Spec == Init /\ [][Next]_vars
=============================================================================
