------------------------------- MODULE DevRpc -------------------------------
(***************************************************************************)
(* The register accesses of the SMIO threads, from the thread-safe client  *)
(* functions through the socket to the DEVIO thread, which performs them   *)
(* on the board with the PCIe backend of libllio, and back.  A second      *)
(* process, the DEVIO the daemon starts first to learn the slot number of  *)
(* the board, may still be at work on the same board.                      *)
(***************************************************************************)
EXTENDS PcieAccess

CONSTANTS
    Clients,        \* the SMIO threads
    Requests,       \* the operations they ask for
    CfgRequests,    \* those of the other process; none if it is gone
    SdramWords,     \* the words of the board's memory
    WbWords,        \* and of its Wishbone bus
    Ones,           \* 0xFFFFFFFF, what a read returns that is not answered
    Junk,           \* what an uninitialised buffer holds
    PattSize,       \* PCIE_TIMEOUT_PATT_SIZE, in words
    MaxTries,       \* PCIE_TIMEOUT_MAX_TRIES
    RetBits,        \* the width of a return code
    MaxCalls,       \* calls of a client in a behaviour
    MaxEvents       \* times the board stops to answer, operations of the
                    \* other process

ASSUME RpcAssumption ==
    /\ {Ones, Junk} \subseteq Int /\ {PattSize, MaxTries, RetBits, MaxCalls, MaxEvents} \subseteq Nat
    /\ MaxTries > 0 /\ PattSize > 0
    /\ "none" \notin Clients

OpenRelease(op) == op.does \in {"open", "release"}
Dma(op)         == op.does \in {"read_dma", "write_dma"}
Single(op)      == op.does \in {"read_16", "write_16", "read_32", "write_32", "read_64", "write_64"}

\* What SMIOs ask for: words that exist, of the memory or of the Wishbone bus,
\* and of the bus no block that leaves its page.  The number of words is not
\* one that a negative return code becomes in RetBits bits.
Fits(op) ==
    /\ OpenRelease(op) \/ Dma(op) \/ Single(op) \/ Block(op)
    /\ {op.bar, op.offs, op.size} \subseteq Nat
    /\ op.does \in {"read_32", "write_32"} => op.size = 1
    /\ op.does \in {"read_64", "write_64"} => op.size = 2
    /\ Writes(op) => op.data \in Seq(Int) /\ Len(op.data) = op.size
    /\ op.size < 2^RetBits - LLIO_ERR_FUNC_NOT_IMPL
    /\ Single(op) => op.bar # BAR0NO
    /\ op.bar = BAR2NO => op.offs + op.size <= SdramWords
    /\ op.bar = BAR4NO => op.offs + op.size <= WbWords /\ op.offs < WbWords
    /\ Block(op) /\ op.bar = BAR4NO =>
          (op.offs % WbPgSize) + op.size <= WbPgSize /\ (op.offs % WbPgSize) + op.size < Bar4Size

\* The other process reads registers of the Wishbone bus.
ASSUME RequestsFit ==
    /\ {SdramWords, WbWords, 2^RetBits} \subseteq Nat
    /\ WbWords > 0 /\ WbWords % WbPgSize = 0
    /\ \A op \in Requests : Fits(op)
    /\ \A op \in CfgRequests : Fits(op) /\ op.does = "read_32" /\ op.bar = BAR4NO

VARIABLES
    mem,        \* the words of the board: BAR0 registers, memory, Wishbone
    stuck,      \* the board does not answer
    open,       \* per process, its endpoint is open
    job,        \* per process, the operation its llio performs
    pipe,       \* per SMIO, the message on its socket
    call,       \* per SMIO, the call it is in and its outcome
    served,     \* the SMIO whose message DEVIO handles
    alone,      \* the other process was gone when it began (history)
    effort      \* calls left per SMIO, events left

vars == <<mem, stuck, open, job, pipe, call, served, alone, effort>>

Procs == {"devio", "cfg"}

Sdram == {BAR2NO} \X (0..(SdramWords - 1))
Wb    == {BAR4NO} \X (0..(WbWords - 1))
Bar0  == {BAR0NO} \X {"SDRAM_PG", "WB_PG", "TX_CTRL"}

\* The operation at its start; what the buffer of a read holds is not defined.
Job(op, tries) ==
    [op |-> op, at |-> Start(op), reset |-> FALSE, tries |-> tries, over |-> FALSE,
     buf |-> IF Writes(op) THEN op.data ELSE [i \in 1..op.size |-> Junk]]

NoJob  == [tries |-> 0]
NoPipe == [kind |-> "empty"]
Idle   == [state |-> "idle"]

Init ==
    /\ mem = [a \in Bar0 \cup Sdram \cup Wb |->
                IF a \in Bar0 THEN 0 ELSE IF a \in Sdram THEN a[2] ELSE 100 + a[2]]
    /\ stuck = FALSE
    /\ open = [p \in Procs |-> p = "cfg"]
    /\ job = [p \in Procs |-> NoJob]
    /\ pipe = [c \in Clients |-> NoPipe]
    /\ call = [c \in Clients |-> Idle]
    /\ served = "none"
    /\ alone = (CfgRequests = {})
    /\ effort = [calls |-> [c \in Clients |-> MaxCalls], events |-> MaxEvents, opens |-> 1]

(* ---------------------------- the SMIO thread -------------------------- *)

\* An operation as _read_generic, _write_generic, read_block, write_block and
\* _open_release put it on the socket; the DMA functions send nothing.
Send(c) ==
    /\ call[c] = Idle /\ effort.calls[c] > 0
    /\ effort' = [effort EXCEPT !.calls[c] = @ - 1]
    /\ \E op \in Requests :
        IF Dma(op)
        THEN /\ call' = [call EXCEPT ![c] = [state |-> "done", op |-> op, ret |-> -1, data |-> << >>]]
             /\ UNCHANGED pipe
        ELSE /\ call' = [call EXCEPT ![c] = [state |-> "waiting", op |-> op]]
             /\ pipe' = [pipe EXCEPT ![c] = [kind |-> "request", op |-> op]]
    /\ UNCHANGED <<mem, stuck, open, job, served, alone>>

\* _recv_confirmation and _recv_rw: the reply code, the return code that must
\* be the size of the data, and at least the data asked for.
recv_rw(m, size, accept_empty) ==
    IF m.code # 0 THEN [ret |-> -1, data |-> << >>]
    ELSE IF "ret" \notin DOMAIN m
    THEN [ret |-> IF accept_empty THEN 0 ELSE -1, data |-> << >>]
    ELSE IF m.ret # Len(m.data) \/ Len(m.data) < size THEN [ret |-> -1, data |-> << >>]
    ELSE [ret |-> size, data |-> SubSeq(m.data, 1, size)]

\* The number a call returns: a read its size, a write what the backend
\* returned, as an unsigned number; open and release the reply code.
Returned(op, m) ==
    IF OpenRelease(op)
    THEN [ret |-> IF m.code = 0 THEN 0 ELSE -1, data |-> << >>]
    ELSE IF Writes(op)
    THEN LET r == recv_rw(m, 1, FALSE)
         IN  [ret |-> IF r.ret = 1 THEN r.data[1] % 2^RetBits ELSE -1, data |-> << >>]
    ELSE recv_rw(m, op.size, TRUE)

Receive(c) ==
    /\ call[c].state = "waiting" /\ pipe[c].kind = "reply"
    /\ pipe' = [pipe EXCEPT ![c] = NoPipe]
    /\ LET r == Returned(call[c].op, pipe[c])
       IN  call' = [call EXCEPT ![c] =
                [state |-> "done", op |-> @.op, ret |-> r.ret, data |-> r.data]]
    /\ UNCHANGED <<mem, stuck, open, job, served, alone, effort>>

\* What every caller compares the returned number with.
Succeeded(k) ==
    IF OpenRelease(k.op) THEN k.ret = 0 ELSE k.ret = k.op.size

Proceed(c) ==
    /\ call[c].state = "done"
    /\ call' = [call EXCEPT ![c] = Idle]
    /\ UNCHANGED <<mem, stuck, open, job, pipe, served, alone, effort>>

(* ---------------------------- the DEVIO thread ------------------------- *)

\* What the handlers of the server return to the dispatcher: a read what the
\* backend returns, a write its own size with the backend's return value as
\* the data, open and release a failure or likewise the size.
thsafe_read(ret, data) == [ret |-> ret, data |-> data]
thsafe_write(ret)      == [ret |-> 1, data |-> <<ret>>]
thsafe_open(ret)       == [ret |-> IF ret < 0 THEN ret ELSE 1, data |-> <<ret>>]

thsafe_block(op, ret, data) == IF Writes(op) THEN thsafe_write(ret) ELSE thsafe_read(ret, data)

\* The answer has a return code and data only if the handler returned a
\* positive number.
Response(op, ret, data) ==
    LET h == IF OpenRelease(op) THEN thsafe_open(ret)
             ELSE IF Block(op) THEN thsafe_block(op, ret, data)
             ELSE IF Writes(op) THEN thsafe_write(ret) ELSE thsafe_read(ret, data)
    IN  IF h.ret <= 0 THEN [kind |-> "reply", code |-> -h.ret]
        ELSE [kind |-> "reply", code |-> 0, ret |-> h.ret, data |-> h.data]

\* pcie_open when the device is closed: the request brings an endpoint, and
\* llio_set_endpoint replaces one only while the device is open.
OpenResult == IF open["devio"] THEN 0 ELSE -1

\* A message is taken from a socket.  An operation without accesses is
\* answered at once; open and release change the endpoint.
Handle(c) ==
    /\ open["devio"] \/ effort.opens = 0
    /\ served = "none" /\ pipe[c].kind = "request"
    /\ LET op == pipe[c].op
       IN  CASE op.does = "open" ->
                  /\ pipe' = [pipe EXCEPT ![c] = Response(op, OpenResult, << >>)]
                  /\ UNCHANGED <<open, job, served, alone>>
             [] op.does = "release" ->
                  /\ open' = [open EXCEPT !["devio"] = FALSE]
                  /\ pipe' = [pipe EXCEPT ![c] = Response(op, 0, << >>)]
                  /\ UNCHANGED <<job, served, alone>>
             [] ~OpenRelease(op) /\ Refused(op, open["devio"]) < 1 ->
                  /\ pipe' = [pipe EXCEPT ![c] =
                        Response(op, Refused(op, open["devio"]), << >>)]
                  /\ UNCHANGED <<open, job, served, alone>>
             [] OTHER ->
                  /\ served' = c /\ alone' = (~open["cfg"] \/ CfgRequests = {})
                  /\ job' = [job EXCEPT !["devio"] = Job(op, 1)]
                  /\ UNCHANGED <<open, pipe>>
    /\ UNCHANGED <<mem, stuck, call, effort>>

\* The handler returns to the loop of DEVIO, which sends the answer.
Answer(c, ret, data) ==
    /\ pipe' = [pipe EXCEPT ![c] = Response(pipe[c].op, ret, data)]
    /\ served' = "none"

(* ----------------------- the backend and the board --------------------- *)

\* devio_new opens the device; a failure is not reported and leaves it closed.
DevOpen ==
    /\ effort.opens > 0 /\ ~open["devio"]
    /\ \E ok \in BOOLEAN : open' = [open EXCEPT !["devio"] = ok]
    /\ effort' = [effort EXCEPT !.opens = @ - 1]
    /\ mem' = [mem EXCEPT ![<<BAR0NO, "SDRAM_PG">>] = 0, ![<<BAR0NO, "WB_PG">>] = 0]
    /\ UNCHANGED <<stuck, job, pipe, call, served, alone>>

\* The word that is seen at a place of a window.
Seen(bar, at) == <<bar, mem[BAR0NO, PgReg(bar)] * PgSize(bar) + at>>

\* The loops of the operation have come to their end.
Complete(p) == job[p] # NoJob /\ ~job[p].reset /\ Over(job[p].op, job[p].at)

AtWork(p) == job[p] # NoJob /\ ~job[p].reset /\ ~Over(job[p].op, job[p].at)

\* The transmitter of the board is reset, which may make it answer again.
Reset(p) ==
    /\ job[p] # NoJob /\ job[p].reset
    /\ mem' = [mem EXCEPT ![<<BAR0NO, "TX_CTRL">>] = 1]
    /\ stuck' \in {stuck, FALSE}
    /\ job' = [job EXCEPT ![p].reset = FALSE]
    /\ UNCHANGED <<open, pipe, call, served, alone, effort>>

SelectPage(p) ==
    /\ AtWork(p) /\ job[p].at.word = 0
    /\ LET j == job[p]
       IN  /\ mem' = [mem EXCEPT ![<<BAR0NO, PgReg(j.op.bar)>>] = Turn(j.op, j.at).page]
           /\ job' = [job EXCEPT ![p].at = Advance(j.op, j.at)]
    /\ UNCHANGED <<stuck, open, pipe, call, served, alone, effort>>

\* One word goes to the board or comes from it.
Transfer(p) ==
    /\ AtWork(p) /\ job[p].at.word > 0
    /\ LET j == job[p]
           t == Turn(j.op, j.at)
           n == t.before + j.at.word
           a == Seen(j.op.bar, t.at + j.at.word - 1)
       IN  IF Writes(j.op)
           THEN /\ mem' = IF stuck THEN mem ELSE [mem EXCEPT ![a] = j.op.data[n]]
                /\ job' = [job EXCEPT ![p].at = Advance(j.op, j.at)]
           ELSE /\ job' = [job EXCEPT ![p] =
                     [j EXCEPT !.at = Advance(j.op, j.at),
                               !.buf[n] = IF stuck THEN Ones ELSE mem[a]]]
                /\ UNCHANGED mem
    /\ UNCHANGED <<stuck, open, pipe, call, served, alone, effort>>

Access(p) == Reset(p) \/ SelectPage(p) \/ Transfer(p)

\* The words a block transferred look like a timeout.
TimeoutPattern(op, buf) ==
    Block(op) /\ op.size >= PattSize /\ \A i \in 1..PattSize : buf[i] = Ones

\* The transfer is complete: a block that looks like a timeout resets the
\* transmitter and is repeated, until it was tried MaxTries times.
FinishCounting(counted) ==
    /\ Complete("devio")
    /\ LET j == job["devio"]
           t == TimeoutPattern(j.op, j.buf)
       IN  IF t /\ ~j.over
           THEN /\ job' = [job EXCEPT !["devio"] =
                     IF j.tries < MaxTries
                     THEN [Job(j.op, j.tries + counted) EXCEPT !.reset = TRUE]
                     ELSE [j EXCEPT !.reset = TRUE, !.over = TRUE]]
                /\ UNCHANGED <<pipe, served>>
           ELSE /\ job' = [job EXCEPT !["devio"] = NoJob]
                /\ Answer(served, IF t THEN -1 ELSE j.op.size, j.buf)
    /\ UNCHANGED <<mem, stuck, open, call, alone, effort>>

\* Seeded defect: the tries are not counted.
FinishUncounted == FinishCounting(0)

Finish == FinishCounting(1)

\* The board stops to answer, until a reset makes it answer again, or for good.
Stall ==
    /\ ~stuck /\ effort.events > 0
    /\ stuck' = TRUE /\ effort' = [effort EXCEPT !.events = @ - 1]
    /\ UNCHANGED <<mem, open, job, pipe, call, served, alone>>

(* ---------------------- the DEVIO that finds the slot ------------------ *)

\* The other process performs an operation of its own.
CfgStart ==
    /\ open["cfg"] /\ job["cfg"] = NoJob /\ effort.events > 0
    /\ effort' = [effort EXCEPT !.events = @ - 1]
    /\ \E op \in CfgRequests :
           job' = [job EXCEPT !["cfg"] = Job(op, 1)]
    /\ UNCHANGED <<mem, stuck, open, pipe, call, served, alone>>

CfgFinish ==
    /\ Complete("cfg")
    /\ job' = [job EXCEPT !["cfg"] = NoJob]
    /\ UNCHANGED <<mem, stuck, open, pipe, call, served, alone, effort>>

\* The signal the daemon sent it takes effect.
CfgDies ==
    /\ open["cfg"] /\ CfgRequests # {}
    /\ open' = [open EXCEPT !["cfg"] = FALSE] /\ job' = [job EXCEPT !["cfg"] = NoJob]
    /\ UNCHANGED <<mem, stuck, pipe, call, served, alone, effort>>

Next ==
    \/ \E c \in Clients : Send(c) \/ Receive(c) \/ Proceed(c) \/ Handle(c)
    \/ DevOpen \/ Finish \/ Stall
    \/ \E p \in Procs : Access(p)
    \/ CfgStart \/ CfgFinish \/ CfgDies

Spec == Init /\ [][Next]_vars

\* The DEVIO thread goes on while it has something to do and looks at every
\* socket; the SMIO threads wait in a receive that returns when the answer is
\* there.
FairSpec ==
    /\ Spec
    /\ WF_vars(DevOpen) /\ WF_vars(Access("devio")) /\ WF_vars(Finish)
    /\ \A c \in Clients : WF_vars(Handle(c)) /\ WF_vars(Receive(c))

(* What the functions promise, and how this module keeps it. *)
Length(op) == IF OpenRelease(op) THEN 0 ELSE op.size

Place(op, n) == <<op.bar, IF Block(op) THEN op.offs + n - 1 ELSE op.offs>>

SamePlace(a) ==
    {b \in Sdram \cup Wb :
        b[1] = a[1] /\ LET pg == IF a[1] = BAR2NO THEN SdramPgSize ELSE WbPgSize
                      IN  b[2] % pg = a[2] % pg}

\* The words that the current try has transferred.
Moved(op, l) == (op.size - l.rem) + (IF l.word = 0 THEN 0 ELSE l.word - 1)

Shown(c) ==
    CASE call[c].state = "idle" -> Idle
      [] call[c].state = "waiting" /\ pipe[c].kind = "request" ->
            [state |-> "asked", op |-> call[c].op]
      [] OTHER ->
            LET op == call[c].op
                r  == IF call[c].state = "done" THEN call[c] ELSE Returned(op, pipe[c])
                ok == Succeeded([op |-> op, ret |-> r.ret])
            IN  [state |-> "answered", op |-> op, ok |-> ok, data |-> r.data]

Abstract ==
    INSTANCE RemoteAccess WITH
        Memory <- Sdram \cup Wb,
        Again  <- TimeoutPattern,
        Mirrors <- SamePlace,
        Store  <- Writes,
        mem    <- [a \in Sdram \cup Wb |-> mem[a]],
        turn   <- served,
        call   <- [c \in Clients |-> Shown(c)],
        moved  <- IF served = "none" THEN << >>
                  ELSE SubSeq(job["devio"].buf, 1, Moved(job["devio"].op, job["devio"].at))

(* The register accesses of the SMIOs keep the promise of RemoteAccess: the *)
(* operations of two SMIOs never mix, each word is transferred at its own   *)
(* address however the pages lie, a call that succeeds has transferred all  *)
(* its words, and one that failed returns no data.                          *)
Refines == Abstract!Spec

(* Every call returns, also on a board that does not answer any more: the   *)
(* repetition of a block that looks like a timeout comes to an end.         *)
EveryCallReturns == \A c \in Clients : call[c].state = "waiting" ~> call[c].state = "done"
=============================================================================
