---------------------------- MODULE DevRpcProofs ----------------------------
(***************************************************************************)
(* DevRpc implements RemoteAccess, for every number of SMIOs, every size   *)
(* of the pages and of the memory, and all the requests that fit.          *)
(***************************************************************************)
EXTENDS DevRpcInv

(* Provers of a leaf that names none, with their time limits in seconds.     *)
USE SMTT(20), ZenonT(20)

(* -------------------------- steps of the board ------------------------- *)

\* The registers of BAR0 are not words of the memory or of the bus.
LEMMA Registers ==
  ASSUME NEW r \in {"SDRAM_PG", "WB_PG", "TX_CTRL"}
  PROVE  /\ <<BAR0NO, r>> \in Addr
         /\ \A a \in Sdram \cup Wb : a \in Addr /\ a # <<BAR0NO, r>>
BY DEF Addr, Bar0, Sdram, Wb, BAR0NO, BAR2NO, BAR4NO

\* There is a first page of the Wishbone bus.
LEMMA FirstPage == WbPgSize * 0 + WbPgSize <= WbWords
<1>1. WbWords \in Nat /\ WbWords > 0 /\ WbWords % WbPgSize = 0 /\ WbPgSize \in Nat \ {0}
  BY RequestsFit, PageSizes
<1>2. 0 \div WbPgSize = 0
  BY <1>1
<1>3. WbPgSize * (0 \div WbPgSize) + WbPgSize <= WbWords
  BY <1>1, WholePages
<1> QED BY <1>2, <1>3

\* No message moves.
LEMMA MessagesKept ==
  ASSUME UNCHANGED <<call, pipe>>
  PROVE  [d \in Clients |-> Shown(d)]' = [d \in Clients |-> Shown(d)]
BY DEF Shown

\* DevOpen clears registers that RemoteAccess does not show.
LEMMA DevOpenStep ==
  ASSUME RpcInv, DevOpen
  PROVE  RpcInv' /\ [Abstract!Next]_(Abstract!vars)
<1>0. PICK one : one = [mem EXCEPT ![<<BAR0NO, "SDRAM_PG">>] = 0]
  BY Zenon
<1>1. /\ UNCHANGED <<stuck, job, pipe, call, served, alone>>
      /\ effort.opens > 0 /\ ~open["devio"]
      /\ effort' = [effort EXCEPT !.opens = effort.opens - 1]
      /\ mem' = [one EXCEPT ![<<BAR0NO, "WB_PG">>] = 0]
  BY <1>0 DEF DevOpen
<1>2. PICK ok \in BOOLEAN : open' = [open EXCEPT !["devio"] = ok]
  BY Zenon DEF DevOpen
<1>3. /\ mem \in [Addr -> Int] /\ open \in [Procs -> BOOLEAN]
      /\ effort \in [calls : [Clients -> Int], events : Int, opens : {0, 1}]
  BY DEF RpcInv, Types
<1>4. /\ effort' \in [calls : [Clients -> Int], events : Int, opens : {0, 1}] /\ effort'.opens = 0
      /\ open' \in [Procs -> BOOLEAN] /\ open'["cfg"] = open["cfg"]
  BY <1>1, <1>2, <1>3 DEF Procs
<1>5. served = "none"
  BY <1>1 DEF RpcInv, ServedInv
<1>6. one \in [Addr -> Int] /\ [a \in Sdram \cup Wb |-> one[a]] = [a \in Sdram \cup Wb |-> mem[a]]
  BY <1>0, <1>3, Registers
<1>7. /\ mem' \in [Addr -> Int] /\ mem'[<<BAR0NO, "WB_PG">>] = 0
      /\ [a \in Sdram \cup Wb |-> mem'[a]] = [a \in Sdram \cup Wb |-> one[a]]
  BY <1>1, <1>6, Registers
<1>8. Types'
  BY <1>1, <1>4, <1>7 DEF RpcInv, Types
<1>9. \A c \in Clients : ClientInv(c)'
  BY <1>1 DEF RpcInv, ClientInv
<1>10. ServedInv'
  BY <1>1, <1>4, <1>5 DEF RpcInv, ServedInv
<1>11. CfgInv'
  BY <1>1, <1>4 DEF RpcInv, CfgInv, JobInv
<1>12. WbPageInv'
  BY <1>7, FirstPage DEF WbPageInv
<1>13. RpcInv'
  BY <1>8, <1>9, <1>10, <1>11, <1>12 DEF RpcInv
<1>14. [a \in Sdram \cup Wb |-> mem[a]]' = [a \in Sdram \cup Wb |-> mem[a]]
  BY <1>6, <1>7
<1>15. UNCHANGED Abstract!vars
  BY <1>1, <1>5, <1>14, MessagesKept DEF Abstract!vars
<1> QED BY <1>13, <1>15

\* The board stops answering.
LEMMA StallStep ==
  ASSUME RpcInv, Stall
  PROVE  RpcInv' /\ [Abstract!Next]_(Abstract!vars)
<1>1. /\ UNCHANGED <<mem, open, job, pipe, call, served, alone>>
      /\ ~stuck /\ stuck' = TRUE /\ effort' = [effort EXCEPT !.events = effort.events - 1]
  BY DEF Stall
<1>2. /\ effort \in [calls : [Clients -> Int], events : Int, opens : {0, 1}] /\ stuck \in BOOLEAN
  BY DEF RpcInv, Types
<1>3. effort' \in [calls : [Clients -> Int], events : Int, opens : {0, 1}] /\ effort'.opens = effort.opens
  BY <1>1, <1>2
<1>4. Types'
  BY <1>1, <1>3 DEF RpcInv, Types
<1>5. \A c \in Clients : ClientInv(c)'
  BY <1>1 DEF RpcInv, ClientInv
<1>6. ServedInv'
  BY <1>1, <1>3 DEF RpcInv, ServedInv, JobInv, PageInv
<1>7. CfgInv' /\ WbPageInv'
  BY <1>1 DEF RpcInv, CfgInv, WbPageInv, JobInv
<1>8. stuck' = ~stuck
  BY <1>1, <1>2, Zenon
<1>9. Abstract!Board
  BY <1>1, <1>8, MessagesKept DEF Abstract!Board
<1> QED BY <1>4, <1>5, <1>6, <1>7, <1>9 DEF RpcInv, Abstract!Next

\* A step of a backend that has an operation under way.
LEMMA BackendStep ==
  ASSUME RpcInv, UNCHANGED <<open, pipe, call, served, alone, effort>>,
         stuck' \in BOOLEAN, mem' \in [Addr -> Int], job' \in [Procs -> Jobs \cup {NoJob}],
         \A q \in Procs : /\ job'[q] = NoJob <=> job[q] = NoJob
                          /\ job[q] # NoJob => job'[q].op = job[q].op,
         \A q \in Procs : job[q] # NoJob => JobInv(job'[q]),
         served # "none" => PageInv(job["devio"])',
         WbPageInv'
  PROVE  RpcInv' /\ [d \in Clients |-> Shown(d)]' = [d \in Clients |-> Shown(d)]
<1>1. Types'
  BY DEF RpcInv, Types
<1>2. \A c \in Clients : ClientInv(c)'
  BY DEF RpcInv, ClientInv
<1>3. ServedInv'
  <2>1. served # "none" => JobInv(job'["devio"])
    BY DEF RpcInv, ServedInv, Procs
  <2>2. served # "none" => JobInv(job["devio"])'
    BY <2>1 DEF JobInv
  <2> QED BY <2>2 DEF RpcInv, ServedInv, Procs
<1>4. CfgInv'
  <2>1. job["cfg"] # NoJob => JobInv(job'["cfg"])
    BY DEF Procs
  <2>2. job["cfg"] # NoJob => JobInv(job["cfg"])'
    BY <2>1 DEF JobInv
  <2> QED BY <2>2 DEF RpcInv, CfgInv, Procs
<1> QED BY <1>1, <1>2, <1>3, <1>4, MessagesKept DEF RpcInv

\* A job is told from none.
LEMMA NotNoJob == NoJob \notin Jobs
<1>1. \A j \in Jobs : "op" \in DOMAIN j
  BY DEF Jobs
<1>2. "op" \notin DOMAIN NoJob
  BY DEF NoJob
<1> QED BY <1>1, <1>2

\* Reset of the timeout register: RemoteAccess does not show it.
LEMMA ResetStep ==
  ASSUME RpcInv, NEW p \in Procs, Reset(p)
  PROVE  RpcInv' /\ [Abstract!Next]_(Abstract!vars)
<1>1. /\ mem' = [mem EXCEPT ![<<BAR0NO, "TX_CTRL">>] = 1] /\ stuck' \in {stuck, FALSE}
      /\ job[p] # NoJob /\ UNCHANGED <<open, pipe, call, served, alone, effort>>
  BY Zenon DEF Reset
<1>2. PICK k : k = [job[p] EXCEPT !.reset = FALSE]
  BY Zenon
<1>3. job' = [job EXCEPT ![p] = k]
  BY <1>2 DEF Reset
<1>4. /\ mem \in [Addr -> Int] /\ stuck \in BOOLEAN /\ job \in [Procs -> Jobs \cup {NoJob}]
      /\ job[p] \in Jobs
  BY <1>1 DEF RpcInv, Types
<1>5. k \in Jobs /\ k.op = job[p].op /\ k.at = job[p].at /\ k.buf = job[p].buf
  BY <1>2, <1>4, Zenon DEF Jobs
<1>6. /\ mem' \in [Addr -> Int] /\ [a \in Sdram \cup Wb |-> mem'[a]] = [a \in Sdram \cup Wb |-> mem[a]]
      /\ mem'[<<BAR0NO, "SDRAM_PG">>] = mem[<<BAR0NO, "SDRAM_PG">>]
      /\ mem'[<<BAR0NO, "WB_PG">>] = mem[<<BAR0NO, "WB_PG">>]
  BY <1>1, <1>4, Registers
<1>7. /\ job' \in [Procs -> Jobs \cup {NoJob}]
      /\ \A q \in Procs : q # p => job'[q] = job[q]
      /\ job'[p] = k
  BY <1>3, <1>4, <1>5
<1>8. \A q \in Procs : /\ job'[q] = NoJob <=> job[q] = NoJob
                       /\ job[q] # NoJob => /\ job'[q].op = job[q].op /\ job'[q].at = job[q].at
                                            /\ job'[q].buf = job[q].buf
  BY <1>4, <1>5, <1>7, NotNoJob
<1>9. \A q \in Procs : job[q] # NoJob => JobInv(job'[q])
  <2>1. \A q \in Procs : job[q] # NoJob => JobInv(job[q])
    BY DEF RpcInv, ServedInv, CfgInv, Procs
  <2> QED BY <1>8, <2>1 DEF JobInv
<1>10. /\ served # "none" => job["devio"] # NoJob
       /\ served # "none" => PageInv(job["devio"])'
  BY <1>1, <1>6, <1>8 DEF RpcInv, ServedInv, PageInv, Procs
<1>11. WbPageInv'
  BY <1>6 DEF RpcInv, WbPageInv
<1>12. stuck' \in BOOLEAN
  BY <1>1, <1>4, Zenon
<1>13. RpcInv' /\ [d \in Clients |-> Shown(d)]' = [d \in Clients |-> Shown(d)]
  BY <1>1, <1>6, <1>7, <1>8, <1>9, <1>10, <1>11, <1>12, BackendStep
<1>14. (IF served = "none" THEN << >>
         ELSE SubSeq(job["devio"].buf, 1, Moved(job["devio"].op, job["devio"].at)))'
         = (IF served = "none" THEN << >>
            ELSE SubSeq(job["devio"].buf, 1, Moved(job["devio"].op, job["devio"].at)))
  BY <1>1, <1>8, <1>10 DEF Procs
<1>15. [a \in Sdram \cup Wb |-> mem[a]]' = [a \in Sdram \cup Wb |-> mem[a]]
  BY <1>6
<1>16. CASE stuck' = stuck
  <2>1. UNCHANGED Abstract!vars
    BY <1>1, <1>13, <1>14, <1>15, <1>16, Zenon DEF Abstract!vars
  <2> QED BY <1>13, <2>1
<1>17. CASE stuck' # stuck
  <2>1. stuck' = ~stuck
    BY <1>4, <1>12, <1>17
  <2>2. Abstract!Board
    BY <1>1, <1>13, <1>14, <1>15, <2>1, Zenon DEF Abstract!Board
  <2> QED BY <1>13, <2>2 DEF Abstract!Next
<1> QED BY <1>16, <1>17

(* -------------------------- steps of a transfer ------------------------ *)

\* Within a turn the page stays.
LEMMA SameTurn ==
  ASSUME NEW op, NEW l \in Loops, Advance(op, l).word > 0
  PROVE  Turn(op, Advance(op, l)) = Turn(op, l)
<1>1. Advance(op, l).turn = l.turn /\ Advance(op, l).rem = l.rem
  BY DEF Advance, Loops
<1> QED BY <1>1 DEF Turn, rw_32, rw_bar2_block, rw_bar4_block

\* A page of the Wishbone bus that is chosen exists.
LEMMA WbPageExists ==
  ASSUME NEW op, Performed(op), op.bar = BAR4NO, NEW l, LoopInv(op, l), l.turn # Turns(op)
  PROVE  Turn(op, l).page \in Nat /\ WbPgSize * Turn(op, l).page + WbPgSize <= WbWords
<1>1. /\ op.offs \in Nat /\ op.offs < WbWords /\ PgSize(op.bar) = WbPgSize
      /\ WbPgSize \in Nat \ {0} /\ WbWords \in Nat /\ WbWords % WbPgSize = 0
      /\ op.offs \div WbPgSize \in Nat
  <2>1. PgSize(op.bar) = WbPgSize
    BY DEF PgSize, BAR2NO, BAR4NO
  <2> QED BY <2>1, Sizes, RequestsFit, PageSizes, Zenon DEF Performed, Fits
<1>2. Turn(op, l).page = op.offs \div WbPgSize
  <2>1. CASE ~Block(op)
    BY <1>1, <2>1, SingleTurn
  <2>2. CASE Block(op)
    <3>1. l.turn = 0
      <4>1. Turns(op) = 1
        BY <2>2, Bar4Turn
      <4>2. l.turn \in Nat /\ l.turn <= Turns(op)
        BY DEF LoopInv, Loops
      <4> QED BY <4>1, <4>2
    <3>2. Turn(op, l) = rw_bar4_block(op, l)
      BY <2>2 DEF Turn, BAR2NO, BAR4NO
    <3> QED BY <1>1, <3>1, <3>2 DEF rw_bar4_block
  <2> QED BY <2>1, <2>2
<1> QED BY <1>1, <1>2, WholePages, Zenon

\* What is known of a process that is at its loop.
LEMMA WorkJob ==
  ASSUME RpcInv, NEW p \in Procs, AtWork(p)
  PROVE  /\ job[p] \in Jobs /\ JobInv(job[p])
         /\ job[p].at.turn # Turns(job[p].op)
         /\ p = "devio" => served # "none" /\ served \in Clients /\ PageInv(job[p])
         /\ p = "cfg" => ~alone /\ job[p].op.bar = BAR4NO /\ ~Writes(job[p].op)
<1>1. job[p] \in Jobs /\ job[p].at.turn # Turns(job[p].op) /\ job[p] # NoJob
  BY DEF RpcInv, Types, AtWork, Over
<1>2. CASE p = "devio"
  BY <1>1, <1>2 DEF RpcInv, ServedInv, Types
<1>3. CASE p = "cfg"
  BY <1>1, <1>3, RequestsFit DEF RpcInv, CfgInv, Writes
<1> QED BY <1>1, <1>2, <1>3 DEF Procs

\* SelectPage writes a register that RemoteAccess does not show.
LEMMA SelectPageStep ==
  ASSUME RpcInv, NEW p \in Procs, SelectPage(p)
  PROVE  RpcInv' /\ [Abstract!Next]_(Abstract!vars)
<1>1. /\ UNCHANGED <<stuck, open, pipe, call, served, alone, effort>>
      /\ AtWork(p) /\ job[p].at.word = 0
  BY DEF SelectPage
<1>2. PICK j : j = job[p]
  OBVIOUS
<1>3. PICK k : k = [j EXCEPT !.at = Advance(j.op, j.at)]
  BY Zenon
<1>4. /\ mem' = [mem EXCEPT ![<<BAR0NO, PgReg(j.op.bar)>>] = Turn(j.op, j.at).page]
      /\ job' = [job EXCEPT ![p] = k]
  BY <1>2, <1>3 DEF SelectPage
<1>5. /\ mem \in [Addr -> Int] /\ stuck \in BOOLEAN /\ job \in [Procs -> Jobs \cup {NoJob}]
  BY DEF RpcInv, Types
<1>6. /\ j \in Jobs /\ JobInv(j) /\ j.at.turn # Turns(j.op) /\ j.at.word = 0 /\ j.at \in Loops
      /\ Performed(j.op) /\ LoopInv(j.op, j.at) /\ j.op.bar \in {BAR2NO, BAR4NO}
      /\ Turn(j.op, j.at).page \in Nat
  BY <1>1, <1>2, WorkJob, Zenon DEF JobInv, LoopInv, Performed
<1>7. /\ LoopInv(j.op, Advance(j.op, j.at)) /\ Advance(j.op, j.at) \in Loops
      /\ Moved(j.op, Advance(j.op, j.at)) = Moved(j.op, j.at)
  <2>1. PICK op, l : op = j.op /\ l = j.at
    BY Zenon
  <2>2. /\ LoopInv(op, Advance(op, l))
        /\ Moved(op, Advance(op, l)) = Moved(op, l)
    BY <1>6, <2>1, AdvanceLoop
  <2>3. Advance(op, l) \in Loops
    BY <2>2, Zenon DEF LoopInv
  <2> QED BY <2>1, <2>2, <2>3, Zenon
<1>8. /\ k \in Jobs /\ JobInv(k) /\ k.op = j.op /\ k.buf = j.buf /\ k.at = Advance(j.op, j.at)
      /\ Moved(k.op, k.at) = Moved(j.op, j.at)
  BY <1>3, <1>6, <1>7 DEF JobInv, Jobs
<1>9. /\ job' \in [Procs -> Jobs \cup {NoJob}] /\ job'[p] = k
      /\ \A q \in Procs : q # p => job'[q] = job[q]
      /\ \A q \in Procs : /\ job'[q] = NoJob <=> job[q] = NoJob
                          /\ job[q] # NoJob => job'[q].op = job[q].op
  BY <1>2, <1>4, <1>5, <1>6, <1>8, NotNoJob
<1>10. \A q \in Procs : job[q] # NoJob => JobInv(job'[q])
  <2>1. \A q \in Procs : job[q] # NoJob => JobInv(job[q])
    BY DEF RpcInv, ServedInv, CfgInv, Procs
  <2> QED BY <1>8, <1>9, <2>1, Zenon
<1>11. /\ mem' \in [Addr -> Int] /\ [a \in Sdram \cup Wb |-> mem'[a]] = [a \in Sdram \cup Wb |-> mem[a]]
       /\ j.op.bar = BAR2NO => /\ mem'[<<BAR0NO, "SDRAM_PG">>] = Turn(j.op, j.at).page
                               /\ mem'[<<BAR0NO, "WB_PG">>] = mem[<<BAR0NO, "WB_PG">>]
       /\ j.op.bar = BAR4NO => /\ mem'[<<BAR0NO, "WB_PG">>] = Turn(j.op, j.at).page
                               /\ mem'[<<BAR0NO, "SDRAM_PG">>] = mem[<<BAR0NO, "SDRAM_PG">>]
  <2>1. CASE j.op.bar = BAR2NO
    <3>1. PgReg(j.op.bar) = "SDRAM_PG"
      BY <2>1 DEF PgReg
    <3> QED BY <1>4, <1>5, <1>6, <2>1, <3>1, Registers, SMTT(30) DEF BAR2NO, BAR4NO
  <2>2. CASE j.op.bar = BAR4NO
    <3>1. PgReg(j.op.bar) = "WB_PG"
      BY <2>2 DEF PgReg, BAR2NO, BAR4NO
    <3> QED BY <1>4, <1>5, <1>6, <2>2, <3>1, Registers, SMTT(30) DEF BAR2NO, BAR4NO
  <2> QED BY <1>6, <2>1, <2>2
<1>12. WbPageInv'
  <2>1. CASE j.op.bar = BAR2NO
    BY <1>11, <2>1 DEF RpcInv, WbPageInv
  <2>2. CASE j.op.bar = BAR4NO
    BY <1>6, <1>11, <2>2, WbPageExists DEF WbPageInv
  <2> QED BY <1>6, <2>1, <2>2
<1>13. served # "none" => PageInv(job["devio"])'
  <2>1. CASE p = "devio"
    <3>1. k.at.word > 0 => Turn(k.op, k.at) = Turn(j.op, j.at)
      BY <1>6, <1>8, SameTurn
    <3>2. job'["devio"] = k
      BY <1>9, <2>1
    <3> QED BY <1>8, <1>11, <3>1, <3>2 DEF PageInv
  <2>2. CASE p = "cfg"
    <3>1. j.op.bar = BAR4NO /\ ~alone /\ job'["devio"] = job["devio"]
      BY <1>1, <1>2, <1>9, <2>2, WorkJob DEF Procs
    <3> QED BY <1>1, <1>11, <3>1 DEF RpcInv, ServedInv, PageInv
  <2> QED BY <2>1, <2>2 DEF Procs
<1>14. stuck' \in BOOLEAN
  BY <1>1, <1>5
<1>15. RpcInv' /\ [d \in Clients |-> Shown(d)]' = [d \in Clients |-> Shown(d)]
  BY <1>1, <1>9, <1>10, <1>11, <1>12, <1>13, <1>14, BackendStep
<1>16. (IF served = "none" THEN << >>
         ELSE SubSeq(job["devio"].buf, 1, Moved(job["devio"].op, job["devio"].at)))'
         = (IF served = "none" THEN << >>
            ELSE SubSeq(job["devio"].buf, 1, Moved(job["devio"].op, job["devio"].at)))
  BY <1>1, <1>2, <1>8, <1>9 DEF Procs
<1>17. [a \in Sdram \cup Wb |-> mem[a]]' = [a \in Sdram \cup Wb |-> mem[a]]
  BY <1>11
<1>18. UNCHANGED Abstract!vars
  BY <1>1, <1>15, <1>16, <1>17, Zenon DEF Abstract!vars
<1> QED BY <1>15, <1>18

\* The word at a place of the window while page g is chosen: it exists, it is
\* at the same place of its page as the operation's next word, and it is that
\* word if the page is the one of the turn.
LEMMA WordAddress ==
  ASSUME NEW op, Performed(op), NEW l, LoopInv(op, l), l.turn # Turns(op), l.word > 0,
         NEW g, op.bar = BAR2NO => g = Turn(op, l).page,
         op.bar = BAR4NO => g \in Nat /\ WbPgSize * g + WbPgSize <= WbWords,
         NEW n, n = Turn(op, l).before + l.word,
         NEW a, a = <<op.bar, g * PgSize(op.bar) + (Turn(op, l).at + l.word - 1)>>
  PROVE  /\ a \in Sdram \cup Wb
         /\ n \in 1..op.size /\ n = Moved(op, l) + 1
         /\ g = Turn(op, l).page => a = Place(op, n)
         /\ a \in SamePlace(Place(op, n))
<1>1. PICK P, w, pg, x, y : /\ P = PgSize(op.bar) /\ w = Turn(op, l).at + l.word - 1
                            /\ pg = Turn(op, l).page /\ x = g * P + w /\ y = pg * P + w
  OBVIOUS
<1>2. /\ n = Moved(op, l) + 1 /\ n \in 1..op.size /\ w \in 0..(P - 1) /\ pg \in Nat
      /\ Place(op, n) = <<op.bar, y>>
  BY <1>1, NextWord
<1>3. P \in Nat \ {0} /\ op.size \in Nat /\ op.offs \in Nat /\ op.bar \in {BAR2NO, BAR4NO}
  BY <1>1, Sizes DEF Performed
<1>4. a = <<op.bar, x>>
  BY <1>1
<1>5. g \in Nat /\ a \in Sdram \cup Wb
  <2>1. CASE op.bar = BAR2NO
    <3>1. g = pg /\ a = Place(op, n)
      BY <1>1, <1>2, <1>4, <2>1
    <3>2. op.offs + op.size <= SdramWords /\ SdramWords \in Nat
      BY <2>1, RequestsFit DEF Performed, Fits
    <3>3. (IF Block(op) THEN op.offs + n - 1 ELSE op.offs) \in 0..(SdramWords - 1)
      BY <1>2, <1>3, <3>2
    <3>4. Place(op, n) \in Sdram
      BY <2>1, <3>3 DEF Place, Sdram
    <3> QED BY <1>2, <3>1, <3>4
  <2>2. CASE op.bar = BAR4NO
    <3>1. P = WbPgSize
      BY <1>1, <2>2 DEF PgSize, BAR2NO, BAR4NO
    <3>2. g \in Nat /\ P * g + P <= WbWords /\ WbWords \in Nat
      BY <2>2, <3>1, RequestsFit
    <3>3. x = P * g + w /\ P * g \in Nat
      BY <1>1, <1>2, <1>3, <3>2
    <3>4. x \in 0..(WbWords - 1)
      BY <1>2, <1>3, <3>2, <3>3
    <3> QED BY <1>4, <2>2, <3>2, <3>4 DEF Wb
  <2> QED BY <1>3, <2>1, <2>2
<1>6. x % P = w /\ y % P = w
  <2>1. x = P * g + w /\ y = P * pg + w
    BY <1>1, <1>2, <1>3, <1>5
  <2>2. (P * g + w) % P = w /\ (P * pg + w) % P = w
    BY <1>2, <1>3, <1>5, Remainder, Zenon
  <2> QED BY <2>1, <2>2, Zenon
<1>7. a \in SamePlace(Place(op, n))
  <2>1. (IF op.bar = BAR2NO THEN SdramPgSize ELSE WbPgSize) = P
    BY <1>1 DEF PgSize
  <2>2. /\ a[1] = op.bar /\ a[2] = x
        /\ Place(op, n)[1] = op.bar /\ Place(op, n)[2] = y
    BY <1>2, <1>4
  <2>3. a[2] % P = Place(op, n)[2] % P
    BY <1>6, <2>2, Zenon
  <2> QED BY <1>5, <2>1, <2>2, <2>3, Zenon DEF SamePlace
<1> QED BY <1>1, <1>2, <1>4, <1>5, <1>7

\* The word that is transferred: it exists, and it is the operation's next one
\* unless the other process has chosen a page of the Wishbone bus meanwhile.
LEMMA WordSeen ==
  ASSUME RpcInv, NEW p \in Procs, AtWork(p), NEW j, j = job[p], j.at.word > 0
  PROVE  LET t == Turn(j.op, j.at)
             n == t.before + j.at.word
             a == Seen(j.op.bar, t.at + j.at.word - 1)
         IN  /\ a \in Sdram \cup Wb
             /\ n \in 1..j.op.size /\ n = Moved(j.op, j.at) + 1
             /\ p = "devio" /\ alone => a = Place(j.op, n)
             /\ p = "devio" => a \in SamePlace(Place(j.op, n))
<1>1. PICK op, l, g : op = j.op /\ l = j.at /\ g = mem[<<BAR0NO, PgReg(op.bar)>>]
  BY Zenon
<1>2. /\ Performed(op) /\ LoopInv(op, l) /\ l.turn # Turns(op) /\ l.word > 0
      /\ p = "devio" => PageInv(j)
      /\ p = "cfg" => op.bar = BAR4NO
  BY <1>1, WorkJob DEF JobInv
<1>3. op.bar \in {BAR2NO, BAR4NO}
  BY <1>2 DEF Performed
<1>4. op.bar = BAR2NO => p = "devio"
  BY <1>2 DEF Procs, BAR2NO, BAR4NO
<1>5. op.bar = BAR2NO => g = Turn(op, l).page
  BY <1>1, <1>2, <1>4 DEF PageInv, PgReg
<1>6. op.bar = BAR4NO => g \in Nat /\ WbPgSize * g + WbPgSize <= WbWords
  BY <1>1 DEF PgReg, RpcInv, WbPageInv, BAR2NO, BAR4NO
<1>7. p = "devio" /\ alone => g = Turn(op, l).page
  BY <1>1, <1>2, <1>3, <1>5 DEF PageInv, PgReg, BAR2NO, BAR4NO
<1>8. PICK n, a : /\ n = Turn(op, l).before + l.word
                  /\ a = <<op.bar, g * PgSize(op.bar) + (Turn(op, l).at + l.word - 1)>>
  BY Zenon
<1>9. /\ a \in Sdram \cup Wb
      /\ n \in 1..op.size /\ n = Moved(op, l) + 1
      /\ g = Turn(op, l).page => a = Place(op, n)
      /\ a \in SamePlace(Place(op, n))
  BY <1>2, <1>5, <1>6, <1>8, WordAddress, Zenon
<1>10. n = Turn(j.op, j.at).before + j.at.word /\ a = Seen(j.op.bar, Turn(j.op, j.at).at + j.at.word - 1)
  BY <1>1, <1>8, Zenon DEF Seen
<1> QED BY <1>1, <1>7, <1>9, <1>10, Zenon

\* Transfer of the thread moves one word; of the other process, RemoteAccess shows nothing.
LEMMA TransferStep ==
  ASSUME RpcInv, NEW p \in Procs, Transfer(p)
  PROVE  RpcInv' /\ [Abstract!Next]_(Abstract!vars)
<1>1. /\ UNCHANGED <<stuck, open, pipe, call, served, alone, effort>>
      /\ AtWork(p) /\ job[p].at.word > 0
  BY DEF Transfer
<1>2. PICK j, op, l : j = job[p] /\ op = j.op /\ l = j.at
  OBVIOUS
<1>3. PICK t : t = Turn(op, l)
  OBVIOUS
<1>4. PICK n : n = t.before + l.word
  OBVIOUS
<1>5. PICK a : a = Seen(op.bar, t.at + l.word - 1)
  OBVIOUS
<1>6. PICK v : v = IF stuck THEN Ones ELSE mem[a]
  OBVIOUS
<1>7. PICK k : k = IF Writes(op) THEN [j EXCEPT !.at = Advance(op, l)]
                   ELSE [j EXCEPT !.at = Advance(op, l), !.buf = [j.buf EXCEPT ![n] = v]]
  BY Zenon
<1>8. /\ job' = [job EXCEPT ![p] = k]
      /\ Writes(op) => mem' = IF stuck THEN mem ELSE [mem EXCEPT ![a] = op.data[n]]
      /\ ~Writes(op) => mem' = mem
  <2>1. CASE Writes(op)
    <3>1. /\ mem' = IF stuck THEN mem ELSE [mem EXCEPT ![a] = op.data[n]]
          /\ job' = [job EXCEPT ![p].at = Advance(op, l)]
      BY <1>2, <1>3, <1>4, <1>5, <2>1, Zenon DEF Transfer
    <3> QED BY <1>2, <1>7, <2>1, <3>1
  <2>2. CASE ~Writes(op)
    <3>1. /\ job' = [job EXCEPT ![p] = [j EXCEPT !.at = Advance(op, l), !.buf = [j.buf EXCEPT ![n] = v]]]
          /\ mem' = mem
      BY <1>2, <1>3, <1>4, <1>5, <1>6, <2>2 DEF Transfer
    <3> QED BY <1>7, <2>2, <3>1, Zenon
  <2> QED BY <2>1, <2>2, Zenon
<1>9. /\ mem \in [Addr -> Int] /\ stuck \in BOOLEAN /\ job \in [Procs -> Jobs \cup {NoJob}]
      /\ alone \in BOOLEAN
  BY DEF RpcInv, Types
<1>10. /\ j \in Jobs /\ JobInv(j) /\ op = j.op /\ l = j.at /\ l.turn # Turns(op) /\ l.word > 0 /\ l \in Loops
       /\ Performed(op) /\ LoopInv(op, l) /\ op.bar \in {BAR2NO, BAR4NO}
       /\ j.buf \in Seq(Int) /\ Len(j.buf) = op.size /\ op.size \in Nat
       /\ Writes(op) => j.buf = op.data
  BY <1>1, <1>2, WorkJob, Sizes, Zenon DEF JobInv, LoopInv, Performed, Jobs
<1>11. /\ LoopInv(op, Advance(op, l)) /\ Advance(op, l) \in Loops
       /\ Moved(op, Advance(op, l)) = Moved(op, l) + 1
       /\ Moved(op, l) \in Nat
  <2>1. /\ LoopInv(op, Advance(op, l))
        /\ Moved(op, Advance(op, l)) = Moved(op, l) + 1
    BY <1>10, AdvanceLoop
  <2>2. Moved(op, l) \in 0..op.size
    BY <1>10, MovedBounds
  <2>3. Advance(op, l) \in Loops
    BY <2>1 DEF LoopInv
  <2> QED BY <1>10, <2>1, <2>2, <2>3
<1>12. /\ a \in Sdram \cup Wb /\ a \in Addr
       /\ n \in 1..op.size /\ n = Moved(op, l) + 1
       /\ p = "devio" /\ alone => a = Place(op, n)
       /\ p = "devio" => a \in SamePlace(Place(op, n))
  <2>1. /\ a \in Sdram \cup Wb
        /\ n \in 1..op.size /\ n = Moved(op, l) + 1
        /\ p = "devio" /\ alone => a = Place(op, n)
        /\ p = "devio" => a \in SamePlace(Place(op, n))
    BY <1>1, <1>2, <1>3, <1>4, <1>5, WordSeen, Zenon
  <2> QED BY <2>1 DEF Addr
<1>13. v \in Int
  BY <1>6, <1>9, <1>12, RpcAssumption
<1>14. /\ k \in Jobs /\ JobInv(k) /\ k.op = op /\ k.at = Advance(op, l)
       /\ SubSeq(k.buf, 1, Moved(k.op, k.at)) =
            Append(SubSeq(j.buf, 1, Moved(op, l)), IF Writes(op) THEN op.data[n] ELSE v)
  <2>1. Moved(op, l) \in 0..(Len(j.buf) - 1) /\ Moved(op, Advance(op, l)) = n
    BY <1>10, <1>11, <1>12, SMTT(30)
  <2>2. CASE Writes(op)
    <3>1. k = [j EXCEPT !.at = Advance(op, l)]
      BY <1>7, <2>2
    <3>2. k \in Jobs /\ k.op = op /\ k.at = Advance(op, l) /\ k.buf = j.buf
      BY <1>10, <1>11, <3>1 DEF Jobs
    <3>3. JobInv(k)
      BY <1>10, <1>11, <3>2 DEF JobInv
    <3>4. SubSeq(j.buf, 1, n) = Append(SubSeq(j.buf, 1, Moved(op, l)), j.buf[n])
      BY <1>10, <1>12, <2>1, PrefixNext, Zenon
    <3> QED BY <1>10, <2>1, <2>2, <3>2, <3>3, <3>4, Zenon
  <2>3. CASE ~Writes(op)
    <3>1. PICK b : b = [j.buf EXCEPT ![n] = v]
      BY Zenon
    <3>2. /\ b \in Seq(Int) /\ Len(b) = Len(j.buf)
          /\ SubSeq(b, 1, n) = Append(SubSeq(j.buf, 1, Moved(op, l)), v)
      BY <1>10, <1>12, <1>13, <2>1, <3>1, PrefixStore, Zenon
    <3>3. k = [j EXCEPT !.at = Advance(op, l), !.buf = b]
      BY <1>7, <2>3, <3>1
    <3>4. k \in Jobs /\ k.op = op /\ k.at = Advance(op, l) /\ k.buf = b
      BY <1>10, <1>11, <3>2, <3>3, Zenon DEF Jobs
    <3>5. JobInv(k)
      BY <1>10, <1>11, <2>3, <3>2, <3>4 DEF JobInv
    <3> QED BY <2>1, <2>3, <3>2, <3>4, <3>5, Zenon
  <2> QED BY <2>2, <2>3, Zenon
<1>15. /\ job' \in [Procs -> Jobs \cup {NoJob}] /\ job'[p] = k
       /\ \A q \in Procs : q # p => job'[q] = job[q]
       /\ \A q \in Procs : /\ job'[q] = NoJob <=> job[q] = NoJob
                           /\ job[q] # NoJob => job'[q].op = job[q].op
  BY <1>2, <1>8, <1>9, <1>10, <1>14, NotNoJob, Zenon
<1>16. \A q \in Procs : job[q] # NoJob => JobInv(job'[q])
  <2>1. \A q \in Procs : job[q] # NoJob => JobInv(job[q])
    BY DEF RpcInv, ServedInv, CfgInv, Procs
  <2> QED BY <1>14, <1>15, <2>1
<1>17. /\ mem' \in [Addr -> Int]
       /\ \A r \in {"SDRAM_PG", "WB_PG", "TX_CTRL"} : mem'[<<BAR0NO, r>>] = mem[<<BAR0NO, r>>]
  <2>1. Writes(op) => op.data[n] \in Int
    BY <1>10, <1>12, SMTT(30)
  <2> QED BY <1>8, <1>9, <1>12, <2>1, Registers
<1>18. WbPageInv'
  BY <1>17 DEF RpcInv, WbPageInv
<1>19. served # "none" => PageInv(job["devio"])'
  <2>1. CASE p = "devio"
    <3>1. k.at.word > 0 => Turn(k.op, k.at) = Turn(op, l)
      BY <1>10, <1>14, SameTurn, Zenon
    <3>2. job'["devio"] = k /\ PageInv(j)
      BY <1>1, <1>2, <1>15, <2>1, WorkJob
    <3> QED BY <1>1, <1>10, <1>14, <1>17, <3>1, <3>2, Zenon DEF PageInv
  <2>2. CASE p = "cfg"
    <3>1. job'["devio"] = job["devio"]
      BY <1>15, <2>2 DEF Procs
    <3> QED BY <1>1, <1>17, <3>1 DEF RpcInv, ServedInv, PageInv
  <2> QED BY <2>1, <2>2 DEF Procs
<1>20. stuck' \in BOOLEAN
  BY <1>1, <1>9
<1>21. RpcInv' /\ [d \in Clients |-> Shown(d)]' = [d \in Clients |-> Shown(d)]
  BY <1>1, <1>15, <1>16, <1>17, <1>18, <1>19, <1>20, BackendStep, Zenon
<1>22. CASE p = "cfg"
  <2>1. mem' = mem /\ job'["devio"] = job["devio"]
    BY <1>1, <1>2, <1>8, <1>15, <1>22, WorkJob DEF Procs
  <2>2. UNCHANGED Abstract!vars
    BY <1>1, <1>21, <2>1, Zenon DEF Abstract!vars
  <2> QED BY <1>21, <2>2
<1>23. CASE p = "devio"
  <2>1. PICK c \in Clients : c = served
    BY <1>1, <1>23, WorkJob, Zenon
  <2>2. served # "none" /\ call[c].state = "waiting" /\ pipe[c].kind = "request" /\ call[c].op = op
    BY <1>1, <1>2, <1>23, <2>1, WorkJob, Zenon DEF RpcInv, ServedInv
  <2>3. [d \in Clients |-> Shown(d)][c].op = op
    BY <2>2 DEF Shown
  <2>4. PICK m : m = SubSeq(j.buf, 1, Moved(op, l))
    BY Zenon
  <2>5. Len(m) + 1 = n /\ Len(m) < Length(op)
    <3>1. Moved(op, l) \in 0..Len(j.buf)
      BY <1>10, <1>11, <1>12, SMTT(30)
    <3>2. Len(m) = Moved(op, l)
      BY <1>10, <2>4, <3>1, Prefix
    <3>3. Length(op) = op.size
      BY <1>10 DEF Length, OpenRelease, Performed, Block
    <3> QED BY <1>10, <1>11, <1>12, <3>2, <3>3, SMTT(30)
  <2>6. (IF served = "none" THEN << >>
         ELSE SubSeq(job["devio"].buf, 1, Moved(job["devio"].op, job["devio"].at))) = m
    BY <1>2, <1>23, <2>2, <2>4, Zenon
  <2>7. (IF served = "none" THEN << >>
         ELSE SubSeq(job["devio"].buf, 1, Moved(job["devio"].op, job["devio"].at)))'
          = Append(m, IF Writes(op) THEN op.data[n] ELSE v)
    BY <1>1, <1>14, <1>15, <1>23, <2>2, <2>4, Zenon
  <2>8. PICK A : A = IF alone THEN {Place(op, n)} ELSE SamePlace(Place(op, n))
    BY Zenon
  <2>9. a \in A
    BY <1>12, <1>23, <2>8
  <2>10. PICK M : M = [b \in Sdram \cup Wb |-> mem[b]]
    BY Zenon
  <2>11. v = IF stuck THEN Ones ELSE M[a]
    BY <1>6, <1>12, <2>10
  <2>12. /\ Writes(op) => [b \in Sdram \cup Wb |-> mem[b]]' = IF stuck THEN M ELSE [M EXCEPT ![a] = op.data[n]]
         /\ ~Writes(op) => [b \in Sdram \cup Wb |-> mem[b]]' = M
    <3>1. \A b \in Sdram \cup Wb : b \in Addr
      BY DEF Addr
    <3> QED BY <1>8, <1>9, <1>12, <2>10, <3>1, Zenon
  <2>13. Abstract!Word(c)
    BY <1>1, <1>21, <2>1, <2>3, <2>5, <2>6, <2>7, <2>8, <2>9, <2>10, <2>11, <2>12, Zenon DEF Abstract!Word
  <2> QED BY <1>21, <2>13 DEF Abstract!Next
<1> QED BY <1>22, <1>23 DEF Procs

(* ------------------------ the end of an operation ---------------------- *)

\* The operation ends: the client is answered with the words that were moved.
LEMMA EndStep ==
  ASSUME RpcInv, NEW c \in Clients, c = served, NEW j, j = job["devio"], j # NoJob,
         Over(j.op, j.at), NEW t \in BOOLEAN, t <=> TimeoutPattern(j.op, j.buf),
         NEW ret, ret = IF t THEN -1 ELSE j.op.size,
         job' = [job EXCEPT !["devio"] = NoJob],
         pipe' = [pipe EXCEPT ![c] = Response(pipe[c].op, ret, j.buf)], served' = "none",
         UNCHANGED <<mem, stuck, open, call, alone, effort>>
  PROVE  RpcInv' /\ [Abstract!Next]_(Abstract!vars)
<1>1. /\ served # "none" /\ job \in [Procs -> Jobs \cup {NoJob}] /\ j \in Jobs
      /\ call[c].state = "waiting" /\ pipe[c].kind = "request" /\ call[c].op = j.op
      /\ JobInv(j) /\ DOMAIN pipe = Clients
  BY DEF RpcInv, ServedInv, Types, Procs
<1>2. j.op \in Requests /\ pipe[c].op = j.op
  BY <1>1 DEF RpcInv, ClientInv
<1>3. /\ Performed(j.op) /\ LoopInv(j.op, j.at) /\ j.buf \in Seq(Int) /\ Len(j.buf) = j.op.size
      /\ j.op.size \in Nat /\ ~OpenRelease(j.op)
  BY <1>1, Sizes, Zenon DEF JobInv, Jobs, Performed, OpenRelease, Block
<1>4. PICK m : m = Response(j.op, ret, j.buf)
  BY Zenon
<1>5. m.kind = "reply"
  BY <1>4, IsReply, Zenon
<1>6. pipe'[c] = m /\ DOMAIN pipe' = Clients /\ \A d \in Clients \ {c} : pipe'[d] = pipe[d]
  BY <1>1, <1>2, <1>4
<1>7. job' \in [Procs -> Jobs \cup {NoJob}] /\ job'["devio"] = NoJob /\ job'["cfg"] = job["cfg"]
  BY <1>1 DEF Procs
<1>8. Types'
  BY <1>6, <1>7 DEF RpcInv, Types
<1>9. \A d \in Clients : ClientInv(d)'
  BY <1>1, <1>5, <1>6 DEF RpcInv, ClientInv
<1>10. ServedInv'
  BY <1>7, Zenon DEF RpcInv, ServedInv
<1>11. CfgInv' /\ WbPageInv'
  BY <1>7, Zenon DEF RpcInv, CfgInv, WbPageInv, JobInv
<1>12. RpcInv'
  BY <1>8, <1>9, <1>10, <1>11, Zenon DEF RpcInv
<1>13. \A d \in Clients \ {c} : Shown(d)' = Shown(d)
  BY <1>6 DEF Shown
<1>14. Shown(c)' = Told(j.op, m)
  BY <1>1, <1>5, <1>6 DEF Shown, Told
<1>15. [d \in Clients |-> Shown(d)][c].op = j.op
  BY <1>1 DEF Shown
<1>16. (IF served = "none" THEN << >>
        ELSE SubSeq(job["devio"].buf, 1, Moved(job["devio"].op, job["devio"].at))) = j.buf
  <2>1. Moved(j.op, j.at) = Len(j.buf)
    BY <1>3, MovedBounds, Zenon DEF Over
  <2> QED BY <1>1, <1>3, <2>1, PrefixAll
<1>17. PICK ok \in BOOLEAN :
         /\ Told(j.op, m) = Abstract!Answered(j.op, ok, IF ok /\ ~Writes(j.op) THEN j.buf ELSE << >>)
         /\ ok => ~t
  <2>1. CASE t
    <3>1. ret = -1 /\ ret \in Int /\ ret <= 0 /\ ret >= 0 - 2 /\ ret # 0
      BY <2>1
    <3>2. Told(j.op, m) = [state |-> "answered", op |-> j.op, ok |-> FALSE, data |-> << >>]
      BY <1>2, <1>3, <1>4, <3>1, ToldFailure, Zenon
    <3> QED BY <3>2, Zenon DEF Abstract!Answered
  <2>2. CASE ~t
    <3>1. Told(j.op, m) = [state |-> "answered", op |-> j.op, ok |-> TRUE,
                           data |-> IF Writes(j.op) THEN << >> ELSE j.buf]
      BY <1>2, <1>3, <1>4, <2>2, ToldSuccess, Zenon
    <3>2. (IF Writes(j.op) THEN << >> ELSE j.buf) = (IF TRUE /\ ~Writes(j.op) THEN j.buf ELSE << >>)
      OBVIOUS
    <3> QED BY <2>2, <3>1, <3>2, Zenon DEF Abstract!Answered
  <2> QED BY <2>1, <2>2, Zenon
<1>18. [d \in Clients |-> Shown(d)]'
         = [[d \in Clients |-> Shown(d)] EXCEPT ![c] =
              Abstract!Answered(j.op, ok, IF ok /\ ~Writes(j.op) THEN j.buf ELSE << >>)]
  BY <1>13, <1>14, <1>17, Zenon
<1>19. Length(j.op) = Len(j.buf)
  BY <1>3 DEF Length
<1>20. /\ [a \in Sdram \cup Wb |-> mem[a]]' = [a \in Sdram \cup Wb |-> mem[a]]
       /\ (IF served = "none" THEN << >>
           ELSE SubSeq(job["devio"].buf, 1, Moved(job["devio"].op, job["devio"].at)))' = << >>
  OBVIOUS
<1>21. Abstract!End(c)
  BY <1>15, <1>16, <1>17, <1>18, <1>19, <1>20, Zenon DEF Abstract!End
<1> QED BY <1>12, <1>21 DEF Abstract!Next

\* An operation that is tried again, or that has failed for good and resets
\* the transmitter for the last time.
LEMMA AgainStep ==
  ASSUME RpcInv, NEW c \in Clients, c = served, NEW j, j = job["devio"], j # NoJob,
         Over(j.op, j.at), TimeoutPattern(j.op, j.buf), NEW k,
         \/ k = [Job(j.op, j.tries + 1) EXCEPT !.reset = TRUE]
         \/ k = [j EXCEPT !.reset = TRUE, !.over = TRUE],
         job' = [job EXCEPT !["devio"] = k],
         UNCHANGED <<mem, stuck, open, call, alone, effort, pipe, served>>
  PROVE  RpcInv' /\ [Abstract!Next]_(Abstract!vars)
<1>1. /\ served # "none" /\ job \in [Procs -> Jobs \cup {NoJob}] /\ j \in Jobs /\ JobInv(j)
      /\ call[c].state = "waiting" /\ pipe[c].kind = "request" /\ call[c].op = j.op
      /\ mem \in [Addr -> Int] /\ stuck \in BOOLEAN
  BY DEF RpcInv, ServedInv, Types, Procs
<1>2. /\ j.op \in Requests /\ j.op \in Requests \cup CfgRequests
      /\ j.tries + 1 \in Nat
  <2>1. j.op \in Requests
    BY <1>1, Zenon DEF RpcInv, ClientInv
  <2>2. j.tries \in Nat
    BY <1>1 DEF Jobs
  <2> QED BY <2>1, <2>2
<1>3. /\ Performed(j.op) /\ LoopInv(j.op, j.at) /\ j.buf \in Seq(Int) /\ Len(j.buf) = j.op.size
      /\ ~OpenRelease(j.op)
  BY <1>1 DEF JobInv, Jobs, Performed, OpenRelease, Block
<1>4. Moved(j.op, j.at) = Len(j.buf) /\ j.at.word = 0
  BY <1>3, MovedBounds DEF Over, LoopInv
<1>5. /\ k \in Jobs /\ JobInv(k) /\ k.op = j.op /\ k.at.word = 0
      /\ \/ Moved(k.op, k.at) = 0
         \/ k.at = j.at /\ k.buf = j.buf
  <2>1. CASE k = [Job(j.op, j.tries + 1) EXCEPT !.reset = TRUE]
    <3>1. PICK i : i = Job(j.op, j.tries + 1)
      OBVIOUS
    <3>2. i \in Jobs /\ JobInv(i) /\ i.op = j.op /\ i.at.word = 0 /\ Moved(j.op, i.at) = 0
      BY <1>2, <1>3, <3>1, NewJob
    <3>3. k \in Jobs /\ k.op = i.op /\ k.at = i.at /\ k.buf = i.buf
      BY <2>1, <3>1, <3>2, Zenon DEF Jobs
    <3> QED BY <3>2, <3>3 DEF JobInv
  <2>2. CASE k = [j EXCEPT !.reset = TRUE, !.over = TRUE]
    <3>1. k \in Jobs /\ k.op = j.op /\ k.at = j.at /\ k.buf = j.buf
      BY <1>1, <2>2, Zenon DEF Jobs
    <3> QED BY <1>1, <1>4, <3>1 DEF JobInv
  <2> QED BY <2>1, <2>2
<1>6. /\ job' \in [Procs -> Jobs \cup {NoJob}] /\ job'["devio"] = k /\ job'["cfg"] = job["cfg"]
      /\ \A q \in Procs : /\ job'[q] = NoJob <=> job[q] = NoJob
                          /\ job[q] # NoJob => job'[q].op = job[q].op
  BY <1>1, <1>5, NotNoJob DEF Procs
<1>7. \A q \in Procs : job[q] # NoJob => JobInv(job'[q])
  BY <1>5, <1>6 DEF RpcInv, CfgInv, Procs
<1>8. PageInv(job["devio"])'
  BY <1>5, <1>6 DEF PageInv
<1>9. WbPageInv' /\ stuck' \in BOOLEAN /\ mem' \in [Addr -> Int]
  BY <1>1 DEF RpcInv, WbPageInv
<1>10. RpcInv' /\ [d \in Clients |-> Shown(d)]' = [d \in Clients |-> Shown(d)]
  BY <1>6, <1>7, <1>8, <1>9, BackendStep
<1>11. [d \in Clients |-> Shown(d)][c].op = j.op
  BY <1>1 DEF Shown
<1>12. (IF served = "none" THEN << >>
        ELSE SubSeq(job["devio"].buf, 1, Moved(job["devio"].op, job["devio"].at))) = j.buf
  BY <1>1, <1>3, <1>4, PrefixAll
<1>13. [a \in Sdram \cup Wb |-> mem[a]]' = [a \in Sdram \cup Wb |-> mem[a]]
  OBVIOUS
<1>14. CASE Moved(k.op, k.at) = 0
  <2>1. (IF served = "none" THEN << >>
         ELSE SubSeq(job["devio"].buf, 1, Moved(job["devio"].op, job["devio"].at)))' = << >>
    BY <1>1, <1>5, <1>6, <1>14, PrefixNone DEF Jobs
  <2>2. Length(j.op) = Len(j.buf)
    BY <1>3 DEF Length
  <2>3. Abstract!Repeat(c)
    BY <1>10, <1>11, <1>12, <1>13, <2>1, <2>2, Zenon DEF Abstract!Repeat
  <2> QED BY <1>10, <2>3 DEF Abstract!Next
<1>15. CASE k.at = j.at /\ k.buf = j.buf
  <2>1. (IF served = "none" THEN << >>
         ELSE SubSeq(job["devio"].buf, 1, Moved(job["devio"].op, job["devio"].at)))'
         = (IF served = "none" THEN << >>
            ELSE SubSeq(job["devio"].buf, 1, Moved(job["devio"].op, job["devio"].at)))
    <3>1. /\ job'["devio"].buf = job["devio"].buf /\ job'["devio"].at = job["devio"].at
          /\ job'["devio"].op = job["devio"].op /\ served' = served
      BY <1>5, <1>6, <1>15
    <3> QED BY <3>1
  <2>2. UNCHANGED Abstract!vars
    BY <1>10, <1>13, <2>1, Zenon DEF Abstract!vars
  <2> QED BY <1>10, <2>2
<1> QED BY <1>5, <1>14, <1>15

\* Finish ends the operation or, after a timeout, begins it again.
LEMMA FinishStep ==
  ASSUME RpcInv, Finish
  PROVE  RpcInv' /\ [Abstract!Next]_(Abstract!vars)
<1>1. FinishCounting(1)
  BY DEF Finish
<1>2. PICK j : j = job["devio"]
  OBVIOUS
<1>3. PICK t \in BOOLEAN : t <=> TimeoutPattern(j.op, j.buf)
  BY Zenon
<1>4. PICK c \in Clients : c = served
  BY <1>1 DEF FinishCounting, Complete, RpcInv, ServedInv, Types
<1>5. j # NoJob /\ Over(j.op, j.at) /\ UNCHANGED <<mem, stuck, open, call, alone, effort>>
  BY <1>1, <1>2 DEF FinishCounting, Complete
<1>6. CASE t /\ ~j.over
  <2>1. PICK k : k = IF j.tries < MaxTries
                     THEN [Job(j.op, j.tries + 1) EXCEPT !.reset = TRUE]
                     ELSE [j EXCEPT !.reset = TRUE, !.over = TRUE]
    BY Zenon
  <2>2. job' = [job EXCEPT !["devio"] = k] /\ UNCHANGED <<pipe, served>>
    BY <1>1, <1>2, <1>3, <1>6, <2>1, Zenon DEF FinishCounting
  <2> QED BY <1>2, <1>3, <1>4, <1>5, <1>6, <2>1, <2>2, AgainStep, Zenon
<1>7. CASE ~(t /\ ~j.over)
  <2>1. PICK ret : ret = IF t THEN -1 ELSE j.op.size
    OBVIOUS
  <2>2. /\ job' = [job EXCEPT !["devio"] = NoJob] /\ served' = "none"
        /\ pipe' = [pipe EXCEPT ![c] = Response(pipe[c].op, ret, j.buf)]
    BY <1>1, <1>2, <1>3, <1>4, <1>7, <2>1, Zenon DEF FinishCounting, Answer
  <2> QED BY <1>2, <1>3, <1>4, <1>5, <2>1, <2>2, EndStep, Zenon
<1> QED BY <1>6, <1>7

(* ----------------------- steps of the other process -------------------- *)

\* The other process begins or ends an operation, or dies.
LEMMA CfgStep ==
  ASSUME RpcInv, NEW k, job' = [job EXCEPT !["cfg"] = k],
         UNCHANGED <<mem, stuck, pipe, call, served, alone>>,
         effort' \in [calls : [Clients -> Int], events : Int, opens : {0, 1}],
         effort'.opens = effort.opens,
         open' \in [Procs -> BOOLEAN], open'["devio"] = open["devio"],
         open'["cfg"] => open["cfg"],
         k = NoJob \/ (k \in Jobs /\ JobInv(k) /\ k.op \in CfgRequests /\ open'["cfg"])
  PROVE  RpcInv' /\ [Abstract!Next]_(Abstract!vars)
<1>1. job \in [Procs -> Jobs \cup {NoJob}]
  BY DEF RpcInv, Types
<1>2. job' \in [Procs -> Jobs \cup {NoJob}] /\ job'["devio"] = job["devio"] /\ job'["cfg"] = k
  BY <1>1 DEF Procs
<1>3. Types'
  BY <1>2 DEF RpcInv, Types
<1>4. \A c \in Clients : ClientInv(c)'
  BY Zenon DEF RpcInv, ClientInv
<1>5. ServedInv'
  BY <1>2, Zenon DEF RpcInv, ServedInv, JobInv, PageInv
<1>6. CfgInv' /\ WbPageInv'
  <2>1. k # NoJob => JobInv(job["cfg"])'
    BY <1>2, Zenon DEF JobInv
  <2>2. k # NoJob => CfgRequests # {}
    OBVIOUS
  <2> QED BY <1>2, <2>1, <2>2, Zenon DEF RpcInv, CfgInv, WbPageInv
<1>7. UNCHANGED Abstract!vars
  BY <1>2, MessagesKept, SMTT(30) DEF Abstract!vars
<1> QED BY <1>3, <1>4, <1>5, <1>6, <1>7 DEF RpcInv

\* The steps of the other process.
LEMMA CfgSteps ==
  ASSUME RpcInv, CfgStart \/ CfgFinish \/ CfgDies
  PROVE  RpcInv' /\ [Abstract!Next]_(Abstract!vars)
<1>1. /\ open \in [Procs -> BOOLEAN]
      /\ effort \in [calls : [Clients -> Int], events : Int, opens : {0, 1}]
  BY DEF RpcInv, Types
<1>2. CASE CfgStart
  <2>1. /\ open["cfg"] /\ effort' = [effort EXCEPT !.events = effort.events - 1]
        /\ UNCHANGED <<mem, stuck, open, pipe, call, served, alone>>
    BY <1>2 DEF CfgStart
  <2>2. PICK op \in CfgRequests : job' = [job EXCEPT !["cfg"] = Job(op, 1)]
    BY <1>2, Zenon DEF CfgStart
  <2>3. Performed(op) /\ op \in Requests \cup CfgRequests /\ 1 \in Nat
    BY RequestsFit DEF Performed
  <2>4. PICK k : k = Job(op, 1)
    OBVIOUS
  <2>5. k \in Jobs /\ JobInv(k) /\ k.op \in CfgRequests
    BY <2>3, <2>4, NewJob
  <2>6. effort' \in [calls : [Clients -> Int], events : Int, opens : {0, 1}] /\ effort'.opens = effort.opens
    BY <1>1, <2>1
  <2> QED BY <1>1, <2>1, <2>2, <2>4, <2>5, <2>6, CfgStep, Zenon
<1>3. CASE CfgFinish
  <2>1. job' = [job EXCEPT !["cfg"] = NoJob] /\ UNCHANGED <<mem, stuck, open, pipe, call, served, alone, effort>>
    BY <1>3 DEF CfgFinish
  <2> QED BY <1>1, <2>1, CfgStep, Zenon
<1>4. CASE CfgDies
  <2>1. /\ job' = [job EXCEPT !["cfg"] = NoJob] /\ open' = [open EXCEPT !["cfg"] = FALSE]
        /\ UNCHANGED <<mem, stuck, pipe, call, served, alone, effort>>
    BY <1>4 DEF CfgDies
  <2>2. open' \in [Procs -> BOOLEAN] /\ open'["devio"] = open["devio"] /\ ~open'["cfg"]
    BY <1>1, <2>1 DEF Procs
  <2> QED BY <1>1, <2>1, <2>2, CfgStep, Zenon
<1> QED BY <1>2, <1>3, <1>4

(* ------------------------------ the theorems --------------------------- *)

\* The initial states.
LEMMA RpcInit ==
  ASSUME Init
  PROVE  RpcInv /\ Abstract!Init
<1>1. Abstract!Init
  BY DEF Init, Abstract!Init, Shown, Idle, Abstract!Idle, NoPipe, Bar0, Sdram, Wb, BAR0NO, BAR2NO, BAR4NO
<1>2. mem \in [Addr -> Int] /\ mem[<<BAR0NO, "WB_PG">>] = 0
  BY RequestsFit DEF Init, Addr, Bar0, Sdram, Wb, BAR0NO, BAR2NO, BAR4NO
<1>3. effort \in [calls : [Clients -> Int], events : Int, opens : {0, 1}] /\ effort.opens = 1
  BY RpcAssumption DEF Init
<1>4. Types
  BY <1>2, <1>3, Zenon DEF Init, Types
<1>5. \A c \in Clients : ClientInv(c)
  BY Zenon DEF Init, ClientInv, Idle, NoPipe
<1>6. ServedInv
  BY Zenon DEF Init, ServedInv, Procs
<1>7. CfgInv
  BY Zenon DEF Init, CfgInv, Procs
<1>8. WbPageInv
  BY <1>2, FirstPage DEF WbPageInv
<1> QED BY <1>1, <1>4, <1>5, <1>6, <1>7, <1>8 DEF RpcInv

\* Every step keeps the invariant, and is a step of RemoteAccess or a stutter.
LEMMA RpcNext ==
  ASSUME RpcInv, [Next]_vars
  PROVE  RpcInv' /\ [Abstract!Next]_(Abstract!vars)
<1>1. CASE UNCHANGED vars
  <2>1. Types' /\ (\A c \in Clients : ClientInv(c)')
    BY <1>1, Zenon DEF vars, RpcInv, Types, ClientInv
  <2>2. ServedInv' /\ CfgInv' /\ WbPageInv'
    BY <1>1, Zenon DEF vars, RpcInv, ServedInv, CfgInv, WbPageInv, JobInv, PageInv
  <2>3. UNCHANGED Abstract!vars
    BY <1>1, MessagesKept, RestKept, Zenon DEF vars, Abstract!vars
  <2> QED BY <2>1, <2>2, <2>3 DEF RpcInv
<1>2. CASE \E c \in Clients : Send(c) \/ Receive(c) \/ Proceed(c) \/ Handle(c)
  BY <1>2, SendStep, ReceiveStep, ProceedStep, HandleStep
<1>3. CASE DevOpen \/ Finish \/ Stall
  BY <1>3, DevOpenStep, FinishStep, StallStep
<1>4. CASE \E p \in Procs : Access(p)
  BY <1>4, ResetStep, SelectPageStep, TransferStep DEF Access
<1>5. CASE CfgStart \/ CfgFinish \/ CfgDies
  BY <1>5, CfgSteps
<1> QED BY <1>1, <1>2, <1>3, <1>4, <1>5 DEF Next

\* The DEVIO thread performs the operation of the client whose message it
\* holds; its loops over the pages are where the words transferred so far put
\* them; the page it chose stays chosen while no other process is there.
THEOREM RpcInvariance == Spec => []RpcInv
<1>1. Init => RpcInv
  BY RpcInit
<1>2. RpcInv /\ [Next]_vars => RpcInv'
  BY RpcNext
<1> QED BY <1>1, <1>2, PTL DEF Spec

\* The register accesses of the SMIOs keep the promise of RemoteAccess, with
\* any number of SMIOs, any size of the pages and of the board, any requests
\* that fit, and however often the board stops to answer.
THEOREM Implements == Spec => Refines
<1>1. Init => Abstract!Init
  BY RpcInit
<1>2. RpcInv /\ [Next]_vars => [Abstract!Next]_(Abstract!vars)
  BY RpcNext
<1> QED BY <1>1, <1>2, RpcInvariance, PTL DEF Spec, Refines, Abstract!Spec
=============================================================================
