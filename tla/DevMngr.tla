------------------------------ MODULE DevMngr ------------------------------
(***************************************************************************)
(* The processes of a crate: the device manager (dev_mngr), which starts   *)
(* the broker and one back-end DEVIO per FPGA board it finds; the DEVIOs   *)
(* (ebpm), which start a DEVIO_CFG to learn the slot of their board and    *)
(* one front-end DEVIO per RFFE; and the signals between them.             *)
(*                                                                         *)
(* Nothing calls setpgid, so all processes the manager started, directly   *)
(* or not, are one process group, and kill (0, ...) reaches all of them.   *)
(* The IOCs of EPICS that a DEVIO can also start are left out.             *)
(***************************************************************************)
EXTENDS Naturals

CONSTANTS
    Devs,       \* the boards: the numbers under /dev/fpga
    Rffes,      \* the RFFEs per board in the configuration file
    MaxFaults   \* bound on the faults

ASSUME FaultsAssumption == MaxFaults \in Nat

VARIABLES
    mgr,        \* the manager, and the copy of it that a failed exec leaves behind
    proc,       \* the other processes
    plugged,    \* the boards that are there
    spawn_cfg,  \* dmngr_spawn_broker_cfg: the manager starts the broker
    hist        \* history: faults, starts per process, who signalled the group

vars == <<mgr, proc, plugged, spawn_cfg, hist>>

Managers == {"mgr", "copy"}

Be(d) == <<"be", d>>

Cfg(d) == <<"cfg", d>>

Fe(d, j) == <<"fe", d, j>>

Broker == <<"broker">>

BEs == {Be(d) : d \in Devs}

CFGs == {Cfg(d) : d \in Devs}

FEs == {Fe(d, j) : d \in Devs, j \in Rffes}

Procs == {Broker} \cup BEs \cup CFGs \cup FEs

\* A process that runs; "dead" is one that crashed, "gone" one that ended.
Alive(p) == proc[p].pc \notin {"none", "gone", "dead"}

Running(m) == mgr[m].pc \notin {"none", "gone", "dead"}

\* pid is child_devio_cfg_pid: 0 until a DEVIO_CFG is started.
NoProc == [pc |-> "none", sig |-> "none", pid |-> 0, todo |-> {}]

(***************************************************************************)
(* fork and exec.  parent and child are what hutils_spawn_chld returns in  *)
(* each of the two processes; the child gets a value, and goes on with the *)
(* code of its parent, only when exec failed ("never" otherwise).  When    *)
(* fork fails there is no child.                                           *)
(***************************************************************************)

\* Seeded defect: a child that could not exec returns what fork returned.
spawn_chld_falls_through ==
    {[parent |-> "pid", child |-> "never", execd |-> TRUE, fault |-> 0],
     [parent |-> "pid", child |-> "pid", execd |-> FALSE, fault |-> 1],
     [parent |-> "error", child |-> "never", execd |-> FALSE, fault |-> 1]}

hutils_spawn_chld ==
    {[parent |-> "pid", child |-> "never", execd |-> TRUE, fault |-> 0],
     [parent |-> "pid", child |-> "error", execd |-> FALSE, fault |-> 1],
     [parent |-> "error", child |-> "never", execd |-> FALSE, fault |-> 1]}

\* Faults f may still happen.
Within(f) == hist.faults + f <= MaxFaults

\* The processes after p was started.
Started(ps, p, s) == IF s.execd THEN [ps EXCEPT ![p] = [NoProc EXCEPT !.pc = "exec"]] ELSE ps

Counted(p, s) ==
    hist' = [hist EXCEPT !.faults = @ + s.fault,
                         !.started[p] = IF s.execd THEN @ + 1 ELSE @]

(***************************************************************************)
(* Initial state.                                                          *)
(***************************************************************************)

\* What is known of the boards after a scan: those that are new are ready to run.
Found(info) ==
    [d \in DOMAIN info \cup plugged |-> IF d \in DOMAIN info THEN info[d] ELSE "READY_TO_RUN"]

NoManager == [pc |-> "none", sig |-> "none", broker_running |-> FALSE, info |-> <<>>, todo |-> {}]

\* dmngr_new has scanned the boards; nothing is started yet.
Init ==
    /\ plugged \in SUBSET Devs
    /\ mgr = [m \in Managers |->
                IF m = "mgr" THEN [NoManager EXCEPT !.pc = "broker", !.info = Found(<<>>)] ELSE NoManager]
    /\ spawn_cfg \in BOOLEAN
    /\ proc = [p \in Procs |-> IF p = Broker /\ ~spawn_cfg THEN [NoProc EXCEPT !.pc = "up"] ELSE NoProc]
    /\ hist = [faults |-> 0, started |-> [p \in Procs |-> 0], down |-> {}]

(***************************************************************************)
(* The device manager.                                                     *)
(***************************************************************************)

\* The managers after m has called hutils_spawn_chld: it goes on as started,
\* or ends when the call returned an error, and so does the copy of it that a
\* failed exec leaves behind.
Spawned(m, s, started) ==
    LET After(ret) == IF ret = "error" THEN [mgr[m] EXCEPT !.pc = "end"] ELSE started
    IN  mgr' = [x \in Managers |->
                  IF x = m THEN After(s.parent)
                  ELSE IF s.child # "never" /\ ~Running(x) THEN [After(s.child) EXCEPT !.sig = "none"]
                  ELSE mgr[x]]

\* broker_running is set when the broker is started, and never reset.
dmngr_spawn_broker(m) ==
    /\ mgr[m].pc = "broker"
    /\ IF mgr[m].broker_running \/ ~spawn_cfg
       THEN mgr' = [mgr EXCEPT ![m].pc = "scan"] /\ UNCHANGED <<proc, hist>>
       ELSE \E s \in hutils_spawn_chld :
              /\ Within(s.fault)
              /\ Spawned(m, s, [mgr[m] EXCEPT !.broker_running = TRUE, !.pc = "scan"])
              /\ proc' = Started(proc, Broker, s)
              /\ Counted(Broker, s)
    /\ UNCHANGED <<plugged, spawn_cfg>>

\* Boards that are not known yet become ready to run; want of memory ends
\* the manager.
dmngr_scan_devs(m) ==
    /\ mgr[m].pc = "scan"
    /\ \/ /\ mgr' = [mgr EXCEPT ![m].info = Found(mgr[m].info),
                              ![m].todo = DOMAIN mgr[m].info \cup plugged, ![m].pc = "spawn"]
          /\ UNCHANGED hist
       \/ /\ Within(1)
          /\ mgr' = [mgr EXCEPT ![m].pc = "end"]
          /\ hist' = [hist EXCEPT !.faults = @ + 1]
    /\ UNCHANGED <<proc, plugged, spawn_cfg>>

\* One device of the list that is ready to run.
SpawnDevio(m, d) ==
    /\ mgr[m].info[d] = "READY_TO_RUN"
    /\ \E s \in hutils_spawn_chld :
         /\ Within(s.fault)
         /\ Spawned(m, s, [mgr[m] EXCEPT !.info[d] = "RUNNING", !.todo = @ \ {d}])
         /\ proc' = Started(proc, Be(d), s)
         /\ Counted(Be(d), s)

\* Seeded defect: a device that runs ends the list.
spawn_skip_stops(m, d) ==
    /\ mgr[m].info[d] # "READY_TO_RUN"
    /\ mgr' = [mgr EXCEPT ![m].todo = {}]
    /\ UNCHANGED <<proc, hist>>

\* One device of the list that is not: nobody reports that it has ended, so
\* it is running for ever.
SkipDevio(m, d) ==
    /\ mgr[m].info[d] # "READY_TO_RUN"
    /\ mgr' = [mgr EXCEPT ![m].todo = @ \ {d}]
    /\ UNCHANGED <<proc, hist>>

\* The order is that of the hash table.
dmngr_spawn_all_devios(m) ==
    /\ mgr[m].pc = "spawn"
    /\ \/ \E d \in mgr[m].todo : SpawnDevio(m, d) \/ SkipDevio(m, d)
       \/ /\ mgr[m].todo = {}
          /\ mgr' = [mgr EXCEPT ![m].pc = "wait"]
          /\ UNCHANGED <<proc, hist>>
    /\ UNCHANGED <<plugged, spawn_cfg>>

\* The child that is waited for is not looked at; a signal ends the loop
\* here, and only here.
WaitAndSleep(m) ==
    /\ mgr[m].pc = "wait"
    /\ mgr' = [mgr EXCEPT ![m].pc = IF mgr[m].sig = "none" THEN "broker" ELSE "end"]
    /\ UNCHANGED <<proc, plugged, spawn_cfg, hist>>

\* The manager leaves its children alone.
dmngr_destroy(m) ==
    /\ mgr[m].pc = "end"
    /\ mgr' = [mgr EXCEPT ![m].pc = "gone"]
    /\ UNCHANGED <<proc, plugged, spawn_cfg, hist>>

MgrStep(m) ==
    dmngr_spawn_broker(m) \/ dmngr_scan_devs(m) \/ dmngr_spawn_all_devios(m)
    \/ WaitAndSleep(m) \/ dmngr_destroy(m)

(***************************************************************************)
(* A DEVIO: main of ebpm.                                                  *)
(***************************************************************************)

Group == <<"group">>

\* The processes after kill (pid, SIGINT); pid 0 is the group.
Signalled(ps, pid) ==
    [p \in Procs |->
       IF Alive(p) /\ ps[p].sig = "none" /\ (pid = p \/ (pid = Group /\ (p # Broker \/ spawn_cfg)))
       THEN [ps[p] EXCEPT !.sig = IF pid = p THEN "parent" ELSE "group"] ELSE ps[p]]

\* Whom a process passes to kill.
Pid(p) == IF proc[p].pid = 0 THEN Group ELSE Cfg(p[2])

\* A back end starts DEVIO_CFG and sleeps.  An error at fork ends it without
\* a signal, and a copy left by exec ends the same way.
SpawnCfg(d) ==
    /\ proc[Be(d)].pc = "exec"
    /\ \E s \in hutils_spawn_chld :
         /\ Within(s.fault)
         /\ proc' = [Started(proc, Cfg(d), s) EXCEPT
              ![Be(d)] = IF s.parent = "error" THEN [@ EXCEPT !.pc = "gone"]
                         ELSE [@ EXCEPT !.pc = "client", !.pid = 1]]
         /\ Counted(Cfg(d), s)
    /\ UNCHANGED <<mgr, plugged, spawn_cfg>>

\* A step of p from one place to the next, or to its error label.  It fails
\* without a fault when p was interrupted or when able is false.
Try(p, from, to, label, able) ==
    /\ proc[p].pc = from
    /\ \/ /\ able
          /\ proc' = [proc EXCEPT ![p].pc = to]
          /\ UNCHANGED hist
       \/ LET f == IF able /\ proc[p].sig = "none" THEN 1 ELSE 0
          IN  /\ Within(f)
              /\ proc' = [proc EXCEPT ![p].pc = label]
              /\ hist' = [hist EXCEPT !.faults = @ + f]
    /\ UNCHANGED <<mgr, plugged, spawn_cfg>>


\* A client, connected to the broker.
NewClient(d) == Try(Be(d), "client", "slot", "exit", Alive(Broker))

\* The slot number, which DEVIO_CFG answers over the broker.
CardSlot(d) == Try(Be(d), "slot", "kill", "exit", Alive(Broker) /\ Alive(Cfg(d)))

\* DEVIO_CFG is signalled and not waited for.
KillCfg(d) ==
    /\ proc[Be(d)].pc = "kill"
    /\ proc' = [Signalled(proc, Pid(Be(d))) EXCEPT ![Be(d)].pc = "new"]
    /\ UNCHANGED <<mgr, plugged, spawn_cfg, hist>>

\* The DEVIO, the configuration, the thread that serves; in a front end also
\* the SMIOs of the platform.
DevioNewBe(d) == Try(Be(d), "new", "fes", "exit", TRUE)

DevioNewFe(p) == Try(p, "exec", "up", "exit", TRUE)

\* The front ends, in order; an error ends the loop and is forgotten.  (A copy
\* left by exec has none of the threads of its DEVIO and serves nobody.)
SpawnRffe(d) ==
    LET b == Be(d)
        left == {j \in Rffes : j \notin proc[b].todo}
    IN  /\ proc[b].pc = "fes"
        /\ \E j \in left, s \in hutils_spawn_chld :
             /\ \A i \in left : j <= i
             /\ Within(s.fault)
             /\ proc' = [Started(proc, Fe(d, j), s) EXCEPT
                  ![b] = [proc[b] EXCEPT !.todo = IF s.parent = "error" THEN Rffes ELSE @ \cup {j}]]
             /\ Counted(Fe(d, j), s)
        /\ UNCHANGED <<mgr, plugged, spawn_cfg>>

\* The IOCs, and the SMIOs of the platform.
SpawnSmios(d) == Rffes \subseteq proc[Be(d)].todo /\ Try(Be(d), "fes", "up", "exit", TRUE)

\* The main thread returns from its receive when a signal arrives.
Interrupted(p) ==
    /\ proc[p].pc = "up" /\ proc[p].sig # "none"
    /\ proc' = [proc EXCEPT ![p].pc = "exit"]
    /\ UNCHANGED <<mgr, plugged, spawn_cfg, hist>>


\* Everything is destroyed, and DEVIO_CFG signalled: again in a back end that
\* got that far, and with pid 0, which is the whole group, in a front end.
Exit(p) ==
    /\ proc[p].pc = "exit"
    /\ proc' = [Signalled(proc, Pid(p)) EXCEPT ![p].pc = "gone"]
    /\ mgr' = [m \in Managers |-> IF Running(m) /\ mgr[m].sig = "none" /\ proc[p].pid = 0
                                  THEN [mgr[m] EXCEPT !.sig = "group"] ELSE mgr[m]]
    /\ hist' = [hist EXCEPT !.down = IF proc[p].pid = 0 THEN @ \cup {p} ELSE @]
    /\ UNCHANGED <<plugged, spawn_cfg>>

\* SIGINT before CZMQ has installed its handler.
DefaultAction(p) ==
    /\ proc[p].pc = "exec" /\ proc[p].sig # "none"
    /\ proc' = [proc EXCEPT ![p].pc = "gone"]
    /\ UNCHANGED <<mgr, plugged, spawn_cfg, hist>>

BeStep(d) ==
    SpawnCfg(d) \/ NewClient(d) \/ CardSlot(d) \/ KillCfg(d) \/ DevioNewBe(d) \/ SpawnRffe(d)
    \/ SpawnSmios(d) \/ Interrupted(Be(d)) \/ Exit(Be(d)) \/ DefaultAction(Be(d))

FeStep(p) == DevioNewFe(p) \/ Interrupted(p) \/ Exit(p) \/ DefaultAction(p)

(***************************************************************************)
(* The broker and DEVIO_CFG end when they are signalled.                   *)
(***************************************************************************)

Obey(p) ==
    /\ Alive(p) /\ proc[p].sig # "none"
    /\ proc' = [proc EXCEPT ![p].pc = "gone"]
    /\ UNCHANGED <<mgr, plugged, spawn_cfg, hist>>

(***************************************************************************)
(* The world: boards appear, processes crash or are signalled by hand.     *)
(***************************************************************************)

Plug(d) ==
    /\ d \notin plugged
    /\ plugged' = plugged \cup {d}
    /\ UNCHANGED <<mgr, proc, spawn_cfg, hist>>

Crash(p) ==
    /\ Alive(p) /\ Within(1)
    /\ proc' = [proc EXCEPT ![p].pc = "dead"]
    /\ hist' = [hist EXCEPT !.faults = @ + 1]
    /\ UNCHANGED <<mgr, plugged, spawn_cfg>>

ByHand(p) ==
    /\ Alive(p) /\ proc[p].sig = "none" /\ Within(1)
    /\ proc' = [proc EXCEPT ![p].sig = "hand"]
    /\ hist' = [hist EXCEPT !.faults = @ + 1]
    /\ UNCHANGED <<mgr, plugged, spawn_cfg>>

StopManager ==
    /\ Running("mgr") /\ mgr["mgr"].sig = "none" /\ Within(1)
    /\ mgr' = [mgr EXCEPT !["mgr"].sig = "hand"]
    /\ hist' = [hist EXCEPT !.faults = @ + 1]
    /\ UNCHANGED <<proc, plugged, spawn_cfg>>

Next ==
    \/ \E m \in Managers : MgrStep(m)
    \/ \E d \in Devs : BeStep(d) \/ Plug(d)
    \/ \E p \in FEs : FeStep(p)
    \/ \E p \in CFGs \cup {Broker} : Obey(p)
    \/ \E p \in Procs : Crash(p) \/ ByHand(p)
    \/ StopManager

Spec == Init /\ [][Next]_vars

\* The scheduler runs every process.
FairSpec ==
    /\ Spec
    /\ \A m \in Managers : WF_vars(MgrStep(m))
    /\ \A d \in Devs : WF_vars(BeStep(d))
    /\ \A p \in FEs : WF_vars(FeStep(p))
    /\ \A p \in CFGs \cup {Broker} : WF_vars(Obey(p))

(***************************************************************************)
(* Properties.                                                             *)
(***************************************************************************)

States == {"READY_TO_RUN", "RUNNING"}

Infos == UNION {[D -> States] : D \in SUBSET Devs}

MgrPCs == {"none", "broker", "scan", "spawn", "wait", "end", "gone"}

ProcPCs == {"none", "exec", "client", "slot", "kill", "new", "fes", "up", "exit", "gone", "dead"}

Sigs == {"none", "parent", "group", "hand"}

ManagerType == [pc : MgrPCs, sig : Sigs, broker_running : BOOLEAN, info : Infos, todo : SUBSET Devs]

ProcType == [pc : ProcPCs, sig : Sigs, pid : {0, 1}, todo : SUBSET Rffes]

HistType == [faults : Nat, started : [Procs -> Nat], down : SUBSET Procs]

(* Every variable holds a value of its type. *)
TypeOK ==
    /\ mgr \in [Managers -> ManagerType]
    /\ proc \in [Procs -> ProcType]
    /\ hist \in HistType
    /\ plugged \in SUBSET Devs
    /\ spawn_cfg \in BOOLEAN

(* No process is ever started twice: two DEVIOs never drive one board, and  *)
(* the copy of the manager that a failed exec leaves behind starts nothing. *)
(* It also means that a broker or a DEVIO that has ended is not started     *)
(* again (broker_running is not reset, no state becomes KILLED).            *)
StartedOnce == \A p \in Procs : hist.started[p] <= 1

(* A DEVIO and its DEVIO_CFG access the same board at the same time only    *)
(* after DEVIO_CFG was told to end, which the DEVIO does not wait for.      *)
CfgToldToEnd ==
    \A d \in Devs : proc[Be(d)].pc \in {"new", "fes", "up"} /\ Alive(Cfg(d)) =>
        proc[Cfg(d)].sig # "none"

(* A signal that nobody sent by hand reaches a process other than a         *)
(* DEVIO_CFG only because a front end has ended, never because of a back    *)
(* end, wherever it failed: only a front end still has pid 0.               *)
OnlyFrontEndsSignalAll ==
    /\ hist.down \subseteq FEs
    /\ \A p \in Procs : /\ proc[p].sig = "group" => hist.down # {}
                        /\ proc[p].sig = "parent" => p \in CFGs

\* What the managers know: a copy that exec left behind only ends, and what
\* was started is recorded.
MgrInv ==
    /\ mgr["copy"].pc \in {"none", "end", "gone"}
    /\ mgr["mgr"].todo \subseteq DOMAIN mgr["mgr"].info
    /\ \A m \in Managers : DOMAIN mgr[m].info \subseteq plugged
    /\ hist.started[Broker] <= 1
    /\ hist.started[Broker] = 1 => mgr["mgr"].broker_running
    /\ \A d \in Devs :
          /\ hist.started[Be(d)] <= 1
          /\ hist.started[Be(d)] = 1 =>
               d \in DOMAIN mgr["mgr"].info /\ mgr["mgr"].info[d] = "RUNNING"

\* What a back end has started, by the place it has got to.
BeInv ==
    \A d \in Devs :
       LET b == proc[Be(d)]
       IN  /\ hist.started[Be(d)] = 0 => b.pc = "none"
           /\ hist.started[Cfg(d)] <= 1
           /\ b.pc \in {"none", "exec"} => hist.started[Cfg(d)] = 0
           /\ b.pc \in {"client", "slot", "kill", "new", "fes", "up", "exit"} => b.pid = 1
           /\ \A j \in Rffes :
                /\ hist.started[Fe(d, j)] <= 1
                /\ b.pc \in {"none", "exec", "client", "slot", "kill", "new"} =>
                     b.todo = {} /\ hist.started[Fe(d, j)] = 0
                /\ b.pc = "fes" /\ j \notin b.todo => hist.started[Fe(d, j)] = 0

(* The inductive invariant: what was started is recorded by whoever starts  *)
(* it, so that nothing is started twice; a DEVIO works beside its DEVIO_CFG *)
(* only after telling it to end; only a front end signals the whole group.  *)
MngrInv ==
    /\ TypeOK /\ MgrInv /\ BeInv
    /\ CfgToldToEnd /\ OnlyFrontEndsSignalAll
    /\ hist.faults <= MaxFaults

(* A board that is found gets its DEVIO, unless something fails: devices    *)
(* that run already do not keep the manager from starting others.           *)
BoardServed == \A d \in Devs : d \in plugged ~> (proc[Be(d)].pc = "up" \/ hist.faults > 0)


=============================================================================
