--------------------------- MODULE DevMngrProofs ---------------------------
(***************************************************************************)
(* Proofs about the processes of a crate, for every set of boards and      *)
(* RFFEs and any number of faults.                                         *)
(***************************************************************************)
EXTENDS DevMngr, TLAPS

(* Provers of a leaf that names none, with their time limits in seconds.     *)
USE SMTT(20), ZenonT(20)

(***************************************************************************)
(* Names of processes.                                                     *)
(***************************************************************************)

\* Different processes have different names.
LEMMA Names ==
    /\ \A d, e : Be(d) = Be(e) => d = e
    /\ \A d, e : Cfg(d) = Cfg(e) => d = e
    /\ \A d, e, j, k : Fe(d, j) = Fe(e, k) => d = e /\ j = k
    /\ \A d, e, j : Be(d) # Cfg(e) /\ Be(d) # Fe(e, j) /\ Cfg(d) # Fe(e, j)
    /\ \A d : Be(d) # Broker /\ Cfg(d) # Broker /\ Be(d) # Group /\ Cfg(d) # Group
    /\ \A d, j : Fe(d, j) # Broker /\ Fe(d, j) # Group
    /\ Broker # Group
    /\ \A d : Be(d)[2] = d /\ Cfg(d)[2] = d
BY DEF Be, Cfg, Fe, Broker, Group

\* What the sets of processes contain.
LEMMA Members ==
    /\ Broker \in Procs
    /\ \A d \in Devs : Be(d) \in Procs /\ Cfg(d) \in Procs /\ Cfg(d) \in CFGs
    /\ \A d \in Devs, j \in Rffes : Fe(d, j) \in Procs /\ Fe(d, j) \in FEs
    /\ FEs \subseteq Procs /\ CFGs \subseteq Procs
    /\ \A p \in CFGs : \E d \in Devs : p = Cfg(d)
    /\ \A p \in FEs : \E d \in Devs, j \in Rffes : p = Fe(d, j)
    /\ \A p \in Procs : p # Group
BY Names DEF Procs, BEs, CFGs, FEs

(***************************************************************************)
(* Steps that leave the processes, and what was started, alone.            *)
(***************************************************************************)

\* The part of the invariant about processes depends on them alone.
LEMMA ProcsUnchanged ==
    ASSUME MngrInv, UNCHANGED proc, hist'.started = hist.started, hist'.down = hist.down
    PROVE  BeInv' /\ CfgToldToEnd' /\ OnlyFrontEndsSignalAll'
BY DEF MngrInv, BeInv, CfgToldToEnd, OnlyFrontEndsSignalAll, Alive

\* One fault more.
LEMMA OneFault ==
    ASSUME TypeOK, Within(1), hist' = [hist EXCEPT !.faults = @ + 1]
    PROVE  /\ hist' \in HistType /\ hist'.faults <= MaxFaults
           /\ hist'.started = hist.started /\ hist'.down = hist.down
BY FaultsAssumption DEF TypeOK, HistType, Within

\* A step in which one manager changes to r.
LEMMA ManagerAlone ==
    ASSUME MngrInv, NEW m \in Managers, NEW r \in ManagerType,
           mgr' = [mgr EXCEPT ![m] = r], UNCHANGED <<proc, plugged, spawn_cfg>>,
           hist' \in HistType, hist'.faults <= MaxFaults,
           hist'.started = hist.started, hist'.down = hist.down,
           DOMAIN r.info \subseteq plugged, r.broker_running = mgr[m].broker_running,
           m = "mgr" => r.todo \subseteq DOMAIN r.info,
           \A d \in DOMAIN mgr[m].info : d \in DOMAIN r.info /\ r.info[d] = mgr[m].info[d],
           m = "copy" => r.pc \in {"none", "end", "gone"}
    PROVE  MngrInv'
<1>1. TypeOK'
    BY DEF MngrInv, TypeOK
<1>2. MgrInv'
    BY DEF MngrInv, MgrInv, TypeOK, Managers
<1> QED BY <1>1, <1>2, ProcsUnchanged DEF MngrInv

\* A scan keeps what is known of the boards, and adds to it.
LEMMA ScanDevs ==
    ASSUME MngrInv, NEW m \in Managers, dmngr_scan_devs(m)
    PROVE  MngrInv'
<1>1. m = "mgr" /\ UNCHANGED <<proc, plugged, spawn_cfg>>
    BY DEF dmngr_scan_devs, MngrInv, MgrInv, Managers
<1>2. /\ mgr \in [Managers -> ManagerType] /\ mgr[m] \in ManagerType
      /\ mgr[m].info \in Infos /\ mgr[m].todo \subseteq DOMAIN mgr[m].info
      /\ plugged \in SUBSET Devs /\ DOMAIN mgr[m].info \subseteq plugged
      /\ hist \in HistType /\ hist.faults <= MaxFaults
    BY <1>1 DEF MngrInv, MgrInv, TypeOK, ManagerType
<1>3. CASE /\ mgr' = [mgr EXCEPT ![m].info = Found(mgr[m].info),
                                 ![m].todo = DOMAIN mgr[m].info \cup plugged, ![m].pc = "spawn"]
           /\ UNCHANGED hist
    <2> DEFINE new == Found(mgr[m].info)
               r == [mgr[m] EXCEPT !.info = new, !.todo = DOMAIN mgr[m].info \cup plugged, !.pc = "spawn"]
    <2>1. PICK D \in SUBSET Devs : mgr[m].info \in [D -> States]
        BY <1>2 DEF Infos
    <2>2. new \in [plugged -> States]
        BY <1>2, <2>1 DEF Found, States
    <2>3. /\ new \in Infos /\ DOMAIN new = plugged
          /\ \A d \in DOMAIN mgr[m].info : new[d] = mgr[m].info[d]
        BY <1>2, <2>1, <2>2 DEF Found, Infos
    <2> HIDE DEF new
    <2>4. /\ r \in ManagerType /\ r.info = new /\ r.todo = plugged
          /\ r.broker_running = mgr[m].broker_running
        BY <1>2, <2>3, Zenon DEF ManagerType, MgrPCs
    <2>5. mgr' = [mgr EXCEPT ![m] = r]
        BY <1>2, <1>3, Zenon DEF new
    <2> HIDE DEF r
    <2>6. /\ DOMAIN r.info \subseteq plugged /\ r.todo \subseteq DOMAIN r.info
          /\ \A d \in DOMAIN mgr[m].info : d \in DOMAIN r.info /\ r.info[d] = mgr[m].info[d]
        BY <1>2, <2>3, <2>4
    <2>7. hist' \in HistType /\ hist'.faults <= MaxFaults /\ hist'.started = hist.started /\ hist'.down = hist.down
        BY <1>2, <1>3
    <2> QED BY <1>1, <2>4, <2>5, <2>6, <2>7, ManagerAlone, Zenon
<1>4. CASE Within(1) /\ mgr' = [mgr EXCEPT ![m].pc = "end"] /\ hist' = [hist EXCEPT !.faults = @ + 1]
    <2> DEFINE r == [mgr[m] EXCEPT !.pc = "end"]
    <2>1. /\ r \in ManagerType /\ r.info = mgr[m].info /\ r.todo = mgr[m].todo
          /\ r.broker_running = mgr[m].broker_running
        BY <1>2 DEF ManagerType, MgrPCs
    <2>2. mgr' = [mgr EXCEPT ![m] = r]
        BY <1>2, <1>4
    <2> HIDE DEF r
    <2>3. TypeOK
        BY DEF MngrInv
    <2> QED BY <1>1, <1>2, <1>4, <2>1, <2>2, <2>3, OneFault, ManagerAlone, Zenon
<1> QED BY <1>3, <1>4 DEF dmngr_scan_devs

\* A step in which a manager only changes its place, its signal and its list.
LEMMA ManagerMoves ==
    ASSUME MngrInv, NEW m \in Managers, NEW pc \in MgrPCs, NEW sig \in Sigs, NEW todo \in SUBSET mgr[m].todo,
           mgr' = [mgr EXCEPT ![m] = [@ EXCEPT !.pc = pc, !.sig = sig, !.todo = todo]],
           UNCHANGED <<proc, plugged, spawn_cfg>>,
           hist' \in HistType, hist'.faults <= MaxFaults,
           hist'.started = hist.started, hist'.down = hist.down,
           m = "copy" => pc \in {"none", "end", "gone"}
    PROVE  MngrInv'
<1> DEFINE r == [mgr[m] EXCEPT !.pc = pc, !.sig = sig, !.todo = todo]
<1>1. /\ mgr \in [Managers -> ManagerType] /\ mgr[m] \in ManagerType
      /\ DOMAIN mgr[m].info \subseteq plugged
      /\ m = "mgr" => mgr[m].todo \subseteq DOMAIN mgr[m].info
    BY DEF MngrInv, MgrInv, TypeOK
<1>2. /\ r \in ManagerType /\ r.info = mgr[m].info /\ r.todo = todo /\ r.pc = pc
      /\ r.broker_running = mgr[m].broker_running
    BY <1>1, Zenon DEF ManagerType
<1>3. mgr' = [mgr EXCEPT ![m] = r]
    BY <1>1
<1> HIDE DEF r
<1>4. /\ DOMAIN r.info \subseteq plugged
      /\ m = "mgr" => r.todo \subseteq DOMAIN r.info
      /\ \A d \in DOMAIN mgr[m].info : d \in DOMAIN r.info /\ r.info[d] = mgr[m].info[d]
      /\ m = "copy" => r.pc \in {"none", "end", "gone"}
    BY <1>1, <1>2
<1> QED BY <1>2, <1>3, <1>4, ManagerAlone, Zenon

\* Steps of a manager that start nothing.
LEMMA ManagerIdle ==
    ASSUME MngrInv, NEW m \in Managers, UNCHANGED <<proc, plugged, spawn_cfg, hist>>,
           \/ mgr[m].pc = "broker" /\ mgr' = [mgr EXCEPT ![m].pc = "scan"]
           \/ mgr[m].pc = "spawn" /\ \E d \in mgr[m].todo : mgr' = [mgr EXCEPT ![m].todo = @ \ {d}]
           \/ mgr[m].pc = "spawn" /\ mgr' = [mgr EXCEPT ![m].pc = "wait"]
           \/ mgr[m].pc = "wait" /\ mgr' = [mgr EXCEPT ![m].pc = IF mgr[m].sig = "none" THEN "broker" ELSE "end"]
           \/ mgr[m].pc = "end" /\ mgr' = [mgr EXCEPT ![m].pc = "gone"]
    PROVE  MngrInv'
<1>1. /\ mgr \in [Managers -> ManagerType] /\ mgr[m] \in ManagerType
      /\ hist \in HistType /\ hist.faults <= MaxFaults
      /\ m = "copy" => mgr[m].pc \in {"none", "end", "gone"}
    BY DEF MngrInv, MgrInv, TypeOK
<1>2. ASSUME NEW pc \in MgrPCs, mgr' = [mgr EXCEPT ![m].pc = pc], m = "copy" => pc \in {"none", "end", "gone"}
      PROVE  MngrInv'
    <2>1. mgr' = [mgr EXCEPT ![m] = [@ EXCEPT !.pc = pc, !.sig = mgr[m].sig, !.todo = mgr[m].todo]]
        BY <1>1, <1>2, Zenon DEF ManagerType
    <2>2. mgr[m].sig \in Sigs /\ mgr[m].todo \in SUBSET mgr[m].todo
        BY <1>1 DEF ManagerType
    <2> QED BY <1>1, <1>2, <2>1, <2>2, ManagerMoves, Zenon
<1>3. ASSUME NEW d \in mgr[m].todo, mgr[m].pc = "spawn", mgr' = [mgr EXCEPT ![m].todo = @ \ {d}]
      PROVE  MngrInv'
    <2> DEFINE todo == mgr[m].todo \ {d}
    <2>1. mgr' = [mgr EXCEPT ![m] = [@ EXCEPT !.pc = mgr[m].pc, !.sig = mgr[m].sig, !.todo = todo]]
        BY <1>1, <1>3, Zenon DEF ManagerType
    <2>2. mgr[m].sig \in Sigs /\ todo \in SUBSET mgr[m].todo /\ mgr[m].pc \in MgrPCs /\ m # "copy"
        BY <1>1, <1>3 DEF ManagerType
    <2> HIDE DEF todo
    <2> QED BY <1>1, <2>1, <2>2, ManagerMoves, Zenon
<1>4. {"scan", "wait", "broker", "end", "gone"} \subseteq MgrPCs
    BY DEF MgrPCs
<1>5. (IF mgr[m].sig = "none" THEN "broker" ELSE "end") \in MgrPCs
    BY <1>4
<1> QED BY <1>1, <1>2, <1>3, <1>4, <1>5

(***************************************************************************)
(* Starting processes.                                                     *)
(***************************************************************************)

\* The three ways a spawn can go.
LEMMA SpawnFates ==
    ASSUME NEW s \in hutils_spawn_chld
    PROVE  \/ s.parent = "pid" /\ s.child = "never" /\ s.execd = TRUE /\ s.fault = 0
           \/ s.parent = "pid" /\ s.child = "error" /\ s.execd = FALSE /\ s.fault = 1
           \/ s.parent = "error" /\ s.child = "never" /\ s.execd = FALSE /\ s.fault = 1
BY DEF hutils_spawn_chld

\* What is counted when p was started, or not.
LEMMA Counts ==
    ASSUME TypeOK, NEW s \in hutils_spawn_chld, NEW p \in Procs, Within(s.fault), Counted(p, s)
    PROVE  /\ hist' \in HistType /\ hist'.faults <= MaxFaults /\ hist'.down = hist.down
           /\ s.execd = FALSE => hist'.started = hist.started
           /\ s.execd = TRUE => /\ hist'.started[p] = hist.started[p] + 1
                                /\ \A q \in Procs \ {p} : hist'.started[q] = hist.started[q]
<1>1a. s.fault \in Nat
    <2>1. s.fault = 0 \/ s.fault = 1
        BY SpawnFates, Zenon
    <2> QED BY <2>1
<1>1b. hist \in HistType /\ hist.started \in [Procs -> Nat] /\ hist.faults \in Nat
    BY DEF TypeOK, HistType
<1>1. /\ hist \in HistType /\ hist.started \in [Procs -> Nat] /\ hist.faults \in Nat
      /\ s.fault \in Nat /\ hist.faults + s.fault <= MaxFaults
    BY <1>1a, <1>1b DEF Within
<1>0. s.execd = TRUE \/ s.execd = FALSE
    BY SpawnFates
<1> DEFINE n == [hist.started EXCEPT ![p] = IF s.execd THEN @ + 1 ELSE @]
<1>2. n \in [Procs -> Nat] /\ hist.faults + s.fault \in Nat
    BY <1>1, <1>0
<1>3. hist' = [hist EXCEPT !.faults = hist.faults + s.fault, !.started = n]
    BY <1>1 DEF Counted, HistType
<1>4. /\ s.execd = FALSE => n = hist.started
      /\ s.execd = TRUE => /\ n[p] = hist.started[p] + 1
                           /\ \A q \in Procs \ {p} : n[q] = hist.started[q]
    BY <1>1, <1>0
<1> HIDE DEF n
<1>5. hist' \in HistType /\ hist'.faults = hist.faults + s.fault /\ hist'.started = n /\ hist'.down = hist.down
    BY <1>1, <1>2, <1>3, Zenon DEF HistType
<1> QED BY <1>1, <1>4, <1>5

\* A step of both managers.
LEMMA ManagersChange ==
    ASSUME MngrInv, NEW r \in ManagerType, NEW c \in ManagerType,
           mgr' = [x \in Managers |-> IF x = "mgr" THEN r ELSE c],
           UNCHANGED <<plugged, spawn_cfg>>,
           DOMAIN r.info \subseteq plugged, r.todo \subseteq DOMAIN r.info,
           DOMAIN c.info \subseteq plugged, c.pc \in {"none", "end", "gone"},
           hist'.started[Broker] <= 1, hist'.started[Broker] = 1 => r.broker_running,
           \A d \in Devs : /\ hist'.started[Be(d)] <= 1
                           /\ hist'.started[Be(d)] = 1 => d \in DOMAIN r.info /\ r.info[d] = "RUNNING"
    PROVE  MgrInv' /\ mgr' \in [Managers -> ManagerType]
BY DEF MgrInv, Managers

\* The copy of the manager when its code goes on with the error of a spawn.
LEMMA TheCopy ==
    ASSUME MngrInv, NEW s \in hutils_spawn_chld,
           NEW c, c = IF s.child # "never" /\ ~Running("copy")
                      THEN [[mgr["mgr"] EXCEPT !.pc = "end"] EXCEPT !.sig = "none"] ELSE mgr["copy"]
    PROVE  /\ c \in ManagerType /\ c.pc \in {"none", "end", "gone"}
           /\ DOMAIN c.info \subseteq plugged
<1>1. /\ mgr["mgr"] \in ManagerType /\ mgr["copy"] \in ManagerType
      /\ DOMAIN mgr["mgr"].info \subseteq plugged /\ DOMAIN mgr["copy"].info \subseteq plugged
      /\ mgr["copy"].pc \in {"none", "end", "gone"}
    BY DEF MngrInv, MgrInv, TypeOK, Managers
<1> DEFINE e == [[mgr["mgr"] EXCEPT !.pc = "end"] EXCEPT !.sig = "none"]
<1>2. e \in ManagerType /\ e.pc = "end" /\ e.info = mgr["mgr"].info
    BY <1>1, Zenon DEF ManagerType, MgrPCs, Sigs
<1> HIDE DEF e
<1>3. c = e \/ c = mgr["copy"]
    BY DEF e
<1> QED BY <1>1, <1>2, <1>3

\* The new process.
LEMMA NewProc == [NoProc EXCEPT !.pc = "exec"] = [pc |-> "exec", sig |-> "none", pid |-> 0, todo |-> {}]
BY DEF NoProc

\* The broker is started only while broker_running is not set, which it then is.
LEMMA SpawnBroker ==
    ASSUME MngrInv, NEW m \in Managers, dmngr_spawn_broker(m)
    PROVE  MngrInv'
<1>1. m = "mgr" /\ "mgr" \in Managers /\ "copy" \in Managers /\ UNCHANGED <<plugged, spawn_cfg>> /\ mgr[m].pc = "broker"
    BY DEF dmngr_spawn_broker, MngrInv, MgrInv, Managers
<1>2. CASE mgr' = [mgr EXCEPT ![m].pc = "scan"] /\ UNCHANGED <<proc, hist>>
    BY <1>1, <1>2, ManagerIdle, Zenon
<1>3. ASSUME ~mgr[m].broker_running, NEW s \in hutils_spawn_chld, Within(s.fault), Spawned(m, s, [mgr[m] EXCEPT !.broker_running = TRUE, !.pc = "scan"]),
             proc' = Started(proc, Broker, s), Counted(Broker, s)
      PROVE  MngrInv'
    <2> DEFINE r == IF s.parent = "error" THEN [mgr["mgr"] EXCEPT !.pc = "end"]
                    ELSE [mgr["mgr"] EXCEPT !.broker_running = TRUE, !.pc = "scan"]
               c == IF s.child # "never" /\ ~Running("copy")
                    THEN [[mgr["mgr"] EXCEPT !.pc = "end"] EXCEPT !.sig = "none"] ELSE mgr["copy"]
    <2>1. /\ mgr["mgr"] \in ManagerType /\ DOMAIN mgr["mgr"].info \subseteq plugged
          /\ mgr["mgr"].todo \subseteq DOMAIN mgr["mgr"].info /\ TypeOK
        BY <1>1 DEF MngrInv, MgrInv, TypeOK
    <2>2. /\ r \in ManagerType /\ r.info = mgr["mgr"].info /\ r.todo = mgr["mgr"].todo
          /\ s.execd = TRUE => r.broker_running
        BY <2>1, SpawnFates, Zenon DEF ManagerType, MgrPCs
    <2>3. mgr' = [x \in Managers |-> IF x = "mgr" THEN r ELSE c]
        BY <1>1, <1>3, SpawnFates, Zenon DEF Spawned, Managers
    <2>4. /\ c \in ManagerType /\ c.pc \in {"none", "end", "gone"}
          /\ DOMAIN c.info \subseteq plugged
        BY TheCopy, Zenon
    <2> HIDE DEF r, c
    <2>5. /\ hist' \in HistType /\ hist'.faults <= MaxFaults /\ hist'.down = hist.down
          /\ s.execd = FALSE => hist'.started = hist.started
          /\ s.execd = TRUE => /\ hist'.started[Broker] = hist.started[Broker] + 1
                               /\ \A q \in Procs \ {Broker} : hist'.started[q] = hist.started[q]
        BY <1>3, <2>1, Counts, Members, Zenon
    <2>6. /\ hist.started[Broker] = 0
          /\ \A d \in Devs : /\ hist.started[Be(d)] <= 1
                             /\ hist.started[Be(d)] = 1 => d \in DOMAIN r.info /\ r.info[d] = "RUNNING"
        BY <1>1, <1>3, <2>1, <2>2, Members DEF MngrInv, MgrInv, TypeOK, HistType
    <2>7. /\ hist'.started[Broker] <= 1 /\ (hist'.started[Broker] = 1 => r.broker_running)
          /\ \A d \in Devs : hist'.started[Be(d)] = hist.started[Be(d)]
        BY <2>2, <2>5, <2>6, SpawnFates, Names, Members
    <2>8. MgrInv' /\ mgr' \in [Managers -> ManagerType]
        BY <1>1, <2>1, <2>2, <2>3, <2>4, <2>6, <2>7, ManagersChange
    <2>9. proc' = proc \/ (s.execd = TRUE /\ proc' = [proc EXCEPT ![Broker] = [pc |-> "exec", sig |-> "none", pid |-> 0, todo |-> {}]])
        BY <1>3, NewProc, SpawnFates, Zenon DEF Started
    <2>10. proc' \in [Procs -> ProcType] /\ \A q \in Procs \ {Broker} : proc'[q] = proc[q]
        BY <2>1, <2>9, Members DEF TypeOK, ProcType, ProcPCs, Sigs
    <2>11. BeInv' /\ CfgToldToEnd'
        BY <2>5, <2>7, <2>10, Names, Members DEF MngrInv, BeInv, CfgToldToEnd, Alive
    <2>12. OnlyFrontEndsSignalAll'
        BY <2>1, <2>5, <2>9, Names, Members DEF MngrInv, OnlyFrontEndsSignalAll, TypeOK
    <2> QED BY <1>1, <2>1, <2>5, <2>8, <2>10, <2>11, <2>12 DEF MngrInv, TypeOK
<1> QED BY <1>2, <1>3 DEF dmngr_spawn_broker

\* A DEVIO is started only for a board that is ready to run, which it then is not.
LEMMA SpawnsDevio ==
    ASSUME MngrInv, NEW m \in Managers, mgr[m].pc = "spawn", NEW d \in mgr[m].todo, SpawnDevio(m, d),
           UNCHANGED <<plugged, spawn_cfg>>
    PROVE  MngrInv'
<1>1. /\ m = "mgr" /\ "mgr" \in Managers /\ "copy" \in Managers
      /\ mgr["mgr"] \in ManagerType /\ DOMAIN mgr["mgr"].info \subseteq plugged /\ mgr["mgr"].info \in Infos
      /\ mgr["mgr"].todo \subseteq DOMAIN mgr["mgr"].info /\ TypeOK /\ d \in Devs
      /\ d \in DOMAIN mgr["mgr"].info
    BY DEF MngrInv, MgrInv, Managers, TypeOK, ManagerType
<1>2. mgr["mgr"].info[d] = "READY_TO_RUN"
    BY <1>1 DEF SpawnDevio
<1>3. PICK s \in hutils_spawn_chld :
         /\ Within(s.fault)
         /\ mgr' = [x \in Managers |->
              IF x = m THEN (IF s.parent = "error" THEN [mgr[m] EXCEPT !.pc = "end"]
                             ELSE [mgr[m] EXCEPT !.info[d] = "RUNNING", !.todo = @ \ {d}])
              ELSE IF s.child # "never" /\ ~Running(x)
              THEN [(IF s.child = "error" THEN [mgr[m] EXCEPT !.pc = "end"]
                     ELSE [mgr[m] EXCEPT !.info[d] = "RUNNING", !.todo = @ \ {d}]) EXCEPT !.sig = "none"]
              ELSE mgr[x]]
         /\ proc' = Started(proc, Be(d), s)
         /\ Counted(Be(d), s)
    BY Zenon DEF SpawnDevio, Spawned
<1> DEFINE i == [mgr["mgr"].info EXCEPT ![d] = "RUNNING"]
           t == mgr["mgr"].todo \ {d}
           r == IF s.parent = "error" THEN [mgr["mgr"] EXCEPT !.pc = "end"]
                ELSE [mgr["mgr"] EXCEPT !.info = i, !.todo = t]
           c == IF s.child # "never" /\ ~Running("copy")
                THEN [[mgr["mgr"] EXCEPT !.pc = "end"] EXCEPT !.sig = "none"] ELSE mgr["copy"]
<1>4. /\ i \in Infos /\ DOMAIN i = DOMAIN mgr["mgr"].info /\ i[d] = "RUNNING"
      /\ \A e \in Devs : e \in DOMAIN i /\ e # d => i[e] = mgr["mgr"].info[e]
    <2>1. PICK D \in SUBSET Devs : mgr["mgr"].info \in [D -> States]
        BY <1>1 DEF Infos
    <2>2. i \in [D -> States]
        BY <1>1, <2>1 DEF States
    <2> QED BY <1>1, <2>1, <2>2 DEF Infos
<1>5. mgr' = [x \in Managers |-> IF x = "mgr" THEN r ELSE c]
    BY <1>1, <1>3, SpawnFates, Zenon DEF Managers
<1> HIDE DEF i
<1>6. /\ r \in ManagerType /\ r.broker_running = mgr["mgr"].broker_running
      /\ (r.info = mgr["mgr"].info /\ r.todo = mgr["mgr"].todo /\ s.execd = FALSE) \/ (r.info = i /\ r.todo = t)
    BY <1>1, <1>4, SpawnFates, Zenon DEF ManagerType, MgrPCs
<1>7. c \in ManagerType /\ c.pc \in {"none", "end", "gone"} /\ DOMAIN c.info \subseteq plugged
    BY TheCopy, Zenon
<1> HIDE DEF r, c
<1>8. /\ hist' \in HistType /\ hist'.faults <= MaxFaults /\ hist'.down = hist.down
      /\ s.execd = FALSE => hist'.started = hist.started
      /\ s.execd = TRUE => /\ hist'.started[Be(d)] = hist.started[Be(d)] + 1
                           /\ \A q \in Procs \ {Be(d)} : hist'.started[q] = hist.started[q]
    BY <1>1, <1>3, Counts, Members, Zenon
<1>9. hist.started[Be(d)] = 0 /\ hist.started[Broker] <= 1
      /\ (hist.started[Broker] = 1 => mgr["mgr"].broker_running)
    BY <1>1, <1>2, Members DEF MngrInv, MgrInv, TypeOK, HistType
<1>10. /\ hist'.started[Broker] <= 1 /\ (hist'.started[Broker] = 1 => r.broker_running)
       /\ DOMAIN r.info \subseteq plugged /\ r.todo \subseteq DOMAIN r.info
       /\ \A e \in Devs : /\ hist'.started[Be(e)] <= 1
                          /\ hist'.started[Be(e)] = 1 => e \in DOMAIN r.info /\ r.info[e] = "RUNNING"
    <2>1. \A e \in Devs : /\ hist.started[Be(e)] <= 1
                          /\ hist.started[Be(e)] = 1 =>
                               e \in DOMAIN mgr["mgr"].info /\ mgr["mgr"].info[e] = "RUNNING"
        BY DEF MngrInv, MgrInv
    <2>2. CASE s.execd = FALSE
        BY <1>1, <1>4, <1>6, <1>8, <1>9, <2>1, <2>2
    <2>3. CASE s.execd = TRUE
        BY <1>1, <1>4, <1>6, <1>8, <1>9, <2>1, <2>3, Names, Members
    <2> QED BY <2>2, <2>3, SpawnFates, Zenon
<1>11. MgrInv' /\ mgr' \in [Managers -> ManagerType]
    BY <1>1, <1>5, <1>6, <1>7, <1>10, ManagersChange
<1>12. \/ proc' = proc /\ s.execd = FALSE
       \/ s.execd = TRUE /\ proc' = [proc EXCEPT ![Be(d)] = [pc |-> "exec", sig |-> "none", pid |-> 0, todo |-> {}]]
    BY <1>3, NewProc, SpawnFates, Zenon DEF Started
<1>13. proc' \in [Procs -> ProcType] /\ \A q \in Procs \ {Be(d)} : proc'[q] = proc[q]
    BY <1>1, <1>12, Members DEF TypeOK, ProcType, ProcPCs, Sigs
<1>14. BeInv' /\ CfgToldToEnd' /\ OnlyFrontEndsSignalAll'
    <2>1. CASE s.execd = FALSE
        BY <1>8, <1>12, <2>1, ProcsUnchanged
    <2>2. CASE s.execd = TRUE
        <3>1. proc'[Be(d)] = [pc |-> "exec", sig |-> "none", pid |-> 0, todo |-> {}]
            BY <1>1, <1>12, <2>2, Members, Zenon DEF TypeOK
        <3>2. /\ proc[Be(d)].pc = "none" /\ hist.started[Cfg(d)] = 0
              /\ \A j \in Rffes : hist.started[Fe(d, j)] = 0
            BY <1>1, <1>9 DEF MngrInv, BeInv
        <3>3. BeInv'
            <4> SUFFICES ASSUME NEW e \in Devs PROVE BeInv!(e)'
                BY DEF BeInv
            <4>1. CASE e = d
                BY <1>1, <1>8, <1>9, <2>2, <3>1, <3>2, <4>1, Names, Members
            <4>2. CASE e # d
                BY <1>1, <1>8, <1>13, <2>2, <4>2, Names, Members, SMTT(30) DEF MngrInv, BeInv
            <4> QED BY <4>1, <4>2
        <3>4. CfgToldToEnd'
            BY <1>1, <1>13, <3>1, Names, Members DEF MngrInv, CfgToldToEnd, Alive
        <3>5. OnlyFrontEndsSignalAll'
            BY <1>1, <1>8, <1>13, <3>1, Names, Members DEF MngrInv, OnlyFrontEndsSignalAll
        <3> QED BY <3>3, <3>4, <3>5
    <2> QED BY <2>1, <2>2, SpawnFates, Zenon
<1> QED BY <1>1, <1>8, <1>11, <1>13, <1>14 DEF MngrInv, TypeOK

\* Every step of a manager.
LEMMA ManagerSteps ==
    ASSUME MngrInv, NEW m \in Managers, MgrStep(m)
    PROVE  MngrInv'
<1>1. CASE dmngr_spawn_all_devios(m)
    <2>1. ASSUME NEW d \in mgr[m].todo, SpawnDevio(m, d) PROVE MngrInv'
        BY <1>1, <2>1, SpawnsDevio DEF dmngr_spawn_all_devios
    <2>2. ASSUME NEW d \in mgr[m].todo, SkipDevio(m, d) PROVE MngrInv'
        BY <1>1, <2>2, ManagerIdle, Zenon DEF dmngr_spawn_all_devios, SkipDevio
    <2>3. CASE mgr' = [mgr EXCEPT ![m].pc = "wait"] /\ UNCHANGED <<proc, hist>>
        BY <1>1, <2>3, ManagerIdle, Zenon DEF dmngr_spawn_all_devios
    <2> QED BY <1>1, <2>1, <2>2, <2>3 DEF dmngr_spawn_all_devios
<1>2. CASE WaitAndSleep(m)
    BY <1>2, ManagerIdle, Zenon DEF WaitAndSleep
<1>3. CASE dmngr_destroy(m)
    BY <1>3, ManagerIdle, Zenon DEF dmngr_destroy
<1> QED BY <1>1, <1>2, <1>3, SpawnBroker, ScanDevs DEF MgrStep

(***************************************************************************)
(* Steps of one process.                                                   *)
(***************************************************************************)

\* The part of the invariant about managers does not depend on processes.
LEMMA ManagersUnchanged ==
    ASSUME MngrInv, UNCHANGED <<mgr, plugged, spawn_cfg>>,
           hist'.started[Broker] = hist.started[Broker],
           \A d \in Devs : hist'.started[Be(d)] = hist.started[Be(d)]
    PROVE  MgrInv'
BY DEF MngrInv, MgrInv

\* The steps of a process that only take it to another place.
Goes(p, q) ==
    /\ proc[p].pc # "none"
    /\ \/ q \in {"gone", "dead"}
       \/ p \in FEs
       \/ proc[p].pc = "client" /\ q \in {"slot", "exit"}
       \/ proc[p].pc = "slot" /\ q \in {"kill", "exit"}
       \/ proc[p].pc = "new" /\ q \in {"fes", "exit"}
       \/ proc[p].pc = "fes" /\ q \in {"up", "exit"}
       \/ proc[p].pc = "up" /\ q = "exit"

\* Such a step keeps the invariant.
LEMMA ProcGoes ==
    ASSUME MngrInv, NEW p \in Procs, NEW q \in ProcPCs, Goes(p, q),
           p \in CFGs => q \in {"gone", "dead"},
           proc' = [proc EXCEPT ![p].pc = q], UNCHANGED <<mgr, plugged, spawn_cfg>>,
           hist' \in HistType, hist'.faults <= MaxFaults,
           hist'.started = hist.started, hist'.down = hist.down
    PROVE  MngrInv'
<1>1. proc \in [Procs -> ProcType] /\ proc[p] \in ProcType
    BY DEF MngrInv, TypeOK
<1>2. /\ proc'[p].pc = q /\ proc'[p].sig = proc[p].sig /\ proc'[p].pid = proc[p].pid /\ proc'[p].todo = proc[p].todo
      /\ \A o \in Procs \ {p} : proc'[o] = proc[o]
      /\ proc' \in [Procs -> ProcType]
    BY <1>1 DEF ProcType
<1>3. MgrInv'
    BY ManagersUnchanged
<1>4. BeInv'
    <2> SUFFICES ASSUME NEW d \in Devs PROVE BeInv!(d)'
        BY DEF BeInv
    <2>1. CASE p = Be(d)
        <3>1. p \notin FEs
            BY <2>1, Names, Members
        <3>2. BeInv!(d)
            BY DEF MngrInv, BeInv
        <3>3. CASE q \in {"gone", "dead"}
            BY <1>2, <2>1, <3>2, <3>3, Members DEF Goes
        <3>4. CASE q \in {"slot", "kill"} /\ proc[p].pc \in {"client", "slot"}
            BY <1>2, <2>1, <3>2, <3>4, Members
        <3>5. CASE q = "fes" /\ proc[p].pc = "new"
            BY <1>2, <2>1, <3>2, <3>5, Members
        <3>6. CASE q \in {"up", "exit"} /\ proc[p].pc \in {"client", "slot", "new", "fes", "up"}
            BY <1>2, <2>1, <3>2, <3>6, Members
        <3> QED BY <3>1, <3>3, <3>4, <3>5, <3>6 DEF Goes
    <2>2. CASE p # Be(d)
        BY <1>2, <2>2, Members, SMTT(30) DEF MngrInv, BeInv
    <2> QED BY <2>1, <2>2
<1>5. CfgToldToEnd'
    <2> SUFFICES ASSUME NEW d \in Devs PROVE CfgToldToEnd!(d)'
        BY DEF CfgToldToEnd
    <2>1. CASE p = Be(d)
        <3>1. p \notin FEs /\ p \notin CFGs /\ p # Cfg(d)
            BY <2>1, Names, Members
        <3> QED BY <1>2, <2>1, <3>1, Members DEF MngrInv, CfgToldToEnd, Goes, Alive
    <2>2. CASE p = Cfg(d)
        BY <1>2, <2>2, Names, Members DEF MngrInv, CfgToldToEnd, Alive
    <2>3. CASE p # Be(d) /\ p # Cfg(d)
        BY <1>2, <2>3, Members DEF MngrInv, CfgToldToEnd, Alive
    <2> QED BY <2>1, <2>2, <2>3
<1>6. OnlyFrontEndsSignalAll'
    BY <1>2 DEF MngrInv, OnlyFrontEndsSignalAll
<1> QED BY <1>2, <1>3, <1>4, <1>5, <1>6 DEF MngrInv, TypeOK

\* A process signals t and goes to another place.
LEMMA SignalsAndGoes ==
    ASSUME TypeOK, NEW p \in Procs, NEW q \in ProcPCs, NEW t, proc' = [Signalled(proc, t) EXCEPT ![p].pc = q]
    PROVE  /\ proc' \in [Procs -> ProcType]
           /\ proc'[p].pc = q
           /\ \A o \in Procs : /\ o # p => proc'[o].pc = proc[o].pc
                               /\ proc'[o].pid = proc[o].pid /\ proc'[o].todo = proc[o].todo
                               /\ \/ proc'[o].sig = proc[o].sig
                                  \/ proc'[o].sig = "parent" /\ o = t
                                  \/ proc'[o].sig = "group" /\ t = Group
                               /\ o = t /\ Alive(o) => proc'[o].sig # "none"
                               /\ proc[o].sig # "none" => proc'[o].sig # "none"
<1> DEFINE S == Signalled(proc, t)
<1>1. proc \in [Procs -> ProcType]
    BY DEF TypeOK
<1>2. ASSUME NEW o \in Procs
      PROVE  /\ S[o] \in ProcType /\ S[o].pc = proc[o].pc /\ S[o].pid = proc[o].pid /\ S[o].todo = proc[o].todo
             /\ \/ S[o].sig = proc[o].sig
                \/ S[o].sig = "parent" /\ o = t
                \/ S[o].sig = "group" /\ t = Group
             /\ o = t /\ Alive(o) => S[o].sig # "none"
             /\ proc[o].sig # "none" => S[o].sig # "none"
    <2>1. proc[o] \in ProcType
        BY <1>1
    <2>2. CASE S[o] = proc[o] /\ (o = t /\ Alive(o) => proc[o].sig # "none")
        BY <2>1, <2>2
    <2>3. CASE S[o] = [proc[o] EXCEPT !.sig = "parent"] /\ o = t
        BY <2>1, <2>3 DEF ProcType, Sigs
    <2>4. CASE S[o] = [proc[o] EXCEPT !.sig = "group"] /\ t = Group
        BY <2>1, <2>4 DEF ProcType, Sigs
    <2>5. \/ S[o] = proc[o] /\ (o = t /\ Alive(o) => proc[o].sig # "none")
          \/ S[o] = [proc[o] EXCEPT !.sig = "parent"] /\ o = t
          \/ S[o] = [proc[o] EXCEPT !.sig = "group"] /\ t = Group
        BY DEF Signalled
    <2> QED BY <2>2, <2>3, <2>4, <2>5
<1>3. S \in [Procs -> ProcType]
    <2>1. S = [o \in Procs |-> S[o]]
        BY DEF Signalled
    <2> QED BY <1>2, <2>1
<1> HIDE DEF S
<1> DEFINE x == [S[p] EXCEPT !.pc = q]
<1>4. proc' = [S EXCEPT ![p] = x]
    BY DEF S
<1>5. x \in ProcType /\ x.pc = q /\ x.pid = S[p].pid /\ x.todo = S[p].todo /\ x.sig = S[p].sig
    BY <1>3 DEF ProcType
<1> HIDE DEF x
<1>6. /\ proc' \in [Procs -> ProcType] /\ proc'[p].pc = q
      /\ \A o \in Procs : /\ o # p => proc'[o].pc = S[o].pc
                          /\ proc'[o].pid = S[o].pid /\ proc'[o].todo = S[o].todo /\ proc'[o].sig = S[o].sig
    BY <1>3, <1>4, <1>5, Zenon
<1> QED BY <1>2, <1>6

\* A back end tells its DEVIO_CFG to end before it opens the board.
LEMMA KillsCfg ==
    ASSUME MngrInv, NEW d \in Devs, KillCfg(d)
    PROVE  MngrInv'
<1>1. /\ proc[Be(d)].pc = "kill" /\ UNCHANGED <<mgr, plugged, spawn_cfg, hist>> /\ TypeOK /\ proc[Be(d)].pid = 1
      /\ proc' = [Signalled(proc, Pid(Be(d))) EXCEPT ![Be(d)].pc = "new"]
    BY DEF KillCfg, MngrInv, BeInv
<1>2. Pid(Be(d)) = Cfg(d)
    BY <1>1, Names DEF Pid
<1>3. "new" \in ProcPCs
    BY DEF ProcPCs
<1>4. /\ proc' \in [Procs -> ProcType]
      /\ proc'[Be(d)].pc = "new"
      /\ \A o \in Procs : /\ o # Be(d) => proc'[o].pc = proc[o].pc
                          /\ proc'[o].pid = proc[o].pid /\ proc'[o].todo = proc[o].todo
                          /\ \/ proc'[o].sig = proc[o].sig
                             \/ proc'[o].sig = "parent" /\ o = Cfg(d)
                             \/ proc'[o].sig = "group" /\ Cfg(d) = Group
                          /\ o = Cfg(d) /\ Alive(o) => proc'[o].sig # "none"
                          /\ proc[o].sig # "none" => proc'[o].sig # "none"
    BY <1>1, <1>2, <1>3, Members, SignalsAndGoes, Zenon
<1>5. MgrInv'
    BY <1>1, ManagersUnchanged
<1>6. BeInv'
    <2> SUFFICES ASSUME NEW e \in Devs PROVE BeInv!(e)'
        BY DEF BeInv
    <2>1. BeInv!(e)
        BY DEF MngrInv, BeInv
    <2> QED BY <1>1, <1>4, <2>1, Names, Members
<1>7. CfgToldToEnd'
    <2> SUFFICES ASSUME NEW e \in Devs PROVE CfgToldToEnd!(e)'
        BY DEF CfgToldToEnd
    <2>1. CfgToldToEnd!(e)
        BY DEF MngrInv, CfgToldToEnd
    <2>2. Be(e) \in Procs /\ Cfg(e) \in Procs /\ Cfg(e) # Be(d) /\ (e # d => Be(e) # Be(d))
        BY Names, Members
    <2>3. proc'[Cfg(e)].pc = proc[Cfg(e)].pc
        BY <1>4, <2>2
    <2>4. CASE e = d
        BY <1>4, <2>2, <2>3, <2>4 DEF Alive
    <2>5. CASE e # d
        BY <1>4, <2>1, <2>2, <2>3, <2>5 DEF Alive
    <2> QED BY <2>4, <2>5
<1>8. OnlyFrontEndsSignalAll'
    BY <1>1, <1>4, Names, Members DEF MngrInv, OnlyFrontEndsSignalAll
<1> QED BY <1>1, <1>4, <1>5, <1>6, <1>7, <1>8 DEF MngrInv, TypeOK

\* Exit of a back end, which has started a DEVIO_CFG, or of a front end.
LEMMA Exits ==
    ASSUME MngrInv, NEW p \in BEs \cup FEs, Exit(p)
    PROVE  MngrInv'
<1>1. /\ proc[p].pc = "exit" /\ UNCHANGED <<plugged, spawn_cfg>> /\ TypeOK /\ p \in Procs
      /\ proc' = [Signalled(proc, Pid(p)) EXCEPT ![p].pc = "gone"]
      /\ hist' = [hist EXCEPT !.down = IF proc[p].pid = 0 THEN @ \cup {p} ELSE @]
    BY DEF Exit, MngrInv, Procs
<1>2. "gone" \in ProcPCs
    BY DEF ProcPCs
<1>3. proc[p].pid = 0 \/ proc[p].pid = 1
    BY <1>1 DEF TypeOK, ProcType
<1>4. p \in BEs => proc[p].pid = 1
    BY <1>1 DEF MngrInv, BeInv, BEs
<1>5. /\ proc[p].pid = 0 => Pid(p) = Group /\ p \in FEs
      /\ proc[p].pid = 1 => \E d : Pid(p) = Cfg(d)
    BY <1>3, <1>4 DEF Pid
<1>6. /\ proc' \in [Procs -> ProcType]
      /\ proc'[p].pc = "gone"
      /\ \A o \in Procs : /\ o # p => proc'[o].pc = proc[o].pc
                          /\ proc'[o].pid = proc[o].pid /\ proc'[o].todo = proc[o].todo
                          /\ \/ proc'[o].sig = proc[o].sig
                             \/ proc'[o].sig = "parent" /\ o = Pid(p)
                             \/ proc'[o].sig = "group" /\ Pid(p) = Group
                          /\ o = Pid(p) /\ Alive(o) => proc'[o].sig # "none"
                          /\ proc[o].sig # "none" => proc'[o].sig # "none"
    BY <1>1, <1>2, SignalsAndGoes, Zenon
<1>7. /\ hist' \in HistType /\ hist'.started = hist.started /\ hist'.faults = hist.faults
      /\ hist'.down = IF proc[p].pid = 0 THEN hist.down \cup {p} ELSE hist.down
    BY <1>1 DEF TypeOK, HistType
<1>8. MgrInv' /\ mgr' \in [Managers -> ManagerType]
    <2>1. mgr' = [m \in Managers |-> IF Running(m) /\ mgr[m].sig = "none" /\ proc[p].pid = 0
                                     THEN [mgr[m] EXCEPT !.sig = "group"] ELSE mgr[m]]
        BY DEF Exit
    <2>2. ASSUME NEW m \in Managers
          PROVE  /\ mgr'[m] \in ManagerType /\ mgr'[m].pc = mgr[m].pc /\ mgr'[m].info = mgr[m].info
                 /\ mgr'[m].todo = mgr[m].todo /\ mgr'[m].broker_running = mgr[m].broker_running
        <3>1. mgr[m] \in ManagerType
            BY <1>1 DEF TypeOK
        <3>2. CASE mgr'[m] = mgr[m]
            BY <3>1, <3>2
        <3>3. CASE mgr'[m] = [mgr[m] EXCEPT !.sig = "group"]
            BY <3>1, <3>3 DEF ManagerType, Sigs
        <3> QED BY <2>1, <3>2, <3>3
    <2>3. mgr' \in [Managers -> ManagerType]
        <3>1. mgr' = [m \in Managers |-> mgr'[m]]
            BY <2>1
        <3> QED BY <2>2, <3>1
    <2>4. "mgr" \in Managers /\ "copy" \in Managers
        BY DEF Managers
    <2> QED BY <1>1, <1>7, <2>2, <2>3, <2>4 DEF MngrInv, MgrInv
<1>9. BeInv'
    <2> SUFFICES ASSUME NEW e \in Devs PROVE BeInv!(e)'
        BY DEF BeInv
    <2>1. BeInv!(e)
        BY DEF MngrInv, BeInv
    <2>2. CASE p = Be(e)
        BY <1>1, <1>6, <1>7, <2>1, <2>2, Members
    <2>3. CASE p # Be(e)
        <3>1. /\ proc'[Be(e)].pc = proc[Be(e)].pc /\ proc'[Be(e)].pid = proc[Be(e)].pid
              /\ proc'[Be(e)].todo = proc[Be(e)].todo
            BY <1>6, <2>3, Members
        <3> QED BY <1>7, <2>1, <3>1
    <2> QED BY <2>2, <2>3
<1>10. CfgToldToEnd'
    <2> SUFFICES ASSUME NEW e \in Devs PROVE CfgToldToEnd!(e)'
        BY DEF CfgToldToEnd
    <2>1. proc'[Be(e)].pc \in {"new", "fes", "up"} => proc'[Be(e)].pc = proc[Be(e)].pc
        BY <1>6, Members
    <2>2. Alive(Cfg(e))' => Alive(Cfg(e))
        BY <1>6, Members DEF Alive
    <2> QED BY <1>6, <2>1, <2>2, Members DEF MngrInv, CfgToldToEnd
<1>11. OnlyFrontEndsSignalAll'
    <2>1. hist'.down \subseteq FEs
        BY <1>5, <1>7 DEF MngrInv, OnlyFrontEndsSignalAll
    <2>2. ASSUME NEW o \in Procs PROVE (proc'[o].sig = "group" => hist'.down # {}) /\ (proc'[o].sig = "parent" => o \in CFGs)
        <3>1. (proc[o].sig = "group" => hist.down # {}) /\ (proc[o].sig = "parent" => o \in CFGs)
            BY DEF MngrInv, OnlyFrontEndsSignalAll
        <3>2. hist.down \subseteq hist'.down /\ (proc[p].pid = 0 => p \in hist'.down)
            BY <1>7
        <3>3. ASSUME o = Pid(p) PROVE o \in CFGs
            BY <1>3, <1>5, <3>3, Names, Members DEF Procs, BEs, FEs
        <3>4. ASSUME Pid(p) = Group PROVE proc[p].pid = 0
            BY <1>3, <1>5, <3>4, Names
        <3> QED BY <1>6, <3>1, <3>2, <3>3, <3>4
    <2> QED BY <2>1, <2>2 DEF OnlyFrontEndsSignalAll
<1> QED BY <1>1, <1>6, <1>7, <1>8, <1>9, <1>10, <1>11 DEF MngrInv, TypeOK

\* A process b that starts another process p, or tries to, and becomes r.
LEMMA StartsAndGoes ==
    ASSUME TypeOK, NEW s \in hutils_spawn_chld, NEW p \in Procs, NEW b \in Procs, p # b, NEW r \in ProcType,
           proc' = [Started(proc, p, s) EXCEPT ![b] = r]
    PROVE  /\ proc' \in [Procs -> ProcType]
           /\ proc'[b] = r
           /\ \A o \in Procs \ {p, b} : proc'[o] = proc[o]
           /\ \/ proc'[p] = proc[p] /\ s.execd = FALSE
              \/ proc'[p] = [pc |-> "exec", sig |-> "none", pid |-> 0, todo |-> {}] /\ s.execd = TRUE
<1> DEFINE x == [pc |-> "exec", sig |-> "none", pid |-> 0, todo |-> {}]
<1>1. proc \in [Procs -> ProcType] /\ x \in ProcType
    BY DEF TypeOK, ProcType, ProcPCs, Sigs
<1>2. CASE s.execd = FALSE
    <2>1. proc' = [proc EXCEPT ![b] = r]
        BY <1>2, Zenon DEF Started
    <2> QED BY <1>1, <1>2, <2>1, Zenon
<1>3. CASE s.execd = TRUE
    <2>1. proc' = [[proc EXCEPT ![p] = x] EXCEPT ![b] = r]
        BY <1>3, NewProc, Zenon DEF Started
    <2> HIDE DEF x
    <2>2. proc' \in [Procs -> ProcType] /\ proc'[b] = r /\ proc'[p] = x /\ \A o \in Procs \ {p, b} : proc'[o] = proc[o]
        BY <1>1, <2>1, Zenon
    <2> QED BY <1>3, <2>2 DEF x
<1> QED BY <1>2, <1>3, SpawnFates, Zenon

\* A back end starts its DEVIO_CFG as its first step, from where it never comes back.
LEMMA SpawnsCfg ==
    ASSUME MngrInv, NEW d \in Devs, SpawnCfg(d)
    PROVE  MngrInv'
<1>1. /\ proc[Be(d)].pc = "exec" /\ UNCHANGED <<mgr, plugged, spawn_cfg>> /\ TypeOK
      /\ proc[Be(d)] \in ProcType /\ Be(d) \in Procs /\ Cfg(d) \in Procs /\ Cfg(d) # Be(d)
    BY Names, Members DEF SpawnCfg, MngrInv, TypeOK
<1>2. PICK s \in hutils_spawn_chld :
         /\ Within(s.fault)
         /\ proc' = [Started(proc, Cfg(d), s) EXCEPT
              ![Be(d)] = IF s.parent = "error" THEN [@ EXCEPT !.pc = "gone"]
                         ELSE [@ EXCEPT !.pc = "client", !.pid = 1]]
         /\ Counted(Cfg(d), s)
    BY Zenon DEF SpawnCfg
<1> DEFINE r == IF s.parent = "error" THEN [proc[Be(d)] EXCEPT !.pc = "gone"]
                ELSE [proc[Be(d)] EXCEPT !.pc = "client", !.pid = 1]
<1>3. /\ r \in ProcType /\ r.sig = proc[Be(d)].sig /\ r.todo = proc[Be(d)].todo
      /\ r.pc = "gone" \/ (r.pc = "client" /\ r.pid = 1)
    BY <1>1, Zenon DEF ProcType, ProcPCs
<1>4. proc' = [Started(proc, Cfg(d), s) EXCEPT ![Be(d)] = r]
    <2>1. Started(proc, Cfg(d), s)[Be(d)] = proc[Be(d)] /\ Be(d) \in DOMAIN Started(proc, Cfg(d), s)
        BY <1>1 DEF Started, TypeOK
    <2> QED BY <1>2, <2>1
<1> HIDE DEF r
<1>5. /\ proc' \in [Procs -> ProcType]
      /\ proc'[Be(d)] = r
      /\ \A o \in Procs \ {Cfg(d), Be(d)} : proc'[o] = proc[o]
      /\ \/ proc'[Cfg(d)] = proc[Cfg(d)] /\ s.execd = FALSE
         \/ proc'[Cfg(d)] = [pc |-> "exec", sig |-> "none", pid |-> 0, todo |-> {}] /\ s.execd = TRUE
    BY <1>1, <1>3, <1>4, StartsAndGoes, Zenon
<1>6. /\ hist' \in HistType /\ hist'.faults <= MaxFaults /\ hist'.down = hist.down
      /\ s.execd = FALSE => hist'.started = hist.started
      /\ s.execd = TRUE => /\ hist'.started[Cfg(d)] = hist.started[Cfg(d)] + 1
                           /\ \A q \in Procs \ {Cfg(d)} : hist'.started[q] = hist.started[q]
    BY <1>1, <1>2, Counts, Zenon
<1>7. /\ \A q \in Procs \ {Cfg(d)} : hist'.started[q] = hist.started[q]
      /\ hist.started[Cfg(d)] = 0 /\ hist'.started[Cfg(d)] <= 1
    <2>1. hist.started[Cfg(d)] = 0
        BY <1>1 DEF MngrInv, BeInv
    <2> QED BY <1>6, <2>1, SpawnFates
<1>8. MgrInv'
    BY <1>1, <1>7, ManagersUnchanged, Names, Members, SMTT(30)
<1>9. BeInv'
    <2> SUFFICES ASSUME NEW e \in Devs PROVE BeInv!(e)'
        BY DEF BeInv
    <2>1. BeInv!(e)
        BY DEF MngrInv, BeInv
    <2>2. CASE e = d
        BY <1>1, <1>3, <1>5, <1>7, <2>1, <2>2, Names, Members, SMTT(30)
    <2>3. CASE e # d
        BY <1>5, <1>7, <2>1, <2>3, Names, Members, SMTT(30)
    <2> QED BY <2>2, <2>3
<1>10. CfgToldToEnd'
    <2> SUFFICES ASSUME NEW e \in Devs PROVE CfgToldToEnd!(e)'
        BY DEF CfgToldToEnd
    <2>1. CASE e = d
        BY <1>3, <1>5, <2>1
    <2>2. CASE e # d
        BY <1>5, <2>2, Names, Members, SMTT(30) DEF MngrInv, CfgToldToEnd, Alive
    <2> QED BY <2>1, <2>2, SMTT(30)
<1>11. OnlyFrontEndsSignalAll'
    <2>1. ASSUME NEW o \in Procs PROVE proc'[o].sig = proc[o].sig \/ proc'[o].sig = "none"
        BY <1>3, <1>5
    <2> QED BY <1>6, <2>1 DEF MngrInv, OnlyFrontEndsSignalAll
<1> QED BY <1>1, <1>5, <1>6, <1>8, <1>9, <1>10, <1>11 DEF MngrInv, TypeOK

\* A front end is started only while it is not among those already done.
LEMMA SpawnsRffe ==
    ASSUME MngrInv, NEW d \in Devs, SpawnRffe(d)
    PROVE  MngrInv'
<1>1. /\ proc[Be(d)].pc = "fes" /\ UNCHANGED <<mgr, plugged, spawn_cfg>> /\ TypeOK
      /\ proc[Be(d)] \in ProcType /\ Be(d) \in Procs /\ proc[Be(d)].pid = 1
    BY Members, SMTT(30) DEF SpawnRffe, MngrInv, TypeOK, BeInv
<1>2. ASSUME NEW j \in Rffes, j \notin proc[Be(d)].todo, NEW s \in hutils_spawn_chld, Within(s.fault),
             proc' = [Started(proc, Fe(d, j), s) EXCEPT
               ![Be(d)] = [proc[Be(d)] EXCEPT !.todo = IF s.parent = "error" THEN Rffes ELSE @ \cup {j}]],
             Counted(Fe(d, j), s)
      PROVE  MngrInv'
    <2> DEFINE f == Fe(d, j)
               r == [proc[Be(d)] EXCEPT !.todo = IF s.parent = "error" THEN Rffes ELSE @ \cup {j}]
    <2>1. f \in Procs /\ f # Be(d) /\ f \notin CFGs
        BY Names, Members
    <2>2. /\ r \in ProcType /\ r.sig = proc[Be(d)].sig /\ r.pid = 1
          /\ r.pc = "fes" /\ (r.todo = Rffes \/ r.todo = proc[Be(d)].todo \cup {j})
        BY <1>1, <1>2 DEF ProcType, ProcPCs
    <2>3. proc' = [Started(proc, f, s) EXCEPT ![Be(d)] = r]
        BY <1>2
    <2> HIDE DEF f, r
    <2>4. /\ proc' \in [Procs -> ProcType]
          /\ proc'[Be(d)] = r
          /\ \A o \in Procs \ {f, Be(d)} : proc'[o] = proc[o]
          /\ \/ proc'[f] = proc[f] /\ s.execd = FALSE
             \/ proc'[f] = [pc |-> "exec", sig |-> "none", pid |-> 0, todo |-> {}] /\ s.execd = TRUE
        BY <1>1, <2>1, <2>2, <2>3, StartsAndGoes, Zenon
    <2>5. /\ hist' \in HistType /\ hist'.faults <= MaxFaults /\ hist'.down = hist.down
          /\ s.execd = FALSE => hist'.started = hist.started
          /\ s.execd = TRUE => /\ hist'.started[f] = hist.started[f] + 1
                               /\ \A q \in Procs \ {f} : hist'.started[q] = hist.started[q]
        BY <1>1, <1>2, <2>1, Counts, Zenon DEF f
    <2>6. /\ \A q \in Procs \ {f} : hist'.started[q] = hist.started[q]
          /\ hist.started[f] = 0 /\ hist'.started[f] <= 1
        <3>1. hist.started[f] = 0
            BY <1>1, <1>2 DEF MngrInv, BeInv, f
        <3> QED BY <2>5, <3>1, SpawnFates
    <2>7. MgrInv'
        BY <1>1, <2>6, ManagersUnchanged, Names, Members DEF f
    <2>8. BeInv'
        <3> SUFFICES ASSUME NEW e \in Devs PROVE BeInv!(e)'
            BY DEF BeInv
        <3>1. BeInv!(e)
            BY SMTT(30) DEF MngrInv, BeInv
        <3>2. CASE e = d
            <4>1. /\ hist'.started[Be(d)] = hist.started[Be(d)] /\ hist'.started[Cfg(d)] = hist.started[Cfg(d)]
                  /\ \A i \in Rffes : i # j => hist'.started[Fe(d, i)] = hist.started[Fe(d, i)]
                  /\ hist'.started[Fe(d, j)] <= 1
                BY <2>6, Names, Members, SMTT(30) DEF f
            <4>2. \A i \in Rffes : hist'.started[Fe(d, i)] <= 1
                BY <3>1, <3>2, <4>1, SMTT(30)
            <4>3. \A i \in Rffes : i \notin r.todo => hist'.started[Fe(d, i)] = 0
                BY <1>1, <2>2, <3>1, <3>2, <4>1
            <4> QED BY <1>1, <2>2, <2>4, <3>1, <3>2, <4>1, <4>2, <4>3, SMTT(30)
        <3>3. CASE e # d
            <4>1. /\ hist'.started[Be(e)] = hist.started[Be(e)] /\ hist'.started[Cfg(e)] = hist.started[Cfg(e)]
                  /\ \A i \in Rffes : hist'.started[Fe(e, i)] = hist.started[Fe(e, i)]
                  /\ proc'[Be(e)] = proc[Be(e)]
                BY <2>4, <2>6, <3>3, Names, Members, SMTT(30) DEF f
            <4> QED BY <3>1, <4>1, SMTT(30)
        <3> QED BY <3>2, <3>3
    <2>9. CfgToldToEnd'
        <3> SUFFICES ASSUME NEW e \in Devs PROVE CfgToldToEnd!(e)'
            BY SMTT(30) DEF CfgToldToEnd
        <3>1. proc'[Cfg(e)] = proc[Cfg(e)]
            BY <2>1, <2>4, Names, Members
        <3>2. proc'[Be(e)].pc \in {"new", "fes", "up"} => proc[Be(e)].pc \in {"new", "fes", "up"}
            BY <1>1, <2>1, <2>4, Names, Members, SMTT(30) DEF f
        <3> QED BY <3>1, <3>2 DEF MngrInv, CfgToldToEnd, Alive
    <2>10. OnlyFrontEndsSignalAll'
        <3>1. ASSUME NEW o \in Procs PROVE proc'[o].sig = proc[o].sig \/ proc'[o].sig = "none"
            BY <2>2, <2>4
        <3> QED BY <2>5, <3>1, SMTT(30) DEF MngrInv, OnlyFrontEndsSignalAll
    <2> QED BY <1>1, <2>4, <2>5, <2>7, <2>8, <2>9, <2>10 DEF MngrInv, TypeOK
<1> QED BY <1>2, Zenon DEF SpawnRffe

\* A step of Try: the process goes on or to its label, with a fault or not.
LEMMA Tries ==
    ASSUME MngrInv, NEW p \in Procs, p \notin CFGs, NEW from, NEW to \in ProcPCs, NEW label \in ProcPCs, NEW able,
           Try(p, from, to, label, able), Goes(p, to), Goes(p, label)
    PROVE  MngrInv'
<1>1. hist \in HistType /\ hist.faults <= MaxFaults /\ TypeOK /\ UNCHANGED <<mgr, plugged, spawn_cfg>>
    BY DEF MngrInv, TypeOK, Try
<1>2. CASE proc' = [proc EXCEPT ![p].pc = to] /\ UNCHANGED hist
    BY <1>1, <1>2, ProcGoes, Zenon
<1>3. ASSUME NEW f \in {0, 1}, Within(f), proc' = [proc EXCEPT ![p].pc = label], hist' = [hist EXCEPT !.faults = @ + f]
      PROVE  MngrInv'
    <2>1. hist' \in HistType /\ hist'.faults <= MaxFaults /\ hist'.started = hist.started /\ hist'.down = hist.down
        BY <1>1, <1>3, FaultsAssumption DEF HistType, Within
    <2> QED BY <1>1, <1>3, <2>1, ProcGoes, Zenon
<1> QED BY <1>2, <1>3 DEF Try

\* A signal by hand changes nothing else.
LEMMA SignalledByHand ==
    ASSUME MngrInv, NEW p \in Procs, ByHand(p)
    PROVE  MngrInv'
<1> DEFINE r == [proc[p] EXCEPT !.sig = "hand"]
<1>1. /\ TypeOK /\ UNCHANGED <<mgr, plugged, spawn_cfg>> /\ proc[p] \in ProcType
      /\ hist' \in HistType /\ hist'.faults <= MaxFaults /\ hist'.started = hist.started /\ hist'.down = hist.down
    BY OneFault DEF MngrInv, TypeOK, ByHand
<1>2. /\ r \in ProcType /\ r.pc = proc[p].pc /\ r.pid = proc[p].pid /\ r.todo = proc[p].todo /\ r.sig = "hand"
      /\ proc' = [proc EXCEPT ![p] = r]
    BY <1>1 DEF ProcType, Sigs, ByHand, TypeOK
<1> HIDE DEF r
<1>3. /\ proc' \in [Procs -> ProcType]
      /\ \A o \in Procs : /\ proc'[o].pc = proc[o].pc /\ proc'[o].pid = proc[o].pid /\ proc'[o].todo = proc[o].todo
                          /\ proc'[o].sig = proc[o].sig \/ proc'[o].sig = "hand"
    BY <1>1, <1>2 DEF TypeOK
<1>4. MgrInv'
    BY <1>1, ManagersUnchanged
<1>5. BeInv'
    <2> SUFFICES ASSUME NEW e \in Devs PROVE BeInv!(e)'
        BY SMTT(30) DEF BeInv
    <2>1. BeInv!(e)
        BY SMTT(30) DEF MngrInv, BeInv
    <2>2. /\ proc'[Be(e)].pc = proc[Be(e)].pc /\ proc'[Be(e)].pid = proc[Be(e)].pid
          /\ proc'[Be(e)].todo = proc[Be(e)].todo
        BY <1>3, Members
    <2> QED BY <1>1, <2>1, <2>2, SMTT(30)
<1>6. CfgToldToEnd'
    BY <1>1, <1>3, Members DEF MngrInv, CfgToldToEnd, Alive
<1>7. OnlyFrontEndsSignalAll'
    BY <1>1, <1>3 DEF MngrInv, OnlyFrontEndsSignalAll
<1> QED BY <1>1, <1>3, <1>4, <1>5, <1>6, <1>7 DEF MngrInv, TypeOK

\* A signal to the manager changes nothing else.
LEMMA ManagerStopped ==
    ASSUME MngrInv, StopManager
    PROVE  MngrInv'
<1>1. /\ "mgr" \in Managers /\ mgr["mgr"] \in ManagerType /\ UNCHANGED <<proc, plugged, spawn_cfg>>
      /\ hist' \in HistType /\ hist'.faults <= MaxFaults /\ hist'.started = hist.started /\ hist'.down = hist.down
    BY OneFault DEF MngrInv, TypeOK, StopManager, Managers
<1>2. mgr' = [mgr EXCEPT !["mgr"] = [@ EXCEPT !.pc = mgr["mgr"].pc, !.sig = "hand", !.todo = mgr["mgr"].todo]]
    BY <1>1, Zenon DEF StopManager, ManagerType, MngrInv, TypeOK
<1>3. mgr["mgr"].pc \in MgrPCs /\ "hand" \in Sigs /\ mgr["mgr"].todo \in SUBSET mgr["mgr"].todo
    BY <1>1 DEF ManagerType, Sigs
<1> QED BY <1>1, <1>2, <1>3, ManagerMoves, Zenon

\* Every step of a back end.
LEMMA BackEndSteps ==
    ASSUME MngrInv, NEW d \in Devs, BeStep(d)
    PROVE  MngrInv'
<1>1. /\ Be(d) \in Procs /\ Be(d) \notin CFGs /\ Be(d) \in BEs
      /\ hist \in HistType /\ hist.faults <= MaxFaults
    BY Names, Members DEF BEs, MngrInv, TypeOK
<1>2. {"slot", "kill", "fes", "up", "exit", "gone"} \subseteq ProcPCs
    BY DEF ProcPCs
<1>3. CASE NewClient(d)
    <2>1. Goes(Be(d), "slot") /\ Goes(Be(d), "exit")
        BY <1>3 DEF NewClient, Try, Goes
    <2> QED BY <1>1, <1>2, <1>3, <2>1, Tries DEF NewClient
<1>4. CASE CardSlot(d)
    <2>1. Goes(Be(d), "kill") /\ Goes(Be(d), "exit")
        BY <1>4 DEF CardSlot, Try, Goes
    <2> QED BY <1>1, <1>2, <1>4, <2>1, Tries DEF CardSlot
<1>5. CASE DevioNewBe(d)
    <2>1. Goes(Be(d), "fes") /\ Goes(Be(d), "exit")
        BY <1>5 DEF DevioNewBe, Try, Goes
    <2> QED BY <1>1, <1>2, <1>5, <2>1, Tries, Zenon DEF DevioNewBe
<1>6. CASE Interrupted(Be(d))
    <2>1. Goes(Be(d), "exit")
        BY <1>6 DEF Interrupted, Goes
    <2> QED BY <1>1, <1>2, <1>6, <2>1, ProcGoes, Zenon DEF Interrupted
<1>7. CASE DefaultAction(Be(d))
    <2>1. Goes(Be(d), "gone")
        BY <1>7 DEF DefaultAction, Goes
    <2> QED BY <1>1, <1>2, <1>7, <2>1, ProcGoes, Zenon DEF DefaultAction
<1>8. CASE SpawnSmios(d)
    <2>1. Goes(Be(d), "up") /\ Goes(Be(d), "exit")
        BY <1>8 DEF SpawnSmios, Try, Goes
    <2> QED BY <1>1, <1>2, <1>8, <2>1, Tries, Zenon DEF SpawnSmios
<1> QED BY <1>1, <1>3, <1>4, <1>5, <1>6, <1>7, <1>8, SpawnsCfg, KillsCfg, SpawnsRffe, Exits DEF BeStep

\* Every step of a front end.
LEMMA FrontEndSteps ==
    ASSUME MngrInv, NEW p \in FEs, FeStep(p)
    PROVE  MngrInv'
<1>1. p \in Procs /\ p \notin CFGs /\ hist \in HistType /\ hist.faults <= MaxFaults
    BY Names, Members DEF MngrInv, TypeOK
<1>2. {"up", "exit", "gone"} \subseteq ProcPCs
    BY DEF ProcPCs
<1>3. CASE DevioNewFe(p)
    <2>1. Goes(p, "up") /\ Goes(p, "exit")
        BY <1>3 DEF DevioNewFe, Try, Goes
    <2> QED BY <1>1, <1>2, <1>3, <2>1, Tries, Zenon DEF DevioNewFe
<1>4. CASE Interrupted(p)
    <2>1. Goes(p, "exit")
        BY <1>4 DEF Interrupted, Goes
    <2> QED BY <1>1, <1>2, <1>4, <2>1, ProcGoes, Zenon DEF Interrupted
<1>5. CASE DefaultAction(p)
    <2>1. Goes(p, "gone")
        BY <1>5 DEF DefaultAction, Goes
    <2> QED BY <1>1, <1>2, <1>5, <2>1, ProcGoes, Zenon DEF DefaultAction
<1> QED BY <1>1, <1>3, <1>4, <1>5, Exits DEF FeStep

\* Processes that end on a signal, or crash.
LEMMA Endings ==
    ASSUME MngrInv, NEW p \in Procs, Obey(p) \/ Crash(p)
    PROVE  MngrInv'
<1>1. hist \in HistType /\ hist.faults <= MaxFaults /\ TypeOK
    BY DEF MngrInv, TypeOK
<1>2. "gone" \in ProcPCs /\ "dead" \in ProcPCs
    BY DEF ProcPCs
<1>3. CASE Obey(p)
    <2>1. Goes(p, "gone")
        BY <1>3 DEF Obey, Goes, Alive
    <2> QED BY <1>1, <1>2, <1>3, <2>1, ProcGoes, Zenon DEF Obey
<1>4. CASE Crash(p)
    <2>1. Goes(p, "dead")
        BY <1>4 DEF Crash, Goes, Alive
    <2>2. hist' \in HistType /\ hist'.faults <= MaxFaults /\ hist'.started = hist.started /\ hist'.down = hist.down
        BY <1>1, <1>4, OneFault DEF Crash
    <2> QED BY <1>2, <1>4, <2>1, <2>2, ProcGoes, Zenon DEF Crash
<1> QED BY <1>3, <1>4

\* A new board is not known yet.
LEMMA Plugged ==
    ASSUME MngrInv, NEW d \in Devs, Plug(d)
    PROVE  MngrInv'
<1>1. UNCHANGED <<mgr, proc, spawn_cfg, hist>> /\ plugged \subseteq plugged' /\ plugged' \in SUBSET Devs
    BY DEF Plug, MngrInv, TypeOK
<1>2. BeInv' /\ CfgToldToEnd' /\ OnlyFrontEndsSignalAll'
    BY <1>1, ProcsUnchanged
<1>3. MgrInv'
    BY <1>1 DEF MngrInv, MgrInv
<1> QED BY <1>1, <1>2, <1>3 DEF MngrInv, TypeOK

\* The invariant holds initially.
LEMMA InitInv == Init => MngrInv
<1> SUFFICES ASSUME Init PROVE MngrInv
    OBVIOUS
<1>1. DOMAIN << >> = {} /\ << >> \in Infos /\ Found(<< >>) = [d \in plugged |-> "READY_TO_RUN"]
    <2>1. << >> \in [{} -> States] /\ DOMAIN << >> = {}
        OBVIOUS
    <2> QED BY <2>1, Zenon DEF Infos, Found
<1>2. Found(<< >>) \in Infos /\ DOMAIN Found(<< >>) = plugged
    <2>1. plugged \in SUBSET Devs
        BY DEF Init
    <2>2. [d \in plugged |-> "READY_TO_RUN"] \in [plugged -> States]
        BY DEF States
    <2> QED BY <1>1, <2>1, <2>2 DEF Infos
<1>3. /\ NoManager \in ManagerType /\ NoManager.pc = "none" /\ DOMAIN NoManager.info = {}
    BY <1>1 DEF NoManager, ManagerType, MgrPCs, Sigs
<1> DEFINE r == [NoManager EXCEPT !.pc = "broker", !.info = Found(<< >>)]
<1>4. r \in ManagerType /\ r.info = Found(<< >>) /\ r.todo = {}
    BY <1>2, <1>3, Zenon DEF NoManager, ManagerType, MgrPCs
<1> HIDE DEF r
<1>5. /\ mgr \in [Managers -> ManagerType] /\ mgr["mgr"] = r /\ mgr["copy"] = NoManager
      /\ \A m \in Managers : mgr[m] = r \/ mgr[m] = NoManager
    BY <1>3, <1>4 DEF Init, Managers, r
<1>6. /\ NoProc \in ProcType /\ [NoProc EXCEPT !.pc = "up"] \in ProcType
      /\ [NoProc EXCEPT !.pc = "up"].sig = "none"
      /\ NoProc.pc = "none" /\ NoProc.sig = "none" /\ NoProc.todo = {}
    BY DEF NoProc, ProcType, ProcPCs, Sigs
<1>7. /\ proc \in [Procs -> ProcType] /\ \A p \in Procs : proc[p].sig = "none" /\ (p # Broker => proc[p] = NoProc)
    BY <1>6 DEF Init
<1>8. /\ hist \in HistType /\ hist.faults = 0 /\ hist.down = {} /\ \A p \in Procs : hist.started[p] = 0
    BY DEF Init, HistType
<1>9. TypeOK
    BY <1>5, <1>7, <1>8 DEF TypeOK, Init
<1>10. MgrInv
    BY <1>2, <1>3, <1>4, <1>5, <1>8, Members DEF MgrInv
<1>11. BeInv
    <2> SUFFICES ASSUME NEW d \in Devs PROVE BeInv!(d)
        BY Zenon DEF BeInv
    <2>1. /\ proc[Be(d)] = NoProc /\ hist.started[Be(d)] = 0 /\ hist.started[Cfg(d)] = 0
          /\ \A j \in Rffes : hist.started[Fe(d, j)] = 0
        BY <1>7, <1>8, Names, Members, SMTT(30)
    <2> QED BY <1>6, <2>1
<1>12. CfgToldToEnd
    BY <1>6, <1>7, Names, Members DEF CfgToldToEnd
<1>13. OnlyFrontEndsSignalAll
    BY <1>7, <1>8 DEF OnlyFrontEndsSignalAll
<1> QED BY <1>8, <1>9, <1>10, <1>11, <1>12, <1>13, FaultsAssumption DEF MngrInv

\* A stuttering step.
LEMMA Unmoved ==
    ASSUME MngrInv, UNCHANGED vars
    PROVE  MngrInv'
<1>1. BeInv' /\ CfgToldToEnd' /\ OnlyFrontEndsSignalAll'
    BY ProcsUnchanged DEF vars
<1>2. MgrInv'
    BY ManagersUnchanged DEF vars
<1> QED BY <1>1, <1>2 DEF MngrInv, TypeOK, vars

(***************************************************************************)
(* Theorems.                                                               *)
(***************************************************************************)

(* MngrInv holds in every reachable state: what the device manager, its     *)
(* copies and the DEVIOs have started is recorded where they look before    *)
(* they start it.                                                           *)
THEOREM Invariance == Spec => []MngrInv
<1>1. MngrInv /\ [Next]_vars => MngrInv'
    <2> SUFFICES ASSUME MngrInv, [Next]_vars PROVE MngrInv'
        OBVIOUS
    <2>1. CASE UNCHANGED vars
        BY <2>1, Unmoved
    <2>2. CASE Next
        BY <2>2, ManagerSteps, BackEndSteps, Plugged, FrontEndSteps, Endings, SignalledByHand, ManagerStopped, Members
           DEF Next
    <2> QED BY <2>1, <2>2
<1> QED BY <1>1, InitInv, PTL DEF Spec

(* No process is started twice, for any number of boards, RFFEs and faults: *)
(* hutils_spawn_chld returns an error in a child whose exec failed, and so  *)
(* neither its copy of the manager nor a restart of the loop starts         *)
(* anything again.                                                          *)
THEOREM EachStartedOnce == Spec => []StartedOnce
<1>1. MngrInv => StartedOnce
    <2> SUFFICES ASSUME MngrInv, NEW p \in Procs PROVE hist.started[p] <= 1
        BY DEF StartedOnce
    <2>1. CASE p = Broker
        BY <2>1 DEF MngrInv, MgrInv
    <2>2. ASSUME NEW d \in Devs, p = Be(d) PROVE hist.started[p] <= 1
        BY <2>2 DEF MngrInv, MgrInv
    <2>3. ASSUME NEW d \in Devs, p = Cfg(d) PROVE hist.started[p] <= 1
        BY <2>3 DEF MngrInv, BeInv
    <2>4. ASSUME NEW d \in Devs, NEW j \in Rffes, p = Fe(d, j) PROVE hist.started[p] <= 1
        BY <2>4 DEF MngrInv, BeInv
    <2> QED BY <2>1, <2>2, <2>3, <2>4 DEF Procs, BEs, CFGs, FEs
<1> QED BY <1>1, Invariance, PTL

(* A DEVIO works on its board with a live DEVIO_CFG only after it has told  *)
(* it to end (main of ebpm).                                                *)
THEOREM CfgTold == Spec => []CfgToldToEnd
<1>1. MngrInv => CfgToldToEnd
    BY DEF MngrInv
<1> QED BY <1>1, Invariance, PTL

(* The process group is signalled by front ends alone: every back end that  *)
(* gets to the label that signals has a DEVIO_CFG to signal.                *)
THEOREM GroupSignals == Spec => []OnlyFrontEndsSignalAll
<1>1. MngrInv => OnlyFrontEndsSignalAll
    BY DEF MngrInv
<1> QED BY <1>1, Invariance, PTL

(* Type correctness of the processes of a crate.                            *)
THEOREM TypeCorrect == Spec => []TypeOK
<1>1. MngrInv => TypeOK
    BY DEF MngrInv
<1> QED BY <1>1, Invariance, PTL
============================================================================
