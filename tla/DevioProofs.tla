---------------------------- MODULE DevioProofs ----------------------------
(***************************************************************************)
(* Proofs about Devio: its invariants hold for every set of keys, every    *)
(* table of child SMIOs and every length of the arrays.                    *)
(***************************************************************************)
EXTENDS Devio, TLAPS

(* Provers of a leaf that names none, with their time limits in seconds.     *)
USE SMTT(20), ZenonT(20)

USE DEF NULL, NoKey, mainVars, hashVars, pipeVars, argVars, smioVars, cfgVars,
        rpcVars, jobVars

-----------------------------------------------------------------------------
(* The type invariant. *)

\* No thread, no socket and no entry at the start.
LEMMA TypeInit == Init => TypeOK
<1> SUFFICES ASSUME Init PROVE TypeOK
  OBVIOUS
<1> USE BoundAssumption DEF Init
<1>1. pipe \in Seq(Command) /\ mgmt_q \in [Slot -> Seq(Key)]
  OBVIOUS
<1>2. cur \in Destroying
  BY DEF Destroying, Idle
<1>3. /\ sm_io_h \in [Key -> Slot \cup {NULL}]
      /\ sm_io_cfg_h \in [Key -> Slot \cup {NULL}]
      /\ key \in [Slot -> Key \cup {NoKey}]
  OBVIOUS
<1>4. smio \in [Slot -> SmioState] /\ cfg \in [Slot -> CfgState]
  BY DEF SmioState, CfgState
<1>5. /\ sent \in 0 .. MaxCommands /\ accesses \in 0 .. MaxAccesses
      /\ nnodes \in 0 .. NODES_MAX_LEN + 1 /\ args_freed \in [Slot -> 0 .. 2]
  OBVIOUS
<1> QED BY <1>1, <1>2, <1>3, <1>4, <1>5, Zenon DEF TypeOK

\* A registration, whichever way it goes, keeps the types of what it writes.
LEMMA TypeRegister ==
  ASSUME TypeOK, NEW k \in Key, _devio_register_sm_raw(k)
  PROVE  /\ nnodes' \in 0 .. NODES_MAX_LEN + 1
         /\ key' \in [Slot -> Key \cup {NoKey}]
         /\ args_freed' \in [Slot -> 0 .. 2]
         /\ sm_io_h' \in [Key -> Slot \cup {NULL}]
         /\ sm_io_cfg_h' \in [Key -> Slot \cup {NULL}]
         /\ pipes_msg' \in [Slot -> BOOLEAN]
         /\ pipes_mgmt' \in [Slot -> BOOLEAN]
         /\ pipes_config' \in [Slot -> BOOLEAN]
         /\ readers' \in SUBSET Socket
         /\ smio' \in [Slot -> SmioState]
         /\ cfg' \in [Slot -> CfgState]
         /\ term' \in [Slot -> BOOLEAN]
         /\ cur' \in Destroying
<1> USE BoundAssumption DEF TypeOK
<1>1. CASE RegisterRejected(k)
  BY <1>1 DEF RegisterRejected, argVars, hashVars, pipeVars
<1>2. CASE Registrable(k)
  <2>1. nnodes \in Slot /\ nnodes + 1 \in 0 .. NODES_MAX_LEN + 1
    BY <1>2 DEF Registrable, Slot
  <2>2. CASE RegisterNoThread(k)
    BY <2>1, <2>2 DEF RegisterNoThread, hashVars, pipeVars
  <2>3. CASE RegisterSpawned(k)
    BY <2>1, <2>3 DEF RegisterSpawned, NewReaders, ConfigEntry, Socket, SmioState, CfgState
  <2>4. CASE RegisterUndone(k)
    BY <2>1, <2>4 DEF RegisterUndone, Socket, SmioState, Destroying, hashVars
  <2> QED BY <1>1, <2>2, <2>3, <2>4 DEF _devio_register_sm_raw
<1> QED
  BY <1>1, <1>2, Zenon DEF _devio_register_sm_raw, RegisterNoThread, RegisterSpawned,
     RegisterUndone

\* Every step keeps the types.
LEMMA TypeStep == DevioInv /\ Next => TypeOK'
<1> SUFFICES ASSUME DevioInv, Next PROVE TypeOK'
  OBVIOUS
<1>t. TypeOK
  BY DEF DevioInv
<1> USE BoundAssumption, KeyAssumption
<1>0. CASE Signal
  BY <1>t, <1>0 DEF TypeOK, Signal, othersThanPipe
<1>1. CASE MainCommand
  BY <1>t, <1>1 DEF TypeOK, MainCommand, othersThanPipe
<1>2. CASE MainTeardown
  BY <1>t, <1>2 DEF TypeOK, MainTeardown, othersThanPipe, Command
<1>3. CASE MainDestroy
  BY <1>t, <1>3 DEF TypeOK, MainDestroy, ListKeys
<1>4. CASE MainRelease
  BY <1>t, <1>4 DEF TypeOK, MainRelease
<1>5. ASSUME NEW k \in Key, DestroyConfig(k) PROVE TypeOK'
  <2>1. sm_io_cfg_h[k] \in Slot
    BY <1>t, <1>5 DEF DestroyConfig, DevioInv, KeysOK, TypeOK
  <2> QED
    BY <1>t, <1>5, <2>1
    DEF TypeOK, DestroyConfig, DestroyFrame, EndReader, Destroying
<1>6. ASSUME NEW k \in Key, DestroySmio(k) PROVE TypeOK'
  <2>1. sm_io_h[k] \in Slot
    BY <1>t, <1>6 DEF DestroySmio, DevioInv, KeysOK, TypeOK
  <2> QED
    BY <1>t, <1>6, <2>1
    DEF TypeOK, DestroySmio, DestroyFrame, EndReader, Destroying
<1>7. CASE ConfigDestroyed
  BY <1>t, <1>7, Zenon DEF TypeOK, ConfigDestroyed, DestroyFrame, DeleteConfig,
     Destroying, Idle
<1>8. CASE SmioDestroyed
  BY <1>t, <1>8, Zenon DEF TypeOK, SmioDestroyed, DestroyFrame, Destroying, Idle
<1>9. CASE RegisterUndoneEnd
  <2>1. cur.slot \in Slot /\ pipes_mgmt[cur.slot]
    BY <1>9 DEF RegisterUndoneEnd, DevioInv, CurOK
  <2>2. args_freed[cur.slot] <= 1
    BY <2>1 DEF DevioInv, ArgsOK
  <2>3. args_freed[cur.slot] \in 0 .. 2
    BY <1>t, <2>1 DEF TypeOK
  <2>4. args_freed[cur.slot] + 1 \in 0 .. 2
    BY <2>2, <2>3
  <2> QED
    BY <1>t, <1>9, <2>1, <2>4 DEF TypeOK, RegisterUndoneEnd, EndReader, Destroying, Idle
<1>10. CASE HandleRegister
  <2>1. Head(pipe) \in Command /\ Tail(pipe) \in Seq(Command)
    BY <1>t, <1>10 DEF HandleRegister, TypeOK
  <2>2. Head(pipe).key \in Key
    BY <2>1, <1>10 DEF HandleRegister, Command
  <2> QED
    BY <1>t, <1>10, <2>1, <2>2, TypeRegister DEF HandleRegister, TypeOK
<1>11. CASE HandleUnregisterAll
  BY <1>t, <1>11 DEF TypeOK, HandleUnregisterAll, ListKeys
<1>12. CASE HandleUnregister
  BY <1>t, <1>12 DEF TypeOK, HandleUnregister
<1>13. CASE HandleTerm
  BY <1>t, <1>13 DEF TypeOK, HandleTerm
<1>14. CASE LoopInterrupted
  BY <1>t, <1>14 DEF TypeOK, LoopInterrupted
<1>15. ASSUME NEW i \in Slot, HandleMgmt(i) PROVE TypeOK'
  <2>1. Head(mgmt_q[i]) \in Key /\ Tail(mgmt_q[i]) \in Seq(Key)
    BY <1>t, <1>15 DEF HandleMgmt, TypeOK
  <2> QED
    BY <1>t, <1>15, <2>1, TypeRegister, SMTT(30) DEF HandleMgmt, TypeOK
<1>16. ASSUME NEW i \in Slot, HandleMsg(i) PROVE TypeOK'
  BY <1>t, <1>16 DEF TypeOK, HandleMsg
<1>17. ASSUME NEW i \in Slot, HandleCfg(i) PROVE TypeOK'
  <2>1. key[i] \in Key /\ sm_io_cfg_h[key[i]] = i
    BY <1>t, <1>17, Zenon DEF HandleCfg, DevioInv, Owned, PolledSocketsOpen, TypeOK
  <2>2. cfg_term' \in [Slot -> BOOLEAN]
    BY <1>17 DEF HandleCfg
  <2> QED
    BY <1>t, <1>17, <2>1, <2>2
    DEF TypeOK, HandleCfg, EndReader, Destroying, Idle
<1>18. ASSUME NEW i \in Slot, SmioConnect(i) PROVE TypeOK'
  BY <1>t, <1>18 DEF TypeOK, SmioConnect, SmioFrame, SmioState
<1>19. ASSUME NEW i \in Slot, SmioExit(i) \/ SmioInterrupted(i) PROVE TypeOK'
  <2>1. args_freed[i] = 0
    BY <1>t, <1>19
    DEF SmioExit, SmioInterrupted, DevioInv, ArgsOK, SmioAlive, SmioState
  <2>2. args_freed' = [args_freed EXCEPT ![i] = 1]
    BY <1>t, <1>19, <2>1 DEF SmioExit, SmioInterrupted, TypeOK
  <2>3. args_freed' \in [Slot -> 0 .. 2]
    BY <1>t, <2>2 DEF TypeOK
  <2> QED
    BY <1>t, <1>19, <2>3, Zenon DEF TypeOK, SmioExit, SmioInterrupted,
       SmioFrame, SmioState
<1>20. ASSUME NEW i \in Slot, SmioStart(i) PROVE TypeOK'
  <2>1. key[i] \in Key
    BY <1>t, <1>20, SMTT(90) DEF SmioStart, DevioInv, Owned, SmioAlive, SmioState
  <2>2. mgmt_q[i] \o Children[key[i]] \in Seq(Key)
    BY <1>t, <2>1 DEF TypeOK
  <2> QED
    BY <1>t, <1>20, <2>2, SMTT(30) DEF TypeOK, SmioStart, SmioFrame, SmioState
<1>21. ASSUME NEW i \in Slot, SmioAccess(i) PROVE TypeOK'
  BY <1>t, <1>21 DEF TypeOK, SmioAccess, SmioFrame, SmioState
<1>22. ASSUME NEW i \in Slot, SmioOpDone(i) PROVE TypeOK'
  BY <1>t, <1>22 DEF TypeOK, SmioOpDone, SmioFrame, SmioState
<1>23. ASSUME NEW i \in Slot, SmioReply(i) PROVE TypeOK'
  BY <1>t, <1>23 DEF TypeOK, SmioReply, SmioFrame, SmioState
<1>24. ASSUME NEW i \in Slot, ConfigNext(i) PROVE TypeOK'
  BY <1>t, <1>24, Zenon DEF TypeOK, ConfigNext, ConfigDone, ConfigExit, CfgFrame, CfgState
<1> QED
  BY <1>0, <1>1, <1>2, <1>3, <1>4, <1>5, <1>6, <1>7, <1>8, <1>9, <1>10, <1>11, <1>12,
     <1>13, <1>14, <1>15, <1>16, <1>17, <1>18, <1>19, <1>20, <1>21, <1>22, <1>23,
     <1>24
  DEF Next, MainNext, DestroyNext, LoopNext, SmioStep

-----------------------------------------------------------------------------
(* The conjuncts of the inductive invariant about the sockets, the threads *)
(* and the hashes.                                                         *)

Structure ==
  /\ FreshSlots
  /\ ArgsOK
  /\ NoDanglingReference
  /\ ConfigBelongsToSmio
  /\ PolledSocketsOpen
  /\ OneMessagePerAccess
  /\ Owned
  /\ CurOK
  /\ KeysOK

\* The registers of the process that a registration leaves alone.
RegisterFrame ==
  UNCHANGED <<loop, crashed, cfg_term, cfg_q, req, rep, cfg_keys, smio_keys>>

\* A registration takes a fresh slot, so that it disturbs no other.
LEMMA StructureRegister ==
  ASSUME TypeOK, Structure, LoopReady, NEW k \in Key,
         _devio_register_sm_raw(k), RegisterFrame
  PROVE  Structure'
<1> USE BoundAssumption DEF Structure, RegisterFrame, LoopReady
<1> nnodes \in 0 .. NODES_MAX_LEN + 1
  BY DEF TypeOK
<1> sm_io_h \in [Key -> Slot \cup {NULL}] /\ sm_io_cfg_h \in [Key -> Slot \cup {NULL}]
  BY DEF TypeOK
<1> pipes_msg \in [Slot -> BOOLEAN] /\ pipes_mgmt \in [Slot -> BOOLEAN]
  BY DEF TypeOK
<1> pipes_config \in [Slot -> BOOLEAN] /\ term \in [Slot -> BOOLEAN]
  BY DEF TypeOK
<1> key \in [Slot -> Key \cup {NoKey}] /\ args_freed \in [Slot -> 0 .. 2]
  BY DEF TypeOK
<1> smio \in [Slot -> SmioState] /\ cfg \in [Slot -> CfgState]
  BY DEF TypeOK
<1>a. ASSUME NEW i \in Slot, NEW n \in Slot, i >= n + 1 PROVE i >= n /\ i # n
  BY <1>a DEF Slot
<1>b. nnodes \in Nat /\ \A i \in Slot : i \in Nat
  BY DEF Slot
<1>c. ASSUME NEW i \in Slot, i >= nnodes
      PROVE  \A j \in Key : sm_io_h[j] # i /\ sm_io_cfg_h[j] # i
  BY <1>b, <1>c DEF FreshSlots, NoDanglingReference
<1>d. Registrable(k) => nnodes \in Slot /\ nnodes >= nnodes
  BY DEF Registrable, Slot
<1>1. CASE RegisterRejected(k)
  BY <1>1, Zenon DEF RegisterRejected, FreshSlots, ArgsOK, NoDanglingReference,
     ConfigBelongsToSmio, PolledSocketsOpen, OneMessagePerAccess, Owned, CurOK, KeysOK
<1>2. CASE RegisterNoThread(k)
  <2>1. FreshSlots'
    BY <1>2, <1>a, <1>b, <1>d DEF RegisterNoThread, FreshSlots
  <2>2. ArgsOK'
    BY <1>2, <1>d DEF RegisterNoThread, ArgsOK, FreshSlots, SmioAlive, SmioState
  <2> QED
    BY <1>2, <2>1, <2>2, SMTT(90) DEF RegisterNoThread, NoDanglingReference,
       ConfigBelongsToSmio, PolledSocketsOpen, OneMessagePerAccess, Owned, CurOK,
       KeysOK
<1>3. CASE RegisterSpawned(k)
  <2> USE <1>3 DEF RegisterSpawned, Registrable, NewReaders, ConfigEntry
  <2>0. nnodes \in Slot /\ \A j \in Key : sm_io_h[j] # nnodes /\ sm_io_cfg_h[j] # nnodes
    BY <1>b, <1>c, <1>d
  <2>f. /\ smio[nnodes] = "off" /\ cfg[nnodes] = "off"
        /\ ~pipes_msg[nnodes] /\ ~pipes_mgmt[nnodes] /\ ~pipes_config[nnodes]
    BY <1>d DEF FreshSlots
  <2>1. FreshSlots'
    BY <1>a, <1>b, <2>0 DEF FreshSlots
  <2>2. ArgsOK'
    BY DEF ArgsOK, FreshSlots, SmioAlive, SmioState
  <2>3. NoDanglingReference'
    BY <2>0 DEF NoDanglingReference, FreshSlots
  <2>4. ConfigBelongsToSmio'
    BY DEF ConfigBelongsToSmio
  <2>5. PolledSocketsOpen'
    BY Zenon DEF PolledSocketsOpen
  <2>6. OneMessagePerAccess'
    BY <2>0, <2>f DEF OneMessagePerAccess, InAccess
  <2>7. Owned'
    <3> SUFFICES ASSUME NEW i \in Slot PROVE Owned!(i)'
      BY DEF Owned
    <3>1. CASE i = nnodes
      BY <2>0, <3>1
    <3>2. CASE i # nnodes
      <4>1. /\ pipes_mgmt[i] => key[i] \in Key /\ sm_io_h[key[i]] = i /\ key[i] # k
            /\ pipes_config[i] => key[i] \in Key /\ sm_io_cfg_h[key[i]] = i /\ key[i] # k
        BY <1>b DEF Owned, Idle
      <4>2. /\ smio[i] \in SmioAlive => pipes_mgmt[i]
            /\ cfg[i] \in CfgAlive => pipes_config[i]
        BY DEF Owned
      <4> QED BY <3>2, <4>1, <4>2
    <3> QED BY <3>1, <3>2
  <2>8. CurOK'
    BY DEF CurOK, Idle
  <2>9. KeysOK'
    BY DEF KeysOK
  <2> QED BY <2>1, <2>2, <2>3, <2>4, <2>5, <2>6, <2>7, <2>8, <2>9
<1>4. CASE RegisterUndone(k)
  <2> USE <1>4 DEF RegisterUndone, Registrable
  <2>0. nnodes \in Slot /\ \A j \in Key : sm_io_h[j] # nnodes /\ sm_io_cfg_h[j] # nnodes
    BY <1>b, <1>c, <1>d
  <2>f. /\ smio[nnodes] = "off" /\ cfg[nnodes] = "off"
        /\ ~pipes_msg[nnodes] /\ ~pipes_mgmt[nnodes] /\ ~pipes_config[nnodes]
    BY <1>d DEF FreshSlots
  <2>1. FreshSlots'
    BY <1>a, <1>b, <2>0, SMTT(30) DEF FreshSlots
  <2>2. ArgsOK'
    BY DEF ArgsOK, FreshSlots, SmioAlive, SmioState
  <2>3. NoDanglingReference'
    BY <2>0 DEF NoDanglingReference, FreshSlots
  <2>4. ConfigBelongsToSmio'
    BY DEF ConfigBelongsToSmio
  <2>5. PolledSocketsOpen'
    BY Zenon DEF PolledSocketsOpen
  <2>6. OneMessagePerAccess'
    BY <2>0, <2>f, SMTT(30) DEF OneMessagePerAccess, InAccess
  <2>7. Owned'
    BY <2>0 DEF Owned, FreshSlots, SmioAlive, SmioState, CfgAlive, Idle
  <2>8. CurOK'
    <3>1. <<"mgmt", nnodes>> \notin readers'
      BY <2>0, <2>f, Zenon DEF PolledSocketsOpen
    <3> QED BY <2>0, <3>1 DEF CurOK, Idle
  <2>9. KeysOK'
    BY DEF KeysOK
  <2> QED BY <2>1, <2>2, <2>3, <2>4, <2>5, <2>6, <2>7, <2>8, <2>9
<1> QED BY <1>1, <1>2, <1>3, <1>4 DEF _devio_register_sm_raw

\* Steps of the main thread on its command pipe leave the structure alone.
LEMMA StructureFrame == Structure /\ UNCHANGED othersThanPipe => Structure'
<1> SUFFICES ASSUME Structure, UNCHANGED othersThanPipe PROVE Structure'
  OBVIOUS
<1> USE DEF Structure, othersThanPipe
<1>1. FreshSlots' /\ ArgsOK' /\ NoDanglingReference'
  BY Zenon DEF FreshSlots, ArgsOK, NoDanglingReference
<1>2. ConfigBelongsToSmio' /\ PolledSocketsOpen' /\ OneMessagePerAccess'
  BY Zenon DEF ConfigBelongsToSmio, PolledSocketsOpen, OneMessagePerAccess
<1>3. Owned' /\ CurOK' /\ KeysOK'
  BY Zenon DEF Owned, CurOK, KeysOK
<1> QED BY <1>1, <1>2, <1>3

\* Every step keeps the structure of hashes, actors and sockets.
LEMMA StructureStep == DevioInv /\ Next => Structure'
<1> SUFFICES ASSUME DevioInv, Next PROVE Structure'
  OBVIOUS
<1>t. TypeOK
  BY DEF DevioInv
<1>s. Structure
  BY DEF DevioInv, Structure
<1>n. \A i \in Slot : i \in Nat /\ i # NULL
  BY BoundAssumption DEF Slot
<1> USE DEF Structure
<1>0. CASE Signal
  BY <1>s, <1>0, StructureFrame DEF Signal
<1>1. CASE MainCommand
  BY <1>s, <1>1, StructureFrame DEF MainCommand
<1>2. CASE MainTeardown
  BY <1>s, <1>2, StructureFrame, SMTT(30) DEF MainTeardown
<1>3. CASE MainDestroy
  <2>a. cur = Idle
    BY <1>3 DEF MainDestroy, DevioInv, PhaseOK
  <2>1. CurOK'
    BY <1>s, <1>3, <2>a DEF MainDestroy, ListKeys, CurOK, Idle
  <2>2. KeysOK'
    BY <1>s, <1>3, SMTT(30) DEF MainDestroy, ListKeys, KeysOK
  <2>3. Owned'
    BY <1>s, <1>3, SMTT(30) DEF MainDestroy, ListKeys, Owned
  <2> QED
    BY <1>s, <1>3, <2>1, <2>2, <2>3, SMTT(90) DEF MainDestroy, ListKeys, FreshSlots,
       ArgsOK, NoDanglingReference, ConfigBelongsToSmio, PolledSocketsOpen,
       OneMessagePerAccess
<1>4. CASE MainRelease
  <2>1. FreshSlots'
    BY <1>s, <1>4, Zenon DEF MainRelease, FreshSlots
  <2>2. PolledSocketsOpen'
    BY <1>s, <1>4, Zenon DEF MainRelease, PolledSocketsOpen
  <2>3. CurOK'
    BY <1>s, <1>4, SMTT(30) DEF MainRelease, CurOK, Idle
  <2> QED
    BY <1>s, <1>4, <2>1, <2>2, <2>3, SMTT(90) DEF MainRelease, ArgsOK, NoDanglingReference,
       ConfigBelongsToSmio, OneMessagePerAccess, Owned, KeysOK
<1>5. ASSUME NEW k \in Key, DestroyConfig(k) PROVE Structure'
  <2>a. sm_io_cfg_h[k] \in Slot /\ pipes_config[sm_io_cfg_h[k]]
    BY <1>t, <1>s, <1>5 DEF DestroyConfig, KeysOK, NoDanglingReference, TypeOK
  <2>b. sm_io_cfg_h[k] < nnodes
    BY <1>t, <1>s, <1>n, <2>a, SMTT(30) DEF FreshSlots, TypeOK
  <2>1. FreshSlots'
    BY <1>s, <1>5, <1>t, <1>n, <2>a, <2>b, SMTT(90) DEF DestroyConfig, DestroyFrame,
       EndReader, FreshSlots, TypeOK
  <2>2. PolledSocketsOpen'
    BY <1>s, <1>5, Zenon DEF DestroyConfig, DestroyFrame, EndReader, PolledSocketsOpen
  <2>3. Owned'
    BY <1>s, <1>5, SMTT(90) DEF DestroyConfig, DestroyFrame, EndReader, Owned, Idle
  <2>4. CurOK'
    BY <1>s, <1>5, <2>a, SMTT(90) DEF DestroyConfig, DestroyFrame, EndReader, CurOK, Idle
  <2>5. KeysOK'
    BY <1>s, <1>5, SMTT(30) DEF DestroyConfig, DestroyFrame, EndReader, KeysOK, Idle
  <2> QED
    BY <1>s, <1>5, <2>1, <2>2, <2>3, <2>4, <2>5, SMTT(90) DEF DestroyConfig, DestroyFrame,
       EndReader, ArgsOK, NoDanglingReference, ConfigBelongsToSmio,
       OneMessagePerAccess
<1>6. ASSUME NEW k \in Key, DestroySmio(k) PROVE Structure'
  <2>a. sm_io_h[k] \in Slot /\ pipes_mgmt[sm_io_h[k]]
    BY <1>t, <1>s, <1>6, SMTT(30) DEF DestroySmio, KeysOK, NoDanglingReference, TypeOK
  <2>b. sm_io_h[k] < nnodes
    BY <1>t, <1>s, <1>n, <2>a DEF FreshSlots, TypeOK
  <2>c. sm_io_cfg_h[k] = NULL
    BY <1>s, <1>6, SMTT(30) DEF DestroySmio, KeysOK, Idle
  <2>1. FreshSlots'
    BY <1>s, <1>6, <1>t, <1>n, <2>a, <2>b, SMTT(90) DEF DestroySmio, DestroyFrame,
       EndReader, FreshSlots, TypeOK
  <2>2. PolledSocketsOpen'
    BY <1>s, <1>6, Zenon DEF DestroySmio, DestroyFrame, EndReader, PolledSocketsOpen
  <2>3. Owned'
    BY <1>s, <1>6, SMTT(90) DEF DestroySmio, DestroyFrame, EndReader, Owned, Idle
  <2>4. CurOK'
    BY <1>s, <1>6, <2>a, <2>c, SMTT(90) DEF DestroySmio, DestroyFrame, EndReader, CurOK,
       Idle
  <2>5. KeysOK'
    BY <1>s, <1>6, SMTT(30) DEF DestroySmio, DestroyFrame, EndReader, KeysOK, Idle
  <2> QED
    BY <1>s, <1>6, <2>1, <2>2, <2>3, <2>4, <2>5, SMTT(90) DEF DestroySmio, DestroyFrame,
       EndReader, ArgsOK, NoDanglingReference, ConfigBelongsToSmio,
       OneMessagePerAccess
<1>7. CASE ConfigDestroyed
  <2>a. /\ cur.key \in Key /\ cur.slot \in Slot /\ key[cur.slot] = cur.key
        /\ sm_io_cfg_h[cur.key] = cur.slot /\ <<"cfg", cur.slot>> \notin readers
        /\ cur.key \notin cfg_keys
    BY <1>s, <1>n, <1>7, SMTT(90) DEF ConfigDestroyed, CurOK, NoDanglingReference
  <2>t. /\ sm_io_cfg_h \in [Key -> Slot \cup {NULL}]
        /\ pipes_config \in [Slot -> BOOLEAN]
        /\ cfg_keys \subseteq Key /\ smio_keys \subseteq Key
    BY <1>t, SMTT(30) DEF TypeOK
  <2>1. FreshSlots'
    BY <1>s, <1>7, <2>a, <2>t, SMTT(90) DEF ConfigDestroyed, DestroyFrame, DeleteConfig,
       FreshSlots
  <2>2. NoDanglingReference'
    BY <1>s, <1>7, <1>n, <2>a, <2>t, SMTT(90) DEF ConfigDestroyed, DestroyFrame,
       DeleteConfig, NoDanglingReference
  <2>3. ConfigBelongsToSmio'
    BY <1>s, <1>7, <2>a, <2>t, Zenon DEF ConfigDestroyed, DestroyFrame, DeleteConfig,
       ConfigBelongsToSmio
  <2>4. PolledSocketsOpen'
    BY <1>s, <1>7, <2>a, <2>t, Zenon DEF ConfigDestroyed, DestroyFrame, DeleteConfig,
       PolledSocketsOpen
  <2>5. Owned'
    BY <1>s, <1>7, <1>n, <2>a, <2>t, SMTT(90) DEF ConfigDestroyed, DestroyFrame,
       DeleteConfig, Owned, CfgAlive, Idle
  <2>6. CurOK'
    BY <1>s, <1>7 DEF ConfigDestroyed, DestroyFrame, DeleteConfig, CurOK, Idle
  <2>7. KeysOK'
    BY <1>s, <1>7, <2>a, <2>t DEF ConfigDestroyed, DestroyFrame, DeleteConfig,
       KeysOK, Idle
  <2> QED
    BY <1>s, <1>7, <2>1, <2>2, <2>3, <2>4, <2>5, <2>6, <2>7, SMTT(90) DEF ConfigDestroyed,
       DestroyFrame, DeleteConfig, ArgsOK, OneMessagePerAccess
<1>8. CASE SmioDestroyed
  <2>a. /\ cur.key \in Key /\ cur.slot \in Slot /\ key[cur.slot] = cur.key
        /\ sm_io_h[cur.key] = cur.slot /\ <<"mgmt", cur.slot>> \notin readers
        /\ cur.key \notin smio_keys /\ cfg_keys = {} /\ sm_io_cfg_h[cur.key] = NULL
    BY <1>s, <1>n, <1>8, SMTT(90) DEF SmioDestroyed, CurOK, NoDanglingReference
  <2>t. /\ sm_io_h \in [Key -> Slot \cup {NULL}]
        /\ pipes_mgmt \in [Slot -> BOOLEAN]
        /\ smio_keys \subseteq Key
    BY <1>t, SMTT(30) DEF TypeOK
  <2>1. FreshSlots'
    BY <1>s, <1>8, <2>a, <2>t DEF SmioDestroyed, DestroyFrame, SmioReturned,
       FreshSlots
  <2>2. ArgsOK'
    BY <1>s, <1>8, <2>a, <2>t, Zenon DEF SmioDestroyed, DestroyFrame, SmioReturned,
       ArgsOK
  <2>3. NoDanglingReference'
    BY <1>s, <1>8, <1>n, <2>a, <2>t, SMTT(90) DEF SmioDestroyed, DestroyFrame,
       SmioReturned, NoDanglingReference
  <2>4. ConfigBelongsToSmio'
    BY <1>s, <1>8, <2>a, <2>t, Zenon DEF SmioDestroyed, DestroyFrame, SmioReturned,
       ConfigBelongsToSmio
  <2>5. PolledSocketsOpen'
    BY <1>s, <1>8, <2>a, <2>t, Zenon DEF SmioDestroyed, DestroyFrame, SmioReturned,
       PolledSocketsOpen
  <2>6. Owned'
    BY <1>s, <1>8, <1>n, <2>a, <2>t, SMTT(90) DEF SmioDestroyed, DestroyFrame,
       SmioReturned, Owned, SmioAlive, Idle
  <2>7. CurOK'
    BY <1>s, <1>8, SMTT(30) DEF SmioDestroyed, DestroyFrame, SmioReturned, CurOK, Idle
  <2>8. KeysOK'
    BY <1>s, <1>8, <2>a, <2>t, SMTT(30) DEF SmioDestroyed, DestroyFrame, SmioReturned,
       KeysOK, Idle
  <2> QED
    BY <1>s, <1>8, <2>1, <2>2, <2>3, <2>4, <2>5, <2>6, <2>7, <2>8, Zenon DEF
       SmioDestroyed, DestroyFrame, SmioReturned, OneMessagePerAccess
<1>9. CASE RegisterUndoneEnd
  <2>a. /\ cur.slot \in Slot /\ pipes_mgmt[cur.slot]
        /\ <<"mgmt", cur.slot>> \notin readers
        /\ \A k \in Key : sm_io_h[k] # cur.slot
        /\ cfg_keys = {} /\ smio_keys = {}
    BY <1>s, <1>9, SMTT(90) DEF RegisterUndoneEnd, CurOK
  <2>t. /\ pipes_mgmt \in [Slot -> BOOLEAN] /\ pipes_msg \in [Slot -> BOOLEAN]
        /\ args_freed \in [Slot -> 0 .. 2] /\ nnodes \in Int
    BY <1>t DEF TypeOK
  <2>b. cur.slot < nnodes
    BY <1>s, <1>n, <2>a, <2>t, SMTT(30) DEF FreshSlots
  <2>1. FreshSlots'
    BY <1>s, <1>9, <1>n, <2>a, <2>b, <2>t DEF RegisterUndoneEnd, EndReader,
       SmioReturned, FreshSlots
  <2>2. ArgsOK'
    BY <1>s, <1>9, <2>a, <2>t, Zenon DEF RegisterUndoneEnd, EndReader, SmioReturned,
       ArgsOK, SmioAlive
  <2>3. NoDanglingReference'
    BY <1>s, <1>9, <1>n, <2>a, <2>t, SMTT(90) DEF RegisterUndoneEnd, EndReader,
       SmioReturned, NoDanglingReference
  <2>4. PolledSocketsOpen'
    BY <1>s, <1>9, <2>a, <2>t, Zenon DEF RegisterUndoneEnd, EndReader, SmioReturned,
       PolledSocketsOpen
  <2>5. Owned'
    BY <1>s, <1>9, <1>n, <2>a, <2>t, SMTT(90) DEF RegisterUndoneEnd, EndReader,
       SmioReturned, Owned, SmioAlive, Idle
  <2>6. CurOK'
    BY <1>s, <1>9, <2>a, SMTT(30) DEF RegisterUndoneEnd, EndReader, SmioReturned, CurOK,
       Idle
  <2>7. KeysOK'
    BY <1>s, <1>9, <2>a, SMTT(30) DEF RegisterUndoneEnd, EndReader, SmioReturned, KeysOK,
       Idle
  <2> QED
    BY <1>s, <1>9, <2>1, <2>2, <2>3, <2>4, <2>5, <2>6, <2>7, SMTT(30) DEF
       RegisterUndoneEnd, EndReader, SmioReturned, ConfigBelongsToSmio,
       OneMessagePerAccess
<1>10. CASE HandleRegister
  <2>1. Head(pipe) \in Command
    BY <1>t, <1>10 DEF HandleRegister, TypeOK
  <2>2. Head(pipe).key \in Key
    BY <2>1, <1>10 DEF HandleRegister, Command
  <2> QED
    BY <1>t, <1>s, <1>10, <2>2, TypeStep, StructureRegister
    DEF HandleRegister, RegisterFrame
<1>11. CASE HandleUnregisterAll
  <2>1. CurOK'
    BY <1>s, <1>11, SMTT(90) DEF HandleUnregisterAll, ListKeys, LoopReady, CurOK, Idle
  <2>2. KeysOK'
    BY <1>s, <1>11 DEF HandleUnregisterAll, ListKeys, LoopReady, KeysOK
  <2> QED
    BY <1>s, <1>11, <2>1, <2>2, Zenon DEF HandleUnregisterAll, ListKeys, LoopReady,
       FreshSlots, ArgsOK, NoDanglingReference, ConfigBelongsToSmio,
       PolledSocketsOpen, OneMessagePerAccess, Owned
<1>12. CASE HandleUnregister
  BY <1>s, <1>12, Zenon DEF HandleUnregister, FreshSlots, ArgsOK, NoDanglingReference,
     ConfigBelongsToSmio, PolledSocketsOpen, OneMessagePerAccess, Owned,
     CurOK, KeysOK
<1>13. CASE HandleTerm
  <2>1. CurOK'
    BY <1>s, <1>13, SMTT(90) DEF HandleTerm, LoopReady, CurOK, Idle
  <2> QED
    BY <1>s, <1>13, <2>1, Zenon DEF HandleTerm, LoopReady, FreshSlots, ArgsOK,
       NoDanglingReference, ConfigBelongsToSmio, PolledSocketsOpen,
       OneMessagePerAccess, Owned, KeysOK
<1>14. CASE LoopInterrupted
  <2>1. CurOK'
    BY <1>s, <1>14, SMTT(30) DEF LoopInterrupted, LoopReady, CurOK, Idle
  <2> QED
    BY <1>s, <1>14, <2>1, Zenon DEF LoopInterrupted, LoopReady, FreshSlots, ArgsOK,
       NoDanglingReference, ConfigBelongsToSmio, PolledSocketsOpen,
       OneMessagePerAccess, Owned, KeysOK
<1>15. ASSUME NEW i \in Slot, HandleMgmt(i) PROVE Structure'
  <2>1. Head(mgmt_q[i]) \in Key
    BY <1>t, <1>15 DEF HandleMgmt, TypeOK
  <2> QED
    BY <1>t, <1>s, <1>15, <2>1, TypeStep, StructureRegister
    DEF HandleMgmt, RegisterFrame
<1>16. ASSUME NEW i \in Slot, HandleMsg(i) PROVE Structure'
  <2>1. OneMessagePerAccess'
    BY <1>s, <1>16, <1>t, Zenon DEF HandleMsg, OneMessagePerAccess, TypeOK
  <2> QED
    BY <1>s, <1>16, <2>1, Zenon DEF HandleMsg, FreshSlots, ArgsOK, NoDanglingReference,
       ConfigBelongsToSmio, PolledSocketsOpen, Owned, CurOK, KeysOK
<1>17. ASSUME NEW i \in Slot, HandleCfg(i) PROVE Structure'
  <2>a. key[i] \in Key /\ sm_io_cfg_h[key[i]] = i /\ i # NULL
    BY <1>s, <1>n, <1>17, Zenon DEF HandleCfg, PolledSocketsOpen, Owned
  <2>b. i < nnodes
    BY <1>t, <1>s, <1>n, <1>17, SMTT(90) DEF HandleCfg, FreshSlots, TypeOK
  <2>c. /\ cfg_term' = [n \in Slot |-> n = i \/ cfg_term[n]]
        /\ cfg_q' = [cfg_q EXCEPT ![i] = FALSE] /\ cfg_q \in [Slot -> BOOLEAN]
        /\ readers' = readers \ {<<"cfg", i>>} /\ loop' = loop
        /\ cur' = [kind |-> "cfg", key |-> key[i], slot |-> i] /\ cur = Idle
        /\ cfg_keys = {} /\ smio_keys = {}
        /\ UNCHANGED <<argVars, hashVars, pipeVars, smioVars, cfg, rpcVars,
                       cfg_keys, smio_keys>>
    BY <1>t, <2>a, <1>17, SMTT(90) DEF HandleCfg, LoopReady, EndReader, TypeOK
  <2>1. FreshSlots'
    <3> SUFFICES ASSUME NEW n \in Slot, n >= nnodes
                 PROVE  ~cfg_term'[n] /\ ~cfg_q'[n]
      BY <1>s, <2>c, Zenon DEF FreshSlots
    <3>1. n # i /\ ~cfg_term[n] /\ ~cfg_q[n]
      BY <1>s, <1>n, <1>t, <2>b DEF FreshSlots, TypeOK
    <3> QED BY <2>c, <3>1
  <2>2. PolledSocketsOpen'
    BY <1>s, <1>17, <2>c, Zenon DEF LoopReady, PolledSocketsOpen
  <2>3. Owned'
    BY <1>s, <1>17, <2>c, Zenon DEF LoopReady, Owned, Idle
  <2>4. CurOK'
    BY <1>s, <1>17, <2>a, <2>c, Zenon DEF LoopReady, CurOK, Idle
  <2>5. KeysOK'
    BY <1>s, <1>17, <2>c, Zenon DEF LoopReady, KeysOK, Idle
  <2>6. ArgsOK'
    BY <1>s, <1>17, <2>c, SMTT(90) DEF LoopReady, ArgsOK
  <2>7. NoDanglingReference'
    BY <1>s, <1>17, <2>c, Zenon DEF LoopReady, NoDanglingReference
  <2>8. ConfigBelongsToSmio'
    BY <1>s, <1>17, <2>c, Zenon DEF LoopReady, ConfigBelongsToSmio
  <2>9. OneMessagePerAccess'
    BY <1>s, <1>17, <2>c, Zenon DEF LoopReady, OneMessagePerAccess
  <2> QED
    BY <1>s, <1>17, <2>1, <2>2, <2>3, <2>4, <2>5, <2>6, <2>7, <2>8, <2>9 DEF
       LoopReady
<1>18. ASSUME NEW i \in Slot, SmioConnect(i) PROVE Structure'
  <2>t. /\ smio \in [Slot -> SmioState] /\ args_freed \in [Slot -> 0 .. 2]
        /\ req \in [Slot -> BOOLEAN] /\ rep \in [Slot -> BOOLEAN]
    BY <1>t, SMTT(30) DEF TypeOK
  <2>1. FreshSlots'
    BY <1>s, <1>18, <2>t DEF SmioConnect, SmioFrame, FreshSlots, InAccess
  <2>2. ArgsOK'
    BY <1>s, <1>18, <2>t, SMTT(30) DEF SmioConnect, SmioFrame, ArgsOK, SmioAlive, SmioState,
       InAccess
  <2>3. Owned'
    BY <1>s, <1>18, <2>t, SMTT(90) DEF SmioConnect, SmioFrame, Owned, SmioAlive, SmioState,
       InAccess
  <2>4. OneMessagePerAccess'
    BY <1>s, <1>18, <2>t DEF SmioConnect, SmioFrame, OneMessagePerAccess, InAccess
  <2> QED
    BY <1>s, <1>18, <2>1, <2>2, <2>3, <2>4, Zenon DEF SmioConnect, SmioFrame,
       NoDanglingReference, ConfigBelongsToSmio, PolledSocketsOpen, CurOK,
       KeysOK
<1>19. ASSUME NEW i \in Slot, SmioExit(i) PROVE Structure'
  <2>t. /\ smio \in [Slot -> SmioState] /\ args_freed \in [Slot -> 0 .. 2]
        /\ req \in [Slot -> BOOLEAN] /\ rep \in [Slot -> BOOLEAN]
    BY <1>t DEF TypeOK
  <2>1. FreshSlots'
    BY <1>s, <1>19, <2>t, SMTT(30) DEF SmioExit, SmioFrame, FreshSlots, InAccess
  <2>2. ArgsOK'
    BY <1>s, <1>19, <2>t, SMTT(90) DEF SmioExit, SmioFrame, ArgsOK, SmioAlive, SmioState,
       InAccess
  <2>3. Owned'
    BY <1>s, <1>19, <2>t, SMTT(90) DEF SmioExit, SmioFrame, Owned, SmioAlive, SmioState,
       InAccess
  <2>4. OneMessagePerAccess'
    BY <1>s, <1>19, <2>t DEF SmioExit, SmioFrame, OneMessagePerAccess, InAccess
  <2> QED
    BY <1>s, <1>19, <2>1, <2>2, <2>3, <2>4, Zenon DEF SmioExit, SmioFrame,
       NoDanglingReference, ConfigBelongsToSmio, PolledSocketsOpen, CurOK,
       KeysOK
<1>20. ASSUME NEW i \in Slot, SmioInterrupted(i) PROVE Structure'
  <2>t. /\ smio \in [Slot -> SmioState] /\ args_freed \in [Slot -> 0 .. 2]
        /\ req \in [Slot -> BOOLEAN] /\ rep \in [Slot -> BOOLEAN]
    BY <1>t DEF TypeOK
  <2>1. FreshSlots'
    BY <1>s, <1>20, <2>t, SMTT(30) DEF SmioInterrupted, SmioFrame, FreshSlots, InAccess
  <2>2. ArgsOK'
    BY <1>s, <1>20, <2>t DEF SmioInterrupted, SmioFrame, ArgsOK, SmioAlive,
       SmioState, InAccess
  <2>3. Owned'
    BY <1>s, <1>20, <2>t, Zenon DEF SmioInterrupted, SmioFrame, Owned, SmioAlive,
       SmioState, InAccess
  <2>4. OneMessagePerAccess'
    BY <1>s, <1>20, <2>t DEF SmioInterrupted, SmioFrame, OneMessagePerAccess,
       InAccess
  <2> QED
    BY <1>s, <1>20, <2>1, <2>2, <2>3, <2>4, Zenon DEF SmioInterrupted, SmioFrame,
       NoDanglingReference, ConfigBelongsToSmio, PolledSocketsOpen, CurOK,
       KeysOK
<1>21. ASSUME NEW i \in Slot, SmioStart(i) PROVE Structure'
  <2>t. /\ smio \in [Slot -> SmioState] /\ args_freed \in [Slot -> 0 .. 2]
        /\ req \in [Slot -> BOOLEAN] /\ rep \in [Slot -> BOOLEAN]
    BY <1>t DEF TypeOK
  <2>1. FreshSlots'
    BY <1>s, <1>21, <2>t, SMTT(30) DEF SmioStart, SmioFrame, FreshSlots, InAccess
  <2>2. ArgsOK'
    BY <1>s, <1>21, <2>t DEF SmioStart, SmioFrame, ArgsOK, SmioAlive, SmioState,
       InAccess
  <2>3. Owned'
    BY <1>s, <1>21, <2>t, Zenon DEF SmioStart, SmioFrame, Owned, SmioAlive, SmioState,
       InAccess
  <2>4. OneMessagePerAccess'
    BY <1>s, <1>21, <2>t, SMTT(30) DEF SmioStart, SmioFrame, OneMessagePerAccess, InAccess
  <2> QED
    BY <1>s, <1>21, <2>1, <2>2, <2>3, <2>4, Zenon DEF SmioStart, SmioFrame,
       NoDanglingReference, ConfigBelongsToSmio, PolledSocketsOpen, CurOK,
       KeysOK
<1>22. ASSUME NEW i \in Slot, SmioAccess(i) PROVE Structure'
  <2>t. /\ smio \in [Slot -> SmioState] /\ args_freed \in [Slot -> 0 .. 2]
        /\ req \in [Slot -> BOOLEAN] /\ rep \in [Slot -> BOOLEAN]
    BY <1>t DEF TypeOK
  <2>1. FreshSlots'
    BY <1>s, <1>22, <2>t, SMTT(30) DEF SmioAccess, SmioFrame, FreshSlots, InAccess
  <2>2. ArgsOK'
    BY <1>s, <1>22, <2>t, SMTT(30) DEF SmioAccess, SmioFrame, ArgsOK, SmioAlive, SmioState,
       InAccess
  <2>3. Owned'
    BY <1>s, <1>22, <2>t, SMTT(90) DEF SmioAccess, SmioFrame, Owned, SmioAlive, SmioState,
       InAccess
  <2>4. OneMessagePerAccess'
    BY <1>s, <1>22, <2>t, Zenon DEF SmioAccess, SmioFrame, OneMessagePerAccess, InAccess
  <2> QED
    BY <1>s, <1>22, <2>1, <2>2, <2>3, <2>4, Zenon DEF SmioAccess, SmioFrame,
       NoDanglingReference, ConfigBelongsToSmio, PolledSocketsOpen, CurOK,
       KeysOK
<1>23. ASSUME NEW i \in Slot, SmioOpDone(i) PROVE Structure'
  <2>t. /\ smio \in [Slot -> SmioState] /\ args_freed \in [Slot -> 0 .. 2]
        /\ req \in [Slot -> BOOLEAN] /\ rep \in [Slot -> BOOLEAN]
    BY <1>t DEF TypeOK
  <2>1. FreshSlots'
    BY <1>s, <1>23, <2>t DEF SmioOpDone, SmioFrame, FreshSlots, InAccess
  <2>2. ArgsOK'
    BY <1>s, <1>23, <2>t, SMTT(30) DEF SmioOpDone, SmioFrame, ArgsOK, SmioAlive, SmioState,
       InAccess
  <2>3. Owned'
    BY <1>s, <1>23, <2>t, SMTT(90) DEF SmioOpDone, SmioFrame, Owned, SmioAlive, SmioState,
       InAccess
  <2>4. OneMessagePerAccess'
    BY <1>s, <1>23, <2>t DEF SmioOpDone, SmioFrame, OneMessagePerAccess, InAccess
  <2> QED
    BY <1>s, <1>23, <2>1, <2>2, <2>3, <2>4, Zenon DEF SmioOpDone, SmioFrame,
       NoDanglingReference, ConfigBelongsToSmio, PolledSocketsOpen, CurOK,
       KeysOK
<1>24. ASSUME NEW i \in Slot, SmioReply(i) PROVE Structure'
  <2>t. /\ smio \in [Slot -> SmioState] /\ args_freed \in [Slot -> 0 .. 2]
        /\ req \in [Slot -> BOOLEAN] /\ rep \in [Slot -> BOOLEAN]
    BY <1>t DEF TypeOK
  <2>1. FreshSlots'
    BY <1>s, <1>24, <2>t DEF SmioReply, SmioFrame, FreshSlots, InAccess
  <2>2. ArgsOK'
    BY <1>s, <1>24, <2>t, SMTT(30) DEF SmioReply, SmioFrame, ArgsOK, SmioAlive, SmioState,
       InAccess
  <2>3. Owned'
    BY <1>s, <1>24, <2>t, SMTT(90) DEF SmioReply, SmioFrame, Owned, SmioAlive, SmioState,
       InAccess
  <2>4. OneMessagePerAccess'
    BY <1>s, <1>24, <2>t, Zenon DEF SmioReply, SmioFrame, OneMessagePerAccess, InAccess
  <2> QED
    BY <1>s, <1>24, <2>1, <2>2, <2>3, <2>4, Zenon DEF SmioReply, SmioFrame,
       NoDanglingReference, ConfigBelongsToSmio, PolledSocketsOpen, CurOK,
       KeysOK
<1>25. ASSUME NEW i \in Slot, ConfigDone(i) PROVE Structure'
  <2>1. FreshSlots'
    BY <1>s, <1>25, <1>t, SMTT(90) DEF ConfigDone, CfgFrame, FreshSlots, TypeOK
  <2>2. Owned'
    BY <1>s, <1>25, <1>t, SMTT(90) DEF ConfigDone, CfgFrame, Owned, TypeOK, CfgAlive
  <2> QED
    BY <1>s, <1>25, <2>1, <2>2, Zenon DEF ConfigDone, CfgFrame, ArgsOK,
       NoDanglingReference, ConfigBelongsToSmio, PolledSocketsOpen,
       OneMessagePerAccess, CurOK, KeysOK
<1>26. ASSUME NEW i \in Slot, ConfigExit(i) PROVE Structure'
  <2>1. FreshSlots'
    BY <1>s, <1>26, <1>t, SMTT(90) DEF ConfigExit, CfgFrame, FreshSlots, TypeOK
  <2>2. Owned'
    BY <1>s, <1>26, <1>t, SMTT(90) DEF ConfigExit, CfgFrame, Owned, TypeOK, CfgAlive
  <2> QED
    BY <1>s, <1>26, <2>1, <2>2, Zenon DEF ConfigExit, CfgFrame, ArgsOK,
       NoDanglingReference, ConfigBelongsToSmio, PolledSocketsOpen,
       OneMessagePerAccess, CurOK, KeysOK
<1> QED
  BY <1>0, <1>1, <1>2, <1>3, <1>4, <1>5, <1>6, <1>7, <1>8, <1>9, <1>10, <1>11,
     <1>12, <1>13, <1>14, <1>15, <1>16, <1>17, <1>18, <1>19, <1>20, <1>21,
     <1>22, <1>23, <1>24, <1>25, <1>26, Zenon
  DEF Next, MainNext, DestroyNext, LoopNext, SmioStep, ConfigNext

-----------------------------------------------------------------------------
(* The phases of the main thread. *)

\* Every step keeps what main thread and reactor know of each other.
LEMMA PhaseStep == DevioInv /\ Next => PhaseOK'
<1> SUFFICES ASSUME DevioInv, Next PROVE PhaseOK'
  OBVIOUS
<1>t. TypeOK /\ PhaseOK
  BY DEF DevioInv
<1>p. ASSUME pipe # <<>>, pipe' = Tail(pipe)
      PROVE  \A n \in DOMAIN pipe' : n + 1 \in DOMAIN pipe /\ pipe'[n] = pipe[n + 1]
  BY <1>t, <1>p DEF TypeOK
<1>0. CASE Signal
  BY <1>t, <1>0, Zenon DEF Signal, othersThanPipe, PhaseOK
<1>1. CASE MainCommand
  <2>0. pipe \in Seq(Command)
    BY <1>t DEF TypeOK
  <2>1. PICK c \in Command : c.op # "term" /\ pipe' = Append(pipe, c)
    BY <1>1 DEF MainCommand
  <2>2. \A n \in DOMAIN pipe' : pipe'[n] = c \/ (n \in DOMAIN pipe /\ pipe'[n] = pipe[n])
    <3>1. /\ Len(pipe) \in Nat /\ DOMAIN pipe = 1 .. Len(pipe)
          /\ DOMAIN pipe' = 1 .. Len(pipe) + 1 /\ pipe'[Len(pipe) + 1] = c
          /\ \A n \in 1 .. Len(pipe) : pipe'[n] = pipe[n]
      BY <2>0, <2>1
    <3> TAKE n \in DOMAIN pipe'
    <3>2. n = Len(pipe) + 1 \/ n \in 1 .. Len(pipe)
      BY <3>1, SMTT(30)
    <3> QED BY <3>1, <3>2
  <2>3. main = "run" => \A n \in DOMAIN pipe' : pipe'[n].op # "term"
    BY <1>t, <2>1, <2>2, SMTT(90) DEF PhaseOK
  <2> QED
    BY <1>t, <1>1, <2>3, SMTT(90) DEF MainCommand, othersThanPipe, PhaseOK
<1>2. CASE MainTeardown
  BY <1>t, <1>2, Zenon DEF MainTeardown, othersThanPipe, PhaseOK
<1>3. CASE MainDestroy
  BY <1>t, <1>3, Zenon DEF MainDestroy, ListKeys, PhaseOK
<1>4. CASE MainRelease
  BY <1>t, <1>4, Zenon DEF MainRelease, PhaseOK
<1>5. ASSUME NEW k \in Key, DestroyConfig(k) PROVE PhaseOK'
  BY <1>t, <1>5, Zenon DEF DestroyConfig, DestroyFrame, PhaseOK, Idle
<1>6. ASSUME NEW k \in Key, DestroySmio(k) PROVE PhaseOK'
  BY <1>t, <1>6, Zenon DEF DestroySmio, DestroyFrame, PhaseOK, Idle
<1>7. CASE ConfigDestroyed
  <2>1. /\ cur.kind = "cfg" /\ cur' = Idle
        /\ sm_io_cfg_h \in [Key -> Slot \cup {NULL}]
        /\ sm_io_cfg_h' = [sm_io_cfg_h EXCEPT ![cur.key] = NULL]
        /\ UNCHANGED <<main, loop, interrupted, pipe, sm_io_h, cfg_keys, smio_keys>>
    BY <1>t, <1>7 DEF TypeOK, ConfigDestroyed, DestroyFrame, DeleteConfig
  <2>2. \A k \in Key : sm_io_cfg_h'[k] # NULL => sm_io_cfg_h[k] # NULL /\ k # cur.key
    BY <2>1
  <2> QED
    BY <1>t, <2>1, <2>2, Zenon DEF PhaseOK, Idle
<1>8. CASE SmioDestroyed
  <2>1. /\ cur.kind = "smio" /\ cur' = Idle
        /\ sm_io_h \in [Key -> Slot \cup {NULL}]
        /\ sm_io_h' = [sm_io_h EXCEPT ![cur.key] = NULL]
        /\ UNCHANGED <<main, loop, interrupted, pipe, sm_io_cfg_h, cfg_keys, smio_keys>>
    BY <1>t, <1>8, SMTT(30) DEF TypeOK, SmioDestroyed, DestroyFrame
  <2>2. \A k \in Key : sm_io_h'[k] # NULL => sm_io_h[k] # NULL /\ k # cur.key
    BY <2>1
  <2> QED
    BY <1>t, <2>1, <2>2, Zenon DEF PhaseOK, Idle
<1>9. CASE RegisterUndoneEnd
  <2>1. loop = "run" /\ cur.kind = "undo"
    BY <1>9, Zenon DEF RegisterUndoneEnd, DevioInv, CurOK
  <2> QED
    BY <1>t, <1>9, <2>1, Zenon DEF RegisterUndoneEnd, PhaseOK
<1>10. CASE HandleRegister
  BY <1>t, <1>p, <1>10, Zenon DEF HandleRegister, LoopReady, PhaseOK
<1>11. CASE HandleUnregisterAll
  BY <1>t, <1>p, <1>11, Zenon DEF HandleUnregisterAll, LoopReady, PhaseOK
<1>12. CASE HandleUnregister
  BY <1>t, <1>p, <1>12, Zenon DEF HandleUnregister, LoopReady, PhaseOK
<1>13. CASE HandleTerm
  <2>1. main # "run"
    <3>1. 1 \in DOMAIN pipe /\ Head(pipe) = pipe[1]
      BY <1>t, <1>13 DEF TypeOK, HandleTerm
    <3> QED BY <1>t, <1>13, <3>1, Zenon DEF HandleTerm, PhaseOK
  <2> QED
    BY <1>t, <1>p, <1>13, <2>1, Zenon DEF HandleTerm, LoopReady, PhaseOK
<1>14. CASE LoopInterrupted
  BY <1>t, <1>14, Zenon DEF LoopInterrupted, LoopReady, PhaseOK
<1>15. ASSUME NEW i \in Slot, HandleMgmt(i) PROVE PhaseOK'
  BY <1>t, <1>15, Zenon DEF HandleMgmt, LoopReady, PhaseOK
<1>16. ASSUME NEW i \in Slot, HandleMsg(i) PROVE PhaseOK'
  BY <1>t, <1>16, Zenon DEF HandleMsg, PhaseOK
<1>17. ASSUME NEW i \in Slot, HandleCfg(i) PROVE PhaseOK'
  <2>1. sm_io_cfg_h[key[i]] = i
    BY <1>17, Zenon DEF HandleCfg, DevioInv, Owned, PolledSocketsOpen
  <2>2. i # NULL
    BY BoundAssumption DEF Slot
  <2> QED
    BY <1>t, <1>17, <2>1, <2>2, Zenon DEF HandleCfg, LoopReady, PhaseOK
<1>18. ASSUME NEW i \in Slot, SmioStep(i) \/ SmioAccess(i) \/ SmioInterrupted(i)
       PROVE  PhaseOK'
  <2>1. UNCHANGED SmioFrame
    BY <1>18, Zenon DEF SmioStep, SmioConnect, SmioExit, SmioStart, SmioOpDone,
       SmioReply, SmioAccess, SmioInterrupted
  <2> QED
    BY <1>t, <2>1, Zenon DEF SmioFrame, PhaseOK
<1>19. ASSUME NEW i \in Slot, ConfigNext(i) PROVE PhaseOK'
  <2>1. UNCHANGED CfgFrame
    BY <1>19, SMTT(30) DEF ConfigNext, ConfigDone, ConfigExit
  <2> QED
    BY <1>t, <2>1, Zenon DEF CfgFrame, PhaseOK
<1> QED
  BY <1>0, <1>1, <1>2, <1>3, <1>4, <1>5, <1>6, <1>7, <1>8, <1>9, <1>10, <1>11, <1>12,
     <1>13, <1>14, <1>15, <1>16, <1>17, <1>18, <1>19
  DEF Next, MainNext, DestroyNext, LoopNext

-----------------------------------------------------------------------------
(* The theorems. *)

\* The invariant holds at the start,
LEMMA InvInit == Init => DevioInv
<1> SUFFICES ASSUME Init PROVE DevioInv
  OBVIOUS
<1>1. TypeOK
  BY TypeInit
<1>2. FreshSlots /\ ArgsOK /\ Owned
  BY SMTT(30) DEF Init, FreshSlots, ArgsOK, Owned, SmioAlive, CfgAlive
<1>3. NoDanglingReference /\ ConfigBelongsToSmio /\ PolledSocketsOpen
  BY SMTT(30) DEF Init, NoDanglingReference, ConfigBelongsToSmio, PolledSocketsOpen
<1>4. OneMessagePerAccess
  BY DEF Init, OneMessagePerAccess, InAccess
<1>5. CurOK /\ KeysOK
  BY SMTT(30) DEF Init, CurOK, KeysOK, Idle
<1>6. PhaseOK
  BY SMTT(30) DEF Init, PhaseOK
<1> QED BY <1>1, <1>2, <1>3, <1>4, <1>5, <1>6 DEF DevioInv

\* and a step of something else keeps it.
LEMMA InvStutter == DevioInv /\ UNCHANGED vars => DevioInv'
<1> SUFFICES ASSUME DevioInv, UNCHANGED vars PROVE DevioInv'
  OBVIOUS
<1>1. TypeOK'
  BY SMTT(90) DEF vars, DevioInv, TypeOK
<1>2. Structure'
  BY StructureFrame, Zenon DEF vars, othersThanPipe, DevioInv, Structure
<1>3. PhaseOK'
  BY Zenon DEF vars, DevioInv, PhaseOK
<1> QED BY <1>1, <1>2, <1>3 DEF DevioInv, Structure

\* The inductive invariant: in every reachable state of the process every actor
\* can be reached from the hashes or from the zactor_destroy in progress, and
\* the bookkeeping of registrations and destructions agrees with the threads.
THEOREM Invariance == Spec => []DevioInv
<1>1. DevioInv /\ [Next]_vars => DevioInv'
  BY TypeStep, StructureStep, PhaseStep, InvStutter DEF DevioInv, Structure
<1> QED BY InvInit, <1>1, PTL DEF Spec

\* Type correctness of the DEVIO process.
THEOREM TypeCorrect == Spec => []TypeOK
  BY Invariance, PTL DEF DevioInv

\* A thread that runs is never lost: the hash of its kind has its key, or the
\* registration that is being undone is destroying it.
THEOREM ThreadsReachable == Spec => [](NoLostThread /\ NoDanglingReference)
<1>1. DevioInv => NoLostThread /\ NoDanglingReference
  BY Zenon DEF DevioInv, NoLostThread, Owned
<1> QED BY <1>1, Invariance, PTL

\* The reactor never polls a destroyed socket, and never takes a reply or a
\* request of one access for that of another.
THEOREM SocketsSafe == Spec => [](PolledSocketsOpen /\ OneMessagePerAccess)
  BY Invariance, PTL DEF DevioInv

\* A failed lookup of a CONFIG DONE never ends the reactor: only a teardown or a
\* signal does.
THEOREM ReactorSurvives == Spec => []ReactorEndsOnTeardown
<1>1. DevioInv => ReactorEndsOnTeardown
  BY SMTT(90) DEF DevioInv, PhaseOK, ReactorEndsOnTeardown
<1> QED BY <1>1, Invariance, PTL

\* devio_destroy releases the device only after the last child thread returned.
THEOREM ReleaseIsLast == Spec => []ChildrenGoneBeforeRelease
<1>1. DevioInv => ChildrenGoneBeforeRelease
  <2> SUFFICES ASSUME DevioInv, main = "done", NEW i \in Slot
               PROVE  smio[i] \notin SmioAlive /\ cfg[i] \notin CfgAlive
    BY Zenon DEF ChildrenGoneBeforeRelease
  <2>0. PhaseOK
    BY DEF DevioInv
  <2>1. cur.kind = "idle" /\ cfg_keys = {} /\ smio_keys = {}
    <3>1. cur = Idle /\ cfg_keys = {} /\ smio_keys = {}
      BY <2>0, Zenon DEF PhaseOK
    <3> QED BY <3>1 DEF Idle
  <2>2. \A k \in Key : sm_io_h[k] = NULL /\ sm_io_cfg_h[k] = NULL
    BY <2>0, <2>1, Zenon DEF PhaseOK
  <2>3. i # NULL
    BY BoundAssumption DEF Slot
  <2>4. ~pipes_mgmt[i] /\ ~pipes_config[i]
    BY <2>1, <2>2, <2>3, Zenon DEF DevioInv, Owned
  <2> QED
    BY <2>4, Zenon DEF DevioInv, Owned
<1> QED BY <1>1, Invariance, PTL

-----------------------------------------------------------------------------
(* What devio_destroy leaves behind. *)

\* A thread that ran has its key and, once it has returned, has freed its
\* th_args; the second free is of a registration that never had a config thread.
ReleaseInv ==
  /\ \A i \in Slot :
       /\ smio[i] = "off" => key[i] = NoKey
       /\ smio[i] = "exit" => args_freed[i] > 0
       /\ args_freed[i] > 1 => cfg[i] = "off" /\ ~pipes_mgmt[i]
  /\ cur.kind = "undo" => cfg[cur.slot] = "off"
  /\ OneSocketLeft

\* A step that leaves the slots alone and does not end devio_destroy keeps it.
LEMMA ReleaseFrame ==
  ASSUME ReleaseInv, UNCHANGED <<smio, key, args_freed, cfg, pipes_mgmt, pipes_msg, nnodes>>,
         main' = "done" => main = "done",
         cur' = cur \/ cur'.kind # "undo"
  PROVE  ReleaseInv'
BY Zenon DEF ReleaseInv, OneSocketLeft

\* A registration takes a slot that nothing was done with before.
LEMMA ReleaseRegister ==
  ASSUME DevioInv, ReleaseInv, LoopReady, NEW k \in Key, _devio_register_sm_raw(k), main' = main
  PROVE  ReleaseInv'
<1>t. TypeOK /\ main # "done"
  BY Zenon DEF DevioInv, PhaseOK, LoopReady
<1>o. OneSocketLeft'
  BY <1>t DEF OneSocketLeft
<1>1. CASE RegisterRejected(k)
  BY <1>1, ReleaseFrame, Zenon DEF RegisterRejected
<1>2. CASE ~RegisterRejected(k)
  <2>1. nnodes \in Slot /\ nnodes \in Int
    BY <1>t, <1>2, BoundAssumption, SMTT(90)
    DEF _devio_register_sm_raw, RegisterNoThread, RegisterSpawned, RegisterUndone, Registrable, TypeOK, Slot
  <2>2. /\ smio[nnodes] = "off" /\ cfg[nnodes] = "off" /\ ~pipes_mgmt[nnodes] /\ args_freed[nnodes] = 0
    BY <2>1 DEF DevioInv, FreshSlots
  <2>3. CASE RegisterNoThread(k)
    <3>1. PICK n \in {0, 1} : args_freed' = [args_freed EXCEPT ![nnodes] = n]
      BY <2>3, Zenon DEF RegisterNoThread
    <3>2. UNCHANGED <<key, smio, cfg, pipes_mgmt, cur>>
      BY <2>3 DEF RegisterNoThread
    <3>3. \A i \in Slot : args_freed'[i] = IF i = nnodes THEN n ELSE args_freed[i]
      BY <1>t, <3>1 DEF TypeOK
    <3> QED BY <1>o, <2>2, <3>2, <3>3, Zenon DEF ReleaseInv
  <2>4. CASE RegisterSpawned(k)
    <3>1. \A i \in Slot : i # nnodes =>
             smio'[i] = smio[i] /\ key'[i] = key[i] /\ cfg'[i] = cfg[i] /\ pipes_mgmt'[i] = pipes_mgmt[i]
      BY <1>t, <2>4, Zenon DEF TypeOK, RegisterSpawned
    <3>2. smio'[nnodes] = "boot" /\ args_freed' = args_freed /\ cur' = cur
      BY <1>t, <2>1, <2>4, Zenon DEF TypeOK, RegisterSpawned
    <3>3. cur.kind # "undo"
      BY DEF LoopReady, Idle
    <3>4. ASSUME NEW i \in Slot
          PROVE  /\ smio'[i] = "off" => key'[i] = NoKey
                 /\ smio'[i] = "exit" => args_freed'[i] > 0
                 /\ args_freed'[i] > 1 => cfg'[i] = "off" /\ ~pipes_mgmt'[i]
      <4>1. CASE i = nnodes
        <5>1. smio'[i] = "boot" /\ args_freed'[i] = 0
          BY <2>2, <3>2, <4>1, Zenon
        <5>2. ~(args_freed'[i] > 1)
          BY <5>1
        <5> QED BY <5>1, <5>2, Zenon
      <4>2. CASE i # nnodes
        BY <3>1, <3>2, <4>2, Zenon DEF ReleaseInv
      <4> QED BY <4>1, <4>2, Zenon
    <3> QED BY <1>o, <3>2, <3>3, <3>4, Zenon DEF ReleaseInv
  <2>5. CASE RegisterUndone(k)
    <3>1. \A i \in Slot : i # nnodes =>
             smio'[i] = smio[i] /\ key'[i] = key[i] /\ pipes_mgmt'[i] = pipes_mgmt[i]
      BY <1>t, <2>5, Zenon DEF TypeOK, RegisterUndone
    <3>2. smio'[nnodes] = "boot" /\ args_freed' = args_freed /\ cfg' = cfg /\ cur'.slot = nnodes
      BY <1>t, <2>1, <2>5 DEF TypeOK, RegisterUndone
    <3>3. ASSUME NEW i \in Slot
          PROVE  /\ smio'[i] = "off" => key'[i] = NoKey
                 /\ smio'[i] = "exit" => args_freed'[i] > 0
                 /\ args_freed'[i] > 1 => cfg'[i] = "off" /\ ~pipes_mgmt'[i]
      <4>1. CASE i = nnodes
        <5>1. smio'[i] = "boot" /\ args_freed'[i] = 0
          BY <2>2, <3>2, <4>1, Zenon
        <5>2. ~(args_freed'[i] > 1)
          BY <5>1
        <5> QED BY <5>1, <5>2, Zenon
      <4>2. CASE i # nnodes
        BY <3>1, <3>2, <4>2, Zenon DEF ReleaseInv
      <4> QED BY <4>1, <4>2, Zenon
    <3>4. cfg'[cur'.slot] = "off"
      BY <2>2, <3>2, Zenon
    <3> QED BY <1>o, <3>3, <3>4, Zenon DEF ReleaseInv
  <2> QED BY <1>2, <2>3, <2>4, <2>5 DEF _devio_register_sm_raw
<1> QED BY <1>1, <1>2

\* The thread of a slot goes from one state to another, or returns and frees.
LEMMA ReleaseThread ==
  ASSUME DevioInv, ReleaseInv, NEW i \in Slot, NEW s, smio' = [smio EXCEPT ![i] = s],
         smio[i] \in SmioAlive, s \in SmioAlive \cup {"exit"},
         UNCHANGED <<key, cfg, pipes_mgmt, pipes_msg, nnodes, cur, main>>,
         args_freed' = IF s = "exit" THEN [args_freed EXCEPT ![i] = @ + 1] ELSE args_freed
  PROVE  ReleaseInv'
<1>1. smio \in [Slot -> SmioState] /\ args_freed \in [Slot -> 0 .. 2]
  BY DEF DevioInv, TypeOK
<1>2. args_freed[i] = 0
  BY Zenon DEF DevioInv, ArgsOK
<1>3. smio[i] # "off" /\ smio[i] # "exit" /\ s # "off"
  BY DEF SmioAlive
<1>4. \A j \in Slot : /\ smio'[j] = IF j = i THEN s ELSE smio[j]
                      /\ args_freed'[j] = IF j = i /\ s = "exit" THEN 1 ELSE args_freed[j]
  BY <1>1, <1>2
<1>5. OneSocketLeft'
  BY DEF ReleaseInv, OneSocketLeft
<1>6. \A j \in Slot : /\ smio'[j] = "off" => key'[j] = NoKey
                      /\ smio'[j] = "exit" => args_freed'[j] > 0
                      /\ args_freed'[j] > 1 => cfg'[j] = "off" /\ ~pipes_mgmt'[j]
  <2> TAKE j \in Slot
  <2>1. CASE j = i
    BY <1>2, <1>3, <1>4, <2>1
  <2>2. CASE j # i
    BY <1>4, <2>2 DEF ReleaseInv
  <2> QED BY <2>1, <2>2
<1> QED BY <1>5, <1>6 DEF ReleaseInv

\* Every step keeps it.
LEMMA ReleaseStep == DevioInv /\ ReleaseInv /\ [Next]_vars => ReleaseInv'
<1> SUFFICES ASSUME DevioInv, ReleaseInv, [Next]_vars PROVE ReleaseInv'
  OBVIOUS
<1>t. TypeOK
  BY DEF DevioInv
<1>1. CASE Signal \/ MainCommand \/ MainTeardown \/ MainDestroy \/ UNCHANGED vars
  BY <1>1, ReleaseFrame, Zenon DEF Signal, MainCommand, MainTeardown, MainDestroy, othersThanPipe, vars
<1>2. CASE MainRelease
  <2>1. /\ UNCHANGED <<smio, key, args_freed, cfg, pipes_mgmt, nnodes, cur>>
        /\ pipes_msg' = [i \in Slot |-> i = NODES_MAX_LEN /\ pipes_msg[i]]
    BY <1>2 DEF MainRelease
  <2>2. OneSocketLeft'
    <3> SUFFICES ASSUME NEW i \in Slot, pipes_msg'[i]
                 PROVE  i = NODES_MAX_LEN /\ nnodes = NODES_MAX_LEN + 1
      BY <2>1, Zenon DEF OneSocketLeft
    <3>1. i = NODES_MAX_LEN /\ pipes_msg[i]
      BY <2>1, Zenon
    <3>2. ~(i >= nnodes)
      BY <3>1, Zenon DEF DevioInv, FreshSlots
    <3> QED BY <1>t, <3>1, <3>2, BoundAssumption, SMTT(90) DEF TypeOK
  <2> QED BY <2>1, <2>2, Zenon DEF ReleaseInv
<1>3. CASE \E k \in Key : DestroyConfig(k) \/ DestroySmio(k)
  <2>1. /\ UNCHANGED <<smio, key, args_freed, cfg, pipes_mgmt, pipes_msg, nnodes, main>>
        /\ cur'.kind # "undo"
    <3>1. PICK k \in Key : DestroyConfig(k) \/ DestroySmio(k)
      BY <1>3, Zenon
    <3>2. UNCHANGED <<smio, key, args_freed, cfg, pipes_mgmt, pipes_msg, nnodes, main>>
      BY <3>1, Zenon DEF DestroyConfig, DestroySmio, DestroyFrame
    <3>3. cur'.kind # "undo"
      BY <3>1 DEF DestroyConfig, DestroySmio
    <3> QED BY <3>2, <3>3
  <2> QED BY <2>1, ReleaseFrame, Zenon
<1>4. CASE ConfigDestroyed
  <2>1. /\ UNCHANGED <<smio, key, args_freed, cfg, pipes_mgmt, pipes_msg, nnodes, main>>
        /\ cur'.kind # "undo"
    BY <1>4 DEF ConfigDestroyed, DestroyFrame, Idle
  <2> QED BY <2>1, ReleaseFrame, Zenon
<1>5. CASE SmioDestroyed
  <2>1. /\ UNCHANGED <<smio, key, args_freed, cfg, pipes_msg, nnodes, main>>
        /\ cur'.kind # "undo"
        /\ pipes_mgmt' = [pipes_mgmt EXCEPT ![cur.slot] = FALSE]
    BY <1>5 DEF SmioDestroyed, DestroyFrame, Idle
  <2>2. \A i \in Slot : ~pipes_mgmt[i] => ~pipes_mgmt'[i]
    BY <1>t, <2>1, Zenon DEF TypeOK
  <2> QED BY <2>1, <2>2, Zenon DEF ReleaseInv, OneSocketLeft
<1>6. CASE RegisterUndoneEnd
  <2>1. /\ UNCHANGED <<smio, key, cfg, nnodes, main>>
        /\ cur'.kind # "undo" /\ cur.kind = "undo"
        /\ pipes_mgmt' = [pipes_mgmt EXCEPT ![cur.slot] = FALSE]
        /\ pipes_msg' = [pipes_msg EXCEPT ![cur.slot] = FALSE]
        /\ args_freed' = [args_freed EXCEPT ![cur.slot] = args_freed[cur.slot] + 1]
    BY <1>6 DEF RegisterUndoneEnd, Idle
  <2>2. cur.slot \in Slot /\ main # "done"
    BY <2>1, Zenon DEF DevioInv, CurOK, PhaseOK
  <2>3. \A i \in Slot : /\ i # cur.slot => args_freed'[i] = args_freed[i]
                        /\ i # cur.slot => pipes_mgmt'[i] = pipes_mgmt[i]
    BY <1>t, <2>1, Zenon DEF TypeOK
  <2>4. args_freed'[cur.slot] > 0 /\ ~pipes_mgmt'[cur.slot] /\ cfg[cur.slot] = "off"
    <3>1. args_freed[cur.slot] \in 0 .. 2
      BY <1>t, <2>2 DEF TypeOK
    <3> QED BY <1>t, <2>1, <2>2, <3>1, SMTT(90) DEF TypeOK, ReleaseInv
  <2>5. OneSocketLeft'
    BY <2>1, <2>2, Zenon DEF OneSocketLeft
  <2> QED BY <2>1, <2>3, <2>4, <2>5, Zenon DEF ReleaseInv
<1>7. CASE HandleRegister
  <2>1. Head(pipe) \in Command
    BY <1>t, <1>7 DEF HandleRegister, TypeOK
  <2>2. Head(pipe).key \in Key
    BY <2>1, <1>7 DEF HandleRegister, Command
  <2> QED BY <1>7, <2>2, ReleaseRegister, Zenon DEF HandleRegister
<1>8. ASSUME NEW i \in Slot, HandleMgmt(i) PROVE ReleaseInv'
  <2>1. Head(mgmt_q[i]) \in Key
    BY <1>t, <1>8 DEF HandleMgmt, TypeOK
  <2> QED BY <1>8, <2>1, ReleaseRegister, Zenon DEF HandleMgmt
<1>9. CASE HandleUnregisterAll \/ HandleUnregister \/ HandleTerm \/ LoopInterrupted
           \/ \E i \in Slot : HandleMsg(i)
  BY <1>9, ReleaseFrame, Zenon DEF HandleUnregisterAll, HandleUnregister, HandleTerm, LoopInterrupted,
     HandleMsg
<1>10. ASSUME NEW i \in Slot, HandleCfg(i) PROVE ReleaseInv'
  <2>1. /\ UNCHANGED <<smio, key, args_freed, cfg, pipes_mgmt, pipes_msg, nnodes, main>>
        /\ cur'.kind # "undo"
    BY <1>10, Zenon DEF HandleCfg, Idle
  <2> QED BY <2>1, ReleaseFrame, Zenon
<1>11. ASSUME NEW i \in Slot, SmioStep(i) \/ SmioAccess(i) \/ SmioInterrupted(i) PROVE ReleaseInv'
  <2>1. UNCHANGED <<key, cfg, pipes_mgmt, pipes_msg, nnodes, cur, main>>
    BY <1>11, Zenon DEF SmioStep, SmioConnect, SmioExit, SmioStart, SmioOpDone, SmioReply, SmioAccess,
       SmioInterrupted, SmioFrame
  <2>2. PICK s : /\ smio' = [smio EXCEPT ![i] = s] /\ smio[i] \in SmioAlive /\ s \in SmioAlive \cup {"exit"}
                 /\ args_freed' = IF s = "exit" THEN [args_freed EXCEPT ![i] = args_freed[i] + 1] ELSE args_freed
    <3>1. CASE SmioExit(i) \/ SmioInterrupted(i)
      BY <3>1, Zenon DEF SmioExit, SmioInterrupted, SmioAlive, SmioState
    <3>2. CASE SmioConnect(i) \/ SmioStart(i) \/ SmioOpDone(i)
      BY <3>2, Zenon DEF SmioConnect, SmioStart, SmioOpDone, SmioAlive, SmioState
    <3>3. CASE SmioReply(i) \/ SmioAccess(i)
      BY <3>3 DEF SmioReply, SmioAccess, SmioAlive, SmioState, InAccess
    <3> QED BY <1>11, <3>1, <3>2, <3>3, Zenon DEF SmioStep
  <2> QED BY <2>1, <2>2, ReleaseThread, Zenon
<1>12. ASSUME NEW i \in Slot, ConfigNext(i) PROVE ReleaseInv'
  <2>1. /\ UNCHANGED <<smio, key, args_freed, pipes_mgmt, pipes_msg, nnodes, cur, main>>
        /\ cfg[i] # "off" /\ \E s : cfg' = [cfg EXCEPT ![i] = s]
    BY <1>12, Zenon DEF ConfigNext, ConfigDone, ConfigExit, CfgFrame
  <2>2. \A j \in Slot : cfg[j] = "off" => cfg'[j] = "off"
    BY <1>t, <2>1, Zenon DEF TypeOK
  <2>3. cur.kind = "undo" => cur.slot \in Slot
    BY Zenon DEF DevioInv, CurOK
  <2> QED BY <2>1, <2>2, <2>3, Zenon DEF ReleaseInv, OneSocketLeft
<1> QED
  BY <1>1, <1>2, <1>3, <1>4, <1>5, <1>6, <1>7, <1>8, <1>9, <1>10, <1>11, <1>12, Zenon
  DEF Next, MainNext, DestroyNext, LoopNext

\* The invariant of what is released.
LEMMA ReleaseInvariance == Spec => []ReleaseInv
<1>1. Init => ReleaseInv
  BY SMTT(90) DEF Init, ReleaseInv, OneSocketLeft, Idle
<1> QED BY <1>1, ReleaseStep, Invariance, PTL DEF Spec

\* th_args is freed for every thread that ran, whichever way it ended, and twice
\* only where a registration was undone before it had a config thread.
THEOREM ArgsReleased == Spec => []ThreadArgsReleased
<1>1. DevioInv /\ ReleaseInv /\ ChildrenGoneBeforeRelease => ThreadArgsReleased
  <2> SUFFICES ASSUME DevioInv, ReleaseInv, ChildrenGoneBeforeRelease, NEW i \in Slot
               PROVE  main = "done" /\ key[i] \in Key => args_freed[i] > 0
    BY Zenon DEF ReleaseInv, ThreadArgsReleased
  <2> SUFFICES ASSUME main = "done", key[i] \in Key PROVE args_freed[i] > 0
    OBVIOUS
  <2>1. smio[i] \in SmioState
    BY DEF DevioInv, TypeOK
  <2>2. smio[i] = "exit"
    BY <2>1, KeyAssumption DEF ReleaseInv, ChildrenGoneBeforeRelease, SmioAlive
  <2> QED BY <2>2 DEF ReleaseInv
<1> QED BY <1>1, Invariance, ReleaseInvariance, ReleaseIsLast, PTL

\* Only the socket of the slot past the end of pipes_msg outlives devio_destroy.
THEOREM SocketsReleased == Spec => []OneSocketLeft
<1>1. ReleaseInv => OneSocketLeft
  BY DEF ReleaseInv
<1> QED BY <1>1, ReleaseInvariance, PTL

\* A key leaves sm_io_h only after the SMIO thread it stands for has returned.
THEOREM ReferencesKept == Spec => ReferenceKeptUntilExit
<1> DEFINE Kept ==
      \A k \in Key :
        sm_io_h[k] # NULL /\ sm_io_h'[k] # sm_io_h[k] =>
          sm_io_h'[k] = NULL /\ smio[sm_io_h[k]] = "exit"
<1>1. DevioInv /\ [Next]_vars => [Kept]_vars
  <2> SUFFICES ASSUME DevioInv, Next PROVE Kept
    BY Zenon
  <2>t. TypeOK
    BY DEF DevioInv
  <2>1. ASSUME NEW k \in Key, _devio_register_sm_raw(k) PROVE Kept
    BY <2>t, <2>1, Zenon DEF TypeOK, _devio_register_sm_raw, RegisterRejected,
       RegisterNoThread, RegisterSpawned, RegisterUndone
  <2>2. CASE SmioDestroyed
    BY <2>t, <2>2, Zenon DEF TypeOK, DevioInv, CurOK, SmioDestroyed, SmioReturned
  <2>3. CASE HandleRegister
    <3>1. Head(pipe) \in Command
      BY <2>t, <2>3 DEF HandleRegister, TypeOK
    <3>2. Head(pipe).key \in Key
      BY <3>1, <2>3 DEF HandleRegister, Command
    <3> QED BY <2>1, <2>3, <3>2, Zenon DEF HandleRegister
  <2>4. ASSUME NEW i \in Slot, HandleMgmt(i) PROVE Kept
    <3>1. Head(mgmt_q[i]) \in Key
      BY <2>t, <2>4 DEF HandleMgmt, TypeOK
    <3> QED BY <2>1, <2>4, <3>1, SMTT(90) DEF HandleMgmt
  <2>5. SmioDestroyed \/ HandleRegister \/ (\E i \in Slot : HandleMgmt(i))
        \/ UNCHANGED sm_io_h
    BY Zenon DEF Next, MainNext, Signal, MainCommand, MainTeardown, MainDestroy,
       MainRelease, othersThanPipe, DestroyNext, DestroyConfig, DestroySmio, ConfigDestroyed,
       RegisterUndoneEnd, DestroyFrame, LoopNext, HandleUnregisterAll,
       HandleUnregister, HandleTerm, LoopInterrupted, HandleMsg, HandleCfg,
       SmioStep, SmioConnect, SmioExit, SmioStart, SmioOpDone, SmioReply,
       SmioAccess, SmioInterrupted, SmioFrame, ConfigNext, ConfigDone, ConfigExit,
       CfgFrame
  <2> QED BY <2>2, <2>3, <2>4, <2>5
<1> QED BY <1>1, Invariance, PTL DEF Spec, ReferenceKeptUntilExit
=============================================================================
