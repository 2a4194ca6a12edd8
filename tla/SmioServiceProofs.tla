------------------------- MODULE SmioServiceProofs --------------------------
(***************************************************************************)
(* Proofs about SmioService: what the request and reply protocol between   *)
(* the clients of an SMIO and its thread guarantees, for any number of     *)
(* clients, calls, default values and timeouts.                            *)
(***************************************************************************)
EXTENDS SmioServiceInv, FiniteSetTheorems

(* Provers of a leaf that names none, with their time limits in seconds.     *)
USE SMTT(20), ZenonT(20)

(* The config thread.                                                       *)

\* The default values whose error is not looked at, counted one by one.
LEMMA UncheckedNext ==
    ASSUME NEW k \in 1..Len(Defaults)
    PROVE  /\ Cardinality(Unchecked(k - 1)) \in Nat
           /\ Cardinality(Unchecked(k)) =
                Cardinality(Unchecked(k - 1)) + (IF Defaults[k].checked THEN 0 ELSE 1)
<1>1. Len(Defaults) \in Nat /\ k \in Nat /\ k - 1 \in Nat
  BY ServiceAssumption
<1>2. IsFiniteSet(1..(k - 1))
  BY <1>1, FS_Interval
<1>3. IsFiniteSet(Unchecked(k - 1)) /\ Cardinality(Unchecked(k - 1)) \in Nat
  <2>1. Unchecked(k - 1) \subseteq 1..(k - 1)
    BY DEF Unchecked
  <2> QED BY <1>2, <2>1, FS_Subset, FS_CardinalityType
<1>4. CASE Defaults[k].checked
  <2>1. Unchecked(k) = Unchecked(k - 1)
    BY <1>1, <1>4 DEF Unchecked
  <2> QED BY <1>3, <1>4, <2>1
<1>5. CASE ~Defaults[k].checked
  <2>1. Unchecked(k) = Unchecked(k - 1) \cup {k} /\ k \notin Unchecked(k - 1)
    BY <1>1, <1>5 DEF Unchecked
  <2> QED BY <1>3, <1>5, <2>1, FS_AddElement, Zenon
<1> QED BY <1>3, <1>4, <1>5

(* As long as its last call returned to the list, a config thread that never *)
(* timed out on a list of checked values has had all up to now performed.    *)
LEMMA ConfigPerformed ==
    ASSUME ServiceInv, cl[Config].pc # "wait", cl[Config].late = 0,
           cl[Config].n > 0 => cl[Config].res.ret = "SUCCESS",
           \A i \in 1..Len(Defaults) : Defaults[i].checked
    PROVE  \A i \in 1..cl[Config].n : <<Config, i>> \in hist.done
<1> DEFINE me == cl[Config]
<1>1. Config \in Clients
  BY DEF Clients
<1>2. me.n \in Nat /\ me.res.n \in Nat /\ me.res.for \in Nat
  BY <1>1 DEF ServiceInv, Types, ClientOf, Res
<1>3. \A i \in 1..(me.n - 1) : <<Config, i>> \in hist.done
  BY DEF ServiceInv, ConfigInv
<1>4. ASSUME me.n > 0
      PROVE  <<Config, me.n>> \in hist.done
  <2>1. me.res.n = me.n /\ me.res.fn = "write" /\ me.res.ret = "SUCCESS"
    BY <1>4 DEF ServiceInv, ConfigInv
  <2>2. Success(Config) /\ Lag(Config)
    BY <1>1 DEF ServiceInv, ClientInv
  <2>3. <<Config, me.res.for>> \in hist.done
    BY <2>1, <2>2 DEF Success
  <2>4. me.res.for # 0
    <3>1. hist.done \subseteq Clients \X (Nat \ {0})
      BY DEF ServiceInv, Types
    <3> QED BY <2>3, <3>1
  <2>5. me.res.for = me.n
    BY <1>2, <2>1, <2>2, <2>4 DEF Lag
  <2> QED BY <2>3, <2>5
<1> HIDE DEF me
<1>5. \A i \in 1..me.n : <<Config, i>> \in hist.done
  BY <1>2, <1>3, <1>4
<1> QED BY <1>5 DEF me

\* The config thread sends its next default value.
LEMMA ConfigSendStep ==
    ASSUME ServiceInv, ConfigSend
    PROVE  ServiceInv'
<1> DEFINE call == [fn |-> "write", val |-> Defaults[cl[Config].n + 1].val, extra |-> FALSE]
<1>1. Config \in Clients /\ Types /\ ConfigInv
  BY DEF Clients, ServiceInv
<1>2. cl[Config].n \in Nat /\ cl[Config].n < Len(Defaults) /\ cl[Config].pc = "idle"
  BY <1>1 DEF Types, ClientOf, ConfigSend
<1>3. PICK call1 \in Call : call1 = call
  <2>1. cl[Config].n + 1 \in 1..Len(Defaults)
    BY <1>2, ServiceAssumption
  <2>2. Defaults[cl[Config].n + 1] \in [val : Int, checked : BOOLEAN]
    BY <2>1, ServiceAssumption, Element, Zenon
  <2> QED BY <2>2, Zenon DEF Call
<1>4. Send(Config, call1) /\ call1.fn = "write"
  BY <1>3 DEF ConfigSend
<1>5. Types' /\ ClientInv'
  BY <1>1, <1>2, <1>4, SendStep
<1>6. /\ cl'[Config].pc = "wait" /\ cl'[Config].n = cl[Config].n + 1
      /\ cl'[Config].late = cl[Config].late /\ cl'[Config].call = call1
      /\ hist'.done = hist.done
  BY <1>1, <1>4, SendEffect, Zenon
<1>7. ASSUME cl[Config].late = 0, \A i \in 1..Len(Defaults) : Defaults[i].checked
      PROVE  \A i \in 1..cl[Config].n : <<Config, i>> \in hist.done
  <2>1. ASSUME cl[Config].n > 0
        PROVE  cl[Config].res.ret = "SUCCESS"
    <3>1. Defaults[cl[Config].n].checked
      BY <1>2, <1>7, <2>1, ServiceAssumption
    <3> QED BY <1>1, <1>2, <2>1, <3>1 DEF ConfigInv
  <2> QED BY <1>2, <1>7, <2>1, ConfigPerformed
<1>8. Returned(Config)' = cl[Config].n /\ Returned(Config) = cl[Config].n
  BY <1>2, <1>6 DEF Returned
<1>9. cl'[Config].late <= Cardinality(Unchecked(Returned(Config))) + 0
  BY <1>1, <1>2, <1>6 DEF ConfigInv
<1>10. cl'[Config].n <= Len(Defaults) /\ cl'[Config].n - 1 = cl[Config].n
  BY <1>2, <1>6, ServiceAssumption
<1>11. ConfigInv'
  BY <1>4, <1>6, <1>7, <1>8, <1>9, <1>10 DEF ConfigInv, Unchecked
<1> QED BY <1>5, <1>11 DEF ServiceInv

\* A call of the config thread returns, with a reply or without.
LEMMA ConfigReturnStep ==
    ASSUME ServiceInv, Receive(Config) \/ Timeout(Config)
    PROVE  ServiceInv'
<1> DEFINE me == cl[Config]
           late == IF Timeout(Config) THEN 1 ELSE 0
<1>1. Config \in Clients /\ Types /\ ConfigInv
  BY DEF Clients, ServiceInv
<1>2. me.pc = "wait" /\ hist' = hist /\ me.n \in Nat /\ me.late \in Nat
  BY <1>1 DEF Receive, Timeout, Types, ClientOf
<1>3. me.n > 0 /\ me.call.fn = "write" /\ me.n <= Len(Defaults)
  BY <1>1, <1>2 DEF ServiceInv, ClientInv, Asked, ConfigInv
<1>4. me.n \in 1..Len(Defaults) /\ Returned(Config) = me.n - 1
  BY <1>2, <1>3, ServiceAssumption DEF Returned
<1>5. /\ Types' /\ ClientInv'
      /\ cl'[Config].n = me.n
      /\ cl'[Config].pc = AfterCall(Config, cl'[Config].res.ret)
      /\ cl'[Config].res.n = me.n /\ cl'[Config].res.fn = "write"
  BY <1>1, <1>3, ReceiveStep, TimeoutStep
<1>6. cl'[Config].pc = IF cl'[Config].res.ret # "SUCCESS" /\ Defaults[me.n].checked
                       THEN "stop" ELSE "idle"
  BY <1>5 DEF AfterCall
<1>7. \/ cl'[Config].late = me.late
      \/ cl'[Config].late = me.late + 1 /\ cl'[Config].res.ret = "SERVER"
  BY <1>1, <1>3, ReceiveStep, TimeoutStep
<1>8. me.late <= Cardinality(Unchecked(me.n - 1))
  <2>1. me.late <= Cardinality(Unchecked(me.n - 1)) + 0
    BY <1>1, <1>2, <1>4 DEF ConfigInv
  <2> QED BY <1>2, <1>4, <2>1, UncheckedNext
<1>9. cl'[Config].late <= Cardinality(Unchecked(me.n)) + (IF cl'[Config].pc = "stop" THEN 1 ELSE 0)
  <2>1. /\ Cardinality(Unchecked(me.n - 1)) \in Nat
        /\ Cardinality(Unchecked(me.n)) =
             Cardinality(Unchecked(me.n - 1)) + (IF Defaults[me.n].checked THEN 0 ELSE 1)
    BY <1>4, UncheckedNext
  <2>2. CASE Defaults[me.n].checked
    BY <1>2, <1>6, <1>7, <1>8, <2>1, <2>2
  <2>3. CASE ~Defaults[me.n].checked
    BY <1>2, <1>6, <1>7, <1>8, <2>1, <2>3
  <2> QED BY <2>2, <2>3
<1>10. cl'[Config].late = 0 => me.late = 0
  BY <1>2, <1>7
<1>11. Returned(Config)' = me.n
  BY <1>5, <1>6 DEF Returned
<1>12. ConfigInv'
  BY <1>1, <1>2, <1>3, <1>5, <1>6, <1>9, <1>10, <1>11 DEF ConfigInv, Unchecked
<1> QED BY <1>5, <1>12 DEF ServiceInv

\* The config thread ends with CONFIG DONE, or for want of a client.
LEMMA ConfigEndStep ==
    ASSUME ServiceInv, ConfigDone \/ ConfigNoClient
    PROVE  ServiceInv'
<1>1. Config \in Clients /\ Types /\ ConfigInv /\ ClientInv
  BY DEF Clients, ServiceInv
<1>2. /\ cl' = [cl EXCEPT ![Config] = [cl[Config] EXCEPT !.pc = "done"]]
      /\ UNCHANGED <<smio, param, inbox, box, hist>>
      /\ cl[Config].pc \in {"stop", "idle"}
  BY DEF ConfigDone, ConfigNoClient
<1> DEFINE me == [cl[Config] EXCEPT !.pc = "done"]
<1>3. /\ me \in ClientOf /\ me.pc = "done" /\ me.n = cl[Config].n /\ me.late = cl[Config].late
      /\ me.res = cl[Config].res
  <2>1. cl[Config] \in ClientOf
    BY <1>1 DEF Types
  <2>2. "done" \in {"idle", "wait", "stop", "done"}
    OBVIOUS
  <2>3. me \in ClientOf
    BY <2>1, <2>2, ClientFields DEF ClientOf
  <2> QED BY <2>1, <2>3 DEF ClientOf
<1>4. cl \in [Clients -> ClientOf]
  BY <1>1 DEF Types
<1> HIDE DEF me
<1>5. cl' \in [Clients -> ClientOf] /\ cl'[Config] = me /\ \A d \in Clients \ {Config} : cl'[d] = cl[d]
  BY <1>1, <1>2, <1>3, <1>4 DEF me
<1>6. Types'
  BY <1>1, <1>2, <1>5 DEF Types
<1>7. ASSUME NEW d \in Clients \ {Config}
      PROVE  (Numbered(d) /\ Queued(d) /\ Truthful(d) /\ Asked(d)
              /\ Lag(d) /\ Success(d) /\ Current(d))'
  BY <1>1, <1>2, <1>5, ClientKept, InboxKept DEF ClientInv
<1>8. Returned(Config)' = Returned(Config)
  BY <1>2, <1>3, <1>5 DEF Returned
<1>9. (Numbered(Config) /\ Queued(Config) /\ Truthful(Config) /\ Asked(Config)
       /\ Lag(Config) /\ Success(Config) /\ Current(Config))'
  <2>1. Numbered(Config) /\ Queued(Config) /\ Truthful(Config) /\ Lag(Config)
        /\ Success(Config) /\ Current(Config)
    BY <1>1 DEF ClientInv
  <2>2. Numbered(Config)'
    BY <1>2, <1>3, <1>5, <1>8, <2>1, Zenon DEF Numbered, Answered, Taken
  <2>3. Queued(Config)'
    BY <1>2, <1>3, <1>5, <2>1 DEF Queued, Answered
  <2>4. Truthful(Config)' /\ Asked(Config)'
    BY <1>2, <1>3, <1>5, <2>1 DEF Truthful, Asked
  <2>5. Lag(Config)' /\ Success(Config)' /\ Current(Config)'
    BY <1>2, <1>3, <1>5, <2>1 DEF Lag, Success, Current
  <2> QED BY <2>2, <2>3, <2>4, <2>5
<1>10. ClientInv'
  BY <1>7, <1>9 DEF ClientInv, Clients
<1>11. ConfigInv'
  <2>1. cl[Config].late <= Cardinality(Unchecked(Returned(Config))) + 1
    <3>1. cl[Config].n \in Nat /\ Returned(Config) = cl[Config].n /\ cl[Config].late \in Nat
      BY <1>1, <1>2 DEF Types, ClientOf, Returned
    <3>2. Cardinality(Unchecked(Returned(Config))) \in Nat
      <4>1. IsFiniteSet(1..cl[Config].n)
        BY <3>1, 1 \in Int, cl[Config].n \in Int, FS_Interval
      <4>2. Unchecked(Returned(Config)) \subseteq 1..cl[Config].n
        BY <3>1 DEF Unchecked
      <4> QED BY <4>1, <4>2, FS_Subset, FS_CardinalityType, Zenon
    <3>3. cl[Config].late <= Cardinality(Unchecked(Returned(Config)))
              + (IF cl[Config].pc \in {"stop", "done"} THEN 1 ELSE 0)
      BY <1>1 DEF ConfigInv
    <3> QED BY <3>1, <3>2, <3>3
  <2> QED BY <1>1, <1>2, <1>3, <1>5, <1>8, <2>1 DEF ConfigInv, Unchecked
<1> QED BY <1>6, <1>10, <1>11 DEF ServiceInv

-----------------------------------------------------------------------------
(* The invariant.                                                           *)

\* The invariant holds at the start,
LEMMA InitService ==
    ASSUME Init
    PROVE  ServiceInv
<1>1. /\ inbox = <<>> /\ param = 0
      /\ \A c \in Clients : box[c] = <<>> /\ hist.answered[c] = <<>> /\ hist.seen[c] = {}
      /\ hist.done = {}
      /\ \A c \in Clients : /\ cl[c].pc = "idle" /\ cl[c].n = 0 /\ cl[c].late = 0
                            /\ cl[c].res = NoResult
  BY DEF Init
<1>2. NoResult.for = 0 /\ NoResult.ret = "none" /\ NoResult.fn = "none"
  BY DEF NoResult
<1>3. Types
  <2>1. "pc" \in DOMAIN smio
    BY DEF Init
  <2>2. box \in [Clients -> Seq(Reply)]
    BY DEF Init
  <2>3. cl \in [Clients -> ClientOf]
    <3>1. NoCall \in Call /\ NoResult \in Res
      BY DEF NoCall, Call, NoResult, Res
    <3> QED BY <3>1 DEF Init, ClientOf
  <2>4. hist \in [done : SUBSET (Clients \X (Nat \ {0})), answered : [Clients -> Seq(Nat)],
                  seen : [Clients -> SUBSET Int]]
    <3>1. [c \in Clients |-> <<>>] \in [Clients -> Seq(Nat)]
      OBVIOUS
    <3>2. [c \in Clients |-> {}] \in [Clients -> SUBSET Int]
      OBVIOUS
    <3> QED BY <3>1, <3>2 DEF Init
  <2>5. inbox \in Seq(Request) /\ param \in Int
    BY <1>1
  <2> QED BY <2>1, <2>2, <2>3, <2>4, <2>5 DEF Types
<1>4. ASSUME NEW c \in Clients
      PROVE  /\ Numbered(c) /\ Queued(c) /\ Truthful(c) /\ Asked(c)
             /\ Lag(c) /\ Success(c) /\ Current(c)
  <2>1. Len(inbox) = 0 /\ Len(box[c]) = 0 /\ Answered(c) = 0
    BY <1>1 DEF Answered
  <2>2. Numbered(c)
    BY <1>1, <2>1 DEF Numbered, Taken, Returned
  <2>3. Queued(c) /\ Truthful(c) /\ Asked(c)
    BY <1>1, <2>1 DEF Queued, Truthful, Asked
  <2>4. Lag(c) /\ Success(c) /\ Current(c)
    BY <1>1, <1>2 DEF Lag, Success, Current
  <2> QED BY <2>2, <2>3, <2>4
<1>5. ConfigInv
  <2>1. cl[Config].pc = "idle" /\ cl[Config].n = 0 /\ cl[Config].late = 0
    BY <1>1 DEF Clients
  <2>2. Unchecked(Returned(Config)) = {}
    BY <2>1 DEF Unchecked, Returned
  <2>3. Cardinality(Unchecked(Returned(Config))) = 0
    BY <2>2, FS_EmptySet
  <2>4. Len(Defaults) \in Nat
    BY ServiceAssumption
  <2> QED BY <2>1, <2>3, <2>4 DEF ConfigInv
<1> QED BY <1>3, <1>4, <1>5 DEF ServiceInv, ClientInv

(* A step of a user leaves the config thread alone. *)
LEMMA UserStepKeeps ==
    ASSUME ServiceInv, NEW c \in Users, UserStep(c)
    PROVE  ServiceInv'
<1>1. c \in Clients /\ Config \in Clients \ {c}
  BY ServiceAssumption DEF Clients, Config
<1>2. Types /\ ConfigInv
  BY DEF ServiceInv
<1>3. ASSUME NEW call \in UserCalls, UserSend(c, call)
      PROVE  ServiceInv'
  <2>1. call \in Call /\ call.fn # "none"
    BY ServiceAssumption DEF Call
  <2>2. cl[c].pc = "idle" /\ Send(c, call)
    BY <1>3 DEF UserSend
  <2>3. Types' /\ ClientInv'
    BY <1>1, <2>1, <2>2, SendStep
  <2>4. cl'[Config] = cl[Config] /\ hist'.done = hist.done
    BY <1>1, <1>2, <2>1, <2>2, SendEffect, Zenon
  <2> QED BY <1>2, <2>3, <2>4, ConfigKept DEF ServiceInv
<1>4. CASE Receive(c)
  <2>1. Types' /\ ClientInv' /\ cl'[Config] = cl[Config]
    BY <1>1, <1>4, ReceiveStep
  <2>2. hist'.done = hist.done
    BY <1>4 DEF Receive
  <2> QED BY <1>2, <2>1, <2>2, ConfigKept DEF ServiceInv
<1>5. CASE Timeout(c)
  <2>1. Types' /\ ClientInv' /\ cl'[Config] = cl[Config]
    BY <1>1, <1>5, TimeoutStep
  <2>2. hist'.done = hist.done
    BY <1>5 DEF Timeout
  <2> QED BY <1>2, <2>1, <2>2, ConfigKept DEF ServiceInv
<1> QED BY <1>3, <1>4, <1>5 DEF UserStep

\* and every step keeps it.
LEMMA NextService ==
    ASSUME ServiceInv, [Next]_vars
    PROVE  ServiceInv'
<1>1. CASE SmioStep \/ SendTerm
  BY <1>1, ThreadStep, ServeStep DEF SmioStep
<1>2. CASE ConfigStep
  BY <1>2, ConfigSendStep, ConfigReturnStep, ConfigEndStep DEF ConfigStep
<1>3. CASE \E c \in Users : UserStep(c)
  BY <1>3, UserStepKeeps
<1>4. CASE UNCHANGED vars
  <2>1. Types'
    BY <1>4 DEF vars, ServiceInv, Types
  <2>2. ClientInv'
    <3> SUFFICES ASSUME NEW c \in Clients
                 PROVE  (Numbered(c) /\ Queued(c) /\ Truthful(c) /\ Asked(c)
                         /\ Lag(c) /\ Success(c) /\ Current(c))'
      BY DEF ClientInv, Clients
    <3> QED BY <1>4, ClientKept, InboxKept DEF vars, ServiceInv, ClientInv
  <2>3. ConfigInv'
    BY <1>4, ConfigKept DEF vars, ServiceInv
  <2> QED BY <2>1, <2>2, <2>3 DEF ServiceInv
<1> QED BY <1>1, <1>2, <1>3, <1>4 DEF Next

(* The invariant of the protocol between an SMIO and its clients. *)
THEOREM ServiceInvariance == FairSpec => []ServiceInv
<1>1. Init => ServiceInv
  BY InitService
<1>2. ServiceInv /\ [Next]_vars => ServiceInv'
  BY NextService
<1> QED BY <1>1, <1>2, PTL DEF FairSpec

(* The reply that a client takes answers an earlier request of its by at    *)
(* most as many requests as it has timed out on (param_client_recv_timeout),*)
(* for any number of clients, calls and timeouts.                           *)
THEOREM LagBounded == FairSpec => []LagWithinTimeouts
<1>1. ServiceInv => LagWithinTimeouts
  BY DEF ServiceInv, ClientInv, Lag, LagWithinTimeouts
<1> QED BY <1>1, ServiceInvariance, PTL

(* A client that never timed out reads a value that the parameter had       *)
(* during the call.                                                         *)
THEOREM ReadsCurrent == FairSpec => []ReadIsCurrent
<1>1. ServiceInv => ReadIsCurrent
  BY DEF ServiceInv, ClientInv, Current, ReadIsCurrent
<1> QED BY <1>1, ServiceInvariance, PTL

(* A call that reports success rests on a request that was performed, but   *)
(* for a bpm_func_exec that nobody answered.                                *)
THEOREM SuccessPerformed == FairSpec => []SuccessMeansPerformed
<1>1. ServiceInv => SuccessMeansPerformed
  BY DEF ServiceInv, ClientInv, Success, SuccessMeansPerformed
<1> QED BY <1>1, ServiceInvariance, PTL

(* While the SMIO lives, every request is answered exactly once and in the  *)
(* order of its client.                                                     *)
THEOREM EveryRequestAnsweredOnce == FairSpec => []AnsweredOnce
<1>1. ServiceInv => AnsweredOnce
  <2> SUFFICES ASSUME ServiceInv, NEW c \in Clients, smio.pc # "done"
               PROVE  LET answered == hist.answered[c]
                          waiting == {i \in DOMAIN inbox : inbox[i].from = c}
                      IN  /\ \A k \in DOMAIN answered : answered[k] = k
                          /\ Len(answered) <= cl[c].n
                          /\ {inbox[i].n : i \in waiting} = (Len(answered) + 1)..cl[c].n
                          /\ \A i, j \in waiting : i < j => inbox[i].n < inbox[j].n
    BY DEF AnsweredOnce
  <2>1. Numbered(c) /\ Queued(c) /\ inbox \in Seq(Request) /\ hist.answered[c] \in Seq(Nat)
    BY DEF ServiceInv, ClientInv, Types
  <2>2. DOMAIN inbox = 1..Len(inbox) /\ DOMAIN hist.answered[c] = 1..Len(hist.answered[c])
    BY <2>1
  <2>3. /\ \A k \in DOMAIN hist.answered[c] : hist.answered[c][k] = k
        /\ Len(hist.answered[c]) <= cl[c].n
    BY <2>1, <2>2 DEF Numbered, Answered
  <2>4. {inbox[i].n : i \in {i \in DOMAIN inbox : inbox[i].from = c}}
          = (Len(hist.answered[c]) + 1)..cl[c].n
    BY <2>1, <2>2 DEF Queued, Answered
  <2>5. \A i, j \in {i \in DOMAIN inbox : inbox[i].from = c} : i < j => inbox[i].n < inbox[j].n
    BY <2>1, <2>2 DEF Queued
  <2> QED BY <2>3, <2>4, <2>5
<1> QED BY <1>1, ServiceInvariance, PTL

(* What CONFIG DONE says of the default values: those still on their way    *)
(* are at most as many as the config thread timed out on, which are at most *)
(* one more than the calls whose error it drops; with no timeout and no     *)
(* error all of them were performed.                                        *)
THEOREM DefaultsMayBeLate == FairSpec => []LateDefaults
<1>1. ServiceInv => LateDefaults
  <2> SUFFICES ASSUME ServiceInv, cl[Config].pc = "done"
               PROVE  LateDefaults
    BY DEF LateDefaults
  <2> DEFINE me == cl[Config]
             Q == {i \in DOMAIN inbox : inbox[i].from = Config}
             T == (Answered(Config) + 1)..me.n
             U == {i \in DOMAIN Defaults : ~Defaults[i].checked}
  <2>1. /\ Config \in Clients /\ Numbered(Config) /\ Queued(Config) /\ ConfigInv
        /\ inbox \in Seq(Request) /\ me.n \in Nat /\ me.late \in Nat
        /\ Answered(Config) \in Nat /\ Len(box[Config]) \in Nat
    BY DEF Clients, ServiceInv, ClientInv, Types, ClientOf, Answered
  <2>2. Len(Defaults) \in Nat /\ DOMAIN Defaults = 1..Len(Defaults) /\ DOMAIN inbox = 1..Len(inbox)
    BY <2>1, ServiceAssumption
  <2>3. Returned(Config) = me.n
    BY DEF Returned
  <2>4. Cardinality(Q) <= me.late
    <3>1. [i \in Q |-> inbox[i].n] \in Injection(Q, T)
      <4>1. [i \in Q |-> inbox[i].n] \in [Q -> T]
        BY <2>1, <2>2 DEF Queued
      <4>2. \A i, j \in Q : inbox[i].n = inbox[j].n => i = j
        <5> SUFFICES ASSUME NEW i \in Q, NEW j \in Q, i < j
                     PROVE  inbox[i].n # inbox[j].n
          BY <2>2
        <5>1. inbox[i].n < inbox[j].n /\ inbox[i].n \in T /\ inbox[j].n \in T
          BY <2>1, <2>2 DEF Queued
        <5> QED BY <2>1, <5>1
      <4> QED BY <4>1, <4>2 DEF Injection, IsInjective
    <3>2. IsFiniteSet(T) /\ Cardinality(T) = me.n - Answered(Config)
      <4>1. Answered(Config) + 1 \in Int /\ me.n \in Int /\ Answered(Config) <= me.n
        BY <2>1 DEF Numbered
      <4>2. /\ IsFiniteSet((Answered(Config) + 1)..me.n)
            /\ Cardinality((Answered(Config) + 1)..me.n) =
                 IF Answered(Config) + 1 > me.n THEN 0 ELSE me.n - (Answered(Config) + 1) + 1
        BY <4>1, FS_Interval
      <4> HIDE DEF me
      <4> QED BY <2>1, <4>1, <4>2
    <3>3. Cardinality(Q) <= Cardinality(T) /\ IsFiniteSet(Q)
      BY <3>1, <3>2, FS_Injection
    <3>4. Cardinality(Q) \in Nat
      BY <3>3, FS_CardinalityType
    <3>5. me.n - Answered(Config) <= me.late
      BY <2>1, <2>3 DEF Numbered, Taken
    <3> HIDE DEF Q, T, me
    <3> QED BY <2>1, <3>2, <3>3, <3>4, <3>5
  <2>5. me.late <= Cardinality(U) + 1
    <3>1. me.late <= Cardinality(Unchecked(me.n)) + 1
      BY <2>1, <2>3 DEF ConfigInv
    <3>2. Unchecked(me.n) \subseteq U
      BY <2>1, <2>2 DEF Unchecked, ConfigInv
    <3>3. IsFiniteSet(U)
      <4>1. IsFiniteSet(1..Len(Defaults))
        BY <2>2, 1 \in Int, Len(Defaults) \in Int, FS_Interval
      <4> QED BY <2>2, <4>1, FS_Subset
    <3>4. /\ Cardinality(Unchecked(me.n)) <= Cardinality(U) /\ Cardinality(U) \in Nat
          /\ Cardinality(Unchecked(me.n)) \in Nat
      BY <3>2, <3>3, FS_Subset, FS_CardinalityType
    <3> HIDE DEF U, me
    <3> QED BY <2>1, <3>1, <3>4
  <2>6. ASSUME me.n = Len(Defaults), me.late = 0, \A i \in DOMAIN Defaults : Defaults[i].checked,
               me.res.ret = "SUCCESS"
        PROVE  \A i \in DOMAIN Defaults : <<Config, i>> \in hist.done
    BY <2>2, <2>6, ConfigPerformed
  <2> QED BY <2>4, <2>5, <2>6 DEF LateDefaults
<1> QED BY <1>1, ServiceInvariance, PTL
=============================================================================
