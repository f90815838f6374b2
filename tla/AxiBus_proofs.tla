---------------------------- MODULE AxiBus_proofs ----------------------------
(***************************************************************************)
(* Proofs about AxiBus for every number of masters and slaves: the         *)
(* crossbar's registers keep their types, its master side and slave side   *)
(* always agree on who is connected to whom, and the whole interconnect    *)
(* implements AtomicPort.                                                  *)
(***************************************************************************)
EXTENDS AxiBus, Integers, TLAPS

(* Masters and slaves are numbered with naturals, and 0 is one of each. *)
LEMMA Numbers == /\ Masters \subseteq Nat /\ Slaves \subseteq Nat
                 /\ 0 \in Masters /\ 0 \in Slaves
BY BusAssumption DEF Masters, Slaves

(* The only master of a singleton is its last one. *)
LEMMA LastOfOne ==
  ASSUME NEW m \in Masters
  PROVE  LastOf({m}) = m
BY Numbers DEF LastOf

(* The round robin stays among the masters. *)
LEMMA RoundRobinInRange ==
  ASSUME NEW c \in Channels, rr[c] \in Masters
  PROVE  roundRobin(c) \in Masters
BY BusAssumption DEF roundRobin, Masters

-----------------------------------------------------------------------------
(* arbitrate: one slave is granted to at most one master, and one master   *)
(* gets at most one slave; neither was connected.                          *)

LEMMA OneMasterPerSlave ==
  ASSUME CtrlTypeOK, NEW c \in Channels, NEW s \in Slaves,
         NEW m \in Masters, NEW k \in Masters,
         granted(c, m, s), granted(c, k, s)
  PROVE  m = k
<1>1. rr[c] \in Nat /\ m \in Nat /\ k \in Nat
  BY Numbers DEF CtrlTypeOK
<1>2. before(c, m, k) /\ before(c, k, m)
  BY DEF granted
<1> QED
  BY <1>1, <1>2 DEF before

LEMMA OneSlavePerMaster ==
  ASSUME NEW c \in Channels, NEW m \in Masters, NEW s \in Slaves, NEW t \in Slaves,
         granted(c, m, s), granted(c, m, t)
  PROVE  s = t
BY DEF granted, requested

LEMMA GrantedWereFree ==
  ASSUME NEW c \in Channels, NEW m \in Masters, NEW s \in Slaves,
         granted(c, m, s)
  PROVE  ~mstat[c][m].active /\ ~sstat[c][s].active
BY DEF granted, requested

(* A release concerns a slave that names the releasing master. *)
LEMMA ReleasedWereMatched ==
  ASSUME GrantConsistent, NEW c \in Channels, NEW m \in Masters, NEW s \in Slaves,
         released(c, m, s)
  PROVE  /\ mstat[c][m].active /\ mstat[c][m].slaveID = s
         /\ sstat[c][s] = [masterID |-> m, active |-> TRUE]
         /\ sstat[c][s].active
<1>1. mstat[c][m].active /\ mstat[c][m].slaveID = s
  BY DEF released
<1>2. sstat[c][s] = [masterID |-> m, active |-> TRUE]
  BY <1>1 DEF GrantConsistent, GrantsMatch
<1>3. [masterID |-> m, active |-> TRUE].active
  BY Zenon
<1> QED
  BY <1>1, <1>2, <1>3, Zenon

-----------------------------------------------------------------------------
(* What updateMRStat and updateMWStat do to one slave and to one master.   *)

LEMMA SlaveGranted ==
  ASSUME CtrlTypeOK, GrantConsistent,
         NEW c \in Channels, NEW m \in Masters, NEW s \in Slaves, granted(c, m, s)
  PROVE  updateSStat(c)[s] = [masterID |-> m, active |-> TRUE]
<1> DEFINE grants == {k \in Masters : granted(c, k, s)}
           all == grants \union {k \in Masters : released(c, k, s)}
<1>1. grants = {m}
  <2>1. \A k \in Masters : granted(c, k, s) => k = m
    BY OneMasterPerSlave
  <2> QED
    BY <2>1
<1>2. \A k \in Masters : ~released(c, k, s)
  <2>1. ~sstat[c][s].active
    BY GrantedWereFree
  <2> QED
    BY <2>1, ReleasedWereMatched
<1>3. all = {m}
  BY <1>1, <1>2
<1> HIDE DEF grants, all
<1>4. LastOf(grants) = m /\ LastOf(all) = m
  BY <1>1, <1>3, LastOfOne
<1>5. updateSStat(c)[s]
        = [masterID |-> IF grants = {} THEN 0 ELSE LastOf(grants),
           active |-> LastOf(all) \in grants]
  <2>1. all # {}
    BY <1>3
  <2> QED
    BY <2>1 DEF updateSStat, grants, all
<1> QED
  BY <1>1, <1>3, <1>4, <1>5

LEMMA SlaveReleased ==
  ASSUME CtrlTypeOK, GrantConsistent,
         NEW c \in Channels, NEW m \in Masters, NEW s \in Slaves, released(c, m, s)
  PROVE  updateSStat(c)[s] = [masterID |-> 0, active |-> FALSE]
<1> DEFINE grants == {k \in Masters : granted(c, k, s)}
           all == grants \union {k \in Masters : released(c, k, s)}
<1>1. grants = {}
  <2>1. sstat[c][s].active
    BY ReleasedWereMatched
  <2>2. \A k \in Masters : ~granted(c, k, s)
    BY <2>1, GrantedWereFree
  <2> QED
    BY <2>2
<1>2. all # {}
  OBVIOUS
<1>3. updateSStat(c)[s]
        = [masterID |-> IF grants = {} THEN 0 ELSE LastOf(grants),
           active |-> LastOf(all) \in grants]
  BY <1>2 DEF updateSStat
<1>4. (LastOf(all) \in grants) = FALSE
  BY <1>1
<1> HIDE DEF grants, all
<1> QED
  BY <1>1, <1>3, <1>4, Zenon

LEMMA SlaveUntouched ==
  ASSUME NEW c \in Channels, NEW s \in Slaves,
         \A m \in Masters : ~granted(c, m, s) /\ ~released(c, m, s)
  PROVE  updateSStat(c)[s] = sstat[c][s]
BY DEF updateSStat

LEMMA MasterGranted ==
  ASSUME NEW c \in Channels, NEW m \in Masters, NEW s \in Slaves, granted(c, m, s)
  PROVE  updateMStat(c)[m] = [slaveID |-> s, active |-> TRUE]
<1>1. (CHOOSE t \in Slaves : granted(c, m, t)) = s
  BY OneSlavePerMaster
<1> QED
  BY <1>1 DEF updateMStat

LEMMA MasterReleased ==
  ASSUME NEW c \in Channels, NEW m \in Masters, NEW s \in Slaves, released(c, m, s)
  PROVE  updateMStat(c)[m] = [slaveID |-> 0, active |-> FALSE]
<1>1. \A t \in Slaves : ~granted(c, m, t)
  BY GrantedWereFree DEF released
<1> QED
  BY <1>1 DEF updateMStat

LEMMA MasterUntouched ==
  ASSUME NEW c \in Channels, NEW m \in Masters,
         \A s \in Slaves : ~granted(c, m, s) /\ ~released(c, m, s)
  PROVE  updateMStat(c)[m] = mstat[c][m]
BY DEF updateMStat

-----------------------------------------------------------------------------
(* The types of the crossbar's registers, and the agreement of its sides.  *)

LEMMA ConnectKeepsCtrlType ==
  ASSUME CtrlTypeOK, GrantConsistent, connectChannel
  PROVE  CtrlTypeOK'
<1>1. ASSUME NEW c \in Channels, NEW m \in Masters
      PROVE  updateMStat(c)[m] \in [slaveID : Slaves, active : BOOLEAN]
  <2>1. ASSUME NEW s \in Slaves, granted(c, m, s)
        PROVE  updateMStat(c)[m] \in [slaveID : Slaves, active : BOOLEAN]
    <3>1. updateMStat(c)[m] = [slaveID |-> s, active |-> TRUE]
      BY <2>1, MasterGranted
    <3> QED
      BY <3>1
  <2>2. ASSUME NEW s \in Slaves, released(c, m, s)
        PROVE  updateMStat(c)[m] \in [slaveID : Slaves, active : BOOLEAN]
    <3>1. updateMStat(c)[m] = [slaveID |-> 0, active |-> FALSE]
      BY <2>2, MasterReleased
    <3> QED
      BY <3>1, Numbers
  <2>3. CASE \A s \in Slaves : ~granted(c, m, s) /\ ~released(c, m, s)
    <3>1. updateMStat(c)[m] = mstat[c][m]
      BY <2>3, MasterUntouched
    <3> QED
      BY <3>1 DEF CtrlTypeOK
  <2> QED
    BY <2>1, <2>2, <2>3
<1>2. ASSUME NEW c \in Channels, NEW s \in Slaves
      PROVE  updateSStat(c)[s] \in [masterID : Masters, active : BOOLEAN]
  <2>1. ASSUME NEW m \in Masters, granted(c, m, s)
        PROVE  updateSStat(c)[s] \in [masterID : Masters, active : BOOLEAN]
    <3>1. updateSStat(c)[s] = [masterID |-> m, active |-> TRUE]
      BY <2>1, SlaveGranted
    <3> QED
      BY <3>1
  <2>2. ASSUME NEW m \in Masters, released(c, m, s)
        PROVE  updateSStat(c)[s] \in [masterID : Masters, active : BOOLEAN]
    <3>1. updateSStat(c)[s] = [masterID |-> 0, active |-> FALSE]
      BY <2>2, SlaveReleased
    <3> QED
      BY <3>1, Numbers
  <2>3. CASE \A m \in Masters : ~granted(c, m, s) /\ ~released(c, m, s)
    <3>1. updateSStat(c)[s] = sstat[c][s]
      BY <2>3, SlaveUntouched
    <3> QED
      BY <3>1 DEF CtrlTypeOK
  <2> QED
    BY <2>1, <2>2, <2>3
<1>3. \A c \in Channels : updateMStat(c) \in [Masters -> [slaveID : Slaves, active : BOOLEAN]]
  BY <1>1 DEF updateMStat
<1>4. \A c \in Channels : updateSStat(c) \in [Slaves -> [masterID : Masters, active : BOOLEAN]]
  BY <1>2 DEF updateSStat
<1>5. rr' \in [Channels -> Masters]
  <2>1. \A c \in Channels : rr[c] \in Masters /\ roundRobin(c) \in Masters
    BY RoundRobinInRange DEF CtrlTypeOK
  <2> QED
    BY <2>1 DEF connectChannel
<1>6. mstat' \in [Channels -> [Masters -> [slaveID : Slaves, active : BOOLEAN]]]
  BY <1>3 DEF connectChannel
<1>7. sstat' \in [Channels -> [Slaves -> [masterID : Masters, active : BOOLEAN]]]
  BY <1>4 DEF connectChannel
<1> QED
  BY <1>5, <1>6, <1>7 DEF CtrlTypeOK

LEMMA ConnectKeepsMatch ==
  ASSUME CtrlTypeOK, GrantConsistent, connectChannel
  PROVE  GrantConsistent'
<1> SUFFICES ASSUME NEW c \in Channels
             PROVE  GrantsMatch(c)'
  BY DEF GrantConsistent
<1>1. mstat'[c] = updateMStat(c) /\ sstat'[c] = updateSStat(c)
  BY DEF connectChannel
<1>2. ASSUME NEW m \in Masters, mstat'[c][m].active
      PROVE  sstat'[c][mstat'[c][m].slaveID] = [masterID |-> m, active |-> TRUE]
  <2>1. ASSUME NEW s \in Slaves, granted(c, m, s)
        PROVE  sstat'[c][mstat'[c][m].slaveID] = [masterID |-> m, active |-> TRUE]
    <3>1. updateMStat(c)[m] = [slaveID |-> s, active |-> TRUE]
      BY <2>1, MasterGranted
    <3>2. updateSStat(c)[s] = [masterID |-> m, active |-> TRUE]
      BY <2>1, SlaveGranted
    <3> QED
      BY <1>1, <3>1, <3>2
  <2>2. \A s \in Slaves : ~released(c, m, s)
    <3> SUFFICES ASSUME NEW s \in Slaves, released(c, m, s)
                 PROVE  FALSE
      OBVIOUS
    <3>1. mstat'[c][m] = [slaveID |-> 0, active |-> FALSE]
      BY <1>1, MasterReleased
    <3> QED
      BY <1>2, <3>1
  <2>3. CASE \A s \in Slaves : ~granted(c, m, s)
    <3> DEFINE s == mstat[c][m].slaveID
    <3>1. mstat'[c][m] = mstat[c][m]
      BY <1>1, <2>2, <2>3, MasterUntouched
    <3>2. mstat[c][m].active
      BY <1>2, <3>1
    <3>3. s \in Slaves
      BY DEF CtrlTypeOK
    <3>4. sstat[c][s] = [masterID |-> m, active |-> TRUE] /\ sstat[c][s].active
      <4>1. sstat[c][s] = [masterID |-> m, active |-> TRUE]
        BY <3>2 DEF GrantConsistent, GrantsMatch
      <4>2. [masterID |-> m, active |-> TRUE].active
        BY Zenon
      <4> QED
        BY <4>1, <4>2, Zenon
    <3> HIDE DEF s
    <3>5. \A k \in Masters : ~granted(c, k, s)
      BY <3>3, <3>4, GrantedWereFree
    <3>6. \A k \in Masters : ~released(c, k, s)
      <4> SUFFICES ASSUME NEW k \in Masters, released(c, k, s)
                   PROVE  FALSE
        OBVIOUS
      <4>1. sstat[c][s] = [masterID |-> k, active |-> TRUE]
        BY <3>3, ReleasedWereMatched
      <4>2. k = m
        BY <3>4, <4>1
      <4> QED
        BY <2>2, <3>3, <4>2
    <3>7. sstat'[c][s] = sstat[c][s]
      BY <1>1, <3>3, <3>5, <3>6, SlaveUntouched
    <3> QED
      BY <3>1, <3>4, <3>7 DEF s
  <2> QED
    BY <2>1, <2>3
<1>3. ASSUME NEW s \in Slaves, sstat'[c][s].active
      PROVE  mstat'[c][sstat'[c][s].masterID] = [slaveID |-> s, active |-> TRUE]
  <2>1. ASSUME NEW m \in Masters, granted(c, m, s)
        PROVE  mstat'[c][sstat'[c][s].masterID] = [slaveID |-> s, active |-> TRUE]
    <3>1. updateMStat(c)[m] = [slaveID |-> s, active |-> TRUE]
      BY <2>1, MasterGranted
    <3>2. updateSStat(c)[s] = [masterID |-> m, active |-> TRUE]
      BY <2>1, SlaveGranted
    <3> QED
      BY <1>1, <3>1, <3>2
  <2>2. \A m \in Masters : ~released(c, m, s)
    <3> SUFFICES ASSUME NEW m \in Masters, released(c, m, s)
                 PROVE  FALSE
      OBVIOUS
    <3>1. sstat'[c][s] = [masterID |-> 0, active |-> FALSE]
      BY <1>1, SlaveReleased
    <3> QED
      BY <1>3, <3>1
  <2>3. CASE \A m \in Masters : ~granted(c, m, s)
    <3> DEFINE m == sstat[c][s].masterID
    <3>1. sstat'[c][s] = sstat[c][s]
      BY <1>1, <2>2, <2>3, SlaveUntouched
    <3>2. sstat[c][s].active
      BY <1>3, <3>1
    <3>3. m \in Masters
      BY DEF CtrlTypeOK
    <3>4. mstat[c][m] = [slaveID |-> s, active |-> TRUE] /\ mstat[c][m].active
      <4>1. mstat[c][m] = [slaveID |-> s, active |-> TRUE]
        BY <3>2 DEF GrantConsistent, GrantsMatch
      <4>2. [slaveID |-> s, active |-> TRUE].active
        BY Zenon
      <4> QED
        BY <4>1, <4>2, Zenon
    <3> HIDE DEF m
    <3>5. \A t \in Slaves : ~granted(c, m, t)
      BY <3>3, <3>4, GrantedWereFree
    <3>6. \A t \in Slaves : ~released(c, m, t)
      <4> SUFFICES ASSUME NEW t \in Slaves, released(c, m, t)
                   PROVE  FALSE
        OBVIOUS
      <4>1. t = s
        BY <3>4 DEF released
      <4> QED
        BY <2>2, <3>3, <4>1
    <3>7. mstat'[c][m] = mstat[c][m]
      BY <1>1, <3>3, <3>5, <3>6, MasterUntouched
    <3> QED
      BY <3>1, <3>4, <3>7 DEF m
  <2> QED
    BY <2>1, <2>3
<1> QED
  BY <1>2, <1>3 DEF GrantsMatch

(* Only connectChannel writes the crossbar's registers. *)
LEMMA OtherStepsKeepCtrl ==
  ASSUME [Next]_vars, ~connectChannel
  PROVE  UNCHANGED <<mstat, sstat, rr>>
BY DEF Next, SlaveStep, MasterStep, vars, ctrlVars

(* The crossbar's two tables agree in every reachable state, for every     *)
(* number of masters and slaves: no slave is ever shared by two masters.   *)
THEOREM GrantsAlwaysConsistent == Spec => [](CtrlTypeOK /\ GrantConsistent)
<1>1. Init => CtrlTypeOK /\ GrantConsistent
  BY Numbers DEF Init, CtrlTypeOK, GrantConsistent, GrantsMatch
<1>2. CtrlTypeOK /\ GrantConsistent /\ [Next]_vars => (CtrlTypeOK /\ GrantConsistent)'
  <2> SUFFICES ASSUME CtrlTypeOK, GrantConsistent, [Next]_vars
               PROVE  (CtrlTypeOK /\ GrantConsistent)'
    OBVIOUS
  <2>1. CASE connectChannel
    BY <2>1, ConnectKeepsCtrlType, ConnectKeepsMatch
  <2>2. CASE ~connectChannel
    <3>1. mstat' = mstat /\ sstat' = sstat /\ rr' = rr
      BY <2>2, OtherStepsKeepCtrl
    <3> QED
      BY <3>1 DEF CtrlTypeOK, GrantConsistent, GrantsMatch
  <2> QED
    BY <2>1, <2>2
<1> QED
  BY <1>1, <1>2, PTL DEF Spec

-----------------------------------------------------------------------------
(* Every register and wire of the bus, one call of the cycle at a time.    *)

RTypes == [state : {"R_Init", "R_Addr", "R_End"}, raddr : Addr,
           raddr_end : BOOLEAN, burst_end_r : BOOLEAN,
           ready : BOOLEAN, rdat : Data \union {None}]
WTypes == [state : {"W_Init", "W_AddrData", "W_End"}, waddr : Addr,
           waddr_end : BOOLEAN, wres_end : BOOLEAN,
           ready : BOOLEAN, wdat : BOOLEAN, wres : BOOLEAN]
Handshakes == {"raddr", "rdat", "waddr", "wdat", "wres"}

LEMMA TurnInRange ==
  ASSUME turn \in 0 .. SC + MC, NextTurn
  PROVE  turn' \in 0 .. SC + MC
BY BusAssumption, SMT DEF NextTurn

LEMMA InitialWires ==
  /\ resetMA \in MAWires /\ resetSL \in SLWires
  /\ rInit \in RTypes /\ wInit \in WTypes
BY Numbers DEF resetMA, MAWires, resetSL, SLWires, rInit, RTypes, wInit, WTypes, Addr

(* The slave's read half and its write half. *)
LEMMA ReadHalfTyped ==
  ASSUME TypeOK, NEW s \in Slaves, NEW d \in Data \union {None}, fsmRead(s, d)
  PROVE  /\ r' \in [Slaves -> RTypes]
         /\ rdriven' \in [Slaves -> [ready : BOOLEAN, rdat : Data \union {None}]]
<1>1. r \in [Slaves -> RTypes] /\ r[s] \in RTypes /\ sch[s] \in MAWires
  BY DEF TypeOK, RTypes
<1>2. rdriven' \in [Slaves -> [ready : BOOLEAN, rdat : Data \union {None}]]
  BY <1>1 DEF fsmRead, TypeOK, RTypes
<1> SUFFICES r' \in [Slaves -> RTypes]
  BY <1>2
<1>3. CASE R_Init(s)
  <2>1. CASE sch[s].raddr = None
    BY <1>1, <1>3, <2>1 DEF R_Init
  <2>2. CASE sch[s].raddr # None
    <3>1. sch[s].raddr \in Addr
      BY <1>1, <2>2 DEF MAWires
    <3>2. r' = [r EXCEPT ![s].state = "R_Addr", ![s].raddr = sch[s].raddr,
                         ![s].raddr_end = FALSE, ![s].burst_end_r = FALSE,
                         ![s].ready = TRUE]
      BY <1>3, <2>2 DEF R_Init
    <3> QED
      BY <1>1, <3>1, <3>2 DEF RTypes
  <2> QED
    BY <2>1, <2>2
<1>4. CASE R_Addr(s, d)
  <2> DEFINE answer == IF Held(s) THEN r[s].rdat ELSE d
  <2>1. answer \in Data \union {None}
    BY <1>1 DEF RTypes
  <2>2. r' = [r EXCEPT ![s].ready = FALSE,
                       ![s].raddr_end = @ \/ sch[s].raddr = None,
                       ![s].rdat = IF answer # None THEN answer ELSE @,
                       ![s].burst_end_r = @ \/ answer # None,
                       ![s].state = IF answer # None /\ sch[s].rready
                                    THEN "R_End" ELSE @]
    BY <1>4 DEF R_Addr
  <2> HIDE DEF answer
  <2> DEFINE rec == [r[s] EXCEPT !.ready = FALSE,
                                 !.raddr_end = @ \/ sch[s].raddr = None,
                                 !.rdat = IF answer # None THEN answer ELSE @,
                                 !.burst_end_r = @ \/ answer # None,
                                 !.state = IF answer # None /\ sch[s].rready
                                           THEN "R_End" ELSE @]
  <2>3. rec \in RTypes
    BY <1>1, <2>1 DEF RTypes
  <2>4. r' = [r EXCEPT ![s] = rec]
    BY <1>1, <2>2 DEF RTypes
  <2> QED
    BY <1>1, <2>3, <2>4
<1>5. CASE R_End(s)
  <2>1. [r[s] EXCEPT !.rdat = None] \in RTypes
    BY <1>1 DEF RTypes
  <2>2. r' = [r EXCEPT ![s] = IF r[s].raddr_end \/ sch[s].raddr = None THEN rInit
                              ELSE [r[s] EXCEPT !.rdat = None]]
    BY <1>1, <1>5 DEF R_End
  <2> QED
    BY <1>1, <2>1, <2>2, InitialWires
<1> QED
  BY <1>2, <1>3, <1>4, <1>5 DEF fsmRead

LEMMA WriteHalfTyped ==
  ASSUME TypeOK, NEW s \in Slaves, NEW take \in BOOLEAN, fsmWrite(s, take)
  PROVE  w' \in [Slaves -> WTypes]
<1>1. w \in [Slaves -> WTypes] /\ w[s] \in WTypes /\ sch[s] \in MAWires
  BY DEF TypeOK, WTypes
<1>2. CASE W_Init(s)
  BY <1>1, <1>2 DEF W_Init, WTypes, MAWires
<1>3. CASE W_AddrData(s, take)
  <2>1. writesNow(s, take) \in BOOLEAN
    BY DEF writesNow
  <2> DEFINE rec == [w[s] EXCEPT !.ready = FALSE,
                                 !.waddr_end = @ \/ sch[s].waddr = None,
                                 !.wres_end = @ /\ ~writesNow(s, take),
                                 !.wdat = @ \/ writesNow(s, take),
                                 !.wres = @ \/ writesNow(s, take),
                                 !.state = IF writesNow(s, take) THEN "W_End" ELSE @]
  <2>2. rec \in WTypes
    BY <1>1, <2>1 DEF WTypes
  <2>3. w' = [w EXCEPT ![s] = rec]
    BY <1>1, <1>3 DEF W_AddrData, WTypes
  <2> QED
    BY <1>1, <2>2, <2>3
<1>4. CASE W_End(s)
  BY <1>1, <1>4, InitialWires DEF W_End, WTypes, MAWires
<1> QED
  BY <1>2, <1>3, <1>4 DEF fsmWrite

(* The master. *)
LEMMA StartTyped ==
  ASSUME TypeOK, NEW m \in Masters, NEW q \in Requests, StartRead(m, q) \/ StartWrite(m, q)
  PROVE  /\ req' \in [Masters -> Requests \union {None}]
         /\ rw_state' \in [Masters -> {"RW_Init", "RW_RAddr", "RW_WAddr"}]
         /\ in' \in [Masters -> SUBSET Handshakes]
         /\ out' \in [Masters -> MAWires]
         /\ latched_data' \in [Masters -> Data]
<1>1. /\ q.addr \in Addr
      /\ q.op = "Write" => q.data \in Data
  BY DEF Requests
<1>2. out \in [Masters -> MAWires] /\ out[m] \in MAWires /\ in \in [Masters -> SUBSET Handshakes]
  BY DEF TypeOK, Handshakes
<1>3. CASE StartRead(m, q)
  <2>1. out' \in [Masters -> MAWires]
    BY <1>1, <1>2, <1>3 DEF StartRead, MAWires
  <2>2. in' \in [Masters -> SUBSET Handshakes]
    BY <1>2, <1>3 DEF StartRead
  <2> QED
    BY <1>3, <2>1, <2>2 DEF StartRead, TypeOK
<1>4. CASE StartWrite(m, q)
  <2>1. out' \in [Masters -> MAWires]
    BY <1>1, <1>2, <1>4 DEF StartWrite, MAWires
  <2>2. in' \in [Masters -> SUBSET Handshakes]
    BY <1>2, <1>4 DEF StartWrite
  <2> QED
    BY <1>4, <2>1, <2>2 DEF StartWrite, TypeOK
<1> QED
  BY <1>3, <1>4

LEMMA FinishTyped ==
  ASSUME TypeOK, NEW m \in Masters, NEW seen \in SUBSET Handshakes, NEW all,
         Finish(m, seen, all)
  PROVE  /\ req' \in [Masters -> Requests \union {None}]
         /\ rw_state' \in [Masters -> {"RW_Init", "RW_RAddr", "RW_WAddr"}]
         /\ in' \in [Masters -> SUBSET Handshakes]
<1>1. in \in [Masters -> SUBSET Handshakes]
  BY DEF TypeOK, Handshakes
<1>2. CASE all \subseteq in[m] \union seen
  BY <1>1, <1>2 DEF Finish, TypeOK
<1>3. CASE ~(all \subseteq in[m] \union seen)
  <2>1. in' = [in EXCEPT ![m] = @ \union seen] /\ UNCHANGED <<rw_state, req>>
    BY <1>3, Zenon DEF Finish
  <2>2. in' \in [Masters -> SUBSET Handshakes]
    BY <1>1, <2>1
  <2> QED
    BY <2>1, <2>2 DEF TypeOK
<1> QED
  BY <1>2, <1>3

LEMMA AwaitTyped ==
  ASSUME TypeOK, NEW m \in Masters, AwaitRead(m) \/ AwaitWrite(m)
  PROVE  /\ req' \in [Masters -> Requests \union {None}]
         /\ rw_state' \in [Masters -> {"RW_Init", "RW_RAddr", "RW_WAddr"}]
         /\ in' \in [Masters -> SUBSET Handshakes]
         /\ out' \in [Masters -> MAWires]
         /\ latched_data' \in [Masters -> Data]
<1>1. out \in [Masters -> MAWires] /\ out[m] \in MAWires /\ mch[m] \in SLWires
  BY DEF TypeOK
<1>2. CASE AwaitRead(m)
  <2> DEFINE seen == {h \in {"raddr", "rdat"} : IF h = "raddr" THEN mch[m].raddr
                                                               ELSE mch[m].rdat # None}
  <2>1. seen \in SUBSET Handshakes
    BY DEF Handshakes
  <2>2. "rdat" \in seen => mch[m].rdat \in Data
    BY <1>1 DEF SLWires
  <2>3. /\ out' = [out EXCEPT ![m].raddr = IF "raddr" \in seen THEN None ELSE @,
                              ![m].rready = @ /\ "rdat" \notin seen]
        /\ latched_data' = IF "rdat" \in seen
                           THEN [latched_data EXCEPT ![m] = mch[m].rdat]
                           ELSE latched_data
        /\ Finish(m, seen, {"raddr", "rdat"})
    BY <1>2 DEF AwaitRead
  <2> HIDE DEF seen
  <2>4. out' \in [Masters -> MAWires]
    BY <1>1, <2>3 DEF MAWires
  <2>5. latched_data' \in [Masters -> Data]
    BY <2>2, <2>3 DEF TypeOK
  <2> QED
    BY <2>1, <2>3, <2>4, <2>5, FinishTyped
<1>3. CASE AwaitWrite(m)
  <2> DEFINE seen == {h \in {"waddr", "wdat", "wres"} : mch[m][h]}
  <2>1. seen \in SUBSET Handshakes
    BY DEF Handshakes
  <2>2. /\ out' = [out EXCEPT ![m].waddr = IF "waddr" \in seen THEN None ELSE @,
                              ![m].wdat = IF "wdat" \in seen THEN None ELSE @,
                              ![m].wready = @ /\ "wres" \notin seen]
        /\ latched_data' = latched_data
        /\ Finish(m, seen, {"waddr", "wdat", "wres"})
    BY <1>3 DEF AwaitWrite
  <2> HIDE DEF seen
  <2>3. out' \in [Masters -> MAWires]
    BY <1>1, <2>2 DEF MAWires
  <2>4. latched_data' \in [Masters -> Data]
    BY <2>2 DEF TypeOK
  <2> QED
    BY <2>1, <2>2, <2>3, <2>4, FinishTyped
<1> QED
  BY <1>2, <1>3

(* The crossbar passes on the wires of at most one master. *)
LEMMA ConnectedOne ==
  ASSUME CtrlTypeOK, GrantConsistent, NEW c \in Channels, NEW s \in Slaves,
         NEW m \in Masters, NEW k \in Masters, connected(c, m, s), connected(c, k, s)
  PROVE  m = k
<1>1. ASSUME NEW i \in Masters, mstat[c][i].active, mstat[c][i].slaveID = s
      PROVE  sstat[c][s].active /\ sstat[c][s].masterID = i
  <2>1. sstat[c][s] = [masterID |-> i, active |-> TRUE]
    BY <1>1 DEF GrantConsistent, GrantsMatch
  <2> QED
    BY <2>1
<1>2. CASE granted(c, m, s) /\ granted(c, k, s)
  BY <1>2, OneMasterPerSlave
<1>3. CASE granted(c, m, s) \/ granted(c, k, s)
  BY <1>1, <1>2, <1>3, GrantedWereFree DEF connected
<1>4. CASE ~granted(c, m, s) /\ ~granted(c, k, s)
  BY <1>1, <1>4 DEF connected
<1> QED
  BY <1>3, <1>4

LEMMA WiresTyped ==
  ASSUME TypeOK, GrantConsistent, connectChannel
  PROVE  sch' \in [Slaves -> MAWires] /\ mch' \in [Masters -> SLWires]
<1>0. out \in [Masters -> MAWires] /\ CtrlTypeOK /\ "R" \in Channels /\ "W" \in Channels
  BY DEF TypeOK, Channels
<1>1. ASSUME NEW s \in Slaves PROVE wiresToSlave(s) \in MAWires
  <2> DEFINE from(c) == {m \in Masters : connected(c, m, s)}
             ma(c) == IF from(c) = {} THEN resetMA ELSE out[LastOf(from(c))]
  <2>1. ASSUME NEW c \in Channels PROVE ma(c) \in MAWires
    <3>1. CASE from(c) = {}
      BY <3>1, InitialWires
    <3>2. CASE from(c) # {}
      <4>1. PICK m \in Masters : connected(c, m, s)
        BY <3>2
      <4>2. from(c) = {m}
        BY <1>0, <4>1, ConnectedOne
      <4>3. LastOf(from(c)) = m
        BY <4>2, LastOfOne
      <4> QED
        BY <1>0, <3>2, <4>3
    <3> QED
      BY <3>1, <3>2
  <2>2. wiresToSlave(s) = [raddr |-> ma("R").raddr, rready |-> ma("R").rready,
                           waddr |-> ma("W").waddr, wdat |-> ma("W").wdat,
                           wready |-> ma("W").wready]
    BY DEF wiresToSlave
  <2>3. ma("R") \in MAWires /\ ma("W") \in MAWires
    BY <1>0, <2>1
  <2> HIDE DEF ma
  <2> QED
    BY <2>2, <2>3 DEF MAWires
<1>2. ASSUME NEW m \in Masters PROVE wiresToMaster(m) \in SLWires
  <2> DEFINE onto(c) == {s \in Slaves : connected(c, m, s)}
             rs == CHOOSE s \in onto("R") : TRUE
             ws == CHOOSE s \in onto("W") : TRUE
  <2>1. onto("R") # {} => rdriven[rs] \in [ready : BOOLEAN, rdat : Data \union {None}]
    <3>1. onto("R") # {} => rs \in Slaves
      OBVIOUS
    <3> QED
      BY <3>1 DEF TypeOK
  <2>2. onto("W") # {} => w[ws] \in WTypes
    <3>1. onto("W") # {} => ws \in Slaves
      OBVIOUS
    <3> QED
      BY <3>1 DEF TypeOK, WTypes
  <2>3. wiresToMaster(m) =
          [raddr |-> onto("R") # {} /\ rdriven[rs].ready,
           rdat |-> IF onto("R") # {} THEN rdriven[rs].rdat ELSE None,
           waddr |-> onto("W") # {} /\ w[ws].ready,
           wdat |-> onto("W") # {} /\ w[ws].wdat,
           wres |-> onto("W") # {} /\ w[ws].wres]
    BY DEF wiresToMaster
  <2> HIDE DEF onto, rs, ws
  <2> QED
    BY <2>1, <2>2, <2>3 DEF SLWires, WTypes
<1> QED
  BY <1>1, <1>2 DEF connectChannel

(* All registers and wires of masters, slaves and crossbar keep their      *)
(* ranges, whatever the devices answer.                                    *)
THEOREM TypeCorrect == Spec => []TypeOK
<1>1. Init => TypeOK
  <2> SUFFICES ASSUME Init PROVE TypeOK
    OBVIOUS
  <2>1. CtrlTypeOK /\ turn \in 0 .. SC + MC
    BY Numbers, BusAssumption DEF Init, CtrlTypeOK
  <2> QED
    BY <2>1, InitialWires DEF Init, TypeOK, RTypes, WTypes
<1>2. TypeOK /\ GrantConsistent /\ CtrlTypeOK' /\ [Next]_vars => TypeOK'
  <2> SUFFICES ASSUME TypeOK, GrantConsistent, CtrlTypeOK', [Next]_vars
               PROVE  TypeOK'
    OBVIOUS
  <2>1. ASSUME NEW s \in Slaves, NEW d \in Data \union {None}, NEW take \in BOOLEAN,
               SlaveStep(s, d, take)
        PROVE  TypeOK'
    <3>1. /\ r' \in [Slaves -> RTypes] /\ w' \in [Slaves -> WTypes]
          /\ rdriven' \in [Slaves -> [ready : BOOLEAN, rdat : Data \union {None}]]
          /\ turn' \in 0 .. SC + MC
      BY <2>1, ReadHalfTyped, WriteHalfTyped, TurnInRange DEF SlaveStep, TypeOK
    <3>2. UNCHANGED <<masterVars, ctrlVars>>
      BY <2>1 DEF SlaveStep
    <3> QED
      BY <3>1, <3>2 DEF TypeOK, masterVars, ctrlVars, RTypes, WTypes
  <2>2. ASSUME NEW m \in Masters, MasterStep(m)
        PROVE  TypeOK'
    <3>1. /\ req' \in [Masters -> Requests \union {None}]
          /\ rw_state' \in [Masters -> {"RW_Init", "RW_RAddr", "RW_WAddr"}]
          /\ in' \in [Masters -> SUBSET Handshakes]
          /\ out' \in [Masters -> MAWires]
          /\ latched_data' \in [Masters -> Data]
      <4>1. CASE Idle(m)
        BY <4>1 DEF Idle, masterVars, TypeOK, Handshakes
      <4>2. CASE ~Idle(m)
        BY <2>2, <4>2, StartTyped, AwaitTyped DEF MasterStep
      <4> QED
        BY <4>1, <4>2
    <3>2. UNCHANGED <<slaveVars, ctrlVars>> /\ turn' \in 0 .. SC + MC
      BY <2>2, TurnInRange DEF MasterStep, TypeOK
    <3> QED
      BY <3>1, <3>2 DEF TypeOK, slaveVars, ctrlVars, Handshakes
  <2>3. CASE connectChannel
    <3>1. UNCHANGED <<masterVars, slaveVars>> /\ turn' \in 0 .. SC + MC
      BY <2>3, TurnInRange DEF connectChannel, TypeOK
    <3> QED
      BY <2>3, <3>1, WiresTyped DEF TypeOK, masterVars, slaveVars
  <2>4. CASE UNCHANGED vars
    BY <2>4 DEF TypeOK, CtrlTypeOK, vars, masterVars, slaveVars, ctrlVars
  <2> QED
    BY <2>1, <2>2, <2>3, <2>4 DEF Next
<1> QED
  BY <1>1, <1>2, GrantsAlwaysConsistent, PTL DEF Spec

-----------------------------------------------------------------------------
(***************************************************************************)
(* The interconnect of AxiBus implements AtomicPort, for every number of   *)
(* masters and slaves: each load and store is performed by the addressed   *)
(* device once and completes with what the device did.                     *)
(*                                                                         *)
(* The invariant says, for every point of a clock cycle, how far the       *)
(* handshakes of a connected master and slave have come, what a slave does *)
(* that nobody is connected to, and where the answer of a master is that   *)
(* has just been disconnected.                                             *)
(***************************************************************************)

(* Whose call of this cycle is over. *)
slaveDone(s)  == turn > s
masterDone(m) == turn > SC + m

Reading(m) == rw_state[m] = "RW_RAddr"
Writing(m) == rw_state[m] = "RW_WAddr"

Linked(c, m, s) == mstat[c][m].active /\ mstat[c][m].slaveID = s

(* What the device does, or has done, for the request of master m. *)
Did(m, d) == Access(req[m].op, decodeAddr(req[m].addr), req[m].addr, d)

(* What a master drives follows from its request and the handshakes. *)
Drives(m) ==
  /\ rw_state[m] = "RW_Init" => req[m] = None /\ done[m] = None /\ in[m] = {}
  /\ Reading(m) => req[m] \in Requests /\ req[m].op = "Read" /\ in[m] \subseteq {"raddr"}
  /\ Writing(m) => req[m] \in Requests /\ req[m].op = "Write" /\ in[m] \subseteq {"waddr"}
  /\ out[m].raddr = IF Reading(m) /\ "raddr" \notin in[m] THEN req[m].addr ELSE None
  /\ out[m].rready <=> Reading(m)
  /\ out[m].waddr = IF Writing(m) /\ "waddr" \notin in[m] THEN req[m].addr ELSE None
  /\ out[m].wdat = IF Writing(m) THEN req[m].data ELSE None
  /\ out[m].wready <=> Writing(m)

(* A connected master has a request for the slave. *)
Connected(m) ==
  /\ mstat["R"][m].active => Reading(m) /\ mstat["R"][m].slaveID = decodeAddr(req[m].addr)
  /\ mstat["W"][m].active => Writing(m) /\ mstat["W"][m].slaveID = decodeAddr(req[m].addr)

(* A master that is not connected waits for a grant, or its answer is on   *)
(* its wires.                                                              *)
ReadWaits(m) ==
  \/ /\ in[m] = {} /\ done[m] = None
     /\ ~masterDone(m) => ~mch[m].raddr /\ mch[m].rdat = None
  \/ /\ ~masterDone(m) /\ in[m] = {"raddr"}
     /\ mch[m].rdat # None /\ done[m] = Did(m, mch[m].rdat)

WriteWaits(m) ==
  \/ /\ in[m] = {} /\ done[m] = None
     /\ ~masterDone(m) => ~mch[m].waddr /\ ~mch[m].wdat /\ ~mch[m].wres
  \/ /\ ~masterDone(m) /\ in[m] = {"waddr"}
     /\ mch[m].wdat /\ mch[m].wres /\ done[m] = Did(m, req[m].data)

(* The master has been told that its address was taken, or will be when it *)
(* steps.                                                                  *)
raddrTold(m) == "raddr" \in in[m] \/ (~masterDone(m) /\ mch[m].raddr)
waddrTold(m) == "waddr" \in in[m] \/ (~masterDone(m) /\ mch[m].waddr)

(* A read: the slave has yet to see the address; the device is busy; it    *)
(* has answered and the slave will drive the answer; the slave drives it.  *)
ReadFresh(m, s) ==
  /\ ~slaveDone(s) /\ r[s] = rInit
  /\ in[m] = {} /\ done[m] = None

ReadTaken(m, s) ==
  /\ r[s].state = "R_Addr" /\ r[s].raddr = req[m].addr
  /\ r[s].rdat = None /\ ~r[s].burst_end_r /\ done[m] = None
  /\ r[s].ready \/ (slaveDone(s) /\ rdriven[s].ready) \/ raddrTold(m)
  /\ slaveDone(s) => rdriven[s].rdat = None

ReadKept(m, s) ==
  /\ r[s].state = "R_End" /\ ~r[s].ready
  /\ r[s].rdat # None /\ done[m] = Did(m, r[s].rdat)
  /\ (slaveDone(s) /\ rdriven[s].ready) \/ raddrTold(m)
  /\ slaveDone(s) => rdriven[s].rdat = None

ReadPassed(m, s) ==
  /\ slaveDone(s) /\ ~r[s].ready
  /\ r[s] = rInit \/ (r[s].state = "R_End" /\ r[s].rdat = None)
  /\ rdriven[s].rdat # None /\ done[m] = Did(m, rdriven[s].rdat)
  /\ raddrTold(m)

ReadPair(m, s) ==
  /\ ~masterDone(m) => mch[m].rdat = None
  /\ ~slaveDone(s) => sch[s].raddr = out[m].raddr /\ sch[s].rready
  /\ ReadFresh(m, s) \/ ReadTaken(m, s) \/ ReadKept(m, s) \/ ReadPassed(m, s)

(* A write: the slave has yet to see it; the device is busy; it is done. *)
WriteFresh(m, s) ==
  /\ ~slaveDone(s) /\ w[s] = wInit
  /\ in[m] = {} /\ done[m] = None

WriteTaken(m, s) ==
  /\ w[s].state = "W_AddrData" /\ w[s].waddr = req[m].addr
  /\ ~w[s].wdat /\ ~w[s].wres /\ done[m] = None
  /\ (slaveDone(s) /\ w[s].ready) \/ waddrTold(m)

WriteServed(m, s) ==
  /\ slaveDone(s) /\ w[s].state = "W_End" /\ w[s].wdat /\ w[s].wres
  /\ done[m] = Did(m, req[m].data)
  /\ waddrTold(m)

WritePair(m, s) ==
  /\ ~masterDone(m) => ~mch[m].wdat /\ ~mch[m].wres
  /\ ~slaveDone(s) => sch[s].waddr = out[m].waddr /\ sch[s].wdat = req[m].data /\ sch[s].wready
  /\ WriteFresh(m, s) \/ WriteTaken(m, s) \/ WriteServed(m, s)

(* A slave that is not connected is idle, or becomes so when it steps. *)
ReadFree(s) ==
  /\ slaveDone(s) => r[s] = rInit /\ ~rdriven[s].ready /\ rdriven[s].rdat = None
  /\ ~slaveDone(s) => /\ sch[s].raddr = None /\ ~r[s].ready
                      /\ r[s] = rInit \/ (r[s].state = "R_End" /\ r[s].rdat = None)

WriteFree(s) ==
  /\ slaveDone(s) => w[s] = wInit
  /\ ~slaveDone(s) => /\ sch[s].waddr = None
                      /\ w[s] = wInit \/ (w[s].state = "W_End" /\ sch[s].wready)

ReadMasterInv(m) ==
  /\ Reading(m) /\ ~mstat["R"][m].active => ReadWaits(m)
  /\ \A s \in Slaves : Linked("R", m, s) => ReadPair(m, s)

WriteMasterInv(m) ==
  /\ Writing(m) /\ ~mstat["W"][m].active => WriteWaits(m)
  /\ \A s \in Slaves : Linked("W", m, s) => WritePair(m, s)

SlaveInv(s) == /\ ~sstat["R"][s].active => ReadFree(s)
               /\ ~sstat["W"][s].active => WriteFree(s)

PortInv ==
  /\ done = [m \in Masters |-> done[m]]
  /\ \A m \in Masters : Drives(m) /\ Connected(m) /\ ReadMasterInv(m) /\ WriteMasterInv(m)
  /\ \A s \in Slaves : SlaveInv(s)

BusInv == TypeOK /\ GrantConsistent /\ PortInv

-----------------------------------------------------------------------------
(* Whose call is over, before and after each kind of step.                 *)

LEMMA AddrIsSome == \A a \in Addr : a # None
BY BusAssumption DEF Addr, Slaves

LEMMA SlaveTurn ==
  ASSUME NEW s \in Slaves, turn = s, NextTurn
  PROVE  /\ ~slaveDone(s) /\ slaveDone(s)'
         /\ \A t \in Slaves : t # s => slaveDone(t)' = slaveDone(t)
         /\ \A m \in Masters : ~masterDone(m) /\ ~masterDone(m)'
<1>1. s \in Nat /\ s < SC /\ SC \in Nat /\ MC \in Nat /\ MC > 0
  BY BusAssumption DEF Slaves
<1>2. turn' = s + 1
  BY <1>1 DEF NextTurn
<1>3. \A t \in Slaves : t \in Nat
  BY Numbers
<1>4. \A m \in Masters : m \in Nat
  BY Numbers
<1> QED
  BY <1>1, <1>2, <1>3, <1>4 DEF slaveDone, masterDone

LEMMA MasterTurn ==
  ASSUME NEW m \in Masters, turn = SC + m, NextTurn
  PROVE  /\ \A s \in Slaves : slaveDone(s) /\ slaveDone(s)'
         /\ ~masterDone(m) /\ masterDone(m)'
         /\ \A k \in Masters : k # m => masterDone(k)' = masterDone(k)
<1>1. m \in Nat /\ m < MC /\ SC \in Nat /\ MC \in Nat
  BY BusAssumption DEF Masters
<1>2. turn' = SC + m + 1
  BY <1>1 DEF NextTurn
<1>3. \A s \in Slaves : s \in Nat /\ s < SC
  BY BusAssumption DEF Slaves
<1>4. \A k \in Masters : k \in Nat
  BY Numbers
<1> QED
  BY <1>1, <1>2, <1>3, <1>4 DEF slaveDone, masterDone

LEMMA ConnectTurn ==
  ASSUME turn = SC + MC, NextTurn
  PROVE  /\ \A s \in Slaves : slaveDone(s) /\ ~slaveDone(s)'
         /\ \A m \in Masters : masterDone(m) /\ ~masterDone(m)'
<1>1. SC \in Nat /\ MC \in Nat
  BY BusAssumption
<1>2. turn' = 0
  BY <1>1 DEF NextTurn
<1>3. \A s \in Slaves : s \in Nat /\ s < SC
  BY BusAssumption DEF Slaves
<1>4. \A m \in Masters : m \in Nat /\ m < MC
  BY BusAssumption DEF Masters
<1> QED
  BY <1>1, <1>2, <1>3, <1>4 DEF slaveDone, masterDone

-----------------------------------------------------------------------------
(* A slave's step.                                                         *)

(* The slave and the master of a link name each other. *)
LEMMA LinkedBack ==
  ASSUME BusInv, NEW c \in Channels, NEW s \in Slaves, sstat[c][s].active
  PROVE  sstat[c][s].masterID \in Masters /\ Linked(c, sstat[c][s].masterID, s)
<1>1. mstat[c][sstat[c][s].masterID] = [slaveID |-> s, active |-> TRUE]
  BY DEF BusInv, GrantConsistent, GrantsMatch
<1> QED
  BY <1>1 DEF BusInv, TypeOK, CtrlTypeOK, Linked

LEMMA LinkNamed ==
  ASSUME BusInv, NEW c \in Channels, NEW m \in Masters, NEW s \in Slaves, Linked(c, m, s)
  PROVE  sstat[c][s].active /\ sstat[c][s].masterID = m
<1>1. sstat[c][s] = [masterID |-> m, active |-> TRUE]
  BY DEF BusInv, GrantConsistent, GrantsMatch, Linked
<1> QED
  BY <1>1

(* The device performs a read only for the linked master, whose request it *)
(* is, and which has nothing done yet; a write likewise.                   *)
LEMMA ReadEffect ==
  ASSUME BusInv, NEW s \in Slaves, NEW d \in Data \union {None},
         turn = s, NextTurn, readsNow(s, d)
  PROVE  LET m == sstat["R"][s].masterID
         IN  /\ m \in Masters /\ Linked("R", m, s) /\ Reading(m)
             /\ done[m] = None /\ d \in Data
             /\ Access("Read", s, r[s].raddr, d) = Did(m, d)
<1> DEFINE m == sstat["R"][s].masterID
<1>0. "R" \in Channels /\ ~slaveDone(s)
  BY SlaveTurn DEF Channels
<1>1. r[s].state = "R_Addr" /\ d \in Data
  BY DEF readsNow
<1>2. sstat["R"][s].active
  BY <1>0, <1>1 DEF BusInv, PortInv, SlaveInv, ReadFree, rInit
<1>3. m \in Masters /\ Linked("R", m, s)
  BY <1>0, <1>2, LinkedBack
<1> HIDE DEF m
<1>4. ReadPair(m, s) /\ Drives(m) /\ Connected(m)
  BY <1>3 DEF BusInv, PortInv, ReadMasterInv
<1>5. ReadTaken(m, s)
  BY <1>0, <1>1, <1>4 DEF ReadPair, ReadFresh, ReadKept, ReadPassed, rInit
<1>6. Reading(m) /\ s = decodeAddr(req[m].addr) /\ req[m].op = "Read"
  BY <1>3, <1>4 DEF Connected, Linked, Drives
<1> QED
  BY <1>1, <1>3, <1>5, <1>6 DEF m, Did, ReadTaken

LEMMA WriteEffect ==
  ASSUME BusInv, NEW s \in Slaves, NEW take \in BOOLEAN,
         turn = s, NextTurn, writesNow(s, take)
  PROVE  LET m == sstat["W"][s].masterID
         IN  /\ m \in Masters /\ Linked("W", m, s) /\ Writing(m)
             /\ done[m] = None
             /\ Access("Write", s, w[s].waddr, sch[s].wdat) = Did(m, req[m].data)
<1> DEFINE m == sstat["W"][s].masterID
<1>0. "W" \in Channels /\ ~slaveDone(s)
  BY SlaveTurn DEF Channels
<1>1. w[s].state = "W_AddrData"
  BY DEF writesNow
<1>2. sstat["W"][s].active
  BY <1>0, <1>1 DEF BusInv, PortInv, SlaveInv, WriteFree, wInit
<1>3. m \in Masters /\ Linked("W", m, s)
  BY <1>0, <1>2, LinkedBack
<1> HIDE DEF m
<1>4. WritePair(m, s) /\ Drives(m) /\ Connected(m)
  BY <1>3 DEF BusInv, PortInv, WriteMasterInv
<1>5. WriteTaken(m, s) /\ sch[s].wdat = req[m].data
  BY <1>0, <1>1, <1>4 DEF WritePair, WriteFresh, WriteServed, wInit
<1>6. Writing(m) /\ s = decodeAddr(req[m].addr) /\ req[m].op = "Write"
  BY <1>3, <1>4 DEF Connected, Linked, Drives
<1> QED
  BY <1>3, <1>5, <1>6 DEF m, Did, WriteTaken

(* What a slave's step does to the history of each master. *)
LEMMA RecordOne ==
  ASSUME NEW E, NEW m \in Masters, NEW a, done[m] = None, Record(E),
         \A e \in E : e[1] = m => e[2] = a,
         <<m, a>> \in E
  PROVE  done'[m] = a
<1> DEFINE mine == {e[2] : e \in {f \in E : f[1] = m}}
<1>1. mine = {a}
  OBVIOUS
<1>2. done'[m] = IF mine = {} THEN done[m]
                 ELSE IF done[m] = None /\ \E x \in mine : mine = {x}
                      THEN CHOOSE x \in mine : TRUE ELSE Twice
  BY DEF Record
<1> HIDE DEF mine
<1> QED
  BY <1>1, <1>2

LEMMA RecordNone ==
  ASSUME NEW E, NEW m \in Masters, Record(E), \A e \in E : e[1] # m
  PROVE  done'[m] = done[m]
<1>1. {e[2] : e \in {f \in E : f[1] = m}} = {}
  OBVIOUS
<1> QED
  BY <1>1 DEF Record

LEMMA SlaveEffects ==
  ASSUME BusInv, NEW s \in Slaves, NEW d \in Data \union {None}, NEW take \in BOOLEAN,
         SlaveStep(s, d, take)
  PROVE  /\ done' = [m \in Masters |-> done'[m]]
         /\ \A m \in Masters :
              done'[m] = IF readsNow(s, d) /\ m = sstat["R"][s].masterID THEN Did(m, d)
                         ELSE IF writesNow(s, take) /\ m = sstat["W"][s].masterID
                              THEN Did(m, req[m].data) ELSE done[m]
<1> DEFINE E == Effects(s, d, take)
           rm == sstat["R"][s].masterID
           wm == sstat["W"][s].masterID
           ra == Access("Read", s, r[s].raddr, d)
           wa == Access("Write", s, w[s].waddr, sch[s].wdat)
<1>1. turn = s /\ NextTurn /\ Record(E)
  BY DEF SlaveStep
<1>2. E = (IF readsNow(s, d) THEN {<<rm, ra>>} ELSE {})
            \union (IF writesNow(s, take) THEN {<<wm, wa>>} ELSE {})
  BY DEF Effects
<1>3. readsNow(s, d) => rm \in Masters /\ Reading(rm) /\ done[rm] = None /\ ra = Did(rm, d)
  BY <1>1, ReadEffect
<1>4. writesNow(s, take) => /\ wm \in Masters /\ Writing(wm) /\ done[wm] = None
                            /\ wa = Did(wm, req[wm].data)
  BY <1>1, WriteEffect
<1>5. readsNow(s, d) /\ writesNow(s, take) => rm # wm
  BY <1>3, <1>4 DEF Reading, Writing
<1> HIDE DEF E, rm, wm, ra, wa
<1>6. ASSUME NEW m \in Masters
      PROVE  done'[m] = IF readsNow(s, d) /\ m = rm THEN Did(m, d)
                        ELSE IF writesNow(s, take) /\ m = wm
                             THEN Did(m, req[m].data) ELSE done[m]
  <2>1. CASE readsNow(s, d) /\ m = rm
    <3>1. <<m, ra>> \in E /\ \A e \in E : e[1] = m => e[2] = ra
      BY <1>2, <1>5, <2>1
    <3>2. done'[m] = ra
      BY <1>1, <1>3, <2>1, <3>1, RecordOne
    <3> QED
      BY <1>3, <2>1, <3>2
  <2>2. CASE writesNow(s, take) /\ m = wm
    <3>1. <<m, wa>> \in E /\ \A e \in E : e[1] = m => e[2] = wa
      BY <1>2, <1>5, <2>2
    <3>2. done'[m] = wa
      BY <1>1, <1>4, <2>2, <3>1, RecordOne
    <3>3. ~(readsNow(s, d) /\ m = rm)
      BY <1>5, <2>2
    <3> QED
      BY <1>4, <2>2, <3>2, <3>3
  <2>3. CASE ~(readsNow(s, d) /\ m = rm) /\ ~(writesNow(s, take) /\ m = wm)
    <3>1. \A e \in E : e[1] # m
      BY <1>2, <2>3
    <3>2. done'[m] = done[m]
      BY <1>1, <3>1, RecordNone
    <3> QED
      BY <2>3, <3>2
  <2> QED
    BY <2>1, <2>2, <2>3
<1>7. done' = [m \in Masters |-> done'[m]]
  BY <1>1 DEF Record
<1> QED
  BY <1>6, <1>7 DEF rm, wm

(* A master reads or writes, not both, and so only the effect on its own   *)
(* channel can be for it.                                                  *)
LEMMA DoneReader ==
  ASSUME BusInv, NEW s \in Slaves, NEW d \in Data \union {None}, NEW take \in BOOLEAN,
         SlaveStep(s, d, take), NEW m \in Masters, Reading(m)
  PROVE  done'[m] = IF readsNow(s, d) /\ Linked("R", m, s) THEN Did(m, d) ELSE done[m]
<1>1. turn = s /\ NextTurn /\ "R" \in Channels
  BY DEF SlaveStep, Channels
<1>2. readsNow(s, d) => Linked("R", sstat["R"][s].masterID, s)
  BY <1>1, ReadEffect
<1>3. writesNow(s, take) => Writing(sstat["W"][s].masterID)
  BY <1>1, WriteEffect
<1>4. Linked("R", m, s) => m = sstat["R"][s].masterID
  BY <1>1, LinkNamed
<1> QED
  BY <1>2, <1>3, <1>4, SlaveEffects DEF Reading, Writing

LEMMA DoneWriter ==
  ASSUME BusInv, NEW s \in Slaves, NEW d \in Data \union {None}, NEW take \in BOOLEAN,
         SlaveStep(s, d, take), NEW m \in Masters, Writing(m)
  PROVE  done'[m] = IF writesNow(s, take) /\ Linked("W", m, s)
                    THEN Did(m, req[m].data) ELSE done[m]
<1>1. turn = s /\ NextTurn /\ "W" \in Channels
  BY DEF SlaveStep, Channels
<1>2. writesNow(s, take) => Linked("W", sstat["W"][s].masterID, s)
  BY <1>1, WriteEffect
<1>3. readsNow(s, d) => Reading(sstat["R"][s].masterID)
  BY <1>1, ReadEffect
<1>4. Linked("W", m, s) => m = sstat["W"][s].masterID
  BY <1>1, LinkNamed
<1> QED
  BY <1>2, <1>3, <1>4, SlaveEffects DEF Reading, Writing

LEMMA DoneIdle ==
  ASSUME BusInv, NEW s \in Slaves, NEW d \in Data \union {None}, NEW take \in BOOLEAN,
         SlaveStep(s, d, take), NEW m \in Masters, rw_state[m] = "RW_Init"
  PROVE  done'[m] = done[m]
<1>1. turn = s /\ NextTurn
  BY DEF SlaveStep
<1>2. readsNow(s, d) => Reading(sstat["R"][s].masterID)
  BY <1>1, ReadEffect
<1>3. writesNow(s, take) => Writing(sstat["W"][s].masterID)
  BY <1>1, WriteEffect
<1> QED
  BY <1>2, <1>3, SlaveEffects DEF Reading, Writing

(* The read of a linked master goes on by one stage, or waits. *)
LEMMA SlaveKeepsReadPair ==
  ASSUME BusInv, NEW s \in Slaves, NEW d \in Data \union {None}, NEW take \in BOOLEAN,
         SlaveStep(s, d, take), NEW m \in Masters, Linked("R", m, s)
  PROVE  ReadPair(m, s)'
<1>1. /\ fsmRead(s, d)
      /\ req' = req /\ in' = in /\ out' = out /\ mch' = mch /\ sch' = sch
  BY DEF SlaveStep, masterVars, ctrlVars
<1>2. ~slaveDone(s) /\ slaveDone(s)' /\ ~masterDone(m) /\ ~masterDone(m)'
  BY SlaveTurn DEF SlaveStep
<1>3. ReadPair(m, s) /\ Drives(m) /\ Reading(m)
  BY DEF BusInv, PortInv, ReadMasterInv, Connected, Linked
<1>4. /\ r \in [Slaves -> RTypes] /\ r[s] \in RTypes
      /\ rdriven'[s] = [ready |-> r[s].ready, rdat |-> r[s].rdat]
  BY <1>1 DEF BusInv, TypeOK, RTypes, fsmRead
<1>5. mch'[m].rdat = None /\ sch[s].raddr = out[m].raddr /\ sch[s].rready
  BY <1>1, <1>2, <1>3 DEF ReadPair
<1>6. done'[m] = IF readsNow(s, d) THEN Did(m, d) ELSE done[m]
  BY <1>3, DoneReader
<1>7. raddrTold(m)' <=> raddrTold(m)
  BY <1>1, <1>2 DEF raddrTold
<1>8. \A x : Did(m, x)' = Did(m, x)
  BY <1>1 DEF Did
<1>9. CASE ReadFresh(m, s)
  <2>1. sch[s].raddr = req[m].addr /\ req[m].addr \in Addr
    BY <1>3, <1>5, <1>9 DEF Drives, ReadFresh, Requests
  <2>2. r[s] = rInit /\ done[m] = None
    BY <1>9 DEF ReadFresh
  <2>3. r' = [r EXCEPT ![s].state = "R_Addr", ![s].raddr = sch[s].raddr,
                       ![s].raddr_end = FALSE, ![s].burst_end_r = FALSE,
                       ![s].ready = TRUE]
    BY <1>1, <2>1, <2>2, AddrIsSome DEF fsmRead, R_Init, R_Addr, R_End, rInit
  <2>4. ~readsNow(s, d)
    BY <2>2 DEF readsNow, rInit
  <2>5. ReadTaken(m, s)'
    BY <1>1, <1>4, <1>6, <2>1, <2>2, <2>3, <2>4 DEF ReadTaken, rInit, RTypes
  <2> QED
    BY <1>2, <1>5, <2>5 DEF ReadPair
<1>10. CASE ReadTaken(m, s)
  <2>1. r[s].state = "R_Addr" /\ r[s].rdat = None /\ ~Held(s)
    BY <1>10 DEF ReadTaken, Held
  <2>2. r' = [r EXCEPT ![s].ready = FALSE,
                       ![s].raddr_end = @ \/ sch[s].raddr = None,
                       ![s].rdat = IF d # None THEN d ELSE @,
                       ![s].burst_end_r = @ \/ d # None,
                       ![s].state = IF d # None THEN "R_End" ELSE @]
    BY <1>1, <1>5, <2>1 DEF fsmRead, R_Init, R_Addr, R_End
  <2>3. readsNow(s, d) <=> d # None
    BY <2>1 DEF readsNow
  <2>4. (slaveDone(s)' /\ rdriven'[s].ready) \/ raddrTold(m)'
    BY <1>2, <1>4, <1>7, <1>10 DEF ReadTaken
  <2>5. rdriven'[s].rdat = None
    BY <1>4, <2>1
  <2>6. CASE d = None
    <3>1. /\ r'[s].state = "R_Addr" /\ r'[s].raddr = r[s].raddr
          /\ r'[s].rdat = None /\ r'[s].burst_end_r = r[s].burst_end_r
      BY <1>4, <2>1, <2>2, <2>6 DEF RTypes
    <3>2. ReadTaken(m, s)'
      BY <1>1, <1>6, <1>10, <2>3, <2>4, <2>5, <2>6, <3>1 DEF ReadTaken
    <3> QED
      BY <1>2, <1>5, <3>2 DEF ReadPair
  <2>7. CASE d # None
    <3>1. r'[s].state = "R_End" /\ ~r'[s].ready /\ r'[s].rdat = d
      BY <1>4, <2>1, <2>2, <2>7 DEF RTypes
    <3>2. ReadKept(m, s)'
      BY <1>6, <1>8, <2>3, <2>4, <2>5, <2>7, <3>1 DEF ReadKept
    <3> QED
      BY <1>2, <1>5, <3>2 DEF ReadPair
  <2> QED
    BY <2>6, <2>7
<1>11. CASE ReadKept(m, s)
  <2>1. r[s].state = "R_End" /\ ~readsNow(s, d)
    BY <1>11 DEF ReadKept, readsNow
  <2>2. r' = [r EXCEPT ![s] = IF @.raddr_end \/ sch[s].raddr = None THEN rInit
                              ELSE [@ EXCEPT !.rdat = None]]
    BY <1>1, <2>1 DEF fsmRead, R_Init, R_Addr, R_End
  <2>3. r'[s] = rInit \/ r'[s] = [r[s] EXCEPT !.rdat = None]
    BY <1>4, <2>2
  <2>4. /\ ~r'[s].ready
        /\ r'[s] = rInit \/ (r'[s].state = "R_End" /\ r'[s].rdat = None)
    BY <1>4, <1>11, <2>1, <2>3 DEF ReadKept, rInit, RTypes
  <2>5. ReadPassed(m, s)'
    BY <1>2, <1>4, <1>6, <1>7, <1>8, <1>11, <2>1, <2>4 DEF ReadPassed, ReadKept
  <2> QED
    BY <1>2, <1>5, <2>5 DEF ReadPair
<1> QED
  BY <1>2, <1>3, <1>9, <1>10, <1>11 DEF ReadPair, ReadPassed

LEMMA SlaveKeepsWritePair ==
  ASSUME BusInv, NEW s \in Slaves, NEW d \in Data \union {None}, NEW take \in BOOLEAN,
         SlaveStep(s, d, take), NEW m \in Masters, Linked("W", m, s)
  PROVE  WritePair(m, s)'
<1>1. /\ fsmWrite(s, take)
      /\ req' = req /\ in' = in /\ out' = out /\ mch' = mch /\ sch' = sch
  BY DEF SlaveStep, masterVars, ctrlVars
<1>2. ~slaveDone(s) /\ slaveDone(s)' /\ ~masterDone(m) /\ ~masterDone(m)'
  BY SlaveTurn DEF SlaveStep
<1>3. WritePair(m, s) /\ Drives(m) /\ Writing(m)
  BY DEF BusInv, PortInv, WriteMasterInv, Connected, Linked
<1>4. w \in [Slaves -> WTypes] /\ w[s] \in WTypes
  BY DEF BusInv, TypeOK, WTypes
<1>5. /\ ~mch'[m].wdat /\ ~mch'[m].wres
      /\ sch[s].waddr = out[m].waddr /\ sch[s].wdat = req[m].data /\ sch[s].wready
  BY <1>1, <1>2, <1>3 DEF WritePair
<1>6. done'[m] = IF writesNow(s, take) THEN Did(m, req[m].data) ELSE done[m]
  BY <1>3, DoneWriter
<1>7. waddrTold(m)' <=> waddrTold(m)
  BY <1>1, <1>2 DEF waddrTold
<1>8. \A x : Did(m, x)' = Did(m, x)
  BY <1>1 DEF Did
<1>9. CASE WriteFresh(m, s)
  <2>1. sch[s].waddr = req[m].addr /\ req[m].addr \in Addr
    BY <1>3, <1>5, <1>9 DEF Drives, WriteFresh, Requests
  <2>2. w[s] = wInit /\ done[m] = None
    BY <1>9 DEF WriteFresh
  <2>3. w' = [w EXCEPT ![s].state = "W_AddrData", ![s].waddr = sch[s].waddr,
                       ![s].waddr_end = FALSE, ![s].ready = TRUE]
    BY <1>1, <2>1, <2>2, AddrIsSome DEF fsmWrite, W_Init, W_AddrData, W_End, wInit
  <2>4. ~writesNow(s, take)
    BY <2>2 DEF writesNow, wInit
  <2>5. WriteTaken(m, s)'
    BY <1>1, <1>2, <1>4, <1>6, <2>1, <2>2, <2>3, <2>4 DEF WriteTaken, wInit, WTypes
  <2> QED
    BY <1>2, <1>5, <2>5 DEF WritePair
<1>10. CASE WriteTaken(m, s)
  <2>1. w[s].state = "W_AddrData" /\ waddrTold(m)
    BY <1>2, <1>10 DEF WriteTaken
  <2>2. w' = [w EXCEPT ![s].ready = FALSE,
                       ![s].waddr_end = @ \/ sch[s].waddr = None,
                       ![s].wres_end = @ /\ ~writesNow(s, take),
                       ![s].wdat = @ \/ writesNow(s, take),
                       ![s].wres = @ \/ writesNow(s, take),
                       ![s].state = IF writesNow(s, take) THEN "W_End" ELSE @]
    BY <1>1, <2>1 DEF fsmWrite, W_Init, W_AddrData, W_End
  <2>3. CASE ~writesNow(s, take)
    <3>1. /\ w'[s].state = "W_AddrData" /\ w'[s].waddr = w[s].waddr
          /\ w'[s].wdat = w[s].wdat /\ w'[s].wres = w[s].wres
      BY <1>4, <2>1, <2>2, <2>3 DEF WTypes
    <3>2. WriteTaken(m, s)'
      BY <1>1, <1>6, <1>7, <1>10, <2>1, <2>3, <3>1 DEF WriteTaken
    <3> QED
      BY <1>2, <1>5, <3>2 DEF WritePair
  <2>4. CASE writesNow(s, take)
    <3>1. w'[s].state = "W_End" /\ w'[s].wdat /\ w'[s].wres
      BY <1>4, <2>1, <2>2, <2>4 DEF WTypes
    <3>2. WriteServed(m, s)'
      BY <1>1, <1>2, <1>6, <1>7, <1>8, <2>1, <2>4, <3>1 DEF WriteServed
    <3> QED
      BY <1>2, <1>5, <3>2 DEF WritePair
  <2> QED
    BY <2>3, <2>4
<1> QED
  BY <1>2, <1>3, <1>9, <1>10 DEF WritePair, WriteServed

(* A slave without a master ends what it has begun. *)
LEMMA SlaveStaysFree ==
  ASSUME BusInv, NEW s \in Slaves, NEW d \in Data \union {None}, NEW take \in BOOLEAN,
         SlaveStep(s, d, take)
  PROVE  SlaveInv(s)'
<1>1. fsmRead(s, d) /\ fsmWrite(s, take) /\ sch' = sch /\ sstat' = sstat
  BY DEF SlaveStep, ctrlVars
<1>2. ~slaveDone(s) /\ slaveDone(s)'
  BY SlaveTurn DEF SlaveStep
<1>3. /\ r \in [Slaves -> RTypes] /\ w \in [Slaves -> WTypes]
      /\ rdriven'[s] = [ready |-> r[s].ready, rdat |-> r[s].rdat]
  BY <1>1 DEF BusInv, TypeOK, RTypes, WTypes, fsmRead
<1>4. ASSUME ~sstat["R"][s].active
      PROVE  ReadFree(s)'
  <2>1. /\ sch[s].raddr = None /\ ~r[s].ready
        /\ r[s] = rInit \/ (r[s].state = "R_End" /\ r[s].rdat = None)
    BY <1>2, <1>4 DEF BusInv, PortInv, SlaveInv, ReadFree
  <2>2. r'[s] = rInit
    <3>1. CASE r[s] = rInit
      BY <1>1, <2>1, <3>1 DEF fsmRead, R_Init, R_Addr, R_End, rInit
    <3>2. CASE r[s].state = "R_End"
      BY <1>1, <1>3, <2>1, <3>2 DEF fsmRead, R_Init, R_Addr, R_End
    <3> QED
      BY <2>1, <3>1, <3>2
  <2>3. ~rdriven'[s].ready /\ rdriven'[s].rdat = None
    BY <1>3, <2>1 DEF rInit
  <2> QED
    BY <1>2, <2>2, <2>3 DEF ReadFree
<1>5. ASSUME ~sstat["W"][s].active
      PROVE  WriteFree(s)'
  <2>1. /\ sch[s].waddr = None
        /\ w[s] = wInit \/ (w[s].state = "W_End" /\ sch[s].wready)
    BY <1>2, <1>5 DEF BusInv, PortInv, SlaveInv, WriteFree
  <2>2. w'[s] = wInit
    <3>1. CASE w[s] = wInit
      BY <1>1, <2>1, <3>1 DEF fsmWrite, W_Init, W_AddrData, W_End, wInit
    <3>2. CASE w[s].state = "W_End" /\ sch[s].wready
      BY <1>1, <1>3, <2>1, <3>2 DEF fsmWrite, W_Init, W_AddrData, W_End
    <3> QED
      BY <2>1, <3>1, <3>2
  <2> QED
    BY <1>2, <2>2 DEF WriteFree
<1> QED
  BY <1>1, <1>4, <1>5 DEF SlaveInv

LEMMA SlaveKeepsInv ==
  ASSUME BusInv, NEW s \in Slaves, NEW d \in Data \union {None}, NEW take \in BOOLEAN,
         SlaveStep(s, d, take)
  PROVE  PortInv'
<1>1. /\ req' = req /\ rw_state' = rw_state /\ in' = in /\ out' = out
      /\ mch' = mch /\ sch' = sch /\ mstat' = mstat /\ sstat' = sstat
  BY DEF SlaveStep, masterVars, ctrlVars
<1>2. /\ \A t \in Slaves : t # s => slaveDone(t)' = slaveDone(t)
      /\ \A m \in Masters : ~masterDone(m) /\ ~masterDone(m)'
  BY SlaveTurn DEF SlaveStep
<1>3. \A t \in Slaves : t # s => r'[t] = r[t] /\ w'[t] = w[t] /\ rdriven'[t] = rdriven[t]
  <2>1. /\ r \in [Slaves -> RTypes] /\ w \in [Slaves -> WTypes]
        /\ rdriven \in [Slaves -> [ready : BOOLEAN, rdat : Data \union {None}]]
    BY DEF BusInv, TypeOK, RTypes, WTypes
  <2>2. fsmRead(s, d) /\ fsmWrite(s, take)
    BY DEF SlaveStep
  <2>3. rdriven' = [rdriven EXCEPT ![s] = [ready |-> r[s].ready, rdat |-> r[s].rdat]]
    BY <2>2 DEF fsmRead
  <2>4. ASSUME NEW t \in Slaves, t # s PROVE r'[t] = r[t]
    BY <2>1, <2>2, <2>4 DEF fsmRead, R_Init, R_Addr, R_End
  <2>5. ASSUME NEW t \in Slaves, t # s PROVE w'[t] = w[t]
    BY <2>1, <2>2, <2>5 DEF fsmWrite, W_Init, W_AddrData, W_End
  <2> QED
    BY <2>1, <2>3, <2>4, <2>5
<1>4. ASSUME NEW m \in Masters
      PROVE  Drives(m)' /\ Connected(m)' /\ ReadMasterInv(m)' /\ WriteMasterInv(m)'
  <2>1. Drives(m) /\ Connected(m) /\ ReadMasterInv(m) /\ WriteMasterInv(m)
    BY DEF BusInv, PortInv
  <2>2. Drives(m)'
    <3>1. rw_state[m] = "RW_Init" => done'[m] = done[m]
      BY DoneIdle
    <3> QED
      BY <1>1, <2>1, <3>1 DEF Drives, Reading, Writing
  <2>3. Connected(m)'
    BY <1>1, <2>1 DEF Connected, Reading, Writing
  <2>4. /\ raddrTold(m)' <=> raddrTold(m)
        /\ waddrTold(m)' <=> waddrTold(m)
        /\ \A x : Did(m, x)' = Did(m, x)
    BY <1>1, <1>2 DEF raddrTold, waddrTold, Did
  <2>5. ASSUME Reading(m), ~mstat["R"][m].active
        PROVE  ReadWaits(m)'
    <3>1. done'[m] = done[m]
      BY <2>5, DoneReader DEF Linked
    <3>2. ReadWaits(m)
      BY <2>1, <2>5 DEF ReadMasterInv
    <3> QED
      BY <1>1, <1>2, <2>4, <3>1, <3>2 DEF ReadWaits
  <2>6. ASSUME Writing(m), ~mstat["W"][m].active
        PROVE  WriteWaits(m)'
    <3>1. done'[m] = done[m]
      BY <2>6, DoneWriter DEF Linked
    <3>2. WriteWaits(m)
      BY <2>1, <2>6 DEF WriteMasterInv
    <3> QED
      BY <1>1, <1>2, <2>4, <3>1, <3>2 DEF WriteWaits
  <2>7. ASSUME NEW t \in Slaves, Linked("R", m, t)
        PROVE  ReadPair(m, t)'
    <3>1. CASE t = s
      BY <2>7, <3>1, SlaveKeepsReadPair
    <3>2. CASE t # s
      <4>1. ReadPair(m, t) /\ Reading(m) /\ ~Linked("R", m, s)
        BY <2>1, <2>7, <3>2 DEF ReadMasterInv, Connected, Linked
      <4>2. done'[m] = done[m]
        BY <4>1, DoneReader
      <4>3. r'[t] = r[t] /\ rdriven'[t] = rdriven[t] /\ slaveDone(t)' = slaveDone(t)
        BY <1>2, <1>3, <3>2
      <4>4. ReadFresh(m, t) => ReadFresh(m, t)'
        BY <1>1, <4>2, <4>3 DEF ReadFresh
      <4>5. ReadTaken(m, t) => ReadTaken(m, t)'
        BY <1>1, <2>4, <4>2, <4>3 DEF ReadTaken
      <4>6. ReadKept(m, t) => ReadKept(m, t)'
        BY <2>4, <4>2, <4>3 DEF ReadKept
      <4>7. ReadPassed(m, t) => ReadPassed(m, t)'
        BY <2>4, <4>2, <4>3 DEF ReadPassed
      <4> QED
        BY <1>1, <1>2, <4>1, <4>3, <4>4, <4>5, <4>6, <4>7 DEF ReadPair
    <3> QED
      BY <3>1, <3>2
  <2>8. ASSUME NEW t \in Slaves, Linked("W", m, t)
        PROVE  WritePair(m, t)'
    <3>1. CASE t = s
      BY <2>8, <3>1, SlaveKeepsWritePair
    <3>2. CASE t # s
      <4>1. WritePair(m, t) /\ Writing(m) /\ ~Linked("W", m, s)
        BY <2>1, <2>8, <3>2 DEF WriteMasterInv, Connected, Linked
      <4>2. done'[m] = done[m]
        BY <4>1, DoneWriter
      <4>3. w'[t] = w[t] /\ slaveDone(t)' = slaveDone(t)
        BY <1>2, <1>3, <3>2
      <4>4. WriteFresh(m, t) => WriteFresh(m, t)'
        BY <1>1, <4>2, <4>3 DEF WriteFresh
      <4>5. WriteTaken(m, t) => WriteTaken(m, t)'
        BY <1>1, <2>4, <4>2, <4>3 DEF WriteTaken
      <4>6. WriteServed(m, t) => WriteServed(m, t)'
        BY <1>1, <2>4, <4>2, <4>3 DEF WriteServed
      <4> QED
        BY <1>1, <1>2, <4>1, <4>3, <4>4, <4>5, <4>6 DEF WritePair
    <3> QED
      BY <3>1, <3>2
  <2>9. ReadMasterInv(m)'
    BY <1>1, <2>5, <2>7 DEF ReadMasterInv, Reading, Linked
  <2>10. WriteMasterInv(m)'
    BY <1>1, <2>6, <2>8 DEF WriteMasterInv, Writing, Linked
  <2> QED
    BY <2>2, <2>3, <2>9, <2>10
<1>5. ASSUME NEW t \in Slaves
      PROVE  SlaveInv(t)'
  <2>1. CASE t = s
    BY <2>1, SlaveStaysFree
  <2>2. CASE t # s
    <3>1. SlaveInv(t)
      BY DEF BusInv, PortInv
    <3> QED
      BY <1>1, <1>2, <1>3, <2>2, <3>1 DEF SlaveInv, ReadFree, WriteFree
  <2> QED
    BY <2>1, <2>2
<1>6. done' = [m \in Masters |-> done'[m]]
  BY SlaveEffects
<1> QED
  BY <1>4, <1>5, <1>6 DEF PortInv

(* It is Perform for the masters the device has served, or a stutter. *)
LEMMA SlaveImplements ==
  ASSUME BusInv, NEW s \in Slaves, NEW d \in Data \union {None}, NEW take \in BOOLEAN,
         SlaveStep(s, d, take)
  PROVE  [Port!PortNext]_(Port!portVars)
<1> DEFINE rm == sstat["R"][s].masterID
           wm == sstat["W"][s].masterID
           M == {m \in Masters : \/ readsNow(s, d) /\ m = rm
                                 \/ writesNow(s, take) /\ m = wm}
<1>1. turn = s /\ NextTurn /\ req' = req /\ latched_data' = latched_data
  BY DEF SlaveStep, masterVars
<1>2. readsNow(s, d) => /\ rm \in Masters /\ Reading(rm) /\ done[rm] = None /\ d \in Data
  BY <1>1, ReadEffect
<1>3. writesNow(s, take) => wm \in Masters /\ Writing(wm) /\ done[wm] = None
  BY <1>1, WriteEffect
<1>4. /\ done' = [m \in Masters |-> done'[m]]
      /\ \A m \in Masters :
           done'[m] = IF readsNow(s, d) /\ m = rm THEN Did(m, d)
                      ELSE IF writesNow(s, take) /\ m = wm
                           THEN Did(m, req[m].data) ELSE done[m]
  BY SlaveEffects
<1> HIDE DEF rm, wm
<1>5. ASSUME NEW m \in M
      PROVE  req[m] # None /\ done[m] = None /\ done'[m] \in Port!Accesses(req[m])
  <2>0. m \in Masters /\ Drives(m)
    BY DEF BusInv, PortInv
  <2>1. CASE readsNow(s, d) /\ m = rm
    <3>1. req[m] \in Requests /\ req[m].op = "Read"
      BY <1>2, <2>0, <2>1 DEF Drives
    <3>2. done'[m] = Did(m, d) /\ d \in Data /\ done[m] = None
      BY <1>2, <1>4, <2>0, <2>1
    <3> QED
      BY <3>1, <3>2, NoneAssumption DEF Port!Accesses, Did, Access
  <2>2. CASE writesNow(s, take) /\ m = wm
    <3>1. req[m] \in Requests /\ req[m].op = "Write"
      BY <1>3, <2>0, <2>2 DEF Drives
    <3>2. ~(readsNow(s, d) /\ m = rm)
      BY <1>2, <1>3, <2>2 DEF Reading, Writing
    <3>3. done'[m] = Did(m, req[m].data) /\ done[m] = None
      BY <1>3, <1>4, <2>0, <2>2, <3>2
    <3> QED
      BY <3>1, <3>3, NoneAssumption DEF Port!Accesses, Did, Access
  <2> QED
    BY <2>1, <2>2
<1>6. \A m \in Masters : m \notin M => done'[m] = done[m]
  BY <1>4
<1>7. M \in SUBSET Masters
  OBVIOUS
<1> HIDE DEF M
<1>8. CASE M = {}
  <2>1. done' = done
    <3>1. done = [m \in Masters |-> done[m]]
      BY DEF BusInv, PortInv
    <3>2. \A m \in Masters : done'[m] = done[m]
      BY <1>6, <1>8
    <3> QED
      BY <1>4, <3>1, <3>2
  <2> QED
    BY <1>1, <2>1 DEF Port!portVars
<1>9. CASE M # {}
  <2>1. done' = [m \in Masters |-> IF m \in M THEN done'[m] ELSE done[m]]
    BY <1>4, <1>6
  <2>2. Port!Perform(M)
    BY <1>1, <1>5, <1>9, <2>1 DEF Port!Perform
  <2> QED
    BY <1>7, <2>2 DEF Port!PortNext
<1> QED
  BY <1>8, <1>9

-----------------------------------------------------------------------------
(* A master's step.                                                        *)

(* The answer is on the wires of a master only once it is disconnected,    *)
(* and then it is what the device has done.                                *)
LEMMA ReadAnswered ==
  ASSUME BusInv, NEW m \in Masters, ~masterDone(m), Reading(m), mch[m].rdat # None
  PROVE  /\ ~mstat["R"][m].active /\ in[m] = {"raddr"}
         /\ mch[m].rdat \in Data /\ done[m] = Did(m, mch[m].rdat)
<1>1. ReadMasterInv(m)
  BY DEF BusInv, PortInv
<1>2. mch[m].rdat \in Data
  BY DEF BusInv, TypeOK, SLWires
<1>3. ~mstat["R"][m].active
  <2> SUFFICES ASSUME mstat["R"][m].active PROVE FALSE
    OBVIOUS
  <2>1. mstat["R"][m].slaveID \in Slaves
    BY DEF BusInv, TypeOK, CtrlTypeOK, Channels
  <2>2. ReadPair(m, mstat["R"][m].slaveID)
    BY <1>1, <2>1 DEF ReadMasterInv, Linked
  <2> QED
    BY <2>2 DEF ReadPair
<1> QED
  BY <1>1, <1>2, <1>3 DEF ReadMasterInv, ReadWaits

LEMMA WriteAnswered ==
  ASSUME BusInv, NEW m \in Masters, ~masterDone(m), Writing(m), mch[m].wdat \/ mch[m].wres
  PROVE  /\ ~mstat["W"][m].active /\ in[m] = {"waddr"}
         /\ mch[m].wdat /\ mch[m].wres /\ done[m] = Did(m, req[m].data)
<1>1. WriteMasterInv(m)
  BY DEF BusInv, PortInv
<1>2. ~mstat["W"][m].active
  <2> SUFFICES ASSUME mstat["W"][m].active PROVE FALSE
    OBVIOUS
  <2>1. mstat["W"][m].slaveID \in Slaves
    BY DEF BusInv, TypeOK, CtrlTypeOK, Channels
  <2>2. WritePair(m, mstat["W"][m].slaveID)
    BY <1>1, <2>1 DEF WriteMasterInv, Linked
  <2> QED
    BY <2>2 DEF WritePair
<1> QED
  BY <1>1, <1>2 DEF WriteMasterInv, WriteWaits

(* AwaitRead without an answer notes the address handshake at most. *)
LEMMA ReadGoesOn ==
  ASSUME BusInv, NEW m \in Masters, AwaitRead(m), mch[m].rdat = None
  PROVE  /\ UNCHANGED <<req, rw_state, done, latched_data>>
         /\ in' = [in EXCEPT ![m] = IF mch[m].raddr THEN @ \union {"raddr"} ELSE @]
         /\ out' = [out EXCEPT ![m].raddr = IF mch[m].raddr THEN None ELSE @]
<1> DEFINE seen == {h \in {"raddr", "rdat"} : IF h = "raddr" THEN mch[m].raddr
                                                             ELSE mch[m].rdat # None}
<1>1. /\ out' = [out EXCEPT ![m].raddr = IF "raddr" \in seen THEN None ELSE @,
                            ![m].rready = @ /\ "rdat" \notin seen]
      /\ latched_data' = IF "rdat" \in seen
                         THEN [latched_data EXCEPT ![m] = mch[m].rdat] ELSE latched_data
      /\ Finish(m, seen, {"raddr", "rdat"})
  BY DEF AwaitRead
<1>2. /\ mch[m].raddr \in BOOLEAN /\ out \in [Masters -> MAWires] /\ out[m] \in MAWires
      /\ in \in [Masters -> SUBSET Handshakes]
  BY DEF BusInv, TypeOK, SLWires, Handshakes
<1>3. seen = IF mch[m].raddr THEN {"raddr"} ELSE {}
  BY <1>2
<1>4. in[m] \subseteq {"raddr"}
  BY DEF BusInv, PortInv, Drives, AwaitRead, Reading
<1> HIDE DEF seen
<1>5. ~({"raddr", "rdat"} \subseteq in[m] \union seen)
  BY <1>3, <1>4
<1>6. in' = [in EXCEPT ![m] = @ \union seen] /\ UNCHANGED <<rw_state, req, done>>
  BY <1>1, <1>5, Zenon DEF Finish
<1>7. in' = [in EXCEPT ![m] = IF mch[m].raddr THEN @ \union {"raddr"} ELSE @]
  BY <1>2, <1>3, <1>6
<1>8. out' = [out EXCEPT ![m].raddr = IF mch[m].raddr THEN None ELSE @]
  <2>1. "rdat" \notin seen /\ ("raddr" \in seen <=> mch[m].raddr)
    BY <1>2, <1>3
  <2>2. out' = [out EXCEPT ![m] = [out[m] EXCEPT !.raddr = IF "raddr" \in seen THEN None ELSE @,
                                                 !.rready = @ /\ "rdat" \notin seen]]
    BY <1>1, <1>2
  <2>3. (out[m].rready /\ "rdat" \notin seen) = out[m].rready
    BY <1>2, <2>1 DEF MAWires
  <2>4. [out[m] EXCEPT !.raddr = IF "raddr" \in seen THEN None ELSE @,
                       !.rready = @ /\ "rdat" \notin seen]
          = [out[m] EXCEPT !.raddr = IF mch[m].raddr THEN None ELSE @]
    BY <1>2, <2>1, <2>3 DEF MAWires
  <2> QED
    BY <1>2, <2>2, <2>4
<1> QED
  BY <1>1, <1>3, <1>6, <1>7, <1>8

(* With the answer, the access is over. *)
LEMMA ReadEnds ==
  ASSUME BusInv, NEW m \in Masters, ~masterDone(m), AwaitRead(m), mch[m].rdat # None
  PROVE  /\ rw_state' = [rw_state EXCEPT ![m] = "RW_Init"]
         /\ req' = [req EXCEPT ![m] = None] /\ done' = [done EXCEPT ![m] = None]
         /\ in' = [in EXCEPT ![m] = {}]
         /\ latched_data' = [latched_data EXCEPT ![m] = mch[m].rdat]
         /\ out' = [out EXCEPT ![m].rready = FALSE]
<1> DEFINE seen == {h \in {"raddr", "rdat"} : IF h = "raddr" THEN mch[m].raddr
                                                             ELSE mch[m].rdat # None}
<1>1. /\ out' = [out EXCEPT ![m].raddr = IF "raddr" \in seen THEN None ELSE @,
                            ![m].rready = @ /\ "rdat" \notin seen]
      /\ latched_data' = IF "rdat" \in seen
                         THEN [latched_data EXCEPT ![m] = mch[m].rdat] ELSE latched_data
      /\ Finish(m, seen, {"raddr", "rdat"})
  BY DEF AwaitRead
<1>2. out \in [Masters -> MAWires] /\ out[m] \in MAWires
  BY DEF BusInv, TypeOK
<1>3. "rdat" \in seen
  OBVIOUS
<1>4. in[m] = {"raddr"} /\ out[m].raddr = None
  BY ReadAnswered DEF BusInv, PortInv, Drives, AwaitRead, Reading
<1> HIDE DEF seen
<1>5. {"raddr", "rdat"} \subseteq in[m] \union seen
  BY <1>3, <1>4
<1>6. /\ rw_state' = [rw_state EXCEPT ![m] = "RW_Init"]
      /\ req' = [req EXCEPT ![m] = None] /\ done' = [done EXCEPT ![m] = None]
      /\ in' = [in EXCEPT ![m] = {}]
  BY <1>1, <1>5, Zenon DEF Finish
<1>7. out' = [out EXCEPT ![m].rready = FALSE]
  BY <1>1, <1>2, <1>3, <1>4 DEF MAWires
<1> QED
  BY <1>1, <1>3, <1>6, <1>7

LEMMA WriteGoesOn ==
  ASSUME BusInv, NEW m \in Masters, AwaitWrite(m), ~mch[m].wdat, ~mch[m].wres
  PROVE  /\ UNCHANGED <<req, rw_state, done, latched_data>>
         /\ in' = [in EXCEPT ![m] = IF mch[m].waddr THEN @ \union {"waddr"} ELSE @]
         /\ out' = [out EXCEPT ![m].waddr = IF mch[m].waddr THEN None ELSE @]
<1> DEFINE seen == {h \in {"waddr", "wdat", "wres"} : mch[m][h]}
<1>1. /\ out' = [out EXCEPT ![m].waddr = IF "waddr" \in seen THEN None ELSE @,
                            ![m].wdat = IF "wdat" \in seen THEN None ELSE @,
                            ![m].wready = @ /\ "wres" \notin seen]
      /\ Finish(m, seen, {"waddr", "wdat", "wres"})
      /\ UNCHANGED latched_data
  BY DEF AwaitWrite
<1>2. /\ mch[m].waddr \in BOOLEAN /\ out \in [Masters -> MAWires] /\ out[m] \in MAWires
      /\ in \in [Masters -> SUBSET Handshakes]
  BY DEF BusInv, TypeOK, SLWires, Handshakes
<1>3. seen = IF mch[m].waddr THEN {"waddr"} ELSE {}
  <2>1. mch[m]["waddr"] = mch[m].waddr /\ mch[m]["wdat"] = mch[m].wdat
        /\ mch[m]["wres"] = mch[m].wres
    OBVIOUS
  <2> QED
    BY <1>2, <2>1
<1>4. in[m] \subseteq {"waddr"}
  BY DEF BusInv, PortInv, Drives, AwaitWrite, Writing
<1> HIDE DEF seen
<1>5. ~({"waddr", "wdat", "wres"} \subseteq in[m] \union seen)
  BY <1>3, <1>4
<1>6. in' = [in EXCEPT ![m] = @ \union seen] /\ UNCHANGED <<rw_state, req, done>>
  BY <1>1, <1>5, Zenon DEF Finish
<1>7. in' = [in EXCEPT ![m] = IF mch[m].waddr THEN @ \union {"waddr"} ELSE @]
  BY <1>2, <1>3, <1>6
<1>8. out' = [out EXCEPT ![m].waddr = IF mch[m].waddr THEN None ELSE @]
  <2>1. "wdat" \notin seen /\ "wres" \notin seen /\ ("waddr" \in seen <=> mch[m].waddr)
    BY <1>2, <1>3
  <2> QED
    BY <1>1, <1>2, <2>1 DEF MAWires
<1> QED
  BY <1>1, <1>6, <1>7, <1>8

LEMMA WriteEnds ==
  ASSUME BusInv, NEW m \in Masters, ~masterDone(m), AwaitWrite(m), mch[m].wdat \/ mch[m].wres
  PROVE  /\ rw_state' = [rw_state EXCEPT ![m] = "RW_Init"]
         /\ req' = [req EXCEPT ![m] = None] /\ done' = [done EXCEPT ![m] = None]
         /\ in' = [in EXCEPT ![m] = {}]
         /\ latched_data' = latched_data
         /\ out' = [out EXCEPT ![m] = [@ EXCEPT !.wdat = None, !.wready = FALSE]]
<1> DEFINE seen == {h \in {"waddr", "wdat", "wres"} : mch[m][h]}
<1>1. /\ out' = [out EXCEPT ![m].waddr = IF "waddr" \in seen THEN None ELSE @,
                            ![m].wdat = IF "wdat" \in seen THEN None ELSE @,
                            ![m].wready = @ /\ "wres" \notin seen]
      /\ Finish(m, seen, {"waddr", "wdat", "wres"})
      /\ UNCHANGED latched_data
  BY DEF AwaitWrite
<1>2. out \in [Masters -> MAWires] /\ out[m] \in MAWires
  BY DEF BusInv, TypeOK
<1>3. /\ in[m] = {"waddr"} /\ mch[m].wdat /\ mch[m].wres /\ out[m].waddr = None
  BY WriteAnswered DEF BusInv, PortInv, Drives, AwaitWrite, Writing
<1>4. "wdat" \in seen /\ "wres" \in seen
  BY <1>3
<1> HIDE DEF seen
<1>5. {"waddr", "wdat", "wres"} \subseteq in[m] \union seen
  BY <1>3, <1>4
<1>6. /\ rw_state' = [rw_state EXCEPT ![m] = "RW_Init"]
      /\ req' = [req EXCEPT ![m] = None] /\ done' = [done EXCEPT ![m] = None]
      /\ in' = [in EXCEPT ![m] = {}]
  BY <1>1, <1>5, Zenon DEF Finish
<1>7. out' = [out EXCEPT ![m] = [@ EXCEPT !.wdat = None, !.wready = FALSE]]
  <2>1. out' = [out EXCEPT ![m] = [out[m] EXCEPT !.waddr = IF "waddr" \in seen THEN None ELSE @,
                                                 !.wdat = IF "wdat" \in seen THEN None ELSE @,
                                                 !.wready = @ /\ "wres" \notin seen]]
    BY <1>1, <1>2
  <2>2. (out[m].wready /\ "wres" \notin seen) = FALSE
    BY <1>4
  <2>3. [out[m] EXCEPT !.waddr = IF "waddr" \in seen THEN None ELSE @,
                       !.wdat = IF "wdat" \in seen THEN None ELSE @,
                       !.wready = @ /\ "wres" \notin seen]
          = [out[m] EXCEPT !.wdat = None, !.wready = FALSE]
    BY <1>2, <1>3, <1>4, <2>2 DEF MAWires
  <2> QED
    BY <1>2, <2>1, <2>3
<1> QED
  BY <1>1, <1>6, <1>7

(* The other masters are left alone. *)
LEMMA MasterFrame ==
  ASSUME BusInv, NEW m \in Masters, MasterStep(m)
  PROVE  /\ done' = [k \in Masters |-> done'[k]]
         /\ \A k \in Masters : k # m =>
              /\ req'[k] = req[k] /\ rw_state'[k] = rw_state[k] /\ in'[k] = in[k]
              /\ out'[k] = out[k] /\ done'[k] = done[k]
<1>0. ~masterDone(m)
  BY MasterTurn DEF MasterStep
<1>1. /\ req \in [Masters -> Requests \union {None}]
      /\ rw_state \in [Masters -> {"RW_Init", "RW_RAddr", "RW_WAddr"}]
      /\ in \in [Masters -> SUBSET Handshakes] /\ out \in [Masters -> MAWires]
      /\ done = [k \in Masters |-> done[k]]
  BY DEF BusInv, TypeOK, PortInv, Handshakes
<1>2. CASE Idle(m)
  BY <1>1, <1>2 DEF Idle, masterVars
<1>3. ASSUME NEW q \in Requests, StartRead(m, q) \/ StartWrite(m, q)
      PROVE  /\ done' = [k \in Masters |-> done'[k]]
             /\ \A k \in Masters : k # m =>
                  /\ req'[k] = req[k] /\ rw_state'[k] = rw_state[k] /\ in'[k] = in[k]
                  /\ out'[k] = out[k] /\ done'[k] = done[k]
  BY <1>1, <1>3 DEF StartRead, StartWrite
<1>4. CASE AwaitRead(m) /\ mch[m].rdat = None
  BY <1>1, <1>4, ReadGoesOn
<1>5. CASE AwaitRead(m) /\ mch[m].rdat # None
  BY <1>0, <1>1, <1>5, ReadEnds
<1>6. CASE AwaitWrite(m) /\ ~mch[m].wdat /\ ~mch[m].wres
  BY <1>1, <1>6, WriteGoesOn
<1>7. CASE AwaitWrite(m) /\ (mch[m].wdat \/ mch[m].wres)
  <2>1. /\ rw_state' = [rw_state EXCEPT ![m] = "RW_Init"]
        /\ req' = [req EXCEPT ![m] = None] /\ done' = [done EXCEPT ![m] = None]
        /\ in' = [in EXCEPT ![m] = {}]
        /\ out' = [out EXCEPT ![m] = [@ EXCEPT !.wdat = None, !.wready = FALSE]]
    BY <1>0, <1>7, WriteEnds
  <2> QED
    BY <1>1, <2>1
<1> QED
  BY <1>2, <1>3, <1>4, <1>5, <1>6, <1>7 DEF MasterStep

LEMMA MasterKeepsOwn ==
  ASSUME BusInv, NEW m \in Masters, MasterStep(m)
  PROVE  Drives(m)' /\ Connected(m)' /\ ReadMasterInv(m)' /\ WriteMasterInv(m)'
<1>0. /\ ~masterDone(m) /\ masterDone(m)'
      /\ \A s \in Slaves : slaveDone(s) /\ slaveDone(s)'
  BY MasterTurn DEF MasterStep
<1>1. /\ req \in [Masters -> Requests \union {None}]
      /\ rw_state \in [Masters -> {"RW_Init", "RW_RAddr", "RW_WAddr"}]
      /\ in \in [Masters -> SUBSET Handshakes]
      /\ out \in [Masters -> MAWires] /\ out[m] \in MAWires
      /\ done = [k \in Masters |-> done[k]]
  BY DEF BusInv, TypeOK, PortInv, Handshakes
<1>2. Drives(m) /\ Connected(m) /\ ReadMasterInv(m) /\ WriteMasterInv(m)
  BY DEF BusInv, PortInv
<1>3. r' = r /\ w' = w /\ rdriven' = rdriven /\ mch' = mch /\ sch' = sch /\ mstat' = mstat
  BY DEF MasterStep, slaveVars, ctrlVars
<1>4. \A s \in Slaves : /\ Linked("R", m, s)' <=> Linked("R", m, s)
                        /\ Linked("W", m, s)' <=> Linked("W", m, s)
  BY <1>3 DEF Linked
<1>5. CASE Idle(m)
  <2>1. /\ rw_state[m] = "RW_Init" /\ rw_state' = rw_state /\ req' = req /\ in' = in
        /\ out' = out /\ done' = done
    BY <1>5 DEF Idle, masterVars
  <2>2. ~mstat["R"][m].active /\ ~mstat["W"][m].active
    BY <1>2, <2>1 DEF Connected, Reading, Writing
  <2>3. Drives(m)' /\ Connected(m)'
    BY <1>2, <1>3, <2>1, <2>2 DEF Drives, Connected, Reading, Writing
  <2>4. ReadMasterInv(m)' /\ WriteMasterInv(m)'
    BY <1>3, <1>4, <2>1, <2>2 DEF ReadMasterInv, WriteMasterInv, Reading, Writing, Linked
  <2> QED
    BY <2>3, <2>4
<1>6. ASSUME NEW q \in Requests, StartRead(m, q)
      PROVE  Drives(m)' /\ Connected(m)' /\ ReadMasterInv(m)' /\ WriteMasterInv(m)'
  <2>1. rw_state[m] = "RW_Init" /\ q.op = "Read" /\ in[m] = {} /\ done[m] = None
    BY <1>2, <1>6 DEF StartRead, Drives
  <2>2. /\ rw_state'[m] = "RW_RAddr" /\ req'[m] = q /\ in'[m] = {} /\ done'[m] = None
    BY <1>1, <1>6, <2>1 DEF StartRead
  <2>3. /\ out'[m].raddr = q.addr /\ out'[m].rready
        /\ out'[m].waddr = out[m].waddr /\ out'[m].wdat = out[m].wdat
        /\ out'[m].wready = out[m].wready
    BY <1>1, <1>6 DEF StartRead, MAWires
  <2>4. ~mstat["R"][m].active /\ ~mstat["W"][m].active
    BY <1>2, <2>1 DEF Connected, Reading, Writing
  <2>5. Drives(m)'
    BY <1>2, <2>1, <2>2, <2>3 DEF Drives, Reading, Writing
  <2>6. Connected(m)'
    BY <1>3, <2>4 DEF Connected
  <2>7. ReadWaits(m)'
    BY <1>0, <2>2 DEF ReadWaits
  <2>8. ReadMasterInv(m)' /\ WriteMasterInv(m)'
    BY <1>3, <1>4, <2>2, <2>4, <2>7 DEF ReadMasterInv, WriteMasterInv, Reading, Writing, Linked
  <2> QED
    BY <2>5, <2>6, <2>8
<1>7. ASSUME NEW q \in Requests, StartWrite(m, q)
      PROVE  Drives(m)' /\ Connected(m)' /\ ReadMasterInv(m)' /\ WriteMasterInv(m)'
  <2>1. rw_state[m] = "RW_Init" /\ q.op = "Write" /\ in[m] = {} /\ done[m] = None
    BY <1>2, <1>7 DEF StartWrite, Drives
  <2>2. /\ rw_state'[m] = "RW_WAddr" /\ req'[m] = q /\ in'[m] = {} /\ done'[m] = None
    BY <1>1, <1>7, <2>1 DEF StartWrite
  <2>3. /\ out'[m].waddr = q.addr /\ out'[m].wdat = q.data /\ out'[m].wready
        /\ out'[m].raddr = out[m].raddr /\ out'[m].rready = out[m].rready
    BY <1>1, <1>7 DEF StartWrite, MAWires
  <2>4. ~mstat["R"][m].active /\ ~mstat["W"][m].active
    BY <1>2, <2>1 DEF Connected, Reading, Writing
  <2>5. Drives(m)'
    BY <1>2, <2>1, <2>2, <2>3 DEF Drives, Reading, Writing
  <2>6. Connected(m)'
    BY <1>3, <2>4 DEF Connected
  <2>7. WriteWaits(m)'
    BY <1>0, <2>2 DEF WriteWaits
  <2>8. ReadMasterInv(m)' /\ WriteMasterInv(m)'
    BY <1>3, <1>4, <2>2, <2>4, <2>7 DEF ReadMasterInv, WriteMasterInv, Reading, Writing, Linked
  <2> QED
    BY <2>5, <2>6, <2>8
<1>8. CASE AwaitRead(m) /\ mch[m].rdat = None
  <2>1. Reading(m) /\ ~Writing(m)
    BY <1>8 DEF AwaitRead, Reading, Writing
  <2>2. req' = req /\ rw_state' = rw_state /\ done' = done
    BY <1>8, ReadGoesOn
  <2>3. in'[m] = IF mch[m].raddr THEN in[m] \union {"raddr"} ELSE in[m]
    BY <1>1, <1>8, ReadGoesOn
  <2>4. /\ out'[m].raddr = IF mch[m].raddr THEN None ELSE out[m].raddr
        /\ out'[m].rready = out[m].rready /\ out'[m].waddr = out[m].waddr
        /\ out'[m].wdat = out[m].wdat /\ out'[m].wready = out[m].wready
    BY <1>1, <1>8, ReadGoesOn DEF MAWires
  <2>5. Drives(m)'
    BY <1>2, <2>1, <2>2, <2>3, <2>4 DEF Drives, Reading, Writing
  <2>6. Connected(m)'
    BY <1>2, <1>3, <2>2 DEF Connected, Reading, Writing
  <2>7. ASSUME ~mstat["R"][m].active PROVE ReadWaits(m)'
    <3>1. in[m] = {} /\ done[m] = None /\ ~mch[m].raddr
      BY <1>0, <1>2, <1>8, <2>1, <2>7 DEF ReadMasterInv, ReadWaits
    <3> QED
      BY <1>0, <2>2, <2>3, <3>1 DEF ReadWaits
  <2>8. ASSUME NEW s \in Slaves, Linked("R", m, s) PROVE ReadPair(m, s)'
    <3>1. ReadPair(m, s)
      BY <1>2, <2>8 DEF ReadMasterInv
    <3>2. raddrTold(m)' <=> raddrTold(m)
      BY <1>0, <2>3 DEF raddrTold
    <3>3. \A x : Did(m, x)' = Did(m, x)
      BY <2>2 DEF Did
    <3>4. ~ReadFresh(m, s)
      BY <1>0 DEF ReadFresh
    <3>5. ReadTaken(m, s) => ReadTaken(m, s)'
      BY <1>0, <1>3, <2>2, <3>2 DEF ReadTaken
    <3>6. ReadKept(m, s) => ReadKept(m, s)'
      BY <1>0, <1>3, <2>2, <3>2, <3>3 DEF ReadKept
    <3>7. ReadPassed(m, s) => ReadPassed(m, s)'
      BY <1>0, <1>3, <2>2, <3>2, <3>3 DEF ReadPassed
    <3> QED
      BY <1>0, <3>1, <3>4, <3>5, <3>6, <3>7 DEF ReadPair
  <2>9. ReadMasterInv(m)'
    BY <1>3, <1>4, <2>7, <2>8 DEF ReadMasterInv
  <2>10. WriteMasterInv(m)'
    <3>1. ~mstat["W"][m].active /\ ~(Writing(m)')
      BY <1>2, <2>1, <2>2 DEF Connected, Writing
    <3> QED
      BY <1>4, <3>1 DEF WriteMasterInv, Linked
  <2> QED
    BY <2>5, <2>6, <2>9, <2>10
<1>9. CASE AwaitRead(m) /\ mch[m].rdat # None
  <2>1. Reading(m) /\ ~mstat["R"][m].active /\ in[m] = {"raddr"}
    BY <1>0, <1>9, ReadAnswered DEF AwaitRead, Reading
  <2>2. ~mstat["W"][m].active
    BY <1>2, <2>1 DEF Connected, Reading, Writing
  <2>3. rw_state'[m] = "RW_Init" /\ req'[m] = None /\ done'[m] = None /\ in'[m] = {}
    BY <1>0, <1>1, <1>9, ReadEnds
  <2>4. /\ out'[m].raddr = out[m].raddr
        /\ ~out'[m].rready /\ out'[m].waddr = out[m].waddr
        /\ out'[m].wdat = out[m].wdat /\ out'[m].wready = out[m].wready
    BY <1>0, <1>1, <1>9, ReadEnds DEF MAWires
  <2>5. Drives(m)'
    BY <1>2, <2>1, <2>3, <2>4 DEF Drives, Reading, Writing
  <2>6. Connected(m)'
    BY <1>3, <2>1, <2>2 DEF Connected
  <2>7. ReadMasterInv(m)' /\ WriteMasterInv(m)'
    BY <1>4, <2>1, <2>2, <2>3 DEF ReadMasterInv, WriteMasterInv, Reading, Writing, Linked
  <2> QED
    BY <2>5, <2>6, <2>7
<1>10. CASE AwaitWrite(m) /\ ~mch[m].wdat /\ ~mch[m].wres
  <2>1. Writing(m) /\ ~Reading(m)
    BY <1>10 DEF AwaitWrite, Reading, Writing
  <2>2. req' = req /\ rw_state' = rw_state /\ done' = done
    BY <1>10, WriteGoesOn
  <2>3. in'[m] = IF mch[m].waddr THEN in[m] \union {"waddr"} ELSE in[m]
    BY <1>1, <1>10, WriteGoesOn
  <2>4. /\ out'[m].waddr = IF mch[m].waddr THEN None ELSE out[m].waddr
        /\ out'[m].rready = out[m].rready /\ out'[m].raddr = out[m].raddr
        /\ out'[m].wdat = out[m].wdat /\ out'[m].wready = out[m].wready
    BY <1>1, <1>10, WriteGoesOn DEF MAWires
  <2>5. Drives(m)'
    BY <1>2, <2>1, <2>2, <2>3, <2>4 DEF Drives, Reading, Writing
  <2>6. Connected(m)'
    BY <1>2, <1>3, <2>2 DEF Connected, Reading, Writing
  <2>7. ASSUME ~mstat["W"][m].active PROVE WriteWaits(m)'
    <3>1. in[m] = {} /\ done[m] = None /\ ~mch[m].waddr
      BY <1>0, <1>2, <1>10, <2>1, <2>7 DEF WriteMasterInv, WriteWaits
    <3> QED
      BY <1>0, <2>2, <2>3, <3>1 DEF WriteWaits
  <2>8. ASSUME NEW s \in Slaves, Linked("W", m, s) PROVE WritePair(m, s)'
    <3>1. WritePair(m, s)
      BY <1>2, <2>8 DEF WriteMasterInv
    <3>2. waddrTold(m)' <=> waddrTold(m)
      BY <1>0, <2>3 DEF waddrTold
    <3>3. \A x : Did(m, x)' = Did(m, x)
      BY <2>2 DEF Did
    <3>4. ~WriteFresh(m, s)
      BY <1>0 DEF WriteFresh
    <3>5. WriteTaken(m, s) => WriteTaken(m, s)'
      BY <1>0, <1>3, <2>2, <3>2 DEF WriteTaken
    <3>6. WriteServed(m, s) => WriteServed(m, s)'
      BY <1>0, <1>3, <2>2, <3>2, <3>3 DEF WriteServed
    <3> QED
      BY <1>0, <3>1, <3>4, <3>5, <3>6 DEF WritePair
  <2>9. WriteMasterInv(m)'
    BY <1>3, <1>4, <2>7, <2>8 DEF WriteMasterInv
  <2>10. ReadMasterInv(m)'
    <3>1. ~mstat["R"][m].active /\ ~(Reading(m)')
      BY <1>2, <2>1, <2>2 DEF Connected, Reading
    <3> QED
      BY <1>4, <3>1 DEF ReadMasterInv, Linked
  <2> QED
    BY <2>5, <2>6, <2>9, <2>10
<1>11. CASE AwaitWrite(m) /\ (mch[m].wdat \/ mch[m].wres)
  <2>1. Writing(m) /\ ~mstat["W"][m].active /\ in[m] = {"waddr"}
    BY <1>0, <1>11, WriteAnswered DEF AwaitWrite, Writing
  <2>2. ~mstat["R"][m].active
    BY <1>2, <2>1 DEF Connected, Reading, Writing
  <2>3. rw_state'[m] = "RW_Init" /\ req'[m] = None /\ done'[m] = None /\ in'[m] = {}
    BY <1>0, <1>1, <1>11, WriteEnds
  <2>4. /\ out'[m].waddr = out[m].waddr /\ out'[m].wdat = None
        /\ ~out'[m].wready /\ out'[m].raddr = out[m].raddr
        /\ out'[m].rready = out[m].rready
    <3>1. out' = [out EXCEPT ![m] = [@ EXCEPT !.wdat = None, !.wready = FALSE]]
      BY <1>0, <1>11, WriteEnds
    <3> QED
      BY <1>1, <3>1 DEF MAWires
  <2>5. Drives(m)'
    BY <1>2, <2>1, <2>3, <2>4 DEF Drives, Reading, Writing
  <2>6. Connected(m)'
    BY <1>3, <2>1, <2>2 DEF Connected
  <2>7. ReadMasterInv(m)' /\ WriteMasterInv(m)'
    BY <1>4, <2>1, <2>2, <2>3 DEF ReadMasterInv, WriteMasterInv, Reading, Writing, Linked
  <2> QED
    BY <2>5, <2>6, <2>7
<1> QED
  BY <1>5, <1>6, <1>7, <1>8, <1>9, <1>10, <1>11 DEF MasterStep

LEMMA MasterKeepsInv ==
  ASSUME BusInv, NEW m \in Masters, MasterStep(m)
  PROVE  PortInv'
<1>1. /\ \A s \in Slaves : slaveDone(s) /\ slaveDone(s)'
      /\ \A k \in Masters : k # m => masterDone(k)' = masterDone(k)
  BY MasterTurn DEF MasterStep
<1>2. /\ r' = r /\ w' = w /\ rdriven' = rdriven /\ mch' = mch /\ sch' = sch
      /\ mstat' = mstat /\ sstat' = sstat
  BY DEF MasterStep, slaveVars, ctrlVars
<1>3. ASSUME NEW k \in Masters
      PROVE  Drives(k)' /\ Connected(k)' /\ ReadMasterInv(k)' /\ WriteMasterInv(k)'
  <2>1. CASE k = m
    BY <2>1, MasterKeepsOwn
  <2>2. CASE k # m
    <3>1. Drives(k) /\ Connected(k) /\ ReadMasterInv(k) /\ WriteMasterInv(k)
      BY DEF BusInv, PortInv
    <3>2. /\ req'[k] = req[k] /\ rw_state'[k] = rw_state[k] /\ in'[k] = in[k]
          /\ out'[k] = out[k] /\ done'[k] = done[k] /\ masterDone(k)' = masterDone(k)
      BY <1>1, <2>2, MasterFrame
    <3>3. Drives(k)' /\ Connected(k)'
      BY <1>2, <3>1, <3>2 DEF Drives, Connected, Reading, Writing
    <3>4. /\ raddrTold(k)' <=> raddrTold(k)
          /\ waddrTold(k)' <=> waddrTold(k)
          /\ \A x : Did(k, x)' = Did(k, x)
          /\ Reading(k)' <=> Reading(k)
          /\ Writing(k)' <=> Writing(k)
      BY <1>2, <3>2 DEF raddrTold, waddrTold, Did, Reading, Writing
    <3>5. ReadWaits(k) => ReadWaits(k)'
      BY <1>2, <3>2, <3>4 DEF ReadWaits
    <3>6. WriteWaits(k) => WriteWaits(k)'
      BY <1>2, <3>2, <3>4 DEF WriteWaits
    <3>7. ASSUME NEW s \in Slaves, ReadPair(k, s) PROVE ReadPair(k, s)'
      <4>1. ~ReadFresh(k, s)
        BY <1>1 DEF ReadFresh
      <4>2. ReadTaken(k, s) => ReadTaken(k, s)'
        BY <1>1, <1>2, <3>2, <3>4 DEF ReadTaken
      <4>3. ReadKept(k, s) => ReadKept(k, s)'
        BY <1>1, <1>2, <3>2, <3>4 DEF ReadKept
      <4>4. ReadPassed(k, s) => ReadPassed(k, s)'
        BY <1>1, <1>2, <3>2, <3>4 DEF ReadPassed
      <4> QED
        BY <1>1, <1>2, <3>2, <3>7, <4>1, <4>2, <4>3, <4>4 DEF ReadPair
    <3>8. ASSUME NEW s \in Slaves, WritePair(k, s) PROVE WritePair(k, s)'
      <4>1. ~WriteFresh(k, s)
        BY <1>1 DEF WriteFresh
      <4>2. WriteTaken(k, s) => WriteTaken(k, s)'
        BY <1>1, <1>2, <3>2, <3>4 DEF WriteTaken
      <4>3. WriteServed(k, s) => WriteServed(k, s)'
        BY <1>1, <1>2, <3>2, <3>4 DEF WriteServed
      <4> QED
        BY <1>1, <1>2, <3>2, <3>8, <4>1, <4>2, <4>3 DEF WritePair
    <3>9. ReadMasterInv(k)'
      BY <1>2, <3>1, <3>4, <3>5, <3>7 DEF ReadMasterInv, Linked
    <3>10. WriteMasterInv(k)'
      BY <1>2, <3>1, <3>4, <3>6, <3>8 DEF WriteMasterInv, Linked
    <3> QED
      BY <3>3, <3>9, <3>10
  <2> QED
    BY <2>1, <2>2
<1>4. ASSUME NEW s \in Slaves
      PROVE  SlaveInv(s)'
  <2>1. SlaveInv(s)
    BY DEF BusInv, PortInv
  <2> QED
    BY <1>1, <1>2, <2>1 DEF SlaveInv, ReadFree, WriteFree
<1> QED
  BY <1>3, <1>4, MasterFrame DEF PortInv

(* A load or store that leaves is Issue, one that returns is Complete, and *)
(* every other step of a master a stutter.                                 *)
LEMMA MasterImplements ==
  ASSUME BusInv, NEW m \in Masters, MasterStep(m)
  PROVE  [Port!PortNext]_(Port!portVars)
<1>0. ~masterDone(m) /\ Drives(m)
  BY MasterTurn DEF MasterStep, BusInv, PortInv
<1>1. CASE Idle(m)
  BY <1>1 DEF Idle, masterVars, Port!portVars
<1>2. ASSUME NEW q \in Requests, StartRead(m, q) \/ StartWrite(m, q)
      PROVE  Port!PortNext
  <2>1. req[m] = None
    BY <1>0, <1>2 DEF Drives, StartRead, StartWrite
  <2>2. req' = [req EXCEPT ![m] = q] /\ UNCHANGED <<done, latched_data>>
    BY <1>2 DEF StartRead, StartWrite
  <2>3. Port!Issue(m)
    BY <2>1, <2>2 DEF Port!Issue
  <2> QED
    BY <2>3 DEF Port!PortNext
<1>3. CASE AwaitRead(m) /\ mch[m].rdat = None
  BY <1>3, ReadGoesOn DEF Port!portVars
<1>4. CASE AwaitRead(m) /\ mch[m].rdat # None
  <2>1. Reading(m) /\ req[m] \in Requests /\ req[m].op = "Read"
    BY <1>0, <1>4 DEF AwaitRead, Reading, Drives
  <2>2. mch[m].rdat \in Data /\ done[m] = Did(m, mch[m].rdat)
    BY <1>0, <1>4, <2>1, ReadAnswered
  <2>3. done[m] # None
    BY <2>1, <2>2, NoneAssumption DEF Did
  <2>4. done[m].op = "Read" /\ done[m].data = mch[m].rdat
    BY <2>1, <2>2 DEF Did, Access
  <2>5. /\ req' = [req EXCEPT ![m] = None] /\ done' = [done EXCEPT ![m] = None]
        /\ latched_data' = [latched_data EXCEPT ![m] = mch[m].rdat]
    BY <1>0, <1>4, ReadEnds
  <2>6. Port!Complete(m)
    BY <2>3, <2>4, <2>5 DEF Port!Complete
  <2> QED
    BY <2>6 DEF Port!PortNext
<1>5. CASE AwaitWrite(m) /\ ~mch[m].wdat /\ ~mch[m].wres
  BY <1>5, WriteGoesOn DEF Port!portVars
<1>6. CASE AwaitWrite(m) /\ (mch[m].wdat \/ mch[m].wres)
  <2>1. Writing(m) /\ req[m] \in Requests /\ req[m].op = "Write" /\ req[m].data \in Data
    BY <1>0, <1>6 DEF AwaitWrite, Writing, Drives, Requests
  <2>2. done[m] = Did(m, req[m].data)
    BY <1>0, <1>6, <2>1, WriteAnswered
  <2>3. done[m] # None
    BY <2>1, <2>2, NoneAssumption DEF Did
  <2>4. done[m].op = "Write"
    BY <2>1, <2>2 DEF Did, Access
  <2>5. /\ req' = [req EXCEPT ![m] = None] /\ done' = [done EXCEPT ![m] = None]
        /\ latched_data' = latched_data
    BY <1>0, <1>6, WriteEnds
  <2>6. Port!Complete(m)
    BY <2>3, <2>4, <2>5 DEF Port!Complete
  <2> QED
    BY <2>6 DEF Port!PortNext
<1> QED
  BY <1>1, <1>2, <1>3, <1>4, <1>5, <1>6 DEF MasterStep

-----------------------------------------------------------------------------
(* The crossbar's step.                                                    *)

(* One master is connected to one slave. *)
LEMMA ConnectedTo ==
  ASSUME NEW c \in Channels, NEW m \in Masters, NEW s \in Slaves, NEW t \in Slaves,
         connected(c, m, s), connected(c, m, t)
  PROVE  s = t
<1>1. granted(c, m, s) /\ granted(c, m, t) => s = t
  BY OneSlavePerMaster
<1>2. granted(c, m, s) \/ granted(c, m, t) => ~mstat[c][m].active
  BY GrantedWereFree
<1> QED
  BY <1>1, <1>2 DEF connected

(* The wires of a connected pair are each other's outputs. *)
LEMMA WiresJoined ==
  ASSUME BusInv, connectChannel, NEW m \in Masters, NEW s \in Slaves
  PROVE  /\ connected("R", m, s) =>
              /\ sch'[s].raddr = out[m].raddr /\ sch'[s].rready = out[m].rready
              /\ mch'[m].raddr = rdriven[s].ready /\ mch'[m].rdat = rdriven[s].rdat
         /\ connected("W", m, s) =>
              /\ sch'[s].waddr = out[m].waddr /\ sch'[s].wdat = out[m].wdat
              /\ sch'[s].wready = out[m].wready
              /\ mch'[m].waddr = w[s].ready /\ mch'[m].wdat = w[s].wdat
              /\ mch'[m].wres = w[s].wres
<1> DEFINE from(c) == {k \in Masters : connected(c, k, s)}
           ma(c) == IF from(c) = {} THEN resetMA ELSE out[LastOf(from(c))]
           onto(c) == {t \in Slaves : connected(c, m, t)}
           rs == CHOOSE t \in onto("R") : TRUE
           ws == CHOOSE t \in onto("W") : TRUE
<1>1. ASSUME NEW c \in Channels, connected(c, m, s)
      PROVE  ma(c) = out[m] /\ onto(c) = {s}
  <2>1. from(c) = {m}
    BY <1>1, ConnectedOne DEF BusInv, TypeOK
  <2>2. LastOf(from(c)) = m
    BY <2>1, LastOfOne
  <2>3. onto(c) = {s}
    BY <1>1, ConnectedTo
  <2> QED
    BY <2>1, <2>2, <2>3
<1>2. sch'[s] = [raddr |-> ma("R").raddr, rready |-> ma("R").rready,
                 waddr |-> ma("W").waddr, wdat |-> ma("W").wdat,
                 wready |-> ma("W").wready]
  BY DEF connectChannel, wiresToSlave
<1>3. mch'[m] = [raddr |-> onto("R") # {} /\ rdriven[rs].ready,
                 rdat |-> IF onto("R") # {} THEN rdriven[rs].rdat ELSE None,
                 waddr |-> onto("W") # {} /\ w[ws].ready,
                 wdat |-> onto("W") # {} /\ w[ws].wdat,
                 wres |-> onto("W") # {} /\ w[ws].wres]
  BY DEF connectChannel, wiresToMaster
<1>4. /\ rdriven[s] \in [ready : BOOLEAN, rdat : Data \union {None}]
      /\ w[s] \in WTypes /\ "R" \in Channels /\ "W" \in Channels
  BY DEF BusInv, TypeOK, WTypes, Channels
<1>5. onto("R") = {s} => rs = s
  OBVIOUS
<1>6. onto("W") = {s} => ws = s
  OBVIOUS
<1> HIDE DEF ma, onto, rs, ws
<1>7. ASSUME connected("R", m, s)
      PROVE  /\ sch'[s].raddr = out[m].raddr /\ sch'[s].rready = out[m].rready
             /\ mch'[m].raddr = rdriven[s].ready /\ mch'[m].rdat = rdriven[s].rdat
  <2>1. ma("R") = out[m] /\ onto("R") # {} /\ rs = s
    BY <1>1, <1>4, <1>5, <1>7
  <2> QED
    BY <1>2, <1>3, <1>4, <2>1
<1>8. ASSUME connected("W", m, s)
      PROVE  /\ sch'[s].waddr = out[m].waddr /\ sch'[s].wdat = out[m].wdat
             /\ sch'[s].wready = out[m].wready
             /\ mch'[m].waddr = w[s].ready /\ mch'[m].wdat = w[s].wdat
             /\ mch'[m].wres = w[s].wres
  <2>1. ma("W") = out[m] /\ onto("W") # {} /\ ws = s
    BY <1>1, <1>4, <1>6, <1>8
  <2> QED
    BY <1>2, <1>3, <1>4, <2>1 DEF WTypes
<1> QED
  BY <1>7, <1>8

(* A slave or a master that is not connected has quiet wires. *)
LEMMA SlaveWiresReset ==
  ASSUME connectChannel, NEW s \in Slaves
  PROVE  /\ (\A m \in Masters : ~connected("R", m, s)) => sch'[s].raddr = None
         /\ (\A m \in Masters : ~connected("W", m, s)) => sch'[s].waddr = None
<1> DEFINE from(c) == {k \in Masters : connected(c, k, s)}
           ma(c) == IF from(c) = {} THEN resetMA ELSE out[LastOf(from(c))]
<1>1. sch'[s].raddr = ma("R").raddr /\ sch'[s].waddr = ma("W").waddr
  BY DEF connectChannel, wiresToSlave
<1>2. ASSUME NEW c, \A m \in Masters : ~connected(c, m, s)
      PROVE  ma(c) = resetMA
  BY <1>2
<1> HIDE DEF ma
<1> QED
  BY <1>1, <1>2 DEF resetMA

LEMMA MasterWiresReset ==
  ASSUME connectChannel, NEW m \in Masters
  PROVE  /\ (\A s \in Slaves : ~connected("R", m, s)) =>
              ~mch'[m].raddr /\ mch'[m].rdat = None
         /\ (\A s \in Slaves : ~connected("W", m, s)) =>
              ~mch'[m].waddr /\ ~mch'[m].wdat /\ ~mch'[m].wres
BY DEF connectChannel, wiresToMaster

(* A grant starts a link, a release ends one, and nothing else does. *)
LEMMA LinkedAfter ==
  ASSUME BusInv, connectChannel, NEW c \in Channels, NEW m \in Masters, NEW s \in Slaves
  PROVE  Linked(c, m, s)' <=> granted(c, m, s) \/ (Linked(c, m, s) /\ ~released(c, m, s))
<1>0. mstat'[c][m] = updateMStat(c)[m]
  BY DEF connectChannel
<1>1. CASE granted(c, m, s)
  <2>1. mstat'[c][m] = [slaveID |-> s, active |-> TRUE]
    BY <1>0, <1>1, MasterGranted
  <2> QED
    BY <1>1, <2>1 DEF Linked
<1>2. ASSUME NEW t \in Slaves, granted(c, m, t), ~granted(c, m, s)
      PROVE  ~Linked(c, m, s)' /\ ~Linked(c, m, s)
  <2>1. mstat'[c][m] = [slaveID |-> t, active |-> TRUE] /\ t # s
    BY <1>0, <1>2, MasterGranted
  <2>2. ~mstat[c][m].active
    BY <1>2, GrantedWereFree
  <2> QED
    BY <2>1, <2>2 DEF Linked
<1>3. ASSUME NEW t \in Slaves, released(c, m, t)
      PROVE  /\ ~Linked(c, m, s)' /\ ~granted(c, m, s)
             /\ Linked(c, m, s) => released(c, m, s)
  <2>1. mstat'[c][m] = [slaveID |-> 0, active |-> FALSE]
    BY <1>0, <1>3, MasterReleased
  <2>2. mstat[c][m].active /\ mstat[c][m].slaveID = t
    BY <1>3 DEF released
  <2>3. ~granted(c, m, s)
    BY <2>2, GrantedWereFree
  <2> QED
    BY <1>3, <2>1, <2>2, <2>3 DEF Linked
<1>4. CASE \A t \in Slaves : ~granted(c, m, t) /\ ~released(c, m, t)
  <2>1. mstat'[c][m] = mstat[c][m]
    BY <1>0, <1>4, MasterUntouched
  <2> QED
    BY <1>4, <2>1 DEF Linked
<1> QED
  BY <1>1, <1>2, <1>3, <1>4

LEMMA MasterAlone ==
  ASSUME BusInv, connectChannel, NEW c \in Channels, NEW m \in Masters,
         ~mstat'[c][m].active
  PROVE  \/ \E s \in Slaves : released(c, m, s)
         \/ ~mstat[c][m].active /\ \A s \in Slaves : ~connected(c, m, s)
<1>0. mstat'[c][m] = updateMStat(c)[m]
  BY DEF connectChannel
<1>1. \A s \in Slaves : ~granted(c, m, s)
  <2> SUFFICES ASSUME NEW s \in Slaves, granted(c, m, s) PROVE FALSE
    OBVIOUS
  <2>1. mstat'[c][m] = [slaveID |-> s, active |-> TRUE]
    BY <1>0, MasterGranted
  <2> QED
    BY <2>1
<1>2. CASE \A s \in Slaves : ~released(c, m, s)
  <2>1. mstat'[c][m] = mstat[c][m]
    BY <1>0, <1>1, <1>2, MasterUntouched
  <2> QED
    BY <1>1, <2>1 DEF connected
<1> QED
  BY <1>2

LEMMA SlaveAlone ==
  ASSUME BusInv, connectChannel, NEW c \in Channels, NEW s \in Slaves,
         ~sstat'[c][s].active
  PROVE  \/ \E m \in Masters : released(c, m, s)
         \/ ~sstat[c][s].active /\ \A m \in Masters : ~connected(c, m, s)
<1>0. sstat'[c][s] = updateSStat(c)[s] /\ CtrlTypeOK /\ GrantConsistent
  BY DEF connectChannel, BusInv, TypeOK
<1>1. \A m \in Masters : ~granted(c, m, s)
  <2> SUFFICES ASSUME NEW m \in Masters, granted(c, m, s) PROVE FALSE
    OBVIOUS
  <2>1. sstat'[c][s] = [masterID |-> m, active |-> TRUE]
    BY <1>0, SlaveGranted
  <2> QED
    BY <2>1
<1>2. CASE \A m \in Masters : ~released(c, m, s)
  <2>1. sstat'[c][s] = sstat[c][s]
    BY <1>0, <1>1, <1>2, SlaveUntouched
  <2>2. \A m \in Masters : ~Linked(c, m, s)
    BY <2>1, LinkNamed
  <2> QED
    BY <1>1, <2>1, <2>2 DEF connected, Linked
<1> QED
  BY <1>2

(* A granted master waits and its slave is idle: the pair starts afresh.   *)
(* A pair that is not released keeps its stage.                            *)
LEMMA ConnectKeepsReadPair ==
  ASSUME BusInv, connectChannel, NEW m \in Masters, NEW s \in Slaves, Linked("R", m, s)'
  PROVE  ReadPair(m, s)' /\ Reading(m) /\ s = decodeAddr(req[m].addr)
<1>0. /\ slaveDone(s) /\ ~slaveDone(s)' /\ masterDone(m) /\ ~masterDone(m)'
      /\ "R" \in Channels
  BY ConnectTurn DEF connectChannel, Channels
<1>1. /\ req' = req /\ in' = in /\ out' = out /\ done' = done
      /\ r' = r /\ rdriven' = rdriven
  BY DEF connectChannel, masterVars, slaveVars
<1>2. Drives(m) /\ Connected(m) /\ ReadMasterInv(m) /\ SlaveInv(s)
  BY DEF BusInv, PortInv
<1>3. \A x : Did(m, x)' = Did(m, x)
  BY <1>1 DEF Did
<1>4. CASE granted("R", m, s)
  <2>1. connected("R", m, s) /\ ~mstat["R"][m].active /\ ~sstat["R"][s].active
    BY <1>0, <1>4, GrantedWereFree DEF connected
  <2>2. out[m].raddr # None /\ s = decodeAddr(out[m].raddr)
    BY <1>4 DEF granted, requested, addrOf
  <2>3. Reading(m) /\ out[m].raddr = req[m].addr
    BY <1>2, <2>2 DEF Drives
  <2>4. in[m] = {} /\ done[m] = None
    BY <1>0, <1>2, <2>1, <2>3 DEF ReadMasterInv, ReadWaits
  <2>5. r[s] = rInit /\ rdriven[s].rdat = None
    BY <1>0, <1>2, <2>1 DEF SlaveInv, ReadFree
  <2>6. sch'[s].raddr = out[m].raddr /\ sch'[s].rready /\ mch'[m].rdat = None
    BY <1>2, <2>1, <2>3, <2>5, WiresJoined DEF Drives
  <2>7. ReadFresh(m, s)'
    BY <1>0, <1>1, <2>4, <2>5 DEF ReadFresh
  <2> QED
    BY <1>1, <2>2, <2>3, <2>6, <2>7 DEF ReadPair
<1>5. CASE ~granted("R", m, s)
  <2>1. Linked("R", m, s) /\ ~released("R", m, s)
    BY <1>0, <1>5, LinkedAfter
  <2>2. connected("R", m, s) /\ ReadPair(m, s)
    BY <1>2, <2>1 DEF connected, Linked, ReadMasterInv
  <2>3. Reading(m) /\ out[m].rready /\ s = decodeAddr(req[m].addr)
    BY <1>2, <2>1 DEF Connected, Linked, Drives
  <2>4. rdriven[s].rdat = None
    BY <2>1, <2>3 DEF released, readyFor, answered, Linked
  <2>5. /\ sch'[s].raddr = out[m].raddr /\ sch'[s].rready
        /\ mch'[m].raddr = rdriven[s].ready /\ mch'[m].rdat = None
    BY <2>2, <2>3, <2>4, WiresJoined
  <2>6. rdriven[s].ready \/ raddrTold(m) => raddrTold(m)'
    BY <1>0, <1>1, <2>5 DEF raddrTold
  <2>7. ~ReadFresh(m, s) /\ ~ReadPassed(m, s)
    BY <1>0, <2>4 DEF ReadFresh, ReadPassed
  <2>8. ReadTaken(m, s) => ReadTaken(m, s)'
    BY <1>0, <1>1, <2>6 DEF ReadTaken
  <2>9. ReadKept(m, s) => ReadKept(m, s)'
    BY <1>0, <1>1, <1>3, <2>6 DEF ReadKept
  <2> QED
    BY <1>1, <2>2, <2>3, <2>5, <2>7, <2>8, <2>9 DEF ReadPair
<1> QED
  BY <1>4, <1>5

LEMMA ConnectKeepsWritePair ==
  ASSUME BusInv, connectChannel, NEW m \in Masters, NEW s \in Slaves, Linked("W", m, s)'
  PROVE  WritePair(m, s)' /\ Writing(m) /\ s = decodeAddr(req[m].addr)
<1>0. /\ slaveDone(s) /\ ~slaveDone(s)' /\ masterDone(m) /\ ~masterDone(m)'
      /\ "W" \in Channels
  BY ConnectTurn DEF connectChannel, Channels
<1>1. req' = req /\ in' = in /\ out' = out /\ done' = done /\ w' = w
  BY DEF connectChannel, masterVars, slaveVars
<1>2. Drives(m) /\ Connected(m) /\ WriteMasterInv(m) /\ SlaveInv(s)
  BY DEF BusInv, PortInv
<1>3. \A x : Did(m, x)' = Did(m, x)
  BY <1>1 DEF Did
<1>4. CASE granted("W", m, s)
  <2>1. connected("W", m, s) /\ ~mstat["W"][m].active /\ ~sstat["W"][s].active
    BY <1>0, <1>4, GrantedWereFree DEF connected
  <2>2. out[m].waddr # None /\ s = decodeAddr(out[m].waddr)
    BY <1>4 DEF granted, requested, addrOf
  <2>3. Writing(m) /\ out[m].waddr = req[m].addr
    BY <1>2, <2>2 DEF Drives
  <2>4. in[m] = {} /\ done[m] = None
    BY <1>0, <1>2, <2>1, <2>3 DEF WriteMasterInv, WriteWaits
  <2>5. w[s] = wInit /\ ~w[s].wdat /\ ~w[s].wres
    BY <1>0, <1>2, <2>1 DEF SlaveInv, WriteFree, wInit
  <2>6. /\ sch'[s].waddr = out[m].waddr /\ sch'[s].wdat = req[m].data /\ sch'[s].wready
        /\ ~mch'[m].wdat /\ ~mch'[m].wres
    BY <1>2, <2>1, <2>3, <2>5, WiresJoined DEF Drives
  <2>7. WriteFresh(m, s)'
    BY <1>0, <1>1, <2>4, <2>5 DEF WriteFresh
  <2> QED
    BY <1>1, <2>2, <2>3, <2>6, <2>7 DEF WritePair
<1>5. CASE ~granted("W", m, s)
  <2>1. Linked("W", m, s) /\ ~released("W", m, s)
    BY <1>0, <1>5, LinkedAfter
  <2>2. connected("W", m, s) /\ WritePair(m, s)
    BY <1>2, <2>1 DEF connected, Linked, WriteMasterInv
  <2>3. /\ Writing(m) /\ out[m].wready /\ out[m].wdat = req[m].data
        /\ s = decodeAddr(req[m].addr)
    BY <1>2, <2>1 DEF Connected, Linked, Drives
  <2>4. ~w[s].wres
    BY <2>1, <2>3 DEF released, readyFor, answered, Linked
  <2>5. WriteTaken(m, s)
    BY <1>0, <2>2, <2>4 DEF WritePair, WriteFresh, WriteServed
  <2>6. /\ sch'[s].waddr = out[m].waddr /\ sch'[s].wdat = req[m].data /\ sch'[s].wready
        /\ mch'[m].waddr = w[s].ready /\ ~mch'[m].wdat /\ ~mch'[m].wres
    BY <2>2, <2>3, <2>5, WiresJoined DEF WriteTaken
  <2>7. w[s].ready \/ waddrTold(m) => waddrTold(m)'
    BY <1>0, <1>1, <2>6 DEF waddrTold
  <2>8. WriteTaken(m, s)'
    BY <1>0, <1>1, <2>5, <2>7 DEF WriteTaken
  <2> QED
    BY <1>1, <2>3, <2>6, <2>8 DEF WritePair
<1> QED
  BY <1>4, <1>5

(* A released master takes its answer along, and its slave has none left. *)
LEMMA ReleasedRead ==
  ASSUME BusInv, connectChannel, NEW m \in Masters, NEW s \in Slaves,
         released("R", m, s)
  PROVE  /\ Reading(m) /\ in[m] = {"raddr"} /\ connected("R", m, s)
         /\ rdriven[s].rdat # None /\ done[m] = Did(m, rdriven[s].rdat)
         /\ ~r[s].ready /\ (r[s] = rInit \/ (r[s].state = "R_End" /\ r[s].rdat = None))
<1>1. masterDone(m) /\ slaveDone(s)
  BY ConnectTurn DEF connectChannel
<1>2. Linked("R", m, s) /\ rdriven[s].rdat # None
  BY DEF released, answered, Linked
<1>3. ReadPair(m, s) /\ Reading(m) /\ in[m] \subseteq {"raddr"}
  BY <1>2 DEF BusInv, PortInv, ReadMasterInv, Connected, Drives, Linked
<1>4. ReadPassed(m, s)
  BY <1>1, <1>2, <1>3 DEF ReadPair, ReadFresh, ReadTaken, ReadKept
<1> QED
  BY <1>1, <1>2, <1>3, <1>4 DEF ReadPassed, raddrTold, connected, Linked

LEMMA ReleasedWrite ==
  ASSUME BusInv, connectChannel, NEW m \in Masters, NEW s \in Slaves,
         released("W", m, s)
  PROVE  /\ Writing(m) /\ in[m] = {"waddr"} /\ connected("W", m, s)
         /\ w[s].wdat /\ w[s].wres /\ w[s].state = "W_End"
         /\ done[m] = Did(m, req[m].data)
<1>1. masterDone(m) /\ slaveDone(s)
  BY ConnectTurn DEF connectChannel
<1>2. Linked("W", m, s) /\ w[s].wres
  BY DEF released, answered, Linked
<1>3. WritePair(m, s) /\ Writing(m) /\ in[m] \subseteq {"waddr"}
  BY <1>2 DEF BusInv, PortInv, WriteMasterInv, Connected, Drives, Linked
<1>4. WriteServed(m, s)
  BY <1>1, <1>2, <1>3 DEF WritePair, WriteFresh, WriteTaken
<1> QED
  BY <1>1, <1>2, <1>3, <1>4 DEF WriteServed, waddrTold, connected, Linked

LEMMA ConnectKeepsWaits ==
  ASSUME BusInv, connectChannel, NEW m \in Masters
  PROVE  /\ Reading(m) /\ ~mstat'["R"][m].active => ReadWaits(m)'
         /\ Writing(m) /\ ~mstat'["W"][m].active => WriteWaits(m)'
<1>0. masterDone(m) /\ ~masterDone(m)' /\ "R" \in Channels /\ "W" \in Channels
  BY ConnectTurn DEF connectChannel, Channels
<1>1. req' = req /\ in' = in /\ done' = done
  BY DEF connectChannel, masterVars
<1>2. \A x : Did(m, x)' = Did(m, x)
  BY <1>1 DEF Did
<1>3. ReadMasterInv(m) /\ WriteMasterInv(m)
  BY DEF BusInv, PortInv
<1>4. ASSUME Reading(m), ~mstat'["R"][m].active PROVE ReadWaits(m)'
  <2>1. ASSUME NEW s \in Slaves, released("R", m, s) PROVE ReadWaits(m)'
    <3>1. /\ in[m] = {"raddr"} /\ connected("R", m, s)
          /\ rdriven[s].rdat # None /\ done[m] = Did(m, rdriven[s].rdat)
      BY <2>1, ReleasedRead
    <3>2. mch'[m].rdat = rdriven[s].rdat
      BY <3>1, WiresJoined
    <3> QED
      BY <1>0, <1>1, <1>2, <3>1, <3>2 DEF ReadWaits
  <2>2. CASE ~mstat["R"][m].active /\ \A s \in Slaves : ~connected("R", m, s)
    <3>1. in[m] = {} /\ done[m] = None
      BY <1>0, <1>3, <1>4, <2>2 DEF ReadMasterInv, ReadWaits
    <3>2. ~mch'[m].raddr /\ mch'[m].rdat = None
      BY <2>2, MasterWiresReset
    <3> QED
      BY <1>1, <3>1, <3>2 DEF ReadWaits
  <2> QED
    BY <1>0, <1>4, <2>1, <2>2, MasterAlone
<1>5. ASSUME Writing(m), ~mstat'["W"][m].active PROVE WriteWaits(m)'
  <2>1. ASSUME NEW s \in Slaves, released("W", m, s) PROVE WriteWaits(m)'
    <3>1. /\ in[m] = {"waddr"} /\ connected("W", m, s)
          /\ w[s].wdat /\ w[s].wres /\ done[m] = Did(m, req[m].data)
      BY <2>1, ReleasedWrite
    <3>2. mch'[m].wdat /\ mch'[m].wres
      BY <3>1, WiresJoined
    <3> QED
      BY <1>0, <1>1, <1>2, <3>1, <3>2 DEF WriteWaits
  <2>2. CASE ~mstat["W"][m].active /\ \A s \in Slaves : ~connected("W", m, s)
    <3>1. in[m] = {} /\ done[m] = None
      BY <1>0, <1>3, <1>5, <2>2 DEF WriteMasterInv, WriteWaits
    <3>2. ~mch'[m].waddr /\ ~mch'[m].wdat /\ ~mch'[m].wres
      BY <2>2, MasterWiresReset
    <3> QED
      BY <1>1, <3>1, <3>2 DEF WriteWaits
  <2> QED
    BY <1>0, <1>5, <2>1, <2>2, MasterAlone
<1> QED
  BY <1>4, <1>5

LEMMA ConnectKeepsSlave ==
  ASSUME BusInv, connectChannel, NEW s \in Slaves
  PROVE  SlaveInv(s)'
<1>0. slaveDone(s) /\ ~slaveDone(s)' /\ "R" \in Channels /\ "W" \in Channels
  BY ConnectTurn DEF connectChannel, Channels
<1>1. r' = r /\ w' = w
  BY DEF connectChannel, slaveVars
<1>2. SlaveInv(s) /\ \A m \in Masters : Drives(m)
  BY DEF BusInv, PortInv
<1>3. ASSUME ~sstat'["R"][s].active PROVE ReadFree(s)'
  <2>1. ASSUME NEW m \in Masters, released("R", m, s) PROVE ReadFree(s)'
    <3>1. /\ in[m] = {"raddr"} /\ connected("R", m, s)
          /\ ~r[s].ready /\ (r[s] = rInit \/ (r[s].state = "R_End" /\ r[s].rdat = None))
      BY <2>1, ReleasedRead
    <3>2. sch'[s].raddr = out[m].raddr
      BY <3>1, WiresJoined
    <3>3. out[m].raddr = None
      BY <1>2, <3>1 DEF Drives
    <3> QED
      BY <1>0, <1>1, <3>1, <3>2, <3>3 DEF ReadFree
  <2>2. CASE ~sstat["R"][s].active /\ \A m \in Masters : ~connected("R", m, s)
    <3>1. r[s] = rInit
      BY <1>0, <1>2, <2>2 DEF SlaveInv, ReadFree
    <3>2. sch'[s].raddr = None
      BY <2>2, SlaveWiresReset
    <3> QED
      BY <1>0, <1>1, <3>1, <3>2 DEF ReadFree, rInit
  <2> QED
    BY <1>0, <1>3, <2>1, <2>2, SlaveAlone
<1>4. ASSUME ~sstat'["W"][s].active PROVE WriteFree(s)'
  <2>1. ASSUME NEW m \in Masters, released("W", m, s) PROVE WriteFree(s)'
    <3>1. Writing(m) /\ in[m] = {"waddr"} /\ connected("W", m, s) /\ w[s].state = "W_End"
      BY <2>1, ReleasedWrite
    <3>2. sch'[s].waddr = out[m].waddr /\ sch'[s].wready = out[m].wready
      BY <3>1, WiresJoined
    <3>3. out[m].waddr = None /\ out[m].wready
      BY <1>2, <3>1 DEF Drives
    <3> QED
      BY <1>0, <1>1, <3>1, <3>2, <3>3 DEF WriteFree
  <2>2. CASE ~sstat["W"][s].active /\ \A m \in Masters : ~connected("W", m, s)
    <3>1. w[s] = wInit
      BY <1>0, <1>2, <2>2 DEF SlaveInv, WriteFree
    <3>2. sch'[s].waddr = None
      BY <2>2, SlaveWiresReset
    <3> QED
      BY <1>0, <1>1, <3>1, <3>2 DEF WriteFree
  <2> QED
    BY <1>0, <1>4, <2>1, <2>2, SlaveAlone
<1> QED
  BY <1>3, <1>4 DEF SlaveInv

LEMMA ConnectKeepsInv ==
  ASSUME BusInv, connectChannel
  PROVE  PortInv'
<1>1. req' = req /\ rw_state' = rw_state /\ in' = in /\ out' = out /\ done' = done
  BY DEF connectChannel, masterVars
<1>2. CtrlTypeOK'
  BY ConnectKeepsCtrlType DEF BusInv, TypeOK
<1>3. ASSUME NEW m \in Masters
      PROVE  Drives(m)' /\ Connected(m)' /\ ReadMasterInv(m)' /\ WriteMasterInv(m)'
  <2>1. Drives(m)'
    BY <1>1 DEF BusInv, PortInv, Drives, Reading, Writing
  <2>2. Connected(m)'
    <3>1. ASSUME mstat'["R"][m].active
          PROVE  Reading(m)' /\ mstat'["R"][m].slaveID = decodeAddr(req'[m].addr)
      <4>1. PICK s \in Slaves : mstat'["R"][m].slaveID = s
        BY <1>2 DEF CtrlTypeOK, Channels
      <4>2. Linked("R", m, s)'
        BY <3>1, <4>1 DEF Linked
      <4> QED
        BY <1>1, <4>1, <4>2, ConnectKeepsReadPair DEF Reading
    <3>2. ASSUME mstat'["W"][m].active
          PROVE  Writing(m)' /\ mstat'["W"][m].slaveID = decodeAddr(req'[m].addr)
      <4>1. PICK s \in Slaves : mstat'["W"][m].slaveID = s
        BY <1>2 DEF CtrlTypeOK, Channels
      <4>2. Linked("W", m, s)'
        BY <3>2, <4>1 DEF Linked
      <4> QED
        BY <1>1, <4>1, <4>2, ConnectKeepsWritePair DEF Writing
    <3> QED
      BY <3>1, <3>2 DEF Connected
  <2>3. ReadMasterInv(m)' /\ WriteMasterInv(m)'
    BY <1>1, ConnectKeepsWaits, ConnectKeepsReadPair, ConnectKeepsWritePair
    DEF ReadMasterInv, WriteMasterInv, Reading, Writing
  <2> QED
    BY <2>1, <2>2, <2>3
<1>4. \A s \in Slaves : SlaveInv(s)'
  BY ConnectKeepsSlave
<1>5. (done = [m \in Masters |-> done[m]])'
  BY <1>1 DEF BusInv, PortInv
<1> QED
  BY <1>3, <1>4, <1>5 DEF PortInv

-----------------------------------------------------------------------------
(* A stutter keeps everything. *)
LEMMA StutterKeepsInv ==
  ASSUME BusInv, UNCHANGED vars
  PROVE  PortInv'
<1>1. /\ turn' = turn /\ req' = req /\ rw_state' = rw_state /\ in' = in /\ out' = out
      /\ r' = r /\ w' = w /\ rdriven' = rdriven /\ mch' = mch /\ sch' = sch
      /\ mstat' = mstat /\ sstat' = sstat /\ done' = done
  BY DEF vars, masterVars, slaveVars, ctrlVars
<1>2. ASSUME NEW m \in Masters
      PROVE  Drives(m)' /\ Connected(m)' /\ ReadMasterInv(m)' /\ WriteMasterInv(m)'
  <2>1. Drives(m) /\ Connected(m) /\ ReadMasterInv(m) /\ WriteMasterInv(m)
    BY DEF BusInv, PortInv
  <2>2. Drives(m)' /\ Connected(m)'
    BY <1>1, <2>1 DEF Drives, Connected, Reading, Writing
  <2>3. ReadMasterInv(m)'
    BY <1>1, <2>1 DEF ReadMasterInv, ReadWaits, ReadPair, ReadFresh, ReadTaken, ReadKept,
       ReadPassed, raddrTold, Reading, Linked, Did, slaveDone, masterDone
  <2>4. WriteMasterInv(m)'
    BY <1>1, <2>1 DEF WriteMasterInv, WriteWaits, WritePair, WriteFresh, WriteTaken,
       WriteServed, waddrTold, Writing, Linked, Did, slaveDone, masterDone
  <2> QED
    BY <2>2, <2>3, <2>4
<1>3. ASSUME NEW s \in Slaves PROVE SlaveInv(s)'
  BY <1>1 DEF BusInv, PortInv, SlaveInv, ReadFree, WriteFree, slaveDone
<1>4. (done = [m \in Masters |-> done[m]])'
  BY <1>1 DEF BusInv, PortInv
<1> QED
  BY <1>2, <1>3, <1>4 DEF PortInv

LEMMA InitInv ==
  ASSUME Init
  PROVE  PortInv
<1>1. \A s \in Slaves : ~slaveDone(s)
  BY Numbers DEF Init, slaveDone
<1>2. ASSUME NEW m \in Masters
      PROVE  Drives(m) /\ Connected(m) /\ ReadMasterInv(m) /\ WriteMasterInv(m)
  BY <1>2 DEF Init, Drives, Connected, ReadMasterInv, WriteMasterInv, Reading, Writing,
     Linked, resetMA, Channels
<1>3. ASSUME NEW s \in Slaves PROVE SlaveInv(s)
  BY <1>1, <1>3 DEF Init, SlaveInv, ReadFree, WriteFree, resetMA, rInit, wInit
<1> QED
  BY <1>2, <1>3 DEF PortInv, Init

(* The handshakes of every pair of master and slave follow the stages of   *)
(* PortInv at every point of a cycle.                                      *)
LEMMA PortInvariant == Spec => []BusInv
<1>1. Init => PortInv
  BY InitInv
<1>2. BusInv /\ [Next]_vars => PortInv'
  BY SlaveKeepsInv, MasterKeepsInv, ConnectKeepsInv, StutterKeepsInv DEF Next
<1> QED
  BY <1>1, <1>2, TypeCorrect, GrantsAlwaysConsistent, PTL DEF Spec, BusInv

(* Every load and store of every core takes effect at the addressed device *)
(* exactly once, and completes with that effect's outcome, for any number  *)
(* of masters and slaves and whatever the delays of the devices.           *)
THEOREM PortImplemented == Spec => ImplementsAtomicPort
<1>1. Init => Port!PortInit
  BY DEF Init, Port!PortInit
<1>2. BusInv /\ [Next]_vars => [Port!PortNext]_(Port!portVars)
  <2> SUFFICES ASSUME BusInv, [Next]_vars
               PROVE  [Port!PortNext]_(Port!portVars)
    OBVIOUS
  <2>1. CASE connectChannel
    BY <2>1 DEF connectChannel, masterVars, Port!portVars
  <2>2. CASE UNCHANGED vars
    BY <2>2 DEF vars, masterVars, Port!portVars
  <2> QED
    BY <2>1, <2>2, SlaveImplements, MasterImplements DEF Next
<1> QED
  BY <1>1, <1>2, PortInvariant, PTL DEF Spec, ImplementsAtomicPort, Port!PortSpec
=============================================================================
