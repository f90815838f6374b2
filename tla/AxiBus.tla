------------------------------- MODULE AxiBus -------------------------------
(***************************************************************************)
(* The AXI4-Lite interconnect of src/rv32_io.h and src/rv32_io.cpp: the    *)
(* master state machine of a core (RV_AXI4_Master, MasterFSM), the slave   *)
(* state machine of a device (SlaveFSM) and the crossbar between them      *)
(* (CTRL), for any number of masters and slaves.                           *)
(*                                                                         *)
(* A clock cycle is the sequence of calls RV32I_SOC_ARCH1 makes: every     *)
(* device steps, every core steps, then the crossbar connects channels.    *)
(* `turn' counts through the calls.  A device sees the master's wires, and *)
(* a master the device's, as the crossbar left them a cycle ago.           *)
(*                                                                         *)
(* Bursts are left out (RV_AXI4_Master sets burst_length to 0, so `last'   *)
(* is `valid' and `len' is 0), and so are error responses (mutexError is   *)
(* cleared every cycle and never set).  A signal with a valid bit is its   *)
(* value when the bit is set and None when it is not.  A register that the *)
(* next request overwrites before it is read again is put back to its      *)
(* initial value when the request it served is over.                       *)
(***************************************************************************)
EXTENDS Naturals

CONSTANTS MC, SC,      \* how many masters and slaves: template parameters of CTRL
          Data,        \* values of a data word
          Unmapped,    \* an address that belongs to no device
          Live,        \* slaves whose device is never busy for ever
          None

ASSUME BusAssumption == /\ MC \in Nat \ {0} /\ SC \in Nat \ {0}
                        /\ Live \subseteq 0 .. SC - 1
                        /\ None \notin Data /\ Unmapped \notin Nat
                        /\ None \notin Nat /\ None # Unmapped

Masters  == 0 .. MC - 1
Slaves   == 0 .. SC - 1
Channels == {"R", "W"}
Addr     == Slaves \union {Unmapped}
Requests == {[op |-> "Read", addr |-> a, data |-> None] : a \in Addr}
              \union [op : {"Write"}, addr : Addr, data : Data]

(* An address outside every device is decoded as the first one. *)
decodeAddr(a) == IF a = Unmapped THEN 0 ELSE a

VARIABLES
  turn,          \* whose call comes next in this cycle
  req,           \* the request each core holds while it is stalled (pending_op)
  rw_state,      \* MasterFSM::rw_state
  in,            \* MasterFSM::in, as the set of handshakes seen
  out,           \* MasterFSM::out, driven on m_ch[m].m
  latched_data,  \* IO::latched_data
  r, w,          \* the read and the write half of each SlaveFSM
  rdriven,       \* what each slave drives on the read channels of s_ch[s].s
  mch, sch,      \* wires as connected: m_ch[m].s and s_ch[s].m
  mstat, sstat,  \* MRStat and MWStat, SRStat and SWStat
  rr,            \* roundRobinRVal and roundRobinWVal
  done           \* history: what a device did for the outstanding request

masterVars == <<req, rw_state, in, out, latched_data>>
slaveVars  == <<r, w, rdriven>>
ctrlVars   == <<mch, sch, mstat, sstat, rr>>
vars       == <<turn, masterVars, slaveVars, ctrlVars, done>>

(* The wires a master drives and those a slave drives; none of them driven. *)
MAWires == [raddr : Addr \union {None}, rready : BOOLEAN,
            waddr : Addr \union {None}, wdat : Data \union {None}, wready : BOOLEAN]
SLWires == [raddr : BOOLEAN, rdat : Data \union {None},
            waddr : BOOLEAN, wdat : BOOLEAN, wres : BOOLEAN]

resetMA == [raddr |-> None, rready |-> FALSE,
            waddr |-> None, wdat |-> None, wready |-> FALSE]
resetSL == [raddr |-> FALSE, rdat |-> None,
            waddr |-> FALSE, wdat |-> FALSE, wres |-> FALSE]

rInit == [state |-> "R_Init", raddr |-> 0, raddr_end |-> FALSE,
          burst_end_r |-> FALSE, ready |-> FALSE, rdat |-> None]
wInit == [state |-> "W_Init", waddr |-> 0, waddr_end |-> FALSE,
          wres_end |-> FALSE, ready |-> FALSE, wdat |-> FALSE, wres |-> FALSE]

Init == /\ turn = 0
        /\ req = [m \in Masters |-> None]
        /\ rw_state = [m \in Masters |-> "RW_Init"]
        /\ in = [m \in Masters |-> {}]
        /\ out = [m \in Masters |-> resetMA]
        /\ latched_data \in [Masters -> Data]
        /\ r = [s \in Slaves |-> rInit]
        /\ w = [s \in Slaves |-> wInit]
        /\ rdriven = [s \in Slaves |-> [ready |-> FALSE, rdat |-> None]]
        /\ mch = [m \in Masters |-> resetSL]
        /\ sch = [s \in Slaves |-> resetMA]
        /\ mstat = [c \in Channels |-> [m \in Masters |-> [slaveID |-> 0, active |-> FALSE]]]
        /\ sstat = [c \in Channels |-> [s \in Slaves |-> [masterID |-> 0, active |-> FALSE]]]
        /\ rr = [c \in Channels |-> 0]
        /\ done = [m \in Masters |-> None]

(* The calls of a cycle: slave 0, ..., master 0, ..., connectChannel. *)
NextTurn == turn' = (turn + 1) % (SC + MC + 1)

-----------------------------------------------------------------------------
(* The master: RV_AXI4_Master::fsm and MasterFSM::fsm.  The wires m_ch[m].m *)
(* always carry `out', which the step drives at its end.                   *)

(* The core asks for nothing. *)
Idle(m) == rw_state[m] = "RW_Init" /\ UNCHANGED <<masterVars, done>>

(* A load or store of the core leaves for the bus; the core stalls. *)
StartRead(m, q) ==
  /\ rw_state[m] = "RW_Init"
  /\ q.op = "Read"
  /\ rw_state' = [rw_state EXCEPT ![m] = "RW_RAddr"]
  /\ out' = [out EXCEPT ![m].raddr = q.addr, ![m].rready = TRUE]
  /\ in' = [in EXCEPT ![m] = @ \ {"raddr", "rdat"}]
  /\ req' = [req EXCEPT ![m] = q]
  /\ UNCHANGED <<latched_data, done>>

StartWrite(m, q) ==
  /\ rw_state[m] = "RW_Init"
  /\ q.op = "Write"
  /\ rw_state' = [rw_state EXCEPT ![m] = "RW_WAddr"]
  /\ out' = [out EXCEPT ![m].waddr = q.addr, ![m].wdat = q.data, ![m].wready = TRUE]
  /\ in' = [in EXCEPT ![m] = @ \ {"waddr", "wdat", "wres"}]
  /\ req' = [req EXCEPT ![m] = q]
  /\ UNCHANGED <<latched_data, done>>

(* The access is over once every handshake of `all' has been seen: the     *)
(* stall ends, and with it the request.                                    *)
Finish(m, seen, all) ==
  IF all \subseteq in[m] \union seen
  THEN /\ rw_state' = [rw_state EXCEPT ![m] = "RW_Init"]
       /\ req' = [req EXCEPT ![m] = None]
       /\ done' = [done EXCEPT ![m] = None]
       /\ in' = [in EXCEPT ![m] = {}]
  ELSE /\ in' = [in EXCEPT ![m] = @ \union seen]
       /\ UNCHANGED <<rw_state, req, done>>

(* Each signal of the slave is noted, and ends the drive it answers. *)
AwaitRead(m) ==
  /\ rw_state[m] = "RW_RAddr"
  /\ LET seen == {h \in {"raddr", "rdat"} : IF h = "raddr" THEN mch[m].raddr
                                                           ELSE mch[m].rdat # None}
     IN  /\ out' = [out EXCEPT ![m].raddr = IF "raddr" \in seen THEN None ELSE @,
                               ![m].rready = @ /\ "rdat" \notin seen]
         /\ latched_data' = IF "rdat" \in seen
                            THEN [latched_data EXCEPT ![m] = mch[m].rdat]
                            ELSE latched_data
         /\ Finish(m, seen, {"raddr", "rdat"})

AwaitWrite(m) ==
  /\ rw_state[m] = "RW_WAddr"
  /\ LET seen == {h \in {"waddr", "wdat", "wres"} : mch[m][h]}
     IN  /\ out' = [out EXCEPT ![m].waddr = IF "waddr" \in seen THEN None ELSE @,
                               ![m].wdat = IF "wdat" \in seen THEN None ELSE @,
                               ![m].wready = @ /\ "wres" \notin seen]
         /\ Finish(m, seen, {"waddr", "wdat", "wres"})
  /\ UNCHANGED latched_data

MasterStep(m) == /\ turn = SC + m
                 /\ \/ Idle(m)
                    \/ \E q \in Requests : StartRead(m, q) \/ StartWrite(m, q)
                    \/ AwaitRead(m)
                    \/ AwaitWrite(m)
                 /\ NextTurn
                 /\ UNCHANGED <<slaveVars, ctrlVars>>

-----------------------------------------------------------------------------
(* The slave: SlaveFSM::fsm.  The device's own answer is a choice: devRead *)
(* returns data or is not ready (None), devWrite takes the data or not.    *)

(* fsmRead drives the outputs of the cycle before. *)
R_Init(s) ==
  /\ r[s].state = "R_Init"
  /\ r' = IF sch[s].raddr = None THEN r
          ELSE [r EXCEPT ![s].state = "R_Addr", ![s].raddr = sch[s].raddr,
                         ![s].raddr_end = FALSE, ![s].burst_end_r = FALSE,
                         ![s].ready = TRUE]

(* The device has answered before and the answer is held for the master. *)
Held(s) == r[s].rdat # None /\ r[s].burst_end_r

(* The device's side effects happen in these cycles. *)
readsNow(s, d)     == r[s].state = "R_Addr" /\ ~Held(s) /\ d # None
writesNow(s, take) == w[s].state = "W_AddrData" /\ sch[s].wdat # None /\ take

R_Addr(s, d) ==
  /\ r[s].state = "R_Addr"
  /\ LET answer == IF Held(s) THEN r[s].rdat ELSE d
     IN  r' = [r EXCEPT ![s].ready = FALSE,
                        ![s].raddr_end = @ \/ sch[s].raddr = None,
                        ![s].rdat = IF answer # None THEN answer ELSE @,
                        ![s].burst_end_r = @ \/ answer # None,
                        ![s].state = IF answer # None /\ sch[s].rready
                                     THEN "R_End" ELSE @]

(* A faulty R_End, which looks at raddr_end but not at the wire. *)
R_End_by_flag(s) ==
  /\ r[s].state = "R_End"
  /\ r' = [r EXCEPT ![s] = IF @.raddr_end THEN rInit ELSE [@ EXCEPT !.rdat = None]]

(* The address must be withdrawn before the next one is taken. *)
R_End(s) ==
  /\ r[s].state = "R_End"
  /\ r' = [r EXCEPT ![s] = IF @.raddr_end \/ sch[s].raddr = None THEN rInit
                           ELSE [@ EXCEPT !.rdat = None]]

fsmRead(s, d) ==
  /\ rdriven' = [rdriven EXCEPT ![s] = [ready |-> r[s].ready, rdat |-> r[s].rdat]]
  /\ R_Init(s) \/ R_Addr(s, d) \/ R_End(s)

(* fsmWrite drives the outputs of this cycle. *)
W_Init(s) ==
  /\ w[s].state = "W_Init"
  /\ w' = IF sch[s].waddr = None THEN w
          ELSE [w EXCEPT ![s].state = "W_AddrData", ![s].waddr = sch[s].waddr,
                         ![s].waddr_end = FALSE, ![s].ready = TRUE]

W_AddrData(s, take) ==
  /\ w[s].state = "W_AddrData"
  /\ w' = [w EXCEPT ![s].ready = FALSE,
                    ![s].waddr_end = @ \/ sch[s].waddr = None,
                    ![s].wres_end = @ /\ ~writesNow(s, take),
                    ![s].wdat = @ \/ writesNow(s, take),
                    ![s].wres = @ \/ writesNow(s, take),
                    ![s].state = IF writesNow(s, take) THEN "W_End" ELSE @]

W_End(s) ==
  /\ w[s].state = "W_End"
  /\ LET nxt_wres_end == w[s].wres_end \/ sch[s].wready
         leave == nxt_wres_end /\ (w[s].waddr_end \/ sch[s].waddr = None)
     IN  w' = [w EXCEPT ![s] = IF leave THEN wInit
                               ELSE [@ EXCEPT !.wdat = FALSE,
                                              !.wres_end = nxt_wres_end]]

fsmWrite(s, take) == W_Init(s) \/ W_AddrData(s, take) \/ W_End(s)

(* The device's side effects of this cycle, each with the master on whose  *)
(* behalf the crossbar connects the channel.                               *)
Access(op, s, addr, data) == [op |-> op, slave |-> s, addr |-> addr, data |-> data]

(* None stands for no request and no access. *)
ASSUME NoneAssumption ==
  /\ None \notin Requests
  /\ \A q \in Requests, d \in Data : None # Access(q.op, decodeAddr(q.addr), q.addr, d)

Effects(s, d, take) ==
  (IF readsNow(s, d)
   THEN {<<sstat["R"][s].masterID, Access("Read", s, r[s].raddr, d)>>} ELSE {})
  \union
  (IF writesNow(s, take)
   THEN {<<sstat["W"][s].masterID, Access("Write", s, w[s].waddr, sch[s].wdat)>>} ELSE {})

(* A second side effect for one request shows as Twice. *)
Twice == Access("Twice", 0, Unmapped, None)

Record(E) == done' = [m \in Masters |->
                        LET mine == {e[2] : e \in {f \in E : f[1] = m}}
                        IN  IF mine = {} THEN done[m]
                            ELSE IF done[m] = None /\ \E a \in mine : mine = {a}
                                 THEN CHOOSE a \in mine : TRUE ELSE Twice]

SlaveStep(s, d, take) == /\ turn = s
                         /\ fsmRead(s, d)
                         /\ fsmWrite(s, take)
                         /\ Record(Effects(s, d, take))
                         /\ NextTurn
                         /\ UNCHANGED <<masterVars, ctrlVars>>

-----------------------------------------------------------------------------
(* The crossbar: CTRL::connectChannel, for the read channels ("R") and the *)
(* write channels ("W") alike.                                             *)

addrOf(c, m) == IF c = "R" THEN out[m].raddr ELSE out[m].waddr
readyFor(c, m) == IF c = "R" THEN out[m].rready ELSE out[m].wready
answered(c, s) == IF c = "R" THEN rdriven[s].rdat # None ELSE w[s].wres

(* A faulty request check, which forgets that the slave may be taken. *)
requested_of_busy(c, m, s) == /\ ~mstat[c][m].active
                              /\ addrOf(c, m) # None
                              /\ decodeAddr(addrOf(c, m)) = s
                              /\ ~answered(c, s)

(* checkMRReq and checkMWReq: an unconnected master asks for slave s, and  *)
(* s is neither connected nor still driving an answer.                     *)
requested(c, m, s) == /\ ~mstat[c][m].active
                      /\ addrOf(c, m) # None
                      /\ decodeAddr(addrOf(c, m)) = s
                      /\ ~sstat[c][s].active
                      /\ ~answered(c, s)

(* arbitrate tries the masters from the round-robin value on, then from 0. *)
before(c, i, j) == \/ i >= rr[c] /\ j < rr[c]
                   \/ (i >= rr[c] <=> j >= rr[c]) /\ i <= j

granted(c, m, s) == /\ requested(c, m, s)
                    /\ \A k \in Masters : requested(c, k, s) => before(c, m, k)

(* A faulty release, which does not wait for the slave's answer. *)
released_unanswered(c, m, s) == /\ mstat[c][m].active
                                /\ mstat[c][m].slaveID = s
                                /\ readyFor(c, m)

released(c, m, s) == /\ mstat[c][m].active
                     /\ mstat[c][m].slaveID = s
                     /\ readyFor(c, m) /\ answered(c, s)

connected(c, m, s) == \/ granted(c, m, s)
                      \/ mstat[c][m].active /\ mstat[c][m].slaveID = s

(* The loops go through the masters in order: the last one prevails. *)
LastOf(M) == CHOOSE m \in M : \A k \in M : k <= m

updateMStat(c) ==
  [m \in Masters |->
     IF \E s \in Slaves : granted(c, m, s)
     THEN [slaveID |-> CHOOSE s \in Slaves : granted(c, m, s), active |-> TRUE]
     ELSE IF \E s \in Slaves : released(c, m, s)
          THEN [slaveID |-> 0, active |-> FALSE] ELSE mstat[c][m]]

updateSStat(c) ==
  [s \in Slaves |->
     LET grants == {m \in Masters : granted(c, m, s)}
         all == grants \union {m \in Masters : released(c, m, s)}
     IN  IF all = {} THEN sstat[c][s]
         ELSE [masterID |-> IF grants = {} THEN 0 ELSE LastOf(grants),
               active |-> LastOf(all) \in grants]]

(* What the slave sees of its master, and a master of its slave. *)
wiresToSlave(s) ==
  LET from(c) == {m \in Masters : connected(c, m, s)}
      ma(c) == IF from(c) = {} THEN resetMA ELSE out[LastOf(from(c))]
  IN  [raddr |-> ma("R").raddr, rready |-> ma("R").rready,
       waddr |-> ma("W").waddr, wdat |-> ma("W").wdat, wready |-> ma("W").wready]

wiresToMaster(m) ==
  LET onto(c) == {s \in Slaves : connected(c, m, s)}
      rs == CHOOSE s \in onto("R") : TRUE
      ws == CHOOSE s \in onto("W") : TRUE
  IN  [raddr |-> onto("R") # {} /\ rdriven[rs].ready,
       rdat |-> IF onto("R") # {} THEN rdriven[rs].rdat ELSE None,
       waddr |-> onto("W") # {} /\ w[ws].ready,
       wdat |-> onto("W") # {} /\ w[ws].wdat,
       wres |-> onto("W") # {} /\ w[ws].wres]

(* A faulty advance of the round robin, one master too far. *)
roundRobin_late(c) == IF rr[c] < MC THEN rr[c] + 1 ELSE 0

(* roundRobinRVal and roundRobinWVal after a grant. *)
roundRobin(c) == IF rr[c] < MC - 1 THEN rr[c] + 1 ELSE 0

connectChannel ==
  /\ turn = SC + MC
  /\ mstat' = [c \in Channels |-> updateMStat(c)]
  /\ sstat' = [c \in Channels |-> updateSStat(c)]
  /\ rr' = [c \in Channels |->
              IF \E m \in Masters, s \in Slaves : granted(c, m, s)
              THEN roundRobin(c) ELSE rr[c]]
  /\ sch' = [s \in Slaves |-> wiresToSlave(s)]
  /\ mch' = [m \in Masters |-> wiresToMaster(m)]
  /\ NextTurn
  /\ UNCHANGED <<masterVars, slaveVars, done>>

Next == \/ \E s \in Slaves, d \in Data \union {None}, take \in BOOLEAN :
             SlaveStep(s, d, take)
        \/ \E m \in Masters : MasterStep(m)
        \/ connectChannel

Spec == Init /\ [][Next]_vars

(* The clock keeps running, and the device of a live slave does not stay   *)
(* busy for ever with a master waiting for it.                             *)
ReadAnswer(s)  == \E d \in Data, take \in BOOLEAN :
                    readsNow(s, d) /\ SlaveStep(s, d, take)
WriteAnswer(s) == \E d \in Data \union {None} :
                    writesNow(s, TRUE) /\ SlaveStep(s, d, TRUE)

FairSpec == /\ Spec
            /\ WF_vars(Next)
            /\ \A s \in Live : SF_vars(ReadAnswer(s)) /\ SF_vars(WriteAnswer(s))

-----------------------------------------------------------------------------
(* The types of the crossbar's registers. *)
CtrlTypeOK ==
  /\ mstat \in [Channels -> [Masters -> [slaveID : Slaves, active : BOOLEAN]]]
  /\ sstat \in [Channels -> [Slaves -> [masterID : Masters, active : BOOLEAN]]]
  /\ rr \in [Channels -> Masters]

(* Every register and wire keeps its range; the round-robin value stays a  *)
(* master, or arbitrate would skip masters.                                *)
TypeOK ==
  /\ turn \in 0 .. SC + MC
  /\ req \in [Masters -> Requests \union {None}]
  /\ rw_state \in [Masters -> {"RW_Init", "RW_RAddr", "RW_WAddr"}]
  /\ in \in [Masters -> SUBSET {"raddr", "rdat", "waddr", "wdat", "wres"}]
  /\ out \in [Masters -> MAWires]
  /\ latched_data \in [Masters -> Data]
  /\ r \in [Slaves -> [state : {"R_Init", "R_Addr", "R_End"}, raddr : Addr,
                       raddr_end : BOOLEAN, burst_end_r : BOOLEAN,
                       ready : BOOLEAN, rdat : Data \union {None}]]
  /\ w \in [Slaves -> [state : {"W_Init", "W_AddrData", "W_End"}, waddr : Addr,
                       waddr_end : BOOLEAN, wres_end : BOOLEAN,
                       ready : BOOLEAN, wdat : BOOLEAN, wres : BOOLEAN]]
  /\ rdriven \in [Slaves -> [ready : BOOLEAN, rdat : Data \union {None}]]
  /\ mch \in [Masters -> SLWires]
  /\ sch \in [Slaves -> MAWires]
  /\ CtrlTypeOK

(* The two halves of the crossbar's bookkeeping mirror each other: every   *)
(* connected master holds a slave that knows it, and every connected slave *)
(* is held by the one master it names.  Master and slave sides are updated *)
(* by different branches of updateMRStat and updateMWStat, several masters *)
(* a cycle; a slave held twice would get the wires of two masters.         *)
GrantsMatch(c) ==
  /\ \A m \in Masters : mstat[c][m].active =>
       sstat[c][mstat[c][m].slaveID] = [masterID |-> m, active |-> TRUE]
  /\ \A s \in Slaves : sstat[c][s].active =>
       mstat[c][sstat[c][s].masterID] = [slaveID |-> s, active |-> TRUE]

GrantConsistent == \A c \in Channels : GrantsMatch(c)

(* Each load and store takes effect at the addressed device exactly once   *)
(* and completes with that effect's outcome, whatever the device's delays  *)
(* and the traffic of the other masters.                                   *)
Port == INSTANCE AtomicPort
ImplementsAtomicPort == Port!PortSpec

(* A load or store addressed to a live slave completes, even while another *)
(* master is stuck for ever on a device that never answers.                *)
Completes ==
  \A m \in Masters :
    (req[m] # None /\ decodeAddr(req[m].addr) \in Live) ~> (req[m] = None)

=============================================================================
