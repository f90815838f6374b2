----------------------------- MODULE AtomicPort -----------------------------
(***************************************************************************)
(* What the AXI4-Lite interconnect promises to the cores that use it: each *)
(* core has at most one load or store outstanding, the addressed device    *)
(* performs it once, and the core goes on with what the device answered.   *)
(***************************************************************************)
EXTENDS Naturals

CONSTANTS Masters,           \* the bus masters
          Requests,          \* loads and stores: records with op, addr, data
          Data,              \* values a device reads or writes
          decodeAddr(_),     \* the device an address belongs to
          None               \* no request, no access

VARIABLES req,               \* the outstanding request of each master
          done,              \* what a device did for it
          latched_data       \* what the last load of each master returned

portVars == <<req, done, latched_data>>

PortInit == /\ req = [m \in Masters |-> None]
            /\ done = [m \in Masters |-> None]
            /\ latched_data \in [Masters -> Data]

(* The core starts a load or a store. *)
Issue(m) == /\ req[m] = None
            /\ \E q \in Requests : req' = [req EXCEPT ![m] = q]
            /\ UNCHANGED <<done, latched_data>>

(* What a device may do for request q: a store writes the given data. *)
Accesses(q) == {[op |-> q.op, slave |-> decodeAddr(q.addr), addr |-> q.addr, data |-> d] :
                  d \in IF q.op = "Write" THEN {q.data} ELSE Data}

(* A device performs, in one cycle, a load and a store at most. *)
Perform(M) == /\ M # {}
              /\ \A m \in M : req[m] # None /\ done[m] = None
              /\ \A m \in M : done'[m] \in Accesses(req[m])
              /\ done' = [m \in Masters |-> IF m \in M THEN done'[m] ELSE done[m]]
              /\ UNCHANGED <<req, latched_data>>

(* The core gets its answer. *)
Complete(m) == /\ done[m] # None
               /\ req' = [req EXCEPT ![m] = None]
               /\ done' = [done EXCEPT ![m] = None]
               /\ latched_data' = IF done[m].op = "Read"
                                  THEN [latched_data EXCEPT ![m] = done[m].data]
                                  ELSE latched_data

PortNext == \/ \E m \in Masters : Issue(m) \/ Complete(m)
            \/ \E M \in SUBSET Masters : Perform(M)

PortSpec == PortInit /\ [][PortNext]_portVars

=============================================================================
