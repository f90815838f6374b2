----------------------------- MODULE ByteChannel -----------------------------
(***************************************************************************)
(* What one direction of the serial driver promises its users: a channel   *)
(* per port that neither loses, duplicates, invents nor reorders the bytes *)
(* it has accepted.  How much it holds is not part of the promise.  A      *)
(* channel may be closed for some time: one that takes input discards what *)
(* it holds then, and one that gives output must have delivered all of it. *)
(***************************************************************************)
EXTENDS Sequences

CONSTANTS Ports,   \* the channels
          Bytes,   \* what a byte can be
          Discards \* whether closing discards

VARIABLES chan,    \* [Ports -> Seq(Bytes)]: accepted and not delivered, oldest first
          closed   \* the closed channels

ChannelInit == chan = [p \in Ports |-> << >>]

Accept(p)  == \E b \in Bytes : chan'[p] = Append(chan[p], b)

Deliver(p) == chan[p] # << >> /\ chan'[p] = Tail(chan[p])

Close(p) == (Discards \/ chan[p] = << >>) /\ chan'[p] = << >>

(* One step may concern several ports, but not both ends of one. *)
ChannelNext == \A p \in Ports :
                 IF p \in closed' THEN Close(p)
                 ELSE \/ chan'[p] = chan[p]
                      \/ p \notin closed /\ (Accept(p) \/ Deliver(p))

ChannelSpec == ChannelInit /\ [][ChannelNext]_<<chan, closed>>

=============================================================================
