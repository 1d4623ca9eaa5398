---------------------------- MODULE PacketChannel ----------------------------
(***************************************************************************)
(* What a connection promises to the code that sends and handles packets:  *)
(* a packet is taken whole or not at all, packets arrive in the order they *)
(* were taken, none twice, and those that cannot be parsed are left out.   *)
(* When the connection breaks only the newest packets are lost, and a      *)
(* connection that was closed in good order has lost none.                 *)
(***************************************************************************)
EXTENDS Sequences, Integers

CONSTANTS
    Packets,     \* the packets there are
    Garbage(_),  \* packets the receiver cannot parse
    MaxSends     \* bound: how many packets are sent

VARIABLES
    queue,      \* packets taken and not yet delivered
    delivered,  \* packets handled, in order
    phase       \* "open", "broken", "closed" by the sender, "down" at the receiver

channel == <<queue, delivered, phase>>

ChannelInit == queue = << >> /\ delivered = << >> /\ phase = "open"

Take(p) == phase = "open" /\ queue' = Append(queue, p) /\ UNCHANGED <<delivered, phase>>

\* The next n packets are handled, and the one behind them is left out if it
\* cannot be parsed; the handlers may close the session.
Deliver(n, skipped) ==
    /\ phase # "down"
    /\ n + skipped <= Len(queue)
    /\ \A i \in 1..n : ~Garbage(queue[i])
    /\ skipped = 1 => Garbage(queue[n + 1])
    /\ delivered' = delivered \o SubSeq(queue, 1, n)
    /\ \/ queue' = SubSeq(queue, n + skipped + 1, Len(queue)) /\ phase' = phase
       \/ queue' = << >> /\ phase' = "down"

\* The connection breaks: the n oldest packets may still arrive.
Break(n) ==
    /\ phase \in {"open", "broken", "closed"}
    /\ n <= Len(queue)
    /\ queue' = SubSeq(queue, 1, n)
    /\ phase' = "broken"
    /\ UNCHANGED delivered

\* The sender closes in good order.
Close == phase = "open" /\ phase' = "closed" /\ UNCHANGED <<queue, delivered>>

\* The receiver notices; what is left of a broken connection is lost.
Down ==
    /\ phase # "down" /\ phase' = "down"
    /\ queue' = << >>
    /\ UNCHANGED delivered

ChannelNext ==
    \/ \E p \in Packets : Take(p)
    \/ \E n \in 0..MaxSends : Deliver(n, 0) \/ Deliver(n, 1) \/ Break(n)
    \/ Close
    \/ Down

ChannelSpec == ChannelInit /\ [][ChannelNext]_channel
=============================================================================
