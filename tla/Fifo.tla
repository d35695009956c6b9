-------------------------------- MODULE Fifo --------------------------------
(***************************************************************************)
(* What a queue between two threads promises: what is put in comes out,    *)
(* once, in the order it was put in.                                       *)
(***************************************************************************)
EXTENDS Sequences

CONSTANT Item

VARIABLE channel

FifoInit == channel = <<>>

Put(x) == channel' = Append(channel, x)

Get(x) == channel # <<>> /\ x = Head(channel) /\ channel' = Tail(channel)

FifoNext == \E x \in Item : Put(x) \/ Get(x)

FifoSpec == FifoInit /\ [][FifoNext]_channel
=============================================================================
