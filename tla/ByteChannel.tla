------------------------------ MODULE ByteChannel ------------------------------
(***************************************************************************)
(* What a pipe promises about data: bytes come out in the order in which   *)
(* they went in, none is lost, repeated or made up, and no more than       *)
(* Capacity are held.  A pipe that is created again starts empty.          *)
(***************************************************************************)
EXTENDS Naturals, Sequences

CONSTANTS Pipes, Bytes, Capacity

VARIABLE content    \* the bytes in each pipe, oldest first

Put(i, b) ==
  /\ Len(content[i]) < Capacity
  /\ content' = [content EXCEPT ![i] = Append(@, b)]

Get(i, n) ==
  /\ n \in 1..Len(content[i])
  /\ content' = [content EXCEPT ![i] = SubSeq(@, n + 1, Len(@))]

Clear(i) == content' = [content EXCEPT ![i] = <<>>]

ChannelInit == content = [i \in Pipes |-> <<>>]
ChannelNext ==
  \E i \in Pipes :
    \/ \E b \in Bytes : Put(i, b)
    \/ \E n \in 1..Capacity : Get(i, n)
    \/ Clear(i)

ChannelSpec == ChannelInit /\ [][ChannelNext]_content
=============================================================================
