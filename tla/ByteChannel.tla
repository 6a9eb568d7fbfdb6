----------------------------- MODULE ByteChannel -----------------------------
(***************************************************************************)
(* What a serial port promises in one direction: bytes come out in the     *)
(* order they went in, each once, except those it loses, which it may only *)
(* while enough bytes wait in it.                                          *)
(***************************************************************************)
EXTENDS SequencesExt, Integers

CONSTANTS
  Byte,     \* what goes through the channel
  Reliable  \* so many bytes wait before one may get lost

VARIABLES
  queue,   \* the bytes in the channel
  last     \* the byte that came out last

Init == queue = <<>> /\ last \in Byte

Put(b) ==
  /\ queue' = Append(queue, b)
  /\ UNCHANGED last

(* One of the bytes behind the first Reliable ones gets lost. *)
Lose ==
  /\ \E i \in Reliable + 1 .. Len(queue) : queue' = RemoveAt(queue, i)
  /\ UNCHANGED last

Take ==
  /\ queue # <<>>
  /\ last' = Head(queue)
  /\ queue' = Tail(queue)

Next == (\E b \in Byte : Put(b)) \/ Lose \/ Take

Spec == Init /\ [][Next]_<<queue, last>>

===============================================================================
