-------------------------------- MODULE Scfifo --------------------------------
(***************************************************************************)
(* fifo_32_32: the 256-word single-clock FIFO of the sender and of the     *)
(* receiver, configured show-ahead and with overflow and underflow         *)
(* checking.  Its content is a sequence; depth is lpm_numwords.            *)
(***************************************************************************)
EXTENDS Integers, Sequences

CONSTANT depth

ASSUME DepthAssumption == depth \in Nat \ {0}

Empty(fifo) == IF fifo = <<>> THEN 1 ELSE 0

Full(fifo) == IF Len(fifo) = depth THEN 1 ELSE 0

\* lpm_widthu bits: the count of a full FIFO is read as 0.
Usedw(fifo) == Len(fifo) % depth

\* Show-ahead: q is the oldest word; idle is what the RAM port holds otherwise.
Q(fifo, idle) == IF fifo = <<>> THEN idle ELSE Head(fifo)

\* A read of an empty FIFO is ignored.
Pop(fifo, rdreq) == IF rdreq = 1 /\ fifo # <<>> THEN Tail(fifo) ELSE fifo

\* One clock edge.  A write to a full FIFO is dropped, even if a word leaves it.
Clocked(fifo, wrreq, word, rdreq, sclr) ==
  IF sclr = 1 THEN <<>>
  ELSE IF wrreq = 1 /\ Full(fifo) = 0 THEN Append(Pop(fifo, rdreq), word)
  ELSE Pop(fifo, rdreq)

=============================================================================
