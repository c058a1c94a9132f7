------------------------------ MODULE GoChannel ------------------------------
(***************************************************************************)
(* The buffered channel of the Go runtime, as the goroutines of main.go    *)
(* use it: a bounded FIFO that its sender closes once.  Receiving from a   *)
(* closed channel first drains what is buffered, then reports "closed".    *)
(* Sending on, or closing, a closed channel panics; the operators below do *)
(* not forbid it, so that a specification can state that it never happens. *)
(***************************************************************************)
EXTENDS Naturals, Sequences

\* The channels whose elements are taken from the set T.
Channel(T) == [buf : Seq(T), closed : BOOLEAN]

\* make(chan T, cap): an open channel that holds nothing.
NewChan == [buf |-> <<>>, closed |-> FALSE]

\* A send on a channel of capacity cap blocks unless this holds.
CanSend(c, cap) == Len(c.buf) < cap

\* The channel after a send.
Sent(c, x) == [c EXCEPT !.buf = Append(@, x)]

\* A receive returns an element if this holds ...
CanRecv(c) == c.buf # <<>>

\* ... which is this one ...
Received(c) == Head(c.buf)

\* ... and leaves the channel like this.
Rest(c) == [c EXCEPT !.buf = Tail(@)]

\* A receive returns "closed", and a range loop over the channel ends.
Drained(c) == c.closed /\ c.buf = <<>>

\* close(c)
Closed(c) == [c EXCEPT !.closed = TRUE]

\* What is on its way in a channel whose elements are sets.
InChan(c) == UNION {c.buf[k] : k \in DOMAIN c.buf}
=============================================================================
