----------------------------- MODULE RingBuffer -----------------------------
(***************************************************************************)
(* The log buffer of the runner agent (src/internal/runneragent/           *)
(* ringbuffer.go): a circular buffer of the most recent complete lines and *)
(* the partial line being written.  Every method runs under the buffer's   *)
(* own lock, so each is one operator on the buffer's value.                *)
(*                                                                         *)
(* A line is the sequence of the pieces it was written in.                 *)
(***************************************************************************)
EXTENDS Integers, Sequences

CONSTANTS Capacity,   \* LogLines
          MaxPartial  \* bound on a line without a newline, in pieces (64 KiB)

ASSUME RingAssumption == Capacity \in Nat \ {0} /\ MaxPartial \in Nat

\* Also what reset leaves behind.
newRingBuffer == [buf |-> [i \in 0..(Capacity - 1) |-> <<>>],
                  start |-> 0, count |-> 0, partial |-> <<>>]

\* Faulty variant: the oldest line is overwritten but stays the oldest.
appendLineInPlace(r, line) ==
    [r EXCEPT !.buf[(r.start + r.count) % Capacity] = line,
              !.count = IF @ < Capacity THEN @ + 1 ELSE @]

appendLine(r, line) ==
    LET stored == [r EXCEPT !.buf[(r.start + r.count) % Capacity] = line] IN
    IF r.count < Capacity
    THEN [stored EXCEPT !.count = @ + 1]
    ELSE [stored EXCEPT !.start = (@ + 1) % Capacity]

\* Whether writing one more piece completes a line.
Completes(r, newline) == newline \/ Len(r.partial) + 1 > MaxPartial

Write(r, piece, newline) ==
    LET line == Append(r.partial, piece) IN
    IF Completes(r, newline)
    THEN [appendLine(r, line) EXCEPT !.partial = <<>>]
    ELSE [r EXCEPT !.partial = line]

\* The last n lines, all of them for n = 0, the partial line included.
snapshot(r, n) ==
    LET pending == IF r.partial = <<>> THEN 0 ELSE 1
        total == r.count + pending
        take == IF n > 0 /\ n < total THEN n ELSE total
        commitTake == take - pending
        skip == r.count - commitTake
    IN  [i \in 1..commitTake |-> r.buf[(r.start + skip + i - 1) % Capacity]]
            \o (IF pending = 1 THEN <<r.partial>> ELSE <<>>)
=============================================================================
