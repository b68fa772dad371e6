--------------------------- MODULE LimitedReader ---------------------------
(***************************************************************************)
(* What CodedInputStream promises: a reader over one flat array of bytes    *)
(* with a position, a limit and a total limit.  Once a call has failed the  *)
(* reader is broken and can only be destroyed.                              *)
(***************************************************************************)
EXTENDS Integers, Sequences

CONSTANTS Sources, Base, IntMax, MaxVarintBytes, DefaultTotalBytesLimit, Sizes

VARIABLES data, pos, limit, total, pushed, legitimate, result, broken, destroyed

vars == <<data, pos, limit, total, pushed, legitimate, result, broken, destroyed>>

Least(m, n) == IF m < n THEN m ELSE n
Bound == Least(Len(data), Least(limit, total))

Init ==
    /\ data \in Sources
    /\ pos = 0 /\ limit = IntMax /\ total = DefaultTotalBytesLimit
    /\ pushed = <<>>
    /\ legitimate = FALSE /\ broken = FALSE /\ destroyed = FALSE
    /\ result = [op |-> "none", ok |-> TRUE, got |-> <<>>]

Return(op, ok, got) == result' = [op |-> op, ok |-> ok, got |-> got] /\ broken' = ~ ok
Take(op, n) == Return(op, TRUE, SubSeq(data, pos + 1, pos + n)) /\ pos' = pos + n

Read(n) ==
    /\ n >= 0
    /\ IF pos + n <= Bound
       THEN Take("raw", n)
       ELSE Return("raw", FALSE, SubSeq(data, pos + 1, Bound)) /\ pos' = Bound

Skip(n) ==
    IF n >= 0 /\ pos + n <= Bound
    THEN Return("skip", TRUE, <<>>) /\ pos' = pos + n
    ELSE Return("skip", FALSE, <<>>) /\ pos' = IF n < 0 THEN pos ELSE Bound

(* A varint of n bytes lies ahead.                                          *)
Ahead(n) ==
    /\ pos + n <= Bound
    /\ data[pos + n] < Base
    /\ \A m \in 1 .. n - 1 : data[pos + m] >= Base

ReadVarint(op) ==
    \/ \E n \in 1 .. MaxVarintBytes : Ahead(n) /\ Take(op, n)
    \/ /\ \A n \in 1 .. MaxVarintBytes : ~ Ahead(n)
       /\ result'.op = op /\ ~ result'.ok /\ broken'
       /\ pos' \in pos .. Bound

ReadTag ==
    IF pos < Bound
    THEN ReadVarint("tag") /\ UNCHANGED legitimate
    ELSE /\ Return("end", TRUE, <<>>)
         /\ legitimate' = (pos < total \/ limit = total)
         /\ UNCHANGED pos

(* It may know that the end is reached, and never says so before.           *)
ExpectAtEnd ==
    /\ Return("expect", TRUE, <<>>)
    /\ legitimate' \in {legitimate, legitimate \/ pos = Bound}
    /\ UNCHANGED pos

PushLimit(n) ==
    /\ pushed' = Append(pushed, limit)
    /\ limit' = Least(limit, IF n >= 0 /\ n <= IntMax - pos THEN pos + n ELSE IntMax)
    /\ UNCHANGED <<total, legitimate>>

PopLimit ==
    /\ pushed # <<>>
    /\ limit' = pushed[Len(pushed)]
    /\ pushed' = SubSeq(pushed, 1, Len(pushed) - 1)
    /\ legitimate' = FALSE
    /\ UNCHANGED total

SetTotalBytesLimit(n) ==
    /\ total' = IF n < pos THEN pos ELSE n
    /\ UNCHANGED <<limit, pushed, legitimate>>

\* A call that is not about limits says what it returns.
Next ==
    /\ ~ destroyed
    /\ UNCHANGED data
    /\ \/ /\ ~ broken /\ result'.op # "none"
          /\ \/ \E n \in Sizes : (Read(n) \/ Skip(n)) /\ UNCHANGED legitimate
             \/ ReadVarint("varint") /\ UNCHANGED legitimate
             \/ ReadTag
             \/ ExpectAtEnd
          /\ UNCHANGED <<limit, total, pushed, destroyed>>
       \/ /\ ~ broken
          /\ PopLimit \/ \E n \in Sizes : PushLimit(n) \/ SetTotalBytesLimit(n)
          /\ UNCHANGED <<pos, result, broken, destroyed>>
       \/ destroyed' = TRUE /\ UNCHANGED <<pos, limit, total, pushed, legitimate, result, broken>>

Spec == Init /\ [][Next]_vars
=============================================================================
