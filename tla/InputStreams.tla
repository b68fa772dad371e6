---------------------------- MODULE InputStreams ----------------------------
(***************************************************************************)
(* The input streams of io/zero_copy_stream_impl_lite.cc and                *)
(* zero_copy_stream_impl.cc, one on top of the other: an ArrayInputStream,  *)
(* a CopyingInputStreamAdaptor over a file whose reads may be short or      *)
(* fail for good, a LimitingInputStream over a stream, and a                *)
(* ConcatenatingInputStream over several.  The file cannot seek.            *)
(***************************************************************************)
EXTENDS Integers, Sequences, FiniteSetsExt

CONSTANTS
    Streams,    \* the streams a reader may be given
    MaxSkip

VARIABLES
    stream,     \* a stream, with those under it
    last, ok    \* the chunk of the last call, if it was Next; what it returned

vars == <<stream, last, ok>>

Array(data, block) == [kind |-> "array", data |-> data, block |-> block, position |-> 0, last |-> 0]

\* at is the position of the file, position that of the adaptor.
Copying(data, block, faulty) ==
    [kind |-> "copying", data |-> data, block |-> block, faulty |-> faulty, dead |-> FALSE,
     at |-> 0, failed |-> FALSE, position |-> 0, buffer |-> <<>>, backup |-> 0]

Limiting(input, limit) == [kind |-> "limiting", input |-> input, limit |-> limit]
Concatenating(streams) == [kind |-> "concatenating", streams |-> streams, retired |-> 0, lost |-> FALSE]

Lesser(m, n) == IF m < n THEN m ELSE n
Yes(s, got) == [s |-> s, ok |-> TRUE, got |-> got]
No(s) == [s |-> s, ok |-> FALSE, got |-> <<>>]
EndOf(bytes, n) == SubSeq(bytes, Len(bytes) - n + 1, Len(bytes))

RECURSIVE ByteCount(_)
ByteCount(s) ==
    CASE s.kind = "array" -> s.position
      [] s.kind = "copying" -> s.position - s.backup
      [] s.kind = "limiting" -> ByteCount(s.input) + Lesser(s.limit, 0)
      [] s.kind = "concatenating" -> s.retired + IF s.streams = <<>> THEN 0 ELSE ByteCount(s.streams[1])

\* A read has failed, in the stream or in one it is done with.
RECURSIVE Lost(_)
Lost(s) ==
    CASE s.kind = "array" -> FALSE
      [] s.kind = "copying" -> s.dead
      [] s.kind = "limiting" -> Lost(s.input)
      [] s.kind = "concatenating" -> s.lost \/ \E k \in DOMAIN s.streams : Lost(s.streams[k])

(* Slip: the count starts again with the next stream.                       *)
RetiredUncounted(s, head) == [s EXCEPT !.streams = Tail(@), !.lost = @ \/ Lost(head)]

\* The first stream is done.
Retired(s, head) ==
    [s EXCEPT !.retired = @ + ByteCount(head), !.streams = Tail(@), !.lost = @ \/ Lost(head)]

-----------------------------------------------------------------------------
(* The file: Read returns at least a byte, or none at the end, or fails     *)
(* and then always fails.                                                   *)
CanFail(s) == s.faulty /\ ~ s.dead
Left(s) == IF s.dead THEN 0 ELSE Len(s.data) - s.at
Died(s) == [s EXCEPT !.dead = TRUE]

ReadAhead(s, n) ==
    [s EXCEPT !.at = @ + n, !.position = @ + n, !.buffer = SubSeq(s.data, s.at + 1, s.at + n)]

NextInFile(s) ==
    LET reads == {ReadAhead(s, n) : n \in 1 .. Lesser(s.block, Left(s))}
        empty == [s EXCEPT !.buffer = <<>>]
    IN  IF s.failed THEN {No(s)}
        ELSE IF s.backup > 0 THEN {Yes([s EXCEPT !.backup = 0], EndOf(s.buffer, s.backup))}
        ELSE {Yes(r, r.buffer) : r \in reads}
             \cup (IF Left(s) = 0 /\ ~ s.dead THEN {No(empty)} ELSE {})
             \cup (IF s.faulty THEN {No([Died(empty) EXCEPT !.failed = TRUE])} ELSE {})

\* CopyingInputStream::Skip reads on until it has skipped enough.
SkipInFile(s, n) ==
    LET left == n - s.backup
        skipped(f, m) == [f EXCEPT !.backup = 0, !.at = @ + m, !.position = @ + m]
    IN  IF s.failed THEN {No(s)}
        ELSE IF s.backup >= n THEN {Yes([s EXCEPT !.backup = @ - n], <<>>)}
        ELSE {IF left <= Left(s) THEN Yes(skipped(s, left), <<>>) ELSE No(skipped(s, Left(s)))}
             \cup {No(Died(skipped(s, m))) :
                    m \in {k \in 0 .. Lesser(left - 1, Left(s)) : CanFail(s)}}

-----------------------------------------------------------------------------
NextInArray(s) ==
    LET n == Lesser(s.block, Len(s.data) - s.position)
    IN  {IF n > 0
         THEN Yes([s EXCEPT !.last = n, !.position = @ + n],
                  SubSeq(s.data, s.position + 1, s.position + n))
         ELSE No([s EXCEPT !.last = 0])}

SkipInArray(s, n) ==
    {IF n > Len(s.data) - s.position
     THEN No([s EXCEPT !.last = 0, !.position = Len(s.data)])
     ELSE Yes([s EXCEPT !.last = 0, !.position = @ + n], <<>>)}

(* Slip: only a limit met exactly ends the stream.                          *)
OnlyExactly(limit) == limit = 0

AtLimit(limit) == limit <= 0

\* A chunk that overshoots is cut; limit_ tells by how much.
Shortened(s, r) ==
    LET left == s.limit - Len(r.got)
    IN  Yes([s EXCEPT !.input = r.s, !.limit = left],
            SubSeq(r.got, 1, Len(r.got) + Lesser(left, 0)))

RECURSIVE NextOf(_)
NextOf(s) ==
    CASE s.kind = "array" -> NextInArray(s)
      [] s.kind = "copying" -> NextInFile(s)
      [] s.kind = "limiting" ->
            IF AtLimit(s.limit) THEN {No(s)}
            ELSE {IF r.ok THEN Shortened(s, r) ELSE No([s EXCEPT !.input = r.s]) : r \in NextOf(s.input)}
      [] s.kind = "concatenating" ->
            IF s.streams = <<>> THEN {No(s)}
            ELSE UNION {IF r.ok THEN {Yes([s EXCEPT !.streams[1] = r.s], r.got)}
                        ELSE NextOf(Retired(s, r.s)) : r \in NextOf(s.streams[1])}

RECURSIVE SkipOf(_, _)
SkipOf(s, n) ==
    CASE s.kind = "array" -> SkipInArray(s, n)
      [] s.kind = "copying" -> SkipInFile(s, n)
      [] s.kind = "limiting" ->
            IF n > s.limit
            THEN IF s.limit < 0 THEN {No(s)}
                 ELSE {No([s EXCEPT !.input = r.s, !.limit = 0]) : r \in SkipOf(s.input, s.limit)}
            ELSE {IF r.ok THEN Yes([s EXCEPT !.input = r.s, !.limit = @ - n], <<>>)
                  ELSE No([s EXCEPT !.input = r.s]) : r \in SkipOf(s.input, n)}
      [] s.kind = "concatenating" ->
            IF s.streams = <<>> THEN {No(s)}
            ELSE UNION {IF r.ok THEN {Yes([s EXCEPT !.streams[1] = r.s], <<>>)}
                        ELSE SkipOf(Retired(s, r.s), ByteCount(s.streams[1]) + n - ByteCount(r.s)) :
                        r \in SkipOf(s.streams[1], n)}

\* Of a chunk that was cut, only the count given back is left.
LimitAfter(limit, n) == IF limit < 0 THEN n ELSE limit + n

RECURSIVE BackedUp(_, _)
BackedUp(s, n) ==
    CASE s.kind = "array" -> [s EXCEPT !.position = @ - n, !.last = 0]
      [] s.kind = "copying" -> [s EXCEPT !.backup = n]
      [] s.kind = "limiting" ->
            [s EXCEPT !.input = BackedUp(@, n - Lesser(s.limit, 0)), !.limit = LimitAfter(@, n)]
      [] s.kind = "concatenating" -> [s EXCEPT !.streams[1] = BackedUp(@, n)]

(* What the BackUp of each stream checks, down to the stream that answers.  *)
RECURSIVE MayBackUp(_, _)
MayBackUp(s, n) ==
    CASE s.kind = "array" -> s.last > 0 /\ n <= s.last
      [] s.kind = "copying" -> s.backup = 0 /\ s.buffer # <<>> /\ n <= Len(s.buffer)
      [] s.kind = "limiting" -> MayBackUp(s.input, n - Lesser(s.limit, 0))
      [] s.kind = "concatenating" -> s.streams # <<>> /\ MayBackUp(s.streams[1], n)

-----------------------------------------------------------------------------
Init ==
    /\ stream \in Streams
    /\ last = <<>> /\ ok = TRUE

Becomes(r) == stream' = r.s /\ last' = r.got /\ ok' = r.ok

CallNext == \E r \in NextOf(stream) : Becomes(r)
CallSkip == \E n \in 0 .. MaxSkip : \E r \in SkipOf(stream, n) : Becomes(r)
CallBackUp == \E n \in 1 .. Len(last) : Becomes(Yes(BackedUp(stream, n), <<>>))

(* ~LimitingInputStream: the input is its caller's again.                   *)
Destroy ==
    /\ stream.kind = "limiting"
    /\ Becomes(Yes(IF stream.limit < 0 THEN BackedUp(stream.input, - stream.limit) ELSE stream.input, <<>>))

Next == CallNext \/ CallSkip \/ CallBackUp \/ Destroy

Spec == Init /\ [][Next]_vars

-----------------------------------------------------------------------------
RECURSIVE Ahead(_)
Ahead(s) ==
    CASE s.kind = "array" -> SubSeq(s.data, s.position + 1, Len(s.data))
      [] s.kind = "copying" ->
            IF s.dead THEN <<>> ELSE SubSeq(s.data, s.at - s.backup + 1, Len(s.data))
      [] s.kind = "limiting" -> SubSeq(Ahead(s.input), 1, Lesser(s.limit, Len(Ahead(s.input))))
      [] s.kind = "concatenating" ->
            IF s.streams = <<>> THEN <<>>
            ELSE Ahead(s.streams[1]) \o Ahead([s EXCEPT !.streams = Tail(@)])

\* What lies beyond the limit of a LimitingInputStream.
Beyond ==
    IF stream.kind # "limiting" THEN <<>>
    ELSE IF stream.limit < 0 THEN Ahead(BackedUp(stream.input, - stream.limit))
    ELSE LET all == Ahead(stream.input) IN SubSeq(all, stream.limit + 1, Len(all))

Promise == INSTANCE ByteStream WITH
    ahead <- Ahead(stream), beyond <- Beyond, count <- ByteCount(stream),
    errors <- Lost(stream)

(* However streams are put on top of each other, the reader gets the bytes  *)
(* in order, none twice and, unless a read fails, none left out; the count  *)
(* is that of the bytes it used; and when a limit is lifted the next reader *)
(* starts right after the last byte used, whatever the last chunk overshot  *)
(* (zero_copy_stream_impl.cc:359-464, zero_copy_stream_impl_lite.cc:64-292).*)
IsByteStream == Promise!Spec

(* Whatever a reader may give back, and what a LimitingInputStream gives    *)
(* back when it is destroyed, is accepted by the stream below: its BackUp   *)
(* checks and aborts (zero_copy_stream_impl_lite.cc:78-85, 255-265).        *)
BackUpIsTaken ==
    /\ last # <<>> => MayBackUp(stream, Len(last))
    /\ stream.kind = "limiting" /\ stream.limit < 0 => MayBackUp(stream.input, - stream.limit)
=============================================================================
