--------------------------- MODULE OutputStreams ---------------------------
(***************************************************************************)
(* CodedOutputStream (coded_stream.cc) over the streams it may be given:    *)
(* an ArrayOutputStream, a StringOutputStream, or a                         *)
(* CopyingOutputStreamAdaptor whose writes may fail                         *)
(* (zero_copy_stream_impl_lite.cc).  One stream is written through by one   *)
(* CodedOutputStream after another.                                         *)
(*                                                                          *)
(* A byte is a number below 2 * Base, from Base on with a varint's          *)
(* continuation bit.  Junk is memory nobody has written.                    *)
(***************************************************************************)
EXTENDS Integers, Sequences, FiniteSetsExt

CONSTANTS
    Kinds,          \* "array", "string", "copying"
    Blocks,         \* block_size; for a copying stream its buffer_size_
    ArraySize,
    MinimumSize,    \* StringOutputStream::kMinimumSize
    Base, MaxVarintBytes, Numbers,
    Raws,           \* the data of a WriteRaw
    Junk,
    MaxBytes        \* bound on the bytes a caller writes

VARIABLES
    out,        \* the stream
    coded,      \* the CodedOutputStream, a sequence of at most one
    asked,      \* what the callers have written
    since,      \* how many bytes of it through an earlier CodedOutputStream
    reported    \* some CodedOutputStream has had an error

outVars == <<out, coded, asked, since, reported>>

Small(m, n) == IF m < n THEN m ELSE n
Large(m, n) == IF m > n THEN m ELSE n
JunkOf(n) == [k \in 1 .. n |-> Junk]

(* mem is the array, the string, or the adaptor's buffer, of which used     *)
(* bytes are in use; sink is what the adaptor has written out.              *)
NewStream(kind, block) ==
    [kind |-> kind, block |-> block, position |-> 0, last |-> 0, used |-> 0, capacity |-> 0,
     mem |-> CASE kind = "array" -> JunkOf(ArraySize) [] kind = "string" -> <<>>
               [] kind = "copying" -> JunkOf(block),
     sink |-> <<>>, failed |-> FALSE]

Got(o, at, size) == [out |-> o, ok |-> TRUE, at |-> at, size |-> size]
Refused(o) == [out |-> o, ok |-> FALSE, at |-> 0, size |-> 0]

-----------------------------------------------------------------------------
(* Next of each stream: the buffers it may return.                          *)
NextInArray(o) ==
    LET n == Small(o.block, ArraySize - o.position)
    IN  {IF o.position < ArraySize
         THEN Got([o EXCEPT !.last = n, !.position = @ + n], o.position, n)
         ELSE Refused([o EXCEPT !.last = 0])}

\* The string grows to its capacity, or to twice its size, when resize may
\* reserve more than it was asked for.
NextInString(o) ==
    LET old == Len(o.mem)
        grown(size, capacity) ==
            Got([o EXCEPT !.mem = @ \o JunkOf(size - old), !.capacity = capacity], old, size - old)
        twice == Large(old * 2, MinimumSize)
    IN  IF old < o.capacity THEN {grown(o.capacity, o.capacity)}
        ELSE {grown(twice, twice + spare) : spare \in {0, 1}}

\* WriteBuffer.
WriteBuffer(o) ==
    CASE o.failed -> {Refused(o)}
      [] ~ o.failed /\ o.used = 0 -> {Got(o, 0, 0)}
      [] OTHER -> {Got([o EXCEPT !.sink = @ \o SubSeq(o.mem, 1, o.used), !.used = 0,
                                 !.position = @ + o.used], 0, 0),
                   Refused([o EXCEPT !.failed = TRUE, !.used = 0, !.mem = JunkOf(o.block)])}

NextInBuffer(o) ==
    LET buffer(p) == Got([p EXCEPT !.used = p.block], p.used, p.block - p.used)
    IN  IF o.used = o.block
        THEN {IF w.ok THEN buffer(w.out) ELSE w : w \in WriteBuffer(o)}
        ELSE {buffer(o)}

NextOf(o) ==
    CASE o.kind = "array" -> NextInArray(o)
      [] o.kind = "string" -> NextInString(o)
      [] o.kind = "copying" -> NextInBuffer(o)

(* Slip: the string keeps its length.                                       *)
BackedUpOnlyCount(o, n) == [o EXCEPT !.position = @ - n, !.last = 0]

BackedUp(o, n) ==
    CASE o.kind = "array" -> [o EXCEPT !.position = @ - n, !.last = 0]
      [] o.kind = "string" -> [o EXCEPT !.mem = SubSeq(@, 1, Len(@) - n)]
      [] o.kind = "copying" -> [o EXCEPT !.used = @ - n]

(* What BackUp checks.                                                      *)
MayBackUp(o, n) ==
    CASE o.kind = "array" -> o.last > 0 /\ n <= o.last
      [] o.kind = "string" -> n <= Len(o.mem)
      [] o.kind = "copying" -> o.used = o.block /\ n <= o.used

StreamCount(o) ==
    CASE o.kind = "array" -> o.position
      [] o.kind = "string" -> Len(o.mem)
      [] o.kind = "copying" -> o.position + o.used

-----------------------------------------------------------------------------
(* CodedOutputStream.  A writer is the stream and the CodedOutputStream.    *)
Writer(o, c) == [out |-> o, c |-> c]

Refreshed(w) ==
    {IF r.ok
     THEN Writer(r.out, [w.c EXCEPT !.at = r.at, !.size = r.size, !.total = @ + r.size])
     ELSE Writer(r.out, [w.c EXCEPT !.error = TRUE, !.size = 0]) : r \in NextOf(w.out)}

Advanced(w, n) == [w EXCEPT !.c.at = @ + n, !.c.size = @ - n]

Stored(w, bytes) ==
    [w EXCEPT !.out.mem = [k \in DOMAIN @ |->
        IF k \in w.c.at + 1 .. w.c.at + Len(bytes) THEN bytes[k - w.c.at] ELSE @[k]]]

RECURSIVE WriteRaw(_, _)
WriteRaw(w, bytes) ==
    LET fits == w.c.size
        rest == SubSeq(bytes, fits + 1, Len(bytes))
    IN  IF fits >= Len(bytes) THEN {Advanced(Stored(w, bytes), Len(bytes))}
        ELSE UNION {IF v.c.size = 0 /\ v.c.error THEN {v} ELSE WriteRaw(v, rest) :
                    v \in Refreshed(Stored(w, SubSeq(bytes, 1, fits)))}

\* Skip leaves the bytes as they are.
RECURSIVE Skip(_, _)
Skip(w, n) ==
    IF n <= w.c.size THEN {Advanced(w, n)}
    ELSE UNION {IF v.c.size = 0 /\ v.c.error THEN {v} ELSE Skip(v, n - w.c.size) : v \in Refreshed(w)}

(* VarintSize32, VarintSize64: by comparison with the powers.               *)
VarintSize(v) == Min({n \in 1 .. MaxVarintBytes : v < Base ^ n})

Digit(v, k) == (v \div (Base ^ (k - 1))) % Base

\* WriteVarint32FallbackToArrayInline, WriteVarint64ToArrayInline.
Unrolled(v) ==
    [k \in 1 .. VarintSize(v) |-> Digit(v, k) + (IF k < VarintSize(v) THEN Base ELSE 0)]

\* The loop of the slow path.
RECURSIVE Looped(_)
Looped(v) == IF v >= Base THEN <<(v % Base) + Base>> \o Looped(v \div Base) ELSE <<v>>

\* WriteVarint32, WriteVarint64: unrolled when any varint fits.
WriteVarint(w, v) ==
    IF w.c.size >= MaxVarintBytes
    THEN {Advanced(Stored(w, Unrolled(v)), Len(Unrolled(v)))}
    ELSE WriteRaw(w, Looped(v))

-----------------------------------------------------------------------------
Init ==
    /\ \E kind \in Kinds, block \in Blocks : out = NewStream(kind, block)
    /\ coded = <<>> /\ asked = <<>> /\ since = 0 /\ reported = FALSE

IsOpen == coded # <<>>
Becomes(w) == out' = w.out /\ coded' = <<w.c>> /\ reported' = (reported \/ w.c.error)
Asks(bytes) == Len(asked) + Len(bytes) <= MaxBytes /\ asked' = asked \o bytes

\* The constructor refreshes, and forgets an error.
Open ==
    /\ ~ IsOpen
    /\ \E w \in Refreshed(Writer(out, [at |-> 0, size |-> 0, total |-> 0, error |-> FALSE])) :
          Becomes([w EXCEPT !.c.error = FALSE])
    /\ since' = Len(asked)
    /\ UNCHANGED asked

CallWriteRaw ==
    /\ IsOpen
    /\ \E bytes \in Raws : \E w \in WriteRaw(Writer(out, coded[1]), bytes) : Asks(bytes) /\ Becomes(w)
    /\ UNCHANGED since

CallWriteVarint ==
    /\ IsOpen
    /\ \E v \in Numbers : \E w \in WriteVarint(Writer(out, coded[1]), v) : Asks(Looped(v)) /\ Becomes(w)
    /\ UNCHANGED since

CallSkip ==
    /\ IsOpen
    /\ \E n \in 1 .. MaxBytes : \E w \in Skip(Writer(out, coded[1]), n) : Asks(JunkOf(n)) /\ Becomes(w)
    /\ UNCHANGED since

\* GetDirectBufferForNBytesAndAdvance, and what the caller puts there.
WriteDirectly ==
    /\ IsOpen
    /\ \E bytes \in Raws :
          /\ Len(bytes) <= coded[1].size
          /\ Asks(bytes)
          /\ Becomes(Advanced(Stored(Writer(out, coded[1]), bytes), Len(bytes)))
    /\ UNCHANGED since

Closed(o, c) == IF c.size > 0 THEN BackedUp(o, c.size) ELSE o

\* ~CodedOutputStream.
Close ==
    /\ IsOpen
    /\ out' = Closed(out, coded[1])
    /\ coded' = <<>>
    /\ UNCHANGED <<asked, since, reported>>

\* Flush; the adaptor's destructor does the same.
Flush ==
    /\ ~ IsOpen /\ out.kind = "copying"
    /\ \E w \in WriteBuffer(out) : out' = w.out
    /\ UNCHANGED <<coded, asked, since, reported>>

Next == Open \/ CallWriteRaw \/ CallWriteVarint \/ CallSkip \/ WriteDirectly \/ Close \/ Flush

Spec == Init /\ [][Next]_outVars

-----------------------------------------------------------------------------
Held ==
    CASE out.kind = "array" -> SubSeq(out.mem, 1, out.position)
      [] out.kind = "string" -> out.mem
      [] out.kind = "copying" -> out.sink \o SubSeq(out.mem, 1, out.used)

Unused == IF IsOpen THEN coded[1].size ELSE 0

(* As long as no error is reported, the stream holds what was written, in   *)
(* order and nothing else, but for the buffer still to be filled: across    *)
(* buffers, past the edge of one (coded_stream.cc:593-603, 672-692), and    *)
(* when one CodedOutputStream follows another (567-571).                    *)
EverythingArrives ==
    ~ reported /\ ~ out.failed =>
        /\ Len(Held) - Unused = Len(asked)
        /\ \A k \in DOMAIN asked : asked[k] # Junk => Held[k] = asked[k]

(* Both byte counts tell what was written.                                  *)
CountsAgree ==
    ~ reported /\ ~ out.failed =>
        /\ StreamCount(out) - Unused = Len(asked)
        /\ IsOpen => coded[1].total - coded[1].size = Len(asked) - since

(* Whenever the CodedOutputStream is destroyed, BackUp takes what it gives  *)
(* back, after a failure too (zero_copy_stream_impl_lite.cc:131-138,        *)
(* 344-353).                                                                *)
BackUpIsTaken == Unused > 0 => MayBackUp(out, Unused)

(* "If the returned value is false, an error occurred.  All errors are      *)
(* permanent." (zero_copy_stream.h:194)                                     *)
ErrorsArePermanent == [][out.failed /\ ~ IsOpen /\ IsOpen' => coded'[1].size = 0]_outVars
=============================================================================
