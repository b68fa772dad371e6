----------------------------- MODULE CodedInput -----------------------------
(***************************************************************************)
(* CodedInputStream (io/coded_stream.cc, coded_stream.h) over any           *)
(* ZeroCopyInputStream: it reads raw bytes, varints and tags out of the     *)
(* chunks its stream hands it, under a stack of limits and a total limit,   *)
(* and gives back on destruction what it did not use.                       *)
(*                                                                          *)
(* buffer_ is an offset into the data, or anything while the buffer is      *)
(* empty.  A read that crosses chunks takes one step per chunk or byte, as  *)
(* its loop does.  Int arithmetic stops at IntMax; a varint byte carries    *)
(* the digit b % Base and, when b >= Base, announces another (Base is 128   *)
(* and IntMax 2^31 - 1 in the code).                                        *)
(***************************************************************************)
EXTENDS Integers, Sequences

CONSTANTS
    Sources,        \* what the stream may hold: sequences of bytes
    MaxChunk,       \* the longest chunk Next() may hand out
    Base, IntMax,
    MaxVarintBytes, \* kMaxVarintBytes
    DefaultTotalBytesLimit,
    Sizes,          \* the sizes callers ask for, negative ones included
    MaxDepth        \* bound on the limits pushed at once

InputAssumption ==
    /\ Sources \subseteq Seq(0 .. 2 * Base - 1)
    /\ MaxChunk \in Nat \ {0} /\ Base \in Nat \ {0} /\ IntMax \in Nat \ {0}
    /\ MaxVarintBytes \in Nat \ {0} /\ DefaultTotalBytesLimit \in 1 .. IntMax /\ Sizes \subseteq Int /\ MaxDepth \in Nat

VARIABLES
    data,                                           \* all the bytes of the stream
    position, last_returned_size,                   \* of the stream
    buffer, size, buffer_size_after_limit, overflow_bytes, total_bytes_read,
    current_limit, total_bytes_limit, legitimate_message_end,
    pushed,     \* the limits PushLimit returned to its callers, latest last
    task,       \* the read under way: what it is, how many bytes it wants, what it has
    result,     \* what the last call returned
    broken,     \* a call has failed: the stream is no longer useful
    destroyed

streamVars == <<position, last_returned_size>>
bufferVars == <<buffer, size, buffer_size_after_limit, overflow_bytes, total_bytes_read>>
limitVars == <<current_limit, total_bytes_limit, pushed>>
callVars == <<task, result, broken>>
codedVars == <<data, streamVars, bufferVars, limitVars, legitimate_message_end, callVars, destroyed>>

NoTask == [op |-> "none"]
Smaller(m, n) == IF m < n THEN m ELSE n
Larger(m, n) == IF m < n THEN n ELSE m
Continues(byte) == byte >= Base
Bytes(from, n) == SubSeq(data, from + 1, from + n)

CurrentPosition == total_bytes_read - (size + buffer_size_after_limit)
ClosestLimit == Smaller(current_limit, total_bytes_limit)

-----------------------------------------------------------------------------
(* Slip: the part beyond the limit is forgotten, not kept for BackUp.       *)
CutForgotten(full, read, closest) ==
    /\ buffer_size_after_limit' = 0
    /\ size' = IF closest < read THEN full - (read - closest) ELSE full

(* RecomputeBufferLimits: of the full buffer, what lies beyond the closest  *)
(* limit is set aside.                                                      *)
Cut(full, read, closest) ==
    LET beyond == IF closest < read THEN read - closest ELSE 0
    IN  buffer_size_after_limit' = beyond /\ size' = full - beyond

Recompute(limit, total) == Cut(size + buffer_size_after_limit, total_bytes_read, Smaller(limit, total))

(* Refresh may look for another chunk: no limit is known to be hit.         *)
MayRefresh ==
    buffer_size_after_limit = 0 /\ overflow_bytes = 0 /\ total_bytes_read # current_limit

AtLimit == ~ MayRefresh /\ UNCHANGED <<streamVars, bufferVars>>

AtEnd ==
    /\ MayRefresh
    /\ position = Len(data)
    /\ last_returned_size' = 0
    /\ size' = 0
    /\ UNCHANGED <<position, buffer, buffer_size_after_limit, overflow_bytes, total_bytes_read>>

RefreshFails == AtLimit \/ AtEnd

\* How many bytes of a chunk lie beyond what an int can count.
Overflow(n) == IF total_bytes_read <= IntMax - n THEN 0 ELSE total_bytes_read - (IntMax - n)

NextChunk(n) ==
    /\ MayRefresh
    /\ n <= Len(data) - position
    /\ position' = position + n
    /\ last_returned_size' = n
    /\ buffer' = position
    /\ overflow_bytes' = Overflow(n)
    /\ total_bytes_read' = total_bytes_read + (n - Overflow(n))
    /\ Cut(n - Overflow(n), total_bytes_read + (n - Overflow(n)), ClosestLimit)

RefreshSucceeds == \E n \in 1 .. MaxChunk : NextChunk(n)

Advance(n) == buffer' = buffer + n /\ size' = size - n

-----------------------------------------------------------------------------
(* The constructor refreshes at once.                                       *)
CodedInit ==
    /\ data \in Sources
    /\ \E n \in 0 .. Smaller(MaxChunk, Len(data)) :
          /\ n = 0 <=> data = <<>>
          /\ position = n /\ last_returned_size = n
          /\ overflow_bytes = IF n > IntMax THEN n - IntMax ELSE 0
          /\ total_bytes_read = n - overflow_bytes
          /\ buffer_size_after_limit = Larger(0, total_bytes_read - DefaultTotalBytesLimit)
          /\ size = total_bytes_read - buffer_size_after_limit
    /\ buffer = 0
    /\ current_limit = IntMax
    /\ total_bytes_limit = DefaultTotalBytesLimit
    /\ legitimate_message_end = FALSE
    /\ pushed = <<>>
    /\ task = NoTask
    /\ result = [op |-> "none", ok |-> TRUE, got |-> <<>>]
    /\ broken = FALSE
    /\ destroyed = FALSE

Ready == task = NoTask /\ ~ broken /\ ~ destroyed

Return(op, ok, got) ==
    /\ result' = [op |-> op, ok |-> ok, got |-> got]
    /\ broken' = ~ ok
    /\ task' = NoTask

(* ReadRaw, ReadString, ReadLittleEndian: n bytes.                          *)
ReadRaw(n) ==
    /\ Ready /\ n >= 0
    /\ task' = [op |-> "raw", left |-> n, got |-> <<>>]
    /\ UNCHANGED <<streamVars, bufferVars, limitVars, legitimate_message_end, result, broken, destroyed>>

RawEnds ==
    /\ task.op = "raw" /\ size >= task.left
    /\ Return("raw", TRUE, task.got \o Bytes(buffer, task.left))
    /\ Advance(task.left)
    /\ UNCHANGED <<streamVars, buffer_size_after_limit, overflow_bytes, total_bytes_read>>

\* The loop's Advance and Refresh: an empty buffer, then the next chunk.
RawGoesOn ==
    /\ task.op = "raw" /\ size < task.left
    /\ \/ /\ size > 0
          /\ task' = [task EXCEPT !.left = @ - size, !.got = @ \o Bytes(buffer, size)]
          /\ Advance(size)
          /\ UNCHANGED <<result, broken, streamVars, buffer_size_after_limit, overflow_bytes, total_bytes_read>>
       \/ size = 0 /\ RefreshSucceeds /\ UNCHANGED callVars
       \/ size = 0 /\ RefreshFails /\ Return("raw", FALSE, task.got)

Raw == (RawEnds \/ RawGoesOn) /\ UNCHANGED <<limitVars, legitimate_message_end, destroyed>>

ReadVarint ==
    /\ Ready
    /\ task' = [op |-> "varint", got |-> <<>>, slow |-> FALSE]
    /\ UNCHANGED <<streamVars, bufferVars, limitVars, legitimate_message_end, result, broken, destroyed>>

(* The buffer holds a whole varint for sure: the array is decoded without   *)
(* looking for its end.                                                     *)
Fast == size >= MaxVarintBytes \/ (size > 0 /\ ~ Continues(data[buffer + size]))

\* The length of the varint at an offset, or one more than allowed.
VarintLength(from) ==
    CHOOSE n \in 1 .. MaxVarintBytes + 1 :
        /\ n <= MaxVarintBytes => ~ Continues(data[from + n])
        /\ \A m \in 1 .. n - 1 : Continues(data[from + m])

FromArray(op) ==
    LET n == VarintLength(buffer)
    IN  IF n <= MaxVarintBytes
        THEN Return(op, TRUE, Bytes(buffer, n)) /\ Advance(n)
        ELSE Return(op, FALSE, <<>>) /\ UNCHANGED <<buffer, size>>

OneByte(op) ==
    IF Continues(data[buffer + 1])
    THEN /\ task' = [task EXCEPT !.got = Append(@, data[buffer + 1]), !.slow = TRUE]
         /\ UNCHANGED <<result, broken>>
    ELSE Return(op, TRUE, Append(task.got, data[buffer + 1]))

(* Before the first byte; ReadVarint64Slow looks for it only once, but      *)
(* ReadTagSlow refreshes and then asks ReadVarint64 anew.                   *)
TakesArray == task.got = <<>> /\ ~ task.slow /\ Fast

(* ReadVarint64: at once from the array, or byte by byte.                   *)
VarintStep ==
    /\ task.op \in {"varint", "tag"}
    /\ \/ /\ TakesArray
          /\ FromArray(task.op)
          /\ UNCHANGED <<streamVars, buffer_size_after_limit, overflow_bytes, total_bytes_read>>
       \/ /\ ~ TakesArray /\ Len(task.got) = MaxVarintBytes
          /\ Return(task.op, FALSE, task.got)
          /\ UNCHANGED <<streamVars, bufferVars>>
       \/ /\ ~ TakesArray /\ Len(task.got) < MaxVarintBytes
          /\ \/ /\ size > 0
                /\ OneByte(task.op)
                /\ Advance(1)
                /\ UNCHANGED <<streamVars, buffer_size_after_limit, overflow_bytes, total_bytes_read>>
             \/ /\ size = 0 /\ RefreshSucceeds
                /\ task' = [task EXCEPT !.slow = task.op = "varint"]
                /\ UNCHANGED <<result, broken>>
             \/ /\ size = 0 /\ RefreshFails
                /\ task.op = "tag" => task.got # <<>>
                /\ Return(task.op, FALSE, task.got)
    /\ UNCHANGED <<limitVars, legitimate_message_end, destroyed>>

ReadTag ==
    /\ Ready
    /\ task' = [op |-> "tag", got |-> <<>>, slow |-> FALSE]
    /\ UNCHANGED <<streamVars, bufferVars, limitVars, legitimate_message_end, result, broken, destroyed>>

(* A limit ends a message, and so does the end of the stream; the total     *)
(* limit does not, unless a limit is there too.                             *)
Legitimate ==
    \/ total_bytes_read - buffer_size_after_limit < total_bytes_limit
    \/ current_limit = total_bytes_limit

(* No tag is left: ReadTag returns 0.                                       *)
TagAtEnd ==
    /\ task.op = "tag" /\ task.got = <<>> /\ size = 0
    /\ RefreshFails
    /\ legitimate_message_end' = Legitimate
    /\ Return("end", TRUE, <<>>)
    /\ UNCHANGED <<limitVars, destroyed>>

(* ExpectAtEnd, as the generated parsers ask it after their last field.     *)
ExpectAtEnd ==
    LET atEnd == size = 0 /\ (buffer_size_after_limit # 0 \/ total_bytes_read = current_limit)
    IN  /\ Ready
        /\ legitimate_message_end' = (legitimate_message_end \/ atEnd)
        /\ Return("expect", TRUE, <<>>)
        /\ UNCHANGED <<streamVars, bufferVars, limitVars, destroyed>>

(* Skip: within the buffer, or with the stream's own Skip for the rest.     *)
SkipInBuffer(n) ==
    /\ n <= size
    /\ Advance(n)
    /\ Return("skip", TRUE, <<>>)
    /\ UNCHANGED <<streamVars, buffer_size_after_limit, overflow_bytes, total_bytes_read>>

SkipToLimitInBuffer(n) ==
    /\ n > size /\ buffer_size_after_limit > 0
    /\ Advance(size)
    /\ Return("skip", FALSE, <<>>)
    /\ UNCHANGED <<streamVars, buffer_size_after_limit, overflow_bytes, total_bytes_read>>

SkipStream(n) ==
    /\ position' = Smaller(position + n, Len(data))
    /\ last_returned_size' = 0

DropBuffer == size' = 0

SkipBeyondBuffer(n) ==
    LET left == n - size
        room == ClosestLimit - total_bytes_read
    IN  /\ n > size /\ buffer_size_after_limit = 0
        /\ DropBuffer
        /\ IF room < left
           THEN /\ Return("skip", FALSE, <<>>)
                /\ IF room > 0
                   THEN total_bytes_read' = ClosestLimit /\ SkipStream(room)
                   ELSE UNCHANGED <<total_bytes_read, streamVars>>
           ELSE /\ Return("skip", left <= Len(data) - position, <<>>)
                /\ total_bytes_read' = total_bytes_read + left
                /\ SkipStream(left)
        /\ UNCHANGED <<buffer, buffer_size_after_limit, overflow_bytes>>

Skip(n) ==
    /\ Ready /\ n >= 0
    /\ SkipInBuffer(n) \/ SkipToLimitInBuffer(n) \/ SkipBeyondBuffer(n)
    /\ UNCHANGED <<limitVars, legitimate_message_end, destroyed>>

(* A negative size is refused before anything happens.                      *)
Refuse(n) ==
    /\ Ready /\ n < 0
    /\ Return("skip", FALSE, <<>>)
    /\ UNCHANGED <<streamVars, bufferVars, limitVars, legitimate_message_end, destroyed>>

(* Slip: the outer limit is forgotten.                                      *)
InnerLimit(n) ==
    IF n >= 0 /\ n <= IntMax - CurrentPosition THEN CurrentPosition + n ELSE IntMax

NewLimit(n) ==
    Smaller(current_limit,
            IF n >= 0 /\ n <= IntMax - CurrentPosition THEN CurrentPosition + n ELSE IntMax)

PushLimit(n) ==
    /\ Ready /\ Len(pushed) < MaxDepth
    /\ pushed' = Append(pushed, current_limit)
    /\ current_limit' = NewLimit(n)
    /\ Recompute(NewLimit(n), total_bytes_limit)
    /\ UNCHANGED <<streamVars, buffer, overflow_bytes, total_bytes_read, total_bytes_limit,
                   legitimate_message_end, callVars, destroyed>>

PopLimit ==
    /\ Ready /\ pushed # <<>>
    /\ current_limit' = pushed[Len(pushed)]
    /\ pushed' = SubSeq(pushed, 1, Len(pushed) - 1)
    /\ Recompute(pushed[Len(pushed)], total_bytes_limit)
    /\ legitimate_message_end' = FALSE
    /\ UNCHANGED <<streamVars, buffer, overflow_bytes, total_bytes_read, total_bytes_limit,
                   callVars, destroyed>>

SetTotalBytesLimit(n) ==
    /\ Ready
    /\ total_bytes_limit' = Larger(CurrentPosition, n)
    /\ Recompute(current_limit, Larger(CurrentPosition, n))
    /\ UNCHANGED <<streamVars, buffer, overflow_bytes, total_bytes_read, current_limit, pushed,
                   legitimate_message_end, callVars, destroyed>>

Unused == size + buffer_size_after_limit + overflow_bytes

(* The destructor: BackUpInputToCurrentPosition.                            *)
Destructor ==
    /\ task = NoTask /\ ~ destroyed
    /\ destroyed' = TRUE
    /\ IF Unused > 0
       THEN position' = position - Unused /\ last_returned_size' = 0
       ELSE UNCHANGED streamVars
    /\ UNCHANGED <<bufferVars, limitVars, legitimate_message_end, callVars>>

CodedNext ==
    /\ \/ \E n \in Sizes : ReadRaw(n) \/ Skip(n) \/ Refuse(n) \/ PushLimit(n) \/ SetTotalBytesLimit(n)
       \/ Raw \/ ReadVarint \/ ReadTag \/ VarintStep \/ TagAtEnd \/ ExpectAtEnd
       \/ PopLimit \/ Destructor
    /\ UNCHANGED data

CodedSpec == CodedInit /\ [][CodedNext]_codedVars

-----------------------------------------------------------------------------
(* Where the stream stands for its caller, a read under way not counted.    *)
Done == IF task = NoTask THEN 0 ELSE Len(task.got)
Position == IF destroyed THEN position ELSE position - Unused - Done

Reader == INSTANCE LimitedReader WITH
    pos <- Position, limit <- current_limit, total <- total_bytes_limit,
    legitimate <- legitimate_message_end

(* However the data is cut into chunks, and whether a varint is read from   *)
(* the array or byte by byte, every call does what it would on one flat     *)
(* buffer: it returns the next bytes of the data, all of them and only up   *)
(* to the closest limit, fails exactly when they are not there, and leaves  *)
(* the stream, when destroyed, right after the last byte used               *)
(* (coded_stream.cc:86-549).                                                *)
ReadsTheData == Reader!Spec

(* The counters fit: what was read is what the stream handed out, the       *)
(* buffer is the next part of it, nothing beyond the closest limit is in    *)
(* it, and what was set aside begins exactly at the limit, also when the    *)
(* count has reached IntMax (coded_stream.cc:99-168, 486-549).              *)
CountersFit ==
    /\ size >= 0 /\ buffer_size_after_limit >= 0 /\ overflow_bytes >= 0
    /\ overflow_bytes > 0 => total_bytes_read = IntMax
    /\ total_bytes_read <= IntMax
    /\ ~ broken /\ ~ destroyed => total_bytes_read + overflow_bytes = position
    /\ size > 0 /\ ~ destroyed => buffer + Unused = position
    /\ total_bytes_read - buffer_size_after_limit <= ClosestLimit
    /\ buffer_size_after_limit > 0 => total_bytes_read - buffer_size_after_limit = ClosestLimit

(* BackUp is only asked for what the last Next handed out, on every path    *)
(* that ends in the destructor: ArrayInputStream checks it and aborts       *)
(* (coded_stream.cc:86-97, zero_copy_stream_impl_lite.cc:78-85).            *)
BackUpLegal == ~ destroyed => Unused <= last_returned_size

(* The counters of CodedInputStream fit together, and its destructor gives  *)
(* back no more than it was handed last (coded_stream.cc:86-168, 486-549).  *)
Accounting == CountersFit /\ BackUpLegal

=============================================================================
