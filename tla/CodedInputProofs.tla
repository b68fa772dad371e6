-------------------------- MODULE CodedInputProofs --------------------------
(***************************************************************************)
(* CodedInputStream counts right, and is a reader over one flat buffer, for *)
(* any data, any way its stream cuts it into chunks, any limits and any     *)
(* calls.                                                                   *)
(*                                                                          *)
(* What the counters say of where the stream stands (Counted) is arithmetic *)
(* shared by all the calls; what a read under way has got so far (Underway) *)
(* is the part of the data before it.                                       *)
(***************************************************************************)
EXTENDS CodedInput, SequenceTheorems, WellFoundedInduction, TLAPS

InputTypes ==
    /\ data \in Seq(Nat)
    /\ position \in 0 .. Len(data) /\ last_returned_size \in Nat
    /\ buffer \in Nat /\ size \in Nat
    /\ buffer_size_after_limit \in Nat /\ overflow_bytes \in Nat /\ total_bytes_read \in Nat
    /\ current_limit \in 0 .. IntMax /\ total_bytes_limit \in Nat
    /\ legitimate_message_end \in BOOLEAN /\ broken \in BOOLEAN /\ destroyed \in BOOLEAN

Working == ~ broken /\ ~ destroyed

(* A buffer of which all was set aside is still known by its place, since a *)
(* limit that is lifted brings it back.                                     *)
Counted ==
    /\ overflow_bytes > 0 => total_bytes_read = IntMax
    /\ total_bytes_read <= IntMax
    /\ size + buffer_size_after_limit <= total_bytes_read
    /\ total_bytes_read - buffer_size_after_limit <= ClosestLimit
    /\ buffer_size_after_limit > 0 => total_bytes_read - buffer_size_after_limit = ClosestLimit
    /\ Working => total_bytes_read + overflow_bytes = position
    /\ ~ destroyed =>
          /\ size + buffer_size_after_limit > 0 => buffer + Unused = position
          /\ Unused <= last_returned_size /\ Unused <= position

(* A limit is never wider than the ones around it.                          *)
Stacked ==
    /\ pushed \in Seq(0 .. IntMax)
    /\ \A i \in 1 .. Len(pushed) : current_limit <= pushed[i]
    /\ \A i, j \in 1 .. Len(pushed) : i < j => pushed[j] <= pushed[i]

(* s is what the data holds from a place on.                                *)
Held(d, s, from) ==
    /\ s \in Seq(Nat) /\ from \in Nat /\ from + Len(s) <= Len(d)
    /\ \A i \in 1 .. Len(s) : s[i] = d[from + i]

RawTask == [op : {"raw"}, left : Nat, got : Seq(Nat)]
VarintTask == [op : {"varint", "tag"}, got : Seq(Nat), slow : BOOLEAN]

Underway ==
    /\ task \in {NoTask} \union RawTask \union VarintTask
    /\ task # NoTask => Working /\ Held(data, task.got, CurrentPosition - Len(task.got))
    /\ task.op = "raw" => task.left + Len(task.got) \in Sizes
    /\ task.op \in {"varint", "tag"} =>
          /\ Len(task.got) <= MaxVarintBytes
          /\ \A i \in 1 .. Len(task.got) : Continues(task.got[i])

CodedInv == InputTypes /\ Counted /\ Stacked /\ Underway

-----------------------------------------------------------------------------
(* Parts of the data.                                                       *)

LEMMA HeldIsPiece ==
    ASSUME NEW d \in Seq(Nat), NEW s, NEW from, Held(d, s, from)
    PROVE  s = SubSeq(d, from + 1, from + Len(s))
<1>1. s \in Seq(Nat) /\ from \in Nat /\ Len(s) \in Nat /\ from + Len(s) <= Len(d)
  BY DEF Held
<1>2. \A i \in from + 1 .. from + Len(s) : d[i] \in Nat
  BY <1>1
<1> DEFINE t == SubSeq(d, from + 1, from + Len(s))
<1>3. /\ t \in Seq(Nat) /\ Len(t) = Len(s)
      /\ \A i \in 1 .. Len(s) : t[i] = d[from + i]
  <2>1. /\ t \in Seq(Nat)
        /\ Len(t) = IF from + 1 <= from + Len(s) THEN from + Len(s) - (from + 1) + 1 ELSE 0
        /\ \A i \in 1 .. from + Len(s) - (from + 1) + 1 : t[i] = d[from + 1 + i - 1]
    BY <1>1, <1>2, SubSeqProperties
  <2> HIDE DEF t
  <2>2. QED
    BY <1>1, <2>1
<1> HIDE DEF t
<1>4. \A i \in 1 .. Len(s) : s[i] = t[i]
  BY <1>3 DEF Held
<1>5. s = t
  BY <1>1, <1>3, <1>4, SeqEqual
<1>6. QED
  BY <1>5 DEF t

LEMMA HeldMore ==
    ASSUME NEW d \in Seq(Nat), NEW s, NEW from, Held(d, s, from),
           NEW n \in Nat, from + Len(s) + n <= Len(d)
    PROVE  /\ Held(d, s \o SubSeq(d, from + Len(s) + 1, from + Len(s) + n), from)
           /\ Len(s \o SubSeq(d, from + Len(s) + 1, from + Len(s) + n)) = Len(s) + n
<1>1. s \in Seq(Nat) /\ from \in Nat /\ Len(s) \in Nat
  BY DEF Held
<1> DEFINE at == from + Len(s)
           t == SubSeq(d, at + 1, at + n)
           u == s \o t
<1>2. at \in Nat /\ at + n <= Len(d)
  BY <1>1
<1>3. /\ t \in Seq(Nat) /\ Len(t) = n
      /\ \A i \in 1 .. n : t[i] = d[at + i]
  <2> HIDE DEF at
  <2>1. \A i \in at + 1 .. at + n : d[i] \in Nat
    BY <1>2
  <2>2. /\ t \in Seq(Nat)
        /\ Len(t) = IF at + 1 <= at + n THEN at + n - (at + 1) + 1 ELSE 0
        /\ \A i \in 1 .. at + n - (at + 1) + 1 : t[i] = d[at + 1 + i - 1]
    BY <1>2, <2>1, SubSeqProperties
  <2> HIDE DEF t
  <2>3. QED
    BY <1>2, <2>2
<1> HIDE DEF t
<1>4. /\ u \in Seq(Nat) /\ Len(u) = Len(s) + n
      /\ \A i \in 1 .. Len(s) + n : u[i] = IF i <= Len(s) THEN s[i] ELSE t[i - Len(s)]
  BY <1>1, <1>3, ConcatProperties
<1> HIDE DEF u
<1>5. ASSUME NEW i \in 1 .. Len(u)
      PROVE  u[i] = d[from + i]
  <2>1. CASE i <= Len(s)
    <3>1. i \in 1 .. Len(s)
      BY <1>1, <1>4, <2>1
    <3>2. u[i] = s[i]
      BY <1>1, <1>4, <2>1
    <3>3. s[i] = d[from + i]
      BY <3>1, Zenon DEF Held
    <3>4. QED
      BY <3>2, <3>3
  <2>2. CASE i > Len(s)
    <3>1. i - Len(s) \in 1 .. n /\ at + (i - Len(s)) = from + i
      BY <1>1, <1>4, <2>2
    <3>2. u[i] = t[i - Len(s)]
      BY <1>1, <1>4, <2>2
    <3>3. t[i - Len(s)] = d[at + (i - Len(s))]
      BY <1>3, <3>1
    <3>4. QED
      BY <3>1, <3>2, <3>3, Zenon
  <2>3. QED
    BY <1>1, <1>4, <2>1, <2>2
<1>6. from + Len(u) <= Len(d)
  BY <1>1, <1>2, <1>4
<1>7. Held(d, u, from)
  BY <1>1, <1>4, <1>5, <1>6 DEF Held
<1>8. QED
  BY <1>4, <1>7 DEF u, t, at

LEMMA HeldByte ==
    ASSUME NEW d \in Seq(Nat), NEW s, NEW from, Held(d, s, from), from + Len(s) < Len(d)
    PROVE  /\ Held(d, Append(s, d[from + Len(s) + 1]), from)
           /\ Len(Append(s, d[from + Len(s) + 1])) = Len(s) + 1
           /\ \A i \in 1 .. Len(s) : Append(s, d[from + Len(s) + 1])[i] = s[i]
           /\ Append(s, d[from + Len(s) + 1])[Len(s) + 1] = d[from + Len(s) + 1]
<1>1. s \in Seq(Nat) /\ from \in Nat /\ Len(s) \in Nat
  BY DEF Held
<1> DEFINE b == d[from + Len(s) + 1]
           u == Append(s, b)
<1>2. b \in Nat
  BY <1>1
<1>3. /\ u \in Seq(Nat) /\ Len(u) = Len(s) + 1
      /\ \A i \in 1 .. Len(s) : u[i] = s[i]
      /\ u[Len(s) + 1] = b
  <2> HIDE DEF b
  <2>1. QED
    BY <1>1, <1>2, AppendProperties
<1> HIDE DEF u
<1>4. ASSUME NEW i \in 1 .. Len(u)
      PROVE  u[i] = d[from + i]
  <2>1. CASE i <= Len(s)
    <3>1. i \in 1 .. Len(s)
      BY <1>1, <1>3, <2>1
    <3>2. s[i] = d[from + i]
      BY <3>1, Zenon DEF Held
    <3>3. QED
      BY <1>3, <3>1, <3>2
  <2>2. CASE i = Len(s) + 1
    BY <1>1, <1>3, <2>2
  <2>3. QED
    BY <1>1, <1>3, <2>1, <2>2
<1>5. Held(d, u, from)
  BY <1>1, <1>3, <1>4 DEF Held
<1>6. QED
  BY <1>3, <1>5 DEF u, b

LEMMA HeldNothing ==
    ASSUME NEW d \in Seq(Nat), NEW from \in 0 .. Len(d)
    PROVE  Held(d, <<>>, from)
BY DEF Held

-----------------------------------------------------------------------------
(* What the counters say, and what the calls do to them.                    *)

LEMMA Standing ==
    ASSUME InputAssumption, InputTypes, Counted, Working
    PROVE  /\ Len(data) \in Nat /\ ClosestLimit \in Nat /\ CurrentPosition \in Nat
           /\ position - Unused = CurrentPosition
           /\ CurrentPosition + size <= ClosestLimit /\ CurrentPosition + size <= Len(data)
           /\ buffer_size_after_limit > 0 => CurrentPosition + size = ClosestLimit
           /\ size + buffer_size_after_limit > 0 => buffer = CurrentPosition
           /\ Reader!Bound \in Nat /\ CurrentPosition + size <= Reader!Bound
           /\ Reader!Bound <= Len(data) /\ Reader!Bound <= ClosestLimit
           /\ Reader!Bound = Len(data) \/ Reader!Bound = ClosestLimit
<1>1. Len(data) \in Nat
  BY DEF InputTypes
<1>2. IntMax \in Nat
  BY DEF InputAssumption
<1>3. ClosestLimit \in Nat /\ ClosestLimit <= current_limit /\ ClosestLimit <= total_bytes_limit
  BY <1>2 DEF InputTypes, ClosestLimit, Smaller
<1>4. /\ CurrentPosition \in Nat /\ position - Unused = CurrentPosition
      /\ CurrentPosition + size <= ClosestLimit /\ CurrentPosition + size <= Len(data)
      /\ buffer_size_after_limit > 0 => CurrentPosition + size = ClosestLimit
      /\ size + buffer_size_after_limit > 0 => buffer = CurrentPosition
  BY <1>1, <1>2, <1>3 DEF InputTypes, Counted, Working, CurrentPosition, Unused
<1>5. Reader!Bound = IF Len(data) < ClosestLimit THEN Len(data) ELSE ClosestLimit
  BY DEF Reader!Bound, Reader!Least, ClosestLimit, Smaller
<1>6. size \in Nat
  BY DEF InputTypes
<1>7. QED
  BY <1>1, <1>3, <1>4, <1>5, <1>6

LEMMA Advanced ==
    ASSUME InputAssumption, InputTypes, Counted, Working,
           NEW n \in 0 .. size, Advance(n), broken' \in BOOLEAN, legitimate_message_end' \in BOOLEAN,
           UNCHANGED <<data, streamVars, buffer_size_after_limit, overflow_bytes,
                       total_bytes_read, limitVars, destroyed>>
    PROVE  /\ InputTypes' /\ Counted'
           /\ CurrentPosition' = CurrentPosition + n
           /\ position' - Unused' = CurrentPosition + n
<1>1. UNCHANGED <<data, position, last_returned_size, buffer_size_after_limit, overflow_bytes,
                  total_bytes_read, current_limit, total_bytes_limit, destroyed>>
  BY DEF streamVars, limitVars
<1>2. n \in Nat /\ n <= size /\ buffer' = buffer + n /\ size' = size - n
  BY DEF Advance, InputTypes
<1>3. InputTypes'
  BY <1>1, <1>2 DEF InputTypes
<1>4. UNCHANGED ClosestLimit
  BY <1>1 DEF ClosestLimit, Smaller
<1>5. IntMax \in Nat /\ ClosestLimit \in Nat /\ CurrentPosition \in Nat /\ Len(data) \in Nat
  BY Standing DEF InputAssumption
<1>6. Counted'
  BY <1>1, <1>2, <1>4, <1>5 DEF Counted, InputTypes, Working, Unused
<1>7. /\ CurrentPosition' = CurrentPosition + n
      /\ position' - Unused' = CurrentPosition + n
  BY <1>1, <1>2, Standing DEF InputTypes, CurrentPosition, Unused
<1>8. QED
  BY <1>3, <1>6, <1>7

LEMMA Refreshed ==
    ASSUME InputAssumption, InputTypes, Counted, Working, size = 0, RefreshSucceeds,
           UNCHANGED <<data, limitVars, legitimate_message_end, broken, destroyed>>
    PROVE  /\ InputTypes' /\ Counted' /\ Working'
           /\ CurrentPosition' = CurrentPosition
           /\ position' - Unused' = CurrentPosition
<1>1. UNCHANGED <<data, current_limit, total_bytes_limit, legitimate_message_end, broken, destroyed>>
  BY DEF limitVars
<1>2. IntMax \in Nat /\ MaxChunk \in Nat /\ ClosestLimit \in Nat /\ CurrentPosition \in Nat
      /\ Len(data) \in Nat
  BY Standing DEF InputAssumption
<1>3. PICK n \in Nat : n > 0 /\ NextChunk(n)
  BY <1>2 DEF RefreshSucceeds
<1>a. PICK over, here : over = Overflow(n) /\ here = n - over
  OBVIOUS
<1>4. n \in Nat /\ n > 0
  BY <1>3
<1>5. /\ buffer_size_after_limit = 0 /\ overflow_bytes = 0
      /\ n <= Len(data) - position
      /\ position' = position + n /\ last_returned_size' = n
      /\ buffer' = position /\ overflow_bytes' = over
      /\ total_bytes_read' = total_bytes_read + here
      /\ Cut(here, total_bytes_read + here, ClosestLimit)
  BY <1>3, <1>a DEF NextChunk, MayRefresh
<1>6. /\ total_bytes_read \in Nat /\ total_bytes_read <= IntMax
      /\ total_bytes_read = position /\ total_bytes_read <= ClosestLimit
      /\ position \in Nat /\ current_limit \in 0 .. IntMax /\ total_bytes_limit \in Nat
  BY <1>2, <1>5 DEF InputTypes, Counted, Working
<1>7. /\ over \in Nat /\ here \in Nat
      /\ over > 0 => total_bytes_read + here = IntMax
      /\ total_bytes_read + here <= IntMax
  BY <1>2, <1>4, <1>6, <1>a DEF Overflow
<1>8. PICK beyond, rest, read :
          /\ beyond = IF ClosestLimit < total_bytes_read + here
                      THEN total_bytes_read + here - ClosestLimit ELSE 0
          /\ rest = here - beyond /\ read = total_bytes_read + here
  OBVIOUS
<1>9. /\ beyond \in Nat /\ rest \in Nat /\ read \in Nat
      /\ n = rest + beyond + over /\ rest + beyond <= read
      /\ read - beyond <= ClosestLimit
      /\ beyond > 0 => read - beyond = ClosestLimit
      /\ read - (rest + beyond) = total_bytes_read /\ read + over = position + n
      /\ read <= IntMax /\ (over > 0 => read = IntMax)
  <2>1. over \in Nat /\ here \in Nat /\ n = here + over
    BY <1>4, <1>7, <1>a
  <2>2. /\ read \in Nat /\ read <= IntMax /\ (over > 0 => read = IntMax)
        /\ read + over = position + n
    BY <1>2, <1>4, <1>6, <1>7, <1>8, <2>1
  <2>3. beyond \in Nat /\ beyond <= here /\ read - beyond <= ClosestLimit
        /\ (beyond > 0 => read - beyond = ClosestLimit)
    BY <1>2, <1>6, <1>8, <2>1, <2>2
  <2>4. rest \in Nat /\ here = rest + beyond
    BY <1>8, <2>1, <2>3
  <2>5. read - (rest + beyond) = total_bytes_read /\ rest + beyond <= read
    BY <1>6, <1>8, <2>1, <2>4
  <2>6. QED
    BY <2>1, <2>2, <2>3, <2>4, <2>5
<1>10. /\ size' = rest /\ buffer_size_after_limit' = beyond
       /\ overflow_bytes' = over /\ total_bytes_read' = read
  BY <1>2, <1>5, <1>6, <1>7, <1>8, <1>9 DEF Cut
<1>11. UNCHANGED ClosestLimit
  BY <1>1 DEF ClosestLimit, Smaller
<1>12. InputTypes'
  <2>1. data' \in Seq(Nat) /\ position' \in 0 .. Len(data') /\ last_returned_size' \in Nat
    BY <1>1, <1>2, <1>4, <1>5, <1>6 DEF InputTypes
  <2>2. /\ buffer' \in Nat /\ size' \in Nat /\ buffer_size_after_limit' \in Nat
        /\ overflow_bytes' \in Nat /\ total_bytes_read' \in Nat
    BY <1>5, <1>6, <1>7, <1>9, <1>10
  <2>3. QED
    BY <1>1, <2>1, <2>2 DEF InputTypes
<1>13. Working'
  BY <1>1 DEF Working
<1>14. Unused' = n /\ CurrentPosition' = total_bytes_read /\ CurrentPosition = total_bytes_read
  <2>1. Unused' = rest + beyond + over /\ CurrentPosition' = read - (rest + beyond)
    BY <1>10 DEF Unused, CurrentPosition
  <2>2. CurrentPosition = total_bytes_read
    BY <1>5, <1>6 DEF CurrentPosition
  <2>3. QED
    BY <1>9, <2>1, <2>2
<1>15. Counted'
  BY <1>1, <1>4, <1>5, <1>6, <1>7, <1>9, <1>10, <1>11, <1>14 DEF Counted
<1>16. position' - Unused' = CurrentPosition
  BY <1>4, <1>5, <1>6, <1>14
<1>17. QED
  BY <1>12, <1>13, <1>14, <1>15, <1>16

(* Refresh fails at the end of the data or at a limit, and nowhere else.    *)
LEMMA NothingMore ==
    ASSUME InputAssumption, InputTypes, Counted, Working, size = 0, RefreshFails,
           UNCHANGED <<data, limitVars, destroyed>>,
           broken' \in BOOLEAN, legitimate_message_end' \in BOOLEAN
    PROVE  /\ InputTypes' /\ Counted'
           /\ CurrentPosition' = CurrentPosition
           /\ position' - Unused' = CurrentPosition
           /\ CurrentPosition = Reader!Bound
           /\ UNCHANGED <<total_bytes_read, buffer_size_after_limit>>
<1>1. UNCHANGED <<data, current_limit, total_bytes_limit, destroyed>>
  BY DEF limitVars
<1>2. IntMax \in Nat /\ ClosestLimit \in Nat /\ CurrentPosition \in Nat /\ Len(data) \in Nat
      /\ ClosestLimit <= current_limit /\ current_limit <= IntMax
  BY Standing DEF InputAssumption, InputTypes, ClosestLimit, Smaller
<1>3. UNCHANGED ClosestLimit
  BY <1>1 DEF ClosestLimit, Smaller
<1>4. UNCHANGED <<position, buffer, size, buffer_size_after_limit, overflow_bytes, total_bytes_read>>
      /\ \/ last_returned_size' = last_returned_size
         \/ last_returned_size' = 0 /\ buffer_size_after_limit = 0 /\ overflow_bytes = 0
  BY DEF RefreshFails, AtLimit, AtEnd, MayRefresh, streamVars, bufferVars
<1>5. InputTypes'
  BY <1>1, <1>4 DEF InputTypes
<1>6. UNCHANGED <<Unused, CurrentPosition>>
  BY <1>4 DEF Unused, CurrentPosition
<1>7. Counted'
  <2>1. Unused' <= last_returned_size'
    BY <1>4, <1>6 DEF Counted, Unused, Working, InputTypes
  <2>2. QED
    BY <1>1, <1>3, <1>4, <1>6, <2>1 DEF Counted, Working
<1>8. CurrentPosition = Reader!Bound
  <2>1. CASE ~ MayRefresh
    <3>1. CurrentPosition = ClosestLimit
      BY <1>2, <2>1, Standing DEF MayRefresh, Counted, InputTypes, CurrentPosition, Working
    <3>2. QED
      BY <1>2, <3>1, Standing
  <2>2. CASE MayRefresh /\ position = Len(data)
    <3>1. CurrentPosition = Len(data)
      BY <2>2, Standing DEF MayRefresh, Unused, InputTypes
    <3>2. QED
      BY <1>2, <3>1, Standing
  <2>3. QED
    BY <2>1, <2>2 DEF RefreshFails, AtLimit, AtEnd
<1>9. position' - Unused' = CurrentPosition
  BY <1>4, <1>6, Standing
<1>10. QED
  BY <1>4, <1>5, <1>6, <1>7, <1>8, <1>9

(* RecomputeBufferLimits under any limits that are not behind.              *)
LEMMA Recomputed ==
    ASSUME InputAssumption, InputTypes, Counted, Working,
           NEW limit \in 0 .. IntMax, NEW total \in Nat,
           CurrentPosition <= limit, CurrentPosition <= total,
           Recompute(limit, total), current_limit' = limit, total_bytes_limit' = total,
           legitimate_message_end' \in BOOLEAN,
           UNCHANGED <<data, streamVars, buffer, overflow_bytes, total_bytes_read, broken, destroyed>>
    PROVE  /\ InputTypes' /\ Counted' /\ Working'
           /\ CurrentPosition' = CurrentPosition
           /\ position' - Unused' = CurrentPosition
<1>1. UNCHANGED <<data, position, last_returned_size, buffer, overflow_bytes, total_bytes_read,
                  broken, destroyed>>
  BY DEF streamVars
<1>2. IntMax \in Nat /\ CurrentPosition \in Nat /\ Len(data) \in Nat
  BY Standing DEF InputAssumption
<1> DEFINE closest == Smaller(limit, total)
<1>3. closest \in Nat /\ CurrentPosition <= closest /\ ClosestLimit' = closest
  BY <1>2 DEF ClosestLimit, Smaller
<1> HIDE DEF closest
<1>4. /\ size \in Nat /\ buffer_size_after_limit \in Nat /\ total_bytes_read \in Nat
      /\ overflow_bytes \in Nat
      /\ CurrentPosition = total_bytes_read - (size + buffer_size_after_limit)
  BY DEF InputTypes, CurrentPosition
<1>5. /\ buffer_size_after_limit' =
            IF closest < total_bytes_read THEN total_bytes_read - closest ELSE 0
      /\ size' = size + buffer_size_after_limit - buffer_size_after_limit'
  BY <1>2, <1>3, <1>4 DEF Recompute, Cut, closest
<1>6. /\ size' \in Nat /\ buffer_size_after_limit' \in Nat
      /\ size' + buffer_size_after_limit' = size + buffer_size_after_limit
      /\ total_bytes_read - buffer_size_after_limit' <= closest
      /\ buffer_size_after_limit' > 0 => total_bytes_read - buffer_size_after_limit' = closest
  BY <1>2, <1>3, <1>4, <1>5
<1>7. Unused' = Unused /\ CurrentPosition' = CurrentPosition
  BY <1>1, <1>4, <1>6 DEF Unused, CurrentPosition
<1>8. InputTypes'
  BY <1>1, <1>6 DEF InputTypes
<1>9. Counted'
  BY <1>1, <1>3, <1>6, <1>7 DEF Counted, Working
<1>10. Working' /\ position' - Unused' = CurrentPosition
  BY <1>1, <1>7, Standing DEF Working
<1>11. QED
  BY <1>7, <1>8, <1>9, <1>10

LEMMA StillCounts ==
    ASSUME InputTypes, Counted, Working, broken' \in BOOLEAN, legitimate_message_end' \in BOOLEAN,
           UNCHANGED <<data, streamVars, bufferVars, limitVars, destroyed>>
    PROVE  /\ InputTypes' /\ Counted'
           /\ CurrentPosition' = CurrentPosition
           /\ position' - Unused' = position - Unused
<1>1. UNCHANGED <<data, position, last_returned_size, buffer, size, buffer_size_after_limit,
                  overflow_bytes, total_bytes_read, current_limit, total_bytes_limit, destroyed>>
  BY DEF streamVars, bufferVars, limitVars
<1>2. UNCHANGED <<ClosestLimit, Unused, CurrentPosition>>
  BY <1>1 DEF ClosestLimit, Smaller, Unused, CurrentPosition
<1>3. InputTypes'
  BY <1>1 DEF InputTypes
<1>4. Counted'
  BY <1>1, <1>2 DEF Counted, Working
<1>5. QED
  BY <1>1, <1>2, <1>3, <1>4

LEMMA StillStacked ==
    ASSUME Stacked, UNCHANGED limitVars
    PROVE  Stacked'
BY DEF Stacked, limitVars

LEMMA Idle ==
    ASSUME task' = NoTask
    PROVE  Underway'
<1>1. task'.op = "none"
  BY DEF NoTask
<1>2. QED
  BY <1>1 DEF Underway

-----------------------------------------------------------------------------
(* The steps of the reader.                                                 *)

LEMMA CallsReturn ==
    ASSUME \/ \E n \in Sizes : Reader!Read(n) \/ Reader!Skip(n)
           \/ Reader!ReadVarint("varint") \/ Reader!ReadTag \/ Reader!ExpectAtEnd
    PROVE  result'.op # "none"
<1>1. \A op \in {"raw", "skip", "end", "expect", "varint", "tag"} : \A ok, got :
          Reader!Return(op, ok, got) => result'.op = op
  BY DEF Reader!Return
<1>2. ASSUME NEW op \in {"varint", "tag"}, Reader!ReadVarint(op)
      PROVE  result'.op = op
  <2>1. CASE \E n \in 1 .. MaxVarintBytes : Reader!Ahead(n) /\ Reader!Take(op, n)
    <3>1. PICK n \in 1 .. MaxVarintBytes : Reader!Take(op, n)
      BY <2>1
    <3>2. QED
      <4>1. PICK got : Reader!Return(op, TRUE, got)
        BY <3>1 DEF Reader!Take
      <4>2. QED
        BY <4>1 DEF Reader!Return
  <2>2. QED
    BY <1>2, <2>1, Zenon DEF Reader!ReadVarint
<1>3. CASE \E n \in Sizes : Reader!Read(n) \/ Reader!Skip(n)
  BY <1>1, <1>3 DEF Reader!Read, Reader!Skip, Reader!Take
<1>4. CASE Reader!ReadVarint("varint")
  BY <1>2, <1>4
<1>5. CASE Reader!ReadTag
  BY <1>1, <1>2, <1>5 DEF Reader!ReadTag
<1>6. CASE Reader!ExpectAtEnd
  BY <1>1, <1>6 DEF Reader!ExpectAtEnd
<1>7. QED
  BY <1>3, <1>4, <1>5, <1>6

LEMMA ReaderCalls ==
    ASSUME Working, UNCHANGED <<data, limitVars, legitimate_message_end, destroyed>>,
           \/ \E n \in Sizes : Reader!Read(n) \/ Reader!Skip(n)
           \/ Reader!ReadVarint("varint")
    PROVE  Reader!Next
<1>1. UNCHANGED <<data, current_limit, total_bytes_limit, pushed, legitimate_message_end, destroyed>>
  BY DEF limitVars
<1>2. QED
  BY <1>1, CallsReturn, Zenon DEF Reader!Next, Working

LEMMA ReaderCallsAtEnd ==
    ASSUME Working, UNCHANGED <<data, limitVars, destroyed>>,
           Reader!ReadTag \/ Reader!ExpectAtEnd
    PROVE  Reader!Next
<1>1. UNCHANGED <<data, current_limit, total_bytes_limit, pushed, destroyed>>
  BY DEF limitVars
<1>2. QED
  BY <1>1, CallsReturn, Zenon DEF Reader!Next, Working

LEMMA Unmoved ==
    ASSUME UNCHANGED <<data, Position, limitVars, legitimate_message_end, result, broken, destroyed>>
    PROVE  UNCHANGED Reader!vars
BY DEF Reader!vars, limitVars

(* A read under way has got what lies before the place of the counters.     *)
LEMMA Reading ==
    ASSUME InputAssumption, CodedInv, task # NoTask
    PROVE  /\ Working
           /\ Held(data, task.got, Position)
           /\ Position \in Nat /\ Len(task.got) \in Nat /\ task.got \in Seq(Nat)
           /\ Position + Len(task.got) = CurrentPosition
           /\ task \in RawTask \union VarintTask
<1>1. Working /\ Held(data, task.got, CurrentPosition - Len(task.got))
  BY DEF CodedInv, Underway
<1>2. task \in RawTask \union VarintTask
  BY DEF CodedInv, Underway
<1>3. CurrentPosition \in Nat /\ position - Unused = CurrentPosition
  BY <1>1, Standing DEF CodedInv
<1>4. task.got \in Seq(Nat) /\ Len(task.got) \in Nat
  BY <1>1 DEF Held
<1>5. Position = CurrentPosition - Len(task.got)
  BY <1>1, <1>3 DEF Position, Done, Working
<1>6. Held(data, task.got, Position)
  BY <1>1, <1>5
<1>7. Position \in Nat
  BY <1>6 DEF Held
<1>8. QED
  BY <1>1, <1>2, <1>3, <1>4, <1>5, <1>6, <1>7

\* What is in the buffer is what comes next in the data.
LEMMA InBuffer ==
    ASSUME InputAssumption, InputTypes, Counted, Working, NEW n \in 0 .. size
    PROVE  Bytes(buffer, n) = SubSeq(data, CurrentPosition + 1, CurrentPosition + n)
<1>1. size \in Nat /\ buffer \in Nat /\ CurrentPosition \in Nat /\ buffer_size_after_limit \in Nat
  BY Standing DEF InputTypes
<1>2. CASE n = 0
  <2>1. Bytes(buffer, n) = <<>>
    BY <1>1, <1>2, SubSeqEmpty DEF Bytes
  <2>2. SubSeq(data, CurrentPosition + 1, CurrentPosition + n) = <<>>
    BY <1>1, <1>2, SubSeqEmpty
  <2>3. QED
    BY <2>1, <2>2
<1>3. CASE n > 0
  <2>1. buffer = CurrentPosition
    BY <1>1, <1>3, Standing
  <2>2. QED
    BY <2>1 DEF Bytes
<1>4. QED
  BY <1>1, <1>2, <1>3

-----------------------------------------------------------------------------
(* Raw reads.                                                               *)

LEMMA BeginStep ==
    ASSUME InputAssumption, CodedInv, UNCHANGED data,
           (\E n \in Sizes : ReadRaw(n)) \/ ReadVarint \/ ReadTag
    PROVE  CodedInv' /\ UNCHANGED Reader!vars
<1>1. /\ task = NoTask /\ Working
      /\ \/ \E n \in Sizes : n >= 0 /\ task' = [op |-> "raw", left |-> n, got |-> <<>>]
         \/ task' = [op |-> "varint", got |-> <<>>, slow |-> FALSE]
         \/ task' = [op |-> "tag", got |-> <<>>, slow |-> FALSE]
      /\ UNCHANGED <<streamVars, bufferVars, limitVars, legitimate_message_end, result, broken, destroyed>>
  BY DEF ReadRaw, ReadVarint, ReadTag, Ready, Working
<1>2. InputTypes /\ Counted /\ Stacked
  BY DEF CodedInv
<1>3. /\ InputTypes' /\ Counted' /\ CurrentPosition' = CurrentPosition
      /\ position' - Unused' = position - Unused
  BY <1>1, <1>2, StillCounts DEF InputTypes
<1>4. Stacked'
  BY <1>1, <1>2, StillStacked
<1>5. Sizes \subseteq Int
  BY DEF InputAssumption
<1>6. /\ task' \in RawTask \union VarintTask /\ task' # NoTask /\ task'.got = <<>>
      /\ task'.op = "raw" => task'.left \in Sizes
  <2>1. CASE \E n \in Sizes : n >= 0 /\ task' = [op |-> "raw", left |-> n, got |-> <<>>]
    <3>1. PICK n \in Sizes : n >= 0 /\ task' = [op |-> "raw", left |-> n, got |-> <<>>]
      BY <2>1
    <3>2. n \in Nat /\ task'.op = "raw" /\ task'.got = <<>> /\ task'.left = n
      BY <1>5, <3>1
    <3>3. task' \in RawTask
      BY <3>1, <3>2 DEF RawTask
    <3>4. QED
      BY <3>2, <3>3 DEF NoTask
  <2>2. CASE task' = [op |-> "varint", got |-> <<>>, slow |-> FALSE]
    BY <2>2 DEF VarintTask, NoTask
  <2>3. CASE task' = [op |-> "tag", got |-> <<>>, slow |-> FALSE]
    BY <2>3 DEF VarintTask, NoTask
  <2>4. QED
    BY <1>1, <2>1, <2>2, <2>3
<1>7. Held(data', <<>>, CurrentPosition')
  <2>1. data' \in Seq(Nat) /\ CurrentPosition' \in 0 .. Len(data')
    <3>1. data \in Seq(Nat) /\ size \in Nat
      BY <1>2 DEF InputTypes
    <3>2. CurrentPosition \in 0 .. Len(data)
      BY <1>1, <1>2, <3>1, Standing
    <3>3. QED
      BY <1>3, <3>1, <3>2
  <2>2. QED
    BY <2>1, HeldNothing
<1>8. Working'
  BY <1>1 DEF Working
<1>9. Underway'
  <2>1. Len(task'.got) = 0 /\ CurrentPosition' - Len(task'.got) = CurrentPosition'
    BY <1>1, <1>2, <1>3, <1>6, Standing
  <2>2. task'.op = "raw" => task'.left + Len(task'.got) \in Sizes
    <3>1. SUFFICES ASSUME task'.op = "raw" PROVE task'.left + Len(task'.got) \in Sizes
      OBVIOUS
    <3>2. task'.left \in Sizes
      BY <1>6, <3>1
    <3>3. PICK left : left = task'.left
      OBVIOUS
    <3>4. left \in Int /\ left + 0 = left
      <4>1. left \in Int
        BY <1>5, <3>2, <3>3, Zenon
      <4>2. QED
        BY <4>1
    <3>5. QED
      BY <2>1, <3>2, <3>3, <3>4
  <2>3. MaxVarintBytes \in Nat
    BY DEF InputAssumption
  <2>4. QED
    BY <1>6, <1>7, <1>8, <2>1, <2>2, <2>3 DEF Underway
<1>10. UNCHANGED Position
  BY <1>1, <1>2, <1>3, <1>6, Standing DEF Position, Done, Working
<1>11. QED
  BY <1>1, <1>2, <1>3, <1>4, <1>9, <1>10, Unmoved DEF CodedInv

LEMMA RawEndsStep ==
    ASSUME InputAssumption, CodedInv, UNCHANGED data, RawEnds,
           UNCHANGED <<limitVars, legitimate_message_end, destroyed>>
    PROVE  CodedInv' /\ Reader!Next
<1> DEFINE n == Len(task.got) + task.left
           got == task.got \o Bytes(buffer, task.left)
<1>1. /\ task.op = "raw" /\ size >= task.left
      /\ result' = [op |-> "raw", ok |-> TRUE, got |-> got] /\ broken' = ~ TRUE /\ task' = NoTask
      /\ Advance(task.left)
      /\ UNCHANGED <<streamVars, buffer_size_after_limit, overflow_bytes, total_bytes_read>>
  BY DEF RawEnds, Return
<1>2. InputTypes /\ Counted /\ Stacked /\ task # NoTask
  BY <1>1 DEF CodedInv, NoTask
<1>3. /\ Working /\ Held(data, task.got, Position)
      /\ Position \in Nat /\ Len(task.got) \in Nat /\ task.got \in Seq(Nat)
      /\ Position + Len(task.got) = CurrentPosition
      /\ task \in RawTask \union VarintTask
  BY <1>2, Reading
<1>4. task.left \in Nat /\ task.left + Len(task.got) \in Sizes
  BY <1>1, <1>3 DEF RawTask, VarintTask, CodedInv, Underway
<1>5. size \in Nat /\ data \in Seq(Nat) /\ broken' \in BOOLEAN /\ legitimate_message_end' \in BOOLEAN
  BY <1>1, <1>2 DEF InputTypes
<1>6. task.left \in 0 .. size
  BY <1>1, <1>4, <1>5
<1>7. /\ InputTypes' /\ Counted'
      /\ position' - Unused' = CurrentPosition + task.left
  BY <1>1, <1>2, <1>3, <1>5, <1>6, Advanced
<1>8. CodedInv'
  BY <1>1, <1>2, <1>7, StillStacked, Idle DEF CodedInv
<1>9. Position + Len(task.got) + task.left <= Len(data)
  BY <1>2, <1>3, <1>4, <1>5, <1>6, Standing
<1>10. got = SubSeq(data, Position + 1, Position + n) /\ Position + n <= Reader!Bound
  <2>1. Bytes(buffer, task.left) = SubSeq(data, CurrentPosition + 1, CurrentPosition + task.left)
    BY <1>2, <1>3, <1>6, InBuffer
  <2>2. got = task.got \o SubSeq(data, Position + Len(task.got) + 1, Position + Len(task.got) + task.left)
    BY <1>3, <2>1
  <2>3. Held(data, got, Position) /\ Len(got) = n
    <3>1. LET s == task.got \o SubSeq(data, Position + Len(task.got) + 1, Position + Len(task.got) + task.left)
          IN  Held(data, s, Position) /\ Len(s) = n
      BY <1>3, <1>4, <1>5, <1>9, HeldMore, Zenon
    <3>2. QED
      BY <2>2, <3>1, Zenon
  <2> HIDE DEF got, n
  <2>4. got = SubSeq(data, Position + 1, Position + n)
    BY <1>5, <2>3, HeldIsPiece
  <2>5. Position + n <= Reader!Bound
    BY <1>2, <1>3, <1>4, <1>5, <1>6, Standing DEF n
  <2>6. QED
    BY <2>4, <2>5
<1>11. n \in Sizes /\ n >= 0
  BY <1>3, <1>4
<1>12. Position' = Position + n
  <2>1. Position' = position' - Unused' - 0
    BY <1>1, <1>3 DEF Position, Done, Working
  <2>2. QED
    BY <1>2, <1>3, <1>4, <1>7, <2>1, Standing
<1> HIDE DEF got, n
<1>13. Reader!Read(n)
  BY <1>1, <1>10, <1>11, <1>12 DEF Reader!Read, Reader!Take, Reader!Return
<1>14. Reader!Next
  BY <1>3, <1>11, <1>13, ReaderCalls
<1>15. QED
  BY <1>8, <1>14

LEMMA RawGoesOnStep ==
    ASSUME InputAssumption, CodedInv, UNCHANGED data, RawGoesOn,
           UNCHANGED <<limitVars, legitimate_message_end, destroyed>>
    PROVE  CodedInv' /\ (Reader!Next \/ UNCHANGED Reader!vars)
<1>1. task.op = "raw" /\ size < task.left
  BY DEF RawGoesOn
<1>2. InputTypes /\ Counted /\ Stacked /\ task # NoTask
  BY <1>1 DEF CodedInv, NoTask
<1>3. /\ Working /\ Held(data, task.got, Position)
      /\ Position \in Nat /\ Len(task.got) \in Nat /\ task.got \in Seq(Nat)
      /\ Position + Len(task.got) = CurrentPosition
      /\ task \in RawTask \union VarintTask
  BY <1>2, Reading
<1>4. /\ task \in RawTask /\ task.left \in Nat /\ task.left + Len(task.got) \in Sizes
  BY <1>1, <1>3 DEF RawTask, VarintTask, CodedInv, Underway
<1>5. size \in Nat /\ data \in Seq(Nat) /\ broken \in BOOLEAN /\ legitimate_message_end \in BOOLEAN
  BY <1>2 DEF InputTypes
<1>6. ASSUME size > 0,
             task' = [task EXCEPT !.left = @ - size, !.got = @ \o Bytes(buffer, size)],
             Advance(size),
             UNCHANGED <<result, broken, streamVars, buffer_size_after_limit, overflow_bytes, total_bytes_read>>
      PROVE  CodedInv' /\ UNCHANGED Reader!vars
  <2>a. PICK got : got = task.got \o Bytes(buffer, size)
    OBVIOUS
  <2>1. /\ InputTypes' /\ Counted' /\ CurrentPosition' = CurrentPosition + size
        /\ position' - Unused' = CurrentPosition + size
    BY <1>2, <1>3, <1>5, <1>6, Advanced
  <2>2. Held(data, got, Position) /\ Len(got) = Len(task.got) + size
    <3>1. Bytes(buffer, size) = SubSeq(data, CurrentPosition + 1, CurrentPosition + size)
      BY <1>2, <1>3, <1>5, InBuffer
    <3>2. got = task.got \o SubSeq(data, Position + Len(task.got) + 1, Position + Len(task.got) + size)
      BY <1>3, <2>a, <3>1
    <3>3. Position + Len(task.got) + size <= Len(data)
      BY <1>2, <1>3, <1>5, Standing
    <3>4. LET s == task.got \o SubSeq(data, Position + Len(task.got) + 1, Position + Len(task.got) + size)
          IN  Held(data, s, Position) /\ Len(s) = Len(task.got) + size
      BY <1>3, <1>5, <3>3, HeldMore, Zenon
    <3>5. QED
      BY <3>2, <3>4, Zenon
  <2>3. task' = [op |-> "raw", left |-> task.left - size, got |-> got]
    BY <1>4, <1>6, <2>a DEF RawTask
  <2>4. /\ task' \in RawTask /\ task' # NoTask /\ task'.op = "raw"
        /\ task'.got = got /\ task'.left = task.left - size
    <3>1. task.left - size \in Nat /\ got \in Seq(Nat)
      BY <1>1, <1>4, <1>5, <2>2 DEF Held
    <3>2. QED
      BY <2>3, <3>1 DEF RawTask, NoTask
  <2>5. Working'
    BY <1>3, <1>6 DEF Working
  <2>6. CurrentPosition' - Len(task'.got) = Position
    <3>1. PICK k \in Nat : k = Len(task.got)
      BY <1>3
    <3>2. PICK from \in Nat : from = Position
      BY <1>3
    <3>3. CurrentPosition' = from + k + size
      BY <1>3, <2>1, <3>1, <3>2
    <3>4. Len(task'.got) = k + size
      BY <2>2, <2>4, <3>1
    <3>5. CurrentPosition' - Len(task'.got) = from
      BY <1>5, <3>3, <3>4
    <3>6. QED
      BY <3>2, <3>5
  <2>7. Underway'
    <3>1. task'.left + Len(task'.got) = task.left + Len(task.got)
      <4>1. task'.left + Len(task'.got) = task.left - size + (Len(task.got) + size)
        BY <2>2, <2>4, Zenon
      <4>2. task.left - size + (Len(task.got) + size) = task.left + Len(task.got)
        BY <1>3, <1>4, <1>5
      <4>3. QED
        BY <4>1, <4>2, Zenon
    <3>2. Held(data', task'.got, CurrentPosition' - Len(task'.got))
      BY <2>2, <2>4, <2>6
    <3>3. QED
      BY <1>4, <2>4, <2>5, <3>1, <3>2 DEF Underway
  <2>8. UNCHANGED Position
    <3>1. Position' = position' - Unused' - Len(task'.got)
      BY <2>4, <2>5 DEF Position, Done, Working
    <3>2. QED
      BY <1>2, <1>3, <1>5, <2>1, <2>2, <2>4, <3>1, Standing
  <2>9. QED
    BY <1>2, <1>6, <2>1, <2>7, <2>8, StillStacked, Unmoved DEF CodedInv
<1>7. ASSUME size = 0, RefreshSucceeds, UNCHANGED callVars
      PROVE  CodedInv' /\ UNCHANGED Reader!vars
  <2>1. UNCHANGED <<task, result, broken>>
    BY <1>7 DEF callVars
  <2>2. InputTypes' /\ Counted' /\ Working' /\ CurrentPosition' = CurrentPosition
        /\ position' - Unused' = CurrentPosition
    BY <1>2, <1>3, <1>7, <2>1, Refreshed
  <2>3. Underway'
    BY <2>1, <2>2 DEF Underway, CodedInv
  <2>4. CodedInv'
    BY <1>2, <2>2, <2>3, StillStacked DEF CodedInv
  <2>5. UNCHANGED Position
    <3>1. Position' = position' - Unused' - Len(task.got)
      BY <1>2, <2>1, <2>2 DEF Position, Done, Working
    <3>2. QED
      BY <1>2, <1>3, <2>2, <3>1, Standing
  <2>6. QED
    BY <2>1, <2>4, <2>5, Unmoved
<1>8. ASSUME size = 0, RefreshFails, Return("raw", FALSE, task.got)
      PROVE  CodedInv' /\ Reader!Next
  <2> DEFINE n == Len(task.got) + task.left
  <2>1. /\ result' = [op |-> "raw", ok |-> FALSE, got |-> task.got] /\ broken' = ~ FALSE
        /\ task' = NoTask
    BY <1>8 DEF Return
  <2>2. /\ InputTypes' /\ Counted' /\ position' - Unused' = CurrentPosition
        /\ CurrentPosition = Reader!Bound
    BY <1>2, <1>3, <1>5, <1>8, <2>1, NothingMore
  <2>3. CodedInv'
    BY <1>2, <2>1, <2>2, StillStacked, Idle DEF CodedInv
  <2>4. ~ (Position + n <= Reader!Bound) /\ n \in Sizes /\ n >= 0
    BY <1>1, <1>3, <1>4, <1>8, <2>2
  <2>5. task.got = SubSeq(data, Position + 1, Reader!Bound)
    BY <1>3, <1>5, <2>2, HeldIsPiece
  <2>6. Position' = Reader!Bound
    <3>1. Position' = position' - Unused' - 0
      BY <1>3, <2>1 DEF Position, Done, Working
    <3>2. QED
      BY <1>2, <1>3, <2>2, <3>1, Standing
  <2> HIDE DEF n
  <2>7. Reader!Read(n)
    BY <2>1, <2>4, <2>5, <2>6 DEF Reader!Read, Reader!Return
  <2>8. QED
    BY <1>3, <2>3, <2>4, <2>7, ReaderCalls
<1>9. QED
  BY <1>6, <1>7, <1>8 DEF RawGoesOn

LEMMA RawStep ==
    ASSUME InputAssumption, CodedInv, UNCHANGED data, Raw
    PROVE  CodedInv' /\ (Reader!Next \/ UNCHANGED Reader!vars)
BY RawEndsStep, RawGoesOnStep DEF Raw

-----------------------------------------------------------------------------
(* Varints and tags.                                                        *)

LEMMA LeastNumber ==
    ASSUME NEW T, T \subseteq Nat, T # {}
    PROVE  \E n \in T : \A m \in T : n <= m
<1>1. PICK n \in T : \A m \in T : <<m, n>> \notin OpToRel(<, Nat)
  BY NatLessThanWellFounded, WFMin
<1>2. ASSUME NEW m \in T PROVE n <= m
  <2>1. n \in Nat /\ m \in Nat /\ ~ (m < n)
    BY <1>1 DEF OpToRel
  <2>2. QED
    BY <2>1
<1>3. QED
  BY <1>2

LEMMA LengthFound ==
    ASSUME InputAssumption, NEW from, NEW n, n = VarintLength(from)
    PROVE  /\ n \in 1 .. MaxVarintBytes + 1
           /\ n <= MaxVarintBytes => ~ Continues(data[from + n])
           /\ \A m \in 1 .. n - 1 : Continues(data[from + m])
<1>1. MaxVarintBytes \in Nat
  BY DEF InputAssumption
<1> DEFINE T == {k \in 1 .. MaxVarintBytes + 1 : k = MaxVarintBytes + 1 \/ ~ Continues(data[from + k])}
           Right(k) == /\ k <= MaxVarintBytes => ~ Continues(data[from + k])
                       /\ \A m \in 1 .. k - 1 : Continues(data[from + m])
<1>2. T \subseteq Nat /\ T # {}
  BY <1>1
<1>3. PICK k \in T : \A m \in T : k <= m
  <2> HIDE DEF T
  <2>1. QED
    BY <1>2, LeastNumber
<1>4. k \in 1 .. MaxVarintBytes + 1 /\ Right(k)
  <2>1. k \in 1 .. MaxVarintBytes + 1 /\ (k = MaxVarintBytes + 1 \/ ~ Continues(data[from + k]))
    OBVIOUS
  <2>2. ASSUME NEW m \in 1 .. k - 1 PROVE Continues(data[from + m])
    <3>1. m \in 1 .. MaxVarintBytes + 1 /\ ~ (k <= m)
      BY <1>1, <2>1
    <3>2. m \notin T
      BY <1>3, <3>1
    <3>3. QED
      BY <3>1, <3>2
  <2>3. QED
    BY <1>1, <2>1, <2>2
<1>5. n = CHOOSE l \in 1 .. MaxVarintBytes + 1 : Right(l)
  BY DEF VarintLength
<1> HIDE DEF Right
<1>6. n \in 1 .. MaxVarintBytes + 1 /\ Right(n)
  BY <1>4, <1>5, Zenon
<1>7. QED
  BY <1>6 DEF Right

LEMMA VarintIsRead ==
    ASSUME Working, UNCHANGED <<data, limitVars, legitimate_message_end, destroyed>>,
           NEW op \in {"varint", "tag"}, op = "tag" => Position < Reader!Bound,
           Reader!ReadVarint(op)
    PROVE  Reader!Next
<1>1. CASE op = "varint"
  BY <1>1, ReaderCalls
<1>2. CASE op = "tag"
  <2>1. Reader!ReadTag
    BY <1>2 DEF Reader!ReadTag
  <2>2. QED
    BY <2>1, ReaderCallsAtEnd
<1>3. QED
  BY <1>1, <1>2

LEMMA VarintFails ==
    ASSUME Working, UNCHANGED <<data, limitVars, legitimate_message_end, destroyed>>,
           NEW op \in {"varint", "tag"}, op = "tag" => Position < Reader!Bound,
           NEW got, result' = [op |-> op, ok |-> FALSE, got |-> got], broken' = ~ FALSE,
           Position' \in Position .. Reader!Bound,
           \A n \in 1 .. MaxVarintBytes : ~ Reader!Ahead(n)
    PROVE  Reader!Next
<1>1. result'.op = op /\ ~ result'.ok /\ broken'
  OBVIOUS
<1>2. Reader!ReadVarint(op)
  BY <1>1 DEF Reader!ReadVarint
<1>3. QED
  BY <1>2, VarintIsRead

LEMMA VarintSucceeds ==
    ASSUME InputAssumption, data \in Seq(Nat), Position \in Nat, Reader!Bound \in Nat,
           Reader!Bound <= Len(data),
           Working, UNCHANGED <<data, limitVars, legitimate_message_end, destroyed>>,
           NEW op \in {"varint", "tag"}, NEW n \in 1 .. MaxVarintBytes,
           Position + n <= Reader!Bound, ~ Continues(data[Position + n]),
           \A m \in 1 .. n - 1 : Continues(data[Position + m]),
           result' = [op |-> op, ok |-> TRUE, got |-> SubSeq(data, Position + 1, Position + n)],
           broken' = ~ TRUE, Position' = Position + n
    PROVE  Reader!Next
<1>1. MaxVarintBytes \in Nat /\ Base \in Nat
  BY DEF InputAssumption
<1>2. n \in Nat /\ n >= 1
  BY <1>1
<1>3. data[Position + n] \in Nat
  BY <1>2
<1>4. Reader!Ahead(n)
  BY <1>1, <1>2, <1>3 DEF Reader!Ahead, Continues
<1>5. Reader!Take(op, n)
  BY DEF Reader!Take, Reader!Return
<1>6. Reader!ReadVarint(op)
  BY <1>4, <1>5 DEF Reader!ReadVarint
<1>7. Position < Reader!Bound
  BY <1>2
<1>8. QED
  BY <1>6, <1>7, VarintIsRead

\* No varint ends in what continues, nor beyond the end.
LEMMA NoneAhead ==
    ASSUME InputAssumption, data \in Seq(Nat), Position \in Nat,
           Reader!Bound \in Nat, Reader!Bound <= Len(data),
           NEW k, \A m \in 1 .. k : Continues(data[Position + m]),
           NEW n \in 1 .. MaxVarintBytes, n \in 1 .. k \/ Position + n > Reader!Bound
    PROVE  ~ Reader!Ahead(n)
<1>1. MaxVarintBytes \in Nat /\ Base \in Nat
  BY DEF InputAssumption
<1>2. n \in Nat /\ n >= 1
  BY <1>1
<1>3. SUFFICES ASSUME Reader!Ahead(n) PROVE FALSE
  OBVIOUS
<1>4. Position + n <= Reader!Bound /\ data[Position + n] < Base
  BY <1>3 DEF Reader!Ahead
<1>5. data[Position + n] \in Nat
  BY <1>2, <1>4
<1>6. n \in 1 .. k
  BY <1>2, <1>4
<1>7. data[Position + n] >= Base
  BY <1>6 DEF Continues
<1>8. QED
  BY <1>1, <1>4, <1>5, <1>7

\* What is known when a varint or a tag is being read.
LEMMA ReadingVarint ==
    ASSUME InputAssumption, CodedInv, task.op \in {"varint", "tag"}
    PROVE  /\ InputTypes /\ Counted /\ Stacked /\ Working
           /\ task \in VarintTask /\ Held(data, task.got, Position)
           /\ data \in Seq(Nat) /\ size \in Nat /\ MaxVarintBytes \in Nat \ {0}
           /\ Position \in Nat /\ Len(task.got) \in Nat /\ task.got \in Seq(Nat)
           /\ CurrentPosition = Position + Len(task.got)
           /\ Len(task.got) <= MaxVarintBytes
           /\ \A m \in 1 .. Len(task.got) : Continues(data[Position + m])
           /\ Reader!Bound \in Nat /\ Reader!Bound <= Len(data)
           /\ CurrentPosition + size <= Reader!Bound
<1>1. task # NoTask
  BY DEF NoTask
<1>2. /\ Working /\ Held(data, task.got, Position)
      /\ Position \in Nat /\ Len(task.got) \in Nat /\ task.got \in Seq(Nat)
      /\ Position + Len(task.got) = CurrentPosition
      /\ task \in RawTask \union VarintTask
  BY <1>1, Reading
<1>3. InputTypes /\ Counted /\ Stacked /\ task \in VarintTask
  BY <1>2 DEF CodedInv, RawTask
<1>4. Len(task.got) <= MaxVarintBytes /\ \A m \in 1 .. Len(task.got) : Continues(task.got[m])
  BY DEF CodedInv, Underway
<1>5. \A m \in 1 .. Len(task.got) : task.got[m] = data[Position + m]
  BY <1>2 DEF Held
<1>6. \A m \in 1 .. Len(task.got) : Continues(data[Position + m])
  BY <1>4, <1>5
<1>7. data \in Seq(Nat) /\ size \in Nat /\ MaxVarintBytes \in Nat \ {0}
  BY <1>3 DEF InputTypes, InputAssumption
<1>8. Reader!Bound \in Nat /\ Reader!Bound <= Len(data) /\ CurrentPosition + size <= Reader!Bound
  BY <1>2, <1>3, Standing
<1>9. QED
  BY <1>2, <1>3, <1>4, <1>6, <1>7, <1>8

LEMMA FromArrayStep ==
    ASSUME InputAssumption, CodedInv, UNCHANGED data, task.op \in {"varint", "tag"},
           TakesArray, FromArray(task.op),
           UNCHANGED <<streamVars, buffer_size_after_limit, overflow_bytes, total_bytes_read,
                       limitVars, legitimate_message_end, destroyed>>
    PROVE  CodedInv' /\ Reader!Next
<1>1. PICK n : n = VarintLength(buffer)
  OBVIOUS
<1>2. /\ InputTypes /\ Counted /\ Stacked /\ Working
      /\ data \in Seq(Nat) /\ size \in Nat /\ MaxVarintBytes \in Nat \ {0}
      /\ Position \in Nat /\ CurrentPosition = Position + Len(task.got)
      /\ Reader!Bound \in Nat /\ Reader!Bound <= Len(data)
      /\ CurrentPosition + size <= Reader!Bound
  BY ReadingVarint
<1>3. task.got = <<>> /\ (size >= MaxVarintBytes \/ (size > 0 /\ ~ Continues(data[buffer + size])))
  BY DEF TakesArray, Fast
<1>4. CurrentPosition = Position /\ size > 0
  BY <1>2, <1>3
<1>5. buffer = Position /\ buffer_size_after_limit \in Nat
  BY <1>2, <1>4, Standing DEF InputTypes
<1>6. /\ n \in 1 .. MaxVarintBytes + 1
      /\ n <= MaxVarintBytes => ~ Continues(data[Position + n])
      /\ \A m \in 1 .. n - 1 : Continues(data[Position + m])
  BY <1>1, <1>5, LengthFound
<1>7. n <= MaxVarintBytes => n <= size
  BY <1>2, <1>3, <1>5, <1>6
<1>8. legitimate_message_end' \in BOOLEAN /\ ~ destroyed
  BY <1>2 DEF InputTypes, Working
<1>9. CASE n <= MaxVarintBytes
  <2>1. /\ result' = [op |-> task.op, ok |-> TRUE, got |-> Bytes(buffer, n)]
        /\ broken' = ~ TRUE /\ task' = NoTask /\ Advance(n)
    BY <1>1, <1>9 DEF FromArray, Return
  <2>2. n \in 0 .. size
    BY <1>2, <1>6, <1>7, <1>9
  <2>3. InputTypes' /\ Counted' /\ position' - Unused' = CurrentPosition + n
    BY <1>2, <1>8, <2>1, <2>2, Advanced
  <2>4. CodedInv'
    BY <1>2, <2>1, <2>3, StillStacked, Idle DEF CodedInv
  <2>5. Bytes(buffer, n) = SubSeq(data, Position + 1, Position + n)
    BY <1>5 DEF Bytes
  <2>6. Position' = Position + n
    <3>1. Position' = position' - Unused' - 0
      BY <1>8, <2>1 DEF Position, Done
    <3>2. QED
      <4>1. PICK here \in Nat : here = Position + n
        BY <1>2, <2>2
      <4>2. position' - Unused' = here
        BY <1>4, <2>3, <4>1
      <4>3. QED
        BY <3>1, <4>1, <4>2
  <2>7. Position + n <= Reader!Bound
    BY <1>2, <1>4, <2>2
  <2>8. n \in 1 .. MaxVarintBytes
    BY <1>2, <1>6, <1>9
  <2>9. Reader!Next
    BY <1>2, <1>6, <1>9, <2>1, <2>5, <2>6, <2>7, <2>8, VarintSucceeds
  <2>10. QED
    BY <2>4, <2>9
<1>10. CASE ~ (n <= MaxVarintBytes)
  <2>1. /\ result' = [op |-> task.op, ok |-> FALSE, got |-> <<>>]
        /\ broken' = ~ FALSE /\ task' = NoTask /\ UNCHANGED <<buffer, size>>
    BY <1>1, <1>10 DEF FromArray, Return
  <2>2. UNCHANGED bufferVars
    BY <2>1 DEF bufferVars
  <2>3. InputTypes' /\ Counted' /\ position' - Unused' = position - Unused
    BY <1>2, <1>8, <2>1, <2>2, StillCounts
  <2>4. CodedInv'
    BY <1>2, <2>1, <2>3, StillStacked, Idle DEF CodedInv
  <2>5. Position' = Position
    <3>1. Position' = position' - Unused' - 0
      BY <1>8, <2>1 DEF Position, Done
    <3>2. QED
      BY <1>2, <1>4, <2>3, <3>1, Standing
  <2>6. Position' \in Position .. Reader!Bound /\ Position < Reader!Bound
    BY <1>2, <1>4, <2>5
  <2>7. n - 1 = MaxVarintBytes
    BY <1>2, <1>6, <1>10
  <2>8. \A k \in 1 .. MaxVarintBytes : ~ Reader!Ahead(k)
    BY <1>2, <1>6, <2>7, NoneAhead
  <2>9. Reader!Next
    BY <1>2, <2>1, <2>6, <2>8, VarintFails
  <2>10. QED
    BY <2>4, <2>9
<1>11. QED
  BY <1>9, <1>10

(* Ten bytes that all announce another.                                     *)
LEMMA TooLongStep ==
    ASSUME InputAssumption, CodedInv, UNCHANGED data, task.op \in {"varint", "tag"},
           Len(task.got) = MaxVarintBytes, Return(task.op, FALSE, task.got),
           UNCHANGED <<streamVars, bufferVars, limitVars, legitimate_message_end, destroyed>>
    PROVE  CodedInv' /\ Reader!Next
<1>1. /\ InputTypes /\ Counted /\ Stacked /\ Working
      /\ data \in Seq(Nat) /\ size \in Nat /\ MaxVarintBytes \in Nat \ {0}
      /\ Position \in Nat /\ CurrentPosition = Position + Len(task.got)
      /\ \A m \in 1 .. Len(task.got) : Continues(data[Position + m])
      /\ Reader!Bound \in Nat /\ Reader!Bound <= Len(data)
      /\ CurrentPosition + size <= Reader!Bound
  BY ReadingVarint
<1>2. /\ result' = [op |-> task.op, ok |-> FALSE, got |-> task.got]
      /\ broken' = ~ FALSE /\ task' = NoTask
  BY DEF Return
<1>3. legitimate_message_end' \in BOOLEAN /\ ~ destroyed
  BY <1>1 DEF InputTypes, Working
<1>4. InputTypes' /\ Counted' /\ position' - Unused' = position - Unused
  BY <1>1, <1>2, <1>3, StillCounts
<1>5. CodedInv'
  BY <1>1, <1>2, <1>4, StillStacked, Idle DEF CodedInv
<1>6. Position' = CurrentPosition
  <2>1. Position' = position' - Unused' - 0
    BY <1>2, <1>3 DEF Position, Done
  <2>2. QED
    BY <1>1, <1>4, <2>1, Standing
<1>7. Position' \in Position .. Reader!Bound /\ Position < Reader!Bound
  BY <1>1, <1>6
<1>8. \A k \in 1 .. MaxVarintBytes : ~ Reader!Ahead(k)
  BY <1>1, NoneAhead
<1>9. Reader!Next
  BY <1>1, <1>2, <1>7, <1>8, VarintFails
<1>10. QED
  BY <1>5, <1>9

LEMMA OneByteStep ==
    ASSUME InputAssumption, CodedInv, UNCHANGED data, task.op \in {"varint", "tag"},
           Len(task.got) < MaxVarintBytes, size > 0, OneByte(task.op), Advance(1),
           UNCHANGED <<streamVars, buffer_size_after_limit, overflow_bytes, total_bytes_read,
                       limitVars, legitimate_message_end, destroyed>>
    PROVE  CodedInv' /\ (Reader!Next \/ UNCHANGED Reader!vars)
<1>1. /\ InputTypes /\ Counted /\ Stacked /\ Working
      /\ task \in VarintTask /\ Held(data, task.got, Position)
      /\ data \in Seq(Nat) /\ size \in Nat /\ MaxVarintBytes \in Nat \ {0}
      /\ Position \in Nat /\ Len(task.got) \in Nat /\ task.got \in Seq(Nat)
      /\ CurrentPosition = Position + Len(task.got)
      /\ \A m \in 1 .. Len(task.got) : Continues(data[Position + m])
      /\ Reader!Bound \in Nat /\ Reader!Bound <= Len(data)
      /\ CurrentPosition + size <= Reader!Bound
  BY ReadingVarint
<1>2. PICK k \in Nat : k = Len(task.got)
  BY <1>1
<1>3. PICK got : got = Append(task.got, data[Position + k + 1])
  OBVIOUS
<1>4. buffer = Position + k /\ legitimate_message_end' \in BOOLEAN /\ broken \in BOOLEAN /\ ~ destroyed
  <2>1. buffer_size_after_limit \in Nat /\ size > 0
    BY <1>1 DEF InputTypes
  <2>2. buffer = CurrentPosition
    BY <1>1, <2>1, Standing
  <2>3. QED
    BY <1>1, <1>2, <2>2 DEF InputTypes, Working
<1>5. /\ Held(data, got, Position) /\ Len(got) = k + 1
      /\ \A i \in 1 .. k : got[i] = task.got[i]
      /\ got[k + 1] = data[Position + k + 1]
  <2>1. Position + Len(task.got) < Len(data)
    BY <1>1
  <2> DEFINE s == task.got
  <2>2. got = Append(s, data[Position + Len(s) + 1])
    BY <1>2, <1>3
  <2>3. Held(data, s, Position) /\ Position + Len(s) < Len(data)
    BY <1>1, <2>1
  <2> HIDE DEF s
  <2>4. /\ Held(data, Append(s, data[Position + Len(s) + 1]), Position)
        /\ Len(Append(s, data[Position + Len(s) + 1])) = Len(s) + 1
        /\ \A i \in 1 .. Len(s) : Append(s, data[Position + Len(s) + 1])[i] = s[i]
        /\ Append(s, data[Position + Len(s) + 1])[Len(s) + 1] = data[Position + Len(s) + 1]
    BY <1>1, <2>3, HeldByte
  <2>5. QED
    BY <1>2, <2>2, <2>4 DEF s
<1>6. ASSUME broken' \in BOOLEAN
      PROVE  /\ InputTypes' /\ Counted' /\ CurrentPosition' = Position + k + 1
             /\ position' - Unused' = Position + k + 1
  <2>1. 1 \in 0 .. size
    BY <1>1
  <2>2. QED
    BY <1>1, <1>2, <1>4, <1>6, <2>1, Advanced
<1>7. CASE Continues(data[Position + k + 1])
  <2>1. /\ task' = [task EXCEPT !.got = got, !.slow = TRUE]
        /\ UNCHANGED <<result, broken>>
    BY <1>3, <1>4, <1>7 DEF OneByte
  <2>2. /\ task' \in VarintTask /\ task' # NoTask /\ task'.got = got
        /\ task'.op \in {"varint", "tag"}
    <3>1. got \in Seq(Nat)
      BY <1>5 DEF Held
    <3>2. QED
      BY <1>1, <2>1, <3>1 DEF VarintTask, NoTask
  <2>3. /\ InputTypes' /\ Counted' /\ CurrentPosition' = Position + k + 1
        /\ position' - Unused' = Position + k + 1
    BY <1>4, <1>6, <2>1
  <2>4. CurrentPosition' - Len(task'.got) = Position
    <3>1. CurrentPosition' = Position + k + 1 /\ Len(task'.got) = k + 1
      BY <1>5, <2>2, <2>3, Zenon
    <3>2. (Position + k + 1) - (k + 1) = Position
      BY <1>1
    <3>3. QED
      BY <3>1, <3>2, Zenon
  <2>5. Working'
    BY <1>1, <2>1 DEF Working
  <2>6. \A i \in 1 .. Len(task'.got) : Continues(task'.got[i])
    <3>1. \A i \in 1 .. k : Continues(task.got[i])
      BY <1>2 DEF CodedInv, Underway
    <3>2. ASSUME NEW i \in 1 .. k + 1 PROVE Continues(got[i])
      <4>1. CASE i \in 1 .. k
        BY <1>5, <3>1, <4>1
      <4>2. CASE i = k + 1
        BY <1>5, <1>7, <4>2
      <4>3. QED
        BY <4>1, <4>2
    <3>3. QED
      BY <1>5, <2>2, <3>2
  <2>7. Underway'
    <3>1. Held(data', task'.got, CurrentPosition' - Len(task'.got))
      BY <1>5, <2>2, <2>4
    <3>2. Len(task'.got) <= MaxVarintBytes
      BY <1>1, <1>2, <1>5, <2>2
    <3>3. task'.op # "raw"
      BY <2>2
    <3>4. QED
      BY <2>2, <2>5, <2>6, <3>1, <3>2, <3>3 DEF Underway
  <2>8. UNCHANGED Position
    <3>1. Position' = position' - Unused' - Len(task'.got)
      BY <2>2, <2>5 DEF Position, Done, Working
    <3>2. QED
      BY <1>1, <1>5, <2>2, <2>3, <3>1
  <2>9. QED
    BY <1>1, <2>1, <2>3, <2>7, <2>8, StillStacked, Unmoved DEF CodedInv
<1>8. CASE ~ Continues(data[Position + k + 1])
  <2>1. /\ result' = [op |-> task.op, ok |-> TRUE, got |-> got]
        /\ broken' = ~ TRUE /\ task' = NoTask
    BY <1>3, <1>4, <1>8 DEF OneByte, Return
  <2>2. InputTypes' /\ Counted' /\ position' - Unused' = Position + k + 1
    BY <1>6, <2>1
  <2>3. CodedInv'
    BY <1>1, <2>1, <2>2, StillStacked, Idle DEF CodedInv
  <2>4. PICK n \in 1 .. MaxVarintBytes : n = k + 1
    BY <1>1, <1>2
  <2>5. got = SubSeq(data, Position + 1, Position + n)
    BY <1>1, <1>5, <2>4, HeldIsPiece
  <2>6. Position' = Position + n
    <3>1. Position' = position' - Unused' - 0
      BY <1>4, <2>1 DEF Position, Done
    <3>2. QED
      BY <1>1, <2>2, <2>4, <3>1
  <2>7. /\ Position + n <= Reader!Bound /\ ~ Continues(data[Position + n])
        /\ \A m \in 1 .. n - 1 : Continues(data[Position + m])
    <3>1. Position + n = Position + k + 1 /\ n - 1 = k
      BY <1>1, <2>4
    <3>2. Position + k + 1 <= Reader!Bound
      BY <1>1, <1>2
    <3>3. QED
      BY <1>1, <1>2, <1>8, <3>1, <3>2
  <2>8. Reader!Next
    BY <1>1, <2>1, <2>5, <2>6, <2>7, VarintSucceeds
  <2>9. QED
    BY <2>3, <2>8
<1>9. QED
  BY <1>7, <1>8

LEMMA VarintChunkStep ==
    ASSUME InputAssumption, CodedInv, UNCHANGED data, task.op \in {"varint", "tag"},
           size = 0, RefreshSucceeds, task' = [task EXCEPT !.slow = task.op = "varint"],
           UNCHANGED <<result, broken, limitVars, legitimate_message_end, destroyed>>
    PROVE  CodedInv' /\ UNCHANGED Reader!vars
<1>1. /\ InputTypes /\ Counted /\ Stacked /\ Working /\ task \in VarintTask
      /\ Position \in Nat /\ CurrentPosition = Position + Len(task.got)
      /\ Len(task.got) \in Nat
  BY ReadingVarint
<1>2. /\ InputTypes' /\ Counted' /\ Working' /\ CurrentPosition' = CurrentPosition
      /\ position' - Unused' = CurrentPosition
  BY <1>1, Refreshed
<1>3. /\ task' \in VarintTask /\ task' # NoTask /\ task # NoTask
      /\ task'.got = task.got /\ task'.op = task.op
  <2>1. PICK slow \in BOOLEAN : slow = (task.op = "varint")
    OBVIOUS
  <2>2. task' = [task EXCEPT !.slow = slow]
    BY <2>1
  <2>3. QED
    BY <1>1, <2>2 DEF VarintTask, NoTask
<1>4. Underway'
  <2>1. Held(data', task'.got, CurrentPosition' - Len(task'.got))
    BY <1>2, <1>3 DEF CodedInv, Underway
  <2>2. Len(task'.got) <= MaxVarintBytes /\ \A i \in 1 .. Len(task'.got) : Continues(task'.got[i])
    BY <1>3 DEF CodedInv, Underway
  <2>3. task'.op # "raw"
    BY <1>3
  <2>4. QED
    BY <1>2, <1>3, <2>1, <2>2, <2>3 DEF Underway
<1>5. UNCHANGED Position
  <2>1. Position' = position' - Unused' - Len(task.got)
    BY <1>2, <1>3 DEF Position, Done, Working
  <2>2. QED
    BY <1>1, <1>2, <2>1
<1>6. QED
  BY <1>1, <1>2, <1>4, <1>5, StillStacked, Unmoved DEF CodedInv

LEMMA VarintFailsStep ==
    ASSUME InputAssumption, CodedInv, UNCHANGED data, task.op \in {"varint", "tag"},
           size = 0, RefreshFails, task.op = "tag" => task.got # <<>>,
           Return(task.op, FALSE, task.got),
           UNCHANGED <<limitVars, legitimate_message_end, destroyed>>
    PROVE  CodedInv' /\ Reader!Next
<1>1. /\ InputTypes /\ Counted /\ Stacked /\ Working
      /\ data \in Seq(Nat) /\ size \in Nat /\ MaxVarintBytes \in Nat \ {0}
      /\ Position \in Nat /\ CurrentPosition = Position + Len(task.got)
      /\ Len(task.got) \in Nat /\ task.got \in Seq(Nat)
      /\ \A m \in 1 .. Len(task.got) : Continues(data[Position + m])
      /\ Reader!Bound \in Nat /\ Reader!Bound <= Len(data)
  BY ReadingVarint
<1>2. /\ result' = [op |-> task.op, ok |-> FALSE, got |-> task.got]
      /\ broken' = ~ FALSE /\ task' = NoTask
  BY DEF Return
<1>3. legitimate_message_end' \in BOOLEAN /\ ~ destroyed
  BY <1>1 DEF InputTypes, Working
<1>4. /\ InputTypes' /\ Counted' /\ position' - Unused' = CurrentPosition
      /\ CurrentPosition = Reader!Bound
  BY <1>1, <1>2, <1>3, NothingMore
<1>5. CodedInv'
  BY <1>1, <1>2, <1>4, StillStacked, Idle DEF CodedInv
<1>6. Position' = Reader!Bound
  <2>1. Position' = position' - Unused' - 0
    BY <1>2, <1>3 DEF Position, Done
  <2>2. QED
    BY <1>1, <1>4, <2>1
<1>7. Position' \in Position .. Reader!Bound
  BY <1>1, <1>4, <1>6
<1>8. task.op = "tag" => Position < Reader!Bound
  <2>1. task.got # <<>> => Len(task.got) > 0
    BY <1>1
  <2>2. QED
    BY <1>1, <1>4, <2>1
<1>9. ASSUME NEW n \in 1 .. MaxVarintBytes
      PROVE  ~ Reader!Ahead(n)
  <2>1. n \in 1 .. Len(task.got) \/ Position + n > Reader!Bound
    BY <1>1, <1>4
  <2>2. QED
    BY <1>1, <2>1, NoneAhead
<1>10. Reader!Next
  BY <1>1, <1>2, <1>7, <1>8, <1>9, VarintFails
<1>11. QED
  BY <1>5, <1>10

LEMMA VarintStepKeeps ==
    ASSUME InputAssumption, CodedInv, UNCHANGED data, VarintStep
    PROVE  CodedInv' /\ (Reader!Next \/ UNCHANGED Reader!vars)
<1>1. task.op \in {"varint", "tag"} /\ UNCHANGED <<limitVars, legitimate_message_end, destroyed>>
  BY DEF VarintStep
<1>2. CASE /\ TakesArray /\ FromArray(task.op)
           /\ UNCHANGED <<streamVars, buffer_size_after_limit, overflow_bytes, total_bytes_read>>
  BY <1>1, <1>2, FromArrayStep
<1>3. CASE /\ Len(task.got) = MaxVarintBytes /\ Return(task.op, FALSE, task.got)
           /\ UNCHANGED <<streamVars, bufferVars>>
  BY <1>1, <1>3, TooLongStep
<1>4. CASE /\ Len(task.got) < MaxVarintBytes
           /\ size > 0 /\ OneByte(task.op) /\ Advance(1)
           /\ UNCHANGED <<streamVars, buffer_size_after_limit, overflow_bytes, total_bytes_read>>
  BY <1>1, <1>4, OneByteStep
<1>5. CASE /\ size = 0 /\ RefreshSucceeds
           /\ task' = [task EXCEPT !.slow = task.op = "varint"]
           /\ UNCHANGED <<result, broken>>
  BY <1>1, <1>5, VarintChunkStep
<1>6. CASE /\ size = 0 /\ RefreshFails /\ (task.op = "tag" => task.got # <<>>)
           /\ Return(task.op, FALSE, task.got)
  BY <1>1, <1>6, VarintFailsStep
<1>7. QED
  BY <1>2, <1>3, <1>4, <1>5, <1>6, Zenon DEF VarintStep

(* No tag is left: this is the end the reader speaks of.                    *)
LEMMA TagAtEndStep ==
    ASSUME InputAssumption, CodedInv, UNCHANGED data, TagAtEnd
    PROVE  CodedInv' /\ Reader!Next
<1>1. /\ task.op = "tag" /\ task.got = <<>> /\ size = 0 /\ RefreshFails
      /\ legitimate_message_end' = Legitimate
      /\ result' = [op |-> "end", ok |-> TRUE, got |-> <<>>] /\ broken' = ~ TRUE /\ task' = NoTask
      /\ UNCHANGED <<limitVars, destroyed>>
  BY DEF TagAtEnd, Return
<1>2. /\ InputTypes /\ Counted /\ Stacked /\ Working
      /\ Position \in Nat /\ CurrentPosition = Position + Len(task.got)
      /\ Reader!Bound \in Nat
  BY <1>1, ReadingVarint
<1>3. CurrentPosition = Position
  BY <1>1, <1>2
<1>4. Legitimate \in BOOLEAN /\ ~ destroyed
  BY <1>2 DEF Legitimate, Working
<1>5. /\ InputTypes' /\ Counted' /\ position' - Unused' = CurrentPosition
      /\ CurrentPosition = Reader!Bound
  BY <1>1, <1>2, <1>4, NothingMore
<1>6. CodedInv'
  BY <1>1, <1>2, <1>5, StillStacked, Idle DEF CodedInv
<1>7. Position' = Position
  <2>1. Position' = position' - Unused' - 0
    BY <1>1, <1>4 DEF Position, Done
  <2>2. QED
    BY <1>2, <1>3, <1>5, <2>1
<1>8. Legitimate = (Position < total_bytes_limit \/ current_limit = total_bytes_limit)
  <2>1. total_bytes_read - buffer_size_after_limit = Position
    <3>1. CurrentPosition = total_bytes_read - (0 + buffer_size_after_limit)
      BY <1>1 DEF CurrentPosition
    <3>2. QED
      BY <1>2, <1>3, <3>1 DEF InputTypes
  <2>2. QED
    BY <2>1 DEF Legitimate
<1>9. Reader!ReadTag
  <2>1. ~ (Position < Reader!Bound)
    BY <1>2, <1>3, <1>5
  <2>2. QED
    BY <1>1, <1>7, <1>8, <2>1 DEF Reader!ReadTag, Reader!Return
<1>10. QED
  BY <1>1, <1>2, <1>6, <1>9, ReaderCallsAtEnd

LEMMA ExpectAtEndStep ==
    ASSUME InputAssumption, CodedInv, UNCHANGED data, ExpectAtEnd
    PROVE  CodedInv' /\ Reader!Next
<1> DEFINE atEnd == size = 0 /\ (buffer_size_after_limit # 0 \/ total_bytes_read = current_limit)
<1>1. /\ task = NoTask /\ Working
      /\ legitimate_message_end' = (legitimate_message_end \/ atEnd)
      /\ result' = [op |-> "expect", ok |-> TRUE, got |-> <<>>] /\ broken' = ~ TRUE /\ task' = NoTask
      /\ UNCHANGED <<streamVars, bufferVars, limitVars, destroyed>>
  BY DEF ExpectAtEnd, Ready, Return, Working
<1>2. InputTypes /\ Counted /\ Stacked /\ legitimate_message_end \in BOOLEAN
  BY DEF CodedInv, InputTypes
<1>3. InputTypes' /\ Counted' /\ position' - Unused' = position - Unused
  BY <1>1, <1>2, StillCounts
<1>4. CodedInv'
  BY <1>1, <1>2, <1>3, StillStacked, Idle DEF CodedInv
<1>5. Position' = Position /\ Position = CurrentPosition
  <2>1. /\ Position' = position' - Unused' - 0
        /\ Position = position - Unused - 0
    BY <1>1 DEF Position, Done, Working
  <2>2. QED
    BY <1>1, <1>2, <1>3, <2>1, Standing
<1>6. atEnd => Position = Reader!Bound
  <2>1. SUFFICES ASSUME atEnd PROVE CurrentPosition = Reader!Bound
    BY <1>5
  <2>2. CurrentPosition = ClosestLimit
    <3>1. CASE buffer_size_after_limit # 0
      BY <1>1, <1>2, <2>1, <3>1, Standing DEF InputTypes
    <3>2. CASE buffer_size_after_limit = 0 /\ total_bytes_read = current_limit
      <4>1. CurrentPosition = current_limit
        BY <1>2, <2>1, <3>2 DEF CurrentPosition, InputTypes
      <4>2. ClosestLimit <= current_limit
        BY <1>2 DEF ClosestLimit, Smaller, InputTypes, InputAssumption
      <4>3. QED
        BY <1>1, <1>2, <2>1, <4>1, <4>2, Standing
    <3>3. QED
      BY <2>1, <3>1, <3>2
  <2>3. QED
    BY <1>1, <1>2, <2>1, <2>2, Standing
<1>7. Reader!ExpectAtEnd
  <2> HIDE DEF atEnd
  <2>1. legitimate_message_end' \in {legitimate_message_end, legitimate_message_end \/ Position = Reader!Bound}
    <3>1. CASE atEnd
      BY <1>1, <1>6, <3>1
    <3>2. CASE ~ atEnd
      BY <1>1, <1>2, <3>2
    <3>3. QED
      BY <3>1, <3>2
  <2>2. QED
    BY <1>1, <1>5, <2>1 DEF Reader!ExpectAtEnd, Reader!Return
<1>8. QED
  BY <1>1, <1>4, <1>7, ReaderCallsAtEnd

-----------------------------------------------------------------------------
(* Skipping.                                                                *)

LEMMA BetweenCalls ==
    ASSUME InputAssumption, CodedInv, Ready
    PROVE  /\ InputTypes /\ Counted /\ Stacked /\ Working /\ task = NoTask
           /\ Position = CurrentPosition /\ Position \in Nat /\ size \in Nat
           /\ Reader!Bound \in Nat /\ Position + size <= Reader!Bound
<1>1. InputTypes /\ Counted /\ Stacked /\ Working /\ task = NoTask /\ size \in Nat
  BY DEF CodedInv, InputTypes, Ready, Working
<1>2. Position = position - Unused - 0
  BY <1>1 DEF Position, Done, Working
<1>3. CurrentPosition \in Nat /\ position - Unused = CurrentPosition
  BY <1>1, Standing
<1>4. QED
  BY <1>1, <1>2, <1>3, Standing

LEMMA SkipInBufferStep ==
    ASSUME InputAssumption, CodedInv, UNCHANGED data, Ready, NEW n \in Sizes, n >= 0,
           SkipInBuffer(n), UNCHANGED <<limitVars, legitimate_message_end, destroyed>>
    PROVE  CodedInv' /\ Reader!Next
<1>1. /\ InputTypes /\ Counted /\ Stacked /\ Working
      /\ Position = CurrentPosition /\ Position \in Nat /\ size \in Nat
      /\ Reader!Bound \in Nat /\ Position + size <= Reader!Bound
  BY BetweenCalls
<1>2. /\ n <= size /\ Advance(n)
      /\ result' = [op |-> "skip", ok |-> TRUE, got |-> <<>>] /\ broken' = ~ TRUE /\ task' = NoTask
      /\ UNCHANGED <<streamVars, buffer_size_after_limit, overflow_bytes, total_bytes_read>>
  BY DEF SkipInBuffer, Return
<1>3. n \in 0 .. size /\ legitimate_message_end' \in BOOLEAN /\ ~ destroyed
  BY <1>1, <1>2 DEF InputAssumption, InputTypes, Working
<1>4. InputTypes' /\ Counted' /\ position' - Unused' = CurrentPosition + n
  BY <1>1, <1>2, <1>3, Advanced
<1>5. CodedInv'
  BY <1>1, <1>2, <1>4, StillStacked, Idle DEF CodedInv
<1>6. PICK here \in Nat : here = Position + n
  BY <1>1, <1>3
<1>7. Position' = here
  <2>1. Position' = position' - Unused' - 0
    BY <1>2, <1>3 DEF Position, Done
  <2>2. position' - Unused' = here
    BY <1>1, <1>4, <1>6
  <2>3. QED
    BY <2>1, <2>2
<1>8. Position + n <= Reader!Bound
  BY <1>1, <1>3
<1>9. Reader!Skip(n)
  BY <1>2, <1>6, <1>7, <1>8 DEF Reader!Skip, Reader!Return
<1>10. QED
  BY <1>1, <1>5, <1>9, ReaderCalls

LEMMA SkipToLimitStep ==
    ASSUME InputAssumption, CodedInv, UNCHANGED data, Ready, NEW n \in Sizes, n >= 0,
           SkipToLimitInBuffer(n), UNCHANGED <<limitVars, legitimate_message_end, destroyed>>
    PROVE  CodedInv' /\ Reader!Next
<1>1. /\ InputTypes /\ Counted /\ Stacked /\ Working
      /\ Position = CurrentPosition /\ Position \in Nat /\ size \in Nat
      /\ Reader!Bound \in Nat /\ Position + size <= Reader!Bound
  BY BetweenCalls
<1>2. /\ n > size /\ buffer_size_after_limit > 0 /\ Advance(size)
      /\ result' = [op |-> "skip", ok |-> FALSE, got |-> <<>>] /\ broken' = ~ FALSE /\ task' = NoTask
      /\ UNCHANGED <<streamVars, buffer_size_after_limit, overflow_bytes, total_bytes_read>>
  BY DEF SkipToLimitInBuffer, Return
<1>3. /\ size \in 0 .. size /\ n \in Int
      /\ legitimate_message_end' \in BOOLEAN /\ ~ destroyed
  BY <1>1 DEF InputAssumption, InputTypes, Working
<1>4. InputTypes' /\ Counted' /\ position' - Unused' = CurrentPosition + size
  BY <1>1, <1>2, <1>3, Advanced
<1>5. CodedInv'
  BY <1>1, <1>2, <1>4, StillStacked, Idle DEF CodedInv
<1>6. Position + size = Reader!Bound
  BY <1>1, <1>2, Standing
<1>7. Position' = Reader!Bound
  <2>1. Position' = position' - Unused' - 0
    BY <1>2, <1>3 DEF Position, Done
  <2>2. position' - Unused' = Reader!Bound
    BY <1>1, <1>4, <1>6
  <2>3. QED
    BY <1>1, <2>1, <2>2
<1>8. ~ (n >= 0 /\ Position + n <= Reader!Bound) /\ ~ (n < 0)
  BY <1>1, <1>2, <1>3, <1>6
<1>9. Reader!Skip(n)
  BY <1>2, <1>7, <1>8 DEF Reader!Skip, Reader!Return
<1>10. QED
  BY <1>1, <1>5, <1>9, ReaderCalls

(* The rest is the stream's to skip: to the closest limit, to the end of    *)
(* the data, or as far as asked.                                            *)
LEMMA SkipBeyondStep ==
    ASSUME InputAssumption, CodedInv, UNCHANGED data, Ready, NEW n \in Sizes, n >= 0,
           SkipBeyondBuffer(n), UNCHANGED <<limitVars, legitimate_message_end, destroyed>>
    PROVE  CodedInv' /\ Reader!Next
<1>1. /\ InputTypes /\ Counted /\ Stacked /\ Working
      /\ Position = CurrentPosition /\ Position \in Nat /\ size \in Nat
      /\ Reader!Bound \in Nat /\ Position + size <= Reader!Bound
  BY BetweenCalls
<1>2. /\ n \in Nat /\ IntMax \in Nat /\ Len(data) \in Nat /\ ClosestLimit \in Nat /\ ~ destroyed
      /\ ClosestLimit <= IntMax
      /\ Reader!Bound = IF Len(data) < ClosestLimit THEN Len(data) ELSE ClosestLimit
  <2>1. n \in Nat /\ IntMax \in Nat
    BY DEF InputAssumption
  <2>2. ClosestLimit <= IntMax
    BY <1>1, <2>1 DEF ClosestLimit, Smaller, InputTypes
  <2>3. Reader!Bound = IF Len(data) < ClosestLimit THEN Len(data) ELSE ClosestLimit
    BY DEF Reader!Bound, Reader!Least, ClosestLimit, Smaller
  <2>4. QED
    BY <1>1, <2>1, <2>2, <2>3, Standing DEF Working
<1>3. PICK left, room : left = n - size /\ room = ClosestLimit - total_bytes_read
  OBVIOUS
<1>4. /\ n > size /\ buffer_size_after_limit = 0 /\ size' = 0
      /\ UNCHANGED <<buffer, buffer_size_after_limit, overflow_bytes>>
      /\ \/ /\ room < left /\ Return("skip", FALSE, <<>>)
            /\ \/ room > 0 /\ total_bytes_read' = ClosestLimit /\ SkipStream(room)
               \/ ~ (room > 0) /\ UNCHANGED <<total_bytes_read, position, last_returned_size>>
         \/ /\ ~ (room < left) /\ Return("skip", left <= Len(data) - position, <<>>)
            /\ total_bytes_read' = total_bytes_read + left /\ SkipStream(left)
  BY <1>3, Zenon DEF SkipBeyondBuffer, DropBuffer, streamVars
<1>5. /\ total_bytes_read \in Nat /\ overflow_bytes \in Nat
      /\ position \in Nat /\ position <= Len(data)
      /\ total_bytes_read <= IntMax /\ (overflow_bytes > 0 => total_bytes_read = IntMax)
      /\ total_bytes_read + overflow_bytes = position
      /\ total_bytes_read <= ClosestLimit
      /\ total_bytes_read = Position + size
  <2>1. position \in 0 .. Len(data) /\ total_bytes_read \in Nat /\ overflow_bytes \in Nat
    BY <1>1 DEF InputTypes
  <2>2. total_bytes_read = Position + size
    BY <1>1, <1>4, <2>1 DEF CurrentPosition
  <2>3. total_bytes_read <= ClosestLimit
    BY <1>1, <1>2, <1>4, <2>1 DEF Counted
  <2>4. QED
    BY <1>1, <1>2, <2>1, <2>2, <2>3 DEF Counted, Working
<1>6. left \in Nat /\ left > 0 /\ room \in Nat /\ n = left + size /\ ClosestLimit = total_bytes_read + room
  BY <1>1, <1>2, <1>3, <1>4, <1>5
<1>7. broken' \in BOOLEAN /\ task' = NoTask
  BY <1>4 DEF Return
<1>8. UNCHANGED ClosestLimit
  BY DEF ClosestLimit, limitVars
<1>9. ASSUME NEW p \in Nat, NEW t \in Nat, NEW l \in Nat,
             position' = p, total_bytes_read' = t, last_returned_size' = l,
             p <= Len(data), t <= ClosestLimit, overflow_bytes <= l, overflow_bytes <= p,
             overflow_bytes > 0 => t = IntMax,
             ~ broken' => p = t + overflow_bytes
      PROVE  CodedInv' /\ Position' = p - overflow_bytes
  <2>1. InputTypes'
    BY <1>1, <1>2, <1>4, <1>5, <1>7, <1>9 DEF InputTypes, limitVars
  <2>2. Unused' = overflow_bytes
    <3>1. Unused' = 0 + 0 + overflow_bytes
      BY <1>4 DEF Unused
    <3>2. QED
      BY <1>5, <3>1
  <2>3. Counted'
    BY <1>2, <1>4, <1>5, <1>8, <1>9, <2>2 DEF Counted, Working
  <2>4. CodedInv'
    BY <1>1, <1>7, <2>1, <2>3, StillStacked, Idle DEF CodedInv
  <2>5. Position' = p - overflow_bytes - 0
    BY <1>2, <1>7, <1>9, <2>2 DEF Position, Done
  <2>6. QED
    BY <1>5, <1>9, <2>4, <2>5
<1>10. ASSUME CodedInv', Reader!Skip(n)
       PROVE  CodedInv' /\ Reader!Next
  BY <1>1, <1>10, ReaderCalls
<1>11. CASE room < left
  <2>1. ~ (n >= 0 /\ Position + n <= Reader!Bound) /\ ~ (n < 0)
    BY <1>1, <1>2, <1>5, <1>6, <1>11
  <2>2. result' = [op |-> "skip", ok |-> FALSE, got |-> <<>>] /\ broken' = ~ FALSE
    BY <1>4, <1>6, <1>11 DEF Return
  <2>3. ASSUME CodedInv', Position' = Reader!Bound
        PROVE  CodedInv' /\ Reader!Next
    <3>1. Reader!Skip(n)
      BY <2>1, <2>2, <2>3 DEF Reader!Skip, Reader!Return
    <3>2. QED
      BY <1>10, <2>3, <3>1
  <2>4. CASE room > 0
    <3>1. overflow_bytes = 0 /\ total_bytes_read = position
      BY <1>2, <1>5, <1>6, <2>4
    <3>2. PICK p \in Nat, t \in Nat : p = Reader!Bound /\ t = ClosestLimit
      BY <1>1, <1>2
    <3>3. position' = p /\ last_returned_size' = 0 /\ total_bytes_read' = t
      <4>1. total_bytes_read' = ClosestLimit /\ SkipStream(room)
        BY <1>4, <1>6, <1>11, <2>4
      <4>2. position + room = ClosestLimit
        BY <1>6, <3>1
      <4>3. QED
        BY <1>2, <3>2, <4>1, <4>2 DEF SkipStream, Smaller
    <3>4. /\ p <= Len(data) /\ t <= ClosestLimit /\ 0 \in Nat
          /\ overflow_bytes <= 0 /\ overflow_bytes <= p /\ ~ (overflow_bytes > 0)
      BY <1>2, <3>1, <3>2
    <3>5. broken'
      BY <2>2
    <3>6. CodedInv' /\ Position' = p - overflow_bytes
      BY <1>9, <3>3, <3>4, <3>5, Zenon
    <3>7. p - overflow_bytes = p
      BY <3>1
    <3>8. QED
      BY <2>3, <3>2, <3>6, <3>7
  <2>5. CASE room = 0
    <3>1. UNCHANGED <<total_bytes_read, position, last_returned_size>>
      <4>1. ~ (room > 0)
        BY <2>5
      <4>2. QED
        BY <1>4, <1>11, <4>1, Zenon
    <3>2. overflow_bytes <= last_returned_size /\ last_returned_size \in Nat
      <4>1. Unused <= last_returned_size /\ last_returned_size \in Nat
        BY <1>1 DEF Counted, Working, InputTypes
      <4>2. Unused = size + 0 + overflow_bytes
        BY <1>4 DEF Unused
      <4>3. QED
        BY <1>1, <1>5, <4>1, <4>2
    <3>3. CodedInv' /\ Position' = position - overflow_bytes
      <4>1. PICK p \in Nat, t \in Nat, l \in Nat :
                p = position /\ t = total_bytes_read /\ l = last_returned_size
        BY <1>5, <3>2
      <4>2. position' = p /\ total_bytes_read' = t /\ last_returned_size' = l
        BY <3>1, <4>1
      <4>3. /\ p <= Len(data) /\ t <= ClosestLimit /\ overflow_bytes <= l /\ overflow_bytes <= p
            /\ overflow_bytes > 0 => t = IntMax
        BY <1>5, <3>2, <4>1
      <4>4. broken'
        BY <2>2
      <4>5. CodedInv' /\ Position' = p - overflow_bytes
        BY <1>9, <4>2, <4>3, <4>4, Zenon
      <4>6. QED
        BY <4>1, <4>5
    <3>4. position - overflow_bytes = Reader!Bound
      BY <1>1, <1>2, <1>5, <1>6, <2>5
    <3>5. QED
      BY <2>3, <3>3, <3>4
  <2>6. QED
    BY <1>6, <2>4, <2>5
<1>12. CASE ~ (room < left)
  <2>1. overflow_bytes = 0 /\ total_bytes_read = position
    BY <1>2, <1>5, <1>6, <1>12
  <2>2. /\ broken' = ~ (left <= Len(data) - position)
        /\ result' = [op |-> "skip", ok |-> left <= Len(data) - position, got |-> <<>>]
        /\ total_bytes_read' = total_bytes_read + left /\ SkipStream(left)
    BY <1>4, <1>12, Zenon DEF Return
  <2>3. PICK t \in Nat : t = total_bytes_read + left
    BY <1>5, <1>6
  <2>4. t <= ClosestLimit /\ 0 \in Nat /\ total_bytes_read' = t
    BY <1>2, <1>5, <1>6, <1>12, <2>2, <2>3
  <2>5. ASSUME NEW p \in Nat, position' = p, p <= Len(data), ~ broken' => p = t
        PROVE  CodedInv' /\ Position' = p
    <3>1. /\ overflow_bytes <= 0 /\ overflow_bytes <= p /\ ~ (overflow_bytes > 0)
          /\ t + overflow_bytes = t /\ p - overflow_bytes = p
      BY <2>1, <2>3, <2>5
    <3>2. last_returned_size' = 0
      BY <2>2 DEF SkipStream
    <3>3. CodedInv' /\ Position' = p - overflow_bytes
      BY <1>9, <2>4, <2>5, <3>1, <3>2, Zenon
    <3>4. QED
      BY <3>1, <3>3
  <2>6. CASE left <= Len(data) - position
    <3>1. result' = [op |-> "skip", ok |-> TRUE, got |-> <<>>] /\ broken' = ~ TRUE
      BY <2>2, <2>6
    <3>2. position + left <= Len(data) /\ position + left = t
      BY <1>2, <1>5, <1>6, <2>1, <2>3, <2>6
    <3>3. position' = t
      <4>1. position' = IF position + left < Len(data) THEN position + left ELSE Len(data)
        BY <2>2 DEF SkipStream, Smaller
      <4>2. QED
        BY <1>2, <3>2, <4>1
    <3>4. t <= Len(data)
      BY <3>2
    <3>5. CodedInv' /\ Position' = t
      BY <2>5, <3>3, <3>4
    <3>6. t = Position + n /\ Position + n <= Reader!Bound
      BY <1>1, <1>2, <1>5, <1>6, <2>3, <2>4, <3>4
    <3>7. Reader!Skip(n)
      BY <1>2, <3>1, <3>5, <3>6 DEF Reader!Skip, Reader!Return
    <3>8. QED
      BY <1>10, <3>5, <3>7
  <2>7. CASE ~ (left <= Len(data) - position)
    <3>1. result' = [op |-> "skip", ok |-> FALSE, got |-> <<>>] /\ broken' = ~ FALSE
      <4>1. (left <= Len(data) - position) = FALSE
        BY <2>7
      <4>2. QED
        BY <2>2, <4>1, Zenon
    <3>2. position' = Len(data)
      <4>1. position' = IF position + left < Len(data) THEN position + left ELSE Len(data)
        BY <2>2 DEF SkipStream, Smaller
      <4>2. ~ (position + left < Len(data))
        BY <1>2, <1>5, <1>6, <2>7
      <4>3. QED
        BY <4>1, <4>2
    <3>3. PICK p \in Nat : p = Len(data)
      BY <1>2
    <3>4. CodedInv' /\ Position' = p
      <4>1. position' = p /\ p <= Len(data) /\ broken'
        <5>1. position' = p
          BY <3>2, <3>3
        <5>2. p <= Len(data)
          BY <1>2, <3>3
        <5>3. broken'
          BY <3>1
        <5>4. QED
          BY <5>1, <5>2, <5>3
      <4>2. QED
        BY <2>5, <4>1, Zenon
    <3>5. /\ p = Reader!Bound
          /\ ~ (n >= 0 /\ Position + n <= Reader!Bound) /\ ~ (n < 0)
      BY <1>1, <1>2, <1>5, <1>6, <1>12, <2>1, <2>7, <3>3
    <3>6. Reader!Skip(n)
      BY <3>1, <3>4, <3>5 DEF Reader!Skip, Reader!Return
    <3>7. QED
      BY <1>10, <3>4, <3>6
  <2>8. QED
    BY <2>6, <2>7
<1>13. QED
  BY <1>11, <1>12

LEMMA RefuseStep ==
    ASSUME InputAssumption, CodedInv, UNCHANGED data, NEW n \in Sizes, Refuse(n)
    PROVE  CodedInv' /\ Reader!Next
<1>1. /\ Ready /\ n < 0
      /\ result' = [op |-> "skip", ok |-> FALSE, got |-> <<>>] /\ broken' = ~ FALSE /\ task' = NoTask
      /\ UNCHANGED <<streamVars, bufferVars, limitVars, legitimate_message_end, destroyed>>
  BY DEF Refuse, Return
<1>2. /\ InputTypes /\ Counted /\ Stacked /\ Working
      /\ Position = CurrentPosition /\ Position \in Nat /\ n \in Int
      /\ legitimate_message_end' \in BOOLEAN /\ ~ destroyed
  BY <1>1, BetweenCalls DEF InputAssumption, InputTypes, Working
<1>3. InputTypes' /\ Counted' /\ position' - Unused' = position - Unused
  BY <1>1, <1>2, StillCounts
<1>4. CodedInv'
  BY <1>1, <1>2, <1>3, StillStacked, Idle DEF CodedInv
<1>5. Position' = Position
  <2>1. Position' = position' - Unused' - 0
    BY <1>1, <1>2 DEF Position, Done
  <2>2. QED
    BY <1>2, <1>3, <2>1, Standing
<1>6. Reader!Skip(n)
  BY <1>1, <1>2, <1>5 DEF Reader!Skip, Reader!Return
<1>7. QED
  BY <1>1, <1>2, <1>4, <1>6, ReaderCalls

-----------------------------------------------------------------------------
(* The limits.                                                              *)

\* A new limit may be wider than the place of the counters, never behind it.
LEMMA WithinTheLimits ==
    ASSUME InputAssumption, CodedInv, Ready
    PROVE  /\ current_limit \in 0 .. IntMax /\ total_bytes_limit \in Nat /\ IntMax \in Nat
           /\ CurrentPosition \in Nat
           /\ CurrentPosition <= current_limit /\ CurrentPosition <= total_bytes_limit
<1>1. /\ current_limit \in 0 .. IntMax /\ total_bytes_limit \in Nat /\ IntMax \in Nat
      /\ Position = CurrentPosition /\ Position \in Nat /\ Position + size <= Reader!Bound
      /\ size \in Nat /\ Reader!Bound \in Nat /\ Reader!Bound <= ClosestLimit
  BY BetweenCalls, Standing DEF InputTypes, InputAssumption
<1>2. ClosestLimit <= current_limit /\ ClosestLimit <= total_bytes_limit /\ ClosestLimit \in Nat
  BY <1>1 DEF ClosestLimit, Smaller
<1>3. QED
  BY <1>1, <1>2

LEMMA LimitsMove ==
    ASSUME InputAssumption, CodedInv, Ready, UNCHANGED data,
           NEW limit \in 0 .. IntMax, NEW total \in Nat,
           CurrentPosition <= limit, CurrentPosition <= total,
           Recompute(limit, total), current_limit' = limit, total_bytes_limit' = total,
           legitimate_message_end' \in BOOLEAN, Stacked',
           UNCHANGED <<streamVars, buffer, overflow_bytes, total_bytes_read, callVars, destroyed>>
    PROVE  CodedInv' /\ UNCHANGED <<Position, result, broken, destroyed>>
<1>1. /\ InputTypes /\ Counted /\ Working /\ task = NoTask
      /\ Position = CurrentPosition /\ Position \in Nat /\ ~ destroyed
  BY BetweenCalls DEF Working
<1>2. UNCHANGED <<data, streamVars, buffer, overflow_bytes, total_bytes_read, broken, destroyed>>
      /\ UNCHANGED <<task, result>>
  BY DEF callVars
<1>3. InputTypes' /\ Counted' /\ position' - Unused' = CurrentPosition
  BY <1>1, <1>2, Recomputed
<1>4. CodedInv'
  BY <1>1, <1>2, <1>3, Idle DEF CodedInv
<1>5. Position' = Position
  <2>1. Position' = position' - Unused' - 0
    BY <1>1, <1>2 DEF Position, Done
  <2>2. QED
    BY <1>1, <1>3, <2>1
<1>6. QED
  BY <1>2, <1>4, <1>5

LEMMA ReaderLimits ==
    ASSUME Working, UNCHANGED <<data, Position, result, broken, destroyed>>,
           \/ Reader!PopLimit
           \/ \E n \in Sizes : Reader!PushLimit(n) \/ Reader!SetTotalBytesLimit(n)
    PROVE  Reader!Next
BY Zenon DEF Reader!Next, Working

LEMMA PushLimitStep ==
    ASSUME InputAssumption, CodedInv, UNCHANGED data, NEW n \in Sizes, PushLimit(n)
    PROVE  CodedInv' /\ Reader!Next
<1>1. /\ Ready /\ Working /\ pushed' = Append(pushed, current_limit)
      /\ current_limit' = NewLimit(n) /\ Recompute(NewLimit(n), total_bytes_limit)
      /\ UNCHANGED <<streamVars, buffer, overflow_bytes, total_bytes_read, total_bytes_limit,
                     legitimate_message_end, callVars, destroyed>>
  BY BetweenCalls DEF PushLimit
<1>2. /\ current_limit \in 0 .. IntMax /\ total_bytes_limit \in Nat /\ IntMax \in Nat
      /\ CurrentPosition \in Nat /\ n \in Int
      /\ CurrentPosition <= current_limit /\ CurrentPosition <= total_bytes_limit
  BY <1>1, WithinTheLimits DEF InputAssumption
<1>3. /\ NewLimit(n) \in 0 .. IntMax /\ CurrentPosition <= NewLimit(n)
      /\ NewLimit(n) <= current_limit
  BY <1>2 DEF NewLimit, Smaller
<1>4. Stacked'
  <2>1. /\ pushed \in Seq(0 .. IntMax)
        /\ \A i \in 1 .. Len(pushed) : current_limit <= pushed[i]
        /\ \A i, j \in 1 .. Len(pushed) : i < j => pushed[j] <= pushed[i]
    BY DEF CodedInv, Stacked
  <2>2. /\ pushed' \in Seq(0 .. IntMax) /\ Len(pushed') = Len(pushed) + 1 /\ Len(pushed) \in Nat
        /\ \A i \in 1 .. Len(pushed) : pushed'[i] = pushed[i]
        /\ pushed'[Len(pushed) + 1] = current_limit
    BY <1>1, <1>2, <2>1, AppendProperties
  <2>3. PICK new \in 0 .. IntMax : new = NewLimit(n)
    BY <1>3
  <2>4. \A i \in 1 .. Len(pushed) : pushed[i] \in 0 .. IntMax
    BY <2>1, ElementOfSeq, Zenon
  <2>5. ASSUME NEW i \in 1 .. Len(pushed')
        PROVE  new <= pushed'[i]
    <3>1. i \in 1 .. Len(pushed) \/ i = Len(pushed) + 1
      BY <2>2
    <3>2. new <= current_limit
      BY <1>3, <2>3
    <3>3. CASE i \in 1 .. Len(pushed)
      <4>1. PICK limit \in 0 .. IntMax : limit = pushed[i] /\ current_limit <= limit
        BY <2>1, <2>4, <3>3
      <4>2. new <= limit
        BY <1>2, <3>2, <4>1
      <4>3. QED
        BY <2>2, <3>3, <4>1, <4>2
    <3>4. CASE i = Len(pushed) + 1
      BY <2>2, <3>2, <3>4
    <3>5. QED
      BY <3>1, <3>3, <3>4
  <2>6. ASSUME NEW i \in 1 .. Len(pushed'), NEW j \in 1 .. Len(pushed'), i < j
        PROVE  pushed'[j] <= pushed'[i]
    <3>1. i \in 1 .. Len(pushed) /\ (j \in 1 .. Len(pushed) \/ j = Len(pushed) + 1)
      BY <2>2, <2>6
    <3>2. QED
      BY <2>1, <2>2, <2>6, <3>1
  <2>7. QED
    BY <1>1, <2>2, <2>3, <2>5, <2>6 DEF Stacked
<1>5. CodedInv' /\ UNCHANGED <<Position, result, broken, destroyed>>
  <2>1. total_bytes_limit' = total_bytes_limit /\ legitimate_message_end' \in BOOLEAN
    BY <1>1 DEF CodedInv, InputTypes
  <2>2. UNCHANGED <<streamVars, buffer, overflow_bytes, total_bytes_read, callVars, destroyed>>
    BY <1>1
  <2>3. PICK new : new = NewLimit(n)
    OBVIOUS
  <2>4. QED
    BY <1>1, <1>2, <1>3, <1>4, <2>1, <2>2, <2>3, LimitsMove
<1>6. Reader!PushLimit(n)
  <2>1. Position = CurrentPosition
    BY <1>1, BetweenCalls
  <2>2. QED
    BY <1>1, <2>1 DEF Reader!PushLimit, Reader!Least, NewLimit, Smaller
<1>7. QED
  BY <1>1, <1>5, <1>6, ReaderLimits

LEMMA PopLimitStep ==
    ASSUME InputAssumption, CodedInv, UNCHANGED data, PopLimit
    PROVE  CodedInv' /\ Reader!Next
<1> DEFINE limit == pushed[Len(pushed)]
<1>1. /\ Ready /\ Working /\ pushed # <<>> /\ pushed' = SubSeq(pushed, 1, Len(pushed) - 1)
      /\ current_limit' = limit /\ Recompute(limit, total_bytes_limit)
      /\ legitimate_message_end' = FALSE
      /\ UNCHANGED <<streamVars, buffer, overflow_bytes, total_bytes_read, total_bytes_limit,
                     callVars, destroyed>>
  BY BetweenCalls DEF PopLimit
<1>2. /\ current_limit \in 0 .. IntMax /\ total_bytes_limit \in Nat /\ IntMax \in Nat
      /\ CurrentPosition \in Nat
      /\ CurrentPosition <= current_limit /\ CurrentPosition <= total_bytes_limit
  BY <1>1, WithinTheLimits
<1>3. /\ pushed \in Seq(0 .. IntMax) /\ Len(pushed) \in Nat /\ Len(pushed) > 0
      /\ \A i \in 1 .. Len(pushed) : current_limit <= pushed[i] /\ pushed[i] \in 0 .. IntMax
      /\ \A i, j \in 1 .. Len(pushed) : i < j => pushed[j] <= pushed[i]
  <2>1. /\ pushed \in Seq(0 .. IntMax)
        /\ \A i \in 1 .. Len(pushed) : current_limit <= pushed[i]
        /\ \A i, j \in 1 .. Len(pushed) : i < j => pushed[j] <= pushed[i]
    BY DEF CodedInv, Stacked
  <2>2. Len(pushed) \in Nat /\ Len(pushed) > 0
    BY <1>1, <2>1, EmptySeq
  <2>3. \A i \in 1 .. Len(pushed) : pushed[i] \in 0 .. IntMax
    BY <2>1, ElementOfSeq, Zenon
  <2>4. QED
    BY <2>1, <2>2, <2>3, Zenon
<1>4. limit \in 0 .. IntMax /\ CurrentPosition <= limit
  BY <1>2, <1>3
<1>5. Stacked'
  <2>1. /\ pushed' \in Seq(0 .. IntMax) /\ Len(pushed') = Len(pushed) - 1
        /\ \A i \in 1 .. Len(pushed) - 1 : pushed'[i] = pushed[i]
    <3>1. PICK last \in Nat : last = Len(pushed) - 1
      <4>1. PICK all : all = Len(pushed)
        OBVIOUS
      <4>2. all \in Nat /\ all > 0
        BY <1>3, <4>1, Zenon
      <4>3. all - 1 \in Nat
        BY <4>2
      <4>4. QED
        BY <4>1, <4>3
    <3>2. last <= Len(pushed) /\ 1 .. last \subseteq 1 .. Len(pushed)
      BY <1>3, <3>1
    <3>3. \A i \in 1 .. last : pushed[i] \in 0 .. IntMax
      BY <1>3, <3>2
    <3>4. PICK rest : rest = SubSeq(pushed, 1, last)
      OBVIOUS
    <3>5. /\ rest \in Seq(0 .. IntMax)
          /\ Len(rest) = IF 1 <= last THEN last - 1 + 1 ELSE 0
          /\ \A i \in 1 .. last - 1 + 1 : rest[i] = pushed[1 + i - 1]
      BY <1>3, <3>1, <3>3, <3>4, SubSeqProperties
    <3>6. Len(rest) = last /\ \A i \in 1 .. last : rest[i] = pushed[i]
      BY <3>1, <3>5
    <3>7. pushed' = rest
      BY <1>1, <3>1, <3>4
    <3>8. QED
      BY <3>1, <3>5, <3>6, <3>7
  <2>2. \A i \in 1 .. Len(pushed') : limit <= pushed'[i]
    BY <1>3, <2>1
  <2>3. \A i, j \in 1 .. Len(pushed') : i < j => pushed'[j] <= pushed'[i]
    BY <1>3, <2>1
  <2>4. QED
    BY <1>1, <2>1, <2>2, <2>3 DEF Stacked
<1>6. CodedInv' /\ UNCHANGED <<Position, result, broken, destroyed>>
  <2> HIDE DEF limit
  <2>1. total_bytes_limit' = total_bytes_limit /\ legitimate_message_end' \in BOOLEAN
    BY <1>1
  <2>2. UNCHANGED <<streamVars, buffer, overflow_bytes, total_bytes_read, callVars, destroyed>>
    BY <1>1
  <2>3. QED
    BY <1>1, <1>2, <1>4, <1>5, <2>1, <2>2, LimitsMove
<1>7. Reader!PopLimit
  BY <1>1 DEF Reader!PopLimit
<1>8. QED
  BY <1>1, <1>6, <1>7, ReaderLimits

LEMMA SetTotalStep ==
    ASSUME InputAssumption, CodedInv, UNCHANGED data, NEW n \in Sizes, SetTotalBytesLimit(n)
    PROVE  CodedInv' /\ Reader!Next
<1>1. PICK total : total = Larger(CurrentPosition, n)
  OBVIOUS
<1>2. /\ Ready /\ Working /\ total_bytes_limit' = total /\ Recompute(current_limit, total)
      /\ UNCHANGED <<streamVars, buffer, overflow_bytes, total_bytes_read, current_limit, pushed,
                     legitimate_message_end, callVars, destroyed>>
  BY <1>1, BetweenCalls DEF SetTotalBytesLimit
<1>3. /\ current_limit \in 0 .. IntMax /\ CurrentPosition \in Nat /\ n \in Int
      /\ CurrentPosition <= current_limit
  BY <1>2, WithinTheLimits DEF InputAssumption
<1>4. total \in Nat /\ CurrentPosition <= total
  BY <1>1, <1>3 DEF Larger
<1>5. Stacked'
  BY <1>2 DEF CodedInv, Stacked
<1>6. CodedInv' /\ UNCHANGED <<Position, result, broken, destroyed>>
  <2>1. current_limit' = current_limit /\ legitimate_message_end' \in BOOLEAN
    BY <1>2 DEF CodedInv, InputTypes
  <2>2. UNCHANGED <<streamVars, buffer, overflow_bytes, total_bytes_read, callVars, destroyed>>
    BY <1>2
  <2>3. QED
    BY <1>2, <1>3, <1>4, <1>5, <2>1, <2>2, LimitsMove
<1>7. Reader!SetTotalBytesLimit(n)
  <2>1. Position = CurrentPosition
    BY <1>2, BetweenCalls
  <2>2. total = IF n < Position THEN Position ELSE n
    BY <1>1, <1>3, <2>1 DEF Larger
  <2>3. QED
    BY <1>2, <2>2 DEF Reader!SetTotalBytesLimit
<1>8. QED
  BY <1>2, <1>6, <1>7, ReaderLimits

-----------------------------------------------------------------------------
(* The beginning and the end.                                               *)

(* What BackUp gives back is the part of the last chunk that was not used.  *)
LEMMA DestructorStep ==
    ASSUME InputAssumption, CodedInv, UNCHANGED data, Destructor
    PROVE  CodedInv' /\ Reader!Next
<1>1. /\ InputTypes /\ Counted /\ Stacked /\ task = NoTask /\ ~ destroyed /\ destroyed'
      /\ UNCHANGED <<data, buffer, size, buffer_size_after_limit, overflow_bytes, total_bytes_read,
                     current_limit, total_bytes_limit, pushed, legitimate_message_end,
                     task, result, broken>>
      /\ IF Unused > 0
         THEN position' = position - Unused /\ last_returned_size' = 0
         ELSE UNCHANGED <<position, last_returned_size>>
  BY DEF Destructor, CodedInv, bufferVars, limitVars, callVars, streamVars
<1>2. destroyed' = TRUE
  BY DEF Destructor
<1>3. PICK unused \in Nat : unused = Unused
  BY <1>1 DEF InputTypes, Unused
<1>4. position \in Nat /\ Len(data) \in Nat /\ position <= Len(data) /\ unused <= position
      /\ last_returned_size \in Nat
  BY <1>1, <1>3 DEF InputTypes, Counted
<1>5. PICK p \in Nat, l \in Nat : position' = p /\ last_returned_size' = l /\ p = position - unused
  <2>1. CASE Unused > 0
    BY <1>1, <1>3, <1>4, <2>1
  <2>2. CASE ~ (Unused > 0)
    <3>1. unused = 0
      BY <1>3, <2>2
    <3>2. position - unused = position
      BY <1>4, <3>1
    <3>3. QED
      BY <1>1, <1>4, <2>2, <3>2
  <2>3. QED
    BY <2>1, <2>2
<1>6. InputTypes'
  <2>1. p \in 0 .. Len(data)
    BY <1>4, <1>5
  <2>2. QED
    BY <1>1, <1>2, <1>5, <2>1 DEF InputTypes
<1>7. Counted'
  <2>1. ClosestLimit' = ClosestLimit
    BY <1>1 DEF ClosestLimit
  <2>2. QED
    BY <1>1, <2>1 DEF Counted, Working
<1>8. Stacked'
  BY <1>1 DEF Stacked
<1>9. CodedInv'
  BY <1>1, <1>6, <1>7, <1>8, Idle DEF CodedInv
<1>10. Position' = Position
  <2>1. Position' = p
    BY <1>1, <1>5 DEF Position
  <2>2. Position = position - unused - 0
    BY <1>1, <1>3 DEF Position, Done
  <2>3. QED
    BY <1>4, <1>5, <2>1, <2>2
<1>11. Reader!Next
  BY <1>1, <1>2, <1>10, Zenon DEF Reader!Next
<1>12. QED
  BY <1>9, <1>11

(* The constructor's first chunk.                                           *)
LEMMA InitStep ==
    ASSUME InputAssumption, CodedInit
    PROVE  CodedInv /\ Reader!Init
<1>1. /\ data \in Seq(Nat) /\ Len(data) \in Nat
      /\ IntMax \in Nat /\ DefaultTotalBytesLimit \in 1 .. IntMax /\ MaxChunk \in Nat
  <2>1. data \in Seq(0 .. 2 * Base - 1) /\ Base \in Nat
    BY DEF InputAssumption, CodedInit
  <2>2. 0 .. 2 * Base - 1 \subseteq Nat
    BY <2>1
  <2>3. data \in Seq(Nat)
    BY <2>1, <2>2
  <2>4. QED
    BY <2>3 DEF InputAssumption
<1>2. PICK n \in 0 .. Smaller(MaxChunk, Len(data)) :
          /\ position = n /\ last_returned_size = n
          /\ overflow_bytes = IF n > IntMax THEN n - IntMax ELSE 0
          /\ total_bytes_read = n - overflow_bytes
          /\ buffer_size_after_limit = Larger(0, total_bytes_read - DefaultTotalBytesLimit)
          /\ size = total_bytes_read - buffer_size_after_limit
  BY DEF CodedInit
<1>3. n \in Nat /\ n <= Len(data)
  BY <1>1, <1>2 DEF Smaller
<1>4. /\ buffer = 0 /\ current_limit = IntMax /\ total_bytes_limit = DefaultTotalBytesLimit
      /\ legitimate_message_end = FALSE /\ pushed = <<>> /\ task = NoTask
      /\ broken = FALSE /\ destroyed = FALSE
      /\ result = [op |-> "none", ok |-> TRUE, got |-> <<>>] /\ data \in Sources
  BY DEF CodedInit
<1>5. /\ overflow_bytes \in Nat /\ total_bytes_read \in Nat /\ total_bytes_read + overflow_bytes = n
      /\ overflow_bytes > 0 => total_bytes_read = IntMax
      /\ total_bytes_read <= IntMax
  BY <1>1, <1>2, <1>3
<1>6. ClosestLimit = DefaultTotalBytesLimit
  BY <1>1, <1>4 DEF ClosestLimit, Smaller
<1>7. /\ buffer_size_after_limit \in Nat /\ size \in Nat
      /\ size + buffer_size_after_limit = total_bytes_read
      /\ total_bytes_read - buffer_size_after_limit <= ClosestLimit
      /\ buffer_size_after_limit > 0 => total_bytes_read - buffer_size_after_limit = ClosestLimit
  BY <1>1, <1>2, <1>5, <1>6 DEF Larger
<1>8. Unused = n
  BY <1>3, <1>5, <1>7 DEF Unused
<1>9. InputTypes
  <2>1. position \in 0 .. Len(data) /\ last_returned_size \in Nat /\ buffer \in Nat
    BY <1>1, <1>2, <1>3, <1>4
  <2>2. current_limit \in 0 .. IntMax /\ total_bytes_limit \in Nat
    BY <1>1, <1>4
  <2>3. legitimate_message_end \in BOOLEAN /\ broken \in BOOLEAN /\ destroyed \in BOOLEAN
    BY <1>4
  <2>4. QED
    BY <1>1, <1>5, <1>7, <2>1, <2>2, <2>3 DEF InputTypes
<1>10. Counted
  BY <1>2, <1>3, <1>4, <1>5, <1>7, <1>8 DEF Counted, Working
<1>11. Stacked
  BY <1>4 DEF Stacked
<1>12. Underway
  BY <1>4 DEF Underway, NoTask
<1>13. Position = 0
  <2>1. Position = position - Unused - 0
    BY <1>4 DEF Position, Done
  <2>2. QED
    BY <1>2, <1>3, <1>8, <2>1
<1>14. Reader!Init
  BY <1>4, <1>13 DEF Reader!Init
<1>15. QED
  BY <1>9, <1>10, <1>11, <1>12, <1>14 DEF CodedInv

-----------------------------------------------------------------------------
LEMMA StepOfInput ==
    ASSUME InputAssumption, CodedInv, [CodedNext]_codedVars
    PROVE  CodedInv' /\ [Reader!Next]_Reader!vars
<1>1. CASE UNCHANGED codedVars
  <2>1. /\ UNCHANGED <<data, position, last_returned_size, buffer, size, buffer_size_after_limit,
                       overflow_bytes, total_bytes_read, current_limit, total_bytes_limit, pushed,
                       legitimate_message_end, task, result, broken, destroyed>>
    BY <1>1 DEF codedVars, streamVars, bufferVars, limitVars, callVars
  <2>2. UNCHANGED <<ClosestLimit, Unused, CurrentPosition, Done>>
    BY <2>1 DEF ClosestLimit, Unused, CurrentPosition, Done
  <2>3. InputTypes' /\ Counted'
    BY <2>1, <2>2 DEF CodedInv, InputTypes, Counted, Working
  <2>4. Stacked'
    BY <2>1 DEF CodedInv, Stacked
  <2>5. Underway'
    BY <2>1, <2>2 DEF CodedInv, Underway, Working
  <2>6. UNCHANGED Reader!vars
    BY <2>1, <2>2 DEF Reader!vars, Position
  <2>7. QED
    BY <2>3, <2>4, <2>5, <2>6 DEF CodedInv
<1>2. CASE CodedNext
  <2>1. UNCHANGED data
    BY <1>2 DEF CodedNext
  <2>2. CASE \E n \in Sizes : ReadRaw(n) \/ Skip(n) \/ Refuse(n) \/ PushLimit(n) \/ SetTotalBytesLimit(n)
    <3>1. PICK n \in Sizes :
              ReadRaw(n) \/ Skip(n) \/ Refuse(n) \/ PushLimit(n) \/ SetTotalBytesLimit(n)
      BY <2>2
    <3>2. CASE ReadRaw(n)
      BY <2>1, <3>2, BeginStep
    <3>3. CASE Skip(n)
      <4>1. /\ Ready /\ n >= 0 /\ UNCHANGED <<limitVars, legitimate_message_end, destroyed>>
            /\ SkipInBuffer(n) \/ SkipToLimitInBuffer(n) \/ SkipBeyondBuffer(n)
        BY <3>3 DEF Skip
      <4>2. QED
        BY <2>1, <4>1, SkipInBufferStep, SkipToLimitStep, SkipBeyondStep
    <3>4. CASE Refuse(n)
      BY <2>1, <3>4, RefuseStep
    <3>5. CASE PushLimit(n)
      BY <2>1, <3>5, PushLimitStep
    <3>6. CASE SetTotalBytesLimit(n)
      BY <2>1, <3>6, SetTotalStep
    <3>7. QED
      BY <3>1, <3>2, <3>3, <3>4, <3>5, <3>6
  <2>3. CASE Raw
    BY <2>1, <2>3, RawStep
  <2>4. CASE ReadVarint \/ ReadTag
    BY <2>1, <2>4, BeginStep
  <2>5. CASE VarintStep
    BY <2>1, <2>5, VarintStepKeeps
  <2>6. CASE TagAtEnd
    BY <2>1, <2>6, TagAtEndStep
  <2>7. CASE ExpectAtEnd
    BY <2>1, <2>7, ExpectAtEndStep
  <2>8. CASE PopLimit
    BY <2>1, <2>8, PopLimitStep
  <2>9. CASE Destructor
    BY <2>1, <2>9, DestructorStep
  <2>10. QED
    BY <1>2, <2>2, <2>3, <2>4, <2>5, <2>6, <2>7, <2>8, <2>9 DEF CodedNext
<1>3. QED
  BY <1>1, <1>2

LEMMA CountersCount ==
    ASSUME InputAssumption, CodedInv
    PROVE  Accounting
<1>1. /\ InputTypes /\ Counted
      /\ ~ destroyed /\ size > 0 => buffer + Unused = position
  BY DEF CodedInv, Counted, InputTypes
<1>2. CountersFit
  BY <1>1 DEF CountersFit, Counted, InputTypes, Working
<1>3. BackUpLegal
  BY <1>1 DEF BackUpLegal, Counted
<1>4. QED
  BY <1>2, <1>3 DEF Accounting

LEMMA CodedInvariant ==
    ASSUME InputAssumption
    PROVE  CodedSpec => []CodedInv
<1>1. CodedInit => CodedInv
  BY InitStep
<1>2. CodedInv /\ [CodedNext]_codedVars => CodedInv'
  BY StepOfInput
<1>3. QED
  BY <1>1, <1>2, PTL DEF CodedSpec

(* The counters of CodedInputStream fit together after any calls: the       *)
(* buffer is the next part of the data, what lies beyond the closest limit  *)
(* is set aside and nothing else, a count that would pass INT_MAX stops     *)
(* there, and the destructor gives back no more than the last chunk, the    *)
(* thing ArrayInputStream aborts over (coded_stream.cc:86-168, 486-549,     *)
(* zero_copy_stream_impl_lite.cc:78-85).                                    *)
THEOREM CountersAreRight ==
    ASSUME InputAssumption
    PROVE  CodedSpec => []Accounting
<1>1. CodedInv => Accounting
  BY CountersCount
<1>2. QED
  BY <1>1, CodedInvariant, PTL

(* CodedInputStream reads as if its data lay in one flat array: however the *)
(* stream cuts it into chunks, whatever limits are pushed, popped or set    *)
(* between the calls, and whether a varint is decoded from the array or     *)
(* byte by byte, every read, skip, tag and limit returns what it would      *)
(* there and leaves the reader where it would (coded_stream.cc:86-549).     *)
THEOREM ReaderIsFlat ==
    ASSUME InputAssumption
    PROVE  CodedSpec => ReadsTheData
<1>1. CodedInit => Reader!Init
  BY InitStep
<1>2. CodedInv /\ [CodedNext]_codedVars => [Reader!Next]_Reader!vars
  BY StepOfInput
<1>3. QED
  BY <1>1, <1>2, CodedInvariant, PTL DEF CodedSpec, ReadsTheData, Reader!Spec
=============================================================================
