----------------------------- MODULE ByteStream -----------------------------
(***************************************************************************)
(* What a ZeroCopyInputStream promises (io/zero_copy_stream.h): the bytes   *)
(* ahead come out in order, in chunks of any size; the end of a chunk may   *)
(* be given back; a skip falls short only at the end.  A read error may     *)
(* cost the bytes that were to come from the place that failed, once.       *)
(***************************************************************************)
EXTENDS Integers, Sequences

CONSTANT MaxSkip

VARIABLES
    ahead,      \* the bytes still to come
    beyond,     \* those a limit keeps for the next reader
    count,      \* ByteCount()
    last,       \* the chunk Next has just returned
    ok,         \* what the last call returned
    errors      \* a read has failed

streamVars == <<ahead, beyond, count, last, ok, errors>>

Drop(bytes, k) == SubSeq(bytes, k + 1, Len(bytes))
FailsNow == ~ errors /\ errors'

(* The first n bytes are gone, and if a read fails now, k more.             *)
Passes(n) ==
    \/ n <= Len(ahead) /\ ahead' = Drop(ahead, n) /\ beyond' = beyond
    \/ /\ FailsNow
       /\ \E k \in 0 .. Len(ahead \o beyond) - n : ahead' \o beyond' = Drop(ahead \o beyond, n + k)

Next ==
    \/ /\ last' # <<>> /\ ok'
       /\ Passes(Len(last'))
       /\ FailsNow \/ last' = SubSeq(ahead, 1, Len(last'))
       /\ count' = count + Len(last')
    \/ /\ last' = <<>> /\ ~ ok'
       /\ ahead = <<>> \/ FailsNow
       /\ ahead' = <<>> /\ (beyond' = beyond \/ FailsNow)
       /\ count' = count

BackUp ==
    \E n \in 1 .. Len(last) :
        /\ ahead' = Drop(last, Len(last) - n) \o ahead
        /\ count' = count - n
        /\ last' = <<>> /\ ok'
        /\ UNCHANGED <<beyond, errors>>

Skip ==
    \E n \in 0 .. MaxSkip :
        /\ last' = <<>>
        /\ \/ ok' /\ Passes(n) /\ count' = count + n
           \/ /\ ~ ok' /\ ahead' = <<>>
              /\ \E m \in 0 .. n : count' = count + m /\ (m = Len(ahead) \/ FailsNow)
              /\ beyond' = beyond \/ FailsNow

\* The limit is lifted: the next reader gets the rest.
Unwrap ==
    /\ ahead' = ahead \o beyond /\ beyond' = <<>>
    /\ last' = <<>> /\ ok'
    /\ UNCHANGED <<count, errors>>

Spec == [][Next \/ BackUp \/ Skip \/ Unwrap]_streamVars
=============================================================================
