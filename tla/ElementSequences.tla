-------------------------- MODULE ElementSequences --------------------------
(***************************************************************************)
(* What RepeatedPtrField promises: fields that are sequences of values.     *)
(* How the elements are stored, kept for reuse and handed over is not seen. *)
(***************************************************************************)
EXTENDS Integers, Sequences

CONSTANTS Fields, Values, Empty

VARIABLE seqs

Init == seqs = [f \in Fields |-> <<>>]

Set(f, s) == seqs' = [seqs EXCEPT ![f] = s]

Put(f, v) == Set(f, Append(seqs[f], v))
DropLast(f) == seqs[f] # <<>> /\ Set(f, SubSeq(seqs[f], 1, Len(seqs[f]) - 1))
CutOut(f, first, n) ==
    Set(f, SubSeq(seqs[f], 1, first - 1) \o SubSeq(seqs[f], first + n, Len(seqs[f])))
Exchange(f, i, j) == Set(f, [seqs[f] EXCEPT ![i] = seqs[f][j], ![j] = seqs[f][i]])
Overwrite(f, i, v) == Set(f, [seqs[f] EXCEPT ![i] = v])

Step ==
    \/ \E f \in Fields :
          \/ \E v \in Values : Put(f, v)
          \/ DropLast(f)
          \/ Set(f, <<>>)
          \/ \E i \in DOMAIN seqs[f] :
                \/ \E v \in Values : Overwrite(f, i, v)
                \/ \E j \in DOMAIN seqs[f] : Exchange(f, i, j)
                \/ \E n \in 1 .. Len(seqs[f]) - i + 1 : CutOut(f, i, n)
    \/ \E f, g \in Fields : f # g /\
          \/ Set(f, seqs[f] \o seqs[g])
          \/ Set(f, seqs[g])
          \/ seqs' = [seqs EXCEPT ![f] = seqs[g], ![g] = seqs[f]]

Spec == Init /\ [][Step]_seqs
=============================================================================
