--------------------------- MODULE RepeatedField ---------------------------
(***************************************************************************)
(* RepeatedField (repeated_field.h): an array of numbers, the first size of *)
(* them the field's elements.  The array grows by being copied.  A new      *)
(* array's cells hold anything: Unset.                                      *)
(***************************************************************************)
EXTENDS Integers, Sequences

CONSTANTS
    Fields,
    Values,
    Unset,
    MinAllocation,  \* kMinRepeatedFieldAllocationSize
    MaxSize         \* bound on the elements of a field

VARIABLE fields

NoElements == [cells |-> <<>>, size |-> 0]

Max2(m, n) == IF m > n THEN m ELSE n

\* new Element[length], and MoveArray.
Moved(f, length) == [k \in 1 .. length |-> IF k <= f.size THEN f.cells[k] ELSE Unset]

Reserved(f, n) ==
    LET total == Len(f.cells)
    IN  IF total >= n THEN f
        ELSE [f EXCEPT !.cells = Moved(f, Max2(MinAllocation, Max2(total * 2, n)))]

Init == fields = [f \in Fields |-> NoElements]

Update(f, field) == fields' = [fields EXCEPT ![f] = field]

\* Add, with a value or with what the caller writes into the new element.
Add(f) ==
    LET r == IF fields[f].size = Len(fields[f].cells) THEN Reserved(fields[f], Len(fields[f].cells) + 1)
             ELSE fields[f]
    IN  \E v \in Values : Update(f, [r EXCEPT !.cells[r.size + 1] = v, !.size = @ + 1])

\* Set, Mutable.
Set(f) == \E i \in 1 .. fields[f].size, v \in Values : Update(f, [fields[f] EXCEPT !.cells[i] = v])

\* RemoveLast, Truncate, Clear: only the count changes.
Truncate(f) == \E n \in 0 .. fields[f].size : Update(f, [fields[f] EXCEPT !.size = n])

(* Slip: one element too few slides down.                                   *)
SlideShort(f, first, n) ==
    [f EXCEPT !.cells = [k \in DOMAIN f.cells |->
                            IF k \in first .. f.size - n - 1 THEN f.cells[k + n] ELSE f.cells[k]],
              !.size = @ - n]

\* ExtractSubrange: what is behind the gap slides down.
Slide(f, first, n) ==
    [f EXCEPT !.cells = [k \in DOMAIN f.cells |->
                            IF k \in first .. f.size - n THEN f.cells[k + n] ELSE f.cells[k]],
              !.size = @ - n]

ExtractSubrange(f) ==
    \E first \in 1 .. fields[f].size : \E n \in 0 .. fields[f].size - first + 1 :
        Update(f, Slide(fields[f], first, n))

SwapElements(f) ==
    \E i, j \in 1 .. fields[f].size :
        Update(f, [fields[f] EXCEPT !.cells[i] = fields[f].cells[j], !.cells[j] = fields[f].cells[i]])

Reserve(f) == \E n \in 1 .. MaxSize : Update(f, Reserved(fields[f], n))

\* MergeFrom: CopyArray behind the elements.
Joined(f, g) ==
    LET r == Reserved(f, f.size + g.size)
    IN  IF g.size = 0 THEN f
        ELSE [cells |-> [k \in DOMAIN r.cells |->
                           IF k \in f.size + 1 .. f.size + g.size THEN g.cells[k - f.size] ELSE r.cells[k]],
              size |-> f.size + g.size]

MergeFrom(f, g) == Update(f, Joined(fields[f], fields[g]))

\* CopyFrom: Clear, then MergeFrom.
CopyFrom(f, g) == f # g /\ Update(f, Joined([fields[f] EXCEPT !.size = 0], fields[g]))

Swap(f, g) == fields' = [fields EXCEPT ![f] = fields[g], ![g] = fields[f]]

\* The destructor deletes the array; the field starts anew.
Destroy(f) == Update(f, NoElements)

Next ==
    \/ \E f \in Fields :
          \/ fields[f].size < MaxSize /\ Add(f)
          \/ Set(f) \/ Truncate(f) \/ ExtractSubrange(f) \/ SwapElements(f) \/ Reserve(f) \/ Destroy(f)
    \/ \E f, g \in Fields :
          \/ fields[f].size + fields[g].size <= MaxSize /\ MergeFrom(f, g)
          \/ CopyFrom(f, g) \/ Swap(f, g)

Spec == Init /\ [][Next]_fields

-----------------------------------------------------------------------------
(* Every element is a value that was put there: growing copies them all,    *)
(* and sliding and joining leave no hole (repeated_field.h:630-672,         *)
(* 745-760).                                                                *)
ElementsAreWritten ==
    \A f \in Fields :
        /\ fields[f].size <= Len(fields[f].cells)
        /\ \A i \in 1 .. fields[f].size : fields[f].cells[i] \in Values

(* Each field is a sequence of values.                                      *)
Contents == [f \in Fields |-> SubSeq(fields[f].cells, 1, fields[f].size)]
Abstract == INSTANCE ElementSequences WITH Empty <- Unset, seqs <- Contents

IsSequence == Abstract!Spec
=============================================================================
