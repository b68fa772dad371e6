-------------------------- MODULE RepeatedPtrField --------------------------
(***************************************************************************)
(* RepeatedPtrField (repeated_field.h, repeated_field.cc): an array of      *)
(* pointers to strings or messages.  The first size slots are the field's   *)
(* elements; the slots after them, up to the allocated ones, hold cleared   *)
(* objects kept for reuse; total is the length of the array.                *)
(*                                                                          *)
(* live[o] is what object o holds, Freed when it does not exist; held are   *)
(* the objects the caller owns: released by a field or not yet added.       *)
(***************************************************************************)
EXTENDS Integers, Sequences, FiniteSets

CONSTANTS
    Fields,
    Objects,        \* the objects that may exist, numbers: bounds the heap
    ObjectValues,   \* what an object may hold
    Empty,          \* a cleared object's value
    Freed,          \* no object
    MinAllocation,  \* kMinRepeatedFieldAllocationSize
    MaxTotal        \* bound on the length of an array

\* There is room for finitely many objects.
PtrAssumption ==
    /\ IsFiniteSet(Objects)
    /\ Empty \in ObjectValues /\ Freed \notin ObjectValues
    /\ MinAllocation \in Nat \ {0} /\ MaxTotal \in Nat

VARIABLES fields, live, held

ptrVars == <<fields, live, held>>

NoElements == [slots |-> <<>>, size |-> 0, total |-> 0]

Max2(m, n) == IF m > n THEN m ELSE n

\* Reserve: the array grows to twice its length at least.
Reserved(f, n) ==
    IF f.total >= n THEN f
    ELSE [f EXCEPT !.total = Max2(MinAllocation, Max2(f.total * 2, n))]

Room(f) == IF Len(f.slots) = f.total THEN Reserved(f, f.total + 1) ELSE f

Cleared(f) == Len(f.slots) - f.size
Elements(f) == SubSeq(f.slots, 1, f.size)
Free == {o \in Objects : live[o] = Freed}

\* new: some object that does not exist yet.
Fresh == CHOOSE o \in Free : TRUE

PtrInit ==
    /\ fields = [f \in Fields |-> NoElements]
    /\ live = [o \in Objects |-> Freed]
    /\ held = {}

Update(f, field) == fields' = [fields EXCEPT ![f] = field]
Write(objects, v) == live' = [o \in Objects |-> IF o \in objects THEN v ELSE live[o]]

-----------------------------------------------------------------------------
(* The caller's own objects.                                                *)
NewObject ==
    /\ Free # {}
    /\ \E v \in ObjectValues : Write({Fresh}, v)
    /\ held' = held \union {Fresh}
    /\ UNCHANGED fields

DeleteObject ==
    /\ \E o \in held : Write({o}, Freed) /\ held' = held \ {o}
    /\ UNCHANGED fields

-----------------------------------------------------------------------------
\* AddFromCleared: the element to reuse becomes the last one.
Reuse(f) == [f EXCEPT !.size = @ + 1]

\* Add when nothing can be reused.
Grow(f, o) == [Room(f) EXCEPT !.slots = Append(@, o), !.size = @ + 1]

\* Add, and what the caller writes into the element.
Add(f) ==
    \E v \in ObjectValues :
       IF Cleared(fields[f]) > 0
       THEN /\ Update(f, Reuse(fields[f]))
            /\ Write({fields[f].slots[fields[f].size + 1]}, v)
            /\ UNCHANGED held
       ELSE /\ Free # {}
            /\ Update(f, Grow(fields[f], Fresh))
            /\ Write({Fresh}, v)
            /\ UNCHANGED held

\* Mutable.
Mutate(f) ==
    /\ \E i \in 1 .. fields[f].size, v \in ObjectValues : Write({fields[f].slots[i]}, v)
    /\ UNCHANGED <<fields, held>>

\* RemoveLast clears the element, which stays for reuse.
LastCleared(f) == {f.slots[f.size]}

RemoveLast(f) ==
    /\ fields[f].size > 0
    /\ Update(f, [fields[f] EXCEPT !.size = @ - 1])
    /\ Write(LastCleared(fields[f]), Empty)
    /\ UNCHANGED held

InUse(f) == {f.slots[i] : i \in 1 .. f.size}

Clear(f) ==
    /\ Update(f, [fields[f] EXCEPT !.size = 0])
    /\ Write(InUse(fields[f]), Empty)
    /\ UNCHANGED held

-----------------------------------------------------------------------------
(* Slip: full or not, the object goes to the end of the elements.           *)
PlaceOverCleared(f, o) ==
    [field |-> [slots |-> SubSeq(f.slots, 1, f.size) \o <<o>>, size |-> f.size + 1,
                total |-> Max2(f.total, f.size + 1)],
     deleted |-> {}]

(* AddAllocated makes room: it grows a full array, deletes a cleared        *)
(* object when cleared ones fill it, and else moves the first cleared one   *)
(* to the end.                                                              *)
Place(f, o) ==
    LET n == Len(f.slots)
        first == f.size + 1
        into(g) == [g EXCEPT !.slots[first] = o, !.size = first]
        grown == [Reserved(f, f.total + 1) EXCEPT !.slots = Append(@, o), !.size = first]
    IN  IF f.size = f.total THEN [field |-> grown, deleted |-> {}]
        ELSE IF n = f.total THEN [field |-> into(f), deleted |-> {f.slots[first]}]
        ELSE IF f.size < n THEN [field |-> into([f EXCEPT !.slots = Append(@, f.slots[first])]), deleted |-> {}]
        ELSE [field |-> [f EXCEPT !.slots = Append(@, o), !.size = first], deleted |-> {}]

AddAllocated(f) ==
    \E o \in held :
       LET placed == Place(fields[f], o)
       IN  /\ Update(f, placed.field)
           /\ Write(placed.deleted, Freed)
           /\ held' = held \ {o}

(* Slip: the last cleared object is not moved into the gap.                 *)
TakeLastOnly(f) == [f EXCEPT !.slots = SubSeq(@, 1, Len(@) - 1), !.size = @ - 1]

\* ReleaseLast: the last cleared object fills the gap.
TakeLast(f) ==
    LET n == Len(f.slots)
        moved == IF f.size < n THEN [f.slots EXCEPT ![f.size] = f.slots[n]] ELSE f.slots
    IN  [f EXCEPT !.slots = SubSeq(moved, 1, n - 1), !.size = @ - 1]

ReleaseLast(f) ==
    /\ fields[f].size > 0
    /\ Update(f, TakeLast(fields[f]))
    /\ held' = held \union {fields[f].slots[fields[f].size]}
    /\ UNCHANGED live

(* AddCleared takes a cleared object for reuse, ReleaseCleared gives one.   *)
AddCleared(f) ==
    /\ \E o \in held :
          /\ live[o] = Empty
          /\ Update(f, [Room(fields[f]) EXCEPT !.slots = Append(@, o)])
          /\ held' = held \ {o}
    /\ UNCHANGED live

ReleaseCleared(f) ==
    LET n == Len(fields[f].slots)
    IN  /\ Cleared(fields[f]) > 0
        /\ Update(f, [fields[f] EXCEPT !.slots = SubSeq(@, 1, n - 1)])
        /\ held' = held \union {fields[f].slots[n]}
        /\ UNCHANGED live

-----------------------------------------------------------------------------
\* CloseGap: everything behind the gap moves, the cleared objects too.
CloseGap(f, first, n) ==
    [f EXCEPT !.slots = SubSeq(@, 1, first - 1) \o SubSeq(@, first + n, Len(@)), !.size = @ - n]

Subrange(f, first, n) == {f.slots[i] : i \in first .. first + n - 1}

ExtractSubrange(f) ==
    /\ \E first \in 1 .. fields[f].size : \E n \in 1 .. fields[f].size - first + 1 :
          /\ Update(f, CloseGap(fields[f], first, n))
          /\ held' = held \union Subrange(fields[f], first, n)
    /\ UNCHANGED live

DeleteSubrange(f) ==
    /\ \E first \in 1 .. fields[f].size : \E n \in 1 .. fields[f].size - first + 1 :
          /\ Update(f, CloseGap(fields[f], first, n))
          /\ Write(Subrange(fields[f], first, n), Freed)
    /\ UNCHANGED held

SwapElements(f) ==
    /\ \E i, j \in 1 .. fields[f].size :
          Update(f, [fields[f] EXCEPT !.slots[i] = fields[f].slots[j],
                                      !.slots[j] = fields[f].slots[i]])
    /\ UNCHANGED <<live, held>>

Reserve(f) ==
    /\ \E n \in 1 .. MaxTotal : Update(f, Reserved(fields[f], n))
    /\ UNCHANGED <<live, held>>

\* Swap exchanges the arrays and their three counts.
Swap(f, g) ==
    /\ fields' = [fields EXCEPT ![f] = fields[g], ![g] = fields[f]]
    /\ UNCHANGED <<live, held>>

(* MergeFrom: room for all, then Add and Merge for each element of g; what  *)
(* was cleared in f is reused first.  From size on, base as it was when f   *)
(* started, the slots of f are the targets.                                 *)
Merged(f, base, g, objects) ==
    LET room == Reserved(base, base.size + g.size)
        slots == base.slots \o objects
        target(k) == slots[base.size + k]
    IN  /\ Update(f, [room EXCEPT !.slots = slots, !.size = @ + g.size])
        /\ live' = [o \in Objects |->
              IF \E k \in 1 .. g.size : target(k) = o
              THEN live[g.slots[CHOOSE k \in 1 .. g.size : target(k) = o]]
              ELSE IF \E k \in base.size + 1 .. Len(base.slots) : base.slots[k] = o THEN Empty
              ELSE live[o]]
        /\ UNCHANGED held

Needed(base, g) == Max2(0, g.size - Cleared(base))

MergeInto(f, base, g) ==
    LET n == Needed(base, g)
        distinct == {s \in [1 .. n -> Free] : \A i, j \in 1 .. n : s[i] = s[j] => i = j}
    IN  /\ n <= Cardinality(Free)
        /\ Merged(f, base, g, CHOOSE s \in distinct : TRUE)

MergeFrom(f, g) == f # g /\ MergeInto(f, fields[f], fields[g])

\* CopyFrom: Clear, then MergeFrom.
CopyFrom(f, g) == f # g /\ MergeInto(f, [fields[f] EXCEPT !.size = 0], fields[g])

\* Destroy deletes every allocated object; the field starts anew.
Allocated(f) == {f.slots[i] : i \in DOMAIN f.slots}

Destroy(f) ==
    /\ Write(Allocated(fields[f]), Freed)
    /\ Update(f, NoElements)
    /\ UNCHANGED held

PtrNext ==
    \/ NewObject \/ DeleteObject
    \/ \E f \in Fields :
          \/ Add(f) \/ Mutate(f) \/ RemoveLast(f) \/ Clear(f)
          \/ AddAllocated(f) \/ ReleaseLast(f) \/ AddCleared(f) \/ ReleaseCleared(f)
          \/ ExtractSubrange(f) \/ DeleteSubrange(f) \/ SwapElements(f)
          \/ Reserve(f) \/ Destroy(f)
    \/ \E f, g \in Fields : Swap(f, g) \/ MergeFrom(f, g) \/ CopyFrom(f, g)

PtrSpec == PtrInit /\ [][PtrNext]_ptrVars

-----------------------------------------------------------------------------
(* Every object that exists is owned once, by one slot or by the caller.    *)
Owned == UNION {Allocated(fields[f]) : f \in Fields}

OneOwner ==
    /\ {o \in Objects : live[o] # Freed} = Owned \union held
    /\ Owned \intersect held = {}
    /\ \A f, g \in Fields : \A i \in DOMAIN fields[f].slots, j \in DOMAIN fields[g].slots :
          fields[f].slots[i] = fields[g].slots[j] => f = g /\ i = j

\* What waits for reuse: Add hands it out as a new element.
SparesAreEmpty ==
    \A f \in Fields : \A i \in fields[f].size + 1 .. Len(fields[f].slots) :
        live[fields[f].slots[i]] = Empty

WithinArray ==
    \A f \in Fields :
        fields[f].size <= Len(fields[f].slots) /\ Len(fields[f].slots) <= fields[f].total

(* No object is leaked or deleted twice, whichever way objects are handed   *)
(* in and out, no slot holds an object that is gone or lies beyond the      *)
(* array, and what is kept for reuse is empty (repeated_field.h:793-984).   *)
OwnedOnce == OneOwner /\ SparesAreEmpty /\ WithinArray

\* Behind all this the fields are sequences of values.
Contents == [f \in Fields |-> [i \in 1 .. fields[f].size |-> live[fields[f].slots[i]]]]
Abstract == INSTANCE ElementSequences WITH seqs <- Contents, Values <- ObjectValues

(* A field is a sequence of values: every call does to it what the call of  *)
(* that name does to a sequence (repeated_field.h:793-984).                 *)
PointersAreSequence == Abstract!Spec
=============================================================================
