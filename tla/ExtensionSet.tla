---------------------------- MODULE ExtensionSet ----------------------------
(***************************************************************************)
(* ExtensionSet (extension_set.cc): a map from extension numbers to         *)
(* entries.  A cleared entry stays in the map, with its object, for reuse;  *)
(* a repeated one stays when it becomes empty.                              *)
(*                                                                          *)
(* An entry holds value, a number or the object of a string or message; or  *)
(* cells, the numbers of a repeated field; or ptrs, a RepeatedPtrField.     *)
(* live[o] is what object o holds, held are the caller's own objects.       *)
(* All numeric types are int32; groups are messages; nothing is lazy, which *)
(* nothing in the repository makes.                                         *)
(***************************************************************************)
EXTENDS WireData, FiniteSets, FiniteSetsExt

CONSTANTS
    Sets,
    Registry,   \* number -> [type, repeated, packed], as the Register calls left it
    ValidEnum,  \* what the enum's validity function accepts
    Objects, Values, Empty, Freed,
    MaxCalls    \* bound on the calls

VARIABLES sets, live, held, unknown, calls, call

extVars == <<sets, live, held, unknown, calls, call>>

Numbers == DOMAIN Registry
InOrder == SetToSortSeq(Numbers, LAMBDA m, n : m < n)
Type(n) == Registry[n].type
Repeated(n) == Registry[n].repeated
Pointed(n) == Type(n) \in {"string", "message"}

Pointers == INSTANCE RepeatedPtrField WITH
    Fields <- {}, ObjectValues <- Values, MinAllocation <- 4, MaxTotal <- Cardinality(Objects),
    fields <- <<>>

Absent == <<>>
NewEntry ==
    [cleared |-> FALSE, value |-> 0, cells |-> <<>>, ptrs |-> Pointers!NoElements, cached |-> 0]

(* MaybeNewExtension: the entry to change.                                  *)
EntryOf(ext, n) == IF ext[n] = Absent THEN NewEntry ELSE ext[n]

(* A set and the objects: what a call changes.                              *)
Store(ext, objects) == [ext |-> ext, live |-> objects]
Put(x, n, entry) == [x EXCEPT !.ext[n] = entry]
Fresh(objects) == CHOOSE o \in Objects : objects[o] = Freed

-----------------------------------------------------------------------------
\* is_cleared = false.
Uncleared(entry) == [entry EXCEPT !.cleared = FALSE]

\* SetInt32, SetEnum and the others.
SetScalar(x, n, v) == Put(x, n, [Uncleared(EntryOf(x.ext, n)) EXCEPT !.value = v])

\* AddInt32, AddEnum and the others.
AddScalar(x, n, v) == Put(x, n, [EntryOf(x.ext, n) EXCEPT !.cells = Append(@, v)])

(* MutableString, MutableMessage: the object may be written to.             *)
Mutable(x, n) ==
    IF x.ext[n] = Absent
    THEN LET o == Fresh(x.live)
         IN  [Put(x, n, [NewEntry EXCEPT !.value = o]) EXCEPT !.live[o] = Empty]
    ELSE Put(x, n, Uncleared(x.ext[n]))

Written(x, o, v) == [x EXCEPT !.live[o] = v]

SetPointed(x, n, v) == LET y == Mutable(x, n) IN Written(y, y.ext[n].value, v)

\* CheckTypeAndMergeFrom, and what reading a message into another one does.
MergePointed(x, n, v) ==
    LET y == Mutable(x, n)
    IN  IF v = Empty THEN y ELSE Written(y, y.ext[n].value, v)

(* AddString, AddMessage: a cleared object first.                           *)
AddPointed(x, n, v) ==
    LET entry == EntryOf(x.ext, n)
        ptrs == entry.ptrs
        o == IF Pointers!Cleared(ptrs) > 0 THEN ptrs.slots[ptrs.size + 1] ELSE Fresh(x.live)
        grown == IF Pointers!Cleared(ptrs) > 0 THEN Pointers!Reuse(ptrs) ELSE Pointers!Grow(ptrs, o)
    IN  Written(Put(x, n, [entry EXCEPT !.ptrs = grown]), o, v)

Set(x, n, v) ==
    CASE ~ Repeated(n) /\ ~ Pointed(n) -> SetScalar(x, n, v)
      [] ~ Repeated(n) /\ Pointed(n) -> SetPointed(x, n, v)
      [] Repeated(n) /\ ~ Pointed(n) -> AddScalar(x, n, v)
      [] Repeated(n) /\ Pointed(n) -> AddPointed(x, n, v)

-----------------------------------------------------------------------------
Emptied(objects, some) == [o \in Objects |-> IF o \in some THEN Empty ELSE objects[o]]

(* Extension::Clear.                                                        *)
ClearEntry(x, n) ==
    LET entry == x.ext[n]
        objects == CASE Repeated(n) -> Pointers!InUse(entry.ptrs)
                     [] Pointed(n) /\ ~ entry.cleared -> {entry.value}
                     [] OTHER -> {}
    IN  IF entry = Absent THEN x
        ELSE Store([x.ext EXCEPT ![n] =
                       [entry EXCEPT !.cells = <<>>, !.ptrs.size = 0,
                                     !.cleared = IF Repeated(n) THEN @ ELSE TRUE]],
                   Emptied(x.live, objects))

ClearAll(x) == FoldLeft(LAMBDA y, n : ClearEntry(y, n), x, InOrder)

RemoveLast(x, n) ==
    LET entry == x.ext[n]
    IN  IF Pointed(n)
        THEN Store([x.ext EXCEPT ![n].ptrs.size = @ - 1],
                   Emptied(x.live, Pointers!LastCleared(entry.ptrs)))
        ELSE Put(x, n, [entry EXCEPT !.cells = SubSeq(@, 1, Len(@) - 1)])

Size_(entry, n) == IF Pointed(n) THEN entry.ptrs.size ELSE Len(entry.cells)

SwapElements(x, n, i, j) ==
    LET entry == x.ext[n]
    IN  Put(x, n, IF Pointed(n)
                  THEN [entry EXCEPT !.ptrs.slots[i] = entry.ptrs.slots[j],
                                     !.ptrs.slots[j] = entry.ptrs.slots[i]]
                  ELSE [entry EXCEPT !.cells[i] = entry.cells[j], !.cells[j] = entry.cells[i]])

-----------------------------------------------------------------------------
(* MergeFrom, one entry of the other set.  A repeated one leaves an entry   *)
(* even when it is empty.                                                   *)
Elements(entry, objects) ==
    [i \in 1 .. entry.ptrs.size |-> objects[entry.ptrs.slots[i]]]

(* Slip: what the other set has cleared is merged as well.                  *)
MergesCleared(entry) == TRUE

Merges(entry) == ~ entry.cleared

MergeEntry(x, n, entry) ==
    CASE Repeated(n) ->
           FoldLeft(LAMBDA y, v : Set(y, n, v), Put(x, n, EntryOf(x.ext, n)),
                    IF Pointed(n) THEN Elements(entry, x.live) ELSE entry.cells)
      [] ~ Repeated(n) /\ Merges(entry) ->
           CASE Type(n) = "message" -> MergePointed(x, n, x.live[entry.value])
             [] Type(n) = "string" -> SetPointed(x, n, x.live[entry.value])
             [] OTHER -> SetScalar(x, n, entry.value)
      [] OTHER -> x

MergeFrom(x, other) ==
    FoldLeft(LAMBDA y, n : IF other[n] = Absent THEN y ELSE MergeEntry(y, n, other[n]), x, InOrder)

(* Free: the object, or all the repeated field has allocated.               *)
ObjectsOf(entry, n) ==
    IF entry = Absent \/ ~ Pointed(n) THEN {}
    ELSE IF Repeated(n) THEN Pointers!Allocated(entry.ptrs) ELSE {entry.value}

Owned(ext) == UNION {ObjectsOf(ext[n], n) : n \in Numbers}

-----------------------------------------------------------------------------
(* ByteSize, which caches the size of a packed field for the writer.        *)
Body(n, v) == IF v = Empty THEN <<>> ELSE IF Type(n) = "message" THEN <<Varint(1, v)>> ELSE <<Raw(v)>>

ValueSize(n, v) ==
    IF Pointed(n) THEN VarintSize(Size(Body(n, v))) + Size(Body(n, v)) ELSE VarintSize(v)

ValuesOf(entry, n, objects) ==
    CASE entry = Absent -> <<>>
      [] Repeated(n) /\ Pointed(n) -> Elements(entry, objects)
      [] Repeated(n) /\ ~ Pointed(n) -> entry.cells
      [] OTHER -> IF entry.cleared THEN <<>>
                  ELSE <<IF Pointed(n) THEN objects[entry.value] ELSE entry.value>>

DataSize(entry, n, objects) ==
    FoldLeft(LAMBDA sum, v : sum + ValueSize(n, v), 0, ValuesOf(entry, n, objects))

(* Slip: a packed field that became empty keeps the size it had.            *)
CachedUnlessEmpty(entry, n, objects) ==
    IF entry = Absent \/ entry.cells = <<>> THEN entry
    ELSE [entry EXCEPT !.cached = DataSize(entry, n, objects)]

Cached(entry, n, objects) ==
    IF entry # Absent /\ Registry[n].packed
    THEN [entry EXCEPT !.cached = DataSize(entry, n, objects)]
    ELSE entry

ByteSize(entry, n, objects) ==
    LET data == DataSize(entry, n, objects)
    IN  IF Registry[n].packed
        THEN IF data > 0 THEN TagSize(n) + VarintSize(data) + data ELSE 0
        ELSE TagSize(n) * Len(ValuesOf(entry, n, objects)) + data

(* SerializeFieldWithCachedSizes.  Numbers come in order, cleared entries   *)
(* and packed fields whose size was cached as 0 not at all.                 *)
Field(n, v) ==
    IF Pointed(n) THEN Delimited(n, Body(n, v), Size(Body(n, v))) ELSE Varint(n, v)

WriteEntry(entry, n, objects) ==
    LET values == ValuesOf(entry, n, objects)
    IN  IF Registry[n].packed
        THEN IF entry = Absent \/ entry.cached = 0 THEN <<>>
             ELSE <<Delimited(n, [i \in DOMAIN values |-> Raw(values[i])], entry.cached)>>
        ELSE [i \in DOMAIN values |-> Field(n, values[i])]

Sized(ext, objects) == [n \in Numbers |-> Cached(ext[n], n, objects)]
SetSize(ext, objects) == FoldLeft(LAMBDA sum, n : sum + ByteSize(ext[n], n, objects), 0, InOrder)
Serialize(ext, objects) ==
    FoldLeft(LAMBDA data, n : data \o WriteEntry(ext[n], n, objects), <<>>, InOrder)

-----------------------------------------------------------------------------
(* FindExtensionInfoFromTag: packed when the extension is, and never        *)
(* otherwise.                                                               *)
Expected(n) == IF Pointed(n) \/ Registry[n].packed THEN "delimited" ELSE "varint"
Known(a) == a.n \in Numbers /\ a.w = Expected(a.n)

Accepts(n, v) == Type(n) = "enum" => v \in ValidEnum

Content(n, a) == IF a.s = <<>> THEN Empty ELSE a.s[Len(a.s)].i

(* ParseFieldWithExtensionInfo: an invalid enum value is unknown, or        *)
(* dropped when it is packed.                                               *)
ParseField(x, a) ==
    CASE ~ Known(a) -> [x EXCEPT !.unknown = Append(@, a)]
      [] Known(a) /\ Registry[a.n].packed ->
           FoldLeft(LAMBDA y, r : IF Accepts(a.n, r.i) THEN AddScalar(y, a.n, r.i) ELSE y, x, a.s)
      [] Known(a) /\ Type(a.n) = "message" /\ ~ Repeated(a.n) -> MergePointed(x, a.n, Content(a.n, a))
      [] Known(a) /\ Pointed(a.n) -> Set(x, a.n, Content(a.n, a))
      [] OTHER -> IF Accepts(a.n, a.i) THEN Set(x, a.n, a.i) ELSE [x EXCEPT !.unknown = Append(@, a)]

Parse(x, data) == FoldLeft(ParseField, x, data)

-----------------------------------------------------------------------------
Init ==
    /\ sets = [s \in Sets |-> [n \in Numbers |-> Absent]]
    /\ live = [o \in Objects |-> Freed]
    /\ held = {}
    /\ unknown = [s \in Sets |-> <<>>]
    /\ calls = 0 /\ call = <<>>

Storage(s) == Store(sets[s], live)
Becomes(s, x) == sets' = [sets EXCEPT ![s] = x.ext] /\ live' = x.live
Room(n) == Cardinality({o \in Objects : live[o] = Freed}) >= n
Call(name) == calls < MaxCalls /\ calls' = calls + 1 /\ call' = name

\* Set and Add accessors.
CallSet(s, n) ==
    /\ Call(<<"set", s, n>>)
    /\ Pointed(n) => Room(1)
    /\ \E v \in Values : Accepts(n, v) /\ Becomes(s, Set(Storage(s), n, v))
    /\ UNCHANGED <<held, unknown>>

\* Mutable accessors whose object the caller leaves as it is.
CallMutable(s, n) ==
    /\ Call(<<"mutable", s, n>>)
    /\ Pointed(n) /\ ~ Repeated(n) /\ Room(1)
    /\ Becomes(s, Mutable(Storage(s), n))
    /\ UNCHANGED <<held, unknown>>

ClearExtension(s, n) ==
    /\ Call(<<"clear", s, n>>)
    /\ Becomes(s, ClearEntry(Storage(s), n))
    /\ UNCHANGED <<held, unknown>>

NewMessage ==
    /\ Call(<<"other">>)
    /\ Room(1)
    /\ live' = [live EXCEPT ![Fresh(live)] = CHOOSE v \in Values : v # Empty]
    /\ held' = held \union {Fresh(live)}
    /\ UNCHANGED <<sets, unknown>>

\* SetAllocatedMessage deletes the object it replaces; with NULL it clears.
SetAllocatedMessage(s, n) ==
    /\ Call(<<"set", s, n>>)
    /\ Type(n) = "message" /\ ~ Repeated(n)
    /\ \E o \in held :
          /\ sets' = [sets EXCEPT ![s][n] = [Uncleared(EntryOf(sets[s], n)) EXCEPT !.value = o]]
          /\ live' = [p \in Objects |-> IF p \in ObjectsOf(sets[s][n], n) THEN Freed ELSE live[p]]
          /\ held' = held \ {o}
    /\ UNCHANGED unknown

(* Slip: the entry stays, cleared.                                          *)
ReleasedCleared(ext, n) == [ext EXCEPT ![n].cleared = TRUE]

Released(ext, n) == [ext EXCEPT ![n] = Absent]

\* ReleaseMessage takes the entry out of the map, cleared or not.
ReleaseMessage(s, n) ==
    /\ Call(<<"release", s, n>>)
    /\ Type(n) = "message" /\ ~ Repeated(n) /\ sets[s][n] # Absent
    /\ sets' = [sets EXCEPT ![s] = Released(sets[s], n)]
    /\ held' = held \union ObjectsOf(sets[s][n], n)
    /\ UNCHANGED <<live, unknown>>

NotEmpty(s, n) == Repeated(n) /\ sets[s][n] # Absent /\ Size_(sets[s][n], n) > 0

CallRemoveLast(s, n) ==
    /\ Call(<<"remove", s, n>>)
    /\ NotEmpty(s, n)
    /\ Becomes(s, RemoveLast(Storage(s), n))
    /\ UNCHANGED <<held, unknown>>

ReleaseLast(s, n) ==
    LET ptrs == sets[s][n].ptrs
    IN  /\ Call(<<"remove", s, n>>)
        /\ NotEmpty(s, n) /\ Type(n) = "message"
        /\ sets' = [sets EXCEPT ![s][n].ptrs = Pointers!TakeLast(ptrs)]
        /\ held' = held \union Pointers!LastCleared(ptrs)
        /\ UNCHANGED <<live, unknown>>

CallSwapElements(s, n) ==
    /\ Call(<<"exchange", s, n>>)
    /\ NotEmpty(s, n)
    /\ \E i, j \in 1 .. Size_(sets[s][n], n) : i < j /\ Becomes(s, SwapElements(Storage(s), n, i, j))
    /\ UNCHANGED <<held, unknown>>

Clear(s) ==
    /\ Call(<<"empty", s>>)
    /\ Becomes(s, ClearAll(Storage(s)))
    /\ UNCHANGED <<held, unknown>>

CallMergeFrom(s, t) ==
    /\ Call(<<"merge", s, t>>)
    /\ s # t /\ Room(Cardinality(Owned(sets[t])))
    /\ Becomes(s, MergeFrom(Storage(s), sets[t]))
    /\ UNCHANGED <<held, unknown>>

Swap(s, t) ==
    /\ Call(<<"swap", s, t>>)
    /\ s # t
    /\ sets' = [sets EXCEPT ![s] = sets[t], ![t] = sets[s]]
    /\ UNCHANGED <<live, held, unknown>>

\* What the writer leaves behind: the cached sizes.
CallByteSize(s) ==
    /\ Call(<<"other">>)
    /\ sets' = [sets EXCEPT ![s] = Sized(sets[s], live)]
    /\ UNCHANGED <<live, held, unknown>>

\* A field that comes in: as it should be, with another wire type, or packed.
Incoming(n) ==
    LET payloads == IF Pointed(n) THEN {Body(n, v) : v \in Values}
                    ELSE {<<Raw(v), Raw(w)>> : v, w \in Values}
    IN  {Varint(n, v) : v \in Values} \union {Delimited(n, p, Size(p)) : p \in payloads}

CallParseField(s) ==
    \E n \in Numbers : \E a \in Incoming(n) :
       LET x == ParseField([ext |-> sets[s], live |-> live, unknown |-> unknown[s]], a)
       IN  /\ Call(<<"parse", s, n>>)
           /\ Room(1)
           /\ Becomes(s, x)
           /\ unknown' = [unknown EXCEPT ![s] = x.unknown]
           /\ UNCHANGED held

\* ~ExtensionSet; a new set in its place.
Destroy(s) ==
    /\ Call(<<"empty", s>>)
    /\ live' = [o \in Objects |-> IF o \in Owned(sets[s]) THEN Freed ELSE live[o]]
    /\ sets' = [sets EXCEPT ![s] = [n \in Numbers |-> Absent]]
    /\ UNCHANGED <<held, unknown>>

Next ==
    \/ NewMessage
    \/ \E s \in Sets :
          \/ \E n \in Numbers :
                \/ CallSet(s, n) \/ CallMutable(s, n) \/ ClearExtension(s, n)
                \/ SetAllocatedMessage(s, n) \/ ReleaseMessage(s, n)
                \/ CallRemoveLast(s, n) \/ ReleaseLast(s, n) \/ CallSwapElements(s, n)
          \/ Clear(s) \/ CallByteSize(s) \/ CallParseField(s) \/ Destroy(s)
    \/ \E s, t \in Sets : CallMergeFrom(s, t) \/ Swap(s, t)

Spec == Init /\ [][Next]_extVars

-----------------------------------------------------------------------------
(* Every object belongs to one entry of one set, or to the caller.          *)
EntriesOwnOnce ==
    /\ {o \in Objects : live[o] # Freed} = UNION {Owned(sets[s]) : s \in Sets} \union held
    /\ \A s \in Sets, n \in Numbers :
          /\ ObjectsOf(sets[s][n], n) \intersect held = {}
          /\ \A t \in Sets, m \in Numbers :
                ObjectsOf(sets[s][n], n) \intersect ObjectsOf(sets[t][m], m) # {} => s = t /\ n = m

(* The object of a cleared message is empty: GetMessage returns it without  *)
(* looking at is_cleared (extension_set.cc:436-450).                        *)
ClearedIsDefault ==
    \A s \in Sets, n \in Numbers :
        LET entry == sets[s][n]
        IN  Pointed(n) /\ ~ Repeated(n) /\ entry # Absent /\ entry.cleared => live[entry.value] = Empty

(* What ByteSize says is what is written, every length is that of what      *)
(* follows it, and a new set that reads it holds the same: a packed field   *)
(* that has been emptied writes nothing, whatever size was cached before    *)
(* (extension_set.cc:1145-1150, 1286-1292).                                 *)
ViewOf(ext, objects) == [n \in Numbers |-> ValuesOf(ext[n], n, objects)]
Blank == [ext |-> [n \in Numbers |-> Absent], live |-> [o \in Objects |-> Freed], unknown |-> <<>>]

WritesItself ==
    \A s \in Sets :
        LET data == Serialize(Sized(sets[s], live), live)
            copy == Parse(Blank, data)
            mine == ViewOf(sets[s], live)
        IN  /\ Size(data) = SetSize(sets[s], live) /\ Framed(data)
            /\ copy.unknown = <<>>
            /\ ViewOf(copy.ext, copy.live) = mine

(* Behind the entries are values: every call does to them what its name     *)
(* says, whatever was cleared, emptied or kept for reuse before             *)
(* (extension_set.cc:457-478, 683-823).                                     *)
Contents == [s \in Sets |-> ViewOf(sets[s], live)]
Abstract == INSTANCE ExtensionValues WITH vals <- Contents

HoldsValues == Abstract!Spec
=============================================================================
