-------------------------- MODULE DescriptorIndex --------------------------
(***************************************************************************)
(* DescriptorIndex of descriptor_database.cc: which file has a name,        *)
(* declares a symbol or defines an extension.  A symbol is the sequence of  *)
(* the parts of its full name, numbers in the order of the strings; "."     *)
(* sorts before what a part may hold, so names compare part by part.        *)
(* A file is a record of Protos; what a file declares is all that matters.  *)
(***************************************************************************)
EXTENDS Integers, SequencesExt

CONSTANT Protos   \* the files there are, by identity

VARIABLE index

Nobody == "nobody"

\* map::insert and InsertIfNotPresent: what is there stays.
Insert(map, key, value) ==
    [k \in DOMAIN map \cup {key} |-> IF k \in DOMAIN map THEN map[k] ELSE value]

FindWithDefault(map, key) == IF key \in DOMAIN map THEN map[key] ELSE Nobody

EmptyMap == [key \in {} |-> Nobody]
EmptyIndex == [by_name |-> EmptyMap, by_symbol |-> EmptyMap, by_extension |-> EmptyMap]

IndexInit == index = EmptyIndex

-----------------------------------------------------------------------------
(* Names                                                                   *)

Less(a, b) ==
    \/ IsStrictPrefix(a, b)
    \/ \E i \in DOMAIN a \cap DOMAIN b :
        a[i] < b[i] /\ SubSeq(a, 1, i - 1) = SubSeq(b, 1, i - 1)

First(names) == CHOOSE n \in names : \A m \in names : ~ Less(m, n)
Final(names) == CHOOSE n \in names : \A m \in names : ~ Less(n, m)

IsSubSymbol(sub_symbol, super_symbol) == IsPrefix(sub_symbol, super_symbol)

\* When every key is greater this is the first one, not the end of the map.
FindLastLessOrEqual(symbols, name) ==
    LET below == {k \in DOMAIN symbols : ~ Less(name, k)} IN
    IF below = {} THEN First(DOMAIN symbols) ELSE Final(below)

\* The neighbours of name let it in: the iterator's key and the one after it.
Admits(symbols, name) ==
    LET found == FindLastLessOrEqual(symbols, name)
        above == {k \in DOMAIN symbols : Less(found, k)} IN
    /\ ~ IsSubSymbol(found, name)
    /\ above # {} => ~ IsSubSymbol(name, First(above))

-----------------------------------------------------------------------------
(* Adding a file stops at the first conflict and keeps what it has added.  *)

AddSymbol(x, name, p) ==
    IF DOMAIN x.by_symbol = {} \/ Admits(x.by_symbol, name)
    THEN [x EXCEPT !.by_symbol = Insert(@, name, p)]
    ELSE [x EXCEPT !.ok = FALSE]

\* Only a fully-qualified extendee can be a key.
AddExtension(x, e, p) ==
    LET key == <<e.extendee.name, e.number>> IN
    CASE ~ e.extendee.absolute -> x
      [] key \in DOMAIN x.by_extension -> [x EXCEPT !.ok = FALSE]
      [] OTHER -> [x EXCEPT !.by_extension = Insert(@, key, p)]

AddFile(x, p) ==
    LET file == Protos[p]
        Full(d) == Append(file.package, d.name)
        Message(y, m) == IF y.ok THEN AddSymbol(y, Full(m), p) ELSE y
        Extension(y, e) ==
            LET z == Message(y, e) IN IF z.ok THEN AddExtension(z, e, p) ELSE z
        named == x @@ [ok |-> TRUE]
        added == [named EXCEPT !.by_name = Insert(@, file.name, p)] IN
    IF file.name \in DOMAIN x.by_name THEN [named EXCEPT !.ok = FALSE]
    ELSE FoldLeft(Extension, FoldLeft(Message, added, file.messages), file.extensions)

\* What is left of the answer once it is known to be yes or no.
Kept(x) == [by_name |-> x.by_name, by_symbol |-> x.by_symbol, by_extension |-> x.by_extension]

Add(p) == index' = Kept(AddFile(index, p))

-----------------------------------------------------------------------------
(* Looking up: the file, or Nobody.                                        *)

FileNamed(name) == FindWithDefault(index.by_name, name)

FileDeclaring(name) ==
    IF DOMAIN index.by_symbol = {} THEN Nobody
    ELSE LET found == FindLastLessOrEqual(index.by_symbol, name) IN
         IF IsSubSymbol(found, name) THEN index.by_symbol[found] ELSE Nobody

FileExtending(extendee, number) == FindWithDefault(index.by_extension, <<extendee, number>>)

FindAllExtensionNumbers(extendee) == {k[2] : k \in {e \in DOMAIN index.by_extension : e[1] = extendee}}

-----------------------------------------------------------------------------
(* The map does not contain symbols that are prefixes of other symbols in   *)
(* the map (descriptor_database.h:184).  AddSymbol does not look at a first *)
(* key that is greater than the new name.                                   *)
NoSymbolInsideAnother ==
    \A a, b \in DOMAIN index.by_symbol : a # b => ~ IsSubSymbol(a, b)
=============================================================================
