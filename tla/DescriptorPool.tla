-------------------------- MODULE DescriptorPool ---------------------------
(***************************************************************************)
(* DescriptorPool, its Tables and DescriptorBuilder (descriptor.cc): files  *)
(* are built when they are asked for, from a fallback database, with all    *)
(* they import; or one by one, by BuildFile, when the pool has no database. *)
(* While one file is linked, looking for a symbol may build another, so     *)
(* checkpoints nest; a file with an error takes back all that was added     *)
(* since its checkpoint.                                                    *)
(*                                                                         *)
(* A call holds the pool's mutex from start to end and is one step.  Of a   *)
(* file we keep its package, imports, messages, their fields and extension  *)
(* ranges, and its extensions; enums and services add symbols in the same   *)
(* way.  The pool has no underlay, allows no unknown dependencies, and      *)
(* enforces them; options are not interpreted.                              *)
(***************************************************************************)
EXTENDS DescriptorIndex, TLC

CONSTANTS
    Encoded,   \* the files the database may be given
    MaxBad     \* bound: nobody asks for a file after so many have failed

VARIABLES
    fallback,   \* there is a fallback_database_
    tables

poolVars == <<index, fallback, tables>>

PACKAGE == "package"
MESSAGE == "message"
FIELD == "field"
kNullSymbol == [type |-> "null"]

Without(map, keys) == [k \in DOMAIN map \ keys |-> map[k]]

NoTables == [
    symbols_by_name |-> EmptyMap, files_by_name |-> EmptyMap, extensions |-> EmptyMap,
    symbols_after |-> <<>>, files_after |-> <<>>, extensions_after |-> <<>>,
    checkpoints |-> <<>>, pending_files |-> <<>>, known_bad_files |-> {},
    extensions_loaded_from_db |-> {},
    uses |-> EmptyMap]   \* the files a file's descriptors point into

Init == IndexInit /\ fallback \in BOOLEAN /\ tables = NoTables

-----------------------------------------------------------------------------
(* Checkpoints                                                             *)

CheckPoint(t) ==
    [symbols |-> Len(t.symbols_after), files |-> Len(t.files_after),
     extensions |-> Len(t.extensions_after)]

AddCheckpoint(t) == [t EXCEPT !.checkpoints = Append(@, CheckPoint(t))]

Committed(t) ==
    [t EXCEPT !.symbols_after = <<>>, !.files_after = <<>>, !.extensions_after = <<>>]

(* Slip: what a nested checkpoint protected is committed at once.           *)
ClearedAndCommitted(t) == Committed([t EXCEPT !.checkpoints = Front(@)])

ClearLastCheckpoint(t) ==
    LET popped == [t EXCEPT !.checkpoints = Front(@)] IN
    IF popped.checkpoints = <<>> THEN Committed(popped) ELSE popped

RollbackToLastCheckpoint(t) ==
    LET c == Last(t.checkpoints)
        Since(list, n) == ToSet(SubSeq(list, n + 1, Len(list)))
        files == Since(t.files_after, c.files) IN
    [t EXCEPT
        !.symbols_by_name = Without(@, Since(t.symbols_after, c.symbols)),
        !.files_by_name = Without(@, files),
        !.extensions = Without(@, Since(t.extensions_after, c.extensions)),
        !.symbols_after = SubSeq(@, 1, c.symbols),
        !.files_after = SubSeq(@, 1, c.files),
        !.extensions_after = SubSeq(@, 1, c.extensions),
        !.uses = Without(@, files),
        !.checkpoints = Front(@)]

-----------------------------------------------------------------------------
(* The tables                                                              *)

Symbol(t, name) ==
    IF name \in DOMAIN t.symbols_by_name THEN t.symbols_by_name[name] ELSE kNullSymbol

Loaded(t, name) == name \in DOMAIN t.files_by_name

\* InsertIfNotPresent, and note the key for a rollback.
TableAddSymbol(t, name, symbol) ==
    IF name \in DOMAIN t.symbols_by_name THEN t
    ELSE [t EXCEPT !.symbols_by_name = Insert(@, name, symbol), !.symbols_after = Append(@, name)]

(* Slip: a file of the same name is replaced.                               *)
FileReplaced(t, name) == TRUE

\* Whether files_by_name_ takes a file of this name.
FileFits(t, name) == ~ Loaded(t, name)

TableAddFile(t, p) ==
    LET name == Protos[p].name IN
    [t EXCEPT !.files_by_name = (name :> p) @@ @, !.files_after = Append(@, name)]

TableAddExtension(t, key, field) ==
    IF key \in DOMAIN t.extensions THEN t
    ELSE [t EXCEPT !.extensions = Insert(@, key, field), !.extensions_after = Append(@, key)]

IsSubSymbolOfBuiltType(t, name) ==
    \E k \in 1 .. Len(name) - 1 : Symbol(t, SubSeq(name, 1, k)).type \notin {"null", PACKAGE}

-----------------------------------------------------------------------------
(* DescriptorBuilder.  b is the builder: the pool's tables t, the file      *)
(* proto, had_errors, dependencies_, the field numbers of the file's own    *)
(* tables, and the files it points into.                                    *)

RECURSIVE BuildFile(_, _), TryFindSymbolInFallbackDatabase(_, _)

AddError(b) == [b EXCEPT !.had_errors = TRUE]

AddSymbolTo(b, name, type) ==
    IF name \in DOMAIN b.t.symbols_by_name THEN AddError(b)
    ELSE [b EXCEPT !.t = TableAddSymbol(@, name, [type |-> type, file |-> b.proto, name |-> name])]

\* The package, then its parents until one is there; it must be a package.
AddPackage(b, package) ==
    LET lengths == [i \in 1 .. Len(package) |-> Len(package) + 1 - i]
        Step(x, n) ==
            LET name == SubSeq(package, 1, n)
                found == Symbol(x.b.t, name) IN
            CASE x.done -> x
              [] ~ x.done /\ found = kNullSymbol -> [x EXCEPT !.b = AddSymbolTo(@, name, PACKAGE)]
              [] OTHER -> [b |-> IF found.type = PACKAGE THEN x.b ELSE AddError(x.b), done |-> TRUE]
    IN FoldLeft(Step, [b |-> b, done |-> FALSE], lengths).b

\* IsInPackage
IsInPackage(p, package) == IsPrefix(package, Protos[p].package)

\* FindSymbolNotEnforcingDeps: the database is asked as well.
Sought(b, name) ==
    IF name \in DOMAIN b.t.symbols_by_name THEN b
    ELSE [b EXCEPT !.t = TryFindSymbolInFallbackDatabase(@, name).t]

\* What b may see of the symbol it has sought.
Visible(b, name) ==
    LET found == Symbol(b.t, name) IN
    IF \/ found = kNullSymbol
       \/ found.file \in b.dependencies \cup {b.proto}
       \/ found.type = PACKAGE /\ \E p \in b.dependencies \cup {b.proto} : IsInPackage(p, name)
    THEN found ELSE kNullSymbol

Seen(b, name) == [b |-> b, symbol |-> Visible(b, name)]
FindSymbol(b, name) == Seen(Sought(b, name), name)

IsAggregate(symbol) == symbol.type \in {MESSAGE, PACKAGE}
IsType(symbol) == symbol.type = MESSAGE

(* LookupSymbolNoPlaceholder: from the innermost scope outwards, the first  *)
(* part of the name decides; r is what was found of it in this scope.       *)
InScope(r, name, scope, types) ==
    CASE Len(name) > 1 /\ IsAggregate(r.symbol) -> FindSymbol(r.b, scope \o name) @@ [done |-> TRUE]
      [] Len(name) = 1 /\ r.symbol # kNullSymbol /\ (types => IsType(r.symbol)) -> r @@ [done |-> TRUE]
      [] OTHER -> [b |-> r.b, symbol |-> kNullSymbol, done |-> FALSE]

AtLast(x, name) == IF x.done THEN x ELSE FindSymbol(x.b, name)

LookupSymbol(b, reference, relative_to, types) ==
    LET name == reference.name
        scopes == IF reference.absolute THEN <<>>
                  ELSE [i \in 1 .. Len(relative_to) - 1 |->
                           SubSeq(relative_to, 1, Len(relative_to) - i)]
        Try(x, scope) ==
            IF x.done THEN x
            ELSE InScope(FindSymbol(x.b, Append(scope, Head(name))), name, scope, types) IN
    AtLast(FoldLeft(Try, [b |-> b, symbol |-> kNullSymbol, done |-> FALSE], scopes), name)

-----------------------------------------------------------------------------
(* CrossLinkField, for a field of message, or an extension.                *)

PointTo(b, symbol) == [b EXCEPT !.uses = @ \cup {symbol.file}]

LinkNumber(b, containing, field, extension) ==
    LET key == <<containing, field.number>>
        numbered == IF key \in b.numbers THEN AddError(b) ELSE [b EXCEPT !.numbers = @ \cup {key}] IN
    IF extension
    THEN [numbered EXCEPT !.t = TableAddExtension(@, key, [file |-> b.proto, name |-> field.name])]
    ELSE numbered

LinkType(r, message, field) ==
    IF r.symbol.type = MESSAGE
    THEN LinkNumber(PointTo(r.b, r.symbol), message, field, FALSE) ELSE AddError(r.b)

LinkField(b, message, field) ==
    IF field.type.name = <<>> THEN LinkNumber(b, message, field, FALSE)
    ELSE LinkType(LookupSymbol(b, field.type, Append(message, field.name), TRUE), message, field)

Extensible(symbol, number) ==
    \E m \in ToSet(Protos[symbol.file].messages) :
        Append(Protos[symbol.file].package, m.name) = symbol.name /\ number \in m.ranges

LinkExtendee(r, field) ==
    LET ranged == IF Extensible(r.symbol, field.number) THEN r.b ELSE AddError(r.b) IN
    IF r.symbol.type = MESSAGE
    THEN LinkNumber(PointTo(ranged, r.symbol), r.symbol.name, field, TRUE)
    ELSE AddError(r.b)

LinkExtension(b, field) ==
    LinkExtendee(LookupSymbol(b, field.extendee, Append(Protos[b.proto].package, field.name), FALSE),
                 field)

CrossLinkFile(b) ==
    LET file == Protos[b.proto]
        Message(x, m) ==
            LET Field(y, f) == LinkField(y, Append(file.package, m.name), f)
            IN FoldLeft(Field, x, m.fields)
    IN FoldLeft(LinkExtension, FoldLeft(Message, b, file.messages), file.extensions)

-----------------------------------------------------------------------------
(* BuildMessage, BuildFieldOrExtension: every symbol, the fields first.    *)

BuildMessage(b, m) ==
    LET full_name == Append(Protos[b.proto].package, m.name)
        Field(x, f) == AddSymbolTo(x, Append(full_name, f.name), FIELD)
        added == AddSymbolTo(FoldLeft(Field, b, m.fields), full_name, MESSAGE) IN
    IF \E f \in ToSet(m.fields) : f.number \in m.ranges THEN AddError(added) ELSE added

BuildExtension(b, e) == AddSymbolTo(b, Append(Protos[b.proto].package, e.name), FIELD)

\* RecordPublicDependencies
RECURSIVE Exported(_, _)
Exported(t, p) ==
    {p} \cup UNION {Exported(t, t.files_by_name[Protos[p].dependency[i]]) : i \in Protos[p].public}

\* Every import must have been loaded, and be listed once.
LinkDependencies(b) ==
    LET imports == Protos[b.proto].dependency
        found == {b.t.files_by_name[n] : n \in {m \in ToSet(imports) : Loaded(b.t, m)}}
        linked == [b EXCEPT !.dependencies = UNION {Exported(b.t, p) : p \in found},
                            !.uses = found] IN
    IF IsInjective(imports) /\ \A n \in ToSet(imports) : Loaded(b.t, n)
    THEN linked ELSE AddError(linked)

Builder(t, p) ==
    [t |-> t, proto |-> p, had_errors |-> FALSE, dependencies |-> {}, numbers |-> {}, uses |-> {}]

\* BuildFile between its checkpoint and its end.
Built(t, p) ==
    LET file == Protos[p]
        named == AddPackage(Builder(TableAddFile(t, p), p), file.package)
        filled == FoldLeft(BuildExtension,
                      FoldLeft(BuildMessage, LinkDependencies(named), file.messages),
                      file.extensions)
    IN CrossLinkFile(filled)

-----------------------------------------------------------------------------
(* TryFind...InFallbackDatabase and BuildFile: the tables, and success.    *)

NoteFailure(r, name) ==
    IF r.ok THEN r ELSE [t |-> [r.t EXCEPT !.known_bad_files = @ \cup {name}], ok |-> FALSE]

TryFindFileInFallbackDatabase(t, name) ==
    LET p == FileNamed(name)
        none == [t |-> t, ok |-> FALSE] IN
    IF ~ fallback \/ name \in t.known_bad_files THEN none
    ELSE NoteFailure(IF p = Nobody THEN none ELSE BuildFile(t, p), name)

\* A file that is loaded already does not have what is looked for.
TryFile(t, p) ==
    IF ~ fallback \/ p = Nobody \/ (p # Nobody /\ Loaded(t, Protos[p].name))
    THEN [t |-> t, ok |-> FALSE] ELSE BuildFile(t, p)

TryFindSymbolInFallbackDatabase(t, name) ==
    IF IsSubSymbolOfBuiltType(t, name) THEN [t |-> t, ok |-> FALSE]
    ELSE TryFile(t, FileDeclaring(name))

TryFindExtensionInFallbackDatabase(t, extendee, number) ==
    TryFile(t, FileExtending(extendee, number))

\* Comparing with CopyTo's output finds them equal when p is fully qualified.
Canonical(p) ==
    /\ \A m \in ToSet(Protos[p].messages) : \A f \in ToSet(m.fields) : f.type.absolute
    /\ \A e \in ToSet(Protos[p].extensions) : e.extendee.absolute

\* What p imports, loaded before the checkpoint, with p on the pending list.
LoadDependencies(t, p) ==
    LET Load(x, name) == IF Loaded(x, name) THEN x ELSE TryFindFileInFallbackDatabase(x, name).t
        pending == [t EXCEPT !.pending_files = Append(@, Protos[p].name)]
        loaded == FoldLeft(Load, pending, Protos[p].dependency)
    IN IF fallback THEN [loaded EXCEPT !.pending_files = Front(@)] ELSE t

Ended(b, name) ==
    IF b.had_errors THEN [t |-> RollbackToLastCheckpoint(b.t), ok |-> FALSE]
    ELSE [t |-> ClearLastCheckpoint([b.t EXCEPT !.uses = (name :> b.uses) @@ @]), ok |-> TRUE]

Attempt(t, p) ==
    LET name == Protos[p].name IN
    IF FileFits(t, name) THEN Ended(Built(t, p), name)
    ELSE [t |-> RollbackToLastCheckpoint(t), ok |-> FALSE]

BuildFile(t, p) ==
    LET name == Protos[p].name IN
    CASE Loaded(t, name) /\ t.files_by_name[name] = p /\ Canonical(p) -> [t |-> t, ok |-> TRUE]
      [] name \in ToSet(t.pending_files) -> [t |-> t, ok |-> FALSE]
      [] OTHER -> Attempt(AddCheckpoint(LoadDependencies(t, p)), p)

-----------------------------------------------------------------------------
(* The calls                                                               *)

AddToDatabase(p) == fallback /\ Add(p) /\ UNCHANGED <<fallback, tables>>

BuildAlone(p) ==
    /\ ~ fallback
    /\ tables' = BuildFile(tables, p).t
    /\ UNCHANGED <<index, fallback>>

FindFileByName(name) ==
    /\ ~ Loaded(tables, name)
    /\ Cardinality(tables.known_bad_files) < MaxBad
    /\ tables' = TryFindFileInFallbackDatabase(tables, name).t
    /\ UNCHANGED <<index, fallback>>

FindByNameHelper(name) ==
    /\ Symbol(tables, name) = kNullSymbol
    /\ tables' = TryFindSymbolInFallbackDatabase(tables, name).t
    /\ UNCHANGED <<index, fallback>>

FindExtensionByNumber(extendee, number) ==
    /\ Symbol(tables, extendee).type = MESSAGE
    /\ <<extendee, number>> \notin DOMAIN tables.extensions
    /\ tables' = TryFindExtensionInFallbackDatabase(tables, extendee, number).t
    /\ UNCHANGED <<index, fallback>>

\* Every extension of the database is loaded, once per message.
FindAllExtensions(extendee) ==
    LET Load(t, n) == IF <<extendee, n>> \in DOMAIN t.extensions THEN t
                      ELSE TryFindExtensionInFallbackDatabase(t, extendee, n).t
        numbers == FindAllExtensionNumbers(extendee) IN
    /\ fallback
    /\ Symbol(tables, extendee).type = MESSAGE
    /\ extendee \notin tables.extensions_loaded_from_db
    /\ numbers # {}
    /\ tables' = [FoldLeft(Load, tables, SetToSortSeq(numbers, <))
                      EXCEPT !.extensions_loaded_from_db = @ \cup {extendee}]
    /\ UNCHANGED <<index, fallback>>

FileNames == {Protos[p].name : p \in DOMAIN Protos} \cup
                 UNION {ToSet(Protos[p].dependency) : p \in DOMAIN Protos}

Declares(p) ==
    LET file == Protos[p]
        Full(m) == Append(file.package, m.name) IN
    {SubSeq(file.package, 1, n) : n \in 1 .. Len(file.package)}
      \cup UNION {{Full(m)} \cup {Append(Full(m), f.name) : f \in ToSet(m.fields)} : m \in ToSet(file.messages)}
      \cup {Full(e) : e \in ToSet(file.extensions)}

Names == UNION {Declares(p) : p \in DOMAIN Protos}
ExtensionNumbers == UNION {{e.number : e \in ToSet(Protos[p].extensions)} : p \in DOMAIN Protos}

Next ==
    \/ \E p \in Encoded : AddToDatabase(p)
    \/ \E p \in DOMAIN Protos : BuildAlone(p)
    \/ \E n \in FileNames : FindFileByName(n)
    \/ \E s \in Names : FindByNameHelper(s) \/ FindAllExtensions(s)
    \/ \E s \in Names, n \in ExtensionNumbers : FindExtensionByNumber(s, n)

Spec == Init /\ [][Next]_poolVars

-----------------------------------------------------------------------------
InPool == {tables.files_by_name[n] : n \in DOMAIN tables.files_by_name}

(* Between calls the tables hold the files that were built without an       *)
(* error, all that these declare, and nothing else: no symbol or extension  *)
(* of a file that was taken back, and no descriptor that points into one    *)
(* (RollbackToLastCheckpoint and ClearLastCheckpoint, descriptor.cc:586).   *)
AllOrNothing ==
    /\ tables.checkpoints = <<>> /\ tables.pending_files = <<>>
    /\ DOMAIN tables.symbols_by_name = UNION {Declares(p) : p \in InPool}
    /\ \A s \in DOMAIN tables.symbols_by_name :
        /\ tables.symbols_by_name[s].file \in InPool
        /\ s \in Declares(tables.symbols_by_name[s].file)
    /\ \A key \in DOMAIN tables.extensions : tables.extensions[key].file \in InPool
    /\ DOMAIN tables.uses = DOMAIN tables.files_by_name
    /\ \A n \in DOMAIN tables.uses : tables.uses[n] \subseteq InPool

(* A descriptor that was handed out stays: no later call, and no failure of *)
(* one, replaces or removes a file, a symbol or an extension of the pool    *)
(* (DescriptorPool::BuildFile and Find...By..., descriptor.cc:3029).        *)
KeepsDescriptors ==
    \A map \in {"files_by_name", "symbols_by_name", "extensions"} :
        \A key \in DOMAIN tables[map] :
            key \in DOMAIN tables'[map] /\ tables'[map][key] = tables[map][key]

DescriptorsStay == [][KeepsDescriptors]_poolVars
=============================================================================
