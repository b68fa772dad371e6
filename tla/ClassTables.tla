---------------------------- MODULE ClassTables -----------------------------
(***************************************************************************)
(* The vocabulary of the tables that stand for the C++ classes protoc        *)
(* generated.  One class is written out six times over in its generated     *)
(* code (accessors, Clear, the parser, two writers, ByteSize, MergeFrom,    *)
(* IsInitialized, Swap, the reflection offsets), and nothing in the build   *)
(* compares the copies: each table is read off one of them, field by field, *)
(* and GeneratedMessage gives them their meaning.                           *)
(***************************************************************************)
EXTENDS Integers

(* A field as the class declares it.                                        *)
Field(label, number, type) == [label |-> label, number |-> number, type |-> type]
Optional(number, type) == Field("optional", number, type)
Required(number, type) == Field("required", number, type)
Repeated(number, type) == Field("repeated", number, type)
Packed(number, type) == Field("packed", number, type)

(* A step of Clear, ByteSize or MergeFrom: for the fields of one group of   *)
(* eight has bits, run when any of the eight is set; for repeated fields,   *)
(* always; for the extensions; for the unknown fields.                      *)
At(group, fields) == [kind |-> "group", group |-> group, fields |-> fields]
Always(fields) == [kind |-> "always", group |-> 0, fields |-> fields]
Extensions == [kind |-> "extensions", group |-> 0, fields |-> {}]
Unknown == [kind |-> "unknown", group |-> 0, fields |-> {}]

(* A case of the parser's switch; Either also takes the packed form.        *)
Reads(number, field, type) ==
    [number |-> number, field |-> field, type |-> type, packed |-> FALSE]
Either(number, field, type) ==
    [number |-> number, field |-> field, type |-> type, packed |-> TRUE]

Class(fields, hasBits, new, clear, parse, write, writeArray, size, merge, init, swap, offsets, extend) ==
    [fields |-> fields, hasBits |-> hasBits, new |-> new, clear |-> clear, parse |-> parse,
     write |-> write, writeArray |-> writeArray, size |-> size, merge |-> merge,
     init |-> init, swap |-> swap, offsets |-> offsets, extend |-> extend]
=============================================================================
