------------------------------ MODULE WireData ------------------------------
(***************************************************************************)
(* Encoded data, as the wire format reads and writes it                     *)
(* (wire_format_lite.h, wire_format.cc, unknown_field_set.cc).              *)
(*                                                                          *)
(* Data is a sequence of atoms.  An atom is a field with its tag (number n, *)
(* wire type w) and its value: i for a varint or a fixed64, s for what a    *)
(* length-delimited field or a group holds, itself a sequence of atoms,     *)
(* and len for the length written before a length-delimited value.  A raw   *)
(* atom has no tag: it is one value of a string or of a packed field.       *)
(***************************************************************************)
EXTENDS Integers, Sequences, SequencesExt

Atom(n, w, i, s, len) == [n |-> n, w |-> w, i |-> i, s |-> s, len |-> len]
Varint(n, i) == Atom(n, "varint", i, <<>>, 0)
Fixed64(n, i) == Atom(n, "fixed64", i, <<>>, 0)
Delimited(n, s, len) == Atom(n, "delimited", 0, s, len)
Group(n, s) == Atom(n, "group", 0, s, 0)
EndGroup(n) == Atom(n, "endgroup", 0, <<>>, 0)
Raw(i) == Atom(0, "raw", i, <<>>, 0)

(* VarintSize32, VarintSize32SignExtended: a negative int takes the ten     *)
(* bytes of its 64 bits.  Values here are below 2^21.                       *)
VarintSize(i) ==
    IF i < 0 THEN 10 ELSE IF i < 128 THEN 1 ELSE IF i < 16384 THEN 2 ELSE 3

TagSize(n) == VarintSize(8 * n)

RECURSIVE Size(_)

(* ComputeUnknownFieldsSize, of any atom.                                   *)
AtomSize(a) ==
    CASE a.w = "raw" -> VarintSize(a.i)
      [] a.w = "varint" -> TagSize(a.n) + VarintSize(a.i)
      [] a.w = "fixed64" -> TagSize(a.n) + 8
      [] a.w = "delimited" -> TagSize(a.n) + VarintSize(a.len) + Size(a.s)
      [] a.w = "group" -> 2 * TagSize(a.n) + Size(a.s)
      [] a.w = "endgroup" -> TagSize(a.n)

Size(data) == FoldLeft(LAMBDA sum, a : sum + AtomSize(a), 0, data)

RECURSIVE Framed(_)

(* Every length written is the length of what follows it.                   *)
Framed(data) ==
    \A k \in 1 .. Len(data) :
        /\ data[k].w = "delimited" => data[k].len = Size(data[k].s)
        /\ Framed(data[k].s)

(* SkipField and SkipMessage: the field as it is kept among the unknown     *)
(* ones, and whether the skip succeeds.  A group is skipped up to its end   *)
(* tag, which must carry its number; the recursion limit counts groups.     *)
RECURSIVE Skippable(_, _)
Skippable(a, depth) ==
    /\ a.w # "endgroup"
    /\ a.w = "group" => depth > 0 /\ \A k \in 1 .. Len(a.s) : Skippable(a.s[k], depth - 1)
=============================================================================
