-------------------------- MODULE ExtensionValues --------------------------
(***************************************************************************)
(* What an ExtensionSet promises: for every extension number a sequence of  *)
(* values, of at most one value when the extension is not repeated, and     *)
(* what each call does to it.  call is the last one: its name, the set and  *)
(* the number, or the other set.                                            *)
(***************************************************************************)
EXTENDS Integers, Sequences, SequencesExt

CONSTANTS
    Sets,
    Registry,   \* number -> [type, repeated, packed]
    Values,     \* what an extension may hold
    Empty       \* the empty string or message

VARIABLES vals, call

Numbers == DOMAIN Registry
Nothing == [n \in Numbers |-> <<>>]

Init == vals = [s \in Sets |-> Nothing] /\ call = <<>>

Becomes(s, n, seq) == vals' = [vals EXCEPT ![s][n] = seq]

Repeated(n) == Registry[n].repeated

Given(n, old, v) == IF Repeated(n) THEN Append(old, v) ELSE <<v>>

\* A message is merged field by field, anything else replaced.
Merged(n, old, new) ==
    CASE Repeated(n) -> old \o new
      [] ~ Repeated(n) /\ new = <<>> -> old
      [] ~ Repeated(n) /\ new = <<Empty>> /\ Registry[n].type = "message" /\ old # <<>> -> old
      [] OTHER -> new

OnNumber(s, n) ==
    LET old == vals[s][n]
    IN  \/ call' = <<"set", s, n>> /\ \E v \in Values : Becomes(s, n, Given(n, old, v))
        \/ call' = <<"mutable", s, n>> /\ Becomes(s, n, IF old = <<>> THEN <<Empty>> ELSE old)
        \/ call' \in {<<"clear", s, n>>, <<"release", s, n>>} /\ Becomes(s, n, <<>>)
        \/ call' = <<"remove", s, n>> /\ Becomes(s, n, SubSeq(old, 1, Len(old) - 1))
        \/ /\ call' = <<"exchange", s, n>>
           /\ \E i, j \in DOMAIN old : i # j /\ Becomes(s, n, [old EXCEPT ![i] = old[j], ![j] = old[i]])
        \/ /\ call' = <<"parse", s, n>>
           /\ \/ \E v \in Values :
                    Becomes(s, n, IF Repeated(n) THEN Append(old, v) ELSE Merged(n, old, <<v>>))
              \/ Repeated(n) /\ \E v, w \in Values : Becomes(s, n, old \o <<v, w>>)
              \/ UNCHANGED vals

OnSets(s, t) ==
    \/ /\ call' = <<"merge", s, t>>
       /\ vals' = [vals EXCEPT ![s] = [n \in Numbers |-> Merged(n, vals[s][n], vals[t][n])]]
    \/ call' = <<"swap", s, t>> /\ vals' = [vals EXCEPT ![s] = vals[t], ![t] = vals[s]]

Step ==
    \/ \E s \in Sets, n \in Numbers : OnNumber(s, n)
    \/ \E s, t \in Sets : OnSets(s, t)
    \/ \E s \in Sets : call' = <<"empty", s>> /\ vals' = [vals EXCEPT ![s] = Nothing]
    \/ call' = <<"other">> /\ UNCHANGED vals

Spec == Init /\ [][Step]_<<vals, call>>
=============================================================================
