----------------------------- MODULE Projection -----------------------------
(***************************************************************************)
(* What the C ABI can carry, and what the Python binding makes of it: an   *)
(* identity loses its type and becomes sixteen bytes, an absent text is a  *)
(* NULL pointer, an absent number is a flag beside a zero, an enumeration  *)
(* is a code, and a text that holds NUL cannot be carried at all.          *)
(***************************************************************************)
EXTENDS Naturals, Sequences

CONSTANT Null      \* an absent value: None, NULL

(* Identities are typed in Rust and in Python; the bytes of the absent one *)
(* are zero.                                                               *)
Id(type, bytes) == <<type, bytes>>
Bytes(id)       == id[2]
OptBytes(id)    == IF id = Null THEN 0 ELSE Bytes(id)

(* exact_cstring refuses a text with NUL, whatever set it is found in.     *)
Nul == "text with NUL"
Exact(texts) == Nul \notin texts

(* An optional number beside its has_ flag.                                *)
Flag(x)        == IF x = Null THEN 0 ELSE 1
OrZero(x)      == IF x = Null THEN 0 ELSE x
Given(flag, x) == IF flag = 0 THEN Null ELSE x

(* Enumerations: the position in the sequence of their names.              *)
Code(names, x) == CHOOSE c \in DOMAIN names : names[c] = x

Kinds == <<"original", "proxy", "optimized", "derived">>   \* representations

(* References to objects carry their type as a code, 1.. in the ABI and    *)
(* 0.. in the tables; kind 0 of the ABI is no reference.                   *)
Objects == <<"production", "asset", "representation", "resource", "activity", "job">>
NoObject     == [kind |-> 0, id |-> 0]

AbiObject(o) == [kind |-> Code(Objects, o[1]), id |-> Bytes(o)]
PyObject(v)  == Id(Objects[v.kind], v.id)

TargetKind(o)         == Code(Objects, o[1]) - 1
Target(kind, bytes)   == Id(Objects[kind + 1], bytes)

(* Every element of a result set, in order.                                *)
Each(Convert(_), rows) == [i \in DOMAIN rows |-> Convert(rows[i])]
=============================================================================
