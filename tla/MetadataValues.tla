--------------------------- MODULE MetadataValues ---------------------------
(***************************************************************************)
(* A metadata value on its whole way: from the objects of a Python client  *)
(* through the native inputs of the C ABI into a value of the library,     *)
(* from there into the bytes of its row and back, and through the accessors*)
(* of the ABI to Python again.  A value is a record of its kind and what   *)
(* this kind holds; lists and structures hold values.  The library keeps   *)
(* numbers in a normal form; the objects of Python keep them as entered.   *)
(***************************************************************************)
EXTENDS Answers

LOCAL INSTANCE SequencesExt

CONSTANTS
    MaxNesting,    \* MAX_METADATA_NESTING_DEPTH: 32 in the code
    MaxScale,      \* MAX_METADATA_DECIMAL_SCALE: 1024
    Width          \* bits of an integer: 64, and 32 for a scale

ASSUME LimitsAssumption == /\ MaxNesting \in Nat \ {0} /\ MaxScale \in Nat
                           /\ Width \in Nat \ {0}

MetadataKinds == <<"string", "language string", "i64", "u64", "decimal", "bool", "timestamp",
                   "uri", "bytes", "rational", "list", "struct", "reference">>
Pairs == {"language string", "decimal", "rational"}

Unsigneds  == 0..(2 ^ Width - 1)
SignedMax  == 2 ^ (Width - 1) - 1
Signeds    == (-1 - SignedMax)..SignedMax
Magnitude(n) == IF n < 0 THEN -n ELSE n
-----------------------------------------------------------------------------
(* ctypes keeps the low bits of a number that its C type cannot hold,      *)
(* unnoticed.  The coefficient of a decimal is passed as text.             *)
AsUnsigned(n) == n % 2 ^ Width
AsSigned(n)   == AsUnsigned(n + SignedMax + 1) - SignedMax - 1
Cut(v) ==
    [v EXCEPT !.value = CASE v.kind \in {"i64", "timestamp"} -> AsSigned(@)
                          [] v.kind = "u64"      -> AsUnsigned(@)
                          [] v.kind = "decimal"  -> <<@[1], AsUnsigned(@[2])>>
                          [] v.kind = "rational" -> <<AsSigned(@[1]), AsUnsigned(@[2])>>
                          [] OTHER -> @]

(* DecimalValue::new drops the trailing zeros of the fraction,             *)
(* RationalValue::new reduces to lowest terms.  A divisor that no signed   *)
(* number holds is taken for that of the least numerator, though zero over *)
(* such a denominator has it too.                                          *)
RECURSIVE Decimal(_, _), Divisor(_, _), Entered(_), Depth(_)
Decimal(coefficient, scale) ==
    IF scale > 0 /\ coefficient % 10 = 0 THEN Decimal(coefficient \div 10, scale - 1)
    ELSE <<coefficient, scale>>

Divisor(n, m) == IF m = 0 THEN n ELSE Divisor(m, n % m)

(* Variant: only the numerator is divided.                                 *)
Rational_HalfReduced(numerator, denominator) ==
    <<numerator \div Divisor(Magnitude(numerator), denominator), denominator>>

Rational(numerator, denominator) ==
    LET divisor == Divisor(Magnitude(numerator), denominator) IN
    <<IF divisor <= SignedMax THEN numerator \div divisor ELSE -1, denominator \div divisor>>

Normal(v) ==
    [v EXCEPT !.value = CASE v.kind = "decimal"  -> Decimal(@[1], @[2])
                          [] v.kind = "rational" -> Rational(@[1], @[2])
                          [] OTHER -> @]

(* What the library makes of a value that a Python client passes.          *)
Entered(v) ==
    CASE v.kind = "list"   -> [v EXCEPT !.value = Each(LAMBDA x : Entered(x), @)]
      [] v.kind = "struct" -> [v EXCEPT !.value =
                                 Each(LAMBDA f : [name |-> f.name, value |-> Entered(f.value)], @)]
      [] OTHER -> Normal(Cut(v))

(* The constructors refuse a value nested too deeply, a coefficient of     *)
(* more than twice the width, a normal form with too great a scale, and a  *)
(* denominator of zero.                                                    *)
Deepest(depths) == CHOOSE d \in depths \cup {0} : \A e \in depths : e <= d
Depth(v) ==
    CASE v.kind = "list"   -> 1 + Deepest({Depth(x) : x \in ToSet(v.value)})
      [] v.kind = "struct" -> 1 + Deepest({Depth(f.value) : f \in ToSet(v.value)})
      [] OTHER -> 1
RECURSIVE Leaves(_)
Leaves(v) ==
    CASE v.kind = "list"   -> UNION {Leaves(x) : x \in ToSet(v.value)}
      [] v.kind = "struct" -> UNION {Leaves(f.value) : f \in ToSet(v.value)}
      [] OTHER -> {v}
Accepted(leaf) ==
    LET cut == Cut(leaf).value IN
    /\ leaf.kind = "decimal" =>
          /\ cut[1] \in (-(2 ^ (2 * Width - 1)))..(2 ^ (2 * Width - 1) - 1)
          /\ Decimal(cut[1], cut[2])[2] <= MaxScale
    /\ leaf.kind = "rational" => cut[2] # 0
Constructible(v) == Depth(v) <= MaxNesting /\ \A leaf \in Leaves(v) : Accepted(leaf)
-----------------------------------------------------------------------------
(* metadata_codec: a tag, then what the kind holds, collections after      *)
(* their length.                                                           *)
Tag(kind) == Code(MetadataKinds, kind) - 1

RECURSIVE Encode(_), Parse(_, _), ParseItems(_, _, _, _)
Encode(v) ==
    <<Tag(v.kind)>> \o
    CASE v.kind = "list"      -> <<Len(v.value)>> \o FlattenSeq(Each(LAMBDA x : Encode(x), v.value))
      [] v.kind = "struct"    -> <<Len(v.value)>>
                                   \o FlattenSeq(Each(LAMBDA f : <<f.name>> \o Encode(f.value), v.value))
      [] v.kind = "reference" -> <<TargetKind(v.value), Bytes(v.value)>>
      [] v.kind \in Pairs     -> v.value
      [] OTHER                -> <<v.value>>

(* A reader has what it has decoded and what is left; nesting beyond the   *)
(* limit is malformed.  Numbers go through their constructors again.       *)
Malformed == [ok |-> FALSE, value |-> <<>>, rest |-> <<>>]
Read(value, rest) == [ok |-> TRUE, value |-> value, rest |-> rest]
Drop(s, n) == SubSeq(s, n + 1, Len(s))

ParseItems(named, n, s, depth) ==
    IF n = 0 THEN Read(<<>>, s)
    ELSE LET item == Parse(IF named THEN Tail(s) ELSE s, depth)
             others == ParseItems(named, n - 1, item.rest, depth)
             first == IF named THEN [name |-> Head(s), value |-> item.value] ELSE item.value
         IN IF item.ok /\ others.ok THEN Read(<<first>> \o others.value, others.rest)
            ELSE Malformed

Parse(s, depth) ==
    LET kind == MetadataKinds[s[1] + 1]
        Value(x) == [kind |-> kind, value |-> x]
    IN IF depth > MaxNesting THEN Malformed
       ELSE CASE kind \in {"list", "struct"} ->
                   LET items == ParseItems(kind = "struct", s[2], Drop(s, 2), depth + 1)
                   IN IF items.ok THEN Read(Value(items.value), items.rest) ELSE Malformed
              [] kind = "reference" -> Read(Value(Target(s[2], s[3])), Drop(s, 3))
              [] kind \in Pairs     -> Read(Normal(Value(<<s[2], s[3]>>)), Drop(s, 3))
              [] OTHER              -> Read(Value(s[2]), Drop(s, 2))

Decode(s) ==
    LET parsed == Parse(s, 1) IN
    IF parsed.ok /\ parsed.rest = <<>> THEN parsed ELSE Malformed
-----------------------------------------------------------------------------
(* The values of the ABI: both strings are one variant, told apart by      *)
(* their language; the accessors of a client read the kind first.          *)
RECURSIVE AbiValue(_), PyValue(_), ValueTexts(_)
AbiValue(v) ==
    CASE v.kind = "string" -> [variant |-> "string", value |-> v.value, language |-> Null]
      [] v.kind = "language string" ->
            [variant |-> "string", value |-> v.value[1], language |-> v.value[2]]
      [] v.kind = "list"   -> [variant |-> "list", value |-> Each(LAMBDA x : AbiValue(x), v.value)]
      [] v.kind = "struct" -> [variant |-> "struct", value |->
            Each(LAMBDA f : [name |-> f.name, value |-> AbiValue(f.value)], v.value)]
      [] v.kind = "reference" -> [variant |-> "reference", value |-> AbiObject(v.value)]
      [] OTHER -> [variant |-> v.kind, value |-> v.value]

ValueKind(a) ==
    IF a.variant = "string" THEN (IF a.language = Null THEN 1 ELSE 2)
    ELSE Code(MetadataKinds, a.variant)

(* An accessor refuses a value of another variant.                         *)
OtherVariant == <<"InvalidArgument">>
As(variant, a)  == IF a.variant = variant THEN a.value ELSE OtherVariant
GetString(a)    == IF a.variant = "string" THEN <<a.value, a.language>> ELSE OtherVariant
GetLeaf(a, kind) == As(kind, a)
GetItems(a)     == As("list", a)
GetFields(a)    == As("struct", a)
GetReference(a) == As("reference", a)

PyValue(a) ==
    LET kind == MetadataKinds[ValueKind(a)] IN
    [kind |-> kind,
     value |-> CASE kind = "string" -> GetString(a)[1]
                 [] kind = "language string" -> GetString(a)
                 [] kind = "list"   -> Each(LAMBDA x : PyValue(x), GetItems(a))
                 [] kind = "struct" -> Each(LAMBDA f : [name |-> f.name, value |-> PyValue(f.value)],
                                            GetFields(a))
                 [] kind = "reference" -> PyObject(GetReference(a))
                 [] OTHER -> GetLeaf(a, kind)]

ValueTexts(v) ==
    CASE v.kind \in {"string", "uri"} -> {v.value}
      [] v.kind = "language string"   -> ToSet(v.value)
      [] v.kind = "list"   -> UNION {ValueTexts(x) : x \in ToSet(v.value)}
      [] v.kind = "struct" -> UNION {{f.name} \cup ValueTexts(f.value) : f \in ToSet(v.value)}
      [] OTHER -> {}
-----------------------------------------------------------------------------
(* The reference for numbers: the leaf that comes back stands for the one  *)
(* a client wrote.  A decimal or rational is the same number, in the only  *)
(* form of it that is normal; anything else is as it was written.  Nothing *)
(* is said of numbers outside the widths of their C types, nor of a zero   *)
(* over a denominator that no signed number holds.                         *)
Fits(leaf) ==
    CASE leaf.kind \in {"i64", "timestamp"} -> leaf.value \in Signeds
      [] leaf.kind = "u64"      -> leaf.value \in Unsigneds
      [] leaf.kind = "decimal"  -> leaf.value[2] \in Unsigneds
      [] leaf.kind = "rational" -> /\ leaf.value \in Signeds \X Unsigneds
                                   /\ ~(leaf.value[1] = 0 /\ leaf.value[2] > SignedMax)
      [] OTHER -> TRUE

StandsFor(x, leaf) ==
    LET X == x.value  L == leaf.value IN
    CASE leaf.kind = "decimal"  -> /\ X[1] * 10 ^ L[2] = L[1] * 10 ^ X[2]
                                   /\ X[2] > 0 => X[1] % 10 # 0
      [] leaf.kind = "rational" -> /\ X[1] * L[2] = L[1] * X[2]
                                   /\ X[2] > 0
                                   /\ \A d \in 2..X[2] : X[2] % d # 0 \/ X[1] % d # 0
      [] OTHER -> X = L

RECURSIVE Tells(_, _)
Tells(x, v) ==
    /\ x.kind = v.kind
    /\ CASE v.kind = "list" -> /\ Len(x.value) = Len(v.value)
                               /\ \A i \in DOMAIN v.value : Tells(x.value[i], v.value[i])
         [] v.kind = "struct" ->
               /\ Len(x.value) = Len(v.value)
               /\ \A i \in DOMAIN v.value : /\ x.value[i].name = v.value[i].name
                                            /\ Tells(x.value[i].value, v.value[i].value)
         [] OTHER -> Fits(v) => StandsFor(x, v)
=============================================================================
