------------------------------ MODULE Protobuf ------------------------------
(***************************************************************************)
(* The wire format as the generated *_vtproto.pb.go files read and write   *)
(* it.  A generated method is one loop or one list of fields; the lists    *)
(* are data of the modules ProfileWire, CommonWire and the like, in the    *)
(* order of the code, and this module says what the code does with a row:  *)
(*                                                                         *)
(*   MarshalToSizedBufferVT   <<tag, kind, field>>                         *)
(*   SizeVT                   <<kind, field>>                              *)
(*   UnmarshalVT              <<case, kind, field>>                        *)
(*                                                                         *)
(* with the list of the nested message behind rows about messages.  A      *)
(* message is a function from its fields; strings, bytes and repeated      *)
(* fields are sequences, a pointer to a message is a sequence of length 0  *)
(* (nil) or 1, a map is a function, a double is its eight bytes.  A byte   *)
(* is a number below 256.                                                  *)
(***************************************************************************)
EXTENDS Integers, Sequences, SequencesExt, FiniteSetsExt, TLC

CONSTANT WordBits  \* the width of int and uint64, 64 in the code

ASSUME WordAssumption == WordBits \in {8 * k : k \in 1..8}

Uint(v) == v % 2^WordBits
Signed(v, bits) == ((v + 2^(bits - 1)) % 2^bits) - 2^(bits - 1)
Int64(v) == Signed(v, WordBits)
Int32(v) == Signed(v, WordBits \div 2)

nilMessage == <<>>
Error == <<>>

-----------------------------------------------------------------------------
(* Varints *)

\* Bytes of v, the lowest seven bits first.
encodeVarint(v) ==
    LET groups == {k \in 0..((WordBits - 1) \div 7) : k = 0 \/ v >= 2^(7 * k)}
    IN [k \in 1..Cardinality(groups) |->
           ((v \div 2^(7 * (k - 1))) % 128) + (IF k < Cardinality(groups) THEN 128 ELSE 0)]

\* The bits of v | 1 in groups of seven, rounded up.
sovNoOne(v) ==
    LET Len64(x) == Min({k \in 0..WordBits : x < 2^k})
    IN (Len64(v) + 6) \div 7

sov(v) ==
    LET Len64(x) == Min({k \in 0..WordBits : x < 2^k})
    IN (Len64(Max({v, 1})) + 6) \div 7

\* The loop that reads a varint at index i: its value and the next index,
\* which is -1 for ErrIntOverflow and ErrUnexpectedEOF.
RECURSIVE varintFrom(_, _, _, _)
varintNoEOF(d, i, shift, v) ==
    IF shift >= WordBits THEN [v |-> v, i |-> -1]
    ELSE IF i >= Len(d) THEN [v |-> v, i |-> i]
    ELSE LET b == d[i + 1]
             w == Uint(v + (b % 128) * 2^shift)
         IN IF b < 128 THEN [v |-> w, i |-> i + 1] ELSE varintFrom(d, i + 1, shift + 7, w)

varintFrom(d, i, shift, v) ==
    IF shift >= WordBits \/ i >= Len(d) THEN [v |-> v, i |-> -1]
    ELSE LET b == d[i + 1]
             w == Uint(v + (b % 128) * 2^shift)
         IN IF b < 128 THEN [v |-> w, i |-> i + 1] ELSE varintFrom(d, i + 1, shift + 7, w)

readVarint(d, i) == varintFrom(d, i, 0, 0)

\* The length in front of a string, a message or a packed field: the index
\* where its content starts, and the one behind it.
delimits(d, r, post) ==
    IF r.i < 0 \/ Int64(r.v) < 0 \/ post < 0 \/ post > Len(d)
    THEN [i |-> -1, post |-> -1] ELSE [i |-> r.i, post |-> post]

lengthOf(d, r) == delimits(d, r, Int64(r.i + Int64(r.v)))

lengthAt(d, i) == lengthOf(d, readVarint(d, i))

content(d, r) == SubSeq(d, r.i + 1, r.post)

-----------------------------------------------------------------------------
(* Writing *)

\* A double is zero when all bits but the sign are.
isZero(bits) == \A k \in 1..8 : bits[k] = 0 \/ (k = 8 /\ bits[k] = 128)

delimited(tag, b) == <<tag>> \o encodeVarint(Len(b)) \o b

RECURSIVE MarshalToSizedBufferVT(_, _)
\* What one field adds in front of what is already written.
written(row, m) ==
    LET tag == row[1]
        x == m[row[3]]
        concat(f(_)) == FlattenSeq([k \in DOMAIN x |-> f(x[k])])
    IN CASE row[2] = "varint" -> IF x = 0 THEN <<>> ELSE <<tag>> \o encodeVarint(Uint(x))
         [] row[2] = "bool" -> IF x THEN <<tag, 1>> ELSE <<>>
         [] row[2] = "fixed64" -> IF isZero(x) THEN <<>> ELSE <<tag>> \o x
         [] row[2] = "bytes" -> IF x = <<>> THEN <<>> ELSE delimited(tag, x)
         [] row[2] = "strings" -> concat(LAMBDA e : delimited(tag, e))
         [] row[2] = "packed" ->
              IF x = <<>> THEN <<>> ELSE delimited(tag, concat(LAMBDA e : encodeVarint(Uint(e))))
         [] row[2] = "bools" ->
              IF x = <<>> THEN <<>> ELSE delimited(tag, concat(LAMBDA e : <<IF e THEN 1 ELSE 0>>))
         [] row[2] \in {"message", "messages"} ->
              concat(LAMBDA e : delimited(tag, MarshalToSizedBufferVT(row[4], e)))
         [] row[2] = "map" ->
              LET entry(k) == delimited(10, k) \o delimited(18, x[k])
              IN FoldLeft(LAMBDA out, k : delimited(tag, entry(k)) \o out, <<>>, SetToSeq(DOMAIN x))

\* The buffer is filled from its end: the unknown fields, then the fields of
\* the list one in front of the other.
MarshalToSizedBufferVT(rows, m) ==
    FoldLeft(LAMBDA out, row : written(row, m) \o out, m.unknownFields, rows)

\* What SizeVT adds for one field.
RECURSIVE SizeVT(_, _)
sized(row, m) ==
    LET x == m[row[2]]
        lengths(l(_)) == SumFunction([k \in DOMAIN x |-> 1 + l(x[k]) + sov(l(x[k]))])
    IN CASE row[1] = "varint" -> IF x = 0 THEN 0 ELSE 1 + sov(Uint(x))
         [] row[1] = "bool" -> IF x THEN 2 ELSE 0
         [] row[1] = "fixed64" -> IF isZero(x) THEN 0 ELSE 9
         [] row[1] = "bytes" -> IF x = <<>> THEN 0 ELSE 1 + Len(x) + sov(Len(x))
         [] row[1] = "strings" -> lengths(Len)
         [] row[1] = "packed" ->
              LET l == SumFunction([k \in DOMAIN x |-> sov(Uint(x[k]))])
              IN IF x = <<>> THEN 0 ELSE 1 + sov(l) + l
         [] row[1] = "bools" -> IF x = <<>> THEN 0 ELSE 1 + sov(Len(x)) + Len(x)
         [] row[1] \in {"message", "messages"} -> lengths(LAMBDA e : SizeVT(row[3], e))
         [] row[1] = "map" ->
              LET entry(k) == 1 + Len(k) + sov(Len(k)) + 1 + Len(x[k]) + sov(Len(x[k]))
              IN MapThenSumSet(LAMBDA k : entry(k) + 1 + sov(entry(k)), DOMAIN x)

SizeVT(rows, m) ==
    FoldLeft(LAMBDA n, row : n + sized(row, m), Len(m.unknownFields), rows)

\* MarshalVT allocates SizeVT bytes and returns the first as many as were
\* written, from the end; writing in front of the buffer panics.
Panic == <<256>>

inBuffer(size, w) ==
    IF Len(w) > size THEN Panic
    ELSE SubSeq([k \in 1..(size - Len(w)) |-> 0] \o w, 1, Len(w))

MarshalVT(codec, m) ==
    inBuffer(SizeVT(codec.size, m), MarshalToSizedBufferVT(codec.marshal, m))

-----------------------------------------------------------------------------
(* Reading *)

\* skip returns the length of the field in front, its tag included and a
\* group up to its end, or -1 for an error.
RECURSIVE skipFrom(_, _, _)

\* The index behind the field with the tag wire, or behind the tag of a group.
behind(d, wire, wireType, depth) ==
    CASE wire.i < 0 \/ wireType \in {6, 7} \/ (wireType = 4 /\ depth = 0) -> -1
      [] wireType = 0 -> readVarint(d, wire.i).i
      [] wireType = 1 -> wire.i + 8
      [] wireType = 2 -> LET r == readVarint(d, wire.i)
                         IN IF r.i < 0 \/ Int64(r.v) < 0 THEN -1 ELSE Int64(r.i + Int64(r.v))
      [] wireType \in {3, 4} -> wire.i
      [] wireType = 5 -> wire.i + 4

groupDepth(depth, wireType) ==
    CASE wireType = 3 -> depth + 1 [] wireType = 4 -> depth - 1 [] OTHER -> depth

skipTo(d, next, depth) ==
    IF next < 0 THEN -1 ELSE IF depth = 0 THEN next ELSE skipFrom(d, next, depth)

skipTag(d, wire, depth) ==
    skipTo(d, behind(d, wire, wire.v % 8, depth), groupDepth(depth, wire.v % 8))

skipFrom(d, iNdEx, depth) ==
    IF iNdEx >= Len(d) THEN -1 ELSE skipTag(d, readVarint(d, iNdEx), depth)

skip(d) == skipFrom(d, 0, 0)

\* The zero value of a message, from the cases of its UnmarshalVT.
zeroOf(kind) ==
    CASE kind \in {"int64", "uint64", "int32"} -> 0
      [] kind = "bool" -> FALSE
      [] kind = "double" -> [k \in 1..8 |-> 0]
      [] OTHER -> <<>>

Zero(cases) ==
    LET names(kinds) == {cases[k][3] : k \in {j \in DOMAIN cases : cases[j][2] \in kinds}}
        spare == [name \in names({"elements"}) |-> <<>>]
        fields == FoldLeft(LAMBDA m, row : (row[3] :> zeroOf(row[2])) @@ m,
                           ("unknownFields" :> <<>>), cases)
    IN IF DOMAIN spare = {} THEN fields ELSE ("spare" :> spare) @@ fields

\* m.X |= int64(b&0x7F) << shift, and the same with the other types.
converted(kind, v) ==
    CASE kind \in {"int64", "int64s"} -> Int64(v)
      [] kind \in {"uint64", "uint64s"} -> v
      [] kind \in {"int32", "int32s"} -> Int32(v)
      [] kind \in {"bool", "bools"} -> v # 0

\* The elements of a packed field.  The loop ends at post, but a varint is
\* read up to the end of the whole input.
RECURSIVE unpack(_, _, _, _, _)
unpacked(kind, d, r, post, xs) ==
    IF r.i < 0 THEN [x |-> xs, i |-> -1]
    ELSE unpack(kind, d, r.i, post, Append(xs, converted(kind, r.v)))

unpack(kind, d, i, post, xs) ==
    IF i >= post THEN [x |-> xs, i |-> i]
    ELSE unpacked(kind, d, readVarint(d, i), post, xs)

\* The entry of a map between i and post, field 1 the key and field 2 the value.
RECURSIVE mapEntry(_, _, _, _)
mapField(d, i, post, kv, num, r, s) ==
    IF num \in {1, 2}
    THEN IF r.i < 0 THEN [x |-> kv, i |-> -1]
         ELSE mapEntry(d, r.post, post, [kv EXCEPT ![num] = content(d, r)])
    ELSE IF s < 0 \/ i + s > post THEN [x |-> kv, i |-> -1]
    ELSE mapEntry(d, i + s, post, kv)

mapTag(d, i, post, kv, wire) ==
    IF wire.i < 0 THEN [x |-> kv, i |-> -1]
    ELSE mapField(d, i, post, kv, Int32(wire.v \div 8), lengthAt(d, wire.i),
                  skip(SubSeq(d, i + 1, Len(d))))

mapEntry(d, i, post, kv) ==
    IF i >= post THEN [x |-> kv, i |-> i] ELSE mapTag(d, i, post, kv, readVarint(d, i))

wireTypesOf(kind) ==
    CASE kind \in {"int64", "uint64", "int32", "bool"} -> {0}
      [] kind = "double" -> {1}
      [] kind \in {"int64s", "uint64s", "int32s", "bools"} -> {0, 2}
      [] OTHER -> {2}

RECURSIVE fieldsFrom(_, _, _, _)

\* UnmarshalVT reads into m: a field that comes again is overwritten or
\* appended to, and one that does not come keeps what m had.  The result is
\* Error, or m in a sequence of its own.
UnmarshalVT(cases, m, d) == fieldsFrom(cases, m, d, 0)

\* The element behind the last one of a slice: a field of kind "elements"
\* takes up an object left in the capacity of the slice (m.spare) as it is.
nextElement(row, m) ==
    IF row[2] = "elements" /\ m.spare[row[3]] # <<>>
    THEN Head(m.spare[row[3]]) ELSE Zero(row[4])

afterElement(row, m, e) ==
    LET with == [m EXCEPT ![row[3]] = Append(@, e)]
    IN IF row[2] = "elements" /\ m.spare[row[3]] # <<>>
       THEN [with EXCEPT !.spare[row[3]] = Tail(@)] ELSE with

\* One case of the switch: m with the field at index i, and the next index.
\* There v is the number and r the length, if the field has one.
failed == [m |-> <<>>, i |-> -1]

assigned(m, name, x, next) == [m |-> [m EXCEPT ![name] = x], i |-> next]

fieldMessage(row, m, e, next) ==
    CASE e = Error -> failed
      [] row[2] = "message" -> assigned(m, row[3], e, next)
      [] OTHER -> [m |-> afterElement(row, m, e[1]), i |-> next]

fieldEntry(name, m, e, next) ==
    IF e.i < 0 THEN failed ELSE assigned(m, name, (e.x[1] :> e.x[2]) @@ m[name], next)

fieldPacked(name, m, u) == assigned(m, name, u.x, u.i)

messageOf(row, m) ==
    IF row[2] # "message" THEN nextElement(row, m)
    ELSE IF m[row[3]] = nilMessage THEN Zero(row[4]) ELSE m[row[3]][1]

field(row, wireType, m, d, i, v, r) ==
    LET kind == row[2]
        name == row[3]
    IN CASE wireType \notin wireTypesOf(kind) -> failed
         [] wireType = 0 /\ v.i < 0 -> failed
         [] wireType = 2 /\ r.i < 0 -> failed
         [] kind \in {"int64", "uint64", "int32", "bool"} ->
              assigned(m, name, converted(kind, v.v), v.i)
         [] kind = "double" ->
              IF i + 8 > Len(d) THEN failed ELSE assigned(m, name, SubSeq(d, i + 1, i + 8), i + 8)
         [] kind \in {"string", "bytes"} -> assigned(m, name, content(d, r), r.post)
         [] kind = "strings" -> assigned(m, name, Append(m[name], content(d, r)), r.post)
         [] kind \in {"int64s", "uint64s", "int32s", "bools"} ->
              IF wireType = 0 THEN assigned(m, name, Append(m[name], converted(kind, v.v)), v.i)
              ELSE fieldPacked(name, m, unpack(kind, d, r.i, r.post, m[name]))
         [] kind \in {"message", "messages", "elements"} ->
              fieldMessage(row, m, UnmarshalVT(row[4], messageOf(row, m), content(d, r)), r.post)
         [] kind = "map" -> fieldEntry(name, m, mapEntry(d, r.i, r.post, <<<<>>, <<>>>>), r.post)

\* A field that is not in the switch is kept as it came.
lastUnknown(m, d, i, s) ==
    IF s < 0 \/ i + s > Len(d) THEN failed
    ELSE [m |-> [m EXCEPT !.unknownFields = SubSeq(d, i + 1, i + s)], i |-> i + s]

unknown(m, d, i, s) ==
    IF s < 0 \/ i + s > Len(d) THEN failed
    ELSE [m |-> [m EXCEPT !.unknownFields = @ \o SubSeq(d, i + 1, i + s)], i |-> i + s]

\* The loop over the fields.
fieldWith(cases, m, d, i, wire) ==
    LET num == Int32(wire.v \div 8)
        known == {k \in DOMAIN cases : cases[k][1] = num}
    IN CASE wire.i < 0 \/ wire.v % 8 = 4 \/ num <= 0 -> failed
         [] known # {} -> field(cases[CHOOSE k \in known : TRUE], wire.v % 8, m, d, wire.i,
                                readVarint(d, wire.i), lengthAt(d, wire.i))
         [] OTHER -> unknown(m, d, i, skip(SubSeq(d, i + 1, Len(d))))

afterField(cases, f, d) == IF f.i < 0 THEN Error ELSE fieldsFrom(cases, f.m, d, f.i)

fieldsFrom(cases, m, d, i) ==
    CASE i > Len(d) -> Error
      [] i = Len(d) -> <<m>>
      [] OTHER -> afterField(cases, fieldWith(cases, m, d, i, readVarint(d, i)), d)
=============================================================================
