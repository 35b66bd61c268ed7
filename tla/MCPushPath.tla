----------------------------- MODULE MCPushPath -----------------------------
(***************************************************************************)
(* Messages of every generated type, and profiles with a few samples over  *)
(* three locations, for PushPath.                                          *)
(***************************************************************************)
EXTENDS PushPath

CONSTANT FirstPush  \* the push that can be about every profile

Common == INSTANCE CommonWire
PushV1 == INSTANCE PushWire
Ingester == INSTANCE IngesterWire
Querier == INSTANCE QuerierWire
AgentV1 == INSTANCE AgentWire

MCCodecs ==
    {ProfileCodecs, Common!CommonCodecs, PushV1!PushCodecs, Ingester!IngesterCodecs,
     Querier!QuerierCodecs, AgentV1!AgentCodecs}

-----------------------------------------------------------------------------
(* Messages.  Values of every kind, the edges of the encoding among them:  *)
(* one and two bytes of varint, the largest and the smallest numbers, the  *)
(* empty string in a list, a string whose length has two bytes.            *)

Long == [k \in 1..130 |-> k]

RECURSIVE Full(_)

Values(row) ==
    CASE row[2] = "int64" -> {1, -1, 127, 128, 2^15 - 1, -(2^15)}
      [] row[2] = "uint64" -> {1, 127, 128, 2^16 - 1}
      [] row[2] = "int32" -> {1, -1, 127, -128}
      [] row[2] = "bool" -> {TRUE}
      [] row[2] = "double" -> {<<0, 0, 0, 0, 0, 0, 240, 63>>, <<1, 0, 0, 0, 0, 0, 0, 128>>}
      [] row[2] \in {"string", "bytes"} -> {<<1>>, <<200, 0>>, Long}
      [] row[2] = "strings" -> {<<<<>>>>, <<<<1>>, <<>>, <<2>>>>}
      [] row[2] = "int64s" -> {<<0>>, <<1, -1, 128>>}
      [] row[2] = "uint64s" -> {<<0>>, <<1, 2^16 - 1>>}
      [] row[2] = "int32s" -> {<<0>>, <<1, -1, 127>>}
      [] row[2] = "bools" -> {<<FALSE>>, <<TRUE, FALSE>>}
      [] row[2] = "message" -> {<<Zero(row[4])>>, <<Full(row[4])>>}
      [] row[2] \in {"messages", "elements"} ->
           {<<Zero(row[4])>>, <<Full(row[4]), Zero(row[4]), Full(row[4])>>}
      [] row[2] = "map" -> {<<>> :> <<>>, (<<1>> :> <<2>>) @@ (<<2>> :> <<>>)}

\* One value of a kind, for messages with all fields set.
Typical(row) ==
    CASE row[2] \in {"int64", "uint64", "int32"} -> 3
      [] row[2] \in {"string", "bytes"} -> <<1, 2>>
      [] row[2] = "double" -> <<0, 0, 0, 0, 0, 0, 240, 63>>
      [] row[2] = "message" -> <<Full(row[4])>>
      [] row[2] \in {"messages", "elements"} -> <<Full(row[4])>>
      [] OTHER -> CHOOSE v \in Values(row) : v # zeroOf(row[2])

Full(cases) ==
    FoldLeft(LAMBDA m, row : [m EXCEPT ![row[3]] = Typical(row)], Zero(cases), cases)

\* Field 15, which no message has, of every wire type: a number, eight bytes, a string, a
\* group with a number in it, four bytes.
Unknown ==
    {<<120, 128, 1>>, <<121, 1, 2, 3, 4, 5, 6, 7, 8>>, <<122, 1, 7>>,
     <<123, 8, 1, 124>>, <<125, 1, 2, 3, 4>>}

MCMessages(cases) ==
    {Zero(cases), Full(cases)}
    \cup {[Full(cases) EXCEPT !.unknownFields = u] : u \in Unknown}
    \cup UNION {{[Zero(cases) EXCEPT ![cases[k][3]] = v] : v \in Values(cases[k])} :
                   k \in DOMAIN cases}

-----------------------------------------------------------------------------
(* Profiles.  The strings are numbers: 0 to 8 stand for "", "cpu", "ns",   *)
(* "file", "f", "g", "h", "bytes" and a comment.  Location 1 is f, location *)
(* 2 is g with f inlined, location 3 is h.                                 *)

Names == <<<<>>, <<1>>, <<2>>, <<3>>, <<4>>, <<5>>, <<6>>, <<7>>, <<8>>>>

FunctionOf(id, name) ==
    [Zero(FunctionUnmarshalVT) EXCEPT !.Id = id, !.Name = name, !.SystemName = name, !.Filename = 3]
LineOf(id) == [Zero(LineUnmarshalVT) EXCEPT !.FunctionId = id, !.Line = 10 + id]
LocationOf(id, functions) ==
    [Zero(LocationUnmarshalVT) EXCEPT !.Id = id,
                                      !.Line = [k \in DOMAIN functions |-> LineOf(functions[k])]]
LabelOf(key, str, num) ==
    [Zero(LabelUnmarshalVT) EXCEPT !.Key = key, !.Str = str, !.Num = num]
SampleOf(stack, v, labels) ==
    [Zero(SampleUnmarshalVT) EXCEPT !.LocationId = stack, !.Value = <<v>>, !.Label = labels]
TypeOf(type, unit) == [Zero(ValueTypeUnmarshalVT) EXCEPT !.Type = type, !.Unit = unit]

ProfileOf(samples) ==
    [fresh EXCEPT !.SampleType = <<TypeOf(1, 2)>>, !.PeriodType = <<TypeOf(1, 2)>>,
                  !.Sample = samples,
                  !.Location = <<LocationOf(1, <<1>>), LocationOf(2, <<1, 2>>), LocationOf(3, <<3>>)>>,
                  !.Function = <<FunctionOf(1, 4), FunctionOf(2, 5), FunctionOf(3, 6)>>,
                  !.StringTable = Names, !.Comment = <<8>>]

Samples == {SampleOf(<<1>>, 1, <<>>), SampleOf(<<1>>, -1, <<>>),
            SampleOf(<<2>>, 0, <<>>), SampleOf(<<2, 1>>, 2, <<LabelOf(7, 0, 4)>>),
            SampleOf(<<3>>, 0, <<>>)}

Complete(p) == [profile |-> p, gzip |-> TRUE, broken |-> FALSE]

Some == ProfileOf(<<SampleOf(<<1>>, 1, <<>>), SampleOf(<<3>>, 0, <<>>)>>)
Other == [ProfileOf(<<SampleOf(<<3>>, 3, <<>>)>>) EXCEPT
             !.TimeNanos = 5, !.Comment = <<6, 2>>, !.DropFrames = 3]

MCInputs(c) ==
    IF c = FirstPush
    THEN {Complete(ProfileOf(<<a, b>>)) : a, b \in Samples}
         \cup {Complete(ProfileOf(<<a, SampleOf(<<1>>, 1, <<>>), b>>)) :
                  a, b \in {x \in Samples : x.Value[1] < 1}}
         \cup {[Complete(Some) EXCEPT !.gzip = g, !.broken = b] : g, b \in BOOLEAN}
         \cup {Complete([p EXCEPT !.PeriodType = <<>>]) :
                  p \in {Some, ProfileOf(<<SampleOf(<<1>>, 1, <<>>)>>)}}
    ELSE {Complete(Other)}

MCBytesName == <<7>>

\* A number for every stacktrace above, in no particular order.
MCHash(stack) == (7 * Len(stack) + 5 * stack[1]) % 16
=============================================================================
