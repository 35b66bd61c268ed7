---------------------------- MODULE ProfileWire -----------------------------
(***************************************************************************)
(* The lists of fields of the generated methods of google/v1: the pprof    *)
(* profile, one for each MarshalToSizedBufferVT, SizeVT and UnmarshalVT,   *)
(* in the order of the code. Module Protobuf says what a row does.         *)
(***************************************************************************)
EXTENDS Sequences

ValueTypeMarshalVT == << <<\h10, "varint", "Unit">>, <<\h08, "varint", "Type">> >>
ValueTypeSizeVT == << <<"varint", "Type">>, <<"varint", "Unit">> >>
ValueTypeUnmarshalVT == << <<1, "int64", "Type">>, <<2, "int64", "Unit">> >>

LabelMarshalVT ==
    << <<\h20, "varint", "NumUnit">>, <<\h18, "varint", "Num">>, <<\h10, "varint", "Str">>,
       <<\h08, "varint", "Key">> >>
LabelSizeVT ==
    << <<"varint", "Key">>, <<"varint", "Str">>, <<"varint", "Num">>,
       <<"varint", "NumUnit">> >>
LabelUnmarshalVT ==
    << <<1, "int64", "Key">>, <<2, "int64", "Str">>, <<3, "int64", "Num">>,
       <<4, "int64", "NumUnit">> >>

SampleMarshalVT ==
    << <<\h1A, "messages", "Label", LabelMarshalVT>>, <<\h12, "packed", "Value">>,
       <<\h0A, "packed", "LocationId">> >>
SampleSizeVT ==
    << <<"packed", "LocationId">>, <<"packed", "Value">>,
       <<"messages", "Label", LabelSizeVT>> >>
SampleUnmarshalVT ==
    << <<1, "uint64s", "LocationId">>, <<2, "int64s", "Value">>,
       <<3, "elements", "Label", LabelUnmarshalVT>> >>

MappingMarshalVT ==
    << <<\h50, "bool", "HasInlineFrames">>, <<\h48, "bool", "HasLineNumbers">>,
       <<\h40, "bool", "HasFilenames">>, <<\h38, "bool", "HasFunctions">>,
       <<\h30, "varint", "BuildId">>, <<\h28, "varint", "Filename">>,
       <<\h20, "varint", "FileOffset">>, <<\h18, "varint", "MemoryLimit">>,
       <<\h10, "varint", "MemoryStart">>, <<\h08, "varint", "Id">> >>
MappingSizeVT ==
    << <<"varint", "Id">>, <<"varint", "MemoryStart">>, <<"varint", "MemoryLimit">>,
       <<"varint", "FileOffset">>, <<"varint", "Filename">>, <<"varint", "BuildId">>,
       <<"bool", "HasFunctions">>, <<"bool", "HasFilenames">>,
       <<"bool", "HasLineNumbers">>, <<"bool", "HasInlineFrames">> >>
MappingUnmarshalVT ==
    << <<1, "uint64", "Id">>, <<2, "uint64", "MemoryStart">>,
       <<3, "uint64", "MemoryLimit">>, <<4, "uint64", "FileOffset">>,
       <<5, "int64", "Filename">>, <<6, "int64", "BuildId">>,
       <<7, "bool", "HasFunctions">>, <<8, "bool", "HasFilenames">>,
       <<9, "bool", "HasLineNumbers">>, <<10, "bool", "HasInlineFrames">> >>

LineMarshalVT == << <<\h10, "varint", "Line">>, <<\h08, "varint", "FunctionId">> >>
LineSizeVT == << <<"varint", "FunctionId">>, <<"varint", "Line">> >>
LineUnmarshalVT == << <<1, "uint64", "FunctionId">>, <<2, "int64", "Line">> >>

LocationMarshalVT ==
    << <<\h28, "bool", "IsFolded">>, <<\h22, "messages", "Line", LineMarshalVT>>,
       <<\h18, "varint", "Address">>, <<\h10, "varint", "MappingId">>,
       <<\h08, "varint", "Id">> >>
LocationSizeVT ==
    << <<"varint", "Id">>, <<"varint", "MappingId">>, <<"varint", "Address">>,
       <<"messages", "Line", LineSizeVT>>, <<"bool", "IsFolded">> >>
LocationUnmarshalVT ==
    << <<1, "uint64", "Id">>, <<2, "uint64", "MappingId">>, <<3, "uint64", "Address">>,
       <<4, "messages", "Line", LineUnmarshalVT>>, <<5, "bool", "IsFolded">> >>

FunctionMarshalVT ==
    << <<\h28, "varint", "StartLine">>, <<\h20, "varint", "Filename">>,
       <<\h18, "varint", "SystemName">>, <<\h10, "varint", "Name">>,
       <<\h08, "varint", "Id">> >>
FunctionSizeVT ==
    << <<"varint", "Id">>, <<"varint", "Name">>, <<"varint", "SystemName">>,
       <<"varint", "Filename">>, <<"varint", "StartLine">> >>
FunctionUnmarshalVT ==
    << <<1, "uint64", "Id">>, <<2, "int64", "Name">>, <<3, "int64", "SystemName">>,
       <<4, "int64", "Filename">>, <<5, "int64", "StartLine">> >>

ProfileMarshalVT ==
    << <<\h70, "varint", "DefaultSampleType">>, <<\h6A, "packed", "Comment">>,
       <<\h60, "varint", "Period">>, <<\h5A, "message", "PeriodType", ValueTypeMarshalVT>>,
       <<\h50, "varint", "DurationNanos">>, <<\h48, "varint", "TimeNanos">>,
       <<\h40, "varint", "KeepFrames">>, <<\h38, "varint", "DropFrames">>,
       <<\h32, "strings", "StringTable">>,
       <<\h2A, "messages", "Function", FunctionMarshalVT>>,
       <<\h22, "messages", "Location", LocationMarshalVT>>,
       <<\h1A, "messages", "Mapping", MappingMarshalVT>>,
       <<\h12, "messages", "Sample", SampleMarshalVT>>,
       <<\h0A, "messages", "SampleType", ValueTypeMarshalVT>> >>
ProfileSizeVT ==
    << <<"messages", "SampleType", ValueTypeSizeVT>>,
       <<"messages", "Sample", SampleSizeVT>>, <<"messages", "Mapping", MappingSizeVT>>,
       <<"messages", "Location", LocationSizeVT>>,
       <<"messages", "Function", FunctionSizeVT>>, <<"strings", "StringTable">>,
       <<"varint", "DropFrames">>, <<"varint", "KeepFrames">>, <<"varint", "TimeNanos">>,
       <<"varint", "DurationNanos">>, <<"message", "PeriodType", ValueTypeSizeVT>>,
       <<"varint", "Period">>, <<"packed", "Comment">>, <<"varint", "DefaultSampleType">> >>
ProfileUnmarshalVT ==
    << <<1, "elements", "SampleType", ValueTypeUnmarshalVT>>,
       <<2, "elements", "Sample", SampleUnmarshalVT>>,
       <<3, "elements", "Mapping", MappingUnmarshalVT>>,
       <<4, "elements", "Location", LocationUnmarshalVT>>,
       <<5, "elements", "Function", FunctionUnmarshalVT>>, <<6, "strings", "StringTable">>,
       <<7, "int64", "DropFrames">>, <<8, "int64", "KeepFrames">>,
       <<9, "int64", "TimeNanos">>, <<10, "int64", "DurationNanos">>,
       <<11, "message", "PeriodType", ValueTypeUnmarshalVT>>, <<12, "int64", "Period">>,
       <<13, "int64s", "Comment">>, <<14, "int64", "DefaultSampleType">> >>

-----------------------------------------------------------------------------
Codec(marshal, size, unmarshal) ==
    [marshal |-> marshal, size |-> size, unmarshal |-> unmarshal]

\* The messages of the package.
ProfileCodecs == [
    ValueType |-> Codec(ValueTypeMarshalVT, ValueTypeSizeVT, ValueTypeUnmarshalVT),
    Label |-> Codec(LabelMarshalVT, LabelSizeVT, LabelUnmarshalVT),
    Sample |-> Codec(SampleMarshalVT, SampleSizeVT, SampleUnmarshalVT),
    Mapping |-> Codec(MappingMarshalVT, MappingSizeVT, MappingUnmarshalVT),
    Line |-> Codec(LineMarshalVT, LineSizeVT, LineUnmarshalVT),
    Location |-> Codec(LocationMarshalVT, LocationSizeVT, LocationUnmarshalVT),
    Function |-> Codec(FunctionMarshalVT, FunctionSizeVT, FunctionUnmarshalVT),
    Profile |-> Codec(ProfileMarshalVT, ProfileSizeVT, ProfileUnmarshalVT) ]
=============================================================================
