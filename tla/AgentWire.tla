----------------------------- MODULE AgentWire ------------------------------
(***************************************************************************)
(* The lists of fields of the generated methods of agent/v1: the targets   *)
(* of an agent, one for each MarshalToSizedBufferVT, SizeVT and            *)
(* UnmarshalVT, in the order of the code. Module Protobuf says what a row  *)
(* does.                                                                   *)
(***************************************************************************)
EXTENDS Sequences

\* google.protobuf.Timestamp and Duration, which proto.Marshal and
\* proto.Unmarshal write and read.
SecondsNanosMarshal == << <<\h10, "varint", "Nanos">>, <<\h08, "varint", "Seconds">> >>
SecondsNanosSize == << <<"varint", "Seconds">>, <<"varint", "Nanos">> >>
SecondsNanosUnmarshal == << <<1, "int64", "Seconds">>, <<2, "int32", "Nanos">> >>

GetTargetsRequestMarshalVT == << <<\h08, "varint", "State">> >>
GetTargetsRequestSizeVT == << <<"varint", "State">> >>
GetTargetsRequestUnmarshalVT == << <<1, "int32", "State">> >>

TargetMarshalVT ==
    << <<\h52, "message", "ScrapeInterval", SecondsNanosMarshal>>,
       <<\h4A, "message", "ScrapeTimeout", SecondsNanosMarshal>>,
       <<\h40, "varint", "Health">>,
       <<\h3A, "message", "LastScrapeDuration", SecondsNanosMarshal>>,
       <<\h32, "message", "LastScrape", SecondsNanosMarshal>>,
       <<\h2A, "bytes", "LastError">>, <<\h22, "bytes", "ScrapeUrl">>,
       <<\h1A, "bytes", "ScrapePool">>, <<\h12, "map", "Labels">>,
       <<\h0A, "map", "DiscoveredLabels">> >>
TargetSizeVT ==
    << <<"map", "DiscoveredLabels">>, <<"map", "Labels">>, <<"bytes", "ScrapePool">>,
       <<"bytes", "ScrapeUrl">>, <<"bytes", "LastError">>,
       <<"message", "LastScrape", SecondsNanosSize>>,
       <<"message", "LastScrapeDuration", SecondsNanosSize>>, <<"varint", "Health">>,
       <<"message", "ScrapeTimeout", SecondsNanosSize>>,
       <<"message", "ScrapeInterval", SecondsNanosSize>> >>
TargetUnmarshalVT ==
    << <<1, "map", "DiscoveredLabels">>, <<2, "map", "Labels">>,
       <<3, "string", "ScrapePool">>, <<4, "string", "ScrapeUrl">>,
       <<5, "string", "LastError">>, <<6, "message", "LastScrape", SecondsNanosUnmarshal>>,
       <<7, "message", "LastScrapeDuration", SecondsNanosUnmarshal>>,
       <<8, "int32", "Health">>, <<9, "message", "ScrapeTimeout", SecondsNanosUnmarshal>>,
       <<10, "message", "ScrapeInterval", SecondsNanosUnmarshal>> >>

GetTargetsResponseMarshalVT ==
    << <<\h12, "messages", "DroppedTargets", TargetMarshalVT>>,
       <<\h0A, "messages", "ActiveTargets", TargetMarshalVT>> >>
GetTargetsResponseSizeVT ==
    << <<"messages", "ActiveTargets", TargetSizeVT>>,
       <<"messages", "DroppedTargets", TargetSizeVT>> >>
GetTargetsResponseUnmarshalVT ==
    << <<1, "messages", "ActiveTargets", TargetUnmarshalVT>>,
       <<2, "messages", "DroppedTargets", TargetUnmarshalVT>> >>

-----------------------------------------------------------------------------
Codec(marshal, size, unmarshal) ==
    [marshal |-> marshal, size |-> size, unmarshal |-> unmarshal]

\* The messages of the package.
AgentCodecs == [
    GetTargetsRequest |->
        Codec(GetTargetsRequestMarshalVT,
              GetTargetsRequestSizeVT, GetTargetsRequestUnmarshalVT),
    Target |-> Codec(TargetMarshalVT, TargetSizeVT, TargetUnmarshalVT),
    GetTargetsResponse |->
        Codec(GetTargetsResponseMarshalVT,
              GetTargetsResponseSizeVT, GetTargetsResponseUnmarshalVT) ]
=============================================================================
