----------------------------- MODULE CommonWire -----------------------------
(***************************************************************************)
(* The lists of fields of the generated methods of common/v1: labels,      *)
(* series and the status of a build, one for each MarshalToSizedBufferVT,  *)
(* SizeVT and UnmarshalVT, in the order of the code. Module Protobuf says  *)
(* what a row does.                                                        *)
(***************************************************************************)
EXTENDS Sequences

LabelPairMarshalVT == << <<\h12, "bytes", "Value">>, <<\h0A, "bytes", "Name">> >>
LabelPairSizeVT == << <<"bytes", "Name">>, <<"bytes", "Value">> >>
LabelPairUnmarshalVT == << <<1, "string", "Name">>, <<2, "string", "Value">> >>

ProfileTypeMarshalVT ==
    << <<\h3A, "bytes", "PeriodUnit">>, <<\h32, "bytes", "PeriodType">>,
       <<\h2A, "bytes", "SampleUnit">>, <<\h22, "bytes", "SampleType">>,
       <<\h12, "bytes", "Name">>, <<\h0A, "bytes", "ID">> >>
ProfileTypeSizeVT ==
    << <<"bytes", "ID">>, <<"bytes", "Name">>, <<"bytes", "SampleType">>,
       <<"bytes", "SampleUnit">>, <<"bytes", "PeriodType">>, <<"bytes", "PeriodUnit">> >>
ProfileTypeUnmarshalVT ==
    << <<1, "string", "ID">>, <<2, "string", "Name">>, <<4, "string", "SampleType">>,
       <<5, "string", "SampleUnit">>, <<6, "string", "PeriodType">>,
       <<7, "string", "PeriodUnit">> >>

LabelsMarshalVT == << <<\h0A, "messages", "Labels", LabelPairMarshalVT>> >>
LabelsSizeVT == << <<"messages", "Labels", LabelPairSizeVT>> >>
LabelsUnmarshalVT == << <<1, "messages", "Labels", LabelPairUnmarshalVT>> >>

PointMarshalVT == << <<\h10, "varint", "Timestamp">>, <<\h09, "fixed64", "Value">> >>
PointSizeVT == << <<"fixed64", "Value">>, <<"varint", "Timestamp">> >>
PointUnmarshalVT == << <<1, "double", "Value">>, <<2, "int64", "Timestamp">> >>

SeriesMarshalVT ==
    << <<\h12, "messages", "Points", PointMarshalVT>>,
       <<\h0A, "messages", "Labels", LabelPairMarshalVT>> >>
SeriesSizeVT ==
    << <<"messages", "Labels", LabelPairSizeVT>>, <<"messages", "Points", PointSizeVT>> >>
SeriesUnmarshalVT ==
    << <<1, "messages", "Labels", LabelPairUnmarshalVT>>,
       <<2, "messages", "Points", PointUnmarshalVT>> >>

GetBuildInfoRequestMarshalVT == <<>>
GetBuildInfoRequestSizeVT == <<>>
GetBuildInfoRequestUnmarshalVT == <<>>

GetBuildInfoDataMarshalVT ==
    << <<\h32, "bytes", "GoVersion">>, <<\h2A, "bytes", "BuildDate">>,
       <<\h22, "bytes", "BuildUser">>, <<\h1A, "bytes", "Branch">>,
       <<\h12, "bytes", "Revision">>, <<\h0A, "bytes", "Version">> >>
GetBuildInfoDataSizeVT ==
    << <<"bytes", "Version">>, <<"bytes", "Revision">>, <<"bytes", "Branch">>,
       <<"bytes", "BuildUser">>, <<"bytes", "BuildDate">>, <<"bytes", "GoVersion">> >>
GetBuildInfoDataUnmarshalVT ==
    << <<1, "string", "Version">>, <<2, "string", "Revision">>, <<3, "string", "Branch">>,
       <<4, "string", "BuildUser">>, <<5, "string", "BuildDate">>,
       <<6, "string", "GoVersion">> >>

GetBuildInfoResponseMarshalVT ==
    << <<\h12, "message", "Data", GetBuildInfoDataMarshalVT>>,
       <<\h0A, "bytes", "Status">> >>
GetBuildInfoResponseSizeVT ==
    << <<"bytes", "Status">>, <<"message", "Data", GetBuildInfoDataSizeVT>> >>
GetBuildInfoResponseUnmarshalVT ==
    << <<1, "string", "Status">>, <<2, "message", "Data", GetBuildInfoDataUnmarshalVT>> >>

GetConfigRequestMarshalVT == <<>>
GetConfigRequestSizeVT == <<>>
GetConfigRequestUnmarshalVT == <<>>

GetConfigResponseMarshalVT == <<>>
GetConfigResponseSizeVT == <<>>
GetConfigResponseUnmarshalVT == <<>>

-----------------------------------------------------------------------------
Codec(marshal, size, unmarshal) ==
    [marshal |-> marshal, size |-> size, unmarshal |-> unmarshal]

\* The messages of the package.
CommonCodecs == [
    LabelPair |-> Codec(LabelPairMarshalVT, LabelPairSizeVT, LabelPairUnmarshalVT),
    ProfileType |-> Codec(ProfileTypeMarshalVT, ProfileTypeSizeVT, ProfileTypeUnmarshalVT),
    Labels |-> Codec(LabelsMarshalVT, LabelsSizeVT, LabelsUnmarshalVT),
    Point |-> Codec(PointMarshalVT, PointSizeVT, PointUnmarshalVT),
    Series |-> Codec(SeriesMarshalVT, SeriesSizeVT, SeriesUnmarshalVT),
    GetBuildInfoRequest |->
        Codec(GetBuildInfoRequestMarshalVT,
              GetBuildInfoRequestSizeVT, GetBuildInfoRequestUnmarshalVT),
    GetBuildInfoData |->
        Codec(GetBuildInfoDataMarshalVT,
              GetBuildInfoDataSizeVT, GetBuildInfoDataUnmarshalVT),
    GetBuildInfoResponse |->
        Codec(GetBuildInfoResponseMarshalVT,
              GetBuildInfoResponseSizeVT, GetBuildInfoResponseUnmarshalVT),
    GetConfigRequest |->
        Codec(GetConfigRequestMarshalVT,
              GetConfigRequestSizeVT, GetConfigRequestUnmarshalVT),
    GetConfigResponse |->
        Codec(GetConfigResponseMarshalVT,
              GetConfigResponseSizeVT, GetConfigResponseUnmarshalVT) ]
=============================================================================
