---------------------------- MODULE IngesterWire ----------------------------
(***************************************************************************)
(* The lists of fields of the generated methods of ingester/v1: the        *)
(* queries of a querier to an ingester, one for each                       *)
(* MarshalToSizedBufferVT, SizeVT and UnmarshalVT, in the order of the     *)
(* code. Module Protobuf says what a row does.                             *)
(***************************************************************************)
EXTENDS CommonWire

LabelValuesRequestMarshalVT == << <<\h0A, "bytes", "Name">> >>
LabelValuesRequestSizeVT == << <<"bytes", "Name">> >>
LabelValuesRequestUnmarshalVT == << <<1, "string", "Name">> >>

LabelValuesResponseMarshalVT == << <<\h0A, "strings", "Names">> >>
LabelValuesResponseSizeVT == << <<"strings", "Names">> >>
LabelValuesResponseUnmarshalVT == << <<1, "strings", "Names">> >>

LabelNamesRequestMarshalVT == <<>>
LabelNamesRequestSizeVT == <<>>
LabelNamesRequestUnmarshalVT == <<>>

LabelNamesResponseMarshalVT == << <<\h0A, "strings", "Names">> >>
LabelNamesResponseSizeVT == << <<"strings", "Names">> >>
LabelNamesResponseUnmarshalVT == << <<1, "strings", "Names">> >>

ProfileTypesRequestMarshalVT == <<>>
ProfileTypesRequestSizeVT == <<>>
ProfileTypesRequestUnmarshalVT == <<>>

ProfileTypesResponseMarshalVT ==
    << <<\h0A, "messages", "ProfileTypes", ProfileTypeMarshalVT>> >>
ProfileTypesResponseSizeVT == << <<"messages", "ProfileTypes", ProfileTypeSizeVT>> >>
ProfileTypesResponseUnmarshalVT ==
    << <<1, "messages", "ProfileTypes", ProfileTypeUnmarshalVT>> >>

SeriesRequestMarshalVT == << <<\h0A, "strings", "Matchers">> >>
SeriesRequestSizeVT == << <<"strings", "Matchers">> >>
SeriesRequestUnmarshalVT == << <<1, "strings", "Matchers">> >>

SeriesResponseMarshalVT == << <<\h12, "messages", "LabelsSet", LabelsMarshalVT>> >>
SeriesResponseSizeVT == << <<"messages", "LabelsSet", LabelsSizeVT>> >>
SeriesResponseUnmarshalVT == << <<2, "messages", "LabelsSet", LabelsUnmarshalVT>> >>

FlushRequestMarshalVT == <<>>
FlushRequestSizeVT == <<>>
FlushRequestUnmarshalVT == <<>>

FlushResponseMarshalVT == <<>>
FlushResponseSizeVT == <<>>
FlushResponseUnmarshalVT == <<>>

SelectProfilesRequestMarshalVT ==
    << <<\h20, "varint", "End">>, <<\h18, "varint", "Start">>,
       <<\h12, "message", "Type", ProfileTypeMarshalVT>>,
       <<\h0A, "bytes", "LabelSelector">> >>
SelectProfilesRequestSizeVT ==
    << <<"bytes", "LabelSelector">>, <<"message", "Type", ProfileTypeSizeVT>>,
       <<"varint", "Start">>, <<"varint", "End">> >>
SelectProfilesRequestUnmarshalVT ==
    << <<1, "string", "LabelSelector">>, <<2, "message", "Type", ProfileTypeUnmarshalVT>>,
       <<3, "int64", "Start">>, <<4, "int64", "End">> >>

MergeProfilesStacktracesRequestMarshalVT ==
    << <<\h12, "bools", "Profiles">>,
       <<\h0A, "message", "Request", SelectProfilesRequestMarshalVT>> >>
MergeProfilesStacktracesRequestSizeVT ==
    << <<"message", "Request", SelectProfilesRequestSizeVT>>, <<"bools", "Profiles">> >>
MergeProfilesStacktracesRequestUnmarshalVT ==
    << <<1, "message", "Request", SelectProfilesRequestUnmarshalVT>>,
       <<2, "bools", "Profiles">> >>

StacktraceSampleMarshalVT ==
    << <<\h10, "varint", "Value">>, <<\h0A, "packed", "FunctionIds">> >>
StacktraceSampleSizeVT == << <<"packed", "FunctionIds">>, <<"varint", "Value">> >>
StacktraceSampleUnmarshalVT ==
    << <<1, "int32s", "FunctionIds">>, <<2, "int64", "Value">> >>

MergeProfilesStacktracesResultMarshalVT ==
    << <<\h12, "strings", "FunctionNames">>,
       <<\h0A, "messages", "Stacktraces", StacktraceSampleMarshalVT>> >>
MergeProfilesStacktracesResultSizeVT ==
    << <<"messages", "Stacktraces", StacktraceSampleSizeVT>>,
       <<"strings", "FunctionNames">> >>
MergeProfilesStacktracesResultUnmarshalVT ==
    << <<1, "messages", "Stacktraces", StacktraceSampleUnmarshalVT>>,
       <<2, "strings", "FunctionNames">> >>

SeriesProfileMarshalVT ==
    << <<\h10, "varint", "Timestamp">>, <<\h08, "varint", "LabelIndex">> >>
SeriesProfileSizeVT == << <<"varint", "LabelIndex">>, <<"varint", "Timestamp">> >>
SeriesProfileUnmarshalVT ==
    << <<1, "int32", "LabelIndex">>, <<2, "int64", "Timestamp">> >>

ProfileSetsMarshalVT ==
    << <<\h12, "messages", "Profiles", SeriesProfileMarshalVT>>,
       <<\h0A, "messages", "LabelsSets", LabelsMarshalVT>> >>
ProfileSetsSizeVT ==
    << <<"messages", "LabelsSets", LabelsSizeVT>>,
       <<"messages", "Profiles", SeriesProfileSizeVT>> >>
ProfileSetsUnmarshalVT ==
    << <<1, "messages", "LabelsSets", LabelsUnmarshalVT>>,
       <<2, "messages", "Profiles", SeriesProfileUnmarshalVT>> >>

MergeProfilesStacktracesResponseMarshalVT ==
    << <<\h1A, "message", "Result", MergeProfilesStacktracesResultMarshalVT>>,
       <<\h0A, "message", "SelectedProfiles", ProfileSetsMarshalVT>> >>
MergeProfilesStacktracesResponseSizeVT ==
    << <<"message", "SelectedProfiles", ProfileSetsSizeVT>>,
       <<"message", "Result", MergeProfilesStacktracesResultSizeVT>> >>
MergeProfilesStacktracesResponseUnmarshalVT ==
    << <<1, "message", "SelectedProfiles", ProfileSetsUnmarshalVT>>,
       <<3, "message", "Result", MergeProfilesStacktracesResultUnmarshalVT>> >>

ProfileMarshalVT ==
    << <<\h2A, "messages", "Stacktraces", StacktraceSampleMarshalVT>>,
       <<\h20, "varint", "Timestamp">>, <<\h1A, "messages", "Labels", LabelPairMarshalVT>>,
       <<\h12, "message", "Type", ProfileTypeMarshalVT>>, <<\h0A, "bytes", "ID">> >>
ProfileSizeVT ==
    << <<"bytes", "ID">>, <<"message", "Type", ProfileTypeSizeVT>>,
       <<"messages", "Labels", LabelPairSizeVT>>, <<"varint", "Timestamp">>,
       <<"messages", "Stacktraces", StacktraceSampleSizeVT>> >>
ProfileUnmarshalVT ==
    << <<1, "string", "ID">>, <<2, "message", "Type", ProfileTypeUnmarshalVT>>,
       <<3, "messages", "Labels", LabelPairUnmarshalVT>>, <<4, "int64", "Timestamp">>,
       <<5, "messages", "Stacktraces", StacktraceSampleUnmarshalVT>> >>

MergeProfilesLabelsRequestMarshalVT ==
    << <<\h1A, "bools", "Profiles">>, <<\h12, "strings", "By">>,
       <<\h0A, "message", "Request", SelectProfilesRequestMarshalVT>> >>
MergeProfilesLabelsRequestSizeVT ==
    << <<"message", "Request", SelectProfilesRequestSizeVT>>, <<"strings", "By">>,
       <<"bools", "Profiles">> >>
MergeProfilesLabelsRequestUnmarshalVT ==
    << <<1, "message", "Request", SelectProfilesRequestUnmarshalVT>>,
       <<2, "strings", "By">>, <<3, "bools", "Profiles">> >>

MergeProfilesLabelsResponseMarshalVT ==
    << <<\h12, "messages", "Series", SeriesMarshalVT>>,
       <<\h0A, "message", "SelectedProfiles", ProfileSetsMarshalVT>> >>
MergeProfilesLabelsResponseSizeVT ==
    << <<"message", "SelectedProfiles", ProfileSetsSizeVT>>,
       <<"messages", "Series", SeriesSizeVT>> >>
MergeProfilesLabelsResponseUnmarshalVT ==
    << <<1, "message", "SelectedProfiles", ProfileSetsUnmarshalVT>>,
       <<2, "messages", "Series", SeriesUnmarshalVT>> >>

-----------------------------------------------------------------------------

\* The messages of the package.
IngesterCodecs == [
    LabelValuesRequest |->
        Codec(LabelValuesRequestMarshalVT,
              LabelValuesRequestSizeVT, LabelValuesRequestUnmarshalVT),
    LabelValuesResponse |->
        Codec(LabelValuesResponseMarshalVT,
              LabelValuesResponseSizeVT, LabelValuesResponseUnmarshalVT),
    LabelNamesRequest |->
        Codec(LabelNamesRequestMarshalVT,
              LabelNamesRequestSizeVT, LabelNamesRequestUnmarshalVT),
    LabelNamesResponse |->
        Codec(LabelNamesResponseMarshalVT,
              LabelNamesResponseSizeVT, LabelNamesResponseUnmarshalVT),
    ProfileTypesRequest |->
        Codec(ProfileTypesRequestMarshalVT,
              ProfileTypesRequestSizeVT, ProfileTypesRequestUnmarshalVT),
    ProfileTypesResponse |->
        Codec(ProfileTypesResponseMarshalVT,
              ProfileTypesResponseSizeVT, ProfileTypesResponseUnmarshalVT),
    SeriesRequest |->
        Codec(SeriesRequestMarshalVT,
              SeriesRequestSizeVT, SeriesRequestUnmarshalVT),
    SeriesResponse |->
        Codec(SeriesResponseMarshalVT,
              SeriesResponseSizeVT, SeriesResponseUnmarshalVT),
    FlushRequest |->
        Codec(FlushRequestMarshalVT,
              FlushRequestSizeVT, FlushRequestUnmarshalVT),
    FlushResponse |->
        Codec(FlushResponseMarshalVT,
              FlushResponseSizeVT, FlushResponseUnmarshalVT),
    SelectProfilesRequest |->
        Codec(SelectProfilesRequestMarshalVT,
              SelectProfilesRequestSizeVT, SelectProfilesRequestUnmarshalVT),
    MergeProfilesStacktracesRequest |->
        Codec(MergeProfilesStacktracesRequestMarshalVT,
              MergeProfilesStacktracesRequestSizeVT, MergeProfilesStacktracesRequestUnmarshalVT),
    StacktraceSample |->
        Codec(StacktraceSampleMarshalVT,
              StacktraceSampleSizeVT, StacktraceSampleUnmarshalVT),
    MergeProfilesStacktracesResult |->
        Codec(MergeProfilesStacktracesResultMarshalVT,
              MergeProfilesStacktracesResultSizeVT, MergeProfilesStacktracesResultUnmarshalVT),
    SeriesProfile |->
        Codec(SeriesProfileMarshalVT,
              SeriesProfileSizeVT, SeriesProfileUnmarshalVT),
    ProfileSets |-> Codec(ProfileSetsMarshalVT, ProfileSetsSizeVT, ProfileSetsUnmarshalVT),
    MergeProfilesStacktracesResponse |->
        Codec(MergeProfilesStacktracesResponseMarshalVT,
              MergeProfilesStacktracesResponseSizeVT, MergeProfilesStacktracesResponseUnmarshalVT),
    Profile |-> Codec(ProfileMarshalVT, ProfileSizeVT, ProfileUnmarshalVT),
    MergeProfilesLabelsRequest |->
        Codec(MergeProfilesLabelsRequestMarshalVT,
              MergeProfilesLabelsRequestSizeVT, MergeProfilesLabelsRequestUnmarshalVT),
    MergeProfilesLabelsResponse |->
        Codec(MergeProfilesLabelsResponseMarshalVT,
              MergeProfilesLabelsResponseSizeVT, MergeProfilesLabelsResponseUnmarshalVT) ]
=============================================================================
