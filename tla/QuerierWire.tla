---------------------------- MODULE QuerierWire -----------------------------
(***************************************************************************)
(* The lists of fields of the generated methods of querier/v1: the queries *)
(* of a user, one for each MarshalToSizedBufferVT, SizeVT and UnmarshalVT, *)
(* in the order of the code. Module Protobuf says what a row does.         *)
(***************************************************************************)
EXTENDS CommonWire

ProfileTypesRequestMarshalVT == <<>>
ProfileTypesRequestSizeVT == <<>>
ProfileTypesRequestUnmarshalVT == <<>>

ProfileTypesResponseMarshalVT ==
    << <<\h0A, "messages", "ProfileTypes", ProfileTypeMarshalVT>> >>
ProfileTypesResponseSizeVT == << <<"messages", "ProfileTypes", ProfileTypeSizeVT>> >>
ProfileTypesResponseUnmarshalVT ==
    << <<1, "messages", "ProfileTypes", ProfileTypeUnmarshalVT>> >>

LabelValuesRequestMarshalVT == << <<\h0A, "bytes", "Name">> >>
LabelValuesRequestSizeVT == << <<"bytes", "Name">> >>
LabelValuesRequestUnmarshalVT == << <<1, "string", "Name">> >>

LabelValuesResponseMarshalVT == << <<\h0A, "strings", "Names">> >>
LabelValuesResponseSizeVT == << <<"strings", "Names">> >>
LabelValuesResponseUnmarshalVT == << <<1, "strings", "Names">> >>

LabelNamesRequestMarshalVT == <<>>
LabelNamesRequestSizeVT == <<>>
LabelNamesRequestUnmarshalVT == <<>>

LabelNamesResponseMarshalVT == << <<\h0A, "strings", "Names">> >>
LabelNamesResponseSizeVT == << <<"strings", "Names">> >>
LabelNamesResponseUnmarshalVT == << <<1, "strings", "Names">> >>

SeriesRequestMarshalVT == << <<\h0A, "strings", "Matchers">> >>
SeriesRequestSizeVT == << <<"strings", "Matchers">> >>
SeriesRequestUnmarshalVT == << <<1, "strings", "Matchers">> >>

SeriesResponseMarshalVT == << <<\h12, "messages", "LabelsSet", LabelsMarshalVT>> >>
SeriesResponseSizeVT == << <<"messages", "LabelsSet", LabelsSizeVT>> >>
SeriesResponseUnmarshalVT == << <<2, "messages", "LabelsSet", LabelsUnmarshalVT>> >>

SelectMergeStacktracesRequestMarshalVT ==
    << <<\h20, "varint", "End">>, <<\h18, "varint", "Start">>,
       <<\h12, "bytes", "LabelSelector">>, <<\h0A, "bytes", "ProfileTypeID">> >>
SelectMergeStacktracesRequestSizeVT ==
    << <<"bytes", "ProfileTypeID">>, <<"bytes", "LabelSelector">>, <<"varint", "Start">>,
       <<"varint", "End">> >>
SelectMergeStacktracesRequestUnmarshalVT ==
    << <<1, "string", "ProfileTypeID">>, <<2, "string", "LabelSelector">>,
       <<3, "int64", "Start">>, <<4, "int64", "End">> >>

LevelMarshalVT == << <<\h0A, "packed", "Values">> >>
LevelSizeVT == << <<"packed", "Values">> >>
LevelUnmarshalVT == << <<1, "int64s", "Values">> >>

FlameGraphMarshalVT ==
    << <<\h20, "varint", "MaxSelf">>, <<\h18, "varint", "Total">>,
       <<\h12, "messages", "Levels", LevelMarshalVT>>, <<\h0A, "strings", "Names">> >>
FlameGraphSizeVT ==
    << <<"strings", "Names">>, <<"messages", "Levels", LevelSizeVT>>,
       <<"varint", "Total">>, <<"varint", "MaxSelf">> >>
FlameGraphUnmarshalVT ==
    << <<1, "strings", "Names">>, <<2, "messages", "Levels", LevelUnmarshalVT>>,
       <<3, "int64", "Total">>, <<4, "int64", "MaxSelf">> >>

SelectMergeStacktracesResponseMarshalVT ==
    << <<\h0A, "message", "Flamegraph", FlameGraphMarshalVT>> >>
SelectMergeStacktracesResponseSizeVT ==
    << <<"message", "Flamegraph", FlameGraphSizeVT>> >>
SelectMergeStacktracesResponseUnmarshalVT ==
    << <<1, "message", "Flamegraph", FlameGraphUnmarshalVT>> >>

SelectSeriesRequestMarshalVT ==
    << <<\h31, "fixed64", "Step">>, <<\h2A, "strings", "GroupBy">>,
       <<\h20, "varint", "End">>, <<\h18, "varint", "Start">>,
       <<\h12, "bytes", "LabelSelector">>, <<\h0A, "bytes", "ProfileTypeID">> >>
SelectSeriesRequestSizeVT ==
    << <<"bytes", "ProfileTypeID">>, <<"bytes", "LabelSelector">>, <<"varint", "Start">>,
       <<"varint", "End">>, <<"strings", "GroupBy">>, <<"fixed64", "Step">> >>
SelectSeriesRequestUnmarshalVT ==
    << <<1, "string", "ProfileTypeID">>, <<2, "string", "LabelSelector">>,
       <<3, "int64", "Start">>, <<4, "int64", "End">>, <<5, "strings", "GroupBy">>,
       <<6, "double", "Step">> >>

SelectSeriesResponseMarshalVT == << <<\h0A, "messages", "Series", SeriesMarshalVT>> >>
SelectSeriesResponseSizeVT == << <<"messages", "Series", SeriesSizeVT>> >>
SelectSeriesResponseUnmarshalVT == << <<1, "messages", "Series", SeriesUnmarshalVT>> >>

-----------------------------------------------------------------------------

\* The messages of the package.
QuerierCodecs == [
    ProfileTypesRequest |->
        Codec(ProfileTypesRequestMarshalVT,
              ProfileTypesRequestSizeVT, ProfileTypesRequestUnmarshalVT),
    ProfileTypesResponse |->
        Codec(ProfileTypesResponseMarshalVT,
              ProfileTypesResponseSizeVT, ProfileTypesResponseUnmarshalVT),
    LabelValuesRequest |->
        Codec(LabelValuesRequestMarshalVT,
              LabelValuesRequestSizeVT, LabelValuesRequestUnmarshalVT),
    LabelValuesResponse |->
        Codec(LabelValuesResponseMarshalVT,
              LabelValuesResponseSizeVT, LabelValuesResponseUnmarshalVT),
    LabelNamesRequest |->
        Codec(LabelNamesRequestMarshalVT,
              LabelNamesRequestSizeVT, LabelNamesRequestUnmarshalVT),
    LabelNamesResponse |->
        Codec(LabelNamesResponseMarshalVT,
              LabelNamesResponseSizeVT, LabelNamesResponseUnmarshalVT),
    SeriesRequest |->
        Codec(SeriesRequestMarshalVT,
              SeriesRequestSizeVT, SeriesRequestUnmarshalVT),
    SeriesResponse |->
        Codec(SeriesResponseMarshalVT,
              SeriesResponseSizeVT, SeriesResponseUnmarshalVT),
    SelectMergeStacktracesRequest |->
        Codec(SelectMergeStacktracesRequestMarshalVT,
              SelectMergeStacktracesRequestSizeVT, SelectMergeStacktracesRequestUnmarshalVT),
    Level |-> Codec(LevelMarshalVT, LevelSizeVT, LevelUnmarshalVT),
    FlameGraph |-> Codec(FlameGraphMarshalVT, FlameGraphSizeVT, FlameGraphUnmarshalVT),
    SelectMergeStacktracesResponse |->
        Codec(SelectMergeStacktracesResponseMarshalVT,
              SelectMergeStacktracesResponseSizeVT, SelectMergeStacktracesResponseUnmarshalVT),
    SelectSeriesRequest |->
        Codec(SelectSeriesRequestMarshalVT,
              SelectSeriesRequestSizeVT, SelectSeriesRequestUnmarshalVT),
    SelectSeriesResponse |->
        Codec(SelectSeriesResponseMarshalVT,
              SelectSeriesResponseSizeVT, SelectSeriesResponseUnmarshalVT) ]
=============================================================================
