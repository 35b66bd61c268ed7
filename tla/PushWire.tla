------------------------------ MODULE PushWire ------------------------------
(***************************************************************************)
(* The lists of fields of the generated methods of push/v1: a push of raw  *)
(* profiles, one for each MarshalToSizedBufferVT, SizeVT and UnmarshalVT,  *)
(* in the order of the code. Module Protobuf says what a row does.         *)
(***************************************************************************)
EXTENDS CommonWire

PushResponseMarshalVT == <<>>
PushResponseSizeVT == <<>>
PushResponseUnmarshalVT == <<>>

RawSampleMarshalVT == << <<\h12, "bytes", "ID">>, <<\h0A, "bytes", "RawProfile">> >>
RawSampleSizeVT == << <<"bytes", "RawProfile">>, <<"bytes", "ID">> >>
RawSampleUnmarshalVT == << <<1, "bytes", "RawProfile">>, <<2, "string", "ID">> >>

RawProfileSeriesMarshalVT ==
    << <<\h12, "messages", "Samples", RawSampleMarshalVT>>,
       <<\h0A, "messages", "Labels", LabelPairMarshalVT>> >>
RawProfileSeriesSizeVT ==
    << <<"messages", "Labels", LabelPairSizeVT>>,
       <<"messages", "Samples", RawSampleSizeVT>> >>
RawProfileSeriesUnmarshalVT ==
    << <<1, "messages", "Labels", LabelPairUnmarshalVT>>,
       <<2, "messages", "Samples", RawSampleUnmarshalVT>> >>

PushRequestMarshalVT == << <<\h0A, "messages", "Series", RawProfileSeriesMarshalVT>> >>
PushRequestSizeVT == << <<"messages", "Series", RawProfileSeriesSizeVT>> >>
PushRequestUnmarshalVT == << <<1, "messages", "Series", RawProfileSeriesUnmarshalVT>> >>

-----------------------------------------------------------------------------

\* The messages of the package.
PushCodecs == [
    PushResponse |->
        Codec(PushResponseMarshalVT,
              PushResponseSizeVT, PushResponseUnmarshalVT),
    RawSample |-> Codec(RawSampleMarshalVT, RawSampleSizeVT, RawSampleUnmarshalVT),
    RawProfileSeries |->
        Codec(RawProfileSeriesMarshalVT,
              RawProfileSeriesSizeVT, RawProfileSeriesUnmarshalVT),
    PushRequest |-> Codec(PushRequestMarshalVT, PushRequestSizeVT, PushRequestUnmarshalVT) ]
=============================================================================
