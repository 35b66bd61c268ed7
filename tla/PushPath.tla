------------------------------ MODULE PushPath ------------------------------
(***************************************************************************)
(* What happens to the profile of a push between the client and the head.  *)
(* The distributor decodes it, normalizes it and encodes it again, the     *)
(* ingester decodes it and hands it to Head.Ingest; both take the decoded  *)
(* object and the buffer for its bytes from pools that all requests of the *)
(* process share, and give them back.                                      *)
(*                                                                         *)
(* Next to the pushes, a call sends one message of any of the generated    *)
(* types over the wire.  Calls and pushes share no variable, so the calls  *)
(* are explored on their own, before the first push.                       *)
(*                                                                         *)
(* sync.Pool, gzip and the RPC library are external.                       *)
(***************************************************************************)
EXTENDS Pprof

CONSTANTS Pushes,       \* requests to push a profile
          Objects,      \* identities of *profilev1.Profile
          Buffers,      \* identities of *bytes.Buffer
          Inputs(_),    \* what a push can send: a profile, compressed or not, complete or not
          Codecs,       \* for every package, its generated messages by name
          Messages(_)   \* the messages to send, for the cases of UnmarshalVT

VARIABLES
    profilePool,  \* how often an object is in vtprotoPool_Profile
    bufPool,      \* how often a buffer is in bufPool
    objects,      \* the message in each object
    buffers,      \* the bytes in each buffer
    push,         \* each push: where it is, what was sent, its object and buffer, the raw profile
    stored,       \* what the head keeps of each push
    call          \* the message that is sent

vars == <<profilePool, bufPool, objects, buffers, push, stored, call>>

none == 0  \* no object, no buffer; also the owner of memory that is not shared

fresh == Zero(ProfileUnmarshalVT)

Encoded(p) == MarshalVT(ProfileCodecs.Profile, p)

\* The bytes of a profile, compressed or not; a client can send some that
\* break off.
Raw(gzip, broken, data) == [gzip |-> gzip, broken |-> broken, data |-> data]

Init ==
    /\ profilePool = [o \in Objects |-> 0]
    /\ bufPool = [b \in Buffers |-> 0]
    /\ objects = [o \in Objects |-> fresh]
    /\ buffers = [b \in Buffers |-> <<>>]
    /\ push = [c \in Pushes |-> [pc |-> "idle", sent |-> fresh, object |-> none, buffer |-> none,
                                 raw |-> Raw(FALSE, FALSE, <<>>)]]
    /\ stored = [c \in Pushes |-> <<>>]
    /\ call = [pc |-> "idle"]

at(c, pc) == push[c].pc = pc

-----------------------------------------------------------------------------
(* The pools.  Get takes a pooled one or makes a new one: the pool may have *)
(* been emptied by the garbage collector, and it keeps one list per CPU.    *)

objectOf(c) == push[c].object
bufferOf(c) == push[c].buffer

canGet(pool, x, held) == pool[x] > 0 \/ x \notin held
afterGet(pool, x) == [pool EXCEPT ![x] = IF @ > 0 THEN @ - 1 ELSE 0]
afterPut(pool, x) == [pool EXCEPT ![x] = @ + 1]

\* ResetVT of a Profile.  The slices StringTable and Comment are kept with
\* length zero, so what they held is out of reach; the others are dropped
\* by Reset, with the samples that were reset before.
ResetVT(m) == fresh

-----------------------------------------------------------------------------
(* The distributor *)

\* A client sends a profile.
Send(c) ==
    /\ at(c, "idle")
    /\ call.pc = "idle"
    /\ \E in \in Inputs(c) :
          push' = [push EXCEPT ![c].pc = "received", ![c].sent = in.profile,
                               ![c].raw = Raw(in.gzip, in.broken, Encoded(in.profile))]
    /\ UNCHANGED <<profilePool, bufPool, objects, buffers, stored, call>>

\* gzipReader: bytes that do not begin like gzip are taken as they are, so
\* only of a compressed profile it is noticed that it breaks off.
uncompressed(raw) ==
    IF raw.broken THEN SubSeq(raw.data, 1, Len(raw.data) - 1) ELSE raw.data

gzipFails(raw) == raw.gzip /\ raw.broken

fail(c) == push' = [push EXCEPT ![c].pc = "failed", ![c].object = none, ![c].buffer = none]

\* openBytes returns an error.
OpenFails(c) ==
    /\ at(c, "received")
    /\ gzipFails(push[c].raw)
    /\ fail(c)
    /\ UNCHANGED <<profilePool, bufPool, objects, buffers, stored, call>>

\* The first half of fromUncompressedReader: the bytes are copied behind what
\* is in the buffer.  After an error the buffer is not given back.
copied(b, raw) == (IF bufPool[b] > 0 THEN buffers[b] ELSE <<>>) \o uncompressed(raw)

Copy(c) ==
    /\ push[c].pc \in {"received", "forwarded"}
    /\ \E b \in Buffers :
          /\ canGet(bufPool, b, {bufferOf(d) : d \in Pushes})
          /\ bufPool' = afterGet(bufPool, b)
          /\ IF gzipFails(push[c].raw)
             THEN fail(c) /\ UNCHANGED buffers
             ELSE /\ buffers' = [buffers EXCEPT ![b] = copied(b, push[c].raw)]
                  /\ push' = [push EXCEPT ![c].buffer = b,
                         ![c].pc = IF at(c, "received") THEN "decode" ELSE "ingester decode"]
    /\ UNCHANGED <<profilePool, objects, stored, call>>

\* The second half: the bytes are decoded into the object.  After an error
\* neither the object nor the buffer is given back.
decoded(o, b) ==
    UnmarshalVT(ProfileUnmarshalVT, IF profilePool[o] > 0 THEN objects[o] ELSE fresh, buffers[b])

Decode(c) ==
    /\ push[c].pc \in {"decode", "ingester decode"}
    /\ \E o \in Objects :
          /\ canGet(profilePool, o, {objectOf(d) : d \in Pushes})
          /\ profilePool' = afterGet(profilePool, o)
          /\ \E m \in {decoded(o, bufferOf(c))} :
                IF m = Error
                THEN fail(c) /\ UNCHANGED objects
                ELSE /\ objects' = [objects EXCEPT ![o] = m[1]]
                     /\ push' = [push EXCEPT ![c].object = o,
                            ![c].pc = IF at(c, "decode") THEN "normalize" ELSE "decoded"]
    /\ UNCHANGED <<bufPool, buffers, stored, call>>

\* A panic ends the request; what it held is garbage.
NormalizeProfile(c) ==
    /\ at(c, "normalize")
    /\ \E r \in Normalize(objects[objectOf(c)]) :
          IF r = <<>> THEN fail(c) /\ UNCHANGED objects
          ELSE /\ objects' = [objects EXCEPT ![objectOf(c)] = r[1]]
               /\ push' = [push EXCEPT ![c].pc = "write"]
    /\ UNCHANGED <<profilePool, bufPool, buffers, stored, call>>

\* WriteTo uses the buffer of the profile and leaves it empty.
WriteTo(c) ==
    /\ at(c, "write")
    /\ push' = [push EXCEPT ![c].pc = "close",
                            ![c].raw = Raw(TRUE, FALSE, Encoded(objects[objectOf(c)]))]
    /\ buffers' = [buffers EXCEPT ![bufferOf(c)] = <<>>]
    /\ UNCHANGED <<profilePool, bufPool, objects, stored, call>>

\* ReturnToVTPool and the buffer, Reset and Put.
Close(c) ==
    /\ at(c, "close")
    /\ objects' = [objects EXCEPT ![objectOf(c)] = ResetVT(@)]
    /\ profilePool' = afterPut(profilePool, objectOf(c))
    /\ buffers' = [buffers EXCEPT ![bufferOf(c)] = <<>>]
    /\ bufPool' = afterPut(bufPool, bufferOf(c))
    /\ push' = [push EXCEPT ![c].pc = "forwarded", ![c].object = none, ![c].buffer = none]
    /\ UNCHANGED <<stored, call>>

-----------------------------------------------------------------------------
(* The ingester *)

\* The rest of FromBytes: the buffer is given back, the object is not.

PutBuffer(c) ==
    /\ at(c, "decoded")
    /\ buffers' = [buffers EXCEPT ![bufferOf(c)] = <<>>]
    /\ bufPool' = afterPut(bufPool, bufferOf(c))
    /\ push' = [push EXCEPT ![c].pc = "ingest", ![c].buffer = none]
    /\ UNCHANGED <<profilePool, objects, stored, call>>

\* Memory that the head keeps: whose it is, and what is in it.
sameSlice(o, s) == [owner |-> o, data |-> s]
copySlice(o, s) == [owner |-> none, data |-> s]

\* Head.Ingest, as far as what it keeps of the profile (the module Head has
\* the rest).  A profile without samples leaves nothing, one without a period
\* type is stored like any other.  It can return an error.
Ingest(c) ==
    /\ at(c, "ingest")
    /\ LET o == objectOf(c)
           p == objects[o]
       IN \/ fail(c) /\ UNCHANGED stored
          \/ /\ stored' = IF p.Sample = <<>> THEN stored
                          ELSE [stored EXCEPT ![c] =
                                   <<[profile |-> p, comments |-> copySlice(o, p.Comment)]>>]
             /\ push' = [push EXCEPT ![c].pc = "ingested"]
    /\ UNCHANGED <<profilePool, bufPool, objects, buffers, call>>

ReturnToVTPool(c) ==
    /\ at(c, "ingested")
    /\ objects' = [objects EXCEPT ![objectOf(c)] = ResetVT(@)]
    /\ profilePool' = afterPut(profilePool, objectOf(c))
    /\ push' = [push EXCEPT ![c].pc = "done", ![c].object = none]
    /\ UNCHANGED <<bufPool, buffers, stored, call>>

-----------------------------------------------------------------------------
(* Calls *)

\* The sender encodes a message.
Call ==
    /\ call.pc = "idle"
    /\ \A c \in Pushes : at(c, "idle")
    /\ \E package \in Codecs : \E name \in DOMAIN package :
          \E m \in Messages(package[name].unmarshal) :
             call' = [pc |-> "sent", codec |-> package[name], message |-> m,
                      data |-> MarshalVT(package[name], m), result |-> Error]
    /\ UNCHANGED <<profilePool, bufPool, objects, buffers, push, stored>>

\* The receiver decodes it into a new object.
Receive ==
    /\ call.pc = "sent"
    /\ call' = [call EXCEPT !.pc = "received",
                            !.result = UnmarshalVT(call.codec.unmarshal,
                                                   Zero(call.codec.unmarshal), call.data)]
    /\ UNCHANGED <<profilePool, bufPool, objects, buffers, push, stored>>

Finished ==
    /\ \/ call.pc = "received"
       \/ \A c \in Pushes : push[c].pc \in {"done", "failed"}
    /\ UNCHANGED vars

Next ==
    \/ \E c \in Pushes :
          \/ Send(c) \/ OpenFails(c) \/ Copy(c) \/ Decode(c)
          \/ NormalizeProfile(c) \/ WriteTo(c) \/ Close(c)
          \/ PutBuffer(c) \/ Ingest(c) \/ ReturnToVTPool(c)
    \/ Call
    \/ Receive
    \/ Finished

Spec == Init /\ [][Next]_vars

-----------------------------------------------------------------------------
(* What a profile says *)

String(p, idx) == p.StringTable[idx + 1]
byId(s, id) == CHOOSE x \in Range(s) : x.Id = id

Frames(p, l) ==
    [k \in DOMAIN l.Line |->
        LET f == byId(p.Function, l.Line[k].FunctionId)
        IN <<String(p, f.Name), String(p, f.Filename), l.Line[k].Line>>]

Stack(p, s) == [k \in DOMAIN s.LocationId |-> Frames(p, byId(p.Location, s.LocationId[k]))]

\* The stacktraces of a profile with their values, as far as they are not zero.
Totals(p) ==
    LET samples == DOMAIN p.Sample
        total(stack) == [j \in DOMAIN p.SampleType |->
            Int64(MapThenSumSet(LAMBDA k : p.Sample[k].Value[j],
                                {k \in samples : Stack(p, p.Sample[k]) = stack}))]
    IN {<<stack, total(stack)>> : stack \in {x \in {Stack(p, p.Sample[k]) : k \in samples} :
                                              \E j \in DOMAIN p.SampleType : total(x)[j] # 0}}

Types(p) ==
    LET names(ts) == [k \in DOMAIN ts |-> <<String(p, ts[k].Type), String(p, ts[k].Unit)>>]
    IN <<names(p.SampleType), names(p.PeriodType)>>

\* What is in memory that the head keeps: shared memory holds what its owner
\* has written there since.
contents(s) ==
    IF s.owner = none THEN s.data
    ELSE LET now == objects[s.owner].Comment
         IN [k \in DOMAIN s.data |-> IF k \in DOMAIN now THEN now[k] ELSE s.data[k]]

Comments(p, idxs) == [k \in DOMAIN idxs |-> String(p, idxs[k])]

-----------------------------------------------------------------------------
(* Properties *)

\* Every push is somewhere, and a pool holds an object or a buffer at most once.
TypeOK ==
    /\ profilePool \in [Objects -> 0..1]
    /\ bufPool \in [Buffers -> 0..1]
    /\ \A c \in Pushes :
          /\ push[c].pc \in {"idle", "received", "decode", "normalize", "write", "close",
                             "forwarded", "ingester decode", "decoded", "ingest", "ingested",
                             "done", "failed"}
          /\ objectOf(c) \in Objects \cup {none}
          /\ bufferOf(c) \in Buffers \cup {none}
    /\ call.pc \in {"idle", "sent", "received"}

\* What the head keeps of a push is what the client sent: the same total for
\* every stacktrace, by the names of its frames, and the same types, comments
\* and time.  Between the two the profile went through two pooled objects, two
\* pooled buffers, Normalize with its renumbered string table, and the
\* encoding, while other requests used the same pools; and nothing the head
\* kept changes when the object serves another request.
StoredIsSent ==
    \A c \in Pushes : push[c].pc \in {"ingested", "done"} =>
        LET sent == push[c].sent
        IN IF stored[c] = <<>> THEN Totals(sent) = {}
           ELSE LET p == stored[c][1].profile
                IN /\ Totals(p) = Totals(sent)
                   /\ Types(p) = Types(sent)
                   /\ Comments(p, contents(stored[c][1].comments)) = Comments(sent, sent.Comment)
                   /\ p.TimeNanos = IF sent.TimeNanos = 0 THEN Now ELSE sent.TimeNanos

\* Every message of the API arrives as it was sent: SizeVT is the number of
\* bytes MarshalToSizedBufferVT writes, no write falls in front of the buffer,
\* and UnmarshalVT reads what was written, field by field.
RoundTrip == call.pc = "received" => call.result = <<call.message>>

\* Of a message that breaks off, UnmarshalVT returns an error or what the
\* complete fields in front say, and never a field that was cut.
PrefixesAreExact ==
    call.pc = "received" =>
        \A n \in 0..(Len(call.data) - 1) :
           LET prefix == SubSeq(call.data, 1, n)
               m == UnmarshalVT(call.codec.unmarshal, Zero(call.codec.unmarshal), prefix)
           IN m = Error \/ MarshalVT(call.codec, m[1]) = prefix

\* The codec of a program that is older than one of the fields.
older(codec, name) ==
    [marshal |-> SelectSeq(codec.marshal, LAMBDA row : row[3] # name),
     size |-> SelectSeq(codec.size, LAMBDA row : row[2] # name),
     unmarshal |-> SelectSeq(codec.unmarshal, LAMBDA row : row[3] # name)]

\* A message that passes through a program that does not know one of its
\* fields loses nothing: UnmarshalVT keeps unknown fields and MarshalVT writes
\* them again, as during an upgrade of one component at a time.
UnknownFieldsSurvive ==
    call.pc = "received" =>
        LET cases == call.codec.unmarshal
        IN \A k \in DOMAIN cases :
              LET old == older(call.codec, cases[k][3])
                  m == UnmarshalVT(old.unmarshal, Zero(old.unmarshal), call.data)
              IN m # Error /\ UnmarshalVT(cases, Zero(cases), MarshalVT(old, m[1])) = <<call.message>>
=============================================================================
