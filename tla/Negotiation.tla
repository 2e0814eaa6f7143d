---------------------------- MODULE Negotiation ----------------------------
(***************************************************************************)
(* Two devices and a router agree on codecs: the client's Device.load(),   *)
(* produce() and consume() (Ortc) against the server's router, produce and *)
(* consume (RouterOrtc).                                                   *)
(***************************************************************************)
EXTENDS Ortc

CONSTANTS
    Configurations,   \* sequences of media codecs a router is created with
    Offers            \* SDP offers of the browsers: sequences of sections

Server == INSTANCE RouterOrtc

VARIABLES
    router,     \* the RTP capabilities of the router
    device,     \* the two Devices
    producer,   \* what the sender's produce() led to
    consumer    \* what consuming it on the receiver's transport led to

vars == <<router, device, producer, consumer>>

Devices == {"sender", "receiver"}
Nothing == [codecs |-> <<>>, headerExtensions |-> <<>>]
NotLoaded == [loaded |-> FALSE, native |-> Nothing, extended |-> Nothing, recv |-> Nothing,
              canProduce |-> [k \in Kinds |-> FALSE]]
NoProducer == [st |-> "none", kind |-> "none", params |-> Nothing, answer |-> Nothing,
               mapping |-> <<>>, consumable |-> Nothing]
NoConsumer == [st |-> "none", params |-> Nothing, probator |-> Nothing]

Init ==
    /\ \E mediaCodecs \in Configurations :
           router = Server!generateRouterRtpCapabilities(mediaCodecs)
    /\ router.ok
    /\ device = [d \in Devices |-> NotLoaded]
    /\ producer = NoProducer
    /\ consumer = NoConsumer

RouterCaps == [codecs |-> router.codecs, headerExtensions |-> router.headerExtensions]

load(d, offer) ==
    LET native == validateRtpCapabilities(extractRtpCapabilities(offer))
        extended == getExtendedRtpCapabilities(native, validateRtpCapabilities(RouterCaps))
    IN /\ ~device[d].loaded
       /\ device' = [device EXCEPT ![d] =
              [loaded |-> TRUE, native |-> native, extended |-> extended,
               recv |-> validateRtpCapabilities(getRecvRtpCapabilities(extended)),
               canProduce |-> [k \in Kinds |-> canSend(k, extended)]]]
       /\ UNCHANGED <<router, producer, consumer>>

(* transport.produce() with an optional codec of the device's own          *)
(* capabilities; the handler reduces the codecs of the parameters and of   *)
(* the answer, and the server maps the parameters to the router's.         *)
produce(k, capCodec) ==
    LET extended == device["sender"].extended
        sending == getSendingRtpParameters(k, extended)
        remote == getSendingRemoteRtpParameters(k, extended)
        mine == reduceCodecs(sending.codecs, capCodec)
        theirs == reduceCodecs(remote.codecs, capCodec)
        params == [sending EXCEPT !.codecs = mine.codecs]
        answer == [remote EXCEPT !.codecs = theirs.codecs]
        mapping == Server!getProducerRtpParametersMapping(params, RouterCaps)
    IN /\ device["sender"].canProduce[k] /\ producer = NoProducer
       /\ producer' =
              CASE ~mine.ok \/ ~theirs.ok -> [NoProducer EXCEPT !.st = "no matching codec", !.kind = k]
                [] mine.ok /\ theirs.ok /\ ~mapping.ok ->
                       [NoProducer EXCEPT !.st = "unsupported codec", !.kind = k]
                [] OTHER -> [st |-> "produced", kind |-> k, params |-> params, answer |-> answer,
                             mapping |-> mapping.codecs,
                             consumable |-> Server!getConsumableRtpParameters(
                                                k, params, RouterCaps, mapping)]
       /\ UNCHANGED <<router, device, consumer>>

consume ==
    LET params == Server!getConsumerRtpParameters(producer.consumable, device["receiver"].recv)
        received == [codecs |-> params.codecs, headerExtensions |-> params.headerExtensions]
    IN /\ producer.st = "produced" /\ device["receiver"].loaded /\ consumer = NoConsumer
       /\ consumer' =
              CASE ~params.ok -> [NoConsumer EXCEPT !.st = "no compatible codecs"]
                [] params.ok /\ ~canReceive(received, device["receiver"].extended) ->
                       [NoConsumer EXCEPT !.st = "cannot consume"]
                [] OTHER -> [st |-> "consumed", params |-> received,
                             probator |-> generateProbatorRtpParameters(received)]
       /\ UNCHANGED <<router, device, producer>>

CodecChoices(k) ==
    {NoCodec} \cup {c \in ToSet(device["sender"].recv.codecs) : kind(c) = k /\ ~isRtxCodec(c)}

Next ==
    \/ \E d \in Devices, offer \in Offers : load(d, offer)
    \/ \E k \in Kinds : \E codec \in CodecChoices(k) : produce(k, codec)
    \/ consume

Spec == Init /\ [][Next]_vars

-----------------------------------------------------------------------------
(* Properties *)

NoDuplicates(codecs) == Cardinality(PtsOf(codecs)) = Len(codecs)
RtxFollowsMedia(codecs) ==
    \A i \in DOMAIN codecs : isRtxCodec(codecs[i]) =>
        i > 1 /\ ~isRtxCodec(codecs[i - 1]) /\ codecs[i].params.apt = codecs[i - 1].pt

(* Every list of codecs exchanged has distinct payload types, and an RTX   *)
(* codec comes right after the media codec its apt names: reduceCodecs()   *)
(* and the router's allocation of payload types rely on it.                *)
PayloadTypesAgree ==
    /\ NoDuplicates(router.codecs) /\ RtxFollowsMedia(router.codecs)
    /\ \A d \in Devices :
           /\ NoDuplicates(device[d].recv.codecs) /\ RtxFollowsMedia(device[d].recv.codecs)
           /\ \A k \in Kinds :
                  LET codecs == getSendingRtpParameters(k, device[d].extended).codecs
                  IN NoDuplicates(codecs) /\ RtxFollowsMedia(codecs)

(* A device can produce a kind exactly when one of its codecs of that kind *)
(* matches one of the router's, whatever the order of the lists.           *)
CanProduceWhatMatches ==
    \A d \in Devices : device[d].loaded =>
        \A k \in Kinds : device[d].canProduce[k] <=>
            \E a \in ToSet(device[d].native.codecs),
               b \in ToSet(validateRtpCapabilities(RouterCaps).codecs) :
                kind(a) = k /\ ~isRtxCodec(a) /\ matchCodecs(a, b)

(* produce() never fails on codecs, and the server maps every payload type *)
(* sent, RTX included, to the one the client matched it with: the two ends *)
(* compare H.264 profiles by different rules.                              *)
ServerMapsWhatWasMatched ==
    producer # NoProducer =>
        /\ producer.st = "produced"
        /\ producer.answer.codecs # <<>>
        /\ {producer.mapping[i][1] : i \in DOMAIN producer.mapping} = PtsOf(producer.params.codecs)
        /\ \A i \in DOMAIN producer.mapping :
               \E c \in ToSet(device["sender"].extended.codecs) :
                   producer.mapping[i] \in {<<c.localPt, c.remotePt>>, <<c.localRtxPt, c.remoteRtxPt>>}

(* The client produces exactly what both ends have, and the server agrees. *)
ProducedAsMatched == CanProduceWhatMatches /\ ServerMapsWhatWasMatched

(* The server lets a device consume exactly the producers whose codec the  *)
(* device negotiated, and the client then agrees that it can receive it.   *)
ConsumedWhenNegotiated ==
    consumer # NoConsumer =>
        consumer.st =
            IF \E c \in ToSet(device["receiver"].extended.codecs) :
                   c.remotePt = producer.consumable.codecs[1].pt
            THEN "consumed" ELSE "no compatible codecs"

(* The codecs of a consumer have the payload types, and the feedback, of   *)
(* the receiver's own capabilities (ortc.h, and                            *)
(* ConsumerRtpParametersMatchesRemoteCodecWithoutUnnegotiatedRtx); if the  *)
(* receiver has RTX for all or none of its video codecs.                   *)
UniformRtx(caps) ==
    LET media == {c \in ToSet(caps.codecs) : kind(c) = "video" /\ ~isRtxCodec(c)}
        Has(c) == FindRtx(caps.codecs, c.pt) # 0
    IN (\A c \in media : Has(c)) \/ (\A c \in media : ~Has(c))
ConsumerCodecsNegotiated ==
    UniformRtx(device["receiver"].recv) =>
        \A c \in ToSet(consumer.params.codecs) :
            \E r \in ToSet(device["receiver"].recv.codecs) : r.pt = c.pt /\ c.fb \subseteq r.fb

(* A device consumes exactly what it negotiated, in the form it did.       *)
ConsumedAsNegotiated == ConsumedWhenNegotiated /\ ConsumerCodecsNegotiated

(* The answer given to the browser carries one kind of bandwidth feedback: *)
(* Transport-CC when its extension is sent, else REMB.                     *)
OneBandwidthEstimation ==
    LET uris == {e.uri : e \in ToSet(producer.answer.headerExtensions)}
    IN \A c \in ToSet(producer.answer.codecs) : \A fb \in c.fb :
           /\ fb[1] = "transport-cc" => "transport-cc" \in uris
           /\ fb[1] = "goog-remb" => "abs-send-time" \in uris /\ "transport-cc" \notin uris

(* The H.264 level agreed on is the client's when both ends allow levels   *)
(* to differ, else the lower one.  (Level 1b: see minLevel.)               *)
LevelOf(params) == parseSdpProfileLevelId(params).level
NativeCodec(d, pt) ==
    device[d].native.codecs[SelectInSeq(device[d].native.codecs, LAMBDA c : c.pt = pt)]
RouterCodec(pt) == router.codecs[SelectInSeq(router.codecs, LAMBDA c : c.pt = pt)]
LevelIsAgreed ==
    \A d \in Devices : \A c \in ToSet(device[d].extended.codecs) :
        c.mime[2] = "h264" =>
            LET mine == NativeCodec(d, c.localPt).params
                theirs == RouterCodec(c.remotePt).params
                lower == IF LevelOf(mine) < LevelOf(theirs) THEN LevelOf(mine) ELSE LevelOf(theirs)
            IN LevelOf(mine) # L1_b =>
                   /\ LevelOf(c.localParams) = LevelOf(c.remoteParams)
                   /\ LevelOf(c.localParams) =
                          IF isLevelAsymmetryAllowed(mine) THEN LevelOf(mine) ELSE lower

(* The answer the browser is given is one it can apply and send by.        *)
AnswerIsAgreed == OneBandwidthEstimation /\ LevelIsAgreed

=============================================================================
