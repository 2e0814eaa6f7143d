---------------------------- MODULE RouterOrtc ----------------------------
(***************************************************************************)
(* RTP capability negotiation of the server: ortc.h, with the codecs of    *)
(* supportedRtpCapabilities.h that the default configurations name (ISAC,  *)
(* G722, multiopus, H265 and AV1 are not among them) and the header        *)
(* extensions that differ in kind or direction.  SSRCs and encodings are   *)
(* left out.                                                               *)
(***************************************************************************)
EXTENDS RtpTypes

DynamicPayloadTypes == [i \in 1 .. 32 |-> IF i <= 28 THEN 99 + i ELSE 67 + i]

VideoFeedback ==
    {<<"nack", "">>, <<"nack", "pli">>, <<"ccm", "fir">>, <<"goog-remb", "">>, <<"transport-cc", "">>}
Video(name, pt, params) == Codec(<<"video", name>>, pt, 90000, NoChannels, params, VideoFeedback)
H264(mode, digits, level) ==
    [x \in {"packetization-mode", "profile-level-id", "level-asymmetry-allowed"} |->
        CASE x = "packetization-mode" -> mode
          [] x = "profile-level-id" -> <<digits, level>>
          [] OTHER -> 1]

supportedCodecs ==
    <<Codec(<<"audio", "opus">>, 100, 48000, 2, NoParams, {<<"nack", "">>, <<"transport-cc", "">>}),
      Codec(<<"audio", "pcmu">>, 0, 8000, NoChannels, NoParams, {}),
      Codec(<<"audio", "pcma">>, 8, 8000, NoChannels, NoParams, {}),
      Video("vp8", 101, NoParams),
      Video("vp9", 103, [x \in {"profile-id"} |-> 0]),
      Video("vp9", 105, [x \in {"profile-id"} |-> 2]),
      Video("h264", 107, H264(1, "4d00", 50)),
      Video("h264", 109, H264(0, "4d00", 50)),
      Video("h264", 127, H264(1, "42e0", 31)),
      Video("h264", 126, H264(0, "42e0", 31))>>

Extension(k, uri, id, direction) == [kind |-> k, uri |-> uri, id |-> id, direction |-> direction]
supportedHeaderExtensions ==
    <<Extension("audio", "mid", 1, "sendrecv"), Extension("video", "mid", 1, "sendrecv"),
      Extension("video", "rtp-stream-id", 2, "recvonly"),
      Extension("audio", "abs-send-time", 4, "sendrecv"),
      Extension("video", "abs-send-time", 4, "sendrecv"),
      Extension("audio", "transport-cc", 5, "recvonly"),
      Extension("video", "transport-cc", 5, "recvonly"),
      Extension("video", "video-orientation", 11, "sendrecv")>>

-----------------------------------------------------------------------------

h264ProfilesMatchExactly(a, b) ==
    Param(a, "profile-level-id", <<"4d00", 50>>) = Param(b, "profile-level-id", <<"4d00", 50>>)
h264ProfilesMatch(a, b) ==
    Param(a, "profile-level-id", <<"4d00", 50>>)[1] = Param(b, "profile-level-id", <<"4d00", 50>>)[1]

matchCodecs(a, b, strict) ==
    LET Same(key) == strict => Param(a.params, key, 0) = Param(b.params, key, 0)
    IN /\ a.mime = b.mime /\ a.clock = b.clock
       /\ a.channels > 0 /\ b.channels > 0 => a.channels = b.channels
       /\ a.mime[2] = "h264" =>
              Same("packetization-mode") /\ h264ProfilesMatch(a.params, b.params)
       /\ a.mime[2] = "vp9" => Same("profile-id")

(* The next codec of the configuration and its RTX take payload types: the *)
(* supported one if it is still free, else the first of the pool.          *)
TakeKeeping(pool, pt) == [pt |-> IF Contains(pool, pt) THEN pt ELSE pool[1], pool |-> Tail(pool)]
Take(pool, pt) ==
    LET taken == IF Contains(pool, pt) THEN pt ELSE pool[1]
    IN [pt |-> taken, pool |-> Remove(pool, taken)]
AddCodec(acc, mediaCodec) ==
    LET s == SelectInSeq(supportedCodecs, LAMBDA c : matchCodecs(mediaCodec, c, FALSE))
        base == supportedCodecs[s]
        wanted == IF mediaCodec.pt # NoPt THEN mediaCodec.pt ELSE base.pt
        own == Take(acc.pool, wanted)
        rtx == Take(own.pool, NoPt)
        params == [k \in DOMAIN base.params \cup DOMAIN mediaCodec.params |->
                       Param(mediaCodec.params, k, Param(base.params, k, 0))]
        codec == [base EXCEPT !.pt = own.pt, !.params = params]
    IN IF s = 0 \/ ~acc.ok \/ Len(acc.pool) < 2 THEN [acc EXCEPT !.ok = FALSE]
       ELSE [acc EXCEPT !.pool = rtx.pool,
                        !.codecs = @ \o <<codec, RtxCodec(codec, rtx.pt, codec.pt)>>]
generateRouterRtpCapabilities(mediaCodecs) ==
    LET added == FoldLeft(AddCodec, [ok |-> TRUE, pool |-> DynamicPayloadTypes, codecs |-> <<>>],
                          mediaCodecs)
    IN [ok |-> added.ok, codecs |-> added.codecs, headerExtensions |-> supportedHeaderExtensions]

-----------------------------------------------------------------------------
(* The mapping of a producer's payload types: its media codecs, then the   *)
(* RTX ones whose media codec is mapped.                                   *)
Media(codecs) == SelectSeq(codecs, LAMBDA c : ~isRtxCodec(c))
Rtxs(codecs) == SelectSeq(codecs, isRtxCodec)
CapabilityOf(codec, caps) ==
    SelectInSeq(caps.codecs, LAMBDA c : ~isRtxCodec(c) /\ matchCodecs(codec, c, TRUE))
RtxOf(caps, pt) ==
    SelectInSeq(caps.codecs, LAMBDA c : isRtxCodec(c) /\ Param(c.params, "apt", NoPt) = pt)

getProducerRtpParametersMapping(params, caps) ==
    LET media == Media(params.codecs)
        mapped == [i \in DOMAIN media |->
                      <<media[i].pt, caps.codecs[CapabilityOf(media[i], caps)].pt>>]
        OfRtx(codec) ==
            LET m == SelectInSeq(mapped, LAMBDA pair : pair[1] = Param(codec.params, "apt", NoPt))
                r == IF m = 0 THEN 0 ELSE RtxOf(caps, mapped[m][2])
            IN IF r = 0 THEN <<>> ELSE <<<<codec.pt, caps.codecs[r].pt>>>>
        rtxs == Rtxs(params.codecs)
    IN IF \E i \in DOMAIN media : CapabilityOf(media[i], caps) = 0
       THEN [ok |-> FALSE, codecs |-> <<>>]
       ELSE [ok |-> TRUE,
             codecs |-> mapped \o FlattenSeq([i \in DOMAIN rtxs |-> OfRtx(rtxs[i])])]

getConsumableRtpParameters(k, params, caps, mapping) ==
    LET CapOf(pt) == caps.codecs[SelectInSeq(caps.codecs, LAMBDA c : c.pt = pt)]
        Known(ext) == \E i \in DOMAIN caps.headerExtensions :
            caps.headerExtensions[i].kind = k /\ caps.headerExtensions[i].uri = ext.uri
    IN [codecs |-> [i \in DOMAIN mapping.codecs |-> CapOf(mapping.codecs[i][2])],
        headerExtensions |-> SelectSeq(params.headerExtensions, Known)]

KeptFeedback(codec, remoteCodec) == codec.fb
MatchedFeedback(codec, remoteCodec) == codec.fb \cap remoteCodec.fb
(* An RTX codec is matched by name and clock rate alone, and kept when its *)
(* media codec is.                                                         *)
WithoutOrphanRtx(codecs) ==
    SelectSeq(codecs, LAMBDA c :
        isRtxCodec(c) => Param(c.params, "apt", NoPt) \in PtsOf(Media(codecs)))
getConsumerRtpParameters(consumable, caps) ==
    LET Remote(codec) == SelectInSeq(caps.codecs, LAMBDA c : matchCodecs(codec, c, TRUE))
        matched == SelectSeq(consumable.codecs, LAMBDA c : Remote(c) # 0)
        reduced == [i \in DOMAIN matched |->
                       [matched[i] EXCEPT !.fb = MatchedFeedback(matched[i], caps.codecs[Remote(matched[i])])]]
        codecs == WithoutOrphanRtx(reduced)
        Understood(ext) == \E i \in DOMAIN caps.headerExtensions :
            caps.headerExtensions[i].uri = ext.uri /\ caps.headerExtensions[i].id = ext.id
    IN IF codecs = <<>> \/ isRtxCodec(codecs[1])
       THEN [ok |-> FALSE, codecs |-> <<>>, headerExtensions |-> <<>>]
       ELSE [ok |-> TRUE, codecs |-> codecs,
             headerExtensions |-> SelectSeq(consumable.headerExtensions, Understood)]

=============================================================================
