--------------------------- MODULE MC_Negotiation ---------------------------
(***************************************************************************)
(* Routers and browsers for Negotiation.                                   *)
(***************************************************************************)
EXTENDS Negotiation

(* The media codecs of DefaultMediaCodecs(), and other configurations. *)
MediaCodec(mime, clock, channels, params) == Codec(mime, NoPt, clock, channels, params, {})
MC_Opus == MediaCodec(<<"audio", "opus">>, 48000, 2, NoParams)
MC_Pcmu == MediaCodec(<<"audio", "pcmu">>, 8000, NoChannels, NoParams)
MC_Vp8 == MediaCodec(<<"video", "vp8">>, 90000, NoChannels, NoParams)
MC_Vp9 == MediaCodec(<<"video", "vp9">>, 90000, NoChannels, [x \in {"profile-id"} |-> 0])
MC_Main == MediaCodec(<<"video", "h264">>, 90000, NoChannels, Server!H264(1, "4d00", 50))
MC_Baseline == MediaCodec(<<"video", "h264">>, 90000, NoChannels, Server!H264(1, "42e0", 31))
MC_Configurations ==
    {<<MC_Opus, MC_Main, MC_Baseline, MC_Vp8, MC_Vp9>>,
     <<MC_Vp9, MC_Baseline, MC_Pcmu, MC_Opus>>,
     <<MC_Opus, MC_Vp8>>}

(* Browsers: the codecs offered, which of them have RTX, and extensions. *)
Rtp(payload, codec, rate, encoding) ==
    [payload |-> payload, codec |-> codec, rate |-> rate, encoding |-> encoding]
Fmtp(payload, parameters) == [payload |-> payload, parameters |-> parameters]
H264Offer(mode, digits, level, asymmetry) ==
    [x \in {"packetization-mode", "profile-level-id"}
              \cup (IF asymmetry THEN {"level-asymmetry-allowed"} ELSE {}) |->
        CASE x = "packetization-mode" -> mode
          [] x = "profile-level-id" -> <<digits, level>>
          [] OTHER -> 1]
VideoPool ==
    [vp8 |-> <<Rtp(96, "vp8", 90000, NoChannels), NoParams>>,
     vp9 |-> <<Rtp(98, "vp9", 90000, NoChannels), NoParams>>,
     vp92 |-> <<Rtp(100, "vp9", 90000, NoChannels), [x \in {"profile-id"} |-> 2]>>,
     base |-> <<Rtp(102, "h264", 90000, NoChannels), H264Offer(1, "42c0", 31, TRUE)>>,
     base0 |-> <<Rtp(104, "h264", 90000, NoChannels), H264Offer(0, "42e0", 31, TRUE)>>,
     low |-> <<Rtp(106, "h264", 90000, NoChannels), H264Offer(1, "42e0", 20, FALSE)>>,
     main |-> <<Rtp(108, "h264", 90000, NoChannels), H264Offer(1, "4d40", 31, TRUE)>>,
     default |-> <<Rtp(112, "h264", 90000, NoChannels), [x \in {"packetization-mode"} |-> 1]>>,
     high |-> <<Rtp(114, "h264", 90000, NoChannels), H264Offer(1, "640c", 52, FALSE)>>]
VideoLists ==
    {<<"vp8", "vp9", "base", "base0", "main">>, <<"main", "low", "vp92", "vp9">>, <<"vp8">>,
     <<"base0", "high">>, <<"default", "vp8">>, <<"low", "base", "vp8">>}
Feedbacks(types) == {[payload |-> AllPts, feedback |-> <<t, "">>] : t \in types}
Ext(uri, value, encrypted) == [uri |-> uri, value |-> value, encrypted |-> encrypted]
VideoSection(list, withRtx, exts) ==
    LET media == [i \in DOMAIN list |-> VideoPool[list[i]]]
        rtxs == SelectSeq(media, LAMBDA m : m[1].codec \in withRtx)
        Rtx(m) == Rtp(m[1].payload + 1, "rtx", 90000, NoChannels)
    IN [type |-> "video",
        rtp |-> [i \in DOMAIN media |-> media[i][1]] \o [i \in DOMAIN rtxs |-> Rtx(rtxs[i])],
        fmtp |-> [i \in DOMAIN media |-> Fmtp(media[i][1].payload, media[i][2])]
                 \o [i \in DOMAIN rtxs |-> Fmtp(rtxs[i][1].payload + 1, [apt |-> rtxs[i][1].payload])],
        rtcpFb |-> Feedbacks({"nack", "goog-remb", "transport-cc"}), ext |-> exts]
AudioSection ==
    [type |-> "audio",
     rtp |-> <<Rtp(111, "opus", 48000, 2), Rtp(9, "g722", 8000, NoChannels), Rtp(0, "pcmu", 8000, NoChannels)>>,
     fmtp |-> <<>>, rtcpFb |-> {[payload |-> 111, feedback |-> <<"transport-cc", "">>]},
     ext |-> <<Ext("mid", 4, FALSE)>>]
Extensions ==
    {<<Ext("abs-send-time", 4, FALSE), Ext("transport-cc", 3, FALSE), Ext("mid", 1, FALSE)>>,
     <<Ext("transport-cc", 3, TRUE), Ext("abs-send-time", 2, FALSE), Ext("video-orientation", 11, FALSE)>>,
     <<>>}
MC_Offers ==
    {<<AudioSection, VideoSection(list, rtx, exts)>> :
        list \in VideoLists, rtx \in {{}, {"vp8"}, {"vp8", "vp9", "h264"}}, exts \in Extensions}
    \cup {<<AudioSection>>}

=============================================================================
