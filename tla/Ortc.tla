-------------------------------- MODULE Ortc --------------------------------
(***************************************************************************)
(* RTP capability negotiation of the browser client: lib/ortc.js, with the *)
(* H.264 rules of the h264-profile-level-id package it calls.              *)
(* An operator that may throw gives a record with a field "ok".           *)
(***************************************************************************)
EXTENDS RtpTypes

-----------------------------------------------------------------------------
(* H.264 profiles and levels *)

L1_b == 0
Levels == {10, 11, 12, 13, 20, 21, 22, 30, 31, 32, 40, 41, 42, 50, 51, 52}
Unparsed == [profile |-> "none", level |-> -1]
DefaultProfileLevelId == [profile |-> "ConstrainedBaseline", level |-> 31]

(* ProfilePatterns, by the profile_idc and profile_iop of the identifiers  *)
(* in use; the ones with constraint_set3_flag name level 1b.               *)
ProfilePatterns ==
    [ConstrainedBaseline |-> {"42e0", "42c0", "42f0", "4de0"},
     Baseline |-> {"4200", "4210"},
     Main |-> {"4d00", "4d40", "4d10"},
     High |-> {"6400"},
     ConstrainedHigh |-> {"640c"}]
ConstraintSet3 == {"42f0", "4210", "4d10"}

parseProfileLevelId(id) ==
    LET profiles == {p \in DOMAIN ProfilePatterns : id[1] \in ProfilePatterns[p]}
    IN IF profiles = {} \/ id[2] \notin Levels THEN Unparsed
       ELSE [profile |-> CHOOSE p \in profiles : TRUE,
             level |-> IF id[2] = 11 /\ id[1] \in ConstraintSet3 THEN L1_b ELSE id[2]]
parseSdpProfileLevelId(params) ==
    IF "profile-level-id" \in DOMAIN params
    THEN parseProfileLevelId(params["profile-level-id"]) ELSE DefaultProfileLevelId

(* Level 1b has no identifier in the High profiles. *)
NoId == <<>>
profileLevelIdToString(p) ==
    LET digits == [ConstrainedBaseline |-> "42e0", Baseline |-> "4200", Main |-> "4d00",
                   High |-> "6400", ConstrainedHigh |-> "640c"]
        with1b == [ConstrainedBaseline |-> "42f0", Baseline |-> "4210", Main |-> "4d10"]
    IN IF p.level # L1_b THEN <<digits[p.profile], p.level>>
       ELSE IF p.profile \in DOMAIN with1b THEN <<with1b[p.profile], 11>> ELSE NoId

isSameProfile(params1, params2) ==
    LET p1 == parseSdpProfileLevelId(params1)
        p2 == parseSdpProfileLevelId(params2)
    IN p1 # Unparsed /\ p2 # Unparsed /\ p1.profile = p2.profile

isLessLevel(a, b) ==
    CASE a = L1_b -> b # 10 /\ b # L1_b
      [] a # L1_b /\ b = L1_b -> a # 10
      [] OTHER -> a < b
minLevelSwapped(a, b) == IF isLessLevel(a, b) THEN b ELSE a
minLevel(a, b) == IF isLessLevel(a, b) THEN a ELSE b
isLevelAsymmetryAllowed(params) == Param(params, "level-asymmetry-allowed", 0) = 1

generateProfileLevelIdStringForAnswer(localParams, remoteParams) ==
    LET p1 == parseSdpProfileLevelId(localParams)
        p2 == parseSdpProfileLevelId(remoteParams)
        level == IF isLevelAsymmetryAllowed(localParams) /\ isLevelAsymmetryAllowed(remoteParams)
                 THEN p1.level ELSE minLevel(p1.level, p2.level)
    IN IF "profile-level-id" \notin DOMAIN localParams \cup DOMAIN remoteParams THEN NoId
       ELSE profileLevelIdToString([profile |-> p1.profile, level |-> level])

-----------------------------------------------------------------------------
(* Matching *)

matchCodecs(a, b) ==
    /\ a.mime = b.mime /\ a.clock = b.clock /\ a.channels = b.channels
    /\ a.mime[2] = "h264" =>
           /\ Param(a.params, "packetization-mode", 0) = Param(b.params, "packetization-mode", 0)
           /\ isSameProfile(a.params, b.params)
    /\ a.mime[2] = "vp9" => Param(a.params, "profile-id", 0) = Param(b.params, "profile-id", 0)

(* What a match with "modify" leaves in the parameters of one side. *)
Modified(codec, a, b) ==
    LET selected == generateProfileLevelIdStringForAnswer(a.params, b.params) IN
    CASE codec.mime[2] # "h264" -> codec
      [] codec.mime[2] = "h264" /\ selected = NoId ->
             [codec EXCEPT !.params = DropParam(@, "profile-level-id")]
      [] OTHER -> [codec EXCEPT !.params = SetParam(@, "profile-level-id", selected)]

matchHeaderExtensions(a, b) == a.kind = b.kind /\ a.uri = b.uri
reduceRtcpFeedback(a, b) == a.fb \cap b.fb

(* The first codec of the list that passes the test, or 0: Array.find(). *)
FindMatchByName(codecs, codec) ==
    LET i == SelectInSeq(codecs, LAMBDA c : c.mime = codec.mime)
    IN IF i # 0 /\ matchCodecs(codecs[i], codec) THEN i ELSE 0
FindMatch(codecs, codec) == SelectInSeq(codecs, LAMBDA c : matchCodecs(c, codec))
FindRtx(codecs, pt) ==
    SelectInSeq(codecs, LAMBDA c : isRtxCodec(c) /\ Param(c.params, "apt", NoPt) = pt)

-----------------------------------------------------------------------------
(* Validation of capabilities fills in what is absent. *)

validateRtpCodecCapability(codec) ==
    [codec EXCEPT !.channels = IF kind(codec) = "video" THEN NoChannels
                               ELSE IF @ = NoChannels THEN 1 ELSE @]
validateRtpHeaderExtension(ext) ==
    [ext EXCEPT !.direction = IF @ = "" THEN "sendrecv" ELSE @]
validateRtpCapabilities(caps) ==
    [codecs |-> [i \in DOMAIN caps.codecs |-> validateRtpCodecCapability(caps.codecs[i])],
     headerExtensions |-> [i \in DOMAIN caps.headerExtensions |->
                              validateRtpHeaderExtension(caps.headerExtensions[i])]]

-----------------------------------------------------------------------------
(* The native capabilities, from the offer of a probe RTCPeerConnection    *)
(* (handlers/sdp/commonUtils.js): its first audio and first video section. *)
(* A feedback of payload AllPts ('*') is for all codecs but the RTX ones.  *)
AllPts == -1
SectionOf(sections, k) ==
    LET i == SelectInSeq(sections, LAMBDA m : m.type = k)
    IN IF i = 0 THEN <<>> ELSE <<sections[i]>>
CodecOf(m, rtp) ==
    LET f == SelectLastInSeq(m.fmtp, LAMBDA fmtp : fmtp.payload = rtp.payload)
        isRtx == rtp.codec = "rtx"
        fbs == {x \in m.rtcpFb : x.payload = rtp.payload \/ (x.payload = AllPts /\ ~isRtx)}
    IN Codec(<<m.type, rtp.codec>>, rtp.payload, rtp.rate, rtp.encoding,
             IF f = 0 THEN NoParams ELSE m.fmtp[f].parameters, {x.feedback : x \in fbs})
ExtensionsOf(m) ==
    LET plain == SelectSeq(m.ext, LAMBDA e : ~e.encrypted)
    IN [i \in DOMAIN plain |->
           [kind |-> m.type, uri |-> plain[i].uri, id |-> plain[i].value, direction |-> ""]]
extractRtpCapabilities(sections) ==
    LET used == SelectSeq(sections, LAMBDA m : m.type \in Kinds /\ <<m>> = SectionOf(sections, m.type))
    IN [codecs |-> FlattenSeq([j \in DOMAIN used |->
                       [i \in DOMAIN used[j].rtp |-> CodecOf(used[j], used[j].rtp[i])]]),
        headerExtensions |-> FlattenSeq([j \in DOMAIN used |-> ExtensionsOf(used[j])])]

-----------------------------------------------------------------------------
(* getExtendedRtpCapabilities() *)

(* The media codecs that match, in the order of the remote ones.  A match  *)
(* rewrites the parameters of both codecs, and the extended codec shares   *)
(* them, so "pairs" keeps positions until all are matched.                 *)
MatchRemoteCodec(acc, r) ==
    LET remoteCodec == acc.remote[r]
        l == IF isRtxCodec(remoteCodec) THEN 0 ELSE FindMatch(acc.local, remoteCodec)
    IN IF l = 0 THEN acc
       ELSE [local |-> [acc.local EXCEPT ![l] = Modified(@, acc.local[l], remoteCodec)],
             remote |-> [acc.remote EXCEPT ![r] = Modified(@, acc.local[l], remoteCodec)],
             pairs |-> Append(acc.pairs, <<l, r>>)]

ExtendedCodec(acc, i) ==
    LET a == acc.local[acc.pairs[i][1]]
        b == acc.remote[acc.pairs[i][2]]
        localRtx == FindRtx(acc.local, a.pt)
        remoteRtx == FindRtx(acc.remote, b.pt)
        hasRtx == localRtx # 0 /\ remoteRtx # 0
    IN [mime |-> a.mime, clock |-> a.clock, channels |-> a.channels,
        localPt |-> a.pt, remotePt |-> b.pt,
        localRtxPt |-> IF hasRtx THEN acc.local[localRtx].pt ELSE NoPt,
        remoteRtxPt |-> IF hasRtx THEN acc.remote[remoteRtx].pt ELSE NoPt,
        localParams |-> a.params, remoteParams |-> b.params,
        fb |-> reduceRtcpFeedback(a, b)]

Opposite(direction) ==
    CASE direction = "recvonly" -> "sendonly"
      [] direction = "sendonly" -> "recvonly"
      [] OTHER -> direction
ExtendedExtension(localExts, remoteExt) ==
    LET l == SelectInSeq(localExts, LAMBDA e : matchHeaderExtensions(e, remoteExt))
    IN IF l = 0 THEN <<>>
       ELSE <<[kind |-> remoteExt.kind, uri |-> remoteExt.uri, sendId |-> localExts[l].id,
               recvId |-> remoteExt.id, direction |-> Opposite(remoteExt.direction)]>>

getExtendedRtpCapabilities(localCaps, remoteCaps) ==
    LET matched == FoldLeftDomain(MatchRemoteCodec,
                       [local |-> localCaps.codecs, remote |-> remoteCaps.codecs, pairs |-> <<>>],
                       remoteCaps.codecs)
        exts == remoteCaps.headerExtensions
    IN [codecs |-> [i \in DOMAIN matched.pairs |-> ExtendedCodec(matched, i)],
        headerExtensions |-> FlattenSeq([i \in DOMAIN exts |->
                                 ExtendedExtension(localCaps.headerExtensions, exts[i])])]

-----------------------------------------------------------------------------
(* What is derived from the extended capabilities *)

RtxOrNone(media, pt, apt) == IF pt = NoPt THEN <<>> ELSE <<RtxCodec(media, pt, apt)>>

RecvCodecs(codec) ==
    <<Codec(codec.mime, codec.remotePt, codec.clock, codec.channels, codec.localParams, codec.fb)>>
    \o RtxOrNone(codec, codec.remoteRtxPt, codec.remotePt)
getRecvRtpCapabilities(extended) ==
    LET exts == SelectSeq(extended.headerExtensions,
                          LAMBDA e : e.direction \in {"sendrecv", "recvonly"})
    IN [codecs |-> FlattenSeq([i \in DOMAIN extended.codecs |-> RecvCodecs(extended.codecs[i])]),
        headerExtensions |-> [i \in DOMAIN exts |->
            [kind |-> exts[i].kind, uri |-> exts[i].uri, id |-> exts[i].recvId,
             direction |-> exts[i].direction]]]

OfKind(extended, k) == SelectSeq(extended.codecs, LAMBDA c : kind(c) = k)
SendExtensions(extended, k) ==
    LET exts == SelectSeq(extended.headerExtensions,
                          LAMBDA e : e.kind = k /\ e.direction \in {"sendrecv", "sendonly"})
    IN [i \in DOMAIN exts |-> [uri |-> exts[i].uri, id |-> exts[i].sendId]]

SendCodecs(codec, params, fb) ==
    <<Codec(codec.mime, codec.localPt, codec.clock, codec.channels, params, fb)>>
    \o RtxOrNone(codec, codec.localRtxPt, codec.localPt)
getSendingRtpParameters(k, extended) ==
    LET codecs == OfKind(extended, k)
    IN [codecs |-> FlattenSeq([i \in DOMAIN codecs |->
                       SendCodecs(codecs[i], codecs[i].localParams, codecs[i].fb)]),
        headerExtensions |-> SendExtensions(extended, k)]

(* Transport-CC if its extension is negotiated, REMB otherwise. *)
RefusedFeedbackAlways(exts) == {"goog-remb"}
RefusedFeedback(exts) ==
    LET uris == {exts[i].uri : i \in DOMAIN exts} IN
    CASE "transport-cc" \in uris -> {"goog-remb"}
      [] "transport-cc" \notin uris /\ "abs-send-time" \in uris -> {"transport-cc"}
      [] OTHER -> {"transport-cc", "goog-remb"}
getSendingRemoteRtpParameters(k, extended) ==
    LET codecs == OfKind(extended, k)
        exts == SendExtensions(extended, k)
        Kept(fbs) == {fb \in fbs : fb[1] \notin RefusedFeedback(exts)}
    IN [codecs |-> FlattenSeq([i \in DOMAIN codecs |->
                       SendCodecs(codecs[i], codecs[i].remoteParams, Kept(codecs[i].fb))]),
        headerExtensions |-> exts]

(* The first codec, or the one compatible with capCodec, with the RTX that *)
(* follows it.                                                             *)
NoCodec == [mime |-> <<"none", "none">>]
WithRtx(codecs, i) ==
    IF i < Len(codecs) /\ isRtxCodec(codecs[i + 1]) THEN SubSeq(codecs, i, i + 1)
    ELSE <<codecs[i]>>
reduceCodecs(codecs, capCodec) ==
    LET i == IF capCodec = NoCodec THEN 1 ELSE FindMatch(codecs, capCodec)
    IN IF i = 0 THEN [ok |-> FALSE, codecs |-> <<>>]
       ELSE [ok |-> TRUE, codecs |-> WithRtx(codecs, i)]

ProbatorPt == 127
generateProbatorRtpParameters(params) ==
    [codecs |-> <<[params.codecs[1] EXCEPT !.pt = ProbatorPt]>>,
     headerExtensions |-> params.headerExtensions]

canSend(k, extended) == \E i \in DOMAIN extended.codecs : kind(extended.codecs[i]) = k
canReceiveLocal(params, extended) ==
    /\ params.codecs # <<>>
    /\ \E i \in DOMAIN extended.codecs : extended.codecs[i].localPt = params.codecs[1].pt
canReceive(params, extended) ==
    /\ params.codecs # <<>>
    /\ \E i \in DOMAIN extended.codecs : extended.codecs[i].remotePt = params.codecs[1].pt

=============================================================================
