--------------------------- MODULE HandlerRuntime ---------------------------
(***************************************************************************)
(* The steps of the handlers' methods.  A method in progress is a record m *)
(* (its arguments, its locals and where it is) next to the handler h, the  *)
(* peer connection pc and the remote description sdp it works on; a step   *)
(* is a function on s = [h, pc, sdp, m].                                   *)
(*                                                                         *)
(*   h.map      send: localId -> transceiver (Unified-Plan) or track       *)
(*              recv: localId -> transceiver, or MID (Plan-B)              *)
(*   h.stream   the tracks of _sendStream (Plan-B)                         *)
(*   m.list     the tracks or localIds the method was called with          *)
(*   m.ret      the method has ended; m.err: by throwing                   *)
(***************************************************************************)
EXTENDS PeerConnection, HandlerInterface, TLC

-----------------------------------------------------------------------------
(* The handlers a Device chooses from, by name *)

C111 == INSTANCE Chrome111
C74 == INSTANCE Chrome74
C70 == INSTANCE Chrome70
C67 == INSTANCE Chrome67
C55 == INSTANCE Chrome55
F120 == INSTANCE Firefox120
F60 == INSTANCE Firefox60
S12 == INSTANCE Safari12
S11 == INSTANCE Safari11
RNUP == INSTANCE ReactNativeUnifiedPlan
RN == INSTANCE ReactNative
E11 == INSTANCE Edge11
Fake == INSTANCE FakeHandler

(* The switch of Device's constructor, with the test handler.              *)
Methods ==
    [Chrome111 |-> C111!methods, Chrome74 |-> C74!methods,
     Chrome70 |-> C70!methods, Chrome67 |-> C67!methods,
     Chrome55 |-> C55!methods, Firefox120 |-> F120!methods,
     Firefox60 |-> F60!methods, Safari12 |-> S12!methods,
     Safari11 |-> S11!methods, ReactNativeUnifiedPlan |-> RNUP!methods,
     ReactNative |-> RN!methods, Edge11 |-> E11!methods,
     FakeHandler |-> Fake!methods]

Constructors ==
    [Chrome111 |-> C111!constructor, Chrome74 |-> C74!constructor,
     Chrome70 |-> C70!constructor, Chrome67 |-> C67!constructor,
     Chrome55 |-> C55!constructor, Firefox120 |-> F120!constructor,
     Firefox60 |-> F60!constructor, Safari12 |-> S12!constructor,
     Safari11 |-> S11!constructor, ReactNativeUnifiedPlan |-> RNUP!constructor,
     ReactNative |-> RN!constructor, Edge11 |-> E11!constructor,
     FakeHandler |-> Fake!constructor]

HandlerNames == DOMAIN Methods

(* Handlers whose methods are the same step for step behave alike: one of  *)
(* them stands for all.                                                    *)
Representative(name) ==
    CHOOSE n \in HandlerNames :
        /\ Methods[n] = Methods[name]
        /\ Constructors[n] = Constructors[name]

-----------------------------------------------------------------------------
(* The steps *)

ProbatorTrack == 50

(* A method about to run; its arguments are filled in by the caller.       *)
NoLocalId == -1
NewCall(kind, method) ==
    [kind |-> kind, method |-> method, key |-> 0, list |-> <<>>, track |-> 0,
     localId |-> NoLocalId, tr |-> 0, idx |-> 0, reuse |-> NoMid,
     offer |-> <<>>, desc |-> <<>>, res |-> <<>>, batch |-> <<>>, old |-> 0,
     ip |-> 0, wait |-> FALSE, ret |-> FALSE, err |-> FALSE, phase |-> "start"]

Throw(s) == [s EXCEPT !.m.ret = TRUE, !.m.err = TRUE]
Return(s) == [s EXCEPT !.m.ret = TRUE]
Require(cond, s, then) == IF cond THEN then ELSE Throw(s)

SetMap(f, key, val) ==
    [k \in DOMAIN f \cup {key} |-> IF k = key THEN val ELSE f[k]]
DropMap(f, keys) == [k \in DOMAIN f \ keys |-> f[k]]

(* A loop over m.list whose body may throw.                                *)
ForEach(s, Body(_, _)) ==
    FoldLeft(LAMBDA acc, x : IF acc.m.ret THEN acc ELSE Body(acc, x), s, s.m.list)

MidOf(s, track) == IF s.pc.planB THEN KindMid(track) ELSE track
SectionOf(s) == s.pc.trs[s.m.tr].mid

-----------------------------------------------------------------------------
(* Steps that do not wait: guards *)

Guard(i, s) ==
    CASE i = "assertNotClosed" -> Require(~s.h.closed, s, s)
      [] i = "assertSendDirection" -> Require(s.h.dir = "send", s, s)
      [] i = "assertRecvDirection" -> Require(s.h.dir = "recv", s, s)
      [] i = "unsupported" -> Throw(s)
      [] i = "returnIfClosed" -> IF s.h.closed THEN Return(s) ELSE s
      [] i = "returnUnlessReady" -> IF s.h.ready THEN s ELSE Return(s)
      [] i = "returnIfDataSection" -> IF s.h.hasData THEN Return(s) ELSE s
      [] i = "returnIfStable" -> IF s.pc.sig = "stable" THEN Return(s) ELSE s
      [] i = "requireTransceiver" -> Require(s.m.tr # 0, s, s)
      [] i = "requireLocalId" ->
             Require(s.m.localId \in DOMAIN s.h.map, s, s)

Guards ==
    {"assertNotClosed", "assertSendDirection", "assertRecvDirection",
     "unsupported", "returnIfClosed", "returnUnlessReady",
     "returnIfDataSection", "returnIfStable", "requireTransceiver",
     "requireLocalId"}

-----------------------------------------------------------------------------
(* Steps that do not wait: the sending side *)

SendStep(i, s) ==
    CASE i = "getNextMediaSectionIdx" ->
             LET next == getNextMediaSectionIdx(s.sdp)
             IN  [s EXCEPT !.m.idx = next.idx, !.m.reuse = next.reuseMid]
      [] i = "addTransceiver" ->
             Require(~IsClosed(s.pc), s,
                 [s EXCEPT !.pc.trs = Append(@, NewTransceiver(s.m.track, NoMid, 0)),
                           !.m.tr = Len(s.pc.trs) + 1])
      [] i = "getTransceiver" ->
             [s EXCEPT !.m.tr = IF s.m.localId \in DOMAIN s.h.map
                                THEN s.h.map[s.m.localId] ELSE 0]
      [] i = "readLocalId" -> [s EXCEPT !.m.localId = SectionOf(s)]
         \* offerMediaObject is localSdpObject.media[idx], or the last one
      [] i = "remoteSend" ->
             Require(s.m.idx \in DOMAIN s.pc.lines, s,
                 [s EXCEPT !.sdp = send(@, s.pc.lines[s.m.idx].mid, s.m.reuse)])
      [] i = "remoteSendLast" ->
             [s EXCEPT !.sdp = send(@, s.pc.lines[Len(s.pc.lines)].mid, NoMid)]
      [] i = "remoteSendKind" ->
             [s EXCEPT !.sdp = send(@, KindMid(s.m.track), NoMid)]
      [] i = "storeTransceiver" ->
             [s EXCEPT !.h.map = SetMap(@, s.m.localId, s.m.tr)]
      [] i = "deleteLocalId" -> [s EXCEPT !.h.map = DropMap(@, {s.m.localId})]
      [] i = "removeTrack" ->
             Require(~IsClosed(s.pc), s,
                 [s EXCEPT !.pc.trs[s.m.tr].active = FALSE,
                           !.pc.trs[s.m.tr].track = 0])
      [] i = "closeMediaSection" ->
             Require(HasMid(s.sdp, SectionOf(s)), s,
                 [s EXCEPT !.sdp = closeMediaSection(@, SectionOf(s)),
                           !.pc.trs[s.m.tr].stopped =
                               @ \/ ClosesSection(s.sdp, SectionOf(s))])
      [] i = "disableMediaSection" ->
             Require(HasMid(s.sdp, SectionOf(s)), s,
                 [s EXCEPT !.sdp = disableMediaSection(@, SectionOf(s))])
      [] i = "pauseMediaSection" ->
             Require(HasMid(s.sdp, s.m.localId), s,
                 [s EXCEPT !.sdp = pauseMediaSection(@, s.m.localId)])
      [] i = "resumeMediaSection" ->
             Require(HasMid(s.sdp, s.m.localId), s,
                 [s EXCEPT !.sdp = resumeMediaSection(@, s.m.localId)])
      [] i = "setInactive" -> [s EXCEPT !.pc.trs[s.m.tr].active = FALSE]
      [] i = "setSendonly" -> [s EXCEPT !.pc.trs[s.m.tr].active = TRUE]
         \* muxSimulcastStreams only changes the list of simulcast streams
      [] i = "muxMediaSectionSimulcast" ->
             Require(HasMid(s.sdp, s.m.localId), s, s)

SendSteps ==
    {"getNextMediaSectionIdx", "addTransceiver", "getTransceiver",
     "readLocalId", "remoteSend", "remoteSendLast", "remoteSendKind", "storeTransceiver",
     "deleteLocalId", "removeTrack", "closeMediaSection",
     "disableMediaSection", "pauseMediaSection", "resumeMediaSection",
     "setInactive", "setSendonly", "muxMediaSectionSimulcast"}

-----------------------------------------------------------------------------
(* Steps that do not wait: tracks and local ids of the older handlers *)

TrackStep(i, s) ==
    CASE i = "streamAddTrack" -> [s EXCEPT !.h.stream = @ \cup {s.m.track}]
      [] i = "streamRemoveTrack" ->
             [s EXCEPT !.h.stream = @ \ {s.h.map[s.m.localId]}]
      [] i = "streamReplaceTrack" ->
             [s EXCEPT !.h.stream = (@ \ {s.m.old}) \cup {s.m.track}]
      [] i = "pcAddTrack" ->
             Require(~IsClosed(s.pc), s, [s EXCEPT !.pc.tracks = @ \cup {s.m.track}])
      [] i = "pcRemoveTrack" ->
             Require(~IsClosed(s.pc), s,
                 [s EXCEPT !.pc.tracks = @ \ {s.h.map[s.m.localId]}])
      [] i = "pcAddStream" ->
             Require(~IsClosed(s.pc), s, [s EXCEPT !.pc.tracks = s.h.stream])
      [] i = "getSenderTrack" -> [s EXCEPT !.m.old = s.h.map[s.m.localId]]
      [] i = "nextLocalId" ->
             [s EXCEPT !.m.localId = s.h.nextLocalId, !.h.nextLocalId = @ + 1]
      [] i = "storeTrack" ->
             [s EXCEPT !.h.map = SetMap(@, s.m.localId, s.m.track)]

TrackSteps ==
    {"streamAddTrack", "streamRemoveTrack", "streamReplaceTrack", "pcAddTrack",
     "pcRemoveTrack", "pcAddStream", "getSenderTrack", "nextLocalId", "storeTrack"}

-----------------------------------------------------------------------------
(* Steps that do not wait: the receiving side *)

RecvStep(i, s) ==
    CASE i = "remoteReceive" ->
             ForEach(s, LAMBDA acc, track :
                 [acc EXCEPT !.sdp = receive(@, MidOf(s, track), track)])
      [] i = "storeReceivers" ->
             ForEach(s, LAMBDA acc, track :
                 Require(WithMid(acc.pc, track) # 0, acc,
                     [acc EXCEPT !.h.map = SetMap(@, track, WithMid(acc.pc, track)),
                                 !.m.res = Append(@, track)]))
      [] i = "storeTracks" ->
             ForEach(s, LAMBDA acc, track :
                 Require(track \in acc.pc.tracks, acc,
                     [acc EXCEPT !.h.map = SetMap(@, track, MidOf(s, track)),
                                 !.m.res = Append(@, track)]))
      [] i = "closeReceivers" ->
             ForEach(s, LAMBDA acc, id :
                 Require(id \in DOMAIN acc.h.map, acc,
                     [acc EXCEPT !.sdp = closeMediaSection(@, id)]))
      [] i = "planBStopReceiving" ->
             ForEach(s, LAMBDA acc, id :
                 Require(id \in DOMAIN acc.h.map, acc,
                     [acc EXCEPT !.sdp = planBStopReceiving(@, acc.h.map[id], id),
                                 !.h.map = DropMap(@, {id})]))
      [] i = "deleteReceivers" ->
             [s EXCEPT !.h.map = DropMap(@, ToSet(s.m.list))]
      [] i = "pauseReceivers" ->
             ForEach(s, LAMBDA acc, id :
                 Require(id \in DOMAIN acc.h.map, acc,
                     [acc EXCEPT !.pc.trs[acc.h.map[id]].active = FALSE,
                                 !.sdp = pauseMediaSection(@, id)]))
      [] i = "resumeReceivers" ->
             ForEach(s, LAMBDA acc, id :
                 Require(id \in DOMAIN acc.h.map, acc,
                     [acc EXCEPT !.pc.trs[acc.h.map[id]].active = TRUE,
                                 !.sdp = resumeMediaSection(@, id)]))
         \* the next track of the list: one receiver object per track
      [] i = "storeReceiver" ->
             [s EXCEPT !.h.map = SetMap(@, Head(s.m.list), 0),
                       !.m.res = Append(@, Head(s.m.list)),
                       !.m.list = Tail(@)]
      [] i = "returnIfNoMore" -> IF s.m.list = <<>> THEN Return(s) ELSE s
      [] i = "storeFakeTracks" ->
             ForEach(s, LAMBDA acc, track :
                 [acc EXCEPT !.h.map = SetMap(@, acc.h.nextLocalId, track),
                             !.m.res = Append(@, acc.h.nextLocalId),
                             !.h.nextLocalId = @ + 1])
      [] i = "dropReceivers" ->
             ForEach(s, LAMBDA acc, id :
                 Require(id \in DOMAIN acc.h.map, acc,
                     [acc EXCEPT !.h.map = DropMap(@, {id})]))

RecvSteps ==
    {"remoteReceive", "storeReceivers", "storeTracks", "closeReceivers",
     "planBStopReceiving", "deleteReceivers", "pauseReceivers",
     "resumeReceivers", "storeReceiver", "returnIfNoMore", "storeFakeTracks", "dropReceivers"}

-----------------------------------------------------------------------------
(* Steps that do not wait: the transport and its data channels *)

TransportStep(i, s) ==
    CASE i = "newRemoteSdp" -> [s EXCEPT !.sdp = NewRemoteSdp]
      [] i = "newPc" -> [s EXCEPT !.pc = NewPeerConnection(FALSE)]
      [] i = "newPlanBPc" -> [s EXCEPT !.pc = NewPeerConnection(TRUE)]
      [] i = "setClosed" -> [s EXCEPT !.h.closed = TRUE]
      [] i = "closePc" -> [s EXCEPT !.pc = ClosePc(@)]
      [] i = "setConfiguration" -> Require(~IsClosed(s.pc), s, s)
      [] i = "updateIceParameters" ->
             [s EXCEPT !.sdp = updateIceParameters(@, @.ice + 1)]
         \* the remote role is the opposite of the local one, client
      [] i = "updateDtlsRole" ->
             IF s.h.ready THEN s
             ELSE [s EXCEPT !.sdp = updateDtlsRole(@, "server")]
      [] i = "setReady" -> [s EXCEPT !.h.ready = TRUE]
      [] i = "createDataChannel" ->
             Require(~IsClosed(s.pc), s,
                 [s EXCEPT !.pc.data = TRUE, !.m.localId = s.h.nextStream])
      [] i = "nextStreamId" -> [s EXCEPT !.h.nextStream = (@ + 1) % 1024]
         \* FakeHandler returns the id after the channel's own
      [] i = "nextFakeStreamId" ->
             [s EXCEPT !.h.nextStream = @ + 1, !.m.localId = s.h.nextStream + 1]
      [] i = "openDataChannel" ->
             Require(~IsClosed(s.pc), s, [s EXCEPT !.pc.data = TRUE])
      [] i = "sendSctpAssociation" ->
             [s EXCEPT !.sdp = sendSctpAssociation(@,
                 s.m.offer[Min0({k \in DOMAIN s.m.offer :
                                     s.m.offer[k].own = DataOwner})].mid)]
      [] i = "receiveSctpAssociation" ->
             [s EXCEPT !.sdp = receiveSctpAssociation(@)]
      [] i = "setDataSection" -> [s EXCEPT !.h.hasData = TRUE]

-----------------------------------------------------------------------------
(* Awaited calls: what they have done when the method continues.  A call   *)
(* on a closed peer connection fails; fault makes any other one fail.      *)

AwaitStep(i, s) ==
    CASE i = "createOffer" ->
             Require(~CreateOfferFails(s.pc), s,
                 [s EXCEPT !.m.offer = OfferLines(s.pc), !.pc = CreateOffer(@)])
      [] i = "setLocalOffer" ->
             Require(~SetLocalOfferFails(s.pc, s.m.offer), s,
                 [s EXCEPT !.pc = SetLocalOffer(@, s.m.offer)])
         \* the error is ignored when nothing is being sent
      [] i = "setLocalOfferOrNoTracks" ->
             IF SetLocalOfferFails(s.pc, s.m.offer) \/ s.pc.tracks = {}
             THEN IF s.h.stream = {} THEN Return(s) ELSE Throw(s)
             ELSE [s EXCEPT !.pc = SetLocalOffer(@, s.m.offer)]
      [] i = "setRemoteAnswer" ->
             Require(~SetRemoteAnswerFails(s.pc, s.m.desc), s,
                 [s EXCEPT !.pc = SetRemoteAnswer(@, s.m.desc)])
      [] i = "setRemoteOffer" ->
             Require(~SetRemoteOfferFails(s.pc, s.m.desc), s,
                 [s EXCEPT !.pc = SetRemoteOffer(@, s.m.desc)])
      [] i = "createAnswer" ->
             Require(~CreateAnswerFails(s.pc), s,
                 [s EXCEPT !.m.offer = AnswerLines(s.pc)])
      [] i = "setLocalAnswer" ->
             Require(~SetLocalAnswerFails(s.pc), s,
                 [s EXCEPT !.pc = SetLocalAnswer(@, s.m.offer)])
      [] i = "connect" -> s
      [] i = "replaceTrack" ->
             IF IsClosed(s.pc) THEN Throw(s)
             ELSE IF s.m.tr # 0 THEN [s EXCEPT !.pc.trs[s.m.tr].track = s.m.track]
             ELSE [s EXCEPT !.h.map[s.m.localId] = s.m.track]
      [] i \in {"setParameters", "setEncodings", "sendRtp", "receiveRtp"} ->
             Require(~IsClosed(s.pc), s, s)

Exec(i, s) ==
    CASE i \in Guards -> Guard(i, s)
      [] i \in SendSteps -> SendStep(i, s)
      [] i \in TrackSteps -> TrackStep(i, s)
      [] i \in RecvSteps -> RecvStep(i, s)
      [] OTHER -> TransportStep(i, s)

(* setupTransport is called only while the transport is not ready.         *)
Waits(i, s) == i \in Awaits /\ (i = "connect" => ~s.h.ready)

(* A remote description is written when the call is made: the call works   *)
(* on the sections of that moment.                                         *)
Call(i, k, s) ==
    [s EXCEPT !.m.wait = TRUE, !.m.ip = k,
              !.m.desc = IF i \in {"setRemoteAnswer", "setRemoteOffer"}
                         THEN s.sdp.sections ELSE <<>>]

(* The method runs from step m.ip to the next awaited call or to its end.  *)
Continue(s, steps) ==
    LET Step(acc, k) ==
            IF acc.m.ret \/ acc.m.wait THEN acc
            ELSE CASE Waits(steps[k], acc) -> Call(steps[k], k, acc)
                   [] steps[k] \in Awaits /\ ~Waits(steps[k], acc) -> acc
                   [] OTHER -> Exec(steps[k], acc)
        rest == [n \in 1 .. Len(steps) - s.m.ip |-> s.m.ip + n]
        after == FoldLeft(Step, [s EXCEPT !.m.wait = FALSE], rest)
    IN  IF after.m.wait THEN after ELSE Return(after)

(* The call the method waits for is over.                                  *)
Resume(s, steps, fault) ==
    LET i == steps[s.m.ip]
        called == CASE ~fault -> AwaitStep(i, s)
                    [] fault /\ i = "setLocalOfferOrNoTracks" /\ s.h.stream = {} ->
                           Return(s)
                    [] OTHER -> Throw(s)
    IN  IF called.m.ret THEN [called EXCEPT !.m.wait = FALSE]
        ELSE Continue(called, steps)

=============================================================================
