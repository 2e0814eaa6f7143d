------------------------------ MODULE RemoteSdp ------------------------------
(***************************************************************************)
(* RemoteSdp and MediaSection: the session description of the mediasoup    *)
(* side, which the handler keeps and feeds to the browser.  Nothing        *)
(* negotiates it: it must follow, section for section, what the browser's  *)
(* RTCPeerConnection does.                                                 *)
(*                                                                         *)
(* A media section keeps the attributes a handler changes: its MID, its    *)
(* port (closed is port 0), its direction (active is not "inactive"), its  *)
(* a=setup, the generation of the ICE credentials it carries and the       *)
(* tracks its SSRCs belong to.  Codecs, extensions and SSRC lines are left *)
(* out.  MIDs are numbers; indices start at 1.                             *)
(***************************************************************************)
EXTENDS Integers, Sequences, SequencesExt

NoMid == 0
DataMid == 100       \* 'datachannel'

-----------------------------------------------------------------------------
(* MediaSection *)

(* setDtlsRole of an answer section.                                       *)
AnswerSetup(role) ==
    CASE role = "client" -> "active"
      [] role = "server" -> "passive"
      [] role = "auto" -> "actpass"

(* Base constructor and the AnswerMediaSection and OfferMediaSection ones. *)
AnswerMediaSection(sdp, mid) ==
    [type |-> "answer", mid |-> mid, closed |-> FALSE, active |-> TRUE,
     setup |-> AnswerSetup(sdp.dtlsRole), ice |-> sdp.ice, tracks |-> {}]

OfferMediaSection(sdp, mid, tracks) ==
    [type |-> "offer", mid |-> mid, closed |-> FALSE, active |-> TRUE,
     setup |-> "actpass", ice |-> sdp.ice, tracks |-> tracks]

setIceParameters(section, ice) == [section EXCEPT !.ice = ice]

(* An offer section always says actpass.                                   *)
setDtlsRole(section, role) ==
    [section EXCEPT !.setup = IF section.type = "offer"
                              THEN "actpass" ELSE AnswerSetup(role)]

pause(section) == [section EXCEPT !.active = FALSE]

resume(section) == [section EXCEPT !.active = TRUE]

disable(section) == [pause(section) EXCEPT !.tracks = {}]

(* Variant: the port is kept.                                              *)
closeWithoutPort(section) == disable(section)

close(section) == [disable(section) EXCEPT !.closed = TRUE]

planBReceive(section, track) ==
    [section EXCEPT !.tracks = @ \cup {track}]

planBStopReceivingSection(section, track) ==
    [section EXCEPT !.tracks = @ \ {track}]

-----------------------------------------------------------------------------
(* RemoteSdp *)

NewRemoteSdp ==
    [sections |-> <<>>, midToIndex |-> <<>>, firstMid |-> NoMid,
     bundle |-> {}, dtlsRole |-> "auto", ice |-> 0]

HasMid(sdp, mid) == mid \in DOMAIN sdp.midToIndex

(* _findMediaSection throws when there is none: callers test HasMid.       *)
_findMediaSection(sdp, mid) == sdp.midToIndex[mid]

_regenerateBundleMids(sdp) ==
    [sdp EXCEPT !.bundle =
        {sdp.sections[i].mid : i \in {j \in DOMAIN sdp.sections :
                                          ~sdp.sections[j].closed}}]

_addMediaSection(sdp, section) ==
    _regenerateBundleMids(
        [sdp EXCEPT
            !.firstMid = IF @ = NoMid THEN section.mid ELSE @,
            !.sections = Append(@, section),
            !.midToIndex = [m \in DOMAIN @ \cup {section.mid} |->
                IF m = section.mid THEN Len(sdp.sections) + 1 ELSE @[m]]])

(* Variant: the old MID stays in the map.                                  *)
replaceKeepingMid(sdp, section, reuseMid) ==
    LET idx == sdp.midToIndex[reuseMid]
    IN  _regenerateBundleMids(
            [sdp EXCEPT
                !.sections[idx] = section,
                !.midToIndex = [m \in DOMAIN @ \cup {section.mid} |->
                    IF m = section.mid THEN idx ELSE @[m]]])

(* _replaceMediaSection with reuseMid: the old MID leaves the map.         *)
_replaceReusing(sdp, section, reuseMid) ==
    LET idx == sdp.midToIndex[reuseMid]
        old == sdp.sections[idx].mid
    IN  _regenerateBundleMids(
            [sdp EXCEPT
                !.sections[idx] = section,
                !.midToIndex = [m \in (DOMAIN @ \ {old}) \cup {section.mid} |->
                    IF m = section.mid THEN idx ELSE @[m]]])

(* _replaceMediaSection without it.                                        *)
_replaceMediaSection(sdp, section) ==
    [sdp EXCEPT !.sections[sdp.midToIndex[section.mid]] = section]

(* Variant: the existing sections keep the old parameters.                 *)
updateIceForNew(sdp, ice) == [sdp EXCEPT !.ice = ice]

updateIceParameters(sdp, ice) ==
    [sdp EXCEPT !.ice = ice,
                !.sections = [i \in DOMAIN @ |-> setIceParameters(@[i], ice)]]

updateDtlsRole(sdp, role) ==
    [sdp EXCEPT !.dtlsRole = role,
                !.sections = [i \in DOMAIN @ |-> setDtlsRole(@[i], role)]]

(* Variant: closed sections are not looked for.                            *)
NextIdxAlwaysNew(sdp) == [idx |-> Len(sdp.sections) + 1, reuseMid |-> NoMid]

(* The index of the first closed section, whose MID is to be reused, or    *)
(* the next index.                                                         *)
getNextMediaSectionIdx(sdp) ==
    LET closed == {i \in DOMAIN sdp.sections : sdp.sections[i].closed}
        first == CHOOSE i \in closed : \A j \in closed : i <= j
    IN  IF closed = {}
        THEN [idx |-> Len(sdp.sections) + 1, reuseMid |-> NoMid]
        ELSE [idx |-> first, reuseMid |-> sdp.sections[first].mid]

send(sdp, mid, reuseMid) ==
    LET section == AnswerMediaSection(sdp, mid)
    IN  CASE reuseMid # NoMid -> _replaceReusing(sdp, section, reuseMid)
          [] reuseMid = NoMid /\ ~HasMid(sdp, mid) -> _addMediaSection(sdp, section)
          [] OTHER -> _replaceMediaSection(sdp, section)

receive(sdp, mid, track) ==
    LET section == OfferMediaSection(sdp, mid, {track})
        reuseMid == getNextMediaSectionIdx(sdp).reuseMid
    IN  CASE HasMid(sdp, mid) ->
                 _replaceMediaSection(sdp,
                     planBReceive(sdp.sections[sdp.midToIndex[mid]], track))
          [] ~HasMid(sdp, mid) /\ reuseMid # NoMid ->
                 _replaceReusing(sdp, section, reuseMid)
          [] OTHER -> _addMediaSection(sdp, section)

pauseMediaSection(sdp, mid) ==
    [sdp EXCEPT !.sections[_findMediaSection(sdp, mid)] = pause(@)]

resumeMediaSection(sdp, mid) ==
    [sdp EXCEPT !.sections[_findMediaSection(sdp, mid)] = resume(@)]

disableMediaSection(sdp, mid) ==
    [sdp EXCEPT !.sections[_findMediaSection(sdp, mid)] = disable(@)]

(* The first section carries the bundled transport and is only disabled.   *)
ClosesSection(sdp, mid) == mid # sdp.firstMid

closeMediaSection(sdp, mid) ==
    IF ClosesSection(sdp, mid)
    THEN _regenerateBundleMids(
             [sdp EXCEPT !.sections[_findMediaSection(sdp, mid)] = close(@)])
    ELSE disableMediaSection(sdp, mid)

planBStopReceiving(sdp, mid, track) ==
    _replaceMediaSection(sdp,
        planBStopReceivingSection(sdp.sections[_findMediaSection(sdp, mid)], track))

sendSctpAssociation(sdp, mid) ==
    _addMediaSection(sdp, AnswerMediaSection(sdp, mid))

receiveSctpAssociation(sdp) ==
    _addMediaSection(sdp, OfferMediaSection(sdp, DataMid, {}))

=============================================================================
