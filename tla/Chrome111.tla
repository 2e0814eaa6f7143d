----------------------------- MODULE Chrome111 ------------------------------
(***************************************************************************)
(* The handler of Chrome 111 and later, and of other Chromium browsers:    *)
(* Unified-Plan, one transceiver per track, its MID as the local id.       *)
(***************************************************************************)
EXTENDS HandlerInterface

setupTransport == <<"updateDtlsRole", "connect", "setReady">>

constructor == NewHandler

close == <<"returnIfClosed", "setClosed", "closePc">>

getNativeRtpCapabilities ==
    [body |-> <<"newPc", "createOffer", "closePc">>, catch |-> <<"closePc">>]

run == <<"assertNotClosed", "newRemoteSdp", "newPc">>

updateIceServers == <<"assertNotClosed", "setConfiguration">>

restartIce ==
    [dir \in {"send", "recv"} |->
        <<"assertNotClosed", "updateIceParameters", "returnUnlessReady">>
        \o (IF dir = "send" THEN Offer ELSE Answer)]

send ==
    SendGuards
    \o <<"getNextMediaSectionIdx", "addTransceiver", "createOffer">>
    \o setupTransport
    \o <<"setLocalOffer", "readLocalId", "remoteSend", "setRemoteAnswer",
         "storeTransceiver">>

stopSending ==
    <<"assertSendDirection", "returnIfClosed">> \o FindTransceiver
    \o <<"removeTrack", "closeMediaSection">> \o Offer \o <<"deleteLocalId">>

pauseSending ==
    SendGuards \o FindTransceiver
    \o <<"setInactive", "pauseMediaSection">> \o Offer

(* Variant: the transceiver's direction is not restored.                   *)
resumeSectionOnly ==
    SendGuards
    \o <<"getTransceiver", "resumeMediaSection", "requireTransceiver">>
    \o Offer

resumeSending ==
    SendGuards
    \o <<"getTransceiver", "resumeMediaSection", "requireTransceiver",
         "setSendonly">>
    \o Offer

replaceTrack == SendGuards \o FindTransceiver \o <<"replaceTrack">>

setMaxSpatialLayer ==
    SendGuards \o FindTransceiver
    \o <<"setParameters", "muxMediaSectionSimulcast">> \o Offer

setRtpEncodingParameters ==
    SendGuards \o FindTransceiver
    \o <<"setParameters", "muxMediaSectionSimulcast">> \o Offer

sendDataChannel ==
    SendGuards
    \o <<"createDataChannel", "nextStreamId", "returnIfDataSection", "createOffer">>
    \o setupTransport
    \o <<"setLocalOffer", "sendSctpAssociation", "setRemoteAnswer", "setDataSection">>

receive ==
    RecvGuards
    \o <<"remoteReceive", "setRemoteOffer", "createAnswer">>
    \o setupTransport
    \o <<"setLocalAnswer", "storeReceivers">>

stopReceiving ==
    <<"assertRecvDirection", "returnIfClosed", "closeReceivers">> \o Answer
    \o <<"deleteReceivers">>

pauseReceiving == RecvGuards \o <<"pauseReceivers">> \o Answer

resumeReceiving == RecvGuards \o <<"resumeReceivers">> \o Answer

receiveDataChannel ==
    RecvGuards
    \o <<"openDataChannel", "returnIfDataSection", "receiveSctpAssociation",
         "setRemoteOffer", "createAnswer">>
    \o setupTransport
    \o <<"setLocalAnswer", "setDataSection">>

methods ==
    [close |-> close,
     getNativeRtpCapabilities |-> getNativeRtpCapabilities, run |-> run,
     updateIceServers |-> updateIceServers, restartIce |-> restartIce,
     send |-> send, stopSending |-> stopSending,
     pauseSending |-> pauseSending, resumeSending |-> resumeSending,
     replaceTrack |-> replaceTrack,
     setMaxSpatialLayer |-> setMaxSpatialLayer,
     setRtpEncodingParameters |-> setRtpEncodingParameters,
     sendDataChannel |-> sendDataChannel, receive |-> receive,
     stopReceiving |-> stopReceiving, pauseReceiving |-> pauseReceiving,
     resumeReceiving |-> resumeReceiving,
     receiveDataChannel |-> receiveDataChannel]

=============================================================================
