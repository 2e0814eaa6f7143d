------------------------------ MODULE Chrome55 ------------------------------
(***************************************************************************)
(* The handler of Chrome 55 to 66: Plan-B by streams; the local ids map to *)
(* tracks, and senders cannot be changed.                                  *)
(***************************************************************************)
EXTENDS HandlerInterface

setupTransport == <<"updateDtlsRole", "connect", "setReady">>

constructor == NewHandler

close == <<"closePc">>

getNativeRtpCapabilities ==
    [body |-> <<"newPlanBPc", "createOffer", "closePc">>, catch |-> <<"closePc">>]

run == <<"newRemoteSdp", "newPlanBPc">>

updateIceServers == <<"setConfiguration">>

restartIce ==
    [dir \in {"send", "recv"} |->
        <<"updateIceParameters", "returnUnlessReady">>
        \o (IF dir = "send" THEN Offer ELSE Answer)]

send ==
    <<"assertSendDirection", "streamAddTrack", "pcAddStream", "createOffer">>
    \o setupTransport
    \o <<"setLocalOffer", "remoteSendKind", "setRemoteAnswer", "nextLocalId",
         "storeTrack">>

stopSending ==
    <<"assertSendDirection", "requireLocalId", "streamRemoveTrack",
      "deleteLocalId", "pcAddStream", "createOffer",
      "setLocalOfferOrNoTracks", "returnIfStable", "setRemoteAnswer">>

pauseSending == <<>>

resumeSending == <<>>

replaceTrack == <<"unsupported">>

setMaxSpatialLayer == <<"unsupported">>

setRtpEncodingParameters == <<"unsupported">>

sendDataChannel ==
    <<"assertSendDirection">>
    \o <<"createDataChannel", "nextStreamId", "returnIfDataSection", "createOffer">>
    \o setupTransport
    \o <<"setLocalOffer", "sendSctpAssociation", "setRemoteAnswer", "setDataSection">>

receive ==
    <<"assertRecvDirection", "remoteReceive", "setRemoteOffer", "createAnswer">>
    \o setupTransport
    \o <<"setLocalAnswer", "storeTracks">>

stopReceiving == <<"assertRecvDirection", "planBStopReceiving">> \o Answer

pauseReceiving == <<>>

resumeReceiving == <<>>

receiveDataChannel ==
    <<"assertRecvDirection">>
    \o <<"openDataChannel", "returnIfDataSection", "receiveSctpAssociation",
         "setRemoteOffer", "createAnswer">>
    \o setupTransport
    \o <<"setLocalAnswer", "setDataSection">>

methods ==
    [close |-> close,
     getNativeRtpCapabilities |-> getNativeRtpCapabilities, run |-> run,
     updateIceServers |-> updateIceServers, restartIce |-> restartIce,
     send |-> send, stopSending |-> stopSending,
     pauseSending |-> pauseSending, resumeSending |-> resumeSending,
     replaceTrack |-> replaceTrack,
     setMaxSpatialLayer |-> setMaxSpatialLayer,
     setRtpEncodingParameters |-> setRtpEncodingParameters,
     sendDataChannel |-> sendDataChannel, receive |-> receive,
     stopReceiving |-> stopReceiving, pauseReceiving |-> pauseReceiving,
     resumeReceiving |-> resumeReceiving,
     receiveDataChannel |-> receiveDataChannel]

=============================================================================
