------------------------------ MODULE Chrome70 ------------------------------
(***************************************************************************)
(* The handler of Chrome 70 to 73: Unified-Plan without a _closed flag, so *)
(* that a call on a closed handler fails in the peer connection.  Pausing  *)
(* is not implemented.                                                     *)
(***************************************************************************)
EXTENDS HandlerInterface

setupTransport == <<"updateDtlsRole", "connect", "setReady">>

constructor == NewHandler

close == <<"closePc">>

getNativeRtpCapabilities ==
    [body |-> <<"newPc", "createOffer", "closePc">>, catch |-> <<"closePc">>]

run == <<"newRemoteSdp", "newPc">>

updateIceServers == <<"setConfiguration">>

restartIce ==
    [dir \in {"send", "recv"} |->
        <<"updateIceParameters", "returnUnlessReady">>
        \o (IF dir = "send" THEN Offer ELSE Answer)]

send ==
    <<"assertSendDirection", "getNextMediaSectionIdx", "addTransceiver", "createOffer">>
    \o setupTransport
    \o <<"setLocalOffer", "setEncodings", "readLocalId", "remoteSend", "setRemoteAnswer",
         "storeTransceiver">>

stopSending ==
    <<"assertSendDirection">> \o FindTransceiver
    \o <<"removeTrack", "closeMediaSection">> \o Offer \o <<"deleteLocalId">>

pauseSending == <<>>

resumeSending == <<>>

replaceTrack ==
    <<"assertSendDirection">> \o FindTransceiver \o <<"replaceTrack">>

setMaxSpatialLayer ==
    <<"assertSendDirection">> \o FindTransceiver
    \o <<"setParameters", "muxMediaSectionSimulcast">> \o Offer

setRtpEncodingParameters ==
    <<"assertSendDirection">> \o FindTransceiver
    \o <<"setParameters", "muxMediaSectionSimulcast">> \o Offer

sendDataChannel ==
    <<"assertSendDirection">>
    \o <<"createDataChannel", "nextStreamId", "returnIfDataSection", "createOffer">>
    \o setupTransport
    \o <<"setLocalOffer", "sendSctpAssociation", "setRemoteAnswer", "setDataSection">>

receive ==
    <<"assertRecvDirection">>
    \o <<"remoteReceive", "setRemoteOffer", "createAnswer">>
    \o setupTransport
    \o <<"setLocalAnswer", "storeReceivers">>

stopReceiving ==
    <<"assertRecvDirection", "closeReceivers">> \o Answer
    \o <<"deleteReceivers">>

pauseReceiving == <<>>

resumeReceiving == <<>>

receiveDataChannel ==
    <<"assertRecvDirection">>
    \o <<"openDataChannel", "returnIfDataSection", "receiveSctpAssociation",
         "setRemoteOffer", "createAnswer">>
    \o setupTransport
    \o <<"setLocalAnswer", "setDataSection">>

methods ==
    [close |-> close,
     getNativeRtpCapabilities |-> getNativeRtpCapabilities, run |-> run,
     updateIceServers |-> updateIceServers, restartIce |-> restartIce,
     send |-> send, stopSending |-> stopSending,
     pauseSending |-> pauseSending, resumeSending |-> resumeSending,
     replaceTrack |-> replaceTrack,
     setMaxSpatialLayer |-> setMaxSpatialLayer,
     setRtpEncodingParameters |-> setRtpEncodingParameters,
     sendDataChannel |-> sendDataChannel, receive |-> receive,
     stopReceiving |-> stopReceiving, pauseReceiving |-> pauseReceiving,
     resumeReceiving |-> resumeReceiving,
     receiveDataChannel |-> receiveDataChannel]

=============================================================================
