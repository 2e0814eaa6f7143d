----------------------------- MODULE Firefox60 ------------------------------
(***************************************************************************)
(* The handler of Firefox 60 to 119: as Firefox120, but the encodings are  *)
(* set on the sender by an awaited call before the offer is made.          *)
(***************************************************************************)
EXTENDS HandlerInterface

setupTransport == <<"updateDtlsRole", "connect", "setReady">>

constructor == NewHandler

close == <<"returnIfClosed", "setClosed", "closePc">>

getNativeRtpCapabilities ==
    [body |-> <<"newPc", "setParameters", "createOffer", "closePc">>,
     catch |-> <<"closePc">>]

run == <<"assertNotClosed", "newRemoteSdp", "newPc">>

updateIceServers == <<"assertNotClosed", "unsupported">>

restartIce ==
    [dir \in {"send", "recv"} |->
        <<"assertNotClosed", "updateIceParameters", "returnUnlessReady">>
        \o (IF dir = "send" THEN Offer ELSE Answer)]

send ==
    SendGuards
    \o <<"addTransceiver", "setEncodings", "createOffer">>
    \o setupTransport
    \o <<"setLocalOffer", "readLocalId", "remoteSendLast", "setRemoteAnswer",
         "storeTransceiver">>

stopSending ==
    <<"assertSendDirection", "returnIfClosed">> \o FindTransceiver
    \o <<"removeTrack", "disableMediaSection">> \o Offer \o <<"deleteLocalId">>

pauseSending ==
    SendGuards \o FindTransceiver
    \o <<"setInactive", "pauseMediaSection">> \o Offer

resumeSending ==
    SendGuards \o FindTransceiver
    \o <<"setSendonly", "resumeMediaSection">> \o Offer

replaceTrack == SendGuards \o FindTransceiver \o <<"replaceTrack">>

setMaxSpatialLayer ==
    SendGuards \o FindTransceiver
    \o <<"setParameters", "muxMediaSectionSimulcast">> \o Offer

setRtpEncodingParameters ==
    SendGuards \o FindTransceiver
    \o <<"setParameters", "muxMediaSectionSimulcast">> \o Offer

sendDataChannel ==
    SendGuards
    \o <<"createDataChannel", "nextStreamId", "returnIfDataSection", "createOffer">>
    \o setupTransport
    \o <<"setLocalOffer", "sendSctpAssociation", "setRemoteAnswer", "setDataSection">>

receive ==
    RecvGuards
    \o <<"remoteReceive", "setRemoteOffer", "createAnswer">>
    \o setupTransport
    \o <<"setLocalAnswer", "storeReceivers">>

stopReceiving ==
    <<"assertRecvDirection", "returnIfClosed", "closeReceivers">> \o Answer
    \o <<"deleteReceivers">>

pauseReceiving == RecvGuards \o <<"pauseReceivers">> \o Answer

resumeReceiving == RecvGuards \o <<"resumeReceivers">> \o Answer

receiveDataChannel ==
    RecvGuards
    \o <<"openDataChannel", "returnIfDataSection", "receiveSctpAssociation",
         "setRemoteOffer", "createAnswer">>
    \o setupTransport
    \o <<"setLocalAnswer", "setDataSection">>

methods ==
    [close |-> close,
     getNativeRtpCapabilities |-> getNativeRtpCapabilities, run |-> run,
     updateIceServers |-> updateIceServers, restartIce |-> restartIce,
     send |-> send, stopSending |-> stopSending,
     pauseSending |-> pauseSending, resumeSending |-> resumeSending,
     replaceTrack |-> replaceTrack,
     setMaxSpatialLayer |-> setMaxSpatialLayer,
     setRtpEncodingParameters |-> setRtpEncodingParameters,
     sendDataChannel |-> sendDataChannel, receive |-> receive,
     stopReceiving |-> stopReceiving, pauseReceiving |-> pauseReceiving,
     resumeReceiving |-> resumeReceiving,
     receiveDataChannel |-> receiveDataChannel]

=============================================================================
