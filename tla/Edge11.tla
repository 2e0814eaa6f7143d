------------------------------- MODULE Edge11 -------------------------------
(***************************************************************************)
(* The handler of Edge 11: ORTC, so there is no session description;       *)
(* senders and receivers are objects of their own.  closePc stands for     *)
(* stopping the ICE and DTLS transports and every sender and receiver.     *)
(***************************************************************************)
EXTENDS HandlerInterface

setupTransport == <<"connect", "setReady">>

constructor == NewHandler

close == <<"closePc">>

getNativeRtpCapabilities == [body |-> <<>>, catch |-> <<>>]

run == <<"newPc">>

updateIceServers == <<"unsupported">>

restartIce ==
    [dir \in {"send", "recv"} |-> <<"updateIceParameters", "returnUnlessReady">>]

send == setupTransport \o <<"sendRtp", "nextLocalId", "storeTrack">>

stopSending == <<"requireLocalId", "deleteLocalId">>

pauseSending == <<>>

resumeSending == <<>>

replaceTrack == <<"requireLocalId", "storeTrack">>

setMaxSpatialLayer == <<"requireLocalId", "setParameters">>

setRtpEncodingParameters == <<"requireLocalId", "setParameters">>

sendDataChannel == <<"unsupported">>

receive ==
    setupTransport
    \o FlattenSeq([k \in 1 .. MaxBatch |->
                      <<"returnIfNoMore", "receiveRtp", "storeReceiver">>])

stopReceiving == <<"dropReceivers">>

pauseReceiving == <<>>

resumeReceiving == <<>>

receiveDataChannel == <<"unsupported">>

methods ==
    [close |-> close,
     getNativeRtpCapabilities |-> getNativeRtpCapabilities, run |-> run,
     updateIceServers |-> updateIceServers, restartIce |-> restartIce,
     send |-> send, stopSending |-> stopSending,
     pauseSending |-> pauseSending, resumeSending |-> resumeSending,
     replaceTrack |-> replaceTrack,
     setMaxSpatialLayer |-> setMaxSpatialLayer,
     setRtpEncodingParameters |-> setRtpEncodingParameters,
     sendDataChannel |-> sendDataChannel, receive |-> receive,
     stopReceiving |-> stopReceiving, pauseReceiving |-> pauseReceiving,
     resumeReceiving |-> resumeReceiving,
     receiveDataChannel |-> receiveDataChannel]

=============================================================================
