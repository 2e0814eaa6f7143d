---------------------------- MODULE FakeHandler -----------------------------
(***************************************************************************)
(* The handler of the client's own tests: no browser objects, one map of   *)
(* tracks for both directions.                                             *)
(***************************************************************************)
EXTENDS HandlerInterface

setupTransport == <<"connect", "setReady">>

constructor == [NewHandler EXCEPT !.nextLocalId = 1]

close == <<"returnIfClosed", "setClosed">>

getNativeRtpCapabilities == [body |-> <<>>, catch |-> <<>>]

run == <<"assertNotClosed">>

updateIceServers == <<"assertNotClosed">>

restartIce == [dir \in {"send", "recv"} |-> <<"assertNotClosed">>]

send ==
    <<"assertNotClosed">> \o setupTransport \o <<"nextLocalId", "storeTrack">>

stopSending == <<"returnIfClosed", "requireLocalId", "deleteLocalId">>

pauseSending == <<"assertNotClosed">>

resumeSending == <<"assertNotClosed">>

replaceTrack == <<"assertNotClosed", "storeTrack">>

setMaxSpatialLayer == <<"assertNotClosed">>

setRtpEncodingParameters == <<"assertNotClosed">>

sendDataChannel ==
    <<"assertNotClosed">> \o setupTransport \o <<"nextFakeStreamId">>

receive == <<"assertNotClosed">> \o setupTransport \o <<"storeFakeTracks">>

stopReceiving == <<"returnIfClosed", "deleteReceivers">>

pauseReceiving == <<"assertNotClosed">>

resumeReceiving == <<"assertNotClosed">>

receiveDataChannel == <<"assertNotClosed">> \o setupTransport

methods ==
    [close |-> close,
     getNativeRtpCapabilities |-> getNativeRtpCapabilities, run |-> run,
     updateIceServers |-> updateIceServers, restartIce |-> restartIce,
     send |-> send, stopSending |-> stopSending,
     pauseSending |-> pauseSending, resumeSending |-> resumeSending,
     replaceTrack |-> replaceTrack,
     setMaxSpatialLayer |-> setMaxSpatialLayer,
     setRtpEncodingParameters |-> setRtpEncodingParameters,
     sendDataChannel |-> sendDataChannel, receive |-> receive,
     stopReceiving |-> stopReceiving, pauseReceiving |-> pauseReceiving,
     resumeReceiving |-> resumeReceiving,
     receiveDataChannel |-> receiveDataChannel]

=============================================================================
