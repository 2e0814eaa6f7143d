---------------------------- MODULE MC_Transport ----------------------------
(***************************************************************************)
(* Small instances of Transport.                                           *)
(***************************************************************************)
EXTENDS Transport

(* Producers and Consumers 1, 3.. are audio, 2 is video; so are the tracks *)
(* given to replaceTrack() and the probator.                               *)
MC_KindOf ==
    [t \in 1 .. 9 \cup 11 .. 19 \cup {ProbatorTrack} |->
        IF t \in {1, 3} THEN "audio" ELSE "video"]

MC_Names == HandlerNames
MC_AllOperations ==
    {"producerClose", "producerPause", "replaceTrack", "setMaxSpatialLayer",
     "setRtpEncodingParameters", "produceData", "consumeData", "consumerClose",
     "consumerPause", "dataClose", "restartIce", "updateIceServers", "close"}

=============================================================================
