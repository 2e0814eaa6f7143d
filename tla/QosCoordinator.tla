--------------------------- MODULE QosCoordinator ---------------------------
(***************************************************************************)
(* The decision over all tracks of a peer (qos/coordinator.js) and what it *)
(* asks of each track's controller (applyPeerCoordination, qos/factory.js).*)
(* A track is a record with its id, source and quality.                    *)
(***************************************************************************)
EXTENDS QosPlanner

Qualities == {"lost", "poor", "good", "excellent"}
qualityRank == [lost |-> 0, poor |-> 1, good |-> 2, excellent |-> 3]
sourcePriority == [audio |-> 0, screenShare |-> 1, camera |-> 2]

minQuality(a, b) == IF qualityRank[a] <= qualityRank[b] THEN a ELSE b

prioritizeTracks(tracks) ==
    LET before(l, r) ==
            \/ sourcePriority[l.source] < sourcePriority[r.source]
            \/ sourcePriority[l.source] = sourcePriority[r.source] /\ l.id < r.id
    IN  SetToSortSeq(tracks, before)

buildPeerQosDecision(tracks) ==
    LET order == prioritizeTracks(tracks)
        has(source) == \E t \in tracks : t.source = source
        worst == FoldLeft(LAMBDA q, t : minQuality(q, t.quality), "excellent", order)
    IN  IF tracks = {}
        THEN [peerQuality |-> "lost", sacrificial |-> {}, preferScreenShare |-> FALSE,
              allowVideoRecovery |-> FALSE]
        ELSE [peerQuality |-> worst,
              sacrificial |-> {t.id : t \in {u \in tracks :
                  /\ u.source # "audio"
                  /\ IF has("screenShare") THEN u.source = "camera"
                     ELSE has("audio") \/ u.source = "camera"}},
              preferScreenShare |-> has("screenShare"),
              allowVideoRecovery |-> worst \notin {"poor", "lost"}]

NoCoordination == [disableRecovery |-> FALSE, forceAudioOnly |-> FALSE]

applyPeerCoordination(track, decision) ==
    LET sacrificed == track.source = "camera" /\ track.id \in decision.sacrificial
    IN  [disableRecovery |->
             \/ track.source # "audio" /\ ~decision.allowVideoRecovery
             \/ sacrificed /\ decision.preferScreenShare,
         forceAudioOnly |->
             sacrificed /\ decision.peerQuality \in {"poor", "lost"}]

=============================================================================
