--------------------------- MODULE PeerConnection ---------------------------
(***************************************************************************)
(* The browser's RTCPeerConnection, as far as the handlers use it: the     *)
(* offer/answer state machine, the media lines (m-lines) of the local      *)
(* description, and the objects that own them.  External code, modelled    *)
(* from its use and from the offer/answer rules (RFC 8829, RFC 3264).      *)
(*                                                                         *)
(* trs are the RTCRtpTransceivers (Unified-Plan) in creation order, with   *)
(* line = 0 until an m-line is assigned.  tracks are the sent or received  *)
(* tracks of a Plan-B connection, which has one m-line per kind.           *)
(***************************************************************************)
EXTENDS RemoteSdp, FiniteSets

CONSTANT KindOf   \* track -> "audio" or "video"

KindMid(track) == IF KindOf[track] = "audio" THEN 1 ELSE 2
KindMids == <<1, 2>>

NewPeerConnection(planB) ==
    [planB |-> planB, sig |-> "stable", trs |-> <<>>, tracks |-> {},
     lines |-> <<>>, remote |-> <<>>, nextMid |-> 1, data |-> FALSE]

Line(mid, live, active, own) ==
    [mid |-> mid, live |-> live, active |-> active, own |-> own]

NewTransceiver(track, mid, line) ==
    [track |-> track, mid |-> mid, line |-> line,
     active |-> TRUE, stopped |-> FALSE]

IsClosed(pc) == pc.sig = "closed"
Min0(S) == IF S = {} THEN 0 ELSE CHOOSE i \in S : \A j \in S : i <= j
OwnerOf(pc, i) ==
    Min0({k \in DOMAIN pc.trs : pc.trs[k].line = i /\ ~pc.trs[k].stopped})
WithMid(pc, mid) ==
    Min0({k \in DOMAIN pc.trs : pc.trs[k].mid = mid /\ ~pc.trs[k].stopped})

(* The data m-line is owned by no transceiver.                             *)
DataOwner == -1
HasDataLine(pc) == \E i \in DOMAIN pc.lines : pc.lines[i].own = DataOwner

-----------------------------------------------------------------------------
(* Offers of the sending side *)

(* An m-line keeps its place; one whose transceiver is stopped is rejected.*)
KeptLines(pc) ==
    [i \in DOMAIN pc.lines |->
        LET k == OwnerOf(pc, i)
        IN  CASE pc.lines[i].own = DataOwner -> pc.lines[i]
              [] k # 0 -> Line(pc.lines[i].mid, TRUE, pc.trs[k].active, k)
              [] OTHER -> Line(pc.lines[i].mid, FALSE, FALSE, 0)]

Fresh(pc) ==
    SetToSortSeq({k \in DOMAIN pc.trs : pc.trs[k].line = 0 /\ ~pc.trs[k].stopped}, <)

Recyclable(pc) ==
    SetToSortSeq({i \in DOMAIN pc.lines : ~pc.lines[i].live}, <)

(* A new transceiver takes the first rejected m-line, or a new one.        *)
UnifiedOffer(pc) ==
    LET fresh == Fresh(pc)
        free == Recyclable(pc)
        kept == KeptLines(pc)
        Added(n) == Line(pc.nextMid + n - 1, TRUE, pc.trs[fresh[n]].active, fresh[n])
        reused == [i \in DOMAIN kept |->
            IF \E n \in DOMAIN fresh : n <= Len(free) /\ free[n] = i
            THEN Added(CHOOSE n \in DOMAIN fresh : n <= Len(free) /\ free[n] = i)
            ELSE kept[i]]
        extra == Len(fresh) - Len(free)
        appended == [n \in 1 .. (IF extra > 0 THEN extra ELSE 0) |->
                        Added(Len(free) + n)]
        data == IF pc.data /\ ~HasDataLine(pc)
                THEN <<Line(pc.nextMid + Len(fresh), TRUE, TRUE, DataOwner)>> ELSE <<>>
    IN  reused \o appended \o data

PlanBOffer(pc) ==
    LET sent == {KindMid(t) : t \in pc.tracks}
        kept == [i \in DOMAIN pc.lines |->
            IF pc.lines[i].own = DataOwner THEN pc.lines[i]
            ELSE [pc.lines[i] EXCEPT !.active = pc.lines[i].mid \in sent]]
        new == SelectSeq(KindMids, LAMBDA m :
            m \in sent /\ \A i \in DOMAIN pc.lines : pc.lines[i].mid # m)
        data == IF pc.data /\ ~HasDataLine(pc)
                THEN <<Line(3, TRUE, TRUE, DataOwner)>> ELSE <<>>
    IN  kept \o [n \in DOMAIN new |-> Line(new[n], TRUE, TRUE, 0)] \o data

OfferLines(pc) == IF pc.planB THEN PlanBOffer(pc) ELSE UnifiedOffer(pc)

CreateOfferFails(pc) == IsClosed(pc)

CreateOffer(pc) == [pc EXCEPT !.nextMid = @ + Len(Fresh(pc)) + 1]

SetLocalOfferFails(pc, offer) ==
    \/ pc.sig \notin {"stable", "have-local-offer"}
    \/ Len(offer) < Len(pc.lines)

SetLocalOffer(pc, offer) ==
    [pc EXCEPT
        !.sig = "have-local-offer",
        !.lines = offer,
        !.trs = [k \in DOMAIN @ |->
            LET i == Min0({j \in DOMAIN offer : offer[j].own = k})
            IN  IF i = 0 THEN @[k]
                ELSE [@[k] EXCEPT !.mid = offer[i].mid, !.line = i]]]

(* An answer has the offer's m-lines, with the same MIDs.                  *)
SetRemoteAnswerFails(pc, sections) ==
    \/ pc.sig # "have-local-offer"
    \/ Len(sections) # Len(pc.lines)
    \/ \E i \in DOMAIN sections : sections[i].mid # pc.lines[i].mid

SetRemoteAnswer(pc, sections) ==
    [pc EXCEPT
        !.sig = "stable",
        !.lines = [i \in DOMAIN @ |->
            [@[i] EXCEPT !.live = @ /\ ~sections[i].closed,
                         !.active = @ /\ sections[i].active]],
        !.trs = [k \in DOMAIN @ |->
            [@[k] EXCEPT !.stopped = @ \/ (pc.trs[k].line # 0
                                           /\ sections[pc.trs[k].line].closed
                                           /\ pc.lines[pc.trs[k].line].own = k)]]]

-----------------------------------------------------------------------------
(* Answers of the receiving side *)

SetRemoteOfferFails(pc, sections) ==
    \/ pc.sig \notin {"stable", "have-remote-offer"}
    \/ Len(sections) < Len(pc.lines)
    \/ \E i, j \in DOMAIN sections : i # j /\ sections[i].mid = sections[j].mid
    \/ \E i \in DOMAIN pc.lines : pc.lines[i].live /\ pc.lines[i].mid # sections[i].mid

(* Every section with a new MID gets a transceiver of its own; a rejected  *)
(* section stops its transceiver.                                          *)
SetRemoteOffer(pc, sections) ==
    LET kept == [k \in DOMAIN pc.trs |->
            [pc.trs[k] EXCEPT !.stopped = @ \/ \E i \in DOMAIN sections :
                /\ sections[i].mid = pc.trs[k].mid
                /\ sections[i].closed]]
        new == SelectSeq([i \in DOMAIN sections |-> i], LAMBDA i :
            /\ ~sections[i].closed
            /\ sections[i].mid # DataMid
            /\ WithMid(pc, sections[i].mid) = 0)
    IN  [pc EXCEPT
            !.sig = "have-remote-offer",
            !.remote = sections,
            !.tracks = UNION {sections[i].tracks : i \in DOMAIN sections},
            !.trs = kept \o [n \in DOMAIN new |->
                NewTransceiver(0, sections[new[n]].mid, new[n])]]

CreateAnswerFails(pc) == pc.sig # "have-remote-offer"

AnswerLines(pc) ==
    [i \in DOMAIN pc.remote |->
        LET k == WithMid(pc, pc.remote[i].mid)
        IN  Line(pc.remote[i].mid, ~pc.remote[i].closed,
                 pc.remote[i].active /\ (k # 0 => pc.trs[k].active), k)]

SetLocalAnswerFails(pc) == pc.sig # "have-remote-offer"

SetLocalAnswer(pc, answer) == [pc EXCEPT !.sig = "stable", !.lines = answer]

-----------------------------------------------------------------------------
ClosePc(pc) == [pc EXCEPT !.sig = "closed"]

=============================================================================
