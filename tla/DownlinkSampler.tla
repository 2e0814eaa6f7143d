-------------------------- MODULE DownlinkSampler --------------------------
(***************************************************************************)
(* The receiver statistics of the browser client (qos/downlinkSampler.js): *)
(* which inbound-rtp report a hinted consumer is given, and the loss it is *)
(* charged with.  A hint is [consumerId, kind, mid], a report              *)
(* [kind, mid, lost, received]; hints by SSRC or track are like by MID.    *)
(***************************************************************************)
EXTENDS Integers, Sequences, SequencesExt, FiniteSets

NoReport == 0                              \* no report was selected
NoCounts == [lost |-> -1, received |-> -1] \* nothing sampled before

matchesHintKind(report, hint) == report.kind = hint.kind
matchesHint(report, hint) == matchesHintKind(report, hint) /\ report.mid = hint.mid

(* The position of the report of the hint's own MID, or else of the first  *)
(* report of its kind; each report is given once.                          *)
selectByKind(reports, hint, matched) ==
    SelectInSeq([i \in DOMAIN reports |-> i],
                LAMBDA i : i \notin matched /\ matchesHintKind(reports[i], hint))
selectInboundReport(reports, hint, matched) ==
    LET own == SelectInSeq([i \in DOMAIN reports |-> i],
                           LAMBDA i : i \notin matched /\ matchesHint(reports[i], hint))
    IN IF own # 0 THEN own ELSE selectByKind(reports, hint, matched)

computeLossPercent(report, prev) ==
    LET deltaLost == report.lost - prev.lost
        deltaReceived == report.received - prev.received
        total == deltaLost + deltaReceived
    IN IF prev = NoCounts \/ deltaLost < 0 \/ deltaReceived < 0 \/ total <= 0 THEN 0
       ELSE (200 * deltaLost + total) \div (2 * total)

(* One sample: the hints in the order they were first set. *)
SampleHint(reports, acc, hint) ==
    LET i == selectInboundReport(reports, hint, acc.matched)
        id == hint.consumerId
    IN IF i = NoReport
       THEN [acc EXCEPT !.subscriptions = Append(@, [consumerId |-> id, report |-> NoReport, loss |-> 0])]
       ELSE [matched |-> acc.matched \cup {i},
             prev |-> [acc.prev EXCEPT ![id] =
                          [lost |-> reports[i].lost, received |-> reports[i].received]],
             subscriptions |-> Append(acc.subscriptions,
                 [consumerId |-> id, report |-> i,
                  loss |-> computeLossPercent(reports[i], acc.prev[id])])]
sample(reports, hints, prev) ==
    FoldLeft(LAMBDA acc, hint : SampleHint(reports, acc, hint),
             [matched |-> {}, prev |-> prev, subscriptions |-> <<>>], hints)

-----------------------------------------------------------------------------
(* Properties *)

(* Over two samples in which every hinted consumer has its report, in any  *)
(* order and among reports of streams nobody hinted, each subscription is  *)
(* charged with the packets its own stream lost in between, and no report  *)
(* is used for two subscriptions.                                          *)
SamplerChargesOwnLoss(hintLists, reportLists) ==
    \A hints \in hintLists, first, second \in reportLists :
        LET Own(reports, hint) == SelectInSeq(reports, LAMBDA r : matchesHint(r, hint))
            Complete(reports) == \A i \in DOMAIN hints : Own(reports, hints[i]) # 0
            before == sample(first, hints,
                             [c \in {hints[i].consumerId : i \in DOMAIN hints} |-> NoCounts])
            after == sample(second, hints, before.prev)
        IN Complete(first) /\ Complete(second) =>
               /\ \A i \in DOMAIN hints :
                      LET a == first[Own(first, hints[i])]
                          b == second[Own(second, hints[i])]
                      IN after.subscriptions[i].loss =
                             computeLossPercent(b, [lost |-> a.lost, received |-> a.received])
               /\ Cardinality(after.matched) = Len(hints)

=============================================================================
