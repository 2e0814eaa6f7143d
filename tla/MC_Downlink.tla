---------------------------- MODULE MC_Downlink -----------------------------
(***************************************************************************)
(* Instance of Downlink for model checking.  One unit of time is the       *)
(* report interval of 2 s: the pause confirmation is two of them, a report *)
(* is stale after three, the hold and the warm-up (1 s) are one.  The      *)
(* tolerance of the timestamps (1 s) is less than one, hence 0.            *)
(***************************************************************************)
EXTENDS Downlink, DownlinkSampler

(* Two video consumers, or a video and an audio one; their reports, with a *)
(* third one of a stream that nobody hinted, in every order.               *)
Hint(id, kind) == [consumerId |-> id, kind |-> kind, mid |-> id]
HintLists == {<<Hint("0", "video"), Hint("1", kind)>> : kind \in {"audio", "video"}}
Orders == {<<1, 2, 3>>, <<1, 3, 2>>, <<2, 1, 3>>, <<2, 3, 1>>, <<3, 1, 2>>, <<3, 2, 1>>}
ReportLists ==
    {[i \in 1 .. 3 |->
        LET k == order[i]
        IN [mid |-> <<"0", "1", "2">>[k], kind |-> IF k = 2 THEN kind ELSE "video",
            lost |-> k * n, received |-> 10 * n + k]]
     : order \in Orders, kind \in {"audio", "video"}, n \in 0 .. 2}

(* Whenever the page samples, every subscription is charged with the loss  *)
(* of its own stream (selectInboundReport, computeLossPercent), whatever   *)
(* the order of the reports.                                               *)
SamplesAreOwn == SamplerChargesOwnLoss(HintLists, ReportLists)
LossIsChargedToItsStream == page.pc = "sampling" => SamplesAreOwn

=============================================================================
