------------------------------ MODULE RtpTypes ------------------------------
(***************************************************************************)
(* RTP codecs as both ends exchange them.                                  *)
(*                                                                         *)
(* A codec is [mime, pt, clock, channels, params, fb]: mime is the pair of *)
(* media kind and lower-case name (both ends compare names without case),  *)
(* pt the (preferred) payload type, params a function on the parameters    *)
(* that are present, fb the set of RTCP feedbacks <<type, parameter>>.  A  *)
(* profile-level-id is the pair of its first four digits and its level.    *)
(***************************************************************************)
EXTENDS Integers, Sequences, FiniteSets, SequencesExt

NoPt == 0          \* an absent payload type (both ends test it for zero)
NoChannels == 0    \* an absent channel count
Kinds == {"audio", "video"}

Codec(mime, pt, clock, channels, params, fb) ==
    [mime |-> mime, pt |-> pt, clock |-> clock, channels |-> channels, params |-> params, fb |-> fb]

NoParams == [k \in {} |-> 0]
Param(params, key, default) == IF key \in DOMAIN params THEN params[key] ELSE default
SetParam(params, key, value) ==
    [k \in DOMAIN params \cup {key} |-> IF k = key THEN value ELSE params[k]]
DropParam(params, key) == [k \in DOMAIN params \ {key} |-> params[k]]

kind(codec) == codec.mime[1]
isRtxCodec(codec) == codec.mime[2] = "rtx"
RtxCodec(media, pt, apt) ==
    Codec(<<media.mime[1], "rtx">>, pt, media.clock, NoChannels, [apt |-> apt], {})

PtsOf(codecs) == {codecs[i].pt : i \in DOMAIN codecs}

=============================================================================
