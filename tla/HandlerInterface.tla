-------------------------- MODULE HandlerInterface --------------------------
(***************************************************************************)
(* What the handlers share.  A handler adapts the client to one browser's  *)
(* WebRTC; each has a module of its own, in which a method is the sequence *)
(* of its steps: guards, state changes and awaited calls in the order of   *)
(* the code.  HandlerRuntime gives every step its meaning; a step of       *)
(* Awaits suspends the method, and other code runs before it continues.    *)
(***************************************************************************)
EXTENDS Integers, Sequences, SequencesExt

(* Awaited calls.                                                          *)
Awaits ==
    {"createOffer", "setLocalOffer", "setRemoteAnswer",
     "setRemoteOffer", "createAnswer", "setLocalAnswer",
     "connect", "replaceTrack", "setParameters", "setEncodings",
     "setLocalOfferOrNoTracks", "sendRtp", "receiveRtp"}

(* The three calls that bring a sending peer connection up to date, and    *)
(* the three that bring a receiving one.                                   *)
Offer == <<"createOffer", "setLocalOffer", "setRemoteAnswer">>
Answer == <<"setRemoteOffer", "createAnswer", "setLocalAnswer">>

(* The fields every constructor initialises; one a handler does not have   *)
(* keeps its initial value.                                                *)
NewHandler ==
    [dir |-> "none", closed |-> FALSE, ready |-> FALSE, map |-> <<>>,
     hasData |-> FALSE, nextStream |-> 0, nextLocalId |-> 0, stream |-> {}]

MaxBatch == 4   \* bound: consumers one call of receive creates

(* Entry guards of the handlers that keep a _closed flag, and of those     *)
(* that do not.                                                            *)
SendGuards == <<"assertNotClosed", "assertSendDirection">>
RecvGuards == <<"assertNotClosed", "assertRecvDirection">>
FindTransceiver == <<"getTransceiver", "requireTransceiver">>

=============================================================================
