---------------------------- MODULE MCWsSubscriber ----------------------------
(* WsSubscriber instantiated for TLC: one known feed and one unknown id,  *)
(* channels and socket buffers of one message so that a full channel and  *)
(* a waiting send happen. The cfg files pick the connections, events and  *)
(* requests for each question.                                             *)
EXTENDS WsSubscriber

CONSTANTS f1, u

(* Client requests: subscribe to the known feed in order or out of order, *)
(* subscribe including the unknown id, unsubscribe, close, disconnect.     *)
MCRequests ==
    {[t |-> "subscribe", ids |-> {f1}, ooo |-> FALSE],
     [t |-> "subscribe", ids |-> {f1}, ooo |-> TRUE],
     [t |-> "subscribe", ids |-> {f1, u}, ooo |-> FALSE],
     [t |-> "unsubscribe", ids |-> {f1}, ooo |-> FALSE],
     [t |-> "close", ids |-> {}, ooo |-> FALSE],
     [t |-> "eof", ids |-> {}, ooo |-> FALSE]}

(* Clients that only subscribe to the known feed.                          *)
MCSubscribeOnly == {[t |-> "subscribe", ids |-> {f1}, ooo |-> FALSE]}

(* Clients that may close: the broadcast then meets a dropped receiver.   *)
MCCloseOnly == {[t |-> "close", ids |-> {}, ooo |-> FALSE]}

=============================================================================
