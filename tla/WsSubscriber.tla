----------------------------- MODULE WsSubscriber -----------------------------
(***************************************************************************)
(* Hermes websocket fan-out (src/hermes/src/api/ws.rs).                    *)
(*                                                                         *)
(* websocket_handler registers a bounded notification channel for each     *)
(* connection in the DashMap ws_state.subscribers and runs a Subscriber    *)
(* actor that selects over its notifications, the client's messages and   *)
(* a 30s ping interval. notify_updates sends each aggregation event to     *)
(* every registered channel (awaiting room in a full one) while holding    *)
(* the map's shard guards, then removes the subscribers whose channel was  *)
(* closed.                                                                 *)
(*                                                                         *)
(* A message to the client goes onto "wire", the connection's socket       *)
(* buffer, which the client drains at its own pace. The map is one shard:  *)
(* with many subscribers every shard holds one. Worker threads are         *)
(* modelled because a DashMap insert blocks its thread while a shard is    *)
(* locked.                                                                 *)
(***************************************************************************)
EXTENDS Naturals, Sequences, FiniteSets

CONSTANTS
    Conns,            \* websocket connections (SubscriberId is a counter)
    Feeds,            \* price feed ids known to the store
    Unknown,          \* a price feed id the store does not know
    Whitelist,        \* connections whose IP is in bytes_limit_whitelist
    Stuck,            \* clients that never read from their socket
    NotifyCap,        \* NOTIFICATIONS_CHAN_LEN (1000 in the code)
    WireCap,          \* messages the socket buffers before a send waits
    Workers,          \* tokio worker threads
    MaxEvents,        \* aggregation events broadcast
    MaxClientMsgs,    \* requests each client sends
    MaxTicks,         \* ping ticks that can be pending (interval bursts)
    MaxPings,         \* times the ping interval fires per connection
    MaxStoreFailures  \* failed get_price_feeds_with_update_data calls

ASSUME /\ Unknown \notin Feeds /\ Whitelist \subseteq Conns /\ Stuck \subseteq Conns
       /\ NotifyCap \in Nat \ {0} /\ WireCap \in Nat \ {0} /\ Workers \in Nat \ {0}
       /\ MaxEvents \in Nat /\ MaxClientMsgs \in Nat /\ MaxTicks \in Nat \ {0}
       /\ MaxPings \in Nat \ {0}

Slots == 1 .. MaxEvents
EventIds == 1 .. MaxEvents
Event == [id : EventIds, slot : Slots, ooo : BOOLEAN]   \* AggregationEvent
NoEvent == [id |-> 1, slot |-> 1, ooo |-> FALSE]

(* Messages on the wire: a price update, a response, a ping.               *)
ServerMsg == [t : {"update", "success", "error", "ping"}, feed : Feeds \cup {Unknown}, slot : 0 .. MaxEvents]
Plain(t) == [t |-> t, feed |-> Unknown, slot |-> 0]

(* Client messages: subscribe, unsubscribe, malformed JSON, a pong, a      *)
(* close frame, or the stream ending (a transport error).                  *)
ClientMsg == [t : {"subscribe", "unsubscribe", "malformed", "pong", "close", "eof"},
              ids : SUBSET (Feeds \cup {Unknown}), ooo : BOOLEAN]
Requests ==
    {[t |-> "subscribe", ids |-> I, ooo |-> o] : I \in (SUBSET (Feeds \cup {Unknown})) \ {{}}, o \in BOOLEAN}
    \cup {[t |-> "unsubscribe", ids |-> I, ooo |-> FALSE] : I \in (SUBSET Feeds) \ {{}}}
    \cup {[t |-> t, ids |-> {}, ooo |-> FALSE] : t \in {"malformed", "close", "eof"}}
Pong == [t |-> "pong", ids |-> {}, ooo |-> FALSE]

(* PriceFeedClientConfig per feed: unsubscribed, or allow_out_of_order.    *)
Config == [Feeds -> {"none", "inorder", "ooo"}]

VARIABLES
    phase,        \* connection: "absent" | "handler" | "blocked" | "open" | "ended"
    registered,   \* ids in ws_state.subscribers
    inbox,        \* notification channel of each connection
    actor,        \* Subscriber: [pc, ev, updates, msg, then]
    cfg,          \* price_feeds_with_config
    responded,    \* responded_to_ping
    ticks,        \* ping interval ticks ready and not yet handled
    fired,        \* ticks of the interval so far
    wire,         \* messages sent and not yet read by the client
    fromClient,   \* client messages not yet received by the actor
    sentMsgs,     \* requests each client has sent
    bc,           \* notify_updates in progress: [pc, ev, todo, failed]
    events,       \* events broadcast so far
    latest,       \* newest slot of an in-order event
    storeFailures,
    targets,      \* history: subscribers each event was broadcast to
    handled,      \* history: events each actor finished writing
    lastSent,     \* history: slot of the last update written per connection and feed
    closeReason   \* why each actor ended

vars == <<phase, registered, inbox, actor, cfg, responded, ticks, fired, wire, fromClient,
          sentMsgs, bc, events, latest, storeFailures, targets, handled, lastSent,
          closeReason>>

Reasons == {"none", "client", "ping", "rate", "store", "error"}

TypeOK ==
    /\ phase \in [Conns -> {"absent", "handler", "blocked", "open", "ended"}]
    /\ registered \subseteq Conns
    /\ inbox \in [Conns -> Seq(Event)] /\ \A c \in Conns : Len(inbox[c]) <= NotifyCap
    /\ actor \in [Conns -> [pc : {"select", "fetch", "feed", "send"}, ev : Event,
                            updates : SUBSET ServerMsg, msg : ServerMsg,
                            then : {"select", "rate"}]]
    /\ cfg \in [Conns -> Config]
    /\ responded \in [Conns -> BOOLEAN]
    /\ ticks \in [Conns -> 0 .. MaxTicks]
    /\ fired \in [Conns -> 0 .. MaxPings]
    /\ wire \in [Conns -> Seq(ServerMsg)] /\ \A c \in Conns : Len(wire[c]) <= WireCap
    /\ fromClient \in [Conns -> Seq(ClientMsg)]
    /\ sentMsgs \in [Conns -> 0 .. MaxClientMsgs]
    /\ bc \in [pc : {"idle", "send"}, ev : Event, todo : SUBSET Conns, failed : SUBSET Conns]
    /\ events \in 0 .. MaxEvents /\ latest \in 0 .. MaxEvents
    /\ storeFailures \in 0 .. MaxStoreFailures
    /\ targets \in [EventIds -> SUBSET Conns]
    /\ handled \in [Conns -> SUBSET EventIds]
    /\ lastSent \in [Conns -> [Feeds -> 0 .. MaxEvents]]
    /\ closeReason \in [Conns -> Reasons]

(* A step of a task needs a worker thread; a blocked insert holds one.     *)
FreeWorker == Cardinality({c \in Conns : phase[c] = "blocked"}) < Workers

(* iter_mut hands out RefMut guards of the shard; each send future of the *)
(* join_all owns one until it completes, so the shard stays write-locked  *)
(* while a send is pending.                                                *)
ShardsLocked == bc.pc = "send" /\ bc.todo # {}

(* Subscriber::run returns: the Subscriber, and so its channel receiver,   *)
(* is dropped.                                                             *)
End(c, reason) ==
    /\ phase' = [phase EXCEPT ![c] = "ended"]
    /\ closeReason' = [closeReason EXCEPT ![c] = reason]
    /\ actor' = [actor EXCEPT ![c].pc = "select", ![c].updates = {}]

(* The actor as Subscriber::new builds it, about to select! with nothing *)
(* pending.                                                                *)
Idle == [pc |-> "select", ev |-> NoEvent, updates |-> {}, msg |-> Plain("success"),
         then |-> "select"]

(* sender.send(msg).await, continuing with `then` once it is written.      *)
SendMsg(c, msg, then) ==
    actor' = [actor EXCEPT ![c].pc = "send", ![c].msg = msg, ![c].then = then]

bcVars == <<bc, events, latest, targets>>

----------------------------------------------------------------------------
(* websocket_handler: take an id, create the channel and the Subscriber    *)
(* (responded_to_ping starts TRUE; an interval's first tick is immediate). *)
Connect(c) ==
    /\ phase[c] = "absent"
    /\ phase' = [phase EXCEPT ![c] = "handler"]
    /\ ticks' = [ticks EXCEPT ![c] = 1]
    /\ fired' = [fired EXCEPT ![c] = 1]
    /\ UNCHANGED <<registered, inbox, actor, cfg, responded, wire, fromClient, sentMsgs,
                   bcVars, storeFailures, handled, lastSent, closeReason>>

(* ws_state.subscribers.insert(id, notify_sender): a shard lock held by    *)
(* notify_updates blocks the calling thread until it is released.          *)
Insert(c) ==
    /\ phase[c] = "handler" /\ FreeWorker
    /\ IF ShardsLocked
       THEN phase' = [phase EXCEPT ![c] = "blocked"] /\ UNCHANGED registered
       ELSE /\ phase' = [phase EXCEPT ![c] = "open"]
            /\ registered' = registered \cup {c}
    /\ UNCHANGED <<fired, inbox, actor, cfg, responded, ticks, wire, fromClient, sentMsgs,
                   bcVars, storeFailures, handled, lastSent, closeReason>>

Unblock(c) ==
    /\ phase[c] = "blocked" /\ ~ShardsLocked
    /\ phase' = [phase EXCEPT ![c] = "open"]
    /\ registered' = registered \cup {c}
    /\ UNCHANGED <<fired, inbox, actor, cfg, responded, ticks, wire, fromClient, sentMsgs,
                   bcVars, storeFailures, handled, lastSent, closeReason>>

----------------------------------------------------------------------------
(* Subscriber::handle_next: tokio::select! takes any ready branch.         *)
Selecting(c) == phase[c] = "open" /\ actor[c].pc = "select" /\ FreeWorker

(* notify_receiver.recv() yields an event: handle_price_feeds_update.      *)
RecvEvent(c) ==
    /\ Selecting(c) /\ inbox[c] # <<>>
    /\ actor' = [actor EXCEPT ![c].pc = "fetch", ![c].ev = Head(inbox[c])]
    /\ inbox' = [inbox EXCEPT ![c] = Tail(@)]
    /\ UNCHANGED <<fired, phase, registered, cfg, responded, ticks, wire, fromClient, sentMsgs,
                   bcVars, storeFailures, handled, lastSent, closeReason>>

(* Fault variant: every subscribed feed receives OutOfOrder events.      *)
UpdatesForNoOOOFilter(c, ev) ==
    {[t |-> "update", feed |-> f, slot |-> ev.slot] :
        f \in {g \in Feeds : cfg[c][g] # "none"}}

(* The updates to send for an event: every subscribed feed, except that an *)
(* OutOfOrder event skips feeds that do not allow out-of-order updates.    *)
UpdatesFor(c, ev) ==
    {[t |-> "update", feed |-> f, slot |-> ev.slot] :
        f \in {g \in Feeds : cfg[c][g] = "ooo" \/ (cfg[c][g] = "inorder" /\ ~ev.ooo)}}

(* get_price_feeds_with_update_data(.., AtSlot(slot)).await; an error ends *)
(* the connection. With nothing to send, flush and return.                 *)
Fetch(c) ==
    /\ phase[c] = "open" /\ actor[c].pc = "fetch" /\ FreeWorker
    /\ \/ /\ storeFailures < MaxStoreFailures
          /\ storeFailures' = storeFailures + 1
          /\ End(c, "store")
          /\ UNCHANGED handled
       \/ LET ups == UpdatesFor(c, actor[c].ev) IN
          /\ UNCHANGED <<storeFailures, phase, closeReason>>
          /\ actor' = [actor EXCEPT ![c].pc = IF ups = {} THEN "select" ELSE "feed",
                                    ![c].updates = ups]
          /\ handled' = IF ups = {} THEN [handled EXCEPT ![c] = @ \cup {actor[c].ev.id}]
                        ELSE handled
    /\ UNCHANGED <<fired, registered, inbox, cfg, responded, ticks, wire, fromClient, sentMsgs,
                   bcVars, lastSent>>

(* One update of the loop: the rate limiter is checked for non-whitelisted *)
(* IPs; when exceeded an error is sent and the connection closed.          *)
(* Otherwise sender.feed(message).await; after the last, sender.flush().   *)
Feed(c) ==
    /\ phase[c] = "open" /\ actor[c].pc = "feed" /\ FreeWorker
    /\ \E m \in actor[c].updates :
         \/ /\ c \notin Whitelist
            /\ SendMsg(c, Plain("error"), "rate")
            /\ UNCHANGED <<wire, handled, lastSent>>
         \/ /\ Len(wire[c]) < WireCap
            /\ wire' = [wire EXCEPT ![c] = Append(@, m)]
            /\ lastSent' = [lastSent EXCEPT ![c][m.feed] = m.slot]
            /\ IF actor[c].updates = {m}
               THEN /\ actor' = [actor EXCEPT ![c].pc = "select", ![c].updates = {}]
                    /\ handled' = [handled EXCEPT ![c] = @ \cup {actor[c].ev.id}]
               ELSE /\ actor' = [actor EXCEPT ![c].updates = @ \ {m}]
                    /\ UNCHANGED handled
    /\ UNCHANGED <<fired, phase, registered, inbox, cfg, responded, ticks, fromClient, sentMsgs,
                   bcVars, storeFailures, closeReason>>

(* A pending sender.send(msg).await completes once the socket has room;    *)
(* after the rate-limit error, sender.close() and closed = true.           *)
Send(c) ==
    /\ phase[c] = "open" /\ actor[c].pc = "send" /\ FreeWorker
    /\ Len(wire[c]) < WireCap
    /\ wire' = [wire EXCEPT ![c] = Append(@, actor[c].msg)]
    /\ IF actor[c].then = "rate"
       THEN End(c, "rate")
       ELSE /\ actor' = [actor EXCEPT ![c].pc = "select"]
            /\ UNCHANGED <<phase, closeReason>>
    /\ UNCHANGED <<fired, registered, inbox, cfg, responded, ticks, fromClient, sentMsgs,
                   bcVars, storeFailures, handled, lastSent>>

(* receiver.next() yields a client message: handle_client_message. A close *)
(* frame closes the sender; a transport error or the end of the stream is *)
(* an error of handle_next; both end run(). Malformed JSON gets an error   *)
(* response. Subscribe with any unknown id gets an error and changes       *)
(* nothing; otherwise it sets the config of every id. Unsubscribe removes. *)
(* Both then answer success.                                               *)
ClientMessage(c) ==
    /\ Selecting(c) /\ fromClient[c] # <<>>
    /\ fromClient' = [fromClient EXCEPT ![c] = Tail(@)]
    /\ LET m == Head(fromClient[c]) IN
       CASE m.t = "close" -> End(c, "client") /\ UNCHANGED <<cfg, responded>>
         [] m.t = "eof" -> End(c, "error") /\ UNCHANGED <<cfg, responded>>
         [] m.t = "pong" ->
              /\ responded' = [responded EXCEPT ![c] = TRUE]
              /\ UNCHANGED <<actor, cfg, phase, closeReason>>
         [] m.t = "malformed" \/ (m.t = "subscribe" /\ ~(m.ids \subseteq Feeds)) ->
              /\ SendMsg(c, Plain("error"), "select")
              /\ UNCHANGED <<cfg, responded, phase, closeReason>>
         [] m.t = "subscribe" ->
              /\ cfg' = [cfg EXCEPT ![c] = [f \in Feeds |->
                           IF f \in m.ids THEN (IF m.ooo THEN "ooo" ELSE "inorder")
                           ELSE cfg[c][f]]]
              /\ SendMsg(c, Plain("success"), "select")
              /\ UNCHANGED <<responded, phase, closeReason>>
         [] OTHER ->
              /\ cfg' = [cfg EXCEPT ![c] = [f \in Feeds |->
                           IF f \in m.ids THEN "none" ELSE cfg[c][f]]]
              /\ SendMsg(c, Plain("success"), "select")
              /\ UNCHANGED <<responded, phase, closeReason>>
    /\ UNCHANGED <<fired, registered, inbox, ticks, wire, sentMsgs, bcVars, storeFailures,
                   handled, lastSent>>

(* ping_interval.tick(): without a pong since the last ping the connection *)
(* is closed; otherwise responded_to_ping = false and a ping is sent.      *)
Tick(c) ==
    /\ Selecting(c) /\ ticks[c] > 0
    /\ ticks' = [ticks EXCEPT ![c] = @ - 1]
    /\ IF responded[c]
       THEN /\ responded' = [responded EXCEPT ![c] = FALSE]
            /\ SendMsg(c, Plain("ping"), "select")
            /\ UNCHANGED <<phase, closeReason>>
       ELSE End(c, "ping") /\ UNCHANGED responded
    /\ UNCHANGED <<fired, registered, inbox, cfg, wire, fromClient, sentMsgs, bcVars,
                   storeFailures, handled, lastSent>>

----------------------------------------------------------------------------
(* Environment: clients, the interval timer and the aggregator.            *)

ClientSend(c) ==
    /\ phase[c] \in {"handler", "blocked", "open"}
    /\ sentMsgs[c] < MaxClientMsgs
    /\ \E m \in Requests : fromClient' = [fromClient EXCEPT ![c] = Append(@, m)]
    /\ sentMsgs' = [sentMsgs EXCEPT ![c] = @ + 1]
    /\ UNCHANGED <<fired, phase, registered, inbox, actor, cfg, responded, ticks, wire,
                   bcVars, storeFailures, handled, lastSent, closeReason>>

(* A client that reads answers a ping with a pong.                         *)
ClientRead(c) ==
    /\ phase[c] = "open" /\ c \notin Stuck /\ wire[c] # <<>>
    /\ wire' = [wire EXCEPT ![c] = Tail(@)]
    /\ fromClient' = IF Head(wire[c]).t = "ping"
                     THEN [fromClient EXCEPT ![c] = Append(@, Pong)]
                     ELSE fromClient
    /\ UNCHANGED <<fired, phase, registered, inbox, actor, cfg, responded, ticks, sentMsgs,
                   bcVars, storeFailures, handled, lastSent, closeReason>>

(* A ping or its pong still travelling between server and client.          *)
PongPending(c) ==
    \/ \E i \in 1 .. Len(wire[c]) : wire[c][i].t = "ping"
    \/ \E i \in 1 .. Len(fromClient[c]) : fromClient[c][i] = Pong

(* The 30s interval elapses. A waiting actor sees a tick only after the    *)
(* pong of a reading client has come back (its round trip is shorter than *)
(* 30s). Any other await is short unless it is a write to a socket whose  *)
(* buffer is full (a client reading slower than updates arrive); an actor *)
(* blocked there keeps missing ticks, which tokio's default                *)
(* MissedTickBehavior::Burst then delivers back to back.                   *)
IntervalTick(c) ==
    /\ phase[c] = "open" /\ ticks[c] < MaxTicks /\ fired[c] < MaxPings
    /\ actor[c].pc = "select" => ticks[c] = 0 /\ (c \in Stuck \/ ~PongPending(c))
    /\ actor[c].pc # "select" => Len(wire[c]) = WireCap
    /\ ticks' = [ticks EXCEPT ![c] = @ + 1]
    /\ fired' = [fired EXCEPT ![c] = @ + 1]
    /\ UNCHANGED <<phase, registered, inbox, actor, cfg, responded, wire, fromClient,
                   sentMsgs, bcVars, storeFailures, handled, lastSent, closeReason>>

(* The aggregator calls notify_updates with a new slot, or with an older   *)
(* slot whose data came late (AggregationEvent::OutOfOrder); one call at a *)
(* time. iter_mut locks the shards and visits every registered sender.    *)
NotifyStart ==
    /\ bc.pc = "idle" /\ events < MaxEvents /\ FreeWorker
    /\ \E ooo \in BOOLEAN, s \in Slots :
         /\ IF ooo THEN s < latest ELSE s = latest + 1
         /\ LET ev == [id |-> events + 1, slot |-> s, ooo |-> ooo] IN
            /\ bc' = [pc |-> "send", ev |-> ev, todo |-> registered, failed |-> {}]
            /\ targets' = [targets EXCEPT ![ev.id] = registered]
         /\ latest' = IF ooo THEN latest ELSE s
    /\ events' = events + 1
    /\ UNCHANGED <<fired, phase, registered, inbox, actor, cfg, responded, ticks, wire,
                   fromClient, sentMsgs, storeFailures, handled, lastSent, closeReason>>

(* Fault variants of the send: try_send, which drops the event when the   *)
(* channel is full; an unbounded channel; a send that does not notice the *)
(* receiver is gone and waits for room like any other.                     *)
NotifySendTryDrop(c) ==
    /\ bc.pc = "send" /\ c \in bc.todo /\ FreeWorker
    /\ \/ /\ phase[c] = "ended"
          /\ bc' = [bc EXCEPT !.todo = @ \ {c}, !.failed = @ \cup {c}]
          /\ UNCHANGED inbox
       \/ /\ phase[c] # "ended"
          /\ inbox' = IF Len(inbox[c]) < NotifyCap
                      THEN [inbox EXCEPT ![c] = Append(@, bc.ev)] ELSE inbox
          /\ bc' = [bc EXCEPT !.todo = @ \ {c}]
    /\ UNCHANGED <<fired, phase, registered, actor, cfg, responded, ticks, wire, fromClient,
                   sentMsgs, events, latest, targets, storeFailures, handled, lastSent,
                   closeReason>>

NotifySendUnbounded(c) ==
    /\ bc.pc = "send" /\ c \in bc.todo /\ FreeWorker
    /\ \/ /\ phase[c] = "ended"
          /\ bc' = [bc EXCEPT !.todo = @ \ {c}, !.failed = @ \cup {c}]
          /\ UNCHANGED inbox
       \/ /\ phase[c] # "ended"
          /\ inbox' = [inbox EXCEPT ![c] = Append(@, bc.ev)]
          /\ bc' = [bc EXCEPT !.todo = @ \ {c}]
    /\ UNCHANGED <<fired, phase, registered, actor, cfg, responded, ticks, wire, fromClient,
                   sentMsgs, events, latest, targets, storeFailures, handled, lastSent,
                   closeReason>>

NotifySendClosedWaits(c) ==
    /\ bc.pc = "send" /\ c \in bc.todo /\ FreeWorker
    /\ Len(inbox[c]) < NotifyCap
    /\ inbox' = [inbox EXCEPT ![c] = Append(@, bc.ev)]
    /\ bc' = [bc EXCEPT !.todo = @ \ {c}]
    /\ UNCHANGED <<fired, phase, registered, actor, cfg, responded, ticks, wire, fromClient,
                   sentMsgs, events, latest, targets, storeFailures, handled, lastSent,
                   closeReason>>

(* subscriber.send(event).await for one subscriber of the join_all: it     *)
(* fails at once when the receiver is gone and otherwise waits for room.   *)
NotifySend(c) ==
    /\ bc.pc = "send" /\ c \in bc.todo /\ FreeWorker
    /\ \/ /\ phase[c] = "ended"
          /\ bc' = [bc EXCEPT !.todo = @ \ {c}, !.failed = @ \cup {c}]
          /\ UNCHANGED inbox
       \/ /\ phase[c] # "ended" /\ Len(inbox[c]) < NotifyCap
          /\ inbox' = [inbox EXCEPT ![c] = Append(@, bc.ev)]
          /\ bc' = [bc EXCEPT !.todo = @ \ {c}]
    /\ UNCHANGED <<fired, phase, registered, actor, cfg, responded, ticks, wire, fromClient,
                   sentMsgs, events, latest, targets, storeFailures, handled, lastSent,
                   closeReason>>

(* join_all completes: the guards drop and the closed ones are removed.    *)
NotifyEnd ==
    /\ bc.pc = "send" /\ bc.todo = {} /\ FreeWorker
    /\ registered' = registered \ bc.failed
    /\ bc' = [bc EXCEPT !.pc = "idle", !.failed = {}]
    /\ UNCHANGED <<fired, phase, inbox, actor, cfg, responded, ticks, wire, fromClient,
                   sentMsgs, events, latest, targets, storeFailures, handled, lastSent,
                   closeReason>>

----------------------------------------------------------------------------

(* WsState::new: no connection yet and the subscribers map empty (the     *)
(* counter, the whitelist and the rate limiter are the constants Conns and *)
(* Whitelist and the choices of Feed). A connection is never reused, so   *)
(* its actor fields start as Subscriber::new will set them.                *)
Init ==
    /\ phase = [c \in Conns |-> "absent"]
    /\ registered = {}
    /\ inbox = [c \in Conns |-> <<>>]
    /\ actor = [c \in Conns |-> Idle]
    /\ cfg = [c \in Conns |-> [f \in Feeds |-> "none"]]
    /\ responded = [c \in Conns |-> TRUE]
    /\ ticks = [c \in Conns |-> 0]
    /\ fired = [c \in Conns |-> 0]
    /\ wire = [c \in Conns |-> <<>>]
    /\ fromClient = [c \in Conns |-> <<>>]
    /\ sentMsgs = [c \in Conns |-> 0]
    /\ bc = [pc |-> "idle", ev |-> NoEvent, todo |-> {}, failed |-> {}]
    /\ events = 0 /\ latest = 0 /\ storeFailures = 0
    /\ targets = [k \in EventIds |-> {}]
    /\ handled = [c \in Conns |-> {}]
    /\ lastSent = [c \in Conns |-> [f \in Feeds |-> 0]]
    /\ closeReason = [c \in Conns |-> "none"]

Next ==
    \/ \E c \in Conns :
         \/ Connect(c) \/ Insert(c) \/ Unblock(c)
         \/ RecvEvent(c) \/ Fetch(c) \/ Feed(c) \/ Send(c)
         \/ ClientMessage(c) \/ Tick(c)
         \/ ClientSend(c) \/ ClientRead(c) \/ IntervalTick(c)
         \/ NotifySend(c)
    \/ NotifyStart \/ NotifyEnd

(* tokio polls every ready task. select! picks a ready branch at random,   *)
(* so a branch ready again and again is eventually taken: strong fairness  *)
(* for the three branches. A client outside Stuck keeps reading. Clients   *)
(* need not connect or send, the timer need not fire and the aggregator    *)
(* need not publish.                                                       *)
Fairness ==
    /\ \A c \in Conns :
        /\ WF_vars(Insert(c)) /\ WF_vars(Unblock(c))
        /\ SF_vars(RecvEvent(c)) /\ SF_vars(ClientMessage(c)) /\ SF_vars(Tick(c))
        /\ WF_vars(Fetch(c)) /\ WF_vars(Feed(c)) /\ WF_vars(Send(c))
        /\ WF_vars(NotifySend(c))
        /\ (c \notin Stuck => WF_vars(ClientRead(c)))
    /\ WF_vars(NotifyEnd)

Spec == Init /\ [][Next]_vars /\ Fairness

----------------------------------------------------------------------------
(* Properties.                                                             *)

(* No update is lost: every event notify_updates broadcast to an open      *)
(* subscriber is eventually written out by its actor, unless the          *)
(* connection ends first. notify_updates waits for room in a full channel *)
(* rather than dropping the event (ws.rs:442).                             *)
NoUpdateLost ==
    \A c \in Conns, k \in EventIds :
        (c \in targets[k] /\ phase[c] = "open") ~> (k \in handled[c] \/ phase[c] = "ended")

(* Every notify_updates call completes, so later events and the removal   *)
(* of closed subscribers are not held up (ws.rs:438-461).                  *)
BroadcastCompletes == bc.pc = "send" ~> bc.pc = "idle"

(* A feed subscribed without allow_out_of_order never receives an update  *)
(* older than the last one it received: the OutOfOrder filter             *)
(* (ws.rs:279-283) and the FIFO channel keep the slots increasing.         *)
InOrderNeverRegresses ==
    [][\A c \in Conns, f \in Feeds :
         (lastSent'[c][f] # lastSent[c][f] /\ cfg[c][f] = "inorder")
            => lastSent'[c][f] > lastSent[c][f]]_vars

(* A client that reads its socket and answers every ping is never          *)
(* disconnected for not responding to a ping (responded_to_ping starts    *)
(* TRUE "so we don't close the connection immediately", ws.rs:212, and    *)
(* the close says the subscriber did not respond, ws.rs:241).              *)
ResponsiveClientKept == \A c \in Conns \ Stuck : closeReason[c] # "ping"

=============================================================================
