----------------------------- MODULE MarketFeed -----------------------------
(***************************************************************************)
(* A market-data feed of one exchange: the exchange's books and its end of *)
(* a WebSocket (external), the connection helper of the adapter            *)
(* (adapters/kalshi/websocket.py or adapters/polymarket/websocket.py), the *)
(* mappers and the order-book projection, and the loop that drives them    *)
(* (external: docs/01_ARCHITECTURE.md sections 14.4 and 14.5 prescribe it: *)
(* apply the expected sequence, ignore duplicate and stale frames, on a    *)
(* gap invalidate the book and subscribe again, on an error reconnect and  *)
(* resubscribe).                                                           *)
(*                                                                         *)
(* A behaviour is of one venue.  The exchange follows a history, a         *)
(* sequence of book changes drawn from Histories; `pos' of them have       *)
(* happened.  Every frame remembers in `at' how many changes its sender    *)
(* had made: the client never reads it, the properties do.                 *)
(***************************************************************************)
EXTENDS KalshiMapping, PolymarketMapping, FiniteSets

CONSTANTS
  Venues,          \* "kalshi", "polymarket"
  Histories,       \* [venue -> set of [opening, changes, trades, calls]]
  Asset,           \* the market / outcome token this feed's book is of
  InitialPlan,     \* the tokens of the Polymarket subscription plan
  TokenUpdates,    \* the update_tokens() calls made: names
  UpdatePlan,      \* [TokenUpdates -> plan]
  RequestIds,      \* request ids the Kalshi loop draws from
  MissedLimit,     \* missed_heartbeat_limit; a tick is one heartbeat interval
  MaxFaults,       \* bound: [venue -> faults of the network and the exchange]
  WireCap          \* bound: frames in flight at which the exchange pauses

ASSUME FeedAssumption ==
  /\ Venues \subseteq {"kalshi", "polymarket"}
  /\ InitialPlan # {}
  /\ MissedLimit \in Nat \ {0} /\ (\A v \in Venues : MaxFaults[v] \in Nat) /\ WireCap \in Nat
  /\ None \notin Int /\ None # "buyer"

(* The quantities of finitely many prices. *)
IsRawSide(levels) ==
  /\ DOMAIN levels \subseteq Int /\ IsFiniteSet(DOMAIN levels)
  /\ levels = [p \in DOMAIN levels |-> levels[p]]

(* A book has two sides; its changes come in a sequence, Polymarket's each *)
(* as a sequence of changes of tokens; a Kalshi trade has a price.         *)
ASSUME HistoriesAssumption ==
  \A v \in Venues : \A h \in Histories[v] :
    /\ IsSequence(h.changes)
    /\ v = "kalshi" =>
         /\ {"yes", "no"} \subseteq DOMAIN h.opening
         /\ IsRawSide(h.opening.yes) /\ IsRawSide(h.opening.no)
         /\ \A i \in DOMAIN h.changes :
              h.changes[i].side \in {"yes", "no"} /\ h.changes[i].price \in Int
         /\ \A t \in h.trades : t.yes \in Int
    /\ v = "polymarket" =>
         /\ {"BUY", "SELL"} \subseteq DOMAIN h.opening
         /\ IsRawSide(h.opening.BUY) /\ IsRawSide(h.opening.SELL)
         /\ \A i \in DOMAIN h.changes :
              /\ IsSequence(h.changes[i])
              /\ \A k \in DOMAIN h.changes[i] :
                   h.changes[i][k].side \in {"BUY", "SELL"} /\ h.changes[i][k].price \in Int

VARIABLES
  venue, history, pos,     \* the exchange and what it has done
  server,                  \* its end of the connection
  wire,                    \* frames on their way to the client
  phase,                   \* where the client loop is
  request,                 \* the request id of the last subscribe()
  book, previous,          \* the local book and previous_sequence
  tokens, updates,         \* Polymarket: _subscription and update_tokens() calls
  trade,                   \* the last canonical trade, with the exchange's own
  idle, pinged, late,      \* heartbeat clock
  faults,                  \* faults so far
  seen, rebuilt, mixed     \* history variables of the properties

vars == <<venue, history, pos, server, wire, phase, request, book, previous, tokens,
          updates, trade, idle, pinged, late, faults, seen, rebuilt, mixed>>

exchange == <<venue, history>>
clock    == <<idle, pinged, late>>
local    == <<phase, request, book, previous, seen, rebuilt>>
token    == <<tokens, updates, mixed>>

Kalshi     == venue = "kalshi"
Polymarket == venue = "polymarket"

-----------------------------------------------------------------------------
(* The exchange's own book after n changes: price -> quantity per raw side. *)

SetLevel(levels, price, quantity) ==
  IF quantity = 0 THEN Restrict(levels, DOMAIN levels \ {price})
  ELSE [p \in DOMAIN levels \cup {price} |-> IF p = price THEN quantity ELSE levels[p]]

KalshiChange(raw, u) ==
  [raw EXCEPT ![u.side] =
     SetLevel(@, u.price, IF u.action = "delete" THEN 0 ELSE u.quantity)]

TokenChange(raw, c) ==
  IF c.asset_id = Asset THEN [raw EXCEPT ![c.side] = SetLevel(@, c.price, c.size)] ELSE raw

MessageChange(raw, changes) ==
  LET after[n \in 0..Len(changes)] ==
        IF n = 0 THEN raw ELSE TokenChange(after[n - 1], changes[n])
  IN  after[Len(changes)]

RawBooks(v, h) ==
  LET after[n \in 0..Len(h.changes)] ==
        IF n = 0 THEN h.opening
        ELSE IF v = "kalshi" THEN KalshiChange(after[n - 1], h.changes[n])
        ELSE MessageChange(after[n - 1], h.changes[n])
  IN  after

RawBook(n) == RawBooks(venue, history)[n]

(* How many of the first n changes are about the book this feed follows. *)
Touches(changes) == \E i \in DOMAIN changes : changes[i].asset_id = Asset

Touching(n) ==
  IF Kalshi THEN n ELSE Cardinality({i \in 1..n : Touches(history.changes[i])})

RawLevels(levels) ==
  LET prices == Ascending(DOMAIN levels)
  IN  [i \in DOMAIN prices |-> [price |-> prices[i], quantity |-> levels[prices[i]]]]

(* The frames as the client parses them.  KalshiWebSocketDataFrame keeps a *)
(* channel's message with its sequence.                                    *)
DataFrame(kind, n, message) == [kind |-> kind, at |-> n, message |-> message]

HelloFrame == [kind |-> "hello"]

AckFrame(r) == [kind |-> "ack", request_id |-> r]

PingFrame == [kind |-> "ping"]

PongFrame == [kind |-> "PONG"]

SnapshotFrame(n) ==
  DataFrame("book", n,
    IF Kalshi
    THEN [message_type |-> "snapshot", sequence |-> n,
          yes |-> RawLevels(RawBook(n).yes), no |-> RawLevels(RawBook(n).no)]
    ELSE [asset_id |-> Asset,
          bids |-> RawLevels(RawBook(n).BUY), asks |-> RawLevels(RawBook(n).SELL)])

(* Polymarket sends a message without the changes of tokens the client has *)
(* not asked for.                                                          *)
DeltaFrame(n) ==
  DataFrame("change", n,
    IF Kalshi
    THEN LET u == history.changes[n]
         IN  [message_type |-> "delta", sequence |-> n, side |-> u.side, price |-> u.price,
              quantity |-> u.quantity, action |-> u.action]
    ELSE [price_changes |-> ChangesOf(history.changes[n], server.tokens)])

(* A Kalshi trade reaches the client with the yes price, the no price or    *)
(* both, its taker perhaps called by another name; a Polymarket one with    *)
(* some of its identities and times, perhaps without its size.              *)
KalshiRawTrades(t) ==
  {[trade_id |-> t.trade_id, count |-> t.count, taker_side |-> s,
    yes_price |-> y, no_price |-> n] :
      s \in {t.taker, "buyer"}, y \in {None, t.yes}, n \in {None, CentsPerContract - t.yes}}

PolymarketRawTrades(t) ==
  {[asset_id |-> t.asset_id, price |-> t.price, side |-> t.side, trade_id |-> None,
    transaction_hash |-> h, timestamp |-> ts, match_time |-> mt, last_update |-> lu,
    size |-> q] :
      h \in {None, t.hash}, ts \in {None, t.time}, mt \in {None, t.time},
      lu \in {None, t.time}, q \in {None, t.size}}

RawTrades(t) == IF Kalshi THEN KalshiRawTrades(t) ELSE PolymarketRawTrades(t)

-----------------------------------------------------------------------------
NoUpdate == [state |-> "none", result |-> {}]

Offline == [alive |-> FALSE, greeted |-> FALSE, subscribed |-> FALSE,
            pending |-> None, tokens |-> {}]

Init ==
  /\ venue \in Venues
  /\ history \in Histories[venue]
  /\ pos = 0
  /\ server = Offline
  /\ wire = <<>>
  /\ phase = "down"
  /\ request = CHOOSE r \in RequestIds : TRUE
  /\ book = None /\ previous = None
  /\ tokens = None /\ updates = [u \in TokenUpdates |-> NoUpdate]
  /\ trade = None
  /\ idle = 0 /\ pinged = FALSE /\ late = 0
  /\ faults = 0
  /\ seen = None /\ rebuilt = FALSE /\ mixed = FALSE

-----------------------------------------------------------------------------
(* The exchange. *)

Sends(frames) == wire' = wire \o frames

(* The book changes; a subscriber is sent the change. *)
ExchangeChanges ==
  /\ pos < Len(history.changes)
  /\ Len(wire) < WireCap
  /\ pos' = pos + 1
  /\ LET frame == DeltaFrame(pos + 1)
     IN  IF server.alive /\ (IF Kalshi THEN server.subscribed
                             ELSE frame.message.price_changes # <<>>)
         THEN Sends(<<frame>>)
         ELSE UNCHANGED wire
  /\ UNCHANGED <<exchange, server, local, token, trade, clock, faults>>

ExchangeGreets ==
  /\ Kalshi /\ server.alive /\ ~server.greeted
  /\ server' = [server EXCEPT !.greeted = TRUE]
  /\ Sends(<<HelloFrame>>)
  /\ UNCHANGED <<exchange, pos, local, token, trade, clock, faults>>

(* A subscribe request is acknowledged and answered with a snapshot. *)
ExchangeAcknowledges ==
  /\ Kalshi /\ server.alive /\ server.pending # None
  /\ server' = [server EXCEPT !.subscribed = TRUE, !.pending = None]
  /\ Sends(<<AckFrame(server.pending), SnapshotFrame(pos)>>)
  /\ UNCHANGED <<exchange, pos, local, token, trade, clock, faults>>

ExchangePings ==
  /\ Kalshi /\ server.alive /\ server.subscribed /\ ~pinged
  /\ Sends(<<PingFrame>>)
  /\ pinged' = TRUE
  /\ UNCHANGED <<exchange, pos, server, local, token, trade, idle, late, faults>>

ExchangeTrades ==
  /\ trade = None /\ server.alive
  /\ IF Kalshi THEN server.subscribed ELSE Asset \in server.tokens
  /\ Len(wire) < WireCap
  /\ \A i \in DOMAIN wire : wire[i].kind # "trade"
  /\ \E t \in history.trades : \E raw \in RawTrades(t) :
       Sends(<<[kind |-> "trade", truth |-> t, message |-> raw]>>)
  /\ UNCHANGED <<exchange, pos, server, local, token, trade, clock, faults>>

-----------------------------------------------------------------------------
(* Faults. *)

Fault == faults < MaxFaults[venue] /\ faults' = faults + 1

(* The exchange drops, repeats or strips of its sequence a change that is  *)
(* still in flight.                                                        *)
ChangeIsLost ==
  /\ Kalshi /\ Fault
  /\ \E i \in DOMAIN wire : wire[i].kind = "change" /\ wire' = RemoveAt(wire, i)
  /\ late' = IF late > Len(wire') THEN Len(wire') ELSE late
  /\ UNCHANGED <<exchange, pos, server, local, token, trade, idle, pinged>>

FrameIsRepeated ==
  /\ Kalshi /\ Fault
  /\ \E i \in DOMAIN wire : wire[i].kind \in {"book", "change"} /\ wire' = Append(wire, wire[i])
  /\ UNCHANGED <<exchange, pos, server, local, token, trade, idle, pinged, late>>

SequenceIsMissing ==
  /\ Kalshi /\ Fault
  /\ \E i \in DOMAIN wire :
       wire[i].kind = "change" /\ wire' = [wire EXCEPT ![i].message.sequence = None]
  /\ UNCHANGED <<exchange, pos, server, local, token, trade, idle, pinged, late>>

(* A frame the client did not ask for: an error, a frame that is not JSON  *)
(* or breaks its schema, one of a type it does not know, or a ping at an   *)
(* inconvenient time.                                                      *)
StrayFrame ==
  /\ Fault /\ server.alive
  /\ \E k \in {"error", "malformed", "unsupported", "ping"} :
       wire' = Append(wire, [kind |-> k])
  /\ UNCHANGED <<exchange, pos, server, local, token, trade, idle, pinged, late>>

(* The connection dies and nobody is told. *)
HalfOpen ==
  /\ Fault /\ server.alive
  /\ server' = Offline /\ wire' = <<>> /\ late' = 0
  /\ UNCHANGED <<exchange, pos, local, token, trade, idle, pinged>>

-----------------------------------------------------------------------------
(* The client: what every receive does, and how an error ends.             *)

Received ==
  /\ wire # <<>>
  /\ wire' = Tail(wire)
  /\ late' = IF late > 0 THEN late - 1 ELSE 0

(* A bug: the last interval allowed counts as missed. *)
StaleAtTheLimit(ticks) == ticks >= 1 * MissedLimit

(* is_kalshi_heartbeat_stale counts from the last frame received,          *)
(* is_polymarket_heartbeat_stale from the last PONG.  An interval is one   *)
(* tick.                                                                   *)
is_kalshi_heartbeat_stale(ticks) == ticks > 1 * MissedLimit

is_polymarket_heartbeat_stale(ticks) == ticks > 1 * MissedLimit

HeartbeatStale(ticks) ==
  IF Kalshi THEN is_kalshi_heartbeat_stale(ticks) ELSE is_polymarket_heartbeat_stale(ticks)

(* receive_next_frame(): what the text of a frame is taken for.  An error  *)
(* frame, one that does not parse and, at Kalshi, one of an unknown        *)
(* channel raise AdapterProtocolError; Polymarket returns unknown frames.  *)
Unusable(frame) == frame.kind \in {"error", "malformed", "unsupported"}

KalshiFrame(frame) ==
  CASE frame.kind = "hello" -> "hello"
    [] frame.kind = "ack"   -> "ack"
    [] frame.kind = "ping"  -> "heartbeat"
    [] Unusable(frame)      -> "raises"
    [] frame.kind \in {"book", "change", "trade"} -> "data"

PolymarketFrame(frame) ==
  CASE frame.kind \in {"ping", "PONG"} -> "heartbeat"
    [] frame.kind = "unsupported"      -> "unsupported"
    [] frame.kind \in {"error", "malformed"} -> "raises"
    [] frame.kind = "trade" /\ ~PolymarketTradeOk(frame.message) -> "raises"
    [] OTHER                           -> "data"

Taken(frame) == IF Kalshi THEN KalshiFrame(frame) ELSE PolymarketFrame(frame)

(* The loop closes the connection (close() is idempotent) and starts over; *)
(* what it knew of the book is no longer to be relied on.                  *)
Disconnects ==
  /\ phase' = "down"
  /\ book' = None /\ previous' = None /\ seen' = None /\ rebuilt' = FALSE
  /\ server' = Offline
  /\ wire' = <<>> /\ late' = 0 /\ idle' = 0 /\ pinged' = FALSE
  /\ UNCHANGED request

Connect ==
  /\ phase = "down"
  /\ phase' = IF Kalshi THEN "hello" ELSE "subscribe"
  /\ server' = [Offline EXCEPT !.alive = TRUE]
  /\ UNCHANGED <<exchange, pos, wire, request, book, previous, seen, rebuilt, token,
                 trade, clock, faults>>

(* receive_hello *)
ReceiveHello ==
  /\ phase = "hello" /\ wire # <<>>
  /\ \/ /\ Taken(Head(wire)) = "hello"
        /\ Received
        /\ phase' = "subscribe" /\ idle' = 0
        /\ UNCHANGED <<server, request, book, previous, seen, rebuilt, pinged>>
     \/ /\ Taken(Head(wire)) # "hello"
        /\ Disconnects
  /\ UNCHANGED <<exchange, pos, token, trade, faults>>

(* subscribe(): the plan is sent ... *)
SubscribeSends ==
  /\ Kalshi /\ phase = "subscribe"
  /\ phase' = "ack"
  /\ server' = [server EXCEPT !.pending = IF server.alive THEN request ELSE None]
  /\ UNCHANGED <<exchange, pos, wire, request, book, previous, seen, rebuilt, token,
                 trade, clock, faults>>

(* ... and the next frame must be its acknowledgement. *)
SubscribeReceives ==
  /\ phase = "ack" /\ wire # <<>>
  /\ IF Taken(Head(wire)) = "ack" /\ Head(wire).request_id = request
     THEN /\ Received
          /\ phase' = "stream" /\ idle' = 0
          /\ UNCHANGED <<server, request, book, previous, seen, rebuilt, pinged>>
     ELSE Disconnects
  /\ UNCHANGED <<exchange, pos, token, trade, faults>>

(* receive_text() gives up during the handshake. *)
HandshakeTimesOut ==
  /\ phase \in {"hello", "ack"} /\ wire = <<>>
  /\ IF server.alive THEN Fault ELSE UNCHANGED faults
  /\ Disconnects
  /\ UNCHANGED <<exchange, pos, token, trade>>

(* receive_next_frame() on a frame that is no market data. *)
ReceiveHeartbeat ==
  /\ phase = "stream" /\ wire # <<>> /\ Taken(Head(wire)) = "heartbeat"
  /\ Received
  /\ idle' = IF Kalshi \/ Head(wire).kind = "PONG" THEN 0 ELSE idle
  /\ UNCHANGED <<exchange, pos, server, local, token, trade, pinged, faults>>

(* receive_next_frame() on a frame of no use. *)
ReceiveStray ==
  /\ phase = "stream" /\ wire # <<>>
  /\ \/ /\ Taken(Head(wire)) = "unsupported"
        /\ Received /\ UNCHANGED <<server, local, idle, pinged>>
     \/ /\ Taken(Head(wire)) = "raises"
        /\ Disconnects
  /\ UNCHANGED <<exchange, pos, token, trade, faults>>

(* A trade: the raw model refuses it (Kalshi's loop parses it itself), its *)
(* mapper refuses it and the loop goes on, or it becomes canonical.        *)
KalshiTradeFrame(frame) ==
  IF TradeOk(frame.message)
  THEN /\ Received
       /\ IF TakerSideKnown(frame.message)
          THEN \E o \in {"yes", "no"} :
                 trade' = [truth |-> frame.truth, mapped |-> map_kalshi_trade(frame.message, o)]
          ELSE UNCHANGED trade
       /\ idle' = 0
       /\ UNCHANGED <<server, local, pinged>>
  ELSE Disconnects /\ UNCHANGED trade

PolymarketTradeFrame(frame) ==
  /\ Received
  /\ trade' = IF PolymarketTradeMaps(frame.message, Asset)
              THEN [truth |-> frame.truth, mapped |-> map_polymarket_trade(frame.message)]
              ELSE trade
  /\ UNCHANGED <<server, local, idle, pinged>>

ReceiveTrade ==
  /\ phase = "stream" /\ wire # <<>>
  /\ Taken(Head(wire)) = "data" /\ Head(wire).kind = "trade"
  /\ IF Kalshi THEN KalshiTradeFrame(Head(wire)) ELSE PolymarketTradeFrame(Head(wire))
  /\ UNCHANGED <<exchange, pos, token, faults>>

Shows(b, frame, snapshot) ==
  book' = b /\ seen' = frame.at /\ rebuilt' = snapshot

(* A Kalshi order-book frame in the stream: the loop checks the sequence   *)
(* of the frame and that of the message in it.                             *)
KalshiBookFrame(frame) ==
  LET m      == frame.message
      status == OrderBookSequenceStatus(previous, m)
  IN  \/ /\ ~OrderBookMessageOk(m)
         /\ Disconnects
      \/ /\ OrderBookMessageOk(m) /\ status = "ok" /\ frame.kind = "book"
         /\ Received
         /\ Shows(map_kalshi_order_book_snapshot(m, Asset), frame, TRUE)
         /\ previous' = m.sequence
         /\ idle' = 0
         /\ UNCHANGED <<phase, request, server, pinged>>
      \/ /\ OrderBookMessageOk(m) /\ status = "ok" /\ frame.kind = "change" /\ book # None
         /\ LET delta == map_kalshi_order_book_delta(m, Asset, previous)
            IN  /\ DeltaApplies(book, delta)
                /\ Shows(apply_order_book_delta(book, delta), frame, FALSE)
         /\ Received
         /\ previous' = m.sequence
         /\ idle' = 0
         /\ UNCHANGED <<phase, request, server, pinged>>
      \/ /\ OrderBookMessageOk(m)
         /\ \/ status \in {"duplicate", "stale"}
            \/ status = "missing" /\ ~InvalidatesBook(previous, m)
            \/ status = "ok" /\ frame.kind = "change" /\ book = None
         /\ Received
         /\ idle' = 0
         /\ UNCHANGED <<local, server, pinged>>
      \/ /\ OrderBookMessageOk(m)
         /\ InvalidatesStream(previous, m.sequence) \/ InvalidatesBook(previous, m)
         /\ Received
         /\ book' = None /\ previous' = None /\ seen' = None /\ rebuilt' = FALSE
         /\ phase' = "subscribe" /\ request' \in RequestIds \ {request}
         /\ idle' = 0
         /\ UNCHANGED <<server, pinged>>

(* A Polymarket book or price_change frame in the stream. *)
PolymarketBookFrame(frame) ==
  LET m == frame.message
  IN  /\ Received
      /\ \/ /\ frame.kind = "book" /\ SnapshotMaps(m, Asset)
            /\ Shows(map_polymarket_order_book_snapshot(m, Asset), frame, TRUE)
         \/ /\ frame.kind = "change" /\ DeltaMaps(m, Asset) /\ book # None
            /\ LET delta == map_polymarket_order_book_delta(m, Asset, Asset)
               IN  DeltaApplies(book, delta) /\ Shows(apply_order_book_delta(book, delta), frame, FALSE)
         \/ /\ frame.kind = "change" /\ (~DeltaMaps(m, Asset) \/ book = None)
            /\ UNCHANGED <<book, seen, rebuilt>>
      /\ UNCHANGED <<phase, request, previous, server, idle, pinged>>

ReceiveBookFrame ==
  /\ phase = "stream" /\ wire # <<>> /\ Head(wire).kind \in {"book", "change"}
  /\ IF Kalshi THEN KalshiBookFrame(Head(wire)) ELSE PolymarketBookFrame(Head(wire))
  /\ UNCHANGED <<exchange, pos, token, trade, faults>>

(* A heartbeat check finds too many intervals missed. *)
HeartbeatMissed ==
  /\ phase = "stream" /\ HeartbeatStale(idle)
  /\ Disconnects
  /\ UNCHANGED <<exchange, pos, token, trade, faults>>

-----------------------------------------------------------------------------
(* Polymarket's subscriptions. *)

(* A token the exchange is asked for anew is answered with its book. *)
BookOfNew(asked) ==
  IF server.alive /\ Asset \in asked \ server.tokens THEN <<SnapshotFrame(pos)>> ELSE <<>>

(* subscribe() the first time, resubscribe() after a reconnect. *)
SubscribeTokens ==
  /\ Polymarket /\ phase = "subscribe"
  /\ LET asked == IF tokens = None THEN InitialPlan ELSE tokens
     IN  /\ tokens' = asked
         /\ server' = [server EXCEPT !.tokens = IF server.alive THEN asked ELSE {}]
         /\ wire' = wire \o BookOfNew(asked)
  /\ phase' = "stream" /\ idle' = 0
  /\ mixed' = (\E u \in TokenUpdates : updates[u].state = "sent")
  /\ UNCHANGED <<exchange, pos, request, book, previous, seen, rebuilt, updates, trade,
                 pinged, late, faults>>

(* update_tokens() computes the new state, sends the change ... *)
UpdateTokensSends(u) ==
  /\ Polymarket /\ phase = "stream" /\ tokens # None
  /\ u \in history.calls /\ updates[u].state = "none"
  /\ UpdateApplies(tokens, UpdatePlan[u])
  /\ \/ /\ updates' = [updates EXCEPT ![u] =
             [state |-> "sent", result |-> apply_update(tokens, UpdatePlan[u])]]
        /\ mixed' = (mixed \/ \E v \in TokenUpdates : updates[v].state = "sent")
        /\ UNCHANGED faults
        /\ LET asked == apply_update(server.tokens, UpdatePlan[u])
           IN  IF server.alive
               THEN /\ server' = [server EXCEPT !.tokens = asked]
                    /\ wire' = wire \o BookOfNew(asked)
               ELSE UNCHANGED <<server, wire>>
     \/ /\ Fault
        /\ updates' = [updates EXCEPT ![u] =
             [state |-> "failed", result |-> apply_update(tokens, UpdatePlan[u])]]
        /\ UNCHANGED <<server, wire, mixed>>
  /\ UNCHANGED <<exchange, pos, local, tokens, trade, clock>>

(* A bug: the state is stored whether the send failed or not. *)
UpdateTokensStoresAnyway(u) ==
  /\ updates[u].state \in {"sent", "failed"}
  /\ tokens' = updates[u].result
  /\ updates' = [updates EXCEPT ![u] = [state |-> "done", result |-> {}]]
  /\ UNCHANGED <<exchange, pos, server, wire, local, mixed, trade, clock, faults>>

(* ... and stores the state it computed, unless the send failed. *)
UpdateTokensStores(u) ==
  /\ updates[u].state = "sent"
  /\ tokens' = updates[u].result
  /\ updates' = [updates EXCEPT ![u] = [state |-> "done", result |-> {}]]
  /\ UNCHANGED <<exchange, pos, server, wire, local, mixed, trade, clock, faults>>

(* send_heartbeat(): PING, which a live exchange answers. *)
SendHeartbeat ==
  /\ Polymarket /\ phase = "stream" /\ ~pinged
  /\ pinged' = TRUE
  /\ wire' = IF server.alive THEN Append(wire, PongFrame) ELSE wire
  /\ UNCHANGED <<exchange, pos, server, local, token, trade, idle, late, faults>>

(* An interval passes.  Over a live connection a heartbeat is sent in      *)
(* every interval, and what is sent is received before the end of the      *)
(* next one.                                                               *)
Tick ==
  /\ phase = "stream" /\ ~HeartbeatStale(idle)
  /\ server.alive => pinged /\ late = 0
  /\ Polymarket => pinged
  /\ idle' = idle + 1
  /\ pinged' = FALSE
  /\ late' = Len(wire)
  /\ UNCHANGED <<exchange, pos, server, wire, local, token, trade, faults>>

-----------------------------------------------------------------------------
Exchange == ExchangeChanges \/ ExchangeGreets \/ ExchangeAcknowledges \/ ExchangePings
              \/ ExchangeTrades

Faults == ChangeIsLost \/ FrameIsRepeated \/ SequenceIsMissing \/ StrayFrame \/ HalfOpen

Receives == ReceiveHello \/ SubscribeReceives \/ ReceiveHeartbeat \/ ReceiveStray
              \/ ReceiveTrade \/ ReceiveBookFrame

Client == Connect \/ SubscribeSends \/ HandshakeTimesOut \/ HeartbeatMissed
            \/ SubscribeTokens \/ SendHeartbeat

Updates == \E u \in TokenUpdates : UpdateTokensSends(u) \/ UpdateTokensStores(u)

Next == Exchange \/ Faults \/ Receives \/ Client \/ Updates \/ Tick

Spec == Init /\ [][Next]_vars

(* The exchange answers and sends its heartbeats, the client's loop (one   *)
(* task) keeps going, time passes.  Nothing is assumed of the exchange's   *)
(* book, of faults or of token updates.                                    *)
Fairness ==
  /\ WF_vars(ExchangeGreets \/ ExchangeAcknowledges)
  /\ WF_vars(ExchangePings)
  /\ WF_vars(Receives \/ Client)
  /\ WF_vars(Tick)

LiveSpec == Spec /\ Fairness

-----------------------------------------------------------------------------
(* Properties. *)

Levels(s) == {s[i] : i \in DOMAIN s}

TypeOK ==
  /\ venue \in Venues /\ history \in Histories[venue]
  /\ pos \in 0..Len(history.changes)
  /\ phase \in {"down", "hello", "subscribe", "ack", "stream"}
  /\ request \in RequestIds
  /\ book = None \/ StrictlySorted(book.bids, book.asks)
  /\ seen \in {None} \union (0..pos)
  /\ tokens = None \/ tokens # {}
  /\ idle \in 0..(MissedLimit + 1) /\ late \in 0..Len(wire)

(* A book the feed shows is the exchange's book as it was after some number *)
(* of its changes, level for level, although changes get lost, repeated or  *)
(* stripped of their sequence, connections break, subscriptions change and  *)
(* a Kalshi book is kept as two lists of bids.  It is crossed when the raw  *)
(* prices are: a yes and a no bid that add up to the payout, a bid at or    *)
(* above an ask.                                                            *)
BookIsExchangeBook ==
  book # None =>
    LET raw == RawBook(seen)
    IN  IF Kalshi
        THEN /\ is_crossed(book) <=> \E y \in DOMAIN raw.yes, n \in DOMAIN raw.no :
                                       y + n >= CentsPerContract
             /\ book.sequence = seen /\ previous = seen
             /\ Levels(book.bids) = {[price |-> p, quantity |-> raw.yes[p]] : p \in DOMAIN raw.yes}
             /\ Levels(book.asks) = {[price |-> CentsPerContract - p, quantity |-> raw.no[p]] :
                                       p \in DOMAIN raw.no}
        ELSE /\ is_crossed(book) <=> \E b \in DOMAIN raw.BUY, a \in DOMAIN raw.SELL : b >= a
             /\ Levels(book.bids) = {[price |-> p, quantity |-> raw.BUY[p]] : p \in DOMAIN raw.BUY}
             /\ Levels(book.asks) = {[price |-> p, quantity |-> raw.SELL[p]] : p \in DOMAIN raw.SELL}

(* A canonical trade is the exchange's trade, whatever the raw message      *)
(* carried of it: from Kalshi seen from the outcome asked for, by either of *)
(* its two prices; from Polymarket with its size and a time of its own.     *)
TradesMirror ==
  trade # None =>
    LET t == trade.truth
        m == trade.mapped
    IN  IF Kalshi
        THEN /\ m.price = IF m.outcome = "yes" THEN t.yes ELSE CentsPerContract - t.yes
             /\ m.aggressor = IF t.taker = None THEN None
                              ELSE IF t.taker = m.outcome THEN "BUY" ELSE "SELL"
        ELSE /\ m.price = t.price /\ m.quantity = t.size /\ m.aggressor = t.side
             /\ m.occurred_at = t.time

(* The tokens update_tokens() recorded are those the exchange was asked     *)
(* for, once no call is under way, unless two calls overlapped or a call    *)
(* was under way across a reconnect.                                        *)
SubscriptionsAgree ==
  Polymarket /\ phase = "stream" /\ server.alive /\ ~mixed
    /\ (\A u \in TokenUpdates : updates[u].state # "sent") => tokens = server.tokens

(* The feed is a replica of the exchange's book: it follows it one change   *)
(* at a time, or shows a snapshot at least as recent, or nothing.           *)
Replica == INSTANCE BookReplica WITH
  made    <- Touching(pos),
  shown   <- IF seen = None THEN None ELSE Touching(seen),
  rebuilt <- rebuilt

ImplementsReplica == Replica!Spec

(* A book that was withdrawn comes back, as long as there is one to show:   *)
(* Kalshi's raw model refuses the snapshot of an empty book, and a token    *)
(* must still be subscribed, by update_tokens() calls that did not overlap. *)
Recoverable ==
  IF Kalshi THEN RawBook(pos).yes # <<>> \/ RawBook(pos).no # <<>>
  ELSE tokens = None \/ (Asset \in tokens /\ ~mixed)

BooksRecover == (book = None /\ Recoverable) ~> (book # None \/ ~Recoverable)

(* The heartbeat check gives up the connections that died silently and no   *)
(* other: with one frame sent per interval and at most an interval late, no *)
(* more than the allowed number of intervals passes on a live connection.   *)
OnlyDeadConnectionsEnd ==
  /\ [](phase = "stream" /\ server.alive => ~HeartbeatStale(idle))
  /\ (phase = "stream" /\ ~server.alive) ~> phase = "down"
=============================================================================
