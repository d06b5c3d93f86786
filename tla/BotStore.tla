------------------------------- MODULE BotStore -------------------------------
(***************************************************************************)
(* The state the bot workers and the API share: the bot tables' is_active  *)
(* column in PostgreSQL and the five Redis structures of redis_state.py.   *)
(* Heartbeat scores are abstracted to what the code asks of them: a score  *)
(* inside heartbeat_timeout is "fresh", an older one "stale", a worker     *)
(* with no entry "none".                                                   *)
(***************************************************************************)
EXTENDS Naturals, Sequences, FiniteSets

CONSTANTS Workers,       \* worker ids (pod names)
          SlackBots,     \* Slack bots in Socket Mode
          TelegramBots,  \* Telegram bots in polling mode
          WhatsAppBots,  \* WhatsApp device-link bots
          Rank,          \* Rank[b]: in what order bot b meets the workers on the ring
          None

Bots == SlackBots \cup TelegramBots \cup WhatsAppBots

\* Walking the hash ring clockwise from a bot's hash meets the workers in a fixed
\* order, the same on every ring they are on; no two workers share a place.
ASSUME RankAssumption ==
    /\ Rank \in [Bots -> [Workers -> Nat]]
    /\ \A b \in Bots : \A v, w \in Workers : Rank[b][v] = Rank[b][w] => v = w

ASSUME NoneAssumption == None \notin Workers /\ None \notin Bots

ASSUME KindAssumption ==
    /\ SlackBots \cap TelegramBots = {}
    /\ SlackBots \cap WhatsAppBots = {}
    /\ TelegramBots \cap WhatsAppBots = {}

VARIABLES enabled,  \* the bots whose row says is_active
          hb,       \* bot_worker:heartbeats
          info,     \* workers whose bot_worker:info: hash has every required field
          assign,   \* bot_worker:assignments
          events,   \* bot_worker:events, the stream
          inbox     \* bot_worker:commands:, what each subscriber has yet to read

storeVars == <<enabled, hb, info, assign, events, inbox>>

EventTypes == {"activate", "deactivate", "restart"}
Actions    == {"stop_bot", "restart_bot"}
BotEvents  == [type : EventTypes, bot : Bots]
Commands   == [action : Actions, bot : Bots]

StoreTypeOK ==
    /\ enabled \subseteq Bots
    /\ hb \in [Workers -> {"none", "fresh", "stale"}]
    /\ info \subseteq Workers
    /\ assign \in [Bots -> Workers \cup {None}]
    /\ events \in Seq(BotEvents)
    /\ inbox \in [Workers -> Seq(Commands)]

-------------------------------------------------------------------------------
(* The consistent hash ring, as the set of workers on it.                    *)

\* get_node(b) = w: w is the first worker of the ring that b's walk meets.
Owns(w, ring, b) ==
    /\ w \in ring
    /\ \A v \in ring : Rank[b][w] <= Rank[b][v]

\* get_keys_for_node over the bots that _get_all_active_bot_ids reads.
OwnedBots(w, ring) == {b \in enabled : Owns(w, ring, b)}

-------------------------------------------------------------------------------
(* BotRedisState.                                                            *)

Healthy == {w \in Workers : hb[w] = "fresh"}

Dead == {w \in Workers : hb[w] = "stale"}

RegisterWorker(w) ==
    /\ hb' = [hb EXCEPT ![w] = "fresh"]
    /\ info' = info \cup {w}

UnregisterWorkers(gone) ==
    /\ hb' = [w \in Workers |-> IF w \in gone THEN "none" ELSE hb[w]]
    /\ info' = info \ gone

\* A heartbeat writes the score, and only two fields of the info hash: it does not
\* bring back the fields that unregistering deleted, so info is as it was.
WriteHeartbeat(w) ==
    /\ hb' = [hb EXCEPT ![w] = "fresh"]
    /\ UNCHANGED info

AssignBot(b, w) == assign' = [assign EXCEPT ![b] = w]

\* Deletes the entry whoever it names.
UnassignBot(b) == assign' = [assign EXCEPT ![b] = None]

PublishEvent(type, b) == events' = Append(events, [type |-> type, bot |-> b])

\* Pub/sub keeps nothing: the command is gone if nobody is subscribed.
SendCommand(w, action, b, subscribed) ==
    inbox' = IF subscribed
                THEN [inbox EXCEPT ![w] = Append(@, [action |-> action, bot |-> b])]
                ELSE inbox
===============================================================================
