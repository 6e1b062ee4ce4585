--------------------------- MODULE TelegramIngest ---------------------------
(***************************************************************************)
(* Telegram ingestion (telegram_client.rs, telegram_ingest.rs): one poll   *)
(* loop over the allowlisted channels, the messages and mentions it stores *)
(* statement by statement, and operators who edit the allowlist meanwhile. *)
(* A message's id is its place in the channel, its text the set of things  *)
(* it mentions.  The Telegram API is external: it may fail with any of the *)
(* errors the code classifies.                                             *)
(***************************************************************************)
EXTENDS Naturals, Sequences, FiniteSets

CONSTANTS TgChannels,
          TgTexts,        \* what a message can say: sets of mentions
          TgLimit,        \* backfill_limit_per_channel
          TgMaxPosts,     \* bound on the messages of a channel
          TgMaxChanges,   \* bound on edits and operators' commands
          TgMaxFaults     \* bound on failed calls and statements

ASSUME TgAssumption == /\ TgLimit \in Nat \ {0}
                       /\ TgMaxPosts \in Nat /\ TgMaxChanges \in Nat /\ TgMaxFaults \in Nat

VARIABLES tgChan,      \* telegram_channels: [allowed, status, cursor]
          tgFeed,      \* the channel at Telegram: messages [edited, text]
          tgRows,      \* telegram_messages: [chan, id, version, text]
          tgMentions,  \* telegram_mentions: <<chan, id, version, value>>
          tgPoll,      \* the loop: [pc, keys, chan, at, fetched, max, msg, left]
          tgLate,      \* history: rows stored since the channel was removed
          tgChanges, tgFaults

tgVars == <<tgChan, tgFeed, tgRows, tgMentions, tgPoll, tgLate, tgChanges, tgFaults>>

NoChannel == "none"
NoMessage == [id |-> 0, version |-> 0, text |-> {}]
TgIdle == [pc |-> "idle", keys |-> {}, chan |-> NoChannel, at |-> 0, fetched |-> 0, max |-> 0,
           msg |-> NoMessage, left |-> {}]

\* classify_error and handle_channel_error: the status an error leaves, the
\* one before when it is a network error.
TgErrors == {"flood_wait", "auth_failed", "disabled", "network"}
StatusAfter(error, status) == IF error = "network" THEN status ELSE error

TgGoto(pc) == tgPoll' = [tgPoll EXCEPT !.pc = pc]
TgFault == tgFaults < TgMaxFaults /\ tgFaults' = tgFaults + 1
SetStatus(c, status) == tgChan' = [tgChan EXCEPT ![c].status = status]

-----------------------------------------------------------------------------
(* telegram_poll_loop and poll_all_channels.                               *)

\* The channels of a pass are read once; a failed read is an empty list.
PollTick ==
  /\ tgPoll.pc = "idle"
  /\ LET keys == {c \in TgChannels : tgChan[c].allowed /\ tgChan[c].status = "active"}
     IN /\ keys # {}
        /\ tgPoll' = [TgIdle EXCEPT !.pc = "pass", !.keys = keys]
  /\ UNCHANGED <<tgChan, tgFeed, tgRows, tgMentions, tgLate, tgChanges, tgFaults>>

NextChannel ==
  /\ tgPoll.pc = "pass"
  /\ IF tgPoll.keys = {} THEN tgPoll' = TgIdle
     ELSE \E c \in tgPoll.keys :
            tgPoll' = [TgIdle EXCEPT !.pc = "resolve", !.keys = tgPoll.keys \ {c}, !.chan = c]
  /\ UNCHANGED <<tgChan, tgFeed, tgRows, tgMentions, tgLate, tgChanges, tgFaults>>

\* poll_channel: resolve_username, then iter_messages from the newest one.
ResolveUsername ==
  /\ tgPoll.pc = "resolve"
  /\ tgPoll' = [tgPoll EXCEPT !.pc = "iter", !.at = Len(tgFeed[tgPoll.chan]) + 1]
  /\ UNCHANGED <<tgChan, tgFeed, tgRows, tgMentions, tgLate, tgChanges, tgFaults>>

\* The error is written to the channel, and the poll of it is over.
ResolveFails ==
  /\ tgPoll.pc = "resolve" /\ TgFault
  /\ \E e \in TgErrors : SetStatus(tgPoll.chan, StatusAfter(e, tgChan[tgPoll.chan].status))
  /\ TgGoto("pass")
  /\ UNCHANGED <<tgFeed, tgRows, tgMentions, tgLate, tgChanges>>

\* What the iterator hands out: an edited message is version 1, however often
\* it was edited.
Message(c, id) == [id |-> id, version |-> IF tgFeed[c][id].edited THEN 1 ELSE 0,
                   text |-> tgFeed[c][id].text]

\* Mutant: what is behind the cursor was ingested and is not fetched again.
IterNextFromCursor ==
  /\ tgPoll.pc = "iter"
  /\ IF tgPoll.fetched = TgLimit \/ tgPoll.at <= tgChan[tgPoll.chan].cursor + 1
     THEN tgPoll' = [tgPoll EXCEPT !.pc = "finish",
                       !.max = IF @ = 0 THEN tgChan[tgPoll.chan].cursor ELSE @]
     ELSE LET id == tgPoll.at - 1
          IN tgPoll' = [tgPoll EXCEPT !.pc = "allow", !.at = id, !.msg = Message(tgPoll.chan, id),
                                      !.max = IF id > @ THEN id ELSE @]
  /\ UNCHANGED <<tgChan, tgFeed, tgRows, tgMentions, tgLate, tgChanges, tgFaults>>

\* The newest messages up to the limit, every time: the stored cursor is not read.
IterNext ==
  /\ tgPoll.pc = "iter"
  /\ IF tgPoll.fetched = TgLimit \/ tgPoll.at <= 1 THEN TgGoto("finish")
     ELSE LET id == tgPoll.at - 1
          IN tgPoll' = [tgPoll EXCEPT !.pc = "allow", !.at = id, !.msg = Message(tgPoll.chan, id),
                                      !.max = IF id > @ THEN id ELSE @]
  /\ UNCHANGED <<tgChan, tgFeed, tgRows, tgMentions, tgLate, tgChanges, tgFaults>>

\* The error is written to the channel; the loop breaks and goes on to Finish.
IterFails ==
  /\ tgPoll.pc = "iter" /\ TgFault
  /\ \E e \in TgErrors : SetStatus(tgPoll.chan, StatusAfter(e, tgChan[tgPoll.chan].status))
  /\ TgGoto("finish")
  /\ UNCHANGED <<tgFeed, tgRows, tgMentions, tgLate, tgChanges>>

\* update_channel: active with the largest id seen, whatever happened before.
Finish ==
  /\ tgPoll.pc = "finish"
  /\ tgChan' = [tgChan EXCEPT ![tgPoll.chan].status = "active", ![tgPoll.chan].cursor = tgPoll.max]
  /\ TgGoto("pass")
  /\ UNCHANGED <<tgFeed, tgRows, tgMentions, tgLate, tgChanges, tgFaults>>

\* A channel's status cannot be written: poll_all_channels classifies that error
\* as a network error and goes on, or fails to write again and ends the pass.
StatusLost ==
  /\ tgPoll.pc = "finish" /\ TgFault
  /\ TgGoto("pass") \/ tgPoll' = TgIdle
  /\ UNCHANGED <<tgChan, tgFeed, tgRows, tgMentions, tgLate, tgChanges>>

-----------------------------------------------------------------------------
(* ingest_message.                                                         *)

NextMessage == [tgPoll EXCEPT !.pc = "iter", !.fetched = @ + 1, !.msg = NoMessage, !.left = {}]

\* channel_allowlisted, for every message again.
Allowed ==
  /\ tgPoll.pc = "allow"
  /\ tgPoll' = IF tgChan[tgPoll.chan].allowed
               THEN [tgPoll EXCEPT !.pc = "insert"] ELSE NextMessage
  /\ UNCHANGED <<tgChan, tgFeed, tgRows, tgMentions, tgLate, tgChanges, tgFaults>>

MessageRow == [chan |-> tgPoll.chan, id |-> tgPoll.msg.id, version |-> tgPoll.msg.version,
               text |-> tgPoll.msg.text]
Stored(c, id, version) == \E r \in tgRows : r.chan = c /\ r.id = id /\ r.version = version

\* Mutant: the mentions are extracted from what was fetched, stored or not.
InsertMessageAndGoOn ==
  /\ tgPoll.pc = "insert"
  /\ tgRows' = IF Stored(tgPoll.chan, tgPoll.msg.id, tgPoll.msg.version) THEN tgRows
               ELSE tgRows \cup {MessageRow}
  /\ tgPoll' = [tgPoll EXCEPT !.pc = "mention", !.left = tgPoll.msg.text]
  /\ UNCHANGED <<tgChan, tgFeed, tgMentions, tgLate, tgChanges, tgFaults>>

\* insert_message: a key that is there keeps its row, and nothing follows.
InsertMessage ==
  /\ tgPoll.pc = "insert"
  /\ IF Stored(tgPoll.chan, tgPoll.msg.id, tgPoll.msg.version)
     THEN tgPoll' = NextMessage /\ UNCHANGED <<tgRows, tgLate>>
     ELSE /\ tgRows' = tgRows \cup {MessageRow}
          /\ tgLate' = [tgLate EXCEPT ![tgPoll.chan] =
                          IF tgChan[tgPoll.chan].allowed THEN 0 ELSE @ + 1]
          /\ tgPoll' = [tgPoll EXCEPT !.pc = "mention", !.left = tgPoll.msg.text]
  /\ UNCHANGED <<tgChan, tgFeed, tgMentions, tgChanges, tgFaults>>

\* insert_mention, one statement each.
InsertMention ==
  /\ tgPoll.pc = "mention"
  /\ IF tgPoll.left = {} THEN tgPoll' = NextMessage /\ UNCHANGED tgMentions
     ELSE \E v \in tgPoll.left :
            /\ tgMentions' = tgMentions \cup {<<tgPoll.chan, tgPoll.msg.id, tgPoll.msg.version, v>>}
            /\ tgPoll' = [tgPoll EXCEPT !.left = @ \ {v}]
  /\ UNCHANGED <<tgChan, tgFeed, tgRows, tgLate, tgChanges, tgFaults>>

\* `let _ =`: an error of ingest_message drops the rest of this message.
IngestFails ==
  /\ tgPoll.pc \in {"allow", "insert", "mention"} /\ TgFault
  /\ tgPoll' = NextMessage
  /\ UNCHANGED <<tgChan, tgFeed, tgRows, tgMentions, tgLate, tgChanges>>

\* The process stops and is started again.
TgCrash ==
  /\ tgPoll.pc # "idle" /\ TgFault
  /\ tgPoll' = TgIdle
  /\ UNCHANGED <<tgChan, tgFeed, tgRows, tgMentions, tgLate, tgChanges>>

-----------------------------------------------------------------------------
(* Operators, through the panel or the command line, and the channel.      *)

Change == tgChanges < TgMaxChanges /\ tgChanges' = tgChanges + 1

AddChannel(c) ==
  /\ Change
  /\ tgChan' = [tgChan EXCEPT ![c].allowed = TRUE, ![c].status = "active"]
  /\ tgLate' = [tgLate EXCEPT ![c] = 0]
  /\ UNCHANGED <<tgFeed, tgRows, tgMentions, tgPoll, tgFaults>>

RemoveChannel(c) ==
  /\ Change
  /\ tgChan' = [tgChan EXCEPT ![c].allowed = FALSE, ![c].status = "disabled"]
  /\ UNCHANGED <<tgFeed, tgRows, tgMentions, tgPoll, tgLate, tgFaults>>

Post(c, text) ==
  /\ Len(tgFeed[c]) < TgMaxPosts
  /\ tgFeed' = [tgFeed EXCEPT ![c] = Append(@, [edited |-> FALSE, text |-> text])]
  /\ UNCHANGED <<tgChan, tgRows, tgMentions, tgPoll, tgLate, tgChanges, tgFaults>>

Edit(c, id, text) ==
  /\ Change
  /\ tgFeed' = [tgFeed EXCEPT ![c][id] = [edited |-> TRUE, text |-> text]]
  /\ UNCHANGED <<tgChan, tgRows, tgMentions, tgPoll, tgLate, tgFaults>>

-----------------------------------------------------------------------------
TgInit ==
  /\ tgChan = [c \in TgChannels |-> [allowed |-> TRUE, status |-> "active", cursor |-> 0]]
  /\ tgFeed = [c \in TgChannels |-> <<>>]
  /\ tgRows = {} /\ tgMentions = {}
  /\ tgPoll = TgIdle
  /\ tgLate = [c \in TgChannels |-> 0]
  /\ tgChanges = 0 /\ tgFaults = 0

TgWork == \/ PollTick \/ NextChannel \/ ResolveUsername \/ IterNext \/ Finish
          \/ Allowed \/ InsertMessage \/ InsertMention

TgNext ==
  \/ TgWork
  \/ ResolveFails \/ IterFails \/ StatusLost \/ IngestFails \/ TgCrash
  \/ \E c \in TgChannels :
       \/ AddChannel(c) \/ RemoveChannel(c)
       \/ \E text \in TgTexts : \/ Post(c, text)
                                \/ \E id \in DOMAIN tgFeed[c] : Edit(c, id, text)

TgSpec == TgInit /\ [][TgNext]_tgVars

-----------------------------------------------------------------------------
\* A mention is evidence (replay reads it by channel, message and version): its
\* value is in the text that is stored under that key, however often the message
\* was edited between polls, failures and restarts.
MentionsAreEvidenced ==
  \A m \in tgMentions : \E r \in tgRows :
    r.chan = m[1] /\ r.id = m[2] /\ r.version = m[3] /\ m[4] \in r.text

\* Taking a channel off the allowlist takes hold inside a running poll: at most
\* the message that is in flight is stored afterwards.
RemovalTakesHold == \A c \in TgChannels : tgLate[c] <= 1

\* What is stored was allowed and supports its mentions, although the allowlist
\* and the message change between the statements.
StoredIsEvidence == MentionsAreEvidenced /\ RemovalTakesHold

Newest(c) == {id \in DOMAIN tgFeed[c] : id + TgLimit > Len(tgFeed[c])}

\* A message that could not be stored is tried again: when a channel stays
\* allowlisted and active, the loop catches up with its newest messages again and
\* again.
RecentMessagesAreStored ==
  \A c \in TgChannels :
    <>[](tgChan[c].allowed /\ tgChan[c].status = "active")
      => []<>(\A id \in Newest(c) : \E r \in tgRows : r.chan = c /\ r.id = id)

\* `Invalid auth or banned channels disable that channel`: what a failed call
\* wrote to the channel's status is not taken back by the poll it ended.
ChannelErrorsStick ==
  [][\A c \in TgChannels : tgChan[c].status \in {"auth_failed", "disabled"}
       => tgChan'[c].status = tgChan[c].status \/ tgChanges' # tgChanges]_tgVars

-----------------------------------------------------------------------------
(* The inductive invariant behind StoredIsEvidence.                        *)

TgStatuses == {"active", "flood_wait", "auth_failed", "disabled"}
TgValues == UNION TgTexts
TgPcs == {"idle", "pass", "resolve", "iter", "allow", "insert", "mention", "finish"}

TgChans == [allowed : BOOLEAN, status : TgStatuses, cursor : Nat]
TgPosts == [edited : BOOLEAN, text : SUBSET TgValues]
TgMessages == [id : Nat, version : {0, 1}, text : SUBSET TgValues]
TgStored == [chan : TgChannels, id : Nat, version : {0, 1}, text : SUBSET TgValues]
TgPolls == [pc : TgPcs, keys : SUBSET TgChannels, chan : TgChannels \cup {NoChannel},
            at : Nat, fetched : Nat, max : Nat, msg : TgMessages, left : SUBSET TgValues]

TgTypeOK ==
  /\ tgChan \in [TgChannels -> TgChans]
  /\ tgFeed \in [TgChannels -> Seq(TgPosts)]
  /\ tgRows \in SUBSET TgStored
  /\ tgPoll \in TgPolls
  /\ tgLate \in [TgChannels -> Nat]

\* A poll that works has a channel, and has not gone past what is posted there.
PollIsPlaced ==
  tgPoll.pc \notin {"idle", "pass"} =>
    tgPoll.chan \in TgChannels /\ tgPoll.at <= Len(tgFeed[tgPoll.chan]) + 1

\* The mentions still to be inserted are in the text that was stored for them.
LeftIsStored ==
  tgPoll.pc = "mention" =>
    \E r \in tgRows : /\ r.chan = tgPoll.chan /\ r.id = tgPoll.msg.id
                      /\ r.version = tgPoll.msg.version /\ tgPoll.left \subseteq r.text

\* Nothing is late on an allowed channel, nor before the message whose check had
\* passed is stored.
LateIsInFlight ==
  /\ \A c \in TgChannels : tgChan[c].allowed => tgLate[c] = 0
  /\ tgPoll.pc = "insert" => tgLate[tgPoll.chan] = 0

TgIndInv == /\ TgTypeOK /\ PollIsPlaced /\ LeftIsStored /\ LateIsInFlight
            /\ MentionsAreEvidenced /\ RemovalTakesHold
=============================================================================
