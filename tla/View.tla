-------------------------------- MODULE View --------------------------------
(***************************************************************************)
(* The open conversation of the Qt client: the chat page's header, the     *)
(* MessageModel under it (messages.rs), the loads that fill the model, the *)
(* read markers and downloads they start and the debounced refresh         *)
(* (session.rs), beside the core that stores incoming messages             *)
(* (persist_and_emit).                                                     *)
(*                                                                         *)
(* The Qt thread runs one thing at a time.  Everything else runs on a      *)
(* runtime of several threads: loads of one chat or of two overtake each   *)
(* other at every await.                                                   *)
(***************************************************************************)
EXTENDS Naturals, FiniteSets, Sequences, SequencesExt

CONSTANTS
  Chats,       \* conversations
  Public,      \* those that are public groups: no download without the user
  MaxLoads,    \* loads at once (bound)
  MaxEvents    \* messages and avatars that arrive and acts of the user, in all (bound)

None == "none"

ASSUME ViewAssumption ==
  /\ None \notin Chats /\ Public \subseteq Chats
  /\ MaxLoads \in Nat /\ MaxEvents \in Nat

VARIABLES
  stored,    \* messages stored, by chat; all of them incoming and live
  unread,    \* conversations.unread
  arriving,  \* persist_and_emit of a chat: "no", "inserted" or "bumped"
  header,    \* the chat that the page's header and composer are for
  model,     \* MessageModel: its chat, what its rows show, and whether a load of another chat than
             \* the header's opened that one (history)
  loads,     \* the loads that run, in the order in which they began
  marked,    \* LAST_MARKED
  marking,   \* marker tasks: <<chat, message, step>>
  told,      \* the message that the peer was last told to be read
  seen,      \* the newest message that a load marked
  picture,   \* the picture that a chat's messages carry: "no", "fetching" or "cached"
  crypt,     \* conversations.encryption of a chat is omemo2
  toggles,   \* writes of the lock on their way: <<chat, encrypted>>
  wish,      \* what the user last chose under the chat's header (history)
  pending,   \* REFRESH_PENDING: a refresh task is asleep
  openToo,   \* REFRESH_OPEN_TOO
  bursting,  \* an avatar's event is between the two flags
  woken,     \* refresh tasks that have cleared the first flag and not yet read the second
  wanted,    \* a refresh of the open chat was asked for and not done (history)
  events,    \* counts what MaxEvents bounds
  races      \* the races that a chat went through (history)

chats == <<stored, unread, arriving>>
page == <<header, model>>
marks == <<marked, marking, told, seen>>
lock == <<crypt, toggles, wish>>
refresh == <<pending, openToo, bursting, woken, wanted>>
vars == <<chats, page, loads, marks, picture, lock, refresh, events, races>>

Numbers == 0..MaxEvents + 1

\* What is shown: the rows' chat, their number, whether the picture is there, and whether the rows
\* were overtaken (history).
Shown == [of : Chats \cup {None}, rows : Numbers, pic : BOOLEAN, late : BOOLEAN]

\* How the rows of a load are handed over: reset after mark_displayed ("reload") or without
\* ("older"), or set_open ("open").
Loads == [shown : Shown, how : {"reload", "older", "open"}, step : {"begun", "read", "marked", "built"}]

Races == {"swallowed", "recounted", "regressed", "foreign", "crossed"}

TypeOK ==
  /\ stored \in [Chats -> Numbers] /\ unread \in [Chats -> Numbers]
  /\ arriving \in [Chats -> {"no", "inserted", "bumped"}]
  /\ header \in Chats \cup {None}
  /\ model \in [chat : Chats \cup {None}, shown : Shown, displaced : BOOLEAN]
  /\ loads \in Seq(Loads)
  /\ marked \in [Chats -> Numbers] /\ told \in [Chats -> Numbers] /\ seen \in [Chats -> Numbers]
  /\ marking \subseteq Chats \X Numbers \X {"clear", "command", "core"}
  /\ picture \in [Chats -> {"no", "fetching", "cached"}]
  /\ crypt \in [Chats -> BOOLEAN] /\ wish \in [Chats -> BOOLEAN]
  /\ toggles \subseteq Chats \X BOOLEAN
  /\ pending \in BOOLEAN /\ openToo \in BOOLEAN /\ bursting \in BOOLEAN /\ wanted \in BOOLEAN
  /\ woken \in 0..MaxEvents
  /\ events \in 0..MaxEvents
  /\ races \in [Chats -> SUBSET Races]

Nothing == [of |-> None, rows |-> 0, pic |-> FALSE, late |-> FALSE]

\* Each chat has a message that was not seen.
Init ==
  /\ stored = [c \in Chats |-> 1] /\ unread = [c \in Chats |-> 1]
  /\ arriving = [c \in Chats |-> "no"]
  /\ header = None /\ model = [chat |-> None, shown |-> Nothing, displaced |-> FALSE]
  /\ loads = <<>>
  /\ marked = [c \in Chats |-> 0] /\ marking = {}
  /\ told = [c \in Chats |-> 0] /\ seen = [c \in Chats |-> 0]
  /\ picture = [c \in Chats |-> "no"]
  /\ crypt = [c \in Chats |-> TRUE] /\ wish = crypt /\ toggles = {}
  /\ pending = FALSE /\ openToo = FALSE /\ bursting = FALSE /\ woken = 0 /\ wanted = FALSE
  /\ events = 0
  /\ races = [c \in Chats |-> {}]

Event == events < MaxEvents /\ events' = events + 1

Race(c, kind) == [races EXCEPT ![c] = @ \cup {kind}]

-----------------------------------------------------------------------------
(* The core stores a message: insert, count, tell.                           *)

Insert(c) ==
  /\ arriving[c] = "no"
  /\ Event
  /\ arriving' = [arriving EXCEPT ![c] = "inserted"]
  /\ stored' = [stored EXCEPT ![c] = @ + 1]
  /\ UNCHANGED <<unread, page, loads, marks, picture, lock, refresh, races>>

\* A message that was marked as read before it was counted stays counted.
Bump(c) ==
  /\ arriving[c] = "inserted"
  /\ arriving' = [arriving EXCEPT ![c] = "bumped"]
  /\ unread' = [unread EXCEPT ![c] = @ + 1]
  /\ races' = IF seen[c] = stored[c] THEN Race(c, "recounted") ELSE races
  /\ UNCHANGED <<stored, page, loads, marks, picture, lock, refresh, events>>

-----------------------------------------------------------------------------
(* The Qt thread.                                                            *)

\* A load of a chat whose header is not up is late from the start.
Begin(running, c, how, at) ==
  /\ Len(running) < MaxLoads
  /\ loads' = Append(running, [shown |-> [of |-> c, rows |-> 0, pic |-> FALSE, late |-> c # at],
                               how |-> how, step |-> "begun"])

ReloadCurrent(running) ==
  IF model.chat = None THEN loads' = running ELSE Begin(running, model.chat, "reload", header)

\* The loads that looked before the news of their chat came do not learn of it when the model,
\* whose chat is another, ignores it.
Unnoticed(missed) ==
  [i \in DOMAIN loads |->
     IF i \in missed THEN [loads[i] EXCEPT !.shown.late = TRUE] ELSE loads[i]]
MissedStored(c) ==
  {i \in DOMAIN loads :
     loads[i].shown.of = c /\ loads[i].step # "begun" /\ loads[i].shown.rows < stored[c]}
MissedPicture(c) ==
  {i \in DOMAIN loads : loads[i].shown.of = c /\ loads[i].step = "built" /\ ~loads[i].shown.pic}

\* open and open_around, of the list and of a search: the model takes the id at once.
Open(c) ==
  /\ Event
  /\ header' = c
  /\ model' = [model EXCEPT !.chat = c, !.displaced = FALSE]
  /\ \E how \in {"reload", "open"} : Begin(loads, c, how, c)
  /\ UNCHANGED <<chats, marks, picture, lock, refresh, races>>

\* open_peer and open_peer_kind: the model keeps its chat until the load has found the id.
OpenPeer(c) ==
  /\ Event
  /\ header' = c
  /\ Begin(loads, c, "open", c)
  /\ UNCHANGED <<chats, model, marks, picture, lock, refresh, races>>

LoadOlder ==
  /\ model.chat # None
  /\ Event
  /\ Begin(loads, model.chat, "older", header)
  /\ UNCHANGED <<chats, page, marks, picture, lock, refresh, races>>

NoteStored(c) ==
  /\ arriving[c] = "bumped"
  /\ arriving' = [arriving EXCEPT ![c] = "no"]
  /\ IF model.chat = c THEN ReloadCurrent(loads)
     ELSE loads' = Unnoticed(MissedStored(c))
  /\ UNCHANGED <<stored, unread, page, marks, picture, lock, refresh, events, races>>

\* set_encryption writes to the model's chat, whatever the header shows, in a task of its own.
SetEncryption(on) ==
  /\ header # None /\ model.chat # None
  /\ Event
  /\ toggles' = toggles \cup {<<model.chat, on>>}
  /\ wish' = [wish EXCEPT ![header] = on]
  /\ races' = IF model.chat # header THEN [races EXCEPT ![model.chat] = @ \cup {"foreign"},
                                                      ![header] = @ \cup {"foreign"}]
              ELSE IF \E b \in BOOLEAN : <<model.chat, b>> \in toggles THEN Race(header, "crossed")
              ELSE races
  /\ UNCHANGED <<chats, page, loads, marks, picture, crypt, refresh>>

\* Mutant: the write looks up the open chat when it runs.
WriteEncryptionOpen(c, on) ==
  /\ <<c, on>> \in toggles
  /\ toggles' = toggles \ {<<c, on>>}
  /\ crypt' = [crypt EXCEPT ![model.chat] = on]
  /\ UNCHANGED <<chats, page, loads, marks, picture, wish, refresh, events, races>>

WriteEncryption(c, on) ==
  /\ <<c, on>> \in toggles
  /\ toggles' = toggles \ {<<c, on>>}
  /\ crypt' = [crypt EXCEPT ![c] = on]
  /\ UNCHANGED <<chats, page, loads, marks, picture, wish, refresh, events, races>>

\* Mutant: a chat opened by its JID does not become the model's.
ApplyKeepsChat(i) ==
  LET l == loads[i] IN
  /\ l.step = "built"
  /\ model' = [model EXCEPT !.shown = l.shown]
  /\ loads' = RemoveAt([j \in DOMAIN loads |-> [loads[j] EXCEPT !.shown.late = @ \/ j < i]], i)
  /\ UNCHANGED <<chats, header, marks, picture, lock, refresh, events, races>>

\* reset or set_open: nothing compares the rows' chat with the model's.  The loads that began
\* earlier are overtaken.
Apply(i) ==
  LET l == loads[i] IN
  /\ l.step = "built"
  /\ model' = IF l.how = "open"
              THEN [chat |-> l.shown.of, shown |-> l.shown, displaced |-> l.shown.of # header]
              ELSE [model EXCEPT !.shown = l.shown]
  /\ loads' = RemoveAt([j \in DOMAIN loads |->
                          [loads[j] EXCEPT !.shown.late = @ \/ j < i]], i)
  /\ UNCHANGED <<chats, header, marks, picture, lock, refresh, events, races>>

-----------------------------------------------------------------------------
(* Loads: the rows are read, marked as displayed, built and handed over.     *)

Read(i) ==
  /\ loads[i].step = "begun"
  /\ loads' = [loads EXCEPT ![i].step = "read", ![i].shown.rows = stored[loads[i].shown.of]]
  /\ UNCHANGED <<chats, page, marks, picture, lock, refresh, events, races>>

\* Mutant: one marker for each chat, not for each newest message.
MarkDisplayedOnce(c, n) ==
  /\ seen' = [seen EXCEPT ![c] = IF n > @ THEN n ELSE @]
  /\ marked' = [marked EXCEPT ![c] = IF @ = 0 THEN n ELSE @]
  /\ marking' = IF marked' = marked THEN marking ELSE marking \cup {<<c, n, "clear">>}
  /\ UNCHANGED <<told, races>>

\* mark_displayed: nothing without an incoming message or when this one was marked last.
MarkDisplayed(c, n) ==
  /\ seen' = [seen EXCEPT ![c] = IF n > @ THEN n ELSE @]
  /\ marked' = [marked EXCEPT ![c] = IF n = 0 THEN @ ELSE n]
  /\ marking' = IF marked' = marked THEN marking ELSE marking \cup {<<c, n, "clear">>}
  /\ races' = IF n < seen[c] THEN Race(c, "regressed") ELSE races
  /\ UNCHANGED told

\* prefetch_images: the pictures that are neither there nor on their way, in a private chat.
Prefetch(c, n) ==
  picture' = IF n > 0 /\ c \notin Public /\ picture[c] = "no"
             THEN [picture EXCEPT ![c] = "fetching"] ELSE picture

Mark(i) ==
  LET l == loads[i] IN
  /\ l.step = "read"
  /\ loads' = [loads EXCEPT ![i].step = "marked"]
  /\ IF l.how = "older" THEN UNCHANGED <<marks, races>>
     ELSE MarkDisplayed(l.shown.of, l.shown.rows)
  /\ Prefetch(l.shown.of, l.shown.rows)
  /\ UNCHANGED <<chats, page, lock, refresh, events>>

Build(i) ==
  /\ loads[i].step = "marked"
  /\ loads' = [loads EXCEPT ![i].step = "built",
                 ![i].shown.pic = @ \/ (loads[i].shown.rows > 0 /\ picture[loads[i].shown.of] = "cached")]
  /\ UNCHANGED <<chats, page, marks, picture, lock, refresh, events, races>>

\* download_attachment: the user asks for a picture of the rows.
FetchMedia ==
  LET c == model.shown.of IN
  /\ c # None /\ model.shown.rows > 0 /\ ~model.shown.pic
  /\ Event
  /\ IF picture[c] = "cached" THEN ReloadCurrent(loads) /\ UNCHANGED picture
     ELSE picture' = [picture EXCEPT ![c] = "fetching"] /\ UNCHANGED loads
  /\ UNCHANGED <<chats, page, marks, lock, refresh, races>>

\* The file is there and whatever chat is the model's is loaded again, or the download failed.
Fetched(c) ==
  /\ picture[c] = "fetching"
  /\ \/ /\ picture' = [picture EXCEPT ![c] = "cached"]
        /\ ReloadCurrent(IF model.chat = c THEN loads ELSE Unnoticed(MissedPicture(c)))
     \/ picture' = [picture EXCEPT ![c] = "no"] /\ UNCHANGED loads
  /\ UNCHANGED <<chats, page, marks, lock, refresh, events, races>>

-----------------------------------------------------------------------------
(* The marker's task clears the counter and tells the core, whose own task   *)
(* clears it again and then sends the marker.                                *)

\* A message that was counted since the rows were read goes with the others.
Clear(c, n) ==
  LET counted == IF arriving[c] = "inserted" THEN stored[c] - 1 ELSE stored[c] IN
  /\ unread' = [unread EXCEPT ![c] = 0]
  /\ races' = IF counted > n /\ unread[c] > 0 THEN Race(c, "swallowed") ELSE races
  /\ UNCHANGED <<stored, arriving>>

MarkClears(c, n) ==
  /\ <<c, n, "clear">> \in marking
  /\ Clear(c, n)
  /\ marking' = (marking \ {<<c, n, "clear">>}) \cup {<<c, n, "command">>}
  /\ UNCHANGED <<page, loads, marked, told, seen, picture, lock, refresh, events>>

MarkRead(c, n) ==
  /\ <<c, n, "command">> \in marking
  /\ Clear(c, n)
  /\ marking' = (marking \ {<<c, n, "command">>}) \cup {<<c, n, "core">>}
  /\ UNCHANGED <<page, loads, marked, told, seen, picture, lock, refresh, events>>

SendReadMarker(c, n) ==
  /\ <<c, n, "core">> \in marking
  /\ marking' = marking \ {<<c, n, "core">>}
  /\ told' = [told EXCEPT ![c] = n]
  /\ races' = IF n < told[c] THEN Race(c, "regressed") ELSE races
  /\ UNCHANGED <<chats, page, loads, marked, seen, picture, lock, refresh, events>>

-----------------------------------------------------------------------------
(* schedule_list_refresh: presence asks for a refresh of the lists and an    *)
(* occupant's avatar for one of the open chat too, in two steps that ride    *)
(* along with a task that is asleep.                                         *)

\* Mutant: an event that finds a task asleep returns before it sets its own flag.
BurstRides(open) ==
  /\ ~bursting
  /\ Event
  /\ openToo' = (openToo \/ (open /\ ~pending)) /\ wanted' = (wanted \/ open)
  /\ bursting' = TRUE
  /\ UNCHANGED <<chats, page, loads, marks, picture, lock, pending, woken, races>>

Burst(open) ==
  /\ ~bursting
  /\ Event
  /\ openToo' = (openToo \/ open) /\ wanted' = (wanted \/ open)
  /\ bursting' = TRUE
  /\ UNCHANGED <<chats, page, loads, marks, picture, lock, pending, woken, races>>

Schedule ==
  /\ bursting
  /\ bursting' = FALSE
  /\ pending' = TRUE
  /\ UNCHANGED <<chats, page, loads, marks, picture, lock, openToo, woken, wanted, events, races>>

Wake ==
  /\ pending
  /\ pending' = FALSE
  /\ woken' = woken + 1
  /\ UNCHANGED <<chats, page, loads, marks, picture, lock, openToo, bursting, wanted, events, races>>

RefreshOpen ==
  /\ woken > 0
  /\ woken' = woken - 1
  /\ openToo' = FALSE
  /\ IF openToo THEN wanted' = FALSE /\ ReloadCurrent(loads) ELSE UNCHANGED <<wanted, loads>>
  /\ UNCHANGED <<chats, page, marks, picture, lock, pending, bursting, events, races>>

-----------------------------------------------------------------------------
Settled ==
  /\ loads = <<>> /\ marking = {} /\ toggles = {}
  /\ \A c \in Chats : arriving[c] = "no" /\ picture[c] # "fetching"
  /\ ~pending /\ ~bursting /\ woken = 0

Next ==
  \/ \E c \in Chats : Insert(c) \/ Bump(c) \/ NoteStored(c)
  \/ \E c \in Chats : Open(c) \/ OpenPeer(c) \/ Fetched(c)
  \/ LoadOlder \/ FetchMedia
  \/ \E on \in BOOLEAN : SetEncryption(on)
  \/ \E c \in Chats, on \in BOOLEAN : WriteEncryption(c, on)
  \/ \E i \in DOMAIN loads : Read(i) \/ Mark(i) \/ Build(i) \/ Apply(i)
  \/ \E m \in marking : MarkClears(m[1], m[2]) \/ MarkRead(m[1], m[2]) \/ SendReadMarker(m[1], m[2])
  \/ \E open \in BOOLEAN : Burst(open)
  \/ Schedule \/ Wake \/ RefreshOpen

Spec == Init /\ [][Next]_vars

-----------------------------------------------------------------------------
\* The page shows the chat of its header with all that is stored and downloaded of it, unless the
\* rows come from a load that was overtaken (a later load was applied before it, the page was
\* already another chat's when it began, or news came after it had looked and while the model was
\* another chat's), or a load has opened a chat that the user had left by then (messages.rs reset,
\* set_open, note_stored).
ShownIsOpen ==
  Settled /\ header # None /\ ~model.shown.late /\ ~model.displaced =>
    /\ model.chat = header /\ model.shown.of = header
    /\ model.shown.rows = stored[header]
    /\ picture[header] = "cached" => model.shown.pic

\* What was seen is neither counted nor kept from the peer: the counter of a chat is the number of
\* messages that no load has marked, unless a message was loaded before it was counted, or counted
\* after the rows that a clear stands for were read; and the peer is told of the newest message that
\* was shown, unless an older load marked after a newer one or two markers crossed (mark_displayed,
\* persist_and_emit, send_read_marker).
SeenIsSettled ==
  Settled => \A c \in Chats :
    /\ races[c] \cap {"swallowed", "recounted"} = {} => unread[c] = stored[c] - seen[c]
    /\ "regressed" \notin races[c] => told[c] = seen[c]

\* A refresh of the open chat that an event asked for while a refresh task was about to run is not
\* lost: the task clears the first flag before it reads the second (schedule_list_refresh).
RefreshKept == Settled => ~wanted

\* The chat is encrypted as the user last chose under its header, unless the lock was used while a
\* chat opened by its JID was still unknown to the model, or twice before the first write
\* (MessageModel.set_encryption, set_conversation_encryption).
LockKept ==
  Settled => \A c \in Chats : races[c] \cap {"foreign", "crossed"} = {} => crypt[c] = wish[c]

=============================================================================
