# monocles chat desktop: specifications of the core

TLA+ specifications of the XMPP core of monocles chat desktop (`src/crates/mxc-proto`), its
end-to-end encryption (`mxc-omemo`), the SQLite store (`mxc-store`), the media engine as the
calls see it (`mxc-media`), and the parts of the Qt front end (`mxc-app-qt`) that keep state of
their own. Paths below are relative to `src/crates/`; `session.rs` is the front end's unless
`mxc-omemo` is said.

| module | what it is |
|---|---|
| `Outbox` | sending 1:1 texts: connection loop, `send_message`, `flush_outbox`, receipts, retractions |
| `DeliveryPromise` | what sending promises, without tasks, queues or connections; `Outbox` implements it |
| `Timeline` | receiving in one 1:1 chat: live delivery, archive catch-up, handler tasks, rows |
| `Calls` | 1:1 calls: ringing, session, media engines and their pumps, history, screen |
| `Upgrade` | a connected audio call at both ends that is turned into a video call; camera, screen share |
| `Muji` | a group call: the mesh of per-pair legs, mute, re-mesh, joining and leaving |
| `Prekeys` | this device's prekeys: making, using, ageing, publishing them |
| `Identity` | this device's identity, its bundle and the account's device list |
| `Peers` | sessions, identities, trust and pins of a peer's devices |
| `Rooms` | one private room: join, leave, bootstrap, bookmarks, occupants and members |
| `View` | the open chat: loads, markers, unread counts, lock, downloads, debounced refresh |
| `Content`, `Bubble` | what a message contains, from each composer to row, bubble and download |
| `MC*` | the instances that TLC checks; each extends the module it is named after |
| `*Proofs` | proofs for every value of the constants: `AccountProofs` about `Identity` and `Outbox`, `MediaProofs` about `Upgrade` and `Muji`, `ViewProofs` about `View` and `Bubble`, the others about the module they are named after |

`tlc -config X.cfg MCx.tla` runs a configuration, `tlapm XProofs.tla` checks proofs. Where one proof
module extends two specifications, one of them has names of its own (`USpec`, `BubbleSpec`,
`IdentitySpec`).

## 1. The system

### How it runs

The core is one thread: `tokio::task::spawn_local` inside a `LocalSet`. A handler runs until
it awaits the store, the network or a channel, and any other handler may run there. There is
no lock across awaits; state shared by handlers lives in `Rc<RefCell<..>>` registries, and
whatever survives a restart is in SQLite. Every incoming stanza gets a task of its own
(`xeps/router.rs`), every command of the user interface too (`client.rs`), and every `Online`
of the stream starts the bootstrap sequence and a flush of the outbox. GStreamer reports from
threads of its own through channels. The user interface talks to the core through two
channels, commands in, events out; its own loads and markers run on a runtime of several
threads.

So the hard behaviours are the same everywhere: a value captured before an await and used
after it, two tasks with one read-modify-write each, work handed to a task that a stop of the
core cuts short, and updates that describe a state which is gone when they are handled.

### Components

| component | state | operations | talks to | what makes it correct |
|---|---|---|---|---|
| Connection loop, `client.rs` | session up, backoff timer, queue of outgoing stanzas | Online, Disconnected, end of stream, backoff, drain, commands, shutdown | everything | what waits is sent after a reconnect |
| Send path and outbox, `xeps/messaging.rs` | rows with their state, tasks and flush snapshots | `send_message`, `flush_outbox`, receipts, retraction | store, OMEMO, loop | no accepted message is lost, nothing withdrawn is sent |
| Receive path, `xeps/messaging.rs` | handler tasks, rows, receipts | `process_payload`, corrections, reactions, retractions | store, OMEMO, UI | each stanza once, edits reach their target |
| Account catch-up, `xeps/mam.rs` | archive cursor, paging tasks | `catch_up_account` | IQ table, receive path | the cursor never passes what nobody handled |
| 1:1 calls, `xeps/jingle.rs` | proposed, ringing and active calls, call metadata | propose, proceed, accept, reject, retract, initiate, terminate, upgrade | media, peer, UI | one history row per call, no peer left waiting, both ends agree on video |
| Group calls, `xeps/jingle.rs`, `xeps/muji.rs` | conference, members, legs, re-mesh loop | join, presence, legs, mute, leave | media, room presence | every engine is reachable, one negotiation at a time, the mesh heals |
| Media engine, `mxc-media` | pipelines, camera hub | describe, connect, fail, branch | jingle | reports end in the pump |
| OMEMO prekeys and sessions, `mxc-omemo`, `mxc-store/src/omemo.rs` | sessions, prekeys, pins | encrypt, decrypt, replenish, rotate, prune, pin | store | a number or prekey serves once, a published prekey has its secret |
| OMEMO devices, `xeps/omemo.rs` | identity, own and peers' device lists, trust | load or create, publish, regenerate, heal, reset | PEP, keyring | only trusted keys are encrypted to, no device drops another from the list |
| Rooms and bookmarks, `xeps/muc.rs`, `bookmarks.rs`, `presence.rs` | joined rooms, occupants, bookmarks | join, configure, leave, presence, bootstrap | server, store | left stays left, joined stays joined, who is there can read |
| Qt front end, `mxc-app-qt` | open chat, unread counts, `CURRENT_CALL`, flags | open, load, mark, clear, refresh, prefetch | core, store | what is shown is what is open, told and counted |
| IQ correlation, bootstrap, router | pending requests | send with timeout, answer, dispatch | every requester | an answer reaches its request or is dropped |
| Stories, feeds, avatars, vCards, disco, uploads, WebXDC updates, roster | cached items | publish, fetch, upsert | PEP, HTTP | single upserts |

`PROJECT.json` lists every component with its files and status, and under `hazards` the lines
where the behaviours above bite, with the properties that watch them.

## 2. What is modelled

Actions are the stretches between two awaits. Where the code does not hold a statement in some
interleaving, a history variable names that interleaving (`overlapped`, `swapped`, `races`, ..)
and the property says "unless"; so a property is exact: it fails when another interleaving
breaks it, and each exception is reachable and described below or under Findings.

### Outbox and DeliveryPromise

State: the `online` cell and backoff timer of `connection_loop`; `outq`, its channel of
outgoing stanzas; per message the program counter of its `send_message` task, the connection
state the task captured when it was spawned, the row's `state` column and tombstone; per flush
task its snapshot. `LiveSend` queues the stanza before any row exists, `InsertRow` stores it in
the schema's default state, `MarkRow` writes the state; `FlushQuery`, `FlushSend` and
`FlushMark` are the three awaits of `flush_outbox`. `CoreStops` kills tasks and queues at any
of these points; rows survive. `DrainOutgoing` may lose a stanza, as the stream's send error is
only logged. Encryption may fail for the messages in `Encrypted`.

`DeliveryPromise` knows only which messages are kept, handed over and confirmed. `Outbox`
implements it under the mapping kept = pending rows that are no tombstones, confirmed = rows
shown with a tick; that is the property `KeepsPromise`.

### Timeline

The peer's stanzas form the archive; numbers are their positions. Each may be delivered live
while a session is up, and again by `catch_up_account`, so a stanza has up to two handlers,
`pc[n]["live"]` and `pc[n]["mam"]`. A handler goes through the awaits of `process_payload`:
open (which uses up the message key, so only the first copy can read an encrypted text),
receipt, insert, unread count, or the placeholder for what cannot be read; for edits the
lookup of the target and the later update by row id. The catch-up reads its cursor, asks,
gets results and the reply, and saves the cursor; it pages forward, or takes the newest page
on the first run (`horizon` remembers where that page began).

Abstractions: the archive's result ids are positions; a copy's outer ids are equal, as
`insert_message` deduplicates by origin and archive id in one statement. No second archive
copy of a stanza is in hand while the first one is; results of a query that was given up do
not arrive. Left out: carbons of our own messages, `load_page` and `catch_up` of single
conversations.

### Calls

State: the three maps of the registry (`proposed`, `incoming`, and `gen` for `active`), the
call metadata and the `call_log` rows, for each engine its phase, its channel of reports and
its pump task, the handlers that await in the middle (`accepting`, `iq`), the words exchanged
with the peer, and the way to the screen: updates, `CURRENT_CALL` as `shown`, and commands.
A call accepted twice gets a second engine in the place of the first, and the first one's pump
lives on until its channel is drained: engines are numbered per call. `accept` need not
find the call ringing any more, as its task awaits the device id first. The engine is an
environment: it describes itself, connects or fails whenever it may. The peer may have several
devices, so it may both proceed and reject; another device of ours may handle the call. The
queue into the Qt thread is passed over: an update is taken and shown in one step.

### Upgrade

Two ends that run this code, from the moment an audio or video call is connected. Per end: the
core's record of the call (`video`, pending contents), webrtcbin's signalling state and queue
of operations (external: it runs them in order and drops a description that does not fit), the
branches the engine sends, the pump's channel, the stanzas to handle, and the call screen with
its commands and events. Stanzas are a set, since each handler decrypts first. Left out: the
end of the call, candidates, mute.

Named exceptions: both ends offer at once, each refuses the other's description unseen, and an
accepted offer still makes the call "video" (`Glare`); a later Connected report tells the kind
the call began with (`retold`); the end of a share turns the camera on although the user had
turned it off (`exposed`), the camera button replaces a shared screen (`covered`), and the
cancel of a second picker takes a running share off the button (`unsaid`). Also reachable: a
declined offer stays in the offerer's engine; an accept that fails tells nobody.

### Muji

One conference: members with session id, state and whether their report came late; engines of
legs; what was seen and announced in the room's presence; mute; re-mesh loops. Peers are those
we call (`Mine`) and those who call us (`Theirs`). Exceptions: a second `place_group_call`, or
a second session of a participant, overwrites a member's session id and orphans its engine; a
call that is left while its join awaits the device id stays announced (`hurried`); a Connected
that comes after its leg was terminated makes the member active without an engine, and it is
not called again (`late`); legs that others start are not counted by the one-at-a-time rule.
Left out: the text of invites, camera and screen share (`lib.rs:733-930`, where the hub is
destroyed with the last leg while `conf.screen` stays), engines that cannot be created, the
heartbeat.

### Prekeys

The four kinds of prekeys with ids, ages and use marks; passes of `maintain_bundle` (purge,
replenish, rotate, prune, rebuild, publish) for bootstraps and after key exchanges; key
exchanges that peers make from a bundle fetched earlier, delivered live and by the archive.
A key is a number never given twice, an id may be. Exceptions: two key exchanges that read
before either commits (`raced`), passes that give one id twice (`overwritten`), a publication
lost (`unpublished`) or overtaken (`overtaken`). Pruning goes by the time of creation, so after
a long absence a last-resort key is deleted in the very pass that supersedes it, although
`mxc-omemo/src/session.rs:544` speaks of a grace period; `CitedKeysResolve` excuses keys older
than that.

### Identity

The identity is one number that shows in every copy: the row, two keyring secrets, the keys
that sign prekeys, the cache in memory, bundle and list on the server. Tasks load or create,
upgrade a classical identity, announce, and regenerate; a request may fail, and the program may
restart, between any two steps; another device fetches, changes and publishes the same list.
Exceptions: tasks that overlap in creating or replacing an identity (`overlapped`), a
regeneration cut between its deletions (`cut`), a publication based on an old or failed fetch
that drops (`clobbered`) or brings back (`revived`) a device.

### Peers

Per device of a peer: the bundle it publishes, the identity row with its trust, the pins of
post-quantum keys, the session with its number of sends, and what the trust page shows. Tasks
send (`sessions_for`, `establish_session`, check trust, wrap), receive (open, accept identity,
heal, reconcile the pin) and reset. Exceptions: a session stored over a newer one (`crossed`), a
row replaced under a task that had checked it (`swapped`), a verdict on a key the row no longer
holds (`misplaced`), a pin or verdict changed under a task that had checked it (`racing`), a
session stored while a reset deletes rows (`torn`).

### Rooms

The room with its members and occupants, the session, the bookmark on the server, the queue of
outgoing presence, the conversation, the occupant rows (by nick from presence, by JID from
affiliation lists) and the list that is shown; joins by command or bootstrap (presence,
configuration, three affiliation lists as one read), leaving in three steps, and presences each
handled by a task, one of which may wait for a photo. Exceptions: a leave that meets a join or
bootstrap (`crossed`), a bookmark that could not be written (`failed`), another device's bookmark
(`elsewhere`), presences handled out of order (`overtaken`, `late`), people who left while no
session told us (`missed`). Left out: public rooms, subjects, administration, several rooms,
stream resumption; the outgoing queue moves only while online.

Reachable and worth knowing: nothing removes a JID row, so a former member stays a target of
encryption; a member added after the listing, who comes and goes, is none until the next join;
a presence handled after a leave creates the conversation again, empty; a join that is left
halfway saves its bookmark afterwards; a room left offline is joined again by the next session.

### View

Two threads of control over one chat page: the Qt thread (header, model, toggles) and loads,
markers and downloads that run anywhere and overtake each other; the core inserts, counts and
announces messages in three steps. `races` names per chat what overtook what: a clear that
swallows a newer message (`swallowed`), a message loaded before it is counted (`recounted`), an
older load that marks after a newer one (`regressed`), a lock used while a chat opened by its JID
was still unknown to the model (`foreign`), two toggles before the first write (`crossed`). The
page of a search hit may be shown under the header of a chat opened since (`displaced`). A load
is `late` when its chat's header was not up as it began, when one that began later was applied
first, or when news came after it had looked and the model, still another chat's, ignored it.

### Content and Bubble

Pure functions, with bodies as sequences of words: what each composer puts into a stanza (text,
file, several files, sticker, WebXDC), what the reader's handler makes of it, what the sender's
row keeps, which URLs are prefetched, what the bubble shows. `Bubble` moves one message through
them, with downloads, clicks and a retraction. Our own messages, in a private chat and a public
group, and nine contents of other clients (`MCForeign`) are the inputs. Reachable and excluded
by `Marked`: a reply's quote is stripped before spans at the sender's offsets are applied; an
`<x oob>` without a span leaves its URL in the caption.

## 3. What is checked

Bounds are constants of the modules, given in the `.cfg` files; every passing run covers its
instance completely. Each property also has a mutant, a plausible bug in the code it is about,
which TLC finds under the same configuration (`PROJECT.json`).

| run | properties | states | bounds and why they suffice |
|---|---|---|---|
| `Outbox` | `AcceptedIsKept`, `WithdrawnNeverSent`, `KeepsPromise`, `PendingFlushed` | 1.7 million | Two messages, one encrypted and one that may be taken back, two flushes, one stop: a failing message ahead of another, overlapping snapshots, what is stored and what is not. Reconnects are unbounded. |
| `Timeline` | `OneRowEach`, `AcknowledgedIsKept`, `LostOnlyByOverlap`, `HandledIsShown` | 4.5 million | A text and any stanza after it, each live and from the archive, one stop; pages of one make every cursor position a page boundary. Several pages of one catch-up are not exercised. |
| `Calls` | `OpenCallsTracked`, `LoggedOnce`, `PeerIsTold` | 2.5 million | One call placed and one received contend for the one slot on screen; two engines are a double accept. `TwoEnginesInAll` keeps the second engine of one call apart from the engine of the other. |
| `Upgrade` | `VideoAgrees`, `ScreenKnowsCall`, `SentAsShown`, `AcceptedIsAgreed` | 179 thousand | Two buttons and one repeated Connected in all: an upgrade against an upgrade, a share or the camera. |
| `Muji` | `EnginesOwned`, `OneAtATime`, `RoomKnows` | 2 to call, 1 that calls | Two joins, one presence, restart or failure, two loops: a leg against a leg, a session against an older one. |
| `MujiHeals` | `MeshHeals` | 2 to call | Two turns of bad luck under fairness; no symmetry. |
| `Prekeys` | `OpenedOnce`, `CitedKeysResolve`, `AdvertisedUsable` | 1.9 million | Two peers, one of whose key exchanges comes twice; one bootstrap and the passes after key exchanges, two at once; a store that is fresh, drained or from before ML-KEM. |
| `Identity` | `BundlesSigned`, `RetiredIsGone`, `AnnouncedIsListed` | three tasks, two at once | A use, an initialisation and a regeneration against one other device; one failure or restart; three starts. |
| `Peers` | `NumbersUsedOnce`, `WrappedWereTrusted`, `RowsAreSound`, `PinsKept` | 4.5 million | Two sends, a received message and a reset, two at once, on one device with two keys; two turns of the peer or the user. |
| `Rooms` | `OccupantsKnown`, `AwayAreTargets`, `LeftStaysLeft`, `JoinedStaysJoined` | 3.2 million | One other person, three events, two presences in hand: enough for a presence to overtake and for a leave to meet a join. |
| `View` | `ShownIsOpen`, `SeenIsSettled`, `RefreshKept`, `LockKept` | 3.0 million | Two chats, one of them public, two loads at once, three events. |
| `Bubble` | `SameBothEnds`, `PlaceholderIsFetched`, `TapShows` | all inputs | A URL of each kind that the code tells apart, two clicks. |

Deadlock is checked in `Outbox` and `Timeline`, whose sessions come and go for ever. The others
are bounded by events or tasks and rest when these are used up.

### Fairness

Safety is checked without any. `PendingFlushed` assumes weak fairness of each task, since the
executor polls every ready task, of the backoff timer, and strong fairness of `StreamOnline`:
without a connection that comes back no outbox can be emptied. Users, peers, receipts, failures
and stops owe nothing; messages whose encryption may fail are excluded. `MeshHeals` assumes
weak fairness of tasks, pumps and the re-mesh timer, and strong fairness of a participant's
answer: one who is called again and again answers in time once. This is assumed of those who
call us as well, or a leg that never settles would hold the others back. `AcceptedIsAgreed`
assumes weak fairness of each end's own work.

### Findings

Statements of the repository that the code does not hold. None is a run: the configurations
above are the ones whose properties hold. Each formula was checked by adding it to the named
module's instance, where TLC finds it violated; the exceptions in the properties above are where
they reappear.

| where | statement | formula | what happens |
|---|---|---|---|
| `messaging.rs:104`, `Outbox` | `:65` "Offline we still persist the message and mark it 'pending' so the outbox flushes it on reconnect" | `state[m] = "queued" => pc[m] = "mark"` | Insertion leaves the row in state `queued`, a later statement marks it; a stop in between leaves a row that no flush selects. |
| `session.rs:1662`, `Outbox` | `event.rs:126` "An outgoing message couldn't be sent; the UI restores the text + warns" | `pc[m] = "reported" => m \in composer` | The event pump has no arm for `SendFailed`; the text is gone. |
| `mxc-store/src/messages.rs:423`, `Timeline` with three stanzas | `:435` "only a minimal stub row remains" | `rows[i].retracted /\ nothing in hand => rows[i].body = Null` | A correction that found its target before the retraction writes a body into the tombstone. |
| `messaging.rs:1572`, `Timeline` | `:1187` "so a MAM copy dedups against the live one" | `rows[i].body = Placeholder /\ ~InHand(rows[i].of) => rows[i].of \in killed` | The live copy that used up the key awaits the network; the archive copy stores the placeholder, and the readable text is dropped as the duplicate. |
| `mam.rs:183`, `Timeline` | `:163` "This is what fills the gap created while the client was closed" | `\A n \in horizon..cursor : Is("text", n) => Stored(n) \/ InHand(n)` | The cursor is saved while the handlers of the page run; a stop loses their texts. |
| `session.rs:1469`, `Calls` | `:133` "The call currently on screen .. Set from `Event::CallUpdate`, cleared when the call ends" | at rest `Running(s) => shown.call = s` | Any call's update takes or clears the one slot; a second call leaves the running one without buttons, its microphone open. |
| `jingle.rs:711`, `Calls` | `event.rs:46` "Media is flowing (ICE connected) — an active call" | an update to "active" only while `Running(s)` | A late Connected makes an ended call active on screen. |
| `client.rs:864`, `Upgrade` with three presses | `event.rs:246` "Authoritative screen-share state for the active call" | `Quiet => ui[e].sharing = sharing[e]` | On, off and on again while the first picker is open: the first starts the share, the cancel of the second reports it off. |
| `mxc-omemo/src/session.rs:550`, `Prekeys` | `:483` "Upgrade path: discard retained Round-3 Kyber prekeys first" | `pc[t] = "list" => LastResorts # {}` | The last-resort key is purged, rotation makes none where there is none, and an upgraded store never publishes a bundle. |
| `omemo.rs:434`, `Identity` | `:426` "Other devices' ids are preserved." | `[][Others \cap list \subseteq list']_list` | A failed fetch counts as an empty list. |
| `mxc-store/src/omemo.rs:331`, `Peers` | `:247` "Trust belongs to a (JID, key) pair, not to a device slot" | `Trusted(d) => ident[d].key \in approved[d]` | The user's verdict on the key shown is written to the row whatever key it holds by then. |
| `mxc-omemo/src/session.rs:762`, `Peers` | `:750` "classical fingerprint has been manually verified" | `PinsKept` without `racing` | A changed pin is accepted when the device's row is verified, whatever key the row holds: a verdict on a former key licenses it. |
| `mxc-app-qt/src/messages.rs:680`, `View` | `:529` "Persist the open conversation's encryption mode (header lock toggle)." | `"foreign" \notin races[c]` | A chat opened by its JID shows its header while the model has the chat before; the lock is written to that one. |
| `session.rs:1349`, `Bubble` | `event.rs:121` "so the UI can delete any media-cache file downloaded for it" | `row.retracted /\ fetching = {} => cache = {}` | Only the URL in the body is removed; files of captioned messages stay, and a download that ends later puts its file back. |
| `mxc-store/src/messages.rs:911`, `Rooms` | `:911` "Distinct real bare JIDs of the room's members" | `Settled /\ inside => Targets \subseteq member` | Nothing removes the row of a former member. |

## 4. What is proved

All for any values of the constants, from the named assumption of the module only. An invariant
that is not inductive is strengthened; the parts of the strengthening are where the argument is.

- **AccountProofs**, `Outbox`: `TypeOK`, `ConfirmedWasHanded`, `AcceptedIsKept`,
  `SettledNeverResent`, `WithdrawnNeverSent`, and that `Outbox` implements `DeliveryPromise`. The
  invariant says where each task must stand (`TaskAgrees`, `FlushAgrees`): a message has been
  handed over exactly if its task took the online path, only finished tasks have pending rows, a
  flush holds finished messages only, and what is queued was handed over. Without it a flush could
  mark a row whose own task is about to insert it.
- **AccountProofs**, `Identity`: `IdentityTypeOK`, `BundlesSigned`, `RetiredIsGone`,
  `AnnouncedIsListed`. While nothing overlapped, no task of ours is at a step that changes the
  identity beside another that relies on it (`Alone`); so what a task has read still holds of the
  row, the secrets and the keys (`ReadsHold`, in `SignedSound`), and a retired device id is in no
  row, cache, stores in hand or fetched list (`Gone`). A list about to be published has the
  publisher's device in it (`Listing`), whatever else it lost.
- **CallsProofs**: `TypeOK`, `OpenCallsTracked`, `LoggedOnce`, `EnginePumped`, `PeerIsTold`,
  `MissedHadNoEngine`. A fresh session id has left no trace (`FreshIsBlank`), which needs that
  whatever is on screen, queued for it or being accepted is a call that has begun
  (`ScreenAgrees`); `PeerIsTold` needs why a call is no longer in `proposed` (`AnswerAwaited`).
- **TimelineProofs**: `TypeOK`, `OneRowEach`, `AcknowledgedIsKept`, `LostOnlyByOverlap`,
  `HandledIsShown`. Handlers fit their stanza and their row is their target's (`HandlerSound`);
  every page between its first result and its saving holds only texts that are kept
  (`PagesKept`); whoever opened an encrypted text and has not stored it is still in hand, was
  overlapped or was killed (`PlaceholdersSound`).
- **MediaProofs**, `Upgrade`: `UTypeOK`, `VideoAgrees`, `ScreenKnowsCall`, `SentAsShown`. An offer
  is at one place at a time on its way to the other user (`Trail`), and nothing comes of an offer
  that nobody made (`Silent`). With one offer, the end that made it and the end that answers it
  are each at one of a few stations, and the answer is with its engine, on the wire or handled
  (`OneOffer`). Of each button the last command in the queue decides, and with none the last
  event (`CameraSound`, `ShareSound`, `KindSound`).
- **MediaProofs**, `Muji`: `TypeOK`, `EnginesOwned`, `OneAtATime`, `RoomKnows`. Engines and members
  belong together (`Sound`): an engine that is no orphan is its member's session and as silent as
  the conference, a negotiating one has a connecting member, and two of those we call are not
  connecting at once. The count in `OneAtATime` follows.
- **PrekeysProofs**: `TypeOK`, `OpenedOnce`, `CitedKeysResolve`, `AdvertisedUsable`. A session that
  is stored has taken its one-time keys out of the store (`Gone`), so two with one key have both
  read before either was stored (`Raced`). Every key in the published bundle, in a bundle in the
  making and in a key exchange is in the store, was spent, was overwritten or is past its grace
  period (`Kept`); a pass that is alone gives new ids (`Alone`), and the id of a last-resort key
  never comes to a one-time key (`LastIdsKept`). Bundles that wait are ordered as they were listed,
  and the last of them holds what the store holds (`Ordered`, `Current`).
- **PeersProofs**: `TypeOK`, `NumbersUsedOnce`, `WrappedWereTrusted`, `RowsAreSound`, `PinsKept`. What a
  task has read still holds of the tables, or a history variable says that it does not
  (`Based`); a number that was used is below the session's (`NumbersSound`); whoever builds a
  session while a reset is between its deletions had begun by then (`Awake`). The proof, not the
  bounded run, showed that a verified row replaced while another task is about to pin must
  count as `racing`.
- **RoomsProofs**: `TypeOK`, `LeftStaysLeft`, `JoinedStaysJoined`, `AwayAreTargets`, `OccupantsKnown`. The
  queue of presence leads somewhere (`Heading`); while the user wants out, no task is left that
  would turn it (`Going`), and while the user wants in, none that would turn it away (`Staying`),
  unless a race was run. For `OccupantsKnown` the words about a person that are being handled and
  those still on the wire stand in one line, whose last word agrees with who is present, and the
  list and the rows have that word or will get it (`ShownSound`, `TargetsSound`). That is an
  invariant of its own (`OInv`), proved apart from the one about joining and leaving.
- **ViewProofs**, `View`: `TypeOK`, `RefreshKept`, `LockKept`, `ShownIsOpen`, `SeenIsSettled`. A wanted
  refresh is announced by the second flag and a task that will read it exists (`Announced`); what
  is on its way to the store is what was chosen last (`LockSound`). For `ShownIsOpen` the load
  that began last decides (`PageSound`): what it has read is still so, or news of it is under way,
  and once it is applied the others are overtaken. For `SeenIsSettled` a newest message shown is
  marked, told or on its way to be, and what was counted is unread, seen or about to be cleared
  (`MarksSound`). The proof, not the bounded run, showed that news ignored by the model makes any
  load of that chat `late`, a reload as well as one that opens it: with more loads than the run
  has, `ShownIsOpen` was false without that. For `TypeOK` the bounds are counted (`Limits`): no
  chat stores more than events brought or counts more than it stored, and each refresh task that
  sleeps or is awake has an event of its own.
- **ViewProofs**, `Bubble`: `SameBothEnds`, `PlaceholderIsFetched`, `TapShows`. A bubble is made of
  the row and of some load's view of the cache (`FromSomeLoad`), whatever the contents; what it
  waits for, that load's prefetch asked for; and what was tapped is on its way, in the cache or
  lost, and every load that finds it shows it (`TappedComes`). Retraction empties the row. For
  `SameBothEnds` the words that a cut leaves are taken by their rank among the places kept (`WordsAt`, `Counts`,
  `PlaceOf`), so a text that is kept whole stays where it is and what is kept behind it follows
  (`Picked`); each of the five send paths is then compared with what `process_payload` makes of
  its content, for any URLs and captions (`OursAlike`).

Of other clients' messages `SameBothEnds` is proved where the author's text comes first
(`TextFirst`): the body is a quote, the text, and the files' words; there is no sticker; every
reply span marks the quote, and there is one if there is a quote; and what follows the text is
marked by every `oob` span, or consists of the URLs in file-sharing elements, with no span over
the text.
`SameBothEnds` promises nothing of a message whose row has no files or whose content is not
`Marked`, so of the contents in `MCForeign` none is left that only the run speaks of. A caption
with a sticker in it, or a caption behind the file, is neither proved nor in the run. The property
cannot be proved of every content: an author may mark anything.

Only model-checked: liveness (`PendingFlushed`, `MeshHeals`, `AcceptedIsAgreed`), as fairness rests
on `ENABLED`, which the prover does not take. Induction over data is out of its reach as well;
where a proof needs it, as the rank of a word in a body does, it goes through the least element of
a well-founded order, which can be cited. No module declares a recursive operator. The assumptions
say that bounds are natural numbers, that sets of actors do not overlap, and, where counts or lists
of people are compared, that those sets are finite.

## 5. Plan

1. `Timeline` extended by carbons and by cursors of single conversations (`load_page` moves the
   newest cursor backwards, `mam.rs:96`), with pages of more than one catch-up.
2. `Calls` and `Upgrade` composed, so that a call may end during an upgrade.
3. Camera and screen share of group calls, with the hub that all legs share.

## 6. Not modelled, and why

The text conversions (SDP, URIs, OMEMO XML) have no state; the cryptography is libsignal's and
the media pipelines are GStreamer's; TLS, uploads and avatars are single requests; stories,
feeds and settings are upserts with no protocol between their steps. The table of pending IQs
keeps a timed-out request, whose late answer is dropped (`iq.rs:59`): nothing else reads it. The
roster only upserts, so a contact removed elsewhere while this client was offline stays
(`roster.rs:62`), and the duplicate check of a WebXDC update is a statement before its insert
(`mxc-store/src/webxdc.rs:36`); both are visible in one place, without an interleaving to
explore.
