------------------------------ MODULE Timeline ------------------------------
(***************************************************************************)
(* The receive path of one 1:1 chat: the stanzas the peer sends, their     *)
(* live delivery, the catch-up with the account archive (mam.rs), the      *)
(* handler tasks that decrypt and store them (messaging.rs,                *)
(* process_payload) and the message rows of mxc-store.                     *)
(*                                                                         *)
(* Each stanza that arrives gets a task of its own, so the steps of two    *)
(* stanzas, and of two copies of one stanza, interleave at every await.    *)
(* The peer is this program too: its corrections, retractions and          *)
(* reactions carry neither an outer body nor a request for a receipt.      *)
(***************************************************************************)
EXTENDS Naturals, Sequences, FiniteSets

CONSTANTS
  MaxSent,   \* how many stanzas the peer sends (bound)
  Edits,     \* the sorts of stanzas it sends about an earlier text (bound)
  Encrypted, \* the numbers of those that are encrypted
  Page,      \* archive results per query (PAGE)
  MaxPages,  \* queries of one catch-up (the loop's 200)
  Syncs,     \* the bootstrap tasks that may run at once (bound)
  MaxStops   \* stops or crashes of the core (bound)

ASSUME TimelineAssumption ==
  /\ MaxSent \in Nat
  /\ Edits \subseteq {"correct", "retract", "react"}
  /\ Encrypted \subseteq 1..MaxSent
  /\ Page \in Nat \ {0}
  /\ MaxPages \in Nat \ {0}
  /\ MaxStops \in Nat

VARIABLES
  sent,      \* the archive: what the peer has sent, in order
  up,        \* a session is established
  liveNext,  \* the first stanza the server has not yet tried to deliver live
  rows,      \* the messages table of this chat, in id order
  opened,    \* encrypted stanzas whose message key is used up
  pc,        \* the handler of each copy of each stanza
  hit,       \* the row that handler found for its target, 0 for none
  unread,    \* conversations.unread
  receipted, \* stanzas whose delivery receipt has been sent
  cursor,    \* mam_cursors.last_id of the account archive, 0 for none
  horizon,   \* the first stanza of the newest first-run page behind a cursor (history)
  spc,       \* the catch_up_account tasks
  after,     \* the id a task pages forward from, 0 on the first run
  left,      \* queries a task may still make
  page,      \* the page it is getting: next result, last result, archive exhausted
  overlapped, \* stanzas that had two copies in hand at once (history)
  killed,    \* stanzas in hand when the core stopped (history)
  stops      \* how often the core has stopped (bounded by MaxStops)

archive == <<sent, liveNext>>
table == <<rows, unread>>
handlers == <<opened, pc, hit, receipted>>
sync == <<spc, after, left, page>>
marks == <<cursor, horizon>>
history == <<overlapped, killed>>
vars == <<sent, up, liveNext, rows, opened, pc, hit, unread, receipted, cursor, horizon,
          spc, after, left, page, overlapped, killed, stops>>

Stanzas == 1..MaxSent
Via == {"live", "mam"}
Kinds == {"text"} \cup Edits
HandlerSteps == {"idle", "open", "receipt", "insert", "placeholder", "bump",
                 "find", "edit", "react", "wipe", "unreact"}
SyncSteps == {"off", "read", "ask", "results", "save"}

Null == 0                   \* messages.body IS NULL
Placeholder == MaxSent + 1  \* "This message could not be decrypted."
NoPage == [next |-> 0, last |-> 0, complete |-> FALSE]

Row == [of : Stanzas, via : Via, body : 0..Placeholder, retracted : BOOLEAN,
        reaction : 0..MaxSent]

TypeOK ==
  /\ sent \in Seq([kind : Kinds, of : Stanzas])
  /\ up \in BOOLEAN
  /\ liveNext \in 1..MaxSent + 1
  /\ rows \in Seq(Row)
  /\ opened \subseteq Encrypted
  /\ pc \in [Stanzas -> [Via -> HandlerSteps]]
  /\ hit \in [Stanzas -> [Via -> Nat]]
  /\ unread \in Nat
  /\ receipted \subseteq Stanzas
  /\ cursor \in 0..MaxSent
  /\ horizon \in 0..MaxSent
  /\ spc \in [Syncs -> SyncSteps]
  /\ after \in [Syncs -> 0..MaxSent]
  /\ left \in [Syncs -> 0..MaxPages]
  /\ page \in [Syncs -> [next : Nat, last : 0..MaxSent, complete : BOOLEAN]]
  /\ overlapped \subseteq Stanzas
  /\ killed \subseteq Stanzas
  /\ stops \in Nat

Init ==
  /\ sent = <<>>
  /\ up = FALSE
  /\ liveNext = 1
  /\ rows = <<>>
  /\ opened = {}
  /\ pc = [n \in Stanzas |-> [v \in Via |-> "idle"]]
  /\ hit = [n \in Stanzas |-> [v \in Via |-> 0]]
  /\ unread = 0
  /\ receipted = {}
  /\ cursor = 0
  /\ horizon = 0
  /\ spc = [s \in Syncs |-> "off"]
  /\ after = [s \in Syncs |-> 0]
  /\ left = [s \in Syncs |-> 0]
  /\ page = [s \in Syncs |-> NoPage]
  /\ overlapped = {}
  /\ killed = {}
  /\ stops = 0

Is(kind, n) == n \in DOMAIN sent /\ sent[n].kind = kind
InHand(n) == \E v \in Via : pc[n][v] # "idle"
RowsOf(n) == {i \in DOMAIN rows : rows[i].of = n}
Stored(n) == RowsOf(n) # {}
Step(n, v, step) == pc' = [pc EXCEPT ![n][v] = step]
Finish(n, v) == Step(n, v, "idle") /\ hit' = [hit EXCEPT ![n][v] = 0]

-----------------------------------------------------------------------------
(* The peer, the server and the session.                                     *)

\* The peer sends a text, or a stanza about a text it sent before and did not retract.
PeerSends ==
  /\ Len(sent) < MaxSent
  /\ \/ sent' = Append(sent, [kind |-> "text", of |-> Len(sent) + 1])
     \/ \E k \in Edits, t \in DOMAIN sent :
          /\ Is("text", t)
          /\ \A r \in DOMAIN sent : Is("retract", r) => sent[r].of # t
          /\ sent' = Append(sent, [kind |-> k, of |-> t])
  /\ UNCHANGED <<up, liveNext, table, handlers, marks, sync, history, stops>>

\* A fresh session: the bootstrap runs, and catches up right after initial presence.
SessionUp ==
  /\ ~up
  /\ up' = TRUE
  /\ \E s \in Syncs :
       /\ spc[s] = "off"
       /\ spc' = [spc EXCEPT ![s] = "read"]
  /\ UNCHANGED <<archive, table, handlers, marks, after, left, page, history, stops>>

SessionDown ==
  /\ up
  /\ up' = FALSE
  /\ UNCHANGED <<archive, table, handlers, marks, sync, history, stops>>

\* A copy of stanza n reaches the connection loop, which spawns its handler.  (Bound: no
\* second archive copy of a stanza while the first is in hand.)
Arrive(n, v) ==
  /\ pc[n][v] = "idle"
  /\ Step(n, v, "open")
  /\ overlapped' = IF InHand(n) THEN overlapped \cup {n} ELSE overlapped
  /\ UNCHANGED hit

\* The server delivers the next stanza live ...
LiveDelivery ==
  /\ up
  /\ liveNext \in DOMAIN sent
  /\ Arrive(liveNext, "live")
  /\ liveNext' = liveNext + 1
  /\ UNCHANGED <<sent, up, table, opened, receipted, marks, sync, killed, stops>>

\* ... or it never comes that way: it went to another device or to a dead connection.
LiveMiss ==
  /\ liveNext \in DOMAIN sent
  /\ liveNext' = liveNext + 1
  /\ UNCHANGED <<sent, up, table, handlers, marks, sync, history, stops>>

\* The core stops and is started again: rows, cursor and ratchets are on disk.
CoreStops ==
  /\ stops < MaxStops
  /\ stops' = stops + 1
  /\ killed' = killed \cup {n \in Stanzas : InHand(n)}
  /\ up' = FALSE
  /\ pc' = [n \in Stanzas |-> [v \in Via |-> "idle"]]
  /\ hit' = [n \in Stanzas |-> [v \in Via |-> 0]]
  /\ spc' = [s \in Syncs |-> "off"]
  /\ after' = [s \in Syncs |-> 0]
  /\ left' = [s \in Syncs |-> 0]
  /\ page' = [s \in Syncs |-> NoPage]
  /\ UNCHANGED <<archive, table, opened, receipted, marks, overlapped>>

-----------------------------------------------------------------------------
(* process_payload: the handler of one copy of one stanza.                   *)

FirstStep(n, v) ==
  IF ~Is("text", n) THEN "find" ELSE IF v = "live" THEN "receipt" ELSE "insert"

\* The content is readable: it is plain, or its message key was still there, once.
Open(n, v) ==
  /\ pc[n][v] = "open"
  /\ n \notin opened
  /\ opened' = opened \cup ({n} \cap Encrypted)
  /\ Step(n, v, FirstStep(n, v))
  /\ UNCHANGED <<archive, up, table, hit, receipted, marks, sync, history, stops>>

\* decrypt_message fails on a second copy.  A stanza with an outer body gets a placeholder
\* row (persist_decrypt_failure), any other is dropped.
OpenFails(n, v) ==
  /\ pc[n][v] = "open"
  /\ n \in opened
  /\ Step(n, v, IF Is("text", n) THEN "placeholder" ELSE "idle")
  /\ UNCHANGED <<archive, up, table, opened, hit, receipted, marks, sync, history, stops>>

\* The delivery receipt of a live text is sent before the text is stored; its errors
\* (an encrypted receipt may fail) are ignored.
Receipt(n) ==
  /\ pc[n]["live"] = "receipt"
  /\ \/ receipted' = receipted \cup {n}
     \/ n \in Encrypted /\ receipted' = receipted
  /\ Step(n, "live", "insert")
  /\ UNCHANGED <<archive, up, table, opened, hit, marks, sync, history, stops>>

NewRow(n, v) ==
  [of |-> n, via |-> v, body |-> IF pc[n][v] = "placeholder" THEN Placeholder ELSE n,
   retracted |-> FALSE, reaction |-> 0]

AfterInsert(v) == IF v = "live" THEN "bump" ELSE "idle"

\* Mutated Insert: without the lookup of an earlier copy.
InsertBlind(n, v) ==
  /\ pc[n][v] \in {"insert", "placeholder"}
  /\ rows' = Append(rows, NewRow(n, v))
  /\ Step(n, v, AfterInsert(v))
  /\ UNCHANGED <<archive, up, opened, hit, unread, receipted, marks, sync, history, stops>>

\* Mutated Insert: the later copy replaces the body of the earlier one.
InsertOverwrites(n, v) ==
  /\ pc[n][v] \in {"insert", "placeholder"}
  /\ IF Stored(n)
     THEN /\ rows' = [i \in DOMAIN rows |->
                        IF rows[i].of = n THEN [rows[i] EXCEPT !.body = NewRow(n, v).body]
                        ELSE rows[i]]
          /\ Step(n, v, "idle")
     ELSE /\ rows' = Append(rows, NewRow(n, v))
          /\ Step(n, v, AfterInsert(v))
  /\ UNCHANGED <<archive, up, opened, hit, unread, receipted, marks, sync, history, stops>>

\* insert_message, under its lock: a row that has the origin-id or the stanza-id of this
\* stanza keeps the new one out, whatever the two contain.
Insert(n, v) ==
  /\ pc[n][v] \in {"insert", "placeholder"}
  /\ IF Stored(n)
     THEN rows' = rows /\ Step(n, v, "idle")
     ELSE rows' = Append(rows, NewRow(n, v)) /\ Step(n, v, AfterInsert(v))
  /\ UNCHANGED <<archive, up, opened, hit, unread, receipted, marks, sync, history, stops>>

\* bump_unread, for a live copy that made a new row.
Bump(n) ==
  /\ pc[n]["live"] = "bump"
  /\ unread' = unread + 1
  /\ Step(n, "live", "idle")
  /\ UNCHANGED <<archive, up, rows, opened, hit, receipted, marks, sync, history, stops>>

Max0(S) == IF S = {} THEN 0 ELSE CHOOSE i \in S : \A j \in S : j <= i
Aimed(n) == CASE Is("correct", n) -> "edit" [] Is("react", n) -> "react" [] OTHER -> "wipe"

\* Mutated Find: a correction of an unknown text is dropped too.
FindOrDrop(n, v) ==
  /\ pc[n][v] = "find"
  /\ hit' = [hit EXCEPT ![n][v] = Max0(RowsOf(sent[n].of))]
  /\ Step(n, v, IF Stored(sent[n].of) THEN Aimed(n) ELSE "idle")
  /\ UNCHANGED <<archive, up, table, opened, receipted, marks, sync, history, stops>>

\* message_by_marker: the newest row with the target's id.  Without one a reaction or a
\* retraction is dropped, and a correction is stored as a message of its own.
Find(n, v) ==
  /\ pc[n][v] = "find"
  /\ hit' = [hit EXCEPT ![n][v] = Max0(RowsOf(sent[n].of))]
  /\ Step(n, v, IF Stored(sent[n].of) THEN Aimed(n)
                ELSE IF Is("correct", n) THEN "insert" ELSE "idle")
  /\ UNCHANGED <<archive, up, table, opened, receipted, marks, sync, history, stops>>

\* The UPDATE of apply_correction, by the row id found before.
Edit(n, v) ==
  /\ pc[n][v] = "edit"
  /\ rows' = [rows EXCEPT ![hit[n][v]].body = n]
  /\ Finish(n, v)
  /\ UNCHANGED <<archive, up, opened, unread, receipted, marks, sync, history, stops>>

\* set_reactions: one transaction that replaces what the reactor had.
React(n, v) ==
  /\ pc[n][v] = "react"
  /\ rows' = [rows EXCEPT ![hit[n][v]].reaction = n]
  /\ Finish(n, v)
  /\ UNCHANGED <<archive, up, opened, unread, receipted, marks, sync, history, stops>>

\* retract_message: first the tombstone ...
Wipe(n, v) ==
  /\ pc[n][v] = "wipe"
  /\ rows' = [rows EXCEPT ![hit[n][v]].body = Null, ![hit[n][v]].retracted = TRUE]
  /\ Step(n, v, "unreact")
  /\ UNCHANGED <<archive, up, opened, hit, unread, receipted, marks, sync, history, stops>>

\* ... then its reactions go.
Unreact(n, v) ==
  /\ pc[n][v] = "unreact"
  /\ rows' = [rows EXCEPT ![hit[n][v]].reaction = 0]
  /\ Finish(n, v)
  /\ UNCHANGED <<archive, up, opened, unread, receipted, marks, sync, history, stops>>

\* Command::MarkRead: clear_unread, then the read marker.
MarkRead ==
  /\ unread > 0
  /\ unread' = 0
  /\ UNCHANGED <<archive, up, rows, handlers, marks, sync, history, stops>>

-----------------------------------------------------------------------------
(* catch_up_account.                                                         *)

\* The task ends, and what it knew with it.
SyncEnds(s) ==
  /\ spc' = [spc EXCEPT ![s] = "off"]
  /\ after' = [after EXCEPT ![s] = 0]
  /\ left' = [left EXCEPT ![s] = 0]
  /\ page' = [page EXCEPT ![s] = NoPage]

SyncRead(s) ==
  /\ spc[s] = "read"
  /\ after' = [after EXCEPT ![s] = cursor]
  /\ left' = [left EXCEPT ![s] = MaxPages]
  /\ spc' = [spc EXCEPT ![s] = "ask"]
  /\ UNCHANGED <<archive, up, table, handlers, marks, page, history, stops>>

\* The first stanza of the most recent page when the archive ends at l.
FirstOf(l) == IF l > Page THEN l - Page + 1 ELSE 1

\* The server's page: forward from the cursor, or the most recent one on the first run.
PageAfter(a) ==
  IF a = 0
  THEN [next |-> FirstOf(Len(sent)),
        last |-> Len(sent), complete |-> Len(sent) <= Page]
  ELSE [next |-> a + 1,
        last |-> IF Len(sent) > a + Page THEN a + Page ELSE Len(sent),
        complete |-> Len(sent) <= a + Page]

SyncAsk(s) ==
  /\ up
  /\ spc[s] = "ask"
  /\ left' = [left EXCEPT ![s] = @ - 1]
  /\ page' = [page EXCEPT ![s] = PageAfter(after[s])]
  /\ spc' = [spc EXCEPT ![s] = "results"]
  /\ UNCHANGED <<archive, up, table, handlers, marks, after, history, stops>>

\* The next result of the page arrives, as a stanza with a handler of its own.
SyncResult(s) ==
  /\ up
  /\ spc[s] = "results"
  /\ page[s].next <= page[s].last
  /\ Arrive(page[s].next, "mam")
  /\ page' = [page EXCEPT ![s].next = @ + 1]
  /\ UNCHANGED <<archive, up, table, opened, receipted, marks, spc, after, left, killed, stops>>

\* The query's reply comes after its results; an empty page has no last id and ends the
\* task.
SyncFin(s) ==
  /\ up
  /\ spc[s] = "results"
  /\ page[s].next > page[s].last
  /\ IF page[s].last = after[s]
     THEN SyncEnds(s)
     ELSE spc' = [spc EXCEPT ![s] = "save"] /\ UNCHANGED <<after, left, page>>
  /\ UNCHANGED <<archive, up, table, handlers, marks, history, stops>>

\* Mutated SyncSave: the cursor goes to where the archive ends by now.
SyncSaveEnd(s) ==
  /\ spc[s] = "save"
  /\ cursor' = Len(sent)
  /\ horizon' = IF after[s] = 0 /\ FirstOf(page[s].last) > horizon
                THEN FirstOf(page[s].last) ELSE horizon
  /\ SyncEnds(s)
  /\ UNCHANGED <<archive, up, table, handlers, history, stops>>

\* set_mam_cursor with the page's last id.  The first run ends here; a later one asks for
\* the next page until the archive is exhausted or its queries are used up.
SyncSave(s) ==
  /\ spc[s] = "save"
  /\ cursor' = page[s].last
  /\ horizon' = IF after[s] = 0 /\ FirstOf(page[s].last) > horizon
                THEN FirstOf(page[s].last) ELSE horizon
  /\ IF after[s] = 0 \/ page[s].complete \/ left[s] = 0
     THEN SyncEnds(s)
     ELSE /\ spc' = [spc EXCEPT ![s] = "ask"]
          /\ after' = [after EXCEPT ![s] = page[s].last]
          /\ UNCHANGED <<left, page>>
  /\ UNCHANGED <<archive, up, table, handlers, history, stops>>

\* The request times out, after 30 seconds or because its stream is gone: the bootstrap
\* logs it and the catch-up is over until the next session.  (Bound: results of a query that
\* was given up no longer arrive.)
SyncTimeout(s) ==
  /\ spc[s] \in {"ask", "results"}
  /\ SyncEnds(s)
  /\ UNCHANGED <<archive, up, table, handlers, marks, history, stops>>

-----------------------------------------------------------------------------
HandlerNext(n, v) ==
  \/ Open(n, v) \/ OpenFails(n, v) \/ Insert(n, v) \/ Find(n, v)
  \/ Edit(n, v) \/ React(n, v) \/ Wipe(n, v) \/ Unreact(n, v)
  \/ v = "live" /\ (Receipt(n) \/ Bump(n))

SyncNext(s) ==
  \/ SyncRead(s) \/ SyncAsk(s) \/ SyncResult(s) \/ SyncFin(s) \/ SyncSave(s)
  \/ SyncTimeout(s)

Next ==
  \/ PeerSends \/ SessionUp \/ SessionDown \/ LiveDelivery \/ LiveMiss \/ CoreStops
  \/ MarkRead
  \/ \E n \in Stanzas, v \in Via : HandlerNext(n, v)
  \/ \E s \in Syncs : SyncNext(s)

Spec == Init /\ [][Next]_vars
-----------------------------------------------------------------------------
(* Properties.                                                               *)

(* A stanza is in the timeline once, however many copies of it race: live, from the
   archive, and again after a restart (insert_message, mxc-store messages.rs). *)
OneRowEach == \A i, j \in DOMAIN rows : rows[i].of = rows[j].of => i = j

(* What the server or the peer takes for received is there: every text between the first
   page of the catch-up and the cursor, and every text that a receipt was sent for, has a row,
   or a handler that will make one, or had one that a stop of the core cut short
   (catch_up_account, mam.rs; the receipt before persist_and_emit in process_payload). *)
AcknowledgedIsKept ==
  \A n \in (horizon..cursor) \cup receipted :
    Is("text", n) => Stored(n) \/ InHand(n) \/ n \in killed

(* An encrypted text whose session is sound is lost to the placeholder only in two ways: a
   second copy was in hand at the same time, or a stop of the core cut the first one short.
   A copy that comes later never spoils what is stored (process_payload). *)
LostOnlyByOverlap ==
  \A i \in DOMAIN rows : rows[i].body = Placeholder => rows[i].of \in overlapped \cup killed

Changed(i) == rows[i].retracted \/ Is("correct", rows[i].body)

(* A handler that ends has shown its stanza: a text has a row, a correction has one too or
   has changed its target's, which only a later edit takes away again.  Only a stop of the
   core cuts a handler short (process_payload). *)
HandledIsShown ==
  [][\A n \in Stanzas :
       (InHand(n) /\ ~InHand(n)' /\ n \notin killed') =>
         /\ Is("text", n) => Stored(n)'
         /\ Is("correct", n) => Stored(n)' \/ \E i \in RowsOf(sent[n].of)' : Changed(i)']_vars

=============================================================================
