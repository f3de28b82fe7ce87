------------------------------- MODULE Outbox -------------------------------
(***************************************************************************)
(* The send path of the XMPP core (crates/mxc-proto): the connection loop  *)
(* of client.rs, the send_message and flush_outbox tasks of messaging.rs,  *)
(* the in-memory queue of outgoing stanzas, and the message rows of        *)
(* mxc-store they read and write.                                          *)
(*                                                                         *)
(* The core is one thread.  A handler runs until it awaits the store or    *)
(* the network, and any other handler may run there: every await of the    *)
(* code is a boundary between two actions here.  The rows survive a stop   *)
(* of the core, everything else is lost with it.                           *)
(***************************************************************************)
EXTENDS Naturals, Sequences, FiniteSets

CONSTANTS
  Msgs,       \* the texts the user sends, each with its own origin id
  Encrypted,  \* those in OMEMO2 chats, whose encryption awaits the network and may fail
  Flushes,    \* the flush_outbox tasks that may run at once (bound)
  NoMsg,      \* "no message", of a flush between two sends
  Retractable, \* the messages the user may take back (bound)
  MaxStops     \* stops or crashes of the core (bound)

ASSUME OutboxAssumption ==
  /\ Encrypted \subseteq Msgs
  /\ Retractable \subseteq Msgs
  /\ NoMsg \notin Msgs
  /\ IsFiniteSet(Flushes)
  /\ MaxStops \in Nat

VARIABLES
  online,     \* the cell of connection_loop: a session is up
  waiting,    \* the reconnect timer is armed
  outq,       \* out_rx: stanzas waiting for the connection loop
  composer,   \* texts the user has yet to send from the input field
  pc,         \* the send_message task of each message
  wasOnline,  \* is_online as each send_message task captured it
  state,      \* messages.state of each row, "absent" without a row
  retracted,  \* messages whose row is a tombstone (body NULL)
  retracting, \* messages whose retraction is queued but not yet stored
  rowid,      \* messages.id, 0 without a row
  nextRow,    \* the id the next insert gets
  fpc,        \* the flush_outbox tasks
  todo,       \* what is left of each flush task's snapshot
  cur,        \* the message a flush task has handed over and not yet marked
  copies,     \* how often this run of the core queued each message (history)
  handed,     \* messages ever given to the stream's queue (history)
  delivered,  \* messages the peer has got
  stops       \* how often the core has stopped (bounded by MaxStops)

conn == <<online, waiting>>
rows == <<state, retracted, rowid, nextRow>>
sends == <<composer, pc, wasOnline>>
flushes == <<fpc, todo, cur>>
history == <<copies, handed>>
vars == <<online, waiting, outq, composer, pc, wasOnline, state, retracted, retracting,
          rowid, nextRow, fpc, todo, cur, copies, handed, delivered, stops>>

Shown == {"sent", "received", "displayed"}   \* the states with a tick in the footer
States == {"absent", "queued", "pending"} \cup Shown
SendSteps == {"idle", "send", "insert", "mark", "done", "failed", "reported", "stopped"}
Running == {"send", "insert", "mark"}
FlushSteps == {"idle", "query", "send", "mark"}

Text(m) == [kind |-> "text", id |-> m]
Retraction(m) == [kind |-> "retract", id |-> m]
Stanzas == [kind : {"text", "retract"}, id : Msgs]

TypeOK ==
  /\ online \in BOOLEAN
  /\ waiting \in BOOLEAN
  /\ outq \in Seq(Stanzas)
  /\ composer \in SUBSET Msgs
  /\ pc \in [Msgs -> SendSteps]
  /\ wasOnline \in [Msgs -> BOOLEAN]
  /\ state \in [Msgs -> States]
  /\ retracted \in SUBSET Msgs
  /\ retracting \in SUBSET Msgs
  /\ rowid \in [Msgs -> Nat]
  /\ nextRow \in Nat
  /\ fpc \in [Flushes -> FlushSteps]
  /\ todo \in [Flushes -> SUBSET Msgs]
  /\ cur \in [Flushes -> Msgs \cup {NoMsg}]
  /\ copies \in [Msgs -> Nat]
  /\ handed \in SUBSET Msgs
  /\ delivered \in SUBSET Msgs
  /\ stops \in Nat

Init ==
  /\ online = FALSE
  /\ waiting = FALSE
  /\ outq = <<>>
  /\ composer = Msgs
  /\ pc = [m \in Msgs |-> "idle"]
  /\ wasOnline = [m \in Msgs |-> FALSE]
  /\ state = [m \in Msgs |-> "absent"]
  /\ retracted = {}
  /\ retracting = {}
  /\ rowid = [m \in Msgs |-> 0]
  /\ nextRow = 1
  /\ fpc = [f \in Flushes |-> "idle"]
  /\ todo = [f \in Flushes |-> {}]
  /\ cur = [f \in Flushes |-> NoMsg]
  /\ copies = [m \in Msgs |-> 0]
  /\ handed = {}
  /\ delivered = {}
  /\ stops = 0

-----------------------------------------------------------------------------
(* The connection loop.                                                      *)

\* XmppEvent::Online.  The stream library reports it again after each of its own
\* reconnects, without a Disconnected in between, so it may find the cell already set.
\* Every report spawns one more flush of the outbox.
StreamOnline ==
  /\ ~waiting
  /\ online' = TRUE
  /\ \E f \in Flushes :
       /\ fpc[f] = "idle"
       /\ fpc' = [fpc EXCEPT ![f] = "query"]
  /\ UNCHANGED <<waiting, outq, sends, rows, retracting, todo, cur, history, delivered, stops>>

\* XmppEvent::Disconnected: the loop goes on polling the same client.
StreamDisconnected ==
  /\ ~waiting
  /\ online
  /\ online' = FALSE
  /\ UNCHANGED <<waiting, outq, sends, rows, retracting, flushes, history, delivered, stops>>

\* The stream ended: arm the backoff timer and stop polling.
StreamEnded ==
  /\ ~waiting
  /\ online' = FALSE
  /\ waiting' = TRUE
  /\ UNCHANGED <<outq, sends, rows, retracting, flushes, history, delivered, stops>>

\* The backoff elapsed: the client is rebuilt and polled again.
BackoffElapsed ==
  /\ waiting
  /\ waiting' = FALSE
  /\ UNCHANGED <<online, outq, sends, rows, retracting, flushes, history, delivered, stops>>

\* One stanza of the queue goes to the stream, which is done only while online.  A send
\* error is logged and the stanza is gone.
DrainOutgoing ==
  /\ online
  /\ outq # <<>>
  /\ outq' = Tail(outq)
  /\ \/ delivered' = delivered \cup {m \in Msgs : Head(outq) = Text(m)}
     \/ delivered' = delivered
  /\ UNCHANGED <<conn, sends, rows, retracting, flushes, history, stops>>

\* The core stops, by Command::Shutdown or by a crash, and is started again.  Queued
\* stanzas and running tasks die; the rows and what the peer has got stay.
CoreStops ==
  /\ stops < MaxStops
  /\ stops' = stops + 1
  /\ online' = FALSE
  /\ waiting' = FALSE
  /\ outq' = <<>>
  /\ pc' = [m \in Msgs |-> IF pc[m] \in Running \cup {"failed"} THEN "stopped" ELSE pc[m]]
  /\ retracting' = {}
  /\ fpc' = [f \in Flushes |-> "idle"]
  /\ todo' = [f \in Flushes |-> {}]
  /\ cur' = [f \in Flushes |-> NoMsg]
  /\ copies' = [m \in Msgs |-> 0]
  /\ UNCHANGED <<composer, wasOnline, rows, handed, delivered>>

-----------------------------------------------------------------------------
(* Command::SendMessage.                                                     *)

\* w.send at the end of send_text_stanza: the stanza joins the loop's queue.
HandOver(m) ==
  /\ outq' = Append(outq, Text(m))
  /\ copies' = [copies EXCEPT ![m] = @ + 1]
  /\ handed' = handed \cup {m}

\* The user sends the text: the input field is cleared at once, and the loop spawns the
\* task with the connection state of this moment.
Submit(m) ==
  /\ m \in composer
  /\ composer' = composer \ {m}
  /\ wasOnline' = [wasOnline EXCEPT ![m] = online]
  /\ pc' = [pc EXCEPT ![m] = IF online THEN "send" ELSE "insert"]
  /\ UNCHANGED <<conn, outq, rows, retracting, flushes, history, delivered, stops>>

\* Online path: the encryption is done and the stanza is queued, before any row exists.
\* The session may have gone down meanwhile; the stanza is queued all the same.
LiveSend(m) ==
  /\ pc[m] = "send"
  /\ HandOver(m)
  /\ pc' = [pc EXCEPT ![m] = "insert"]
  /\ UNCHANGED <<conn, composer, wasOnline, rows, retracting, flushes, delivered, stops>>

\* The encryption fails: send_message returns before it stores anything and the core
\* emits SendFailed with the text.
LiveSendFails(m) ==
  /\ pc[m] = "send"
  /\ m \in Encrypted
  /\ pc' = [pc EXCEPT ![m] = "failed"]
  /\ UNCHANGED <<conn, outq, composer, wasOnline, rows, retracting, flushes, history,
                 delivered, stops>>

\* insert_message: the row gets the default state of the schema, not yet its own.
InsertRow(m) ==
  /\ pc[m] = "insert"
  /\ pc' = [pc EXCEPT ![m] = "mark"]
  /\ state' = [state EXCEPT ![m] = "queued"]
  /\ rowid' = [rowid EXCEPT ![m] = nextRow]
  /\ nextRow' = nextRow + 1
  /\ UNCHANGED <<conn, outq, composer, wasOnline, retracted, retracting, flushes, history,
                 delivered, stops>>

\* Mutated MarkRow: only a live send is marked.
MarkRowIfSent(m) ==
  /\ pc[m] = "mark"
  /\ pc' = [pc EXCEPT ![m] = "done"]
  /\ state' = [state EXCEPT ![m] = IF wasOnline[m] THEN "sent" ELSE @]
  /\ UNCHANGED <<conn, outq, composer, wasOnline, retracted, rowid, nextRow, retracting,
                 flushes, history, delivered, stops>>

\* set_message_state, with the connection state captured when the task was spawned.
MarkRow(m) ==
  /\ pc[m] = "mark"
  /\ pc' = [pc EXCEPT ![m] = "done"]
  /\ state' = [state EXCEPT ![m] = IF wasOnline[m] THEN "sent" ELSE "pending"]
  /\ UNCHANGED <<conn, outq, composer, wasOnline, retracted, rowid, nextRow, retracting,
                 flushes, history, delivered, stops>>

\* The event pump of the user interface takes SendFailed and has no arm for it.
ReportFailure(m) ==
  /\ pc[m] = "failed"
  /\ pc' = [pc EXCEPT ![m] = "reported"]
  /\ UNCHANGED <<conn, outq, composer, wasOnline, rows, retracting, flushes, history,
                 delivered, stops>>

-----------------------------------------------------------------------------
(* flush_outbox.                                                             *)

\* Mutated PendingRows: without the filter on the body.
PendingRowsAndTombstones == {m \in Msgs : state[m] = "pending"}

\* pending_messages: rows still waiting that have a body.
PendingRows == {m \in Msgs : state[m] = "pending" /\ m \notin retracted}

FlushQuery(f) ==
  /\ fpc[f] = "query"
  /\ todo' = [todo EXCEPT ![f] = PendingRows]
  /\ fpc' = [fpc EXCEPT ![f] = IF PendingRows = {} THEN "idle" ELSE "send"]
  /\ UNCHANGED <<conn, outq, sends, rows, retracting, cur, history, delivered, stops>>

\* The snapshot is worked off by row id, the oldest first.
Oldest(f, m) == m \in todo[f] /\ \A n \in todo[f] : rowid[m] <= rowid[n]

\* Mutated FlushSend: an error of the queue is swallowed and the row is marked next.
FlushSendLost(f) ==
  /\ fpc[f] = "send"
  /\ \E m \in todo[f] :
       /\ Oldest(f, m)
       /\ cur' = [cur EXCEPT ![f] = m]
       /\ todo' = [todo EXCEPT ![f] = @ \ {m}]
  /\ fpc' = [fpc EXCEPT ![f] = "mark"]
  /\ UNCHANGED <<conn, outq, sends, rows, retracting, history, delivered, stops>>

\* The oldest message of the snapshot is queued, whatever became of its row meanwhile.
FlushSend(f) ==
  /\ fpc[f] = "send"
  /\ \E m \in todo[f] :
       /\ Oldest(f, m)
       /\ HandOver(m)
       /\ cur' = [cur EXCEPT ![f] = m]
       /\ todo' = [todo EXCEPT ![f] = @ \ {m}]
  /\ fpc' = [fpc EXCEPT ![f] = "mark"]
  /\ UNCHANGED <<conn, sends, rows, retracting, delivered, stops>>

\* Mutated FlushSendFails: the first failure ends the flush.
FlushSendFailsAborts(f) ==
  /\ fpc[f] = "send"
  /\ \E m \in todo[f] \cap Encrypted : Oldest(f, m)
  /\ todo' = [todo EXCEPT ![f] = {}]
  /\ fpc' = [fpc EXCEPT ![f] = "idle"]
  /\ UNCHANGED <<conn, outq, sends, rows, retracting, cur, history, delivered, stops>>

\* Its encryption fails: the row stays pending and the flush goes on with the next one.
FlushSendFails(f) ==
  /\ fpc[f] = "send"
  /\ \E m \in todo[f] \cap Encrypted :
       /\ Oldest(f, m)
       /\ todo' = [todo EXCEPT ![f] = @ \ {m}]
       /\ fpc' = [fpc EXCEPT ![f] = IF todo[f] = {m} THEN "idle" ELSE "send"]
  /\ UNCHANGED <<conn, outq, sends, rows, retracting, cur, history, delivered, stops>>

\* The message just queued is marked as sent, whatever its state is by now.
FlushMark(f) ==
  /\ fpc[f] = "mark"
  /\ state' = [state EXCEPT ![cur[f]] = "sent"]
  /\ cur' = [cur EXCEPT ![f] = NoMsg]
  /\ fpc' = [fpc EXCEPT ![f] = IF todo[f] = {} THEN "idle" ELSE "send"]
  /\ UNCHANGED <<conn, outq, sends, retracted, rowid, nextRow, retracting, todo, history,
                 delivered, stops>>

-----------------------------------------------------------------------------
(* Other handlers that touch the same rows.                                  *)

\* A receipt (XEP-0184) or read marker (XEP-0333) of the peer: the state is overwritten,
\* in whatever order they come; without a row nothing is stored.
Receipt(m) ==
  /\ m \in delivered
  /\ state[m] # "absent"
  /\ \E s \in {"received", "displayed"} : state' = [state EXCEPT ![m] = s]
  /\ UNCHANGED <<conn, outq, sends, retracted, rowid, nextRow, retracting, flushes, history,
                 delivered, stops>>

\* send_retraction queues the retraction ...
RetractSend(m) ==
  /\ m \in Retractable
  /\ state[m] # "absent"
  /\ m \notin retracted \cup retracting
  /\ outq' = Append(outq, Retraction(m))
  /\ retracting' = retracting \cup {m}
  /\ UNCHANGED <<conn, sends, rows, flushes, history, delivered, stops>>

\* ... and then makes the row a tombstone.
RetractStore(m) ==
  /\ m \in retracting
  /\ retracting' = retracting \ {m}
  /\ retracted' = retracted \cup {m}
  /\ UNCHANGED <<conn, outq, sends, state, rowid, nextRow, flushes, history, delivered, stops>>

-----------------------------------------------------------------------------
Next ==
  \/ StreamOnline \/ StreamDisconnected \/ StreamEnded \/ BackoffElapsed
  \/ DrainOutgoing \/ CoreStops
  \/ \E m \in Msgs :
       \/ Submit(m) \/ LiveSend(m) \/ LiveSendFails(m) \/ InsertRow(m) \/ MarkRow(m)
       \/ ReportFailure(m) \/ Receipt(m) \/ RetractSend(m) \/ RetractStore(m)
  \/ \E f \in Flushes : FlushQuery(f) \/ FlushSend(f) \/ FlushSendFails(f) \/ FlushMark(f)

Spec == Init /\ [][Next]_vars

(***************************************************************************)
(* Fairness.  The core's executor polls every ready task, so each step of  *)
(* a task happens once it can; the backoff timer fires; the network comes  *)
(* back again and again.  Users, peers and failures owe nothing.           *)
(***************************************************************************)
SendTask(m) == LiveSend(m) \/ LiveSendFails(m) \/ InsertRow(m) \/ MarkRow(m) \/ ReportFailure(m)
FlushTask(f) == FlushQuery(f) \/ FlushSend(f) \/ FlushSendFails(f) \/ FlushMark(f)

Fairness ==
  /\ SF_vars(StreamOnline)
  /\ WF_vars(BackoffElapsed)
  /\ \A m \in Msgs : WF_vars(SendTask(m))
  /\ \A f \in Flushes : WF_vars(FlushTask(f))

FairSpec == Spec /\ Fairness
-----------------------------------------------------------------------------
(* Properties.                                                               *)

(* A tick in the footer is never a promise the core did not make: a row shown as sent,
   delivered or read belongs to a message that was given to the stream's queue, in this
   run of the core or an earlier one (messaging.rs, send_message and flush_outbox). *)
ConfirmedWasHanded == \A m \in Msgs : state[m] \in Shown => m \in handed

(* Once send_message has returned without an error the message is not lost: its stanza
   was queued, or its row waits for the outbox, whatever the connection did while the
   task ran (messaging.rs, send_message). *)
AcceptedIsKept == \A m \in Msgs : pc[m] = "done" => m \in handed \/ state[m] = "pending"

Planned(m) == pc[m] = "send" \/ \E f \in Flushes : m \in todo[f]

Settled(m) == state[m] \in Shown /\ ~Planned(m)
Withdrawn(m) == m \in retracted /\ ~Planned(m)

(* Once a message is shown as sent and no running task has it in hand, it is never sent
   again: no later flush, receipt, retraction or restart makes it wait anew. *)
SettledNeverResent ==
  [][\A m \in Msgs : Settled(m) => Settled(m)' /\ copies'[m] <= copies[m]]_vars

(* A message the user took back before a flush took it up is never sent: its text stays on
   this machine, over reconnects and restarts (the body filter of pending_messages,
   mxc-store messages.rs). *)
WithdrawnNeverSent ==
  [][\A m \in Msgs : Withdrawn(m) => Withdrawn(m)' /\ copies'[m] <= copies[m]]_vars

(* Every message that waits is sent in the end, or taken back, as long as the connection
   keeps coming back: a message ahead of it that cannot be encrypted does not hold it up,
   nor does a reconnect that came too early for it (messaging.rs, flush_outbox). *)
PendingFlushed ==
  \A m \in Msgs \ Encrypted : state[m] = "pending" ~> state[m] # "pending" \/ m \in retracted

Promise == INSTANCE DeliveryPromise
  WITH kept <- {m \in Msgs : state[m] = "pending" /\ m \notin retracted},
       confirmed <- {m \in Msgs : state[m] \in Shown}

(* The send path as a whole keeps the promise of DeliveryPromise. *)
KeepsPromise == Promise!PromiseSpec
=============================================================================
