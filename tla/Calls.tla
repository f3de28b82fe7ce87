-------------------------------- MODULE Calls --------------------------------
(***************************************************************************)
(* The 1:1 calls of one account (jingle.rs): ringing by Jingle Message     *)
(* Initiation, the Jingle session that follows, the media engine of each   *)
(* call with the task that pumps its events, the call history, and the     *)
(* one call the user interface has on screen (session.rs).                 *)
(*                                                                         *)
(* The core runs a handler until it awaits.  The engine reports from its   *)
(* own threads into a channel per engine, and the user interface takes     *)
(* the core's updates and gives it commands through channels, so all       *)
(* three may be behind one another.                                        *)
(***************************************************************************)
EXTENDS Naturals, Sequences, FiniteSets

CONSTANTS
  Out,        \* session ids of the calls the user places
  In,         \* session ids of the calls peers place
  NoCall,     \* nothing on screen
  MaxEngines, \* engines one call may be given (bound)
  MaxLag      \* how many updates or commands may be under way at once (bound)

ASSUME CallsAssumption ==
  /\ Out \cap In = {}
  /\ NoCall \notin Out \cup In
  /\ MaxEngines \in Nat \ {0}
  /\ MaxLag \in Nat \ {0}

VARIABLES
  proposed,  \* Calls.proposed: calls we placed
  incoming,  \* Calls.incoming: calls ringing here
  meta,      \* Calls.meta: what the history will say of an open call
  logged,    \* the call_log rows of each call
  gen,       \* the engine in Calls.active, counted per call, 0 for none
  started,   \* engines started so far, per call
  phase,     \* how far the engine in Calls.active has come
  remote,    \* it has been given the peer's description
  chan,      \* events an engine has reported and its pump has not yet taken
  pump,      \* the event pump of each engine
  iq,        \* the handler of the peer's description
  accepting, \* AcceptCall tasks that await our device id
  told,      \* what the peer has been sent (history)
  said,      \* what the peer, or another device of ours, has sent (history)
  updates,   \* CallUpdate events on their way to the user interface
  shown,     \* CURRENT_CALL with the call state on screen
  cmds,      \* commands on their way to the core
  lost       \* calls whose engine could not be built, or failed (history)

registry == <<proposed, incoming>>
history == <<meta, logged>>
engine == <<gen, started, phase, remote>>
pumps == <<chan, pump>>
tasks == <<iq, accepting>>
wire == <<told, said>>
ui == <<updates, shown, cmds>>
vars == <<proposed, incoming, meta, logged, gen, started, phase, remote, chan, pump, iq,
          accepting, told, said, updates, shown, cmds, lost>>

Calls == Out \cup In
Engines == 1..MaxEngines
Live == {"incoming", "outgoing", "connecting", "active"}
Phases == {"off", "new", "described", "flowing", "failed"}
Reports == {"description", "connected", "failed"}
Blank == [call |-> NoCall, state |-> "ended"]
Rows == {"missed", "answered"}
Marks == Rows \cup {"none"}
PumpSteps == {"off", "run", "encrypt"}
Words == {"propose", "proceed", "reject", "retract", "initiate", "accept", "terminate"}
Updates == [call : Calls, state : Live \cup {"ended"}]
Commands == [kind : {"decline", "cancel"}, call : Calls]
Losses == {"no", "unbuilt", "failed"}

TypeOK ==
  /\ proposed \subseteq Out
  /\ incoming \subseteq In
  /\ meta \in [Calls -> Marks]
  /\ logged \in [Calls -> Seq(Rows)]
  /\ gen \in [Calls -> 0..MaxEngines]
  /\ started \in [Calls -> 0..MaxEngines]
  /\ phase \in [Calls -> Phases]
  /\ remote \in [Calls -> BOOLEAN]
  /\ chan \in [Calls -> [Engines -> Seq(Reports)]]
  /\ pump \in [Calls -> [Engines -> PumpSteps]]
  /\ iq \in [Calls -> {"idle", "decrypt"}]
  /\ accepting \in [Calls -> 0..MaxEngines]
  /\ told \in [Calls -> SUBSET Words]
  /\ said \in [Calls -> SUBSET (Words \cup {"handled"})]
  /\ updates \in Seq(Updates)
  /\ shown \in Updates \cup {Blank}
  /\ cmds \in Seq(Commands)
  /\ lost \in [Calls -> Losses]

Init ==
  /\ proposed = {}
  /\ incoming = {}
  /\ meta = [s \in Calls |-> "none"]
  /\ logged = [s \in Calls |-> <<>>]
  /\ gen = [s \in Calls |-> 0]
  /\ started = [s \in Calls |-> 0]
  /\ phase = [s \in Calls |-> "off"]
  /\ remote = [s \in Calls |-> FALSE]
  /\ chan = [s \in Calls |-> [g \in Engines |-> <<>>]]
  /\ pump = [s \in Calls |-> [g \in Engines |-> "off"]]
  /\ iq = [s \in Calls |-> "idle"]
  /\ accepting = [s \in Calls |-> 0]
  /\ told = [s \in Calls |-> {}]
  /\ said = [s \in Calls |-> {}]
  /\ updates = <<>>
  /\ shown = Blank
  /\ cmds = <<>>
  /\ lost = [s \in Calls |-> "no"]

-----------------------------------------------------------------------------
(* Helpers of the handlers.                                                  *)

Running(s) == gen[s] # 0
Tell(s, what) == told' = [told EXCEPT ![s] = @ \cup what]
Hear(s, what) == said' = [said EXCEPT ![s] = @ \cup {what}]
Emit(s, state) ==
  /\ Len(updates) < MaxLag
  /\ updates' = Append(updates, [call |-> s, state |-> state])
OpenMeta(s) == meta' = [meta EXCEPT ![s] = "missed"] /\ UNCHANGED logged
MarkAnswered(s) ==
  meta' = [meta EXCEPT ![s] = IF @ = "none" THEN @ ELSE "answered"] /\ UNCHANGED logged

\* Mutated LogEnd: the metadata stays.
LogEndKeeps(s) ==
  /\ logged' = IF meta[s] = "none" THEN logged ELSE [logged EXCEPT ![s] = Append(@, meta[s])]
  /\ UNCHANGED meta

\* log_call_end: the first end of a call writes its row, as the metadata goes with it.
LogEnd(s) ==
  /\ meta' = [meta EXCEPT ![s] = "none"]
  /\ logged' = IF meta[s] = "none" THEN logged ELSE [logged EXCEPT ![s] = Append(@, meta[s])]

\* start_call: the engine joins `active`, in the place of an earlier one, with a pump.
StartEngine(s) ==
  /\ started[s] < MaxEngines
  /\ started' = [started EXCEPT ![s] = @ + 1]
  /\ gen' = [gen EXCEPT ![s] = started[s] + 1]
  /\ phase' = [phase EXCEPT ![s] = "new"]
  /\ remote' = [remote EXCEPT ![s] = FALSE]
  /\ pump' = [pump EXCEPT ![s][started[s] + 1] = "run"]
  /\ UNCHANGED chan

\* active.remove: the engine is dropped, its pump has yet to notice.
DropEngine(s) ==
  /\ gen' = [gen EXCEPT ![s] = 0]
  /\ phase' = [phase EXCEPT ![s] = "off"]
  /\ remote' = [remote EXCEPT ![s] = FALSE]
  /\ UNCHANGED started

-----------------------------------------------------------------------------
(* The user interface.                                                       *)

\* The event pump takes an update: whatever call it is about is on screen now, or, if it
\* ended, none is.  (The queue into the Qt thread is passed over.)
TakeUpdate ==
  /\ updates # <<>>
  /\ shown' = IF Head(updates).state = "ended" THEN Blank ELSE Head(updates)
  /\ updates' = Tail(updates)
  /\ UNCHANGED <<registry, history, engine, pumps, tasks, wire, cmds, lost>>

Command(kind) ==
  /\ Len(cmds) < MaxLag
  /\ cmds' = Append(cmds, [kind |-> kind, call |-> shown.call])

\* Command::AcceptCall: its task first awaits our device id, so later commands may overtake
\* it.  The button stays until the media flows.  (Bound: accepts per call.)
ClickAccept ==
  /\ shown.state = "incoming"
  /\ accepting[shown.call] + started[shown.call] < MaxEngines
  /\ accepting' = [accepting EXCEPT ![shown.call] = @ + 1]
  /\ UNCHANGED <<registry, history, engine, pumps, iq, wire, ui, lost>>

\* The red button: decline_call or cancel_call, and the screen closes at once.
ClickRed ==
  /\ shown.state # "ended"
  /\ Command(IF shown.state = "incoming" THEN "decline" ELSE "cancel")
  /\ shown' = Blank
  /\ UNCHANGED <<registry, history, engine, pumps, tasks, wire, updates, lost>>

NextCommand(kind, s) == cmds # <<>> /\ Head(cmds) = [kind |-> kind, call |-> s] /\ cmds' = Tail(cmds)

-----------------------------------------------------------------------------
(* Commands in the core.                                                     *)

\* Command::PlaceCall with propose, under a fresh session id.
PlaceCall(s) ==
  /\ s \in Out
  /\ told[s] = {}
  /\ proposed' = proposed \cup {s}
  /\ OpenMeta(s)
  /\ Tell(s, {"propose"})
  /\ Emit(s, "outgoing")
  /\ UNCHANGED <<incoming, engine, pumps, tasks, said, shown, cmds, lost>>

\* accept: the call need not ring any more, the peer is in the command too.
Accept(s) ==
  /\ accepting[s] > 0
  /\ accepting' = [accepting EXCEPT ![s] = @ - 1]
  /\ incoming' = incoming \ {s}
  /\ MarkAnswered(s)
  /\ StartEngine(s)
  /\ Tell(s, {"proceed"})
  /\ UNCHANGED <<proposed, iq, said, ui, lost>>

\* CallEngine::new fails: accept returns before it answers the peer.
AcceptFails(s) ==
  /\ accepting[s] > 0
  /\ accepting' = [accepting EXCEPT ![s] = @ - 1]
  /\ incoming' = incoming \ {s}
  /\ MarkAnswered(s)
  /\ lost' = [lost EXCEPT ![s] = "unbuilt"]
  /\ UNCHANGED <<proposed, engine, pumps, iq, wire, ui>>

\* reject: an engine this call may have by now is not looked at.
Decline(s) ==
  /\ NextCommand("decline", s)
  /\ incoming' = incoming \ {s}
  /\ LogEnd(s)
  /\ Tell(s, {"reject"})
  /\ UNCHANGED <<proposed, engine, pumps, tasks, said, updates, shown, lost>>

\* Mutated HangUp: the engine is torn down without a word to the peer.
HangUpQuiet(s) ==
  /\ NextCommand("cancel", s)
  /\ proposed' = proposed \ {s}
  /\ incoming' = incoming \ {s}
  /\ LogEnd(s)
  /\ DropEngine(s)
  /\ Tell(s, IF Running(s) THEN {} ELSE {"retract"})
  /\ UNCHANGED <<pumps, tasks, said, updates, shown, lost>>

HangUp(s) ==
  /\ NextCommand("cancel", s)
  /\ proposed' = proposed \ {s}
  /\ incoming' = incoming \ {s}
  /\ LogEnd(s)
  /\ DropEngine(s)
  /\ Tell(s, IF Running(s) THEN {"terminate"} ELSE {"retract"})
  /\ UNCHANGED <<pumps, tasks, said, updates, shown, lost>>

-----------------------------------------------------------------------------
(* handle_message: Jingle Message Initiation.  What the peer sends comes in order; what it
   sends may cross with what we do.  Its devices may answer one call differently.           *)

Propose(s) ==
  /\ s \in In
  /\ said[s] = {}
  /\ Hear(s, "propose")
  /\ incoming' = incoming \cup {s}
  /\ OpenMeta(s)
  /\ Emit(s, "incoming")
  /\ UNCHANGED <<proposed, engine, pumps, tasks, told, shown, cmds, lost>>

PeerProceeds(s) == s \in Out /\ "propose" \in told[s] /\ "proceed" \notin said[s] /\ Hear(s, "proceed")

\* A device of the peer took our call: the caller's engine comes up.
Proceed(s) ==
  /\ PeerProceeds(s)
  /\ s \in proposed
  /\ proposed' = proposed \ {s}
  /\ MarkAnswered(s)
  /\ StartEngine(s)
  /\ Emit(s, "connecting")
  /\ UNCHANGED <<incoming, tasks, told, shown, cmds, lost>>

\* The engine could not be built: logged, and the call goes on connecting.
ProceedFails(s) ==
  /\ PeerProceeds(s)
  /\ s \in proposed
  /\ proposed' = proposed \ {s}
  /\ MarkAnswered(s)
  /\ Emit(s, "connecting")
  /\ lost' = [lost EXCEPT ![s] = "unbuilt"]
  /\ UNCHANGED <<incoming, engine, pumps, tasks, told, shown, cmds>>

ProceedIgnored(s) ==
  /\ PeerProceeds(s)
  /\ s \notin proposed
  /\ UNCHANGED <<registry, history, engine, pumps, tasks, told, ui, lost>>

\* The call stays in `proposed`.
Reject(s) ==
  /\ s \in Out
  /\ "propose" \in told[s]
  /\ "reject" \notin said[s]
  /\ Hear(s, "reject")
  /\ DropEngine(s)
  /\ LogEnd(s)
  /\ Emit(s, "ended")
  /\ UNCHANGED <<registry, pumps, tasks, told, shown, cmds, lost>>

Retract(s) ==
  /\ "propose" \in said[s]
  /\ said[s] \cap {"retract", "initiate"} = {}
  /\ Hear(s, "retract")
  /\ DropEngine(s)
  /\ incoming' = incoming \ {s}
  /\ LogEnd(s)
  /\ Emit(s, "ended")
  /\ UNCHANGED <<proposed, pumps, tasks, told, shown, cmds, lost>>

\* Another device of ours accepted or rejected the call: an engine here is left alone.
OtherDevice(s) ==
  /\ "propose" \in said[s]
  /\ "handled" \notin said[s]
  /\ Hear(s, "handled")
  /\ incoming' = incoming \ {s}
  /\ LogEnd(s)
  /\ Emit(s, "ended")
  /\ UNCHANGED <<proposed, engine, pumps, tasks, told, shown, cmds, lost>>

-----------------------------------------------------------------------------
(* handle_iq: the Jingle session.                                            *)

\* session-initiate, or session-accept: its handler first decrypts the fingerprint.
Description(s) ==
  /\ said[s] \cap {"initiate", "accept", "retract", "terminate"} = {}
  /\ \/ s \in In /\ "proceed" \in told[s] /\ Hear(s, "initiate")
     \/ s \in Out /\ "initiate" \in told[s] /\ Hear(s, "accept")
  /\ iq' = [iq EXCEPT ![s] = "decrypt"]
  /\ UNCHANGED <<registry, history, engine, pumps, accepting, told, ui, lost>>

\* set_remote_description of the engine that is there by now, if any.
SetRemote(s) ==
  /\ iq[s] = "decrypt"
  /\ iq' = [iq EXCEPT ![s] = "idle"]
  /\ remote' = [remote EXCEPT ![s] = Running(s)]
  /\ UNCHANGED <<registry, history, gen, started, phase, pumps, accepting, wire, ui, lost>>

Terminate(s) ==
  /\ said[s] \cap {"proceed", "initiate"} # {}
  /\ "terminate" \notin said[s]
  /\ Hear(s, "terminate")
  /\ DropEngine(s)
  /\ LogEnd(s)
  /\ Emit(s, "ended")
  /\ UNCHANGED <<registry, pumps, tasks, told, shown, cmds, lost>>

-----------------------------------------------------------------------------
(* The engine's threads, external to the core, and its pump.                 *)

Report(s, what) == chan' = [chan EXCEPT ![s][gen[s]] = Append(@, what)]

\* The caller offers by itself, the callee answers the peer's description.
EngineDescribes(s) ==
  /\ phase[s] = "new"
  /\ s \in Out \/ remote[s]
  /\ phase' = [phase EXCEPT ![s] = "described"]
  /\ Report(s, "description")
  /\ UNCHANGED <<registry, history, gen, started, remote, pump, tasks, wire, ui, lost>>

EngineConnects(s) ==
  /\ phase[s] = "described"
  /\ remote[s]
  /\ told[s] \cap {"initiate", "accept"} # {}
  /\ phase' = [phase EXCEPT ![s] = "flowing"]
  /\ Report(s, "connected")
  /\ UNCHANGED <<registry, history, gen, started, remote, pump, tasks, wire, ui, lost>>

EngineFails(s) ==
  /\ phase[s] \in {"described", "flowing"}
  /\ remote[s]
  /\ phase' = [phase EXCEPT ![s] = "failed"]
  /\ Report(s, "failed")
  /\ UNCHANGED <<registry, history, gen, started, remote, pump, tasks, wire, ui, lost>>

Taken(s, g, what) ==
  /\ pump[s][g] = "run"
  /\ chan[s][g] # <<>>
  /\ Head(chan[s][g]) = what
  /\ chan' = [chan EXCEPT ![s][g] = Tail(@)]

\* A description is encrypted for the peer first, which may await the network ...
PumpDescription(s, g) ==
  /\ Taken(s, g, "description")
  /\ pump' = [pump EXCEPT ![s][g] = "encrypt"]
  /\ UNCHANGED <<registry, history, engine, tasks, wire, ui, lost>>

\* ... and is sent whatever became of the call.
PumpSends(s, g) ==
  /\ pump[s][g] = "encrypt"
  /\ pump' = [pump EXCEPT ![s][g] = "run"]
  /\ Tell(s, {IF s \in Out THEN "initiate" ELSE "accept"})
  /\ UNCHANGED <<registry, history, engine, chan, tasks, said, ui, lost>>

\* Connected is passed on whatever became of the call.
PumpConnected(s, g) ==
  /\ Taken(s, g, "connected")
  /\ MarkAnswered(s)
  /\ Emit(s, "active")
  /\ UNCHANGED <<registry, engine, pump, tasks, wire, shown, cmds, lost>>

\* Mutated PumpFailed: the failed call gets no row.
PumpFailedUnlogged(s, g) ==
  /\ Taken(s, g, "failed")
  /\ pump' = [pump EXCEPT ![s][g] = "off"]
  /\ DropEngine(s)
  /\ Emit(s, "ended")
  /\ lost' = [lost EXCEPT ![s] = "failed"]
  /\ UNCHANGED <<registry, history, tasks, wire, shown, cmds>>

\* Failed removes whatever engine the call has by now; the peer is not told.
PumpFailed(s, g) ==
  /\ Taken(s, g, "failed")
  /\ pump' = [pump EXCEPT ![s][g] = "off"]
  /\ DropEngine(s)
  /\ LogEnd(s)
  /\ Emit(s, "ended")
  /\ lost' = [lost EXCEPT ![s] = "failed"]
  /\ UNCHANGED <<registry, tasks, wire, shown, cmds>>

\* The engine is gone and its channel is drained: recv fails and the pump ends.
PumpEnds(s, g) ==
  /\ pump[s][g] = "run"
  /\ gen[s] # g
  /\ chan[s][g] = <<>>
  /\ pump' = [pump EXCEPT ![s][g] = "off"]
  /\ UNCHANGED <<registry, history, engine, chan, tasks, wire, ui, lost>>

-----------------------------------------------------------------------------
CommandNext(s) ==
  \/ PlaceCall(s) \/ Accept(s) \/ AcceptFails(s) \/ Decline(s) \/ HangUp(s)

PeerNext(s) ==
  \/ Propose(s) \/ Proceed(s) \/ ProceedFails(s) \/ ProceedIgnored(s) \/ Reject(s)
  \/ Retract(s) \/ OtherDevice(s) \/ Description(s) \/ SetRemote(s) \/ Terminate(s)

EngineNext(s) == EngineDescribes(s) \/ EngineConnects(s) \/ EngineFails(s)

PumpNext(s, g) ==
  \/ PumpDescription(s, g) \/ PumpSends(s, g) \/ PumpConnected(s, g) \/ PumpFailed(s, g)
  \/ PumpEnds(s, g)

Next ==
  \/ TakeUpdate \/ ClickAccept \/ ClickRed
  \/ \E s \in Calls :
       \/ CommandNext(s) \/ PeerNext(s) \/ EngineNext(s)
       \/ \E g \in Engines : PumpNext(s, g)

Spec == Init /\ [][Next]_vars
-----------------------------------------------------------------------------
(* Properties.                                                               *)

(* No call is left out of the history: one that has no row yet still rings, or has its
   engine, or its engine failed to come up and the user has yet to give up on it
   (log_call_end at every way a call can end, jingle.rs). *)
OpenCallsTracked ==
  \A s \in Calls : meta[s] # "none" => s \in proposed \cup incoming \/ Running(s) \/ lost[s] = "unbuilt"

(* However many ends one call has, our own, the peer's, another device's and the engine's,
   in any order, it is in the history once (log_call_end). *)
LoggedOnce == \A s \in Calls : Len(logged[s]) <= 1

(* An engine never outlives the task that would end it when its media fails: not even when a
   call was accepted twice and the first engine's report comes late (start_call). *)
EnginePumped == \A s \in Calls : Running(s) => pump[s][gen[s]] # "off"

(* A call is listed as missed only if no engine of ours was up for it when it ended. *)
MissedHadNoEngine ==
  [][\A s \in Calls : logged'[s] # logged[s] /\ meta[s] = "missed" => ~Running(s)]_vars

\* The peer, or one of its devices, believes the session is on.
PeerExpects(s) ==
  /\ "proceed" \in said[s] \/ "proceed" \in told[s]
  /\ said[s] \cap {"retract", "reject", "terminate"} = {}

(* A peer that took our call, or whose call we took, and did not end it itself, either has
   our engine on the other end or was told that it is over; only an engine that failed goes
   without a word (hang_up, reject, accept in jingle.rs). *)
PeerIsTold ==
  \A s \in Calls :
    PeerExpects(s) =>
      Running(s) \/ told[s] \cap {"terminate", "retract", "reject"} # {} \/ lost[s] # "no"

=============================================================================
