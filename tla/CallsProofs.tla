----------------------------- MODULE CallsProofs -----------------------------
(***************************************************************************)
(* Proofs about the 1:1 calls: type correctness, that the call history is  *)
(* complete and exact, that no engine outlives its pump, and that no peer  *)
(* that believes in a call is left without an engine or a word.            *)
(***************************************************************************)
EXTENDS Calls, TLAPS

USE CallsAssumption

-----------------------------------------------------------------------------
(* The inductive invariant.                                                  *)

\* A call whose session id nobody has used yet.
Fresh(s) == (s \in Out => told[s] = {}) /\ (s \in In => said[s] = {})

\* Nothing is known of such a call, and nothing is under way for it.
FreshIsBlank(s) ==
  Fresh(s) => /\ meta[s] = "none"
              /\ logged[s] = <<>>
              /\ gen[s] = 0
              /\ accepting[s] = 0
              /\ \A g \in Engines : pump[s][g] = "off"

\* The peer answers only what it was asked.
AnswersFollow(s) == s \in Out /\ said[s] # {} => told[s] # {}

\* The call history of one call: no row before the end, one after it.
HistoryAgrees(s) ==
  /\ meta[s] # "none" => logged[s] = <<>>
  /\ Len(logged[s]) <= 1

\* An engine is up only for a call that was answered.
EngineAnswered(s) == Running(s) => meta[s] # "missed"

\* A call we placed is dropped from `proposed` by its answer or by hanging up.
AnswerAwaited(s) ==
  s \in Out /\ "propose" \in told[s] /\ "proceed" \notin said[s] /\ s \notin proposed
    => told[s] \cap {"terminate", "retract", "reject"} # {}

CallAgrees(s) ==
  /\ FreshIsBlank(s)
  /\ AnswersFollow(s)
  /\ HistoryAgrees(s)
  /\ EngineAnswered(s)
  /\ AnswerAwaited(s)

\* What the screen shows, or is about to, is a call that began.
ScreenAgrees ==
  /\ \A i \in 1..Len(updates) : ~Fresh(updates[i].call)
  /\ shown.state # "ended" => ~Fresh(shown.call)

IInv ==
  /\ TypeOK
  /\ \A s \in Calls : CallAgrees(s)
  /\ ScreenAgrees
  /\ OpenCallsTracked
  /\ EnginePumped
  /\ PeerIsTold

-----------------------------------------------------------------------------
(* What the helpers of the handlers leave behind, type by type.              *)

(* One element more, one element less. *)
LEMMA QueueAppend ==
  ASSUME NEW S, NEW q \in Seq(S), NEW e \in S
  PROVE  /\ Append(q, e) \in Seq(S)
         /\ Len(Append(q, e)) = Len(q) + 1
         /\ \A i \in 1..Len(q) + 1 : Append(q, e)[i] = IF i = Len(q) + 1 THEN e ELSE q[i]
OBVIOUS

LEMMA QueueTail ==
  ASSUME NEW S, NEW q \in Seq(S), q # <<>>
  PROVE  /\ Tail(q) \in Seq(S)
         /\ Len(Tail(q)) = Len(q) - 1
         /\ \A i \in 1..Len(q) - 1 : Tail(q)[i] = q[i + 1]
         /\ Head(q) = q[1] /\ Len(q) \in Nat /\ Len(q) >= 1 /\ Head(q) \in S
OBVIOUS

LEMMA EmitType ==
  ASSUME TypeOK, NEW s \in Calls, NEW st \in Live \cup {"ended"}, Emit(s, st)
  PROVE  updates' \in Seq(Updates)
<1>1. [call |-> s, state |-> st] \in Updates
  BY DEF Updates
<1> QED
  BY <1>1, QueueAppend DEF Emit, TypeOK

LEMMA TellType ==
  ASSUME TypeOK, NEW s \in Calls, NEW what \in SUBSET Words, Tell(s, what)
  PROVE  told' \in [Calls -> SUBSET Words]
BY DEF Tell, TypeOK

LEMMA HearType ==
  ASSUME TypeOK, NEW s \in Calls, NEW what \in Words \cup {"handled"}, Hear(s, what)
  PROVE  said' \in [Calls -> SUBSET (Words \cup {"handled"})]
BY DEF Hear, TypeOK

LEMMA MetaType ==
  ASSUME TypeOK, NEW s \in Calls, OpenMeta(s) \/ MarkAnswered(s)
  PROVE  meta' \in [Calls -> Marks] /\ logged' \in [Calls -> Seq(Rows)]
<1>1. "missed" \in Marks /\ "answered" \in Marks
  BY DEF Marks, Rows
<1>2. meta \in [Calls -> Marks] /\ logged \in [Calls -> Seq(Rows)]
  BY DEF TypeOK
<1>3. logged' = logged
  BY DEF OpenMeta, MarkAnswered
<1>4. CASE OpenMeta(s)
  <2>1. meta' = [meta EXCEPT ![s] = "missed"]
    BY <1>4 DEF OpenMeta
  <2> QED
    BY <1>1, <1>2, <1>3, <2>1
<1>5. CASE MarkAnswered(s)
  <2>1. meta' = [meta EXCEPT ![s] = IF meta[s] = "none" THEN meta[s] ELSE "answered"]
    BY <1>5 DEF MarkAnswered
  <2>2. (IF meta[s] = "none" THEN meta[s] ELSE "answered") \in Marks
    BY <1>1, <1>2
  <2> QED
    BY <1>2, <1>3, <2>1, <2>2
<1> QED
  BY <1>4, <1>5

LEMMA LogEndType ==
  ASSUME TypeOK, NEW s \in Calls, LogEnd(s)
  PROVE  meta' \in [Calls -> Marks] /\ logged' \in [Calls -> Seq(Rows)]
<1>1. meta' \in [Calls -> Marks]
  BY DEF LogEnd, TypeOK, Marks
<1>2. CASE meta[s] = "none"
  BY <1>1, <1>2 DEF LogEnd, TypeOK
<1>3. CASE meta[s] # "none"
  <2>1. meta[s] \in Rows
    BY <1>3 DEF TypeOK, Marks
  <2>2. Append(logged[s], meta[s]) \in Seq(Rows)
    BY <2>1, QueueAppend DEF TypeOK
  <2> QED
    BY <1>1, <1>3, <2>2 DEF LogEnd, TypeOK
<1> QED
  BY <1>2, <1>3

EngineTypes ==
  /\ gen' \in [Calls -> 0..MaxEngines]
  /\ started' \in [Calls -> 0..MaxEngines]
  /\ phase' \in [Calls -> Phases]
  /\ remote' \in [Calls -> BOOLEAN]

LEMMA StartEngineType ==
  ASSUME TypeOK, NEW s \in Calls, StartEngine(s)
  PROVE  /\ EngineTypes
         /\ chan' \in [Calls -> [Engines -> Seq(Reports)]]
         /\ pump' \in [Calls -> [Engines -> PumpSteps]]
         /\ gen'[s] \in Engines
         /\ pump'[s][gen'[s]] = "run"
<1>1. started[s] + 1 \in Engines /\ started[s] + 1 \in 0..MaxEngines
  BY DEF StartEngine, TypeOK, Engines
<1>2. "new" \in Phases /\ "run" \in PumpSteps
  BY DEF Phases, PumpSteps
<1>3. pump' \in [Calls -> [Engines -> PumpSteps]] /\ pump'[s][started[s] + 1] = "run"
  BY <1>1, <1>2 DEF StartEngine, TypeOK
<1> QED
  BY <1>1, <1>2, <1>3 DEF StartEngine, TypeOK, EngineTypes

LEMMA DropEngineType ==
  ASSUME TypeOK, NEW s \in Calls, DropEngine(s)
  PROVE  EngineTypes
<1>1. 0 \in 0..MaxEngines /\ "off" \in Phases
  BY DEF Phases
<1> QED
  BY <1>1 DEF DropEngine, TypeOK, EngineTypes

LEMMA NextCommandType ==
  ASSUME TypeOK, NEW s \in Calls, NEW kind, NextCommand(kind, s)
  PROVE  cmds' \in Seq(Commands)
BY QueueTail DEF NextCommand, TypeOK

LEMMA TakenType ==
  ASSUME TypeOK, NEW s \in Calls, NEW g \in Engines, NEW what, Taken(s, g, what)
  PROVE  chan' \in [Calls -> [Engines -> Seq(Reports)]]
<1>1. Tail(chan[s][g]) \in Seq(Reports)
  BY QueueTail DEF Taken, TypeOK
<1> QED
  BY <1>1 DEF Taken, TypeOK

LEMMA ReportType ==
  ASSUME TypeOK, NEW s \in Calls, NEW what \in Reports, Report(s, what)
  PROVE  chan' \in [Calls -> [Engines -> Seq(Reports)]]
<1>1. CASE gen[s] \in Engines
  <2>1. Append(chan[s][gen[s]], what) \in Seq(Reports)
    BY <1>1, QueueAppend DEF TypeOK
  <2> QED
    BY <1>1, <2>1 DEF Report, TypeOK
<1>2. CASE gen[s] \notin Engines
  BY <1>2 DEF Report, TypeOK
<1> QED
  BY <1>1, <1>2
-----------------------------------------------------------------------------
(* Type correctness.                                                         *)

(* The words and call states the handlers use are words and call states. *)
LEMMA Vocabulary ==
  /\ \A w \in {"propose", "proceed", "reject", "retract", "initiate", "accept", "terminate"} :
       w \in Words /\ {w} \in SUBSET Words /\ w \in Words \cup {"handled"}
  /\ "handled" \in Words \cup {"handled"}
  /\ {} \in SUBSET Words
  /\ \A st \in {"incoming", "outgoing", "connecting", "active", "ended"} :
       st \in Live \cup {"ended"}
  /\ \A r \in {"description", "connected", "failed"} : r \in Reports
  /\ \A p \in {"off", "run", "encrypt"} : p \in PumpSteps
  /\ \A l \in {"no", "unbuilt", "failed"} : l \in Losses
  /\ \A f \in {"off", "new", "described", "flowing", "failed"} : f \in Phases
BY DEF Words, Live, Reports, PumpSteps, Losses, Phases

LEMMA InitTypeOK == Init => TypeOK
<1> SUFFICES ASSUME Init PROVE TypeOK
  OBVIOUS
<1>1. shown \in Updates \cup {Blank} /\ updates \in Seq(Updates) /\ cmds \in Seq(Commands)
  BY DEF Init
<1>2. meta \in [Calls -> Marks] /\ logged \in [Calls -> Seq(Rows)]
  BY DEF Init, Marks
<1>3. /\ chan \in [Calls -> [Engines -> Seq(Reports)]]
      /\ pump \in [Calls -> [Engines -> PumpSteps]]
  BY Vocabulary DEF Init
<1> QED
  BY <1>1, <1>2, <1>3, Vocabulary DEF Init, TypeOK

(* The screen and its buttons. *)
LEMMA ScreenTypeOK ==
  ASSUME TypeOK, TakeUpdate \/ ClickAccept \/ ClickRed
  PROVE  TypeOK'
<1> USE DEF TypeOK, registry, history, engine, pumps, tasks, wire, ui
<1>1. CASE TakeUpdate
  <2>1. shown' \in Updates \cup {Blank} /\ updates' \in Seq(Updates)
    BY <1>1, QueueTail DEF TakeUpdate
  <2> QED
    BY <1>1, <2>1 DEF TakeUpdate
<1>2. CASE ClickAccept
  <2>1. shown.call \in Calls
    BY <1>2 DEF ClickAccept, Blank, Updates
  <2>2. accepting' \in [Calls -> 0..MaxEngines]
    BY <1>2, <2>1 DEF ClickAccept
  <2> QED
    BY <1>2, <2>2 DEF ClickAccept
<1>3. CASE ClickRed
  <2>1. shown.call \in Calls
    BY <1>3 DEF ClickRed, Blank, Updates
  <2>2. cmds' \in Seq(Commands)
    <3>1. \A k \in {"decline", "cancel"} : [kind |-> k, call |-> shown.call] \in Commands
      BY <2>1 DEF Commands
    <3> QED
      BY <1>3, <3>1, QueueAppend DEF ClickRed, Command
  <2> QED
    BY <1>3, <2>2 DEF ClickRed
<1> QED
  BY <1>1, <1>2, <1>3

(* Commands in the core. *)
LEMMA CommandTypeOK ==
  ASSUME TypeOK, NEW s \in Calls, CommandNext(s)
  PROVE  TypeOK'
<1> USE DEF registry, history, engine, pumps, tasks, wire, ui
<1>1. CASE PlaceCall(s)
  <2>1. updates' \in Seq(Updates)
    BY <1>1, EmitType, Vocabulary DEF PlaceCall
  <2>2. told' \in [Calls -> SUBSET Words]
    BY <1>1, TellType, Vocabulary DEF PlaceCall
  <2> QED
    BY <1>1, <2>1, <2>2, MetaType DEF PlaceCall, TypeOK
<1>2. CASE Accept(s)
  <2>1. told' \in [Calls -> SUBSET Words]
    BY <1>2, TellType, Vocabulary DEF Accept
  <2>2. accepting' \in [Calls -> 0..MaxEngines]
    BY <1>2 DEF Accept, TypeOK
  <2> QED
    BY <1>2, <2>1, <2>2, MetaType, StartEngineType DEF Accept, TypeOK, EngineTypes
<1>3. CASE AcceptFails(s)
  <2>1. accepting' \in [Calls -> 0..MaxEngines]
    BY <1>3 DEF AcceptFails, TypeOK
  <2> QED
    BY <1>3, <2>1, MetaType, Vocabulary DEF AcceptFails, TypeOK
<1>4. CASE Decline(s)
  <2>1. told' \in [Calls -> SUBSET Words]
    BY <1>4, TellType, Vocabulary DEF Decline
  <2>2. cmds' \in Seq(Commands)
    BY <1>4, NextCommandType DEF Decline
  <2> QED
    BY <1>4, <2>1, <2>2, LogEndType DEF Decline, TypeOK
<1>5. CASE HangUp(s)
  <2>1. told' \in [Calls -> SUBSET Words]
    BY <1>5, TellType, Vocabulary DEF HangUp
  <2>2. cmds' \in Seq(Commands)
    BY <1>5, NextCommandType DEF HangUp
  <2> QED
    BY <1>5, <2>1, <2>2, LogEndType, DropEngineType DEF HangUp, TypeOK, EngineTypes
<1> QED
  BY <1>1, <1>2, <1>3, <1>4, <1>5 DEF CommandNext

(* What the peer and our other devices send. *)
LEMMA PeerTypeOK ==
  ASSUME TypeOK, NEW s \in Calls, PeerNext(s)
  PROVE  TypeOK'
<1> USE DEF registry, history, engine, pumps, tasks, wire, ui
<1>1. CASE Propose(s)
  <2>1. updates' \in Seq(Updates)
    BY <1>1, EmitType, Vocabulary DEF Propose
  <2>2. said' \in [Calls -> SUBSET (Words \cup {"handled"})]
    BY <1>1, HearType, Vocabulary DEF Propose
  <2> QED
    BY <1>1, <2>1, <2>2, MetaType DEF Propose, TypeOK
<1>2. CASE Proceed(s)
  <2>1. updates' \in Seq(Updates)
    BY <1>2, EmitType, Vocabulary DEF Proceed
  <2>2. said' \in [Calls -> SUBSET (Words \cup {"handled"})]
    BY <1>2, HearType, Vocabulary DEF Proceed, PeerProceeds
  <2> QED
    BY <1>2, <2>1, <2>2, MetaType, StartEngineType DEF Proceed, TypeOK, EngineTypes
<1>3. CASE ProceedFails(s)
  <2>1. updates' \in Seq(Updates)
    BY <1>3, EmitType, Vocabulary DEF ProceedFails
  <2>2. said' \in [Calls -> SUBSET (Words \cup {"handled"})]
    BY <1>3, HearType, Vocabulary DEF ProceedFails, PeerProceeds
  <2> QED
    BY <1>3, <2>1, <2>2, MetaType, Vocabulary DEF ProceedFails, TypeOK
<1>4. CASE ProceedIgnored(s)
  <2>1. said' \in [Calls -> SUBSET (Words \cup {"handled"})]
    BY <1>4, HearType, Vocabulary DEF ProceedIgnored, PeerProceeds
  <2> QED
    BY <1>4, <2>1 DEF ProceedIgnored, TypeOK
<1>5. CASE Reject(s)
  <2>1. updates' \in Seq(Updates)
    BY <1>5, EmitType, Vocabulary DEF Reject
  <2>2. said' \in [Calls -> SUBSET (Words \cup {"handled"})]
    BY <1>5, HearType, Vocabulary DEF Reject
  <2> QED
    BY <1>5, <2>1, <2>2, LogEndType, DropEngineType DEF Reject, TypeOK, EngineTypes
<1>6. CASE Retract(s)
  <2>1. updates' \in Seq(Updates)
    BY <1>6, EmitType, Vocabulary DEF Retract
  <2>2. said' \in [Calls -> SUBSET (Words \cup {"handled"})]
    BY <1>6, HearType, Vocabulary DEF Retract
  <2> QED
    BY <1>6, <2>1, <2>2, LogEndType, DropEngineType DEF Retract, TypeOK, EngineTypes
<1>7. CASE OtherDevice(s)
  <2>1. updates' \in Seq(Updates)
    BY <1>7, EmitType, Vocabulary DEF OtherDevice
  <2>2. said' \in [Calls -> SUBSET (Words \cup {"handled"})]
    BY <1>7, HearType, Vocabulary DEF OtherDevice
  <2> QED
    BY <1>7, <2>1, <2>2, LogEndType DEF OtherDevice, TypeOK
<1>8. CASE Description(s)
  <2>1. said' \in [Calls -> SUBSET (Words \cup {"handled"})]
    BY <1>8, HearType, Vocabulary DEF Description
  <2> QED
    BY <1>8, <2>1 DEF Description, TypeOK
<1>9. CASE SetRemote(s)
  <2>1. remote' \in [Calls -> BOOLEAN]
    BY <1>9 DEF SetRemote, TypeOK, Running
  <2> QED
    BY <1>9, <2>1 DEF SetRemote, TypeOK
<1>10. CASE Terminate(s)
  <2>1. updates' \in Seq(Updates)
    BY <1>10, EmitType, Vocabulary DEF Terminate
  <2>2. said' \in [Calls -> SUBSET (Words \cup {"handled"})]
    BY <1>10, HearType, Vocabulary DEF Terminate
  <2> QED
    BY <1>10, <2>1, <2>2, LogEndType, DropEngineType DEF Terminate, TypeOK, EngineTypes
<1> QED
  BY <1>1, <1>2, <1>3, <1>4, <1>5, <1>6, <1>7, <1>8, <1>9, <1>10 DEF PeerNext

(* The engine's threads and its pump. *)
LEMMA EngineTypeOK ==
  ASSUME TypeOK, NEW s \in Calls, EngineNext(s)
  PROVE  TypeOK'
<1> USE DEF registry, history, engine, pumps, tasks, wire, ui
<1>1. CASE EngineDescribes(s)
  BY <1>1, ReportType, Vocabulary DEF EngineDescribes, TypeOK
<1>2. CASE EngineConnects(s)
  BY <1>2, ReportType, Vocabulary DEF EngineConnects, TypeOK
<1>3. CASE EngineFails(s)
  BY <1>3, ReportType, Vocabulary DEF EngineFails, TypeOK
<1> QED
  BY <1>1, <1>2, <1>3 DEF EngineNext

LEMMA PumpTypeOK ==
  ASSUME TypeOK, NEW s \in Calls, NEW g \in Engines, PumpNext(s, g)
  PROVE  TypeOK'
<1> USE DEF registry, history, engine, pumps, tasks, wire, ui
<1>0. \A st \in PumpSteps : [pump EXCEPT ![s][g] = st] \in [Calls -> [Engines -> PumpSteps]]
  BY DEF TypeOK
<1>1. CASE PumpDescription(s, g)
  BY <1>0, <1>1, TakenType, Vocabulary DEF PumpDescription, TypeOK
<1>2. CASE PumpSends(s, g)
  <2>1. told' \in [Calls -> SUBSET Words]
    BY <1>2, TellType, Vocabulary DEF PumpSends
  <2> QED
    BY <1>0, <1>2, <2>1, Vocabulary DEF PumpSends, TypeOK
<1>3. CASE PumpConnected(s, g)
  <2>1. updates' \in Seq(Updates)
    BY <1>3, EmitType, Vocabulary DEF PumpConnected
  <2> QED
    BY <1>3, <2>1, TakenType, MetaType DEF PumpConnected, TypeOK
<1>4. CASE PumpFailed(s, g)
  <2>1. updates' \in Seq(Updates)
    BY <1>4, EmitType, Vocabulary DEF PumpFailed
  <2>2. lost' \in [Calls -> Losses]
    BY <1>4, Vocabulary DEF PumpFailed, TypeOK
  <2> QED
    BY <1>0, <1>4, <2>1, <2>2, TakenType, LogEndType, DropEngineType, Vocabulary
    DEF PumpFailed, TypeOK, EngineTypes
<1>5. CASE PumpEnds(s, g)
  BY <1>0, <1>5, Vocabulary DEF PumpEnds, TypeOK
<1> QED
  BY <1>1, <1>2, <1>3, <1>4, <1>5 DEF PumpNext

LEMMA NextTypeOK ==
  ASSUME TypeOK, [Next]_vars
  PROVE  TypeOK'
<1>1. CASE Next
  BY <1>1, ScreenTypeOK, CommandTypeOK, PeerTypeOK, EngineTypeOK, PumpTypeOK DEF Next
<1>2. CASE UNCHANGED vars
  BY <1>2 DEF vars, TypeOK
<1> QED
  BY <1>1, <1>2

(* The variables keep to their types: what a queue, a registry or a history of a call can
   hold, and how many engines it is given (the types of Calls in jingle.rs). *)
THEOREM TypeCorrect == Spec => []TypeOK
<1>1. Init => TypeOK
  BY InitTypeOK
<1>2. TypeOK /\ [Next]_vars => TypeOK'
  BY NextTypeOK
<1> QED
  BY <1>1, <1>2, PTL DEF Spec
-----------------------------------------------------------------------------
(* A call that has begun stays begun, and so does one that was answered.     *)

LEMMA TellGrows ==
  ASSUME TypeOK, NEW s \in Calls, NEW what, Tell(s, what)
  PROVE  /\ told'[s] = told[s] \cup what
         /\ \A t \in Calls : told[t] \subseteq told'[t] /\ (t # s => told'[t] = told[t])
BY DEF Tell, TypeOK

LEMMA HearGrows ==
  ASSUME TypeOK, NEW s \in Calls, NEW what, Hear(s, what)
  PROVE  /\ said'[s] = said[s] \cup {what}
         /\ \A t \in Calls : said[t] \subseteq said'[t] /\ (t # s => said'[t] = said[t])
BY DEF Hear, TypeOK

LEMMA FreshShrinks ==
  ASSUME TypeOK, [Next]_vars, NEW t \in Calls, Fresh(t)'
  PROVE  Fresh(t)
<1>1. told[t] \subseteq told'[t] /\ said[t] \subseteq said'[t]
  <2> USE TellGrows, HearGrows DEF wire
  <2>1. CASE TakeUpdate \/ ClickAccept \/ ClickRed
    BY <2>1 DEF TakeUpdate, ClickAccept, ClickRed
  <2>2. ASSUME NEW s \in Calls, CommandNext(s)
        PROVE  told[t] \subseteq told'[t] /\ said[t] \subseteq said'[t]
    BY <2>2 DEF CommandNext, PlaceCall, Accept, AcceptFails, Decline, HangUp
  <2>3. ASSUME NEW s \in Calls, PeerNext(s)
        PROVE  told[t] \subseteq told'[t] /\ said[t] \subseteq said'[t]
    BY <2>3 DEF PeerNext, Propose, Proceed, ProceedFails, ProceedIgnored, PeerProceeds, Reject,
       Retract, OtherDevice, Description, SetRemote, Terminate
  <2>4. ASSUME NEW s \in Calls, EngineNext(s)
        PROVE  told[t] \subseteq told'[t] /\ said[t] \subseteq said'[t]
    BY <2>4 DEF EngineNext, EngineDescribes, EngineConnects, EngineFails
  <2>5. ASSUME NEW s \in Calls, NEW g \in Engines, PumpNext(s, g)
        PROVE  told[t] \subseteq told'[t] /\ said[t] \subseteq said'[t]
    BY <2>5 DEF PumpNext, PumpDescription, PumpSends, PumpConnected, PumpFailed, PumpEnds
  <2>6. CASE UNCHANGED vars
    BY <2>6 DEF vars
  <2> QED
    BY <2>1, <2>2, <2>3, <2>4, <2>5, <2>6 DEF Next
<1> QED
  BY <1>1 DEF Fresh
(* A fresh call that is placed or proposed is fresh no longer, and had no trace. *)
LEMMA OpenedWasFresh ==
  ASSUME IInv, NEW s \in Calls, PlaceCall(s) \/ Propose(s)
  PROVE  /\ Fresh(s) /\ ~Fresh(s)'
         /\ meta[s] = "none" /\ logged[s] = <<>> /\ gen[s] = 0
<1>1. Fresh(s) /\ ~Fresh(s)'
  BY TellGrows, HearGrows, CallsAssumption DEF IInv, PlaceCall, Propose, Fresh
<1> QED
  BY <1>1 DEF IInv, CallAgrees, FreshIsBlank

-----------------------------------------------------------------------------
(* The call history.                                                         *)

HistoryOK == \A t \in Calls : HistoryAgrees(t)

LEMMA OpenMetaKeepsHistory ==
  ASSUME TypeOK, HistoryOK, NEW s \in Calls, logged[s] = <<>>, OpenMeta(s)
  PROVE  HistoryOK'
BY DEF TypeOK, HistoryOK, HistoryAgrees, OpenMeta

LEMMA MarkKeepsHistory ==
  ASSUME TypeOK, HistoryOK, NEW s \in Calls, MarkAnswered(s)
  PROVE  HistoryOK'
BY DEF TypeOK, HistoryOK, HistoryAgrees, MarkAnswered

LEMMA LogEndKeepsHistory ==
  ASSUME TypeOK, HistoryOK, NEW s \in Calls, LogEnd(s)
  PROVE  HistoryOK'
<1>1. CASE meta[s] = "none"
  BY <1>1 DEF TypeOK, HistoryOK, HistoryAgrees, LogEnd
<1>2. CASE meta[s] # "none"
  <2>1. logged[s] = <<>> /\ logged'[s] = Append(<<>>, meta[s]) /\ meta'[s] = "none"
    BY <1>2 DEF TypeOK, HistoryOK, HistoryAgrees, LogEnd
  <2>2. Len(logged'[s]) <= 1
    BY <2>1
  <2>3. \A t \in Calls : t # s => logged'[t] = logged[t] /\ meta'[t] = meta[t]
    BY DEF LogEnd, TypeOK
  <2> QED
    BY <2>1, <2>2, <2>3 DEF HistoryOK, HistoryAgrees
<1> QED
  BY <1>1, <1>2

LEMMA HistoryNext ==
  ASSUME IInv, [Next]_vars
  PROVE  HistoryOK'
<1>0. TypeOK /\ HistoryOK
  BY DEF IInv, CallAgrees, HistoryOK
<1> USE <1>0 DEF registry, history, engine, pumps, tasks, wire, ui
<1>1. CASE UNCHANGED history
  BY <1>1 DEF HistoryOK, HistoryAgrees
<1>2. CASE TakeUpdate \/ ClickAccept \/ ClickRed \/ UNCHANGED vars
  BY <1>1, <1>2 DEF TakeUpdate, ClickAccept, ClickRed, vars
<1>3. ASSUME NEW s \in Calls, CommandNext(s)
      PROVE  HistoryOK'
  BY <1>3, OpenedWasFresh, OpenMetaKeepsHistory, MarkKeepsHistory, LogEndKeepsHistory
  DEF CommandNext, PlaceCall, Accept, AcceptFails, Decline, HangUp
<1>4. ASSUME NEW s \in Calls, PeerNext(s)
      PROVE  HistoryOK'
  BY <1>1, <1>4, OpenedWasFresh, OpenMetaKeepsHistory, MarkKeepsHistory, LogEndKeepsHistory
  DEF PeerNext, Propose, Proceed, ProceedFails, ProceedIgnored, Reject, Retract, OtherDevice,
      Description, SetRemote, Terminate
<1>5. ASSUME NEW s \in Calls, EngineNext(s)
      PROVE  HistoryOK'
  BY <1>1, <1>5 DEF EngineNext, EngineDescribes, EngineConnects, EngineFails
<1>6. ASSUME NEW s \in Calls, NEW g \in Engines, PumpNext(s, g)
      PROVE  HistoryOK'
  BY <1>1, <1>6, MarkKeepsHistory, LogEndKeepsHistory
  DEF PumpNext, PumpDescription, PumpSends, PumpConnected, PumpFailed, PumpEnds
<1> QED
  BY <1>2, <1>3, <1>4, <1>5, <1>6 DEF Next
-----------------------------------------------------------------------------
(* Engines: which calls have one, and what else is known of those.           *)

LEMMA StartedEngine ==
  ASSUME TypeOK, NEW s \in Calls, StartEngine(s)
  PROVE  /\ Running(s)' /\ gen'[s] \in Engines /\ pump'[s][gen'[s]] = "run"
         /\ \A t \in Calls : t # s => gen'[t] = gen[t] /\ pump'[t] = pump[t]
         /\ \A g \in Engines : pump[s][g] # "off" => pump'[s][g] # "off"
<1>1. started[s] + 1 \in Engines
  BY DEF StartEngine, TypeOK, Engines
<1>2. gen'[s] = started[s] + 1
  BY DEF StartEngine, TypeOK
<1>3. /\ \A t \in Calls : t # s => gen'[t] = gen[t] /\ pump'[t] = pump[t]
      /\ \A g \in Engines : pump[s][g] # "off" => pump'[s][g] # "off"
  BY DEF StartEngine, TypeOK
<1> QED
  BY <1>1, <1>2, <1>3, StartEngineType DEF Running, Engines

LEMMA DroppedEngine ==
  ASSUME TypeOK, NEW s \in Calls, DropEngine(s)
  PROVE  /\ ~Running(s)' /\ gen'[s] = 0
         /\ \A t \in Calls : t # s => gen'[t] = gen[t]
BY DEF DropEngine, TypeOK, Running

LEMMA EndedCall ==
  ASSUME TypeOK, NEW s \in Calls, LogEnd(s)
  PROVE  /\ meta'[s] = "none"
         /\ \A t \in Calls : t # s => meta'[t] = meta[t] /\ logged'[t] = logged[t]
BY DEF LogEnd, TypeOK

LEMMA MarkedCall ==
  ASSUME TypeOK, NEW s \in Calls, MarkAnswered(s)
  PROVE  /\ meta'[s] \in {"none", "answered"} /\ (meta[s] = "none" <=> meta'[s] = "none")
         /\ logged' = logged
         /\ \A t \in Calls : t # s => meta'[t] = meta[t]
BY DEF MarkAnswered, TypeOK

LEMMA OpenedCall ==
  ASSUME TypeOK, NEW s \in Calls, OpenMeta(s)
  PROVE  /\ meta'[s] = "missed" /\ logged' = logged
         /\ \A t \in Calls : t # s => meta'[t] = meta[t]
BY DEF OpenMeta, TypeOK

AnsweredOK == \A t \in Calls : EngineAnswered(t)

(* An engine is never up for a call the history still has as missed. *)
LEMMA AnsweredNext ==
  ASSUME IInv, [Next]_vars
  PROVE  AnsweredOK'
<1>0. TypeOK /\ AnsweredOK
  BY DEF IInv, CallAgrees, AnsweredOK
<1> USE <1>0 DEF registry, history, engine, pumps, tasks, wire, ui
<1>1. CASE UNCHANGED <<meta, gen>>
  BY <1>1 DEF AnsweredOK, EngineAnswered, Running
<1>2. CASE TakeUpdate \/ ClickAccept \/ ClickRed \/ UNCHANGED vars
  BY <1>1, <1>2 DEF TakeUpdate, ClickAccept, ClickRed, vars
<1>3. ASSUME NEW s \in Calls, PlaceCall(s) \/ Propose(s)
      PROVE  AnsweredOK'
  BY <1>3, OpenedWasFresh, OpenedCall DEF PlaceCall, Propose, AnsweredOK, EngineAnswered, Running
<1>4. ASSUME NEW s \in Calls, MarkAnswered(s), StartEngine(s) \/ UNCHANGED gen
      PROVE  AnsweredOK'
  BY <1>4, MarkedCall, StartedEngine DEF AnsweredOK, EngineAnswered, Running
<1>5. ASSUME NEW s \in Calls, LogEnd(s), DropEngine(s) \/ UNCHANGED gen
      PROVE  AnsweredOK'
  BY <1>5, EndedCall, DroppedEngine DEF AnsweredOK, EngineAnswered, Running
<1>6. ASSUME NEW s \in Calls, CommandNext(s)
      PROVE  AnsweredOK'
  BY <1>3, <1>4, <1>5, <1>6 DEF CommandNext, Accept, AcceptFails, Decline, HangUp
<1>7. ASSUME NEW s \in Calls, PeerNext(s)
      PROVE  AnsweredOK'
  BY <1>1, <1>3, <1>4, <1>5, <1>7
  DEF PeerNext, Proceed, ProceedFails, ProceedIgnored, Reject, Retract, OtherDevice,
      Description, SetRemote, Terminate
<1>8. ASSUME NEW s \in Calls, EngineNext(s)
      PROVE  AnsweredOK'
  BY <1>1, <1>8 DEF EngineNext, EngineDescribes, EngineConnects, EngineFails
<1>9. ASSUME NEW s \in Calls, NEW g \in Engines, PumpNext(s, g)
      PROVE  AnsweredOK'
  BY <1>1, <1>4, <1>5, <1>9
  DEF PumpNext, PumpDescription, PumpSends, PumpConnected, PumpFailed, PumpEnds
<1> QED
  BY <1>2, <1>6, <1>7, <1>8, <1>9 DEF Next

(* A call without a row keeps something that will write it. *)
LEMMA TrackedNext ==
  ASSUME IInv, [Next]_vars
  PROVE  OpenCallsTracked'
<1>0. TypeOK /\ OpenCallsTracked
  BY DEF IInv
<1> USE <1>0 DEF registry, history, engine, pumps, tasks, wire, ui
<1>1. CASE UNCHANGED <<meta, gen, proposed, incoming, lost>>
  BY <1>1 DEF OpenCallsTracked, Running
<1>2. CASE TakeUpdate \/ ClickAccept \/ ClickRed \/ UNCHANGED vars
  BY <1>1, <1>2 DEF TakeUpdate, ClickAccept, ClickRed, vars
<1>3. ASSUME NEW s \in Calls, PlaceCall(s) \/ Propose(s)
      PROVE  OpenCallsTracked'
  BY <1>3, OpenedCall DEF PlaceCall, Propose, OpenCallsTracked, Running
<1>4. ASSUME NEW s \in Calls, Accept(s) \/ Proceed(s)
      PROVE  OpenCallsTracked'
  BY <1>4, MarkedCall, StartedEngine DEF Accept, Proceed, OpenCallsTracked, Running
<1>5. ASSUME NEW s \in Calls, AcceptFails(s) \/ ProceedFails(s)
      PROVE  OpenCallsTracked'
  <2>1. lost'[s] = "unbuilt" /\ \A t \in Calls : t # s => lost'[t] = lost[t]
    BY <1>5 DEF AcceptFails, ProceedFails, TypeOK
  <2> QED
    BY <1>5, <2>1, MarkedCall DEF AcceptFails, ProceedFails, OpenCallsTracked, Running
<1>6. ASSUME NEW s \in Calls, LogEnd(s), DropEngine(s) \/ UNCHANGED gen,
             \A t \in Calls : t # s => lost'[t] = lost[t],
             proposed \ {s} \subseteq proposed', incoming \ {s} \subseteq incoming'
      PROVE  OpenCallsTracked'
  BY <1>6, EndedCall, DroppedEngine DEF OpenCallsTracked, Running
<1>7. ASSUME NEW s \in Calls, CommandNext(s)
      PROVE  OpenCallsTracked'
  BY <1>3, <1>4, <1>5, <1>6, <1>7 DEF CommandNext, Decline, HangUp
<1>8. ASSUME NEW s \in Calls, PeerNext(s)
      PROVE  OpenCallsTracked'
  BY <1>1, <1>3, <1>4, <1>5, <1>6, <1>8
  DEF PeerNext, ProceedIgnored, Reject, Retract, OtherDevice, Description, SetRemote, Terminate
<1>9. ASSUME NEW s \in Calls, EngineNext(s)
      PROVE  OpenCallsTracked'
  BY <1>1, <1>9 DEF EngineNext, EngineDescribes, EngineConnects, EngineFails
<1>10. ASSUME NEW s \in Calls, NEW g \in Engines, PumpNext(s, g)
       PROVE  OpenCallsTracked'
  <2>1. CASE PumpConnected(s, g)
    BY <2>1, MarkedCall DEF PumpConnected, OpenCallsTracked, Running
  <2>2. CASE PumpFailed(s, g)
    <3>1. \A t \in Calls : t # s => lost'[t] = lost[t]
      BY <2>2 DEF PumpFailed, TypeOK
    <3> QED
      BY <2>2, <3>1, <1>6 DEF PumpFailed
  <2> QED
    BY <1>1, <1>10, <2>1, <2>2 DEF PumpNext, PumpDescription, PumpSends, PumpEnds
<1> QED
  BY <1>2, <1>7, <1>8, <1>9, <1>10 DEF Next

(* The pump of the engine in `active` runs. *)
LEMMA PumpedNext ==
  ASSUME IInv, [Next]_vars
  PROVE  EnginePumped'
<1>0. TypeOK /\ EnginePumped
  BY DEF IInv
<1> USE <1>0 DEF registry, history, engine, pumps, tasks, wire, ui
<1>1. CASE UNCHANGED <<gen, pump>>
  BY <1>1 DEF EnginePumped, Running
<1>2. CASE TakeUpdate \/ ClickAccept \/ ClickRed \/ UNCHANGED vars
  BY <1>1, <1>2 DEF TakeUpdate, ClickAccept, ClickRed, vars
<1>3. ASSUME NEW s \in Calls, StartEngine(s)
      PROVE  EnginePumped'
  BY <1>3, StartedEngine DEF EnginePumped, Running
<1>4. ASSUME NEW s \in Calls, DropEngine(s), UNCHANGED pump
      PROVE  EnginePumped'
  BY <1>4, DroppedEngine DEF EnginePumped, Running
<1>5. ASSUME NEW s \in Calls, CommandNext(s)
      PROVE  EnginePumped'
  BY <1>1, <1>3, <1>4, <1>5 DEF CommandNext, PlaceCall, Accept, AcceptFails, Decline, HangUp
<1>6. ASSUME NEW s \in Calls, PeerNext(s)
      PROVE  EnginePumped'
  BY <1>1, <1>3, <1>4, <1>6
  DEF PeerNext, Propose, Proceed, ProceedFails, ProceedIgnored, Reject, Retract, OtherDevice,
      Description, SetRemote, Terminate
<1>7. ASSUME NEW s \in Calls, EngineNext(s)
      PROVE  EnginePumped'
  BY <1>1, <1>7 DEF EngineNext, EngineDescribes, EngineConnects, EngineFails
<1>8. ASSUME NEW s \in Calls, NEW g \in Engines, PumpNext(s, g)
      PROVE  EnginePumped'
  <2>0. \A t \in Calls, h \in Engines : <<t, h>> # <<s, g>> =>
          \A st : [pump EXCEPT ![s][g] = st][t][h] = pump[t][h]
    BY DEF TypeOK
  <2>1. \A st : [pump EXCEPT ![s][g] = st][s][g] = st
    BY DEF TypeOK
  <2>2. \A t \in Calls : gen[t] # 0 => gen[t] \in Engines
    BY DEF TypeOK, Engines
  <2>3. CASE PumpDescription(s, g)
    BY <2>0, <2>1, <2>2, <2>3 DEF PumpDescription, EnginePumped, Running
  <2>4. CASE PumpSends(s, g)
    BY <2>0, <2>1, <2>2, <2>4 DEF PumpSends, EnginePumped, Running
  <2>5. CASE PumpConnected(s, g)
    BY <1>1, <2>5 DEF PumpConnected, Taken
  <2>6. CASE PumpFailed(s, g)
    BY <2>0, <2>2, <2>6, DroppedEngine DEF PumpFailed, EnginePumped, Running
  <2>7. CASE PumpEnds(s, g)
    BY <2>0, <2>2, <2>7 DEF PumpEnds, EnginePumped, Running
  <2> QED
    BY <1>8, <2>3, <2>4, <2>5, <2>6, <2>7 DEF PumpNext
<1> QED
  BY <1>2, <1>5, <1>6, <1>7, <1>8 DEF Next
-----------------------------------------------------------------------------
(* Fresh calls and the screen.                                               *)

LEMMA QueuedCalls ==
  ASSUME TypeOK
  PROVE  \A i \in 1..Len(updates) : updates[i].call \in Calls
<1>1. \A i \in 1..Len(updates) : updates[i] \in Updates
  BY DEF TypeOK
<1> QED
  BY <1>1 DEF Updates

(* What goes to the screen is about a call that has begun. *)
LEMMA EmitAgrees ==
  ASSUME TypeOK, ScreenAgrees, [Next]_vars, NEW s \in Calls, NEW st \in Live \cup {"ended"},
         Emit(s, st), UNCHANGED shown, ~Fresh(s)'
  PROVE  ScreenAgrees'
<1>1. [call |-> s, state |-> st] \in Updates
  BY DEF Updates
<1>2. /\ Len(updates') = Len(updates) + 1
      /\ \A i \in 1..Len(updates) + 1 :
           updates'[i] = IF i = Len(updates) + 1 THEN [call |-> s, state |-> st] ELSE updates[i]
  BY <1>1, QueueAppend DEF Emit, TypeOK
<1>3. \A i \in 1..Len(updates) : updates[i].call \in Calls
  BY QueuedCalls
<1>4. shown.state # "ended" => shown.call \in Calls
  BY DEF TypeOK, Updates, Blank
<1>5. \A t \in Calls : ~Fresh(t) => ~Fresh(t)'
  BY FreshShrinks
<1>6. Len(updates) \in Nat
  BY DEF TypeOK
<1>7. ASSUME NEW i \in 1..Len(updates')
      PROVE  ~Fresh(updates[i].call)'
  <2>1. CASE i = Len(updates) + 1
    <3>1. updates'[i].call = s
      BY <2>1, <1>2
    <3> QED
      BY <3>1 DEF Fresh
  <2>2. CASE i # Len(updates) + 1
    <3>1. i \in 1..Len(updates) /\ updates'[i] = updates[i]
      BY <2>2, <1>2, <1>6, <1>7
    <3>2. ~Fresh(updates[i].call) /\ updates[i].call \in Calls
      BY <3>1, <1>3 DEF ScreenAgrees
    <3> QED
      BY <3>1, <3>2, <1>5 DEF Fresh
  <2> QED
    BY <2>1, <2>2
<1>8. shown.state # "ended" => ~Fresh(shown.call)'
  BY <1>4, <1>5 DEF ScreenAgrees, Fresh
<1> QED
  BY <1>7, <1>8 DEF ScreenAgrees, Fresh

LEMMA ScreenNext ==
  ASSUME IInv, [Next]_vars
  PROVE  ScreenAgrees'
<1>0. TypeOK /\ ScreenAgrees /\ \A t \in Calls : CallAgrees(t)
  BY DEF IInv
<1> USE <1>0 DEF registry, history, engine, pumps, tasks, wire, ui
<1>a. \A i \in 1..Len(updates) : updates[i].call \in Calls
  BY QueuedCalls
<1>c. \A t \in Calls : ~Fresh(t) => ~Fresh(t)'
  BY FreshShrinks
<1>b. shown.state # "ended" => shown.call \in Calls
  BY DEF TypeOK, Updates, Blank
<1>1. CASE UNCHANGED <<updates, shown>>
  BY <1>1, <1>a, <1>b, <1>c DEF ScreenAgrees, Fresh
<1>2. CASE TakeUpdate
  <2>1. /\ Len(updates') = Len(updates) - 1 /\ Len(updates) \in Nat /\ Len(updates) >= 1
        /\ \A i \in 1..Len(updates) - 1 : updates'[i] = updates[i + 1]
        /\ shown' = Blank \/ shown' = updates[1]
    BY <1>2, QueueTail DEF TakeUpdate, TypeOK
  <2>2. ASSUME NEW i \in 1..Len(updates')
        PROVE  ~Fresh(updates[i].call)'
    <3>1. i + 1 \in 1..Len(updates) /\ updates'[i] = updates[i + 1]
      BY <2>1, <2>2
    <3>2. ~Fresh(updates[i + 1].call) /\ updates[i + 1].call \in Calls
      BY <3>1, <1>a DEF ScreenAgrees
    <3> QED
      BY <3>1, <3>2, <1>c DEF Fresh
  <2>3. (shown.state # "ended" => ~Fresh(shown.call))'
    <3>1. 1 \in 1..Len(updates)
      BY <2>1
    <3>2. ~Fresh(updates[1].call) /\ updates[1].call \in Calls
      BY <3>1, <1>a DEF ScreenAgrees
    <3>3. CASE shown' = Blank
      BY <3>3 DEF Blank
    <3>4. CASE shown' = updates[1]
      BY <3>4, <3>2, <1>c DEF Fresh
    <3> QED
      BY <2>1, <3>3, <3>4
  <2> QED
    BY <2>2, <2>3 DEF ScreenAgrees, Fresh
<1>3. CASE ClickRed
  <2>1. updates' = updates /\ shown'.state = "ended"
    BY <1>3 DEF ClickRed, Blank
  <2> QED
    BY <2>1, <1>a, <1>c DEF ScreenAgrees, Fresh
<1>4. CASE ClickAccept \/ UNCHANGED vars
  BY <1>1, <1>4 DEF ClickAccept, vars
<1>5. ASSUME NEW s \in Calls, CommandNext(s)
      PROVE  ScreenAgrees'
  BY <1>1, <1>5, EmitAgrees, OpenedWasFresh, Vocabulary
  DEF CommandNext, PlaceCall, Accept, AcceptFails, Decline, HangUp
<1>6. ASSUME NEW s \in Calls, PeerNext(s)
      PROVE  ScreenAgrees'
  <2>1. CASE Propose(s)
    BY <2>1, EmitAgrees, OpenedWasFresh, Vocabulary DEF Propose
  <2>2. CASE Proceed(s) \/ ProceedFails(s) \/ Reject(s)
    <3>1. ~Fresh(s)
      BY <2>2 DEF Proceed, ProceedFails, Reject, PeerProceeds, Fresh
    <3> QED
      BY <2>2, <3>1, FreshShrinks, EmitAgrees, Vocabulary DEF Proceed, ProceedFails, Reject
  <2>3. CASE Retract(s) \/ OtherDevice(s) \/ Terminate(s)
    <3>1. said[s] # {}
      BY <2>3 DEF Retract, OtherDevice, Terminate
    <3>2. ~Fresh(s)
      BY <3>1 DEF CallAgrees, AnswersFollow, Fresh, Calls
    <3> QED
      BY <2>3, <3>2, FreshShrinks, EmitAgrees, Vocabulary DEF Retract, OtherDevice, Terminate
  <2> QED
    BY <1>1, <1>6, <2>1, <2>2, <2>3 DEF PeerNext, ProceedIgnored, Description, SetRemote
<1>7. ASSUME NEW s \in Calls, EngineNext(s)
      PROVE  ScreenAgrees'
  BY <1>1, <1>7 DEF EngineNext, EngineDescribes, EngineConnects, EngineFails
<1>8. ASSUME NEW s \in Calls, NEW g \in Engines, PumpNext(s, g)
      PROVE  ScreenAgrees'
  <2>1. CASE PumpConnected(s, g) \/ PumpFailed(s, g)
    <3>1. ~Fresh(s)
      BY <2>1 DEF PumpConnected, PumpFailed, Taken, CallAgrees, FreshIsBlank
    <3> QED
      BY <2>1, <3>1, FreshShrinks, EmitAgrees, Vocabulary DEF PumpConnected, PumpFailed
  <2> QED
    BY <1>1, <1>8, <2>1 DEF PumpNext, PumpDescription, PumpSends, PumpEnds
<1> QED
  BY <1>2, <1>3, <1>4, <1>5, <1>6, <1>7, <1>8 DEF Next

BlankOK == \A t \in Calls : FreshIsBlank(t)

(* Fresh calls stay without a trace. *)
LEMMA BlankNext ==
  ASSUME IInv, [Next]_vars
  PROVE  BlankOK'
<1>0. TypeOK /\ ScreenAgrees /\ BlankOK /\ \A t \in Calls : AnswersFollow(t)
  BY DEF IInv, CallAgrees, BlankOK
<1> USE <1>0 DEF registry, history, engine, pumps, tasks, wire, ui
<1> DEFINE Same(t) == /\ meta'[t] = meta[t] /\ logged'[t] = logged[t] /\ gen'[t] = gen[t]
                      /\ accepting'[t] = accepting[t] /\ pump'[t] = pump[t]
<1>1. ASSUME \A t \in Calls : Fresh(t) => Same(t)
      PROVE  BlankOK'
  BY <1>1, FreshShrinks DEF BlankOK, FreshIsBlank
<1>2. ASSUME NEW s \in Calls, ~Fresh(s)', \A t \in Calls : t # s => Same(t)
      PROVE  BlankOK'
  BY <1>2, FreshShrinks DEF BlankOK, FreshIsBlank
<1>3. CASE UNCHANGED <<history, gen, accepting, pump>>
  BY <1>1, <1>3
<1>4. CASE TakeUpdate \/ ClickRed \/ UNCHANGED vars
  BY <1>3, <1>4 DEF TakeUpdate, ClickRed, vars
<1>5. CASE ClickAccept
  <2>1. shown.call \in Calls /\ ~Fresh(shown.call)
    BY <1>5 DEF ClickAccept, TypeOK, Updates, Blank, ScreenAgrees
  <2>2. \A t \in Calls : t # shown.call => Same(t)
    BY <1>5, <2>1 DEF ClickAccept, TypeOK
  <2> QED
    BY <2>1, <2>2, <1>2, FreshShrinks
<1>6. ASSUME NEW s \in Calls, PlaceCall(s) \/ Propose(s)
      PROVE  BlankOK'
  BY <1>6, <1>2, OpenedWasFresh, OpenedCall DEF PlaceCall, Propose
<1>7. ASSUME NEW s \in Calls, CommandNext(s)
      PROVE  BlankOK'
  <2>1. CASE Accept(s) \/ AcceptFails(s)
    <3>1. ~Fresh(s)
      BY <2>1 DEF Accept, AcceptFails, BlankOK, FreshIsBlank
    <3>2. \A t \in Calls : t # s => accepting'[t] = accepting[t]
      BY <2>1 DEF Accept, AcceptFails, TypeOK
    <3>3. \A t \in Calls : t # s => Same(t)
      BY <2>1, <3>2, MarkedCall, StartedEngine DEF Accept, AcceptFails
    <3> QED
      BY <3>1, <3>3, <1>2, FreshShrinks
  <2>2. CASE Decline(s) \/ HangUp(s)
    <3>1. \A t \in Calls : t # s => Same(t)
      BY <2>2, EndedCall, DroppedEngine DEF Decline, HangUp
    <3>2. Fresh(s) => Same(s)
      BY <2>2 DEF Decline, HangUp, LogEnd, DropEngine, BlankOK, FreshIsBlank, TypeOK
    <3> QED
      BY <3>1, <3>2, <1>1
  <2> QED
    BY <1>6, <1>7, <2>1, <2>2 DEF CommandNext
<1>8. ASSUME NEW s \in Calls, PeerNext(s)
      PROVE  BlankOK'
  <2>1. CASE Proceed(s) \/ ProceedFails(s) \/ Reject(s)
    <3>1. ~Fresh(s)
      BY <2>1 DEF Proceed, ProceedFails, Reject, PeerProceeds, Fresh
    <3>2. \A t \in Calls : t # s => Same(t)
      BY <2>1, MarkedCall, StartedEngine, EndedCall, DroppedEngine
      DEF Proceed, ProceedFails, Reject
    <3> QED
      BY <3>1, <3>2, <1>2, FreshShrinks
  <2>2. CASE Retract(s) \/ OtherDevice(s) \/ Terminate(s)
    <3>1. said[s] # {}
      BY <2>2 DEF Retract, OtherDevice, Terminate
    <3>2. ~Fresh(s)
      BY <3>1 DEF AnswersFollow, Fresh, Calls
    <3>3. \A t \in Calls : t # s => Same(t)
      BY <2>2, EndedCall, DroppedEngine DEF Retract, OtherDevice, Terminate
    <3> QED
      BY <3>2, <3>3, <1>2, FreshShrinks
  <2> QED
    BY <1>3, <1>6, <1>8, <2>1, <2>2 DEF PeerNext, ProceedIgnored, Description, SetRemote
<1>9. ASSUME NEW s \in Calls, EngineNext(s)
      PROVE  BlankOK'
  BY <1>3, <1>9 DEF EngineNext, EngineDescribes, EngineConnects, EngineFails
<1>10. ASSUME NEW s \in Calls, NEW g \in Engines, PumpNext(s, g)
       PROVE  BlankOK'
  <2>1. pump[s][g] # "off"
    BY <1>10 DEF PumpNext, PumpDescription, PumpSends, PumpConnected, PumpFailed, PumpEnds, Taken
  <2>2. ~Fresh(s)
    BY <2>1 DEF BlankOK, FreshIsBlank
  <2>3. \A t \in Calls : t # s => pump'[t] = pump[t]
    BY <1>10 DEF PumpNext, PumpDescription, PumpSends, PumpConnected, PumpFailed, PumpEnds, TypeOK
  <2>4. \A t \in Calls : t # s => Same(t)
    BY <1>10, <2>3, MarkedCall, EndedCall, DroppedEngine
    DEF PumpNext, PumpDescription, PumpSends, PumpConnected, PumpFailed, PumpEnds
  <2> QED
    BY <2>2, <2>4, <1>2, FreshShrinks
<1> QED
  BY <1>4, <1>5, <1>7, <1>8, <1>9, <1>10 DEF Next
-----------------------------------------------------------------------------
(* The peer.                                                                 *)

\* What the peer and we know of each other's words.
AnswersOK == \A t \in Calls : AnswersFollow(t) /\ AnswerAwaited(t)

LEMMA AnswersNext ==
  ASSUME IInv, [Next]_vars
  PROVE  AnswersOK'
<1>0. TypeOK /\ AnswersOK
  BY DEF IInv, CallAgrees, AnswersOK
<1> USE <1>0, TellGrows, HearGrows DEF registry, history, engine, pumps, tasks, wire, ui
<1>1. CASE UNCHANGED <<proposed, told, said>>
  BY <1>1 DEF AnswersOK, AnswersFollow, AnswerAwaited
<1>2. CASE TakeUpdate \/ ClickAccept \/ ClickRed \/ UNCHANGED vars
  BY <1>1, <1>2 DEF TakeUpdate, ClickAccept, ClickRed, vars
<1>3. ASSUME NEW s \in Calls, NEW what \in SUBSET Words, Tell(s, what), UNCHANGED said,
             "propose" \in what /\ s \in Out => s \in proposed',
             proposed \ {s} \subseteq proposed',
             s \in proposed' \/ proposed' = proposed
               \/ what \cap {"terminate", "retract", "reject"} # {}
      PROVE  AnswersOK'
  BY <1>3 DEF AnswersOK, AnswersFollow, AnswerAwaited
<1>4. ASSUME NEW s \in Calls, NEW what, Hear(s, what), UNCHANGED told,
             proposed \ {s} \subseteq proposed',
             s \in proposed' \/ proposed' = proposed \/ what = "proceed",
             s \in Out => told[s] # {}
      PROVE  AnswersOK'
  BY <1>4 DEF AnswersOK, AnswersFollow, AnswerAwaited
<1>5. ASSUME NEW s \in Calls, CommandNext(s)
      PROVE  AnswersOK'
  <2>1. CASE PlaceCall(s)
    BY <2>1, <1>3, Vocabulary DEF PlaceCall
  <2>2. CASE Accept(s)
    BY <2>2, <1>3, Vocabulary DEF Accept
  <2>3. CASE Decline(s)
    BY <2>3, <1>3, Vocabulary DEF Decline
  <2>4. CASE HangUp(s)
    BY <2>4, <1>3, Vocabulary DEF HangUp
  <2> QED
    BY <1>1, <1>5, <2>1, <2>2, <2>3, <2>4 DEF CommandNext, AcceptFails
<1>6. ASSUME NEW s \in Calls, PeerNext(s)
      PROVE  AnswersOK'
  <2>0. s \in Out /\ said[s] # {} => told[s] # {}
    BY DEF AnswersOK, AnswersFollow
  <2>1. CASE Propose(s)
    BY <2>1, <1>4, CallsAssumption DEF Propose
  <2>2. CASE Proceed(s) \/ ProceedFails(s) \/ ProceedIgnored(s) \/ Reject(s)
    BY <2>2, <1>4 DEF Proceed, ProceedFails, ProceedIgnored, PeerProceeds, Reject
  <2>3. CASE Retract(s) \/ OtherDevice(s) \/ Terminate(s)
    BY <2>0, <2>3, <1>4 DEF Retract, OtherDevice, Terminate
  <2>4. CASE Description(s)
    BY <2>4, <1>4, CallsAssumption DEF Description
  <2> QED
    BY <1>1, <1>6, <2>1, <2>2, <2>3, <2>4 DEF PeerNext, SetRemote
<1>7. ASSUME NEW s \in Calls, EngineNext(s)
      PROVE  AnswersOK'
  BY <1>1, <1>7 DEF EngineNext, EngineDescribes, EngineConnects, EngineFails
<1>8. ASSUME NEW s \in Calls, NEW g \in Engines, PumpNext(s, g)
      PROVE  AnswersOK'
  <2>1. CASE PumpSends(s, g)
    BY <2>1, <1>3, Vocabulary DEF PumpSends
  <2> QED
    BY <1>1, <1>8, <2>1 DEF PumpNext, PumpDescription, PumpConnected, PumpFailed, PumpEnds
<1> QED
  BY <1>2, <1>5, <1>6, <1>7, <1>8 DEF Next

\* The words that end a call, whoever says them.
Ending == {"terminate", "retract", "reject"}

(* A peer that expects us has our engine or was told. *)
LEMMA ToldNext ==
  ASSUME IInv, [Next]_vars
  PROVE  PeerIsTold'
<1>0. TypeOK /\ PeerIsTold /\ \A t \in Calls : AnswerAwaited(t)
  BY DEF IInv, CallAgrees
<1> USE <1>0, TellGrows, HearGrows DEF registry, history, engine, pumps, tasks, wire, ui
<1>1. CASE UNCHANGED <<gen, told, said, lost>>
  BY <1>1 DEF PeerIsTold, PeerExpects, Running
<1>2. CASE TakeUpdate \/ ClickAccept \/ ClickRed \/ UNCHANGED vars
  BY <1>1, <1>2 DEF TakeUpdate, ClickAccept, ClickRed, vars
<1> DEFINE Kept(t) == /\ gen'[t] = gen[t] /\ told'[t] = told[t] /\ said'[t] = said[t]
                      /\ lost'[t] = lost[t]
<1>3. ASSUME NEW s \in Calls, \A t \in Calls : t # s => Kept(t),
             \/ Running(s)' \/ lost'[s] # "no"
             \/ told'[s] \cap Ending # {}
             \/ said'[s] \cap {"retract", "reject", "terminate"} # {}
      PROVE  PeerIsTold'
  BY <1>3 DEF PeerIsTold, PeerExpects, Running, Ending
<1>4. ASSUME NEW s \in Calls, UNCHANGED <<gen, lost>>, \A t \in Calls : t # s => Kept(t),
             told[s] \subseteq told'[s], said[s] \subseteq said'[s],
             "proceed" \in said'[s] \cup told'[s] => "proceed" \in said[s] \cup told[s]
      PROVE  PeerIsTold'
  BY <1>4 DEF PeerIsTold, PeerExpects, Running
<1>5. ASSUME NEW s \in Calls, CommandNext(s)
      PROVE  PeerIsTold'
  <2>1. CASE PlaceCall(s)
    BY <2>1, <1>4 DEF PlaceCall
  <2>2. CASE Accept(s)
    BY <2>2, <1>3, StartedEngine DEF Accept
  <2>3. CASE AcceptFails(s)
    <3>1. lost'[s] # "no" /\ \A t \in Calls : t # s => lost'[t] = lost[t]
      BY <2>3 DEF AcceptFails, TypeOK
    <3> QED
      BY <2>3, <3>1, <1>3 DEF AcceptFails
  <2>4. CASE Decline(s)
    BY <2>4, <1>3 DEF Decline, Ending
  <2>5. CASE HangUp(s)
    BY <2>5, <1>3, DroppedEngine DEF HangUp, Ending
  <2> QED
    BY <1>5, <2>1, <2>2, <2>3, <2>4, <2>5 DEF CommandNext
<1>6. ASSUME NEW s \in Calls, PeerNext(s)
      PROVE  PeerIsTold'
  <2>1. CASE Propose(s) \/ OtherDevice(s) \/ Description(s)
    BY <2>1, <1>4 DEF Propose, OtherDevice, Description
  <2>2. CASE Proceed(s)
    BY <2>2, <1>3, StartedEngine DEF Proceed, PeerProceeds
  <2>3. CASE ProceedFails(s)
    <3>1. lost'[s] # "no" /\ \A t \in Calls : t # s => lost'[t] = lost[t]
      BY <2>3 DEF ProceedFails, TypeOK
    <3> QED
      BY <2>3, <3>1, <1>3 DEF ProceedFails, PeerProceeds
  <2>4. CASE ProceedIgnored(s)
    <3>1. told[s] \cap Ending # {}
      BY <2>4 DEF ProceedIgnored, PeerProceeds, AnswerAwaited, Ending
    <3> QED
      BY <2>4, <3>1, <1>3 DEF ProceedIgnored, PeerProceeds
  <2>5. CASE Reject(s) \/ Retract(s) \/ Terminate(s)
    BY <2>5, <1>3, DroppedEngine DEF Reject, Retract, Terminate
  <2> QED
    BY <1>1, <1>6, <2>1, <2>2, <2>3, <2>4, <2>5 DEF PeerNext, SetRemote
<1>7. ASSUME NEW s \in Calls, EngineNext(s)
      PROVE  PeerIsTold'
  BY <1>1, <1>7 DEF EngineNext, EngineDescribes, EngineConnects, EngineFails
<1>8. ASSUME NEW s \in Calls, NEW g \in Engines, PumpNext(s, g)
      PROVE  PeerIsTold'
  <2>1. CASE PumpSends(s, g)
    BY <2>1, <1>4 DEF PumpSends
  <2>2. CASE PumpFailed(s, g)
    <3>1. lost'[s] # "no" /\ \A t \in Calls : t # s => lost'[t] = lost[t]
      BY <2>2 DEF PumpFailed, TypeOK
    <3> QED
      BY <2>2, <3>1, <1>3, DroppedEngine DEF PumpFailed
  <2> QED
    BY <1>1, <1>8, <2>1, <2>2 DEF PumpNext, PumpDescription, PumpConnected, PumpEnds
<1> QED
  BY <1>2, <1>5, <1>6, <1>7, <1>8 DEF Next

-----------------------------------------------------------------------------
(* The theorems.                                                             *)

LEMMA InitIInv == Init => IInv
<1> SUFFICES ASSUME Init PROVE IInv
  OBVIOUS
<1>1. TypeOK
  BY InitTypeOK
<1>2. \A s \in Calls : CallAgrees(s)
  BY DEF Init, CallAgrees, FreshIsBlank, AnswersFollow, HistoryAgrees, EngineAnswered, Running,
     AnswerAwaited, Calls
<1>3. ScreenAgrees
  BY DEF Init, ScreenAgrees, Blank
<1>4. OpenCallsTracked /\ EnginePumped /\ PeerIsTold
  BY DEF Init, OpenCallsTracked, EnginePumped, PeerIsTold, PeerExpects, Running
<1> QED
  BY <1>1, <1>2, <1>3, <1>4 DEF IInv

LEMMA NextIInv == IInv /\ [Next]_vars => IInv'
<1> SUFFICES ASSUME IInv, [Next]_vars PROVE IInv'
  OBVIOUS
<1>1. TypeOK'
  BY NextTypeOK DEF IInv
<1>2. \A s \in Calls : CallAgrees(s)'
  BY BlankNext, HistoryNext, AnsweredNext, AnswersNext
  DEF CallAgrees, BlankOK, HistoryOK, AnsweredOK, AnswersOK
<1> QED
  BY <1>1, <1>2, ScreenNext, TrackedNext, PumpedNext, ToldNext DEF IInv

LEMMA Invariance == Spec => []IInv
BY InitIInv, NextIInv, PTL DEF Spec

(* No call is left out of the history, however its two ends, another device and its media
   end it: OpenCallsTracked holds in every reachable state (log_call_end, jingle.rs). *)
THEOREM HistoryComplete == Spec => []OpenCallsTracked
<1>1. IInv => OpenCallsTracked
  BY DEF IInv
<1> QED
  BY Invariance, <1>1, PTL

(* No call is in the history twice (log_call_end, jingle.rs). *)
THEOREM HistoryExact == Spec => []LoggedOnce
<1>1. IInv => LoggedOnce
  BY DEF IInv, CallAgrees, HistoryAgrees, LoggedOnce
<1> QED
  BY Invariance, <1>1, PTL

(* However often a call is accepted, the pump of the engine in `active` runs
   (start_call, jingle.rs). *)
THEOREM NoOrphanEngine == Spec => []EnginePumped
<1>1. IInv => EnginePumped
  BY DEF IInv
<1> QED
  BY Invariance, <1>1, PTL

(* A peer that believes in a call has our engine or was told, unless the engine failed
   (hang_up, reject, accept in jingle.rs). *)
THEOREM NoPeerLeftWaiting == Spec => []PeerIsTold
<1>1. IInv => PeerIsTold
  BY DEF IInv
<1> QED
  BY Invariance, <1>1, PTL

(* A call that had an engine is never written to the history as missed
   (mark_answered in start_call's callers, jingle.rs). *)
THEOREM MissedIsHonest == Spec => MissedHadNoEngine
<1>1. IInv /\ [Next]_vars =>
        [\A s \in Calls : logged'[s] # logged[s] /\ meta[s] = "missed" => ~Running(s)]_vars
  BY DEF IInv, CallAgrees, EngineAnswered
<1> QED
  BY Invariance, <1>1, PTL DEF Spec, MissedHadNoEngine
=============================================================================
