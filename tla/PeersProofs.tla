---------------------------- MODULE PeersProofs ----------------------------
(***************************************************************************)
(* Proofs about the sessions with a peer's devices, for any number of      *)
(* devices, tasks, keys and sessions: what a message is wrapped for, which *)
(* rows and pins the tables may hold, and that numbers are used once.      *)
(*                                                                         *)
(* A task that gives up the thread goes on with what it has read; Based    *)
(* says how far that still holds of the tables, or which history tells     *)
(* that it does not.                                                       *)
(***************************************************************************)
EXTENDS Peers, TLAPS

Task == [at : Steps, dev : Devices \cup {NoDevice}, rest : SUBSET Devices,
         addrs : SUBSET Devices, got : Bundle, ses : Session]
Idents == [key : Keys, trust : 0..3]
Wraps == [dev : Devices, key : Keys, id : 0..MaxBuilt, n : Nat, by : Tasks]

Typed ==
  /\ peerList \subseteq Devices
  /\ bundle \in [Devices -> Bundle] /\ \A d \in Devices : bundle[d].key # 0 /\ bundle[d].key <= bundle[d].pq
  /\ ident \in [Devices -> Idents]
  /\ pins \in [Devices -> [1..MaxKeys -> Keys]]
  /\ session \in [Devices -> Session]
  /\ shown \in [Devices -> Keys]
  /\ built \in 0..MaxBuilt
  /\ task \in [Tasks -> Task]
  /\ sent \subseteq Wraps
  /\ approved \in [Devices -> SUBSET Keys]

\* Steps at which a task is about a device, and those at which it holds one of its keys.
Keyed == {"pinned", "identity", "store", "pin", "open", "accept", "record", "fill", "refill"}
Held == Keyed \cup {"bundle", "trust", "wrap", "known"}

\* What a task holds by itself, when b sessions have been built.
Fits(x, b) ==
  /\ x.at \in Held => x.dev \in Devices
  /\ x.at \in Keyed => x.got.key # 0
  /\ x.at = "wrap" => x.dev \in x.addrs /\ x.ses.id # 0
  /\ x.ses.id = 0 <=> x.ses.key = 0
  /\ x.ses.id <= b

\* What it knows of identities i, pins p, accepted keys a; o, r, n are the devices that were
\* swapped or misplaced, racing and torn.
Based(x, i, p, a, o, r, n) ==
  /\ x.at \in {"store", "record"} => i[x.dev].key # 0 \/ x.dev \in n
  /\ \A d \in x.addrs : d \in o \/ i[d].key = 0 \/ i[d].key \in a[d]
  /\ x.at \in {"identity", "store", "pin"} =>
       p[x.dev][x.got.key] \in {0, x.got.pq} \/ i[x.dev].trust = 3 \/ x.dev \in r
  /\ x.at = "refill" => p[x.dev][x.got.key] = 0 \/ x.dev \in r

TasksFit == \A t \in Tasks : Fits(task[t], built)
TasksBased ==
  \A t \in Tasks : Based(task[t], ident, pins, approved, swapped \cup misplaced, racing, torn)

SessionsSound ==
  \A d \in Devices : (session[d].id = 0 <=> session[d].key = 0) /\ session[d].id <= built

\* Whoever builds a session while a reset is at work has begun.
Awake ==
  \A t \in Tasks : At(t, "rows") =>
    \A d \in Devices : session[d].id # 0 => \E u \in Tasks \ {t} : ~At(u, "idle")

NumbersSound ==
  /\ NumbersUsedOnce
  /\ \A w \in sent :
       /\ w.id # 0 /\ w.id <= built
       /\ w.dev \in crossed \/ session[w.dev].id # w.id \/ w.n < session[w.dev].n

IInv ==
  /\ Typed /\ TasksFit /\ TasksBased /\ SessionsSound /\ Awake
  /\ RowsAreSound /\ WrappedWereTrusted /\ NumbersSound

USE PeersAssumption

-----------------------------------------------------------------------------
(* Tasks that move.                                                          *)

Moved(t, x) ==
  /\ x \in Task /\ task' \in [Tasks -> Task] /\ task'[t] = x
  /\ \A u \in Tasks : u # t => task'[u] = task[u]

\* t moves to where the tables as they are bear it out.
MovesWell(t) ==
  \E x : /\ Moved(t, x) /\ Fits(x, built) /\ x.at \notin {"idle", "rows"}
         /\ Based(x, ident, pins, approved, swapped \cup misplaced, racing, torn)

\* Steps at which nothing but the device and the addresses count.
Free == {"list", "pick", "trust", "load", "known", "pins", "forget"}

LEMMA StepNames == Free \cup Held \cup {"idle", "done", "rows"} \subseteq Steps
BY DEF Free, Held, Keyed, Steps, Establish

LEMMA Constants ==
  /\ 0 \in Keys /\ NoBundle \in Bundle /\ NoBundle.key = 0
  /\ NoSession \in Session /\ NoSession.id = 0 /\ NoSession.key = 0
  /\ Blank \in Task /\ Blank.at = "idle" /\ Blank.dev = NoDevice /\ Blank.addrs = {}
  /\ Blank.ses = NoSession /\ Blank.got = NoBundle
<1>1. 0 \in Keys /\ 0 \in 0..MaxBuilt
  BY DEF Keys
<1>2. NoBundle \in Bundle /\ NoBundle.key = 0
  BY <1>1 DEF Bundle, NoBundle
<1>3. NoSession \in Session /\ NoSession.id = 0 /\ NoSession.key = 0
  BY <1>1 DEF Session, NoSession
<1>4. /\ Blank.at = "idle" /\ Blank.dev = NoDevice /\ Blank.addrs = {}
      /\ Blank.ses = NoSession /\ Blank.got = NoBundle
  BY DEF Blank
<1>5. Blank \in Task
  BY <1>2, <1>3, StepNames DEF Blank, Task
<1> QED
  BY <1>1, <1>2, <1>3, <1>4, <1>5

LEMMA GoMoves ==
  ASSUME task \in [Tasks -> Task], NEW t \in Tasks, NEW s \in Steps, Go(t, s)
  PROVE  \E x : /\ Moved(t, x) /\ x.at = s /\ x.dev = task[t].dev /\ x.addrs = task[t].addrs
                /\ x.got = task[t].got /\ x.ses = task[t].ses
<1> DEFINE x == [task[t] EXCEPT !.at = s]
<1>1. task[t] \in Task
  OBVIOUS
<1>2. /\ x \in Task /\ x.at = s /\ x.dev = task[t].dev /\ x.addrs = task[t].addrs
      /\ x.got = task[t].got /\ x.ses = task[t].ses
  BY <1>1 DEF Task
<1>3. task' = [task EXCEPT ![t] = x]
  BY DEF Go
<1> HIDE DEF x
<1>4. Moved(t, x)
  BY <1>2, <1>3 DEF Moved
<1> QED
  BY <1>2, <1>4

LEMMA IsMoved ==
  ASSUME task \in [Tasks -> Task], NEW t \in Tasks, NEW x \in Task, task' = [task EXCEPT ![t] = x]
  PROVE  Moved(t, x)
BY DEF Moved

LEMMA OverMoves ==
  ASSUME task \in [Tasks -> Task], NEW t \in Tasks, Over(t)
  PROVE  \E x : /\ Moved(t, x) /\ x.at = "done" /\ x.addrs = {} /\ x.ses.id = 0 /\ x.ses.key = 0
<1> DEFINE x == [Blank EXCEPT !.at = "done"]
<1>0. x \in Task /\ x.at = "done" /\ x.addrs = Blank.addrs /\ x.ses = Blank.ses
  BY Constants, StepNames DEF Task
<1>1. x \in Task /\ x.at = "done" /\ x.addrs = {} /\ x.ses.id = 0 /\ x.ses.key = 0
  BY <1>0, Constants
<1>2. task' = [task EXCEPT ![t] = x]
  BY DEF Over
<1> HIDE DEF x
<1> QED
  BY <1>1, <1>2 DEF Moved

LEMMA OverWell ==
  ASSUME IInv, NEW t \in Tasks, Over(t)
  PROVE  MovesWell(t)
<1>1. PICK x : Moved(t, x) /\ x.at = "done" /\ x.addrs = {} /\ x.ses.id = 0 /\ x.ses.key = 0
  BY OverMoves DEF IInv, Typed
<1>2. Fits(x, built) /\ Based(x, ident, pins, approved, swapped \cup misplaced, racing, torn)
  BY <1>1 DEF Fits, Based, Held, Keyed, IInv, Typed
<1> QED
  BY <1>1, <1>2 DEF MovesWell

LEMMA GoWell ==
  ASSUME IInv, NEW t \in Tasks, NEW s \in Free, Go(t, s),
         s \in {"trust", "known"} => Dev(t) \in Devices
  PROVE  MovesWell(t)
<1>1. PICK x : /\ Moved(t, x) /\ x.at = s /\ x.dev = task[t].dev /\ x.addrs = task[t].addrs
               /\ x.got = task[t].got /\ x.ses = task[t].ses
  <2>1. s \in Steps
    BY StepNames
  <2>2. task \in [Tasks -> Task]
    BY DEF IInv, Typed
  <2> QED
    BY <2>1, <2>2, GoMoves
<1>2. Fits(task[t], built)
  BY DEF IInv, TasksFit
<1>3. Fits(x, built)
  BY <1>1, <1>2 DEF Fits, Held, Keyed, Free, Dev
<1>4. Based(task[t], ident, pins, approved, swapped \cup misplaced, racing, torn)
  BY DEF IInv, TasksBased
<1>5. Based(x, ident, pins, approved, swapped \cup misplaced, racing, torn)
  BY <1>1, <1>4 DEF Based, Free
<1> QED
  BY <1>1, <1>3, <1>5 DEF MovesWell, Free

LEMMA SkipWell ==
  ASSUME IInv, NEW t \in Tasks, Skip(t)
  PROVE  MovesWell(t)
BY OverWell, GoWell DEF Skip, Free

\* A step of a task that changes none of the tables.
Tables == <<bundle, peerList, ident, pins, session, built, sent, approved, crossed, swapped, misplaced,
            racing, torn>>

LEMMA Moves ==
  ASSUME IInv, NEW t \in Tasks, MovesWell(t), UNCHANGED Tables, shown' \in [Devices -> Keys]
  PROVE  IInv'
<1>1. PICK x : /\ Moved(t, x) /\ Fits(x, built) /\ x.at \notin {"idle", "rows"}
               /\ Based(x, ident, pins, approved, swapped \cup misplaced, racing, torn)
  BY DEF MovesWell
<1>2. Typed'
  BY <1>1 DEF Tables, IInv, Typed, Moved
<1>3. TasksFit'
  BY <1>1 DEF Tables, IInv, TasksFit, Moved
<1>4. TasksBased'
  BY <1>1 DEF Tables, IInv, TasksBased, Moved
<1>5. SessionsSound' /\ RowsAreSound' /\ WrappedWereTrusted' /\ NumbersSound'
  BY DEF Tables, IInv, SessionsSound, RowsAreSound, Trusted, WrappedWereTrusted, NumbersSound, NumbersUsedOnce
<1>6. Awake'
  BY <1>1 DEF Tables, IInv, Awake, At, Moved
<1> QED
  BY <1>2, <1>3, <1>4, <1>5, <1>6 DEF IInv

-----------------------------------------------------------------------------
(* The moves of sends, of received messages and of resets.                   *)

\* What is known of task t when it moves.
LEMMA Known ==
  ASSUME IInv, NEW t \in Tasks
  PROVE  /\ task \in [Tasks -> Task] /\ task[t] \in Task
         /\ task[t].dev = Dev(t) /\ task[t].addrs \subseteq Devices /\ task[t].rest \subseteq Devices
         /\ task[t].got \in Bundle /\ task[t].ses \in Session
         /\ Fits(task[t], built)
         /\ Based(task[t], ident, pins, approved, swapped \cup misplaced, racing, torn)
         /\ task[t].at \in Held => Dev(t) \in Devices
BY DEF IInv, Typed, TasksFit, TasksBased, Task, Fits, Dev

LEMMA FetchBundleStep ==
  ASSUME IInv, NEW t \in Tasks, FetchBundle(t)
  PROVE  IInv'
<1>1. CASE Skip(t)
  BY <1>1, SkipWell, Moves DEF FetchBundle, Tables, peer, tables, marks, IInv, Typed
<1>2. CASE task' = [task EXCEPT ![t].got = bundle[Dev(t)], ![t].at = "pinned"]
  <2> DEFINE x == [task[t] EXCEPT !.got = bundle[Dev(t)], !.at = "pinned"]
  <2>1. Dev(t) \in Devices
    BY Known DEF FetchBundle, At, Held
  <2>2. bundle[Dev(t)] \in Bundle /\ bundle[Dev(t)].key # 0
    BY <2>1 DEF IInv, Typed
  <2>3. /\ x \in Task /\ x.at = "pinned" /\ x.dev = Dev(t) /\ x.addrs = task[t].addrs
        /\ x.ses = task[t].ses /\ x.got = bundle[Dev(t)]
    BY <2>2, Known, StepNames DEF Task, Held, Keyed
  <2>4. task' = [task EXCEPT ![t] = x]
    BY <1>2, Known
  <2> HIDE DEF x
  <2>5. Moved(t, x)
    BY <2>3, <2>4, Known DEF Moved
  <2>6. Fits(x, built)
    BY <2>1, <2>2, <2>3, Known DEF Fits
  <2>7. Based(x, ident, pins, approved, swapped \cup misplaced, racing, torn)
    BY <2>3, Known DEF Based
  <2>8. MovesWell(t)
    BY <2>3, <2>5, <2>6, <2>7 DEF MovesWell
  <2> QED
    BY <2>8, Moves DEF FetchBundle, Tables, peer, tables, marks, IInv, Typed
<1> QED
  BY <1>1, <1>2 DEF FetchBundle

LEMMA CheckPinStep ==
  ASSUME IInv, NEW t \in Tasks, CheckPin(t)
  PROVE  IInv'
<1>1. CASE Skip(t)
  BY <1>1, SkipWell, Moves DEF CheckPin, Tables, peer, tables, marks, IInv, Typed
<1>2. ASSUME Go(t, "identity"), pins[Dev(t)][task[t].got.key] \in {0, task[t].got.pq} \/ ident[Dev(t)].trust = 3
      PROVE  IInv'
  <2>1. PICK x : /\ Moved(t, x) /\ x.at = "identity" /\ x.dev = task[t].dev /\ x.addrs = task[t].addrs
                 /\ x.got = task[t].got /\ x.ses = task[t].ses
    BY <1>2, GoMoves, Known, StepNames DEF Held, Keyed
  <2>2. Fits(x, built)
    BY <2>1, Known DEF Fits, CheckPin, At, Held, Keyed
  <2>3. Based(x, ident, pins, approved, swapped \cup misplaced, racing, torn)
    BY <1>2, <2>1, Known DEF Based
  <2>4. MovesWell(t)
    BY <2>1, <2>2, <2>3 DEF MovesWell
  <2> QED
    BY <2>4, Moves DEF CheckPin, Tables, peer, tables, marks, IInv, Typed
<1> QED
  BY <1>1, <1>2 DEF CheckPin

\* A task that changes only what it has to do next, with the same key and session.
LEMMA PickStep ==
  ASSUME IInv, NEW t \in Tasks, Pick(t)
  PROVE  IInv'
<1>1. CASE Over(t)
  BY <1>1, OverWell, Moves DEF Pick, Tables, peer, tables, marks, IInv, Typed
<1>2. CASE Go(t, "load")
  BY <1>2, GoWell, Moves DEF Pick, Tables, peer, tables, marks, IInv, Typed, Free
<1>3. ASSUME NEW d \in task[t].rest, NEW s \in {"trust", "pick", "bundle"},
             task' = [task EXCEPT ![t].rest = @ \ {d}, ![t].dev = d, ![t].at = s]
      PROVE  IInv'
  <2> DEFINE x == [task[t] EXCEPT !.rest = @ \ {d}, !.dev = d, !.at = s]
  <2>1. d \in Devices
    BY <1>3, Known
  <2>2. x \in Task /\ x.at = s /\ x.dev = d /\ x.addrs = task[t].addrs /\ x.ses = task[t].ses
    BY <1>3, <2>1, Known, StepNames DEF Task, Held, Keyed, Free
  <2>3. task' = [task EXCEPT ![t] = x]
    BY <1>3, Known
  <2> HIDE DEF x
  <2>4. Moved(t, x)
    BY <2>2, <2>3, Known DEF Moved
  <2>5. Fits(x, built)
    BY <1>3, <2>1, <2>2, Known DEF Fits, Held, Keyed
  <2>6. Based(x, ident, pins, approved, swapped \cup misplaced, racing, torn)
    BY <1>3, <2>2, Known DEF Based
  <2>7. MovesWell(t)
    BY <1>3, <2>2, <2>4, <2>5, <2>6 DEF MovesWell
  <2> QED
    BY <2>7, Moves DEF Pick, Tables, peer, tables, marks, IInv, Typed
<1>4. \/ Over(t) \/ Go(t, "load")
      \/ \E d \in task[t].rest, s \in {"trust", "pick", "bundle"} :
           task' = [task EXCEPT ![t].rest = @ \ {d}, ![t].dev = d, ![t].at = s]
  BY DEF Pick
<1> QED
  BY <1>1, <1>2, <1>3, <1>4

LEMMA FetchListStep ==
  ASSUME IInv, NEW t \in Tasks, FetchList(t)
  PROVE  IInv'
<1>1. PICK list \in {peerList, {}} : task' = [task EXCEPT ![t].rest = list, ![t].at = "pick"]
  BY DEF FetchList
<1> DEFINE x == [task[t] EXCEPT !.rest = list, !.at = "pick"]
<1>2. x \in Task /\ x.at = "pick" /\ x.dev = task[t].dev /\ x.addrs = task[t].addrs /\ x.ses = task[t].ses
  BY <1>1, Known, StepNames DEF Task, Free, IInv, Typed
<1>3. task' = [task EXCEPT ![t] = x]
  BY <1>1, Known
<1> HIDE DEF x
<1>4. Moved(t, x)
  BY <1>2, <1>3, Known DEF Moved
<1>5. Fits(x, built)
  BY <1>2, Known DEF Fits, Held, Keyed
<1>6. Based(x, ident, pins, approved, swapped \cup misplaced, racing, torn)
  BY <1>2, Known DEF Based
<1>7. MovesWell(t)
  BY <1>2, <1>4, <1>5, <1>6 DEF MovesWell
<1> QED
  BY <1>7, Moves DEF FetchList, Tables, peer, tables, marks, IInv, Typed

\* A device that is trusted has a key that was accepted, or a misplaced verdict.
LEMMA TrustedBased ==
  ASSUME IInv, NEW d \in Devices, Trusted(d)
  PROVE  d \in swapped \cup misplaced \/ ident[d].key = 0 \/ ident[d].key \in approved[d]
BY DEF IInv, RowsAreSound

LEMMA AddressStep ==
  ASSUME IInv, NEW t \in Tasks, Dev(t) \in Devices, NEW s \in {"pick", "load"}, NEW more,
         more \subseteq {Dev(t)}, more # {} => Trusted(Dev(t)), NEW old, old \subseteq task[t].addrs,
         task' = [task EXCEPT ![t].at = s, ![t].addrs = old \cup more]
  PROVE  MovesWell(t)
<1> DEFINE x == [task[t] EXCEPT !.at = s, !.addrs = old \cup more]
<1>1. old \cup more \subseteq Devices
  BY Known
<1>2. x \in Task /\ x.at = s /\ x.dev = task[t].dev /\ x.addrs = old \cup more /\ x.ses = task[t].ses
  BY <1>1, Known, StepNames DEF Task, Free
<1>3. task' = [task EXCEPT ![t] = x]
  BY Known
<1>t. task \in [Tasks -> Task]
  BY Known
<1> HIDE DEF x
<1>4. Moved(t, x)
  BY <1>2, <1>3, <1>t, IsMoved
<1>5. Fits(x, built)
  BY <1>2, Known DEF Fits, Held, Keyed
<1>6. Based(x, ident, pins, approved, swapped \cup misplaced, racing, torn)
  <2>1. \A d \in old : d \in swapped \cup misplaced \/ ident[d].key = 0 \/ ident[d].key \in approved[d]
    BY Known DEF Based
  <2>2. \A d \in more : d \in swapped \cup misplaced \/ ident[d].key = 0 \/ ident[d].key \in approved[d]
    BY TrustedBased
  <2> QED
    BY <1>2, <2>1, <2>2 DEF Based
<1> QED
  BY <1>2, <1>4, <1>5, <1>6 DEF MovesWell

LEMMA CheckTrustStep ==
  ASSUME IInv, NEW t \in Tasks, CheckTrust(t)
  PROVE  IInv'
<1>1. Dev(t) \in Devices
  BY Known DEF CheckTrust, At, Held
<1> DEFINE more == IF Trusted(Dev(t)) THEN {Dev(t)} ELSE {}
<1>2. task' = [task EXCEPT ![t].at = "pick", ![t].addrs = task[t].addrs \cup more]
  BY Known DEF CheckTrust
<1>3. MovesWell(t)
  BY <1>1, <1>2, AddressStep
<1> QED
  BY <1>3, Moves DEF CheckTrust, Tables, peer, tables, marks, IInv, Typed

LEMMA HealStep ==
  ASSUME IInv, NEW t \in Tasks, Heal(t)
  PROVE  IInv'
<1>1. Dev(t) \in Devices
  BY Known DEF Heal, At, Held
<1>2. CASE Trusted(Dev(t))
  <2>1. task' = [task EXCEPT ![t].at = "load", ![t].addrs = {} \cup {Dev(t)}]
    <3>1. {} \cup {Dev(t)} = {Dev(t)}
      OBVIOUS
    <3> QED
      BY <1>2, <3>1 DEF Heal
  <2>2. MovesWell(t)
    BY <1>1, <1>2, <2>1, AddressStep
  <2> QED
    BY <2>2, Moves DEF Heal, Tables, peer, tables, marks, IInv, Typed
<1>3. CASE ~Trusted(Dev(t))
  BY <1>3, OverWell, Moves DEF Heal, Tables, peer, tables, marks, IInv, Typed
<1> QED
  BY <1>2, <1>3

LEMMA LoadSessionStep ==
  ASSUME IInv, NEW t \in Tasks, LoadSession(t)
  PROVE  IInv'
<1>1. CASE Over(t)
  BY <1>1, OverWell, Moves DEF LoadSession, Tables, peer, tables, marks, IInv, Typed
<1>2. ASSUME NEW d \in task[t].addrs, session[d].id # 0,
             task' = [task EXCEPT ![t].at = "wrap", ![t].dev = d, ![t].ses = session[d]]
      PROVE  IInv'
  <2> DEFINE x == [task[t] EXCEPT !.at = "wrap", !.dev = d, !.ses = session[d]]
  <2>1. d \in Devices /\ session[d] \in Session
    BY <1>2, Known DEF IInv, Typed
  <2>2. x \in Task /\ x.at = "wrap" /\ x.dev = d /\ x.addrs = task[t].addrs /\ x.ses = session[d]
    BY <2>1, Known, StepNames DEF Task, Held
  <2>3. task' = [task EXCEPT ![t] = x]
    BY <1>2, Known
  <2> HIDE DEF x
  <2>4. Moved(t, x)
    BY <2>2, <2>3, Known DEF Moved
  <2>5. Fits(x, built)
    BY <1>2, <2>1, <2>2 DEF Fits, Keyed, IInv, SessionsSound
  <2>6. Based(x, ident, pins, approved, swapped \cup misplaced, racing, torn)
    BY <2>2, Known DEF Based
  <2>7. MovesWell(t)
    BY <2>2, <2>4, <2>5, <2>6 DEF MovesWell
  <2> QED
    BY <2>7, Moves DEF LoadSession, Tables, peer, tables, marks, IInv, Typed
<1> QED
  BY <1>1, <1>2 DEF LoadSession

LEMMA StartReceiveStep ==
  ASSUME IInv, NEW t \in Tasks, NEW d \in Devices, NEW key \in 1..MaxKeys, StartReceive(t, d, key)
  PROVE  IInv'
<1>1. PICK s \in {"accept", "open"} :
        task' = [task EXCEPT ![t].at = s, ![t].dev = d, ![t].got.key = key,
                    ![t].ses = IF s = "open" THEN session[d] ELSE NoSession]
  BY DEF StartReceive
<1> DEFINE ses == IF s = "open" THEN session[d] ELSE NoSession
           got == [task[t].got EXCEPT !.key = key]
           x == [task[t] EXCEPT !.at = s, !.dev = d, !.got = got, !.ses = ses]
<1>2. ses \in Session /\ (ses.id = 0 <=> ses.key = 0) /\ ses.id <= built
  BY Constants DEF IInv, Typed, SessionsSound
<1>3. got \in Bundle /\ got.key = key /\ key # 0
  BY Known DEF Bundle, Keys
<1>4. task' = [task EXCEPT ![t] = x]
  BY <1>1, Known DEF Task
<1> HIDE DEF ses, got
<1>5. /\ x \in Task /\ x.at = s /\ x.dev = d /\ x.addrs = task[t].addrs /\ x.ses = ses /\ x.got = got
  BY <1>1, <1>2, <1>3, Known, StepNames DEF Task, Held, Keyed
<1> HIDE DEF x
<1>6. Moved(t, x)
  BY <1>4, <1>5, Known DEF Moved
<1>7. Fits(x, built)
  BY <1>1, <1>2, <1>3, <1>5 DEF Fits
<1>8. Based(x, ident, pins, approved, swapped \cup misplaced, racing, torn)
  BY <1>1, <1>5, Known DEF Based
<1>9. MovesWell(t)
  BY <1>1, <1>5, <1>6, <1>7, <1>8 DEF MovesWell
<1> QED
  BY <1>9, Moves DEF StartReceive, Tables, peer, tables, marks, IInv, Typed

LEMMA ReconcileStep ==
  ASSUME IInv, NEW t \in Tasks, Reconcile(t)
  PROVE  IInv'
<1>1. CASE Over(t)
  BY <1>1, OverWell, Moves DEF Reconcile, Tables, peer, tables, marks, IInv, Typed
<1>2. ASSUME ident[Dev(t)].key # 0,
             task' = [task EXCEPT ![t].at = "fill", ![t].got = [NoBundle EXCEPT !.key = ident[Dev(t)].key]]
      PROVE  IInv'
  <2> DEFINE got == [NoBundle EXCEPT !.key = ident[Dev(t)].key]
             x == [task[t] EXCEPT !.at = "fill", !.got = got]
  <2>1. Dev(t) \in Devices
    BY Known DEF Reconcile, At, Held
  <2>2. got \in Bundle /\ got.key # 0
    BY <1>2, <2>1, Constants DEF IInv, Typed, Idents, Bundle
  <2>3. task' = [task EXCEPT ![t] = x]
    BY <1>2, Known
  <2> HIDE DEF got
  <2>4. /\ x \in Task /\ x.at = "fill" /\ x.dev = Dev(t) /\ x.addrs = task[t].addrs
        /\ x.ses = task[t].ses /\ x.got = got
    BY <2>2, Known, StepNames DEF Task, Held, Keyed
  <2> HIDE DEF x
  <2>5. Moved(t, x)
    BY <2>3, <2>4, Known DEF Moved
  <2>6. Fits(x, built)
    BY <2>1, <2>2, <2>4, Known DEF Fits
  <2>7. Based(x, ident, pins, approved, swapped \cup misplaced, racing, torn)
    BY <2>4, Known DEF Based
  <2>8. MovesWell(t)
    BY <2>4, <2>5, <2>6, <2>7 DEF MovesWell
  <2> QED
    BY <2>8, Moves DEF Reconcile, Tables, peer, tables, marks, IInv, Typed
<1> QED
  BY <1>1, <1>2 DEF Reconcile

LEMMA RefillStep ==
  ASSUME IInv, NEW t \in Tasks, Refill(t)
  PROVE  IInv'
<1>1. CASE Over(t)
  BY <1>1, OverWell, Moves DEF Refill, Tables, peer, tables, marks, IInv, Typed
<1>2. ASSUME bundle[Dev(t)].key = task[t].got.key, pins[Dev(t)][bundle[Dev(t)].key] = 0,
             task' = [task EXCEPT ![t].at = "refill", ![t].got = bundle[Dev(t)]]
      PROVE  IInv'
  <2> DEFINE x == [task[t] EXCEPT !.at = "refill", !.got = bundle[Dev(t)]]
  <2>1. Dev(t) \in Devices
    BY Known DEF Refill, At, Held, Keyed
  <2>2. bundle[Dev(t)] \in Bundle /\ bundle[Dev(t)].key # 0
    BY <2>1 DEF IInv, Typed
  <2>3. task' = [task EXCEPT ![t] = x]
    BY <1>2, Known
  <2>4. /\ x \in Task /\ x.at = "refill" /\ x.dev = Dev(t) /\ x.addrs = task[t].addrs
        /\ x.ses = task[t].ses /\ x.got = bundle[Dev(t)]
    BY <2>2, Known, StepNames DEF Task, Held, Keyed
  <2> HIDE DEF x
  <2>5. Moved(t, x)
    BY <2>3, <2>4, Known DEF Moved
  <2>6. Fits(x, built)
    BY <2>1, <2>2, <2>4, Known DEF Fits
  <2>7. Based(x, ident, pins, approved, swapped \cup misplaced, racing, torn)
    BY <1>2, <2>4, Known DEF Based
  <2>8. MovesWell(t)
    BY <2>4, <2>5, <2>6, <2>7 DEF MovesWell
  <2> QED
    BY <2>8, Moves DEF Refill, Tables, peer, tables, marks, IInv, Typed
<1> QED
  BY <1>1, <1>2 DEF Refill

LEMMA EasySteps ==
  ASSUME IInv, NEW t \in Tasks, StartSend(t) \/ ForgetCaches(t)
  PROVE  IInv'
<1>1. CASE StartSend(t)
  BY <1>1, GoWell, Moves DEF StartSend, Free, Tables, peer, tables, marks, IInv, Typed
<1>2. CASE ForgetCaches(t)
  BY <1>2, OverWell, Moves DEF ForgetCaches, Tables, peer, tables, marks, IInv, Typed
<1> QED
  BY <1>1, <1>2

-----------------------------------------------------------------------------
(* save_omemo_identity.                                                      *)

LEMMA NewIdentIs ==
  ASSUME NEW old \in Idents, NEW key \in Keys, key # 0
  PROVE  /\ NewIdent(old, key) \in Idents
         /\ NewIdent(old, key).key = key
         /\ old.key = key => NewIdent(old, key) = old
         /\ NewIdent(old, key).trust \in {1, 3} => old.key = key \/ (old.key = 0 /\ AutoTrust)
<1>1. CASE old.key = key
  BY <1>1 DEF NewIdent, Idents
<1>2. CASE old.key # key /\ old.key = 0
  <2>1. NewIdent(old, key) = [key |-> key, trust |-> IF AutoTrust THEN 1 ELSE 0]
    BY <1>2 DEF NewIdent
  <2> QED
    BY <1>2, <2>1 DEF Idents
<1>3. CASE old.key # key /\ old.key # 0
  <2>1. NewIdent(old, key) = [key |-> key, trust |-> 0]
    BY <1>3 DEF NewIdent
  <2> QED
    BY <1>3, <2>1 DEF Idents
<1> QED
  BY <1>1, <1>2, <1>3

LEMMA Saves ==
  ASSUME IInv, NEW t \in Tasks, NEW d \in Devices, NEW key \in Keys, key # 0, SaveIdentity(t, d, key)
  PROVE  /\ ident' \in [Devices -> Idents] /\ ident'[d].key = key
         /\ \A e \in Devices : e # d \/ ident[d].key = key => ident'[e] = ident[e]
         /\ approved' \in [Devices -> SUBSET Keys]
         /\ \A e \in Devices : approved[e] \subseteq approved'[e]
         /\ swapped \subseteq swapped' /\ racing \subseteq racing'
         /\ \A e \in Devices :
              ident'[e].trust \in {1, 3} => ident'[e].key \in approved'[e] \/ e \in misplaced
         /\ ident[d].key # key =>
              /\ (\E u \in Tasks : d \in task[u].addrs) => d \in swapped'
              /\ ident[d].trust = 3 /\ (At(t, "identity") \/ Busy(t, d, {"identity", "store", "pin"}))
                   => d \in racing'
<1>0. ident \in [Devices -> Idents] /\ ident[d] \in Idents /\ approved \in [Devices -> SUBSET Keys]
  BY DEF IInv, Typed
<1>1. ident' = [ident EXCEPT ![d] = NewIdent(ident[d], key)]
  BY DEF SaveIdentity
<1>2. /\ ident' \in [Devices -> Idents] /\ ident'[d] = NewIdent(ident[d], key)
      /\ \A e \in Devices : e # d => ident'[e] = ident[e]
  BY <1>0, <1>1, NewIdentIs
<1>3. ident'[d].key = key /\ (ident[d].key = key => ident'[d] = ident[d])
  BY <1>0, <1>2, NewIdentIs
<1>4. approved' = IF ident[d].key = 0 /\ AutoTrust
                  THEN [approved EXCEPT ![d] = @ \cup {key}] ELSE approved
  BY DEF SaveIdentity
<1>5. /\ approved' \in [Devices -> SUBSET Keys]
      /\ \A e \in Devices : approved[e] \subseteq approved'[e]
      /\ ident[d].key = 0 /\ AutoTrust => key \in approved'[d]
  BY <1>0, <1>4
<1>6. \A e \in Devices :
        ident'[e].trust \in {1, 3} => ident'[e].key \in approved'[e] \/ e \in misplaced
  <2>1. \A e \in Devices : ident[e].trust \in {1, 3} => ident[e].key \in approved[e] \/ e \in misplaced
    BY DEF IInv, RowsAreSound, Trusted
  <2>2. ident'[d].trust \in {1, 3} => ident[d].key = key \/ (ident[d].key = 0 /\ AutoTrust)
    BY <1>0, <1>2, NewIdentIs
  <2>3. ident'[d].trust \in {1, 3} => ident'[d].key \in approved'[d] \/ d \in misplaced
    BY <1>3, <1>5, <2>1, <2>2
  <2> QED
    BY <1>2, <1>5, <2>1, <2>3
<1>7. /\ swapped \subseteq swapped' /\ racing \subseteq racing'
      /\ ident[d].key # key =>
           /\ (\E u \in Tasks : d \in task[u].addrs) => d \in swapped'
           /\ ident[d].trust = 3 /\ (At(t, "identity") \/ Busy(t, d, {"identity", "store", "pin"}))
                => d \in racing'
  BY DEF SaveIdentity
<1> QED
  BY <1>2, <1>3, <1>5, <1>6, <1>7

\* What the tasks have read bears out against the new row, or the histories tell.
LEMMA SavesBased ==
  ASSUME IInv, NEW t \in Tasks, NEW key \in Keys, key # 0, Dev(t) \in Devices,
         SaveIdentity(t, Dev(t), key), NEW u \in Tasks,
         u # t \/ task[t].at \notin {"store", "pin"}
  PROVE  Based(task[u], ident', pins, approved', swapped' \cup misplaced, racing', torn)
<1> DEFINE d == Dev(t)
<1>0. /\ Based(task[u], ident, pins, approved, swapped \cup misplaced, racing, torn)
      /\ task[u].addrs \subseteq Devices /\ Fits(task[u], built)
  BY Known
<1>1. /\ ident'[d].key = key
      /\ \A e \in Devices : e # d \/ ident[d].key = key => ident'[e] = ident[e]
      /\ \A e \in Devices : approved[e] \subseteq approved'[e]
      /\ swapped \subseteq swapped' /\ racing \subseteq racing'
      /\ ident[d].key # key =>
           /\ (\E v \in Tasks : d \in task[v].addrs) => d \in swapped'
           /\ ident[d].trust = 3 /\ (At(t, "identity") \/ Busy(t, d, {"identity", "store", "pin"}))
                => d \in racing'
  BY Saves
<1> HIDE DEF d
<1>2. task[u].at \in {"store", "record"} => ident'[task[u].dev].key # 0 \/ task[u].dev \in torn
  BY <1>0, <1>1 DEF Based, Fits, Held, Keyed
<1>3. \A e \in task[u].addrs :
        e \in swapped' \cup misplaced \/ ident'[e].key = 0 \/ ident'[e].key \in approved'[e]
  BY <1>0, <1>1 DEF Based
<1>4. task[u].at \in {"identity", "store", "pin"} =>
        \/ pins[task[u].dev][task[u].got.key] \in {0, task[u].got.pq}
        \/ ident'[task[u].dev].trust = 3 \/ task[u].dev \in racing'
  <2> SUFFICES ASSUME task[u].at \in {"identity", "store", "pin"}, ident[task[u].dev].trust = 3,
                      ident'[task[u].dev] # ident[task[u].dev]
               PROVE  task[u].dev \in racing'
    BY <1>0, <1>1 DEF Based
  <2>1. task[u].dev \in Devices
    BY <1>0 DEF Fits, Held, Keyed
  <2>2. task[u].dev = d /\ ident[d].key # key
    BY <1>1, <2>1
  <2>3. At(t, "identity") \/ Busy(t, d, {"identity", "store", "pin"})
    BY <2>2 DEF At, Busy, Dev
  <2> QED
    BY <1>1, <2>2, <2>3
<1>5. task[u].at = "refill" => pins[task[u].dev][task[u].got.key] = 0 \/ task[u].dev \in racing'
  BY <1>0, <1>1 DEF Based
<1> QED
  BY <1>2, <1>3, <1>4, <1>5 DEF Based

\* The identity is saved and nothing else.
LEMMA SaveAlone ==
  ASSUME IInv, NEW t \in Tasks, NEW s \in {"store", "record"}, Dev(t) \in Devices,
         task[t].got.key # 0, task[t].at \in {"identity", "accept"}, s = "store" => At(t, "identity"),
         SaveIdentity(t, Dev(t), task[t].got.key), Go(t, s),
         UNCHANGED <<bundle, peerList, pins, session, shown, built, sent, crossed, misplaced, torn>>
  PROVE  IInv'
<1> DEFINE key == task[t].got.key
<1>0. key \in Keys /\ key # 0
  BY Known DEF Bundle
<1>1. PICK x : /\ Moved(t, x) /\ x.at = s /\ x.dev = task[t].dev /\ x.addrs = task[t].addrs
               /\ x.got = task[t].got /\ x.ses = task[t].ses
  BY GoMoves, Known, StepNames DEF Held, Keyed
<1>2. /\ ident' \in [Devices -> Idents] /\ ident'[Dev(t)].key = key
      /\ \A e \in Devices : e # Dev(t) => ident'[e] = ident[e]
      /\ approved' \in [Devices -> SUBSET Keys]
      /\ \A e \in Devices : approved[e] \subseteq approved'[e]
      /\ swapped \subseteq swapped'
      /\ \A e \in Devices :
           ident'[e].trust \in {1, 3} => ident'[e].key \in approved'[e] \/ e \in misplaced
  BY <1>0, Saves
<1>3. \A u \in Tasks : Based(task[u], ident', pins, approved', swapped' \cup misplaced, racing', torn)
  BY <1>0, SavesBased
<1> HIDE DEF key
<1>4. Typed'
  BY <1>1, <1>2 DEF IInv, Typed, Moved
<1>5. TasksFit'
  <2>1. Fits(x, built)
    BY <1>1, Known DEF Fits, Held, Keyed
  <2> QED
    BY <1>1, <2>1 DEF IInv, TasksFit, Moved
<1>6. TasksBased'
  <2>1. Based(x, ident', pins, approved', swapped' \cup misplaced, racing', torn)
    <3>1. Based(task[t], ident', pins, approved', swapped' \cup misplaced, racing', torn)
      BY <1>3
    <3> QED
      BY <1>0, <1>1, <1>2, <3>1, Known DEF Based, At
  <2> QED
    BY <1>1, <1>3, <2>1 DEF TasksBased, Moved
<1>7. SessionsSound' /\ NumbersSound'
  BY DEF IInv, SessionsSound, NumbersSound, NumbersUsedOnce
<1>8. RowsAreSound'
  BY <1>0, <1>2 DEF IInv, RowsAreSound, Trusted
<1>9. WrappedWereTrusted'
  BY <1>2 DEF IInv, Typed, Wraps, WrappedWereTrusted
<1>10. Awake'
  BY <1>1 DEF IInv, Awake, At, Moved
<1> QED
  BY <1>4, <1>5, <1>6, <1>7, <1>8, <1>9, <1>10 DEF IInv

LEMMA SaveBundleIdentityStep ==
  ASSUME IInv, NEW t \in Tasks, SaveBundleIdentity(t)
  PROVE  IInv'
<1>1. CASE Refused(Dev(t), task[t].got.key)
  BY <1>1, SkipWell, Moves DEF SaveBundleIdentity, Tables, peer, tables, marks, IInv, Typed
<1>2. CASE ~Refused(Dev(t), task[t].got.key)
  <2>1. task[t].at = "identity" /\ Dev(t) \in Devices /\ task[t].got.key # 0
    BY Known DEF SaveBundleIdentity, At, Held, Keyed, Fits
  <2> QED
    BY <1>2, <2>1, SaveAlone DEF SaveBundleIdentity, At, peer
<1> QED
  BY <1>1, <1>2

LEMMA AcceptStep ==
  ASSUME IInv, NEW t \in Tasks, Accept(t)
  PROVE  IInv'
<1>1. CASE Refused(Dev(t), task[t].got.key)
  BY <1>1, OverWell, Moves DEF Accept, Tables, peer, tables, marks, IInv, Typed
<1>2. CASE ~Refused(Dev(t), task[t].got.key)
  <2>1. task[t].at = "accept" /\ Dev(t) \in Devices /\ task[t].got.key # 0
    BY Known DEF Accept, At, Held, Keyed, Fits
  <2> QED
    BY <1>2, <2>1, SaveAlone DEF Accept, At, peer
<1> QED
  BY <1>1, <1>2

-----------------------------------------------------------------------------
(* Sessions: built by a bundle or a key exchange ...                         *)

LEMMA Builds ==
  ASSUME IInv, NEW t \in Tasks, NEW s \in {"pin", "known"}, Dev(t) \in Devices, task[t].got.key # 0,
         task[t].at \in {"store", "record"}, s = "pin" => At(t, "store"), NewSession(t), Go(t, s),
         UNCHANGED <<bundle, peerList, ident, pins, shown, sent, approved, crossed, swapped,
                     misplaced, racing, torn>>
  PROVE  IInv'
<1> DEFINE d == Dev(t)
           key == task[t].got.key
<1>0. key \in Keys /\ key # 0
  BY Known DEF Bundle
<1>1. PICK x : /\ Moved(t, x) /\ x.at = s /\ x.dev = task[t].dev /\ x.addrs = task[t].addrs
               /\ x.got = task[t].got /\ x.ses = task[t].ses
  BY GoMoves, Known, StepNames DEF Held, Keyed
<1>2. built \in Nat /\ built < MaxBuilt /\ built' = built + 1 /\ built' \in 0..MaxBuilt
  BY DEF NewSession, IInv, Typed
<1>3. /\ session' \in [Devices -> Session]
      /\ session'[d].key = key /\ session'[d].id = built' /\ session'[d].n = 0
      /\ \A e \in Devices : e # d => session'[e] = session[e]
  <2> DEFINE new == [key |-> key, id |-> built', n |-> 0]
  <2>1. new \in Session /\ new.key = key /\ new.id = built' /\ new.n = 0
    BY <1>0, <1>2 DEF Session
  <2>2. session' = [session EXCEPT ![d] = new] /\ session \in [Devices -> Session]
    BY DEF NewSession, IInv, Typed
  <2> HIDE DEF new
  <2> QED
    BY <2>1, <2>2
<1> HIDE DEF key
<1>4. Typed'
  BY <1>1, <1>2, <1>3 DEF IInv, Typed, Moved
<1>5. TasksFit'
  <2>1. \A u \in Tasks : Fits(task[u], built) /\ task[u].ses.id \in Nat
    BY Known DEF Session
  <2>2. \A u \in Tasks : Fits(task[u], built')
    BY <1>2, <2>1 DEF Fits
  <2>3. Fits(x, built')
    BY <1>1, <2>2 DEF Fits, Held, Keyed
  <2> QED
    BY <1>1, <2>2, <2>3 DEF TasksFit, Moved
<1>6. TasksBased'
  <2>1. Based(x, ident, pins, approved, swapped \cup misplaced, racing, torn)
    BY <1>1, Known DEF Based, At
  <2> QED
    BY <1>1, <2>1 DEF IInv, TasksBased, Moved
<1>7. SessionsSound'
  <2>1. \A e \in Devices : session[e].id \in Nat
    BY DEF IInv, Typed, Session
  <2> QED
    BY <1>0, <1>2, <1>3, <2>1 DEF IInv, SessionsSound
<1>8. NumbersSound'
  <2>1. \A w \in sent : w.dev \in Devices /\ w.id \in Nat
    BY DEF IInv, Typed, Wraps
  <2> QED
    BY <1>2, <1>3, <2>1 DEF IInv, NumbersSound, NumbersUsedOnce
<1>9. RowsAreSound'
  <2>1. ident[d].key # 0 \/ d \in torn
    BY Known DEF Based, Dev
  <2> QED
    BY <1>3, <2>1 DEF IInv, RowsAreSound, Trusted
<1>10. WrappedWereTrusted'
  BY DEF IInv, WrappedWereTrusted
<1>11. Awake'
  BY <1>1 DEF Awake, At, Moved
<1> QED
  BY <1>4, <1>5, <1>6, <1>7, <1>8, <1>9, <1>10, <1>11 DEF IInv

LEMMA StoreSessionStep ==
  ASSUME IInv, NEW t \in Tasks, StoreSession(t) \/ Record(t)
  PROVE  IInv'
<1>1. CASE StoreSession(t)
  <2>1. task[t].at = "store" /\ Dev(t) \in Devices /\ task[t].got.key # 0
    BY <1>1, Known DEF StoreSession, At, Held, Keyed, Fits
  <2> QED
    BY <1>1, <2>1, Builds DEF StoreSession, At, peer, marks
<1>2. CASE Record(t)
  <2>1. task[t].at = "record" /\ Dev(t) \in Devices /\ task[t].got.key # 0
    BY <1>2, Known DEF Record, At, Held, Keyed, Fits
  <2> QED
    BY <1>2, <2>1, Builds DEF Record, At, peer, marks
<1> QED
  BY <1>1, <1>2

(* ... and put back by who loaded them, which leaves all but what was sent.  *)

LEMMA PutBack ==
  ASSUME IInv, NEW t \in Tasks, Dev(t) \in Devices, task[t].at \in {"wrap", "open"},
         NEW record \in Session, record.key = task[t].ses.key, record.id = task[t].ses.id,
         record.n >= task[t].ses.n, record.key # 0, StoreBack(t, record),
         NEW x, Moved(t, x), Fits(x, built), x.at \in {"load", "done", "known"},
         x.addrs \subseteq task[t].addrs,
         UNCHANGED <<bundle, peerList, pins, shown, built, misplaced, torn>>
  PROVE  /\ ident' \in [Devices -> Idents] /\ session' \in [Devices -> Session]
         /\ approved' \in [Devices -> SUBSET Keys]
         /\ session'[Dev(t)] = record
         /\ crossed \subseteq crossed'
         /\ TasksFit' /\ TasksBased' /\ SessionsSound' /\ RowsAreSound' /\ Awake'
         /\ \A w \in sent : w.dev \in crossed' \/ session'[w.dev].id # w.id \/ w.n < session'[w.dev].n
<1> DEFINE d == Dev(t)
<1>0. record.key \in Keys /\ record.id # 0 /\ record.id <= built /\ record.n \in Nat
  BY Known DEF Session, Fits
<1>1. SaveIdentity(t, d, record.key)
  BY DEF StoreBack
<1>2. /\ ident' \in [Devices -> Idents] /\ ident'[d].key = record.key
      /\ \A e \in Devices : e # d => ident'[e] = ident[e]
      /\ approved' \in [Devices -> SUBSET Keys]
      /\ \A e \in Devices :
           ident'[e].trust \in {1, 3} => ident'[e].key \in approved'[e] \/ e \in misplaced
  BY <1>0, <1>1, Saves
<1>3. \A u \in Tasks : Based(task[u], ident', pins, approved', swapped' \cup misplaced, racing', torn)
  BY <1>0, <1>1, SavesBased
<1>4. /\ session' \in [Devices -> Session] /\ session'[d] = record
      /\ \A e \in Devices : e # d => session'[e] = session[e]
  BY DEF StoreBack, IInv, Typed
<1>5. crossed \subseteq crossed' /\ (session[d] = task[t].ses \/ d \in crossed')
  BY DEF StoreBack
<1> HIDE DEF d
<1>6. TasksFit'
  BY DEF IInv, TasksFit, Moved
<1>7. TasksBased'
  <2>1. Based(x, ident', pins, approved', swapped' \cup misplaced, racing', torn)
    <3>1. Based(task[t], ident', pins, approved', swapped' \cup misplaced, racing', torn)
      BY <1>3
    <3> QED
      BY <3>1 DEF Based
  <2> QED
    BY <1>3, <2>1 DEF TasksBased, Moved
<1>8. SessionsSound'
  BY <1>0, <1>4 DEF IInv, SessionsSound
<1>9. RowsAreSound'
  BY <1>0, <1>2, <1>4 DEF IInv, RowsAreSound, Trusted
<1>10. Awake'
  BY DEF Awake, At, Moved
<1>11. \A w \in sent : w.dev \in crossed' \/ session'[w.dev].id # w.id \/ w.n < session'[w.dev].n
  <2> SUFFICES ASSUME NEW w \in sent, w.dev \notin crossed', session'[w.dev].id = w.id
               PROVE  w.n < session'[w.dev].n
    OBVIOUS
  <2>1. w.dev \in Devices /\ w.n \in Nat
    BY DEF IInv, Typed, Wraps
  <2>2. w.dev \notin crossed /\ (session[w.dev].id = w.id => w.n < session[w.dev].n)
    BY <1>5 DEF IInv, NumbersSound
  <2>3. CASE w.dev # d
    BY <1>4, <2>1, <2>2, <2>3
  <2>4. CASE w.dev = d
    <3>1. session[d] = task[t].ses /\ session'[d] = record
      BY <1>4, <1>5, <2>4
    <3>2. w.n < task[t].ses.n /\ task[t].ses.n \in Nat
      BY <2>2, <2>4, <3>1, Known DEF Session
    <3> QED
      BY <1>0, <2>1, <2>4, <3>1, <3>2
  <2> QED
    BY <2>3, <2>4
<1> QED
  BY <1>2, <1>4, <1>5, <1>6, <1>7, <1>8, <1>9, <1>10, <1>11 DEF d

LEMMA AdvanceIs ==
  ASSUME NEW s \in Session
  PROVE  Advance(s) \in Session /\ Advance(s).key = s.key /\ Advance(s).id = s.id /\ Advance(s).n = s.n + 1
BY DEF Advance, Session

\* The message that goes out has a number that was not used, and a key that was accepted.
LEMMA WrapStep ==
  ASSUME IInv, NEW t \in Tasks, Wrap(t)
  PROVE  IInv'
<1> DEFINE d == Dev(t)
           ses == task[t].ses
           left == task[t].addrs \ {d}
           w == [dev |-> d, key |-> ses.key, id |-> ses.id, n |-> ses.n, by |-> t]
<1>0. task[t].at = "wrap"
  BY DEF Wrap, At
<1>1. /\ d \in Devices /\ d \in task[t].addrs /\ ses \in Session
      /\ ses.id # 0 /\ ses.key # 0 /\ ses.id <= built /\ ses.id \in Nat /\ ses.n \in Nat
  BY <1>0, Known DEF Fits, Held, Session
<1>2. /\ Advance(ses) \in Session /\ Advance(ses).key = ses.key /\ Advance(ses).id = ses.id
      /\ Advance(ses).n = ses.n + 1
  BY <1>1, AdvanceIs
<1>3. StoreBack(t, Advance(ses)) /\ sent' = sent \cup {w}
  BY DEF Wrap
<1>4. PICK x : Moved(t, x) /\ Fits(x, built) /\ x.at \in {"load", "done"} /\ x.addrs \subseteq task[t].addrs
  <2>1. CASE Over(t)
    <3>1. PICK x : /\ Moved(t, x) /\ x.at = "done" /\ x.addrs = {} /\ x.ses.id = 0 /\ x.ses.key = 0
      BY <2>1, OverMoves, Known
    <3>2. Fits(x, built)
      BY <3>1 DEF Fits, Held, Keyed, IInv, Typed
    <3> QED
      BY <3>1, <3>2
  <2>2. CASE task' = [task EXCEPT ![t].addrs = left, ![t].at = "load", ![t].ses = NoSession]
    <3> DEFINE x == [task[t] EXCEPT !.addrs = left, !.at = "load", !.ses = NoSession]
    <3>1. x \in Task /\ x.at = "load" /\ x.addrs = left /\ x.ses = NoSession
      BY Known, Constants, StepNames DEF Task, Free
    <3>2. task' = [task EXCEPT ![t] = x]
      BY <2>2, Known
    <3> HIDE DEF x
    <3>3. Moved(t, x)
      BY <3>1, <3>2, Known, IsMoved
    <3>4. Fits(x, built)
      BY <3>1, Constants DEF Fits, Held, Keyed, IInv, Typed
    <3> QED
      BY <3>1, <3>3, <3>4
  <2> QED
    BY <2>1, <2>2 DEF Wrap
<1> HIDE DEF ses, left
<1>5. UNCHANGED <<bundle, peerList, pins, shown, built, misplaced, torn>>
  BY DEF Wrap, peer
<1>6. /\ ident' \in [Devices -> Idents] /\ session' \in [Devices -> Session]
      /\ approved' \in [Devices -> SUBSET Keys]
      /\ session'[d] = Advance(ses)
      /\ crossed \subseteq crossed'
      /\ TasksFit' /\ TasksBased' /\ SessionsSound' /\ RowsAreSound' /\ Awake'
      /\ \A v \in sent : v.dev \in crossed' \/ session'[v.dev].id # v.id \/ v.n < session'[v.dev].n
  <2>1. Advance(ses).n >= ses.n
    BY <1>1, <1>2
  <2> QED
    BY <1>0, <1>1, <1>2, <1>3, <1>4, <1>5, <2>1, PutBack DEF ses
<1>7. w \in Wraps /\ w.dev = d /\ w.id = ses.id /\ w.n = ses.n /\ w.key = ses.key /\ w.by = t
  BY <1>1 DEF Wraps, Session
<1>8. Typed'
  BY <1>3, <1>4, <1>5, <1>6, <1>7 DEF IInv, Typed, Moved
<1>9. WrappedWereTrusted'
  <2>1. SaveIdentity(t, d, ses.key)
    BY <1>2, <1>3 DEF StoreBack
  <2>2. /\ \A e \in Devices : approved[e] \subseteq approved'[e]
        /\ swapped \subseteq swapped' /\ misplaced' = misplaced
        /\ ident[d].key # ses.key => d \in swapped'
    BY <1>1, <1>5, <2>1, Saves DEF Session
  <2>3. d \in swapped \cup misplaced \/ ident[d].key = 0 \/ ident[d].key \in approved[d]
    BY <1>1, Known DEF Based
  <2>4. ses.key \in approved'[d] \/ d \in swapped' \cup misplaced'
    BY <1>1, <2>2, <2>3
  <2>5. \A v \in sent : v.key \in approved'[v.dev] \/ v.dev \in swapped' \cup misplaced'
    BY <2>2 DEF IInv, Typed, Wraps, WrappedWereTrusted
  <2> QED
    BY <1>3, <1>7, <2>4, <2>5 DEF WrappedWereTrusted
<1>10. NumbersSound'
  <2>1. session[d] = ses \/ d \in crossed'
    BY <1>3 DEF StoreBack, ses
  <2>2. \A v \in sent : v.dev = d /\ v.id = ses.id => v.n < ses.n \/ d \in crossed'
    BY <1>6, <2>1 DEF IInv, NumbersSound
  <2>3. \A v \in sent : v.n \in Nat
    BY DEF IInv, Typed, Wraps
  <2>4. \A v \in sent : v.dev = d /\ v.id = ses.id /\ v.n = ses.n => d \in crossed'
    BY <1>1, <2>2, <2>3
  <2>5. NumbersUsedOnce'
    <3> SUFFICES ASSUME NEW a \in sent', NEW b \in sent', a.dev = b.dev, a.id = b.id, a.n = b.n
                 PROVE  a.by = b.by \/ a.dev \in crossed'
      BY DEF NumbersUsedOnce
    <3>1. CASE a \in sent /\ b \in sent
      BY <1>6, <3>1 DEF IInv, NumbersSound, NumbersUsedOnce
    <3>2. CASE a = w \/ b = w
      <4> HIDE DEF w
      <4> QED
        BY <1>3, <1>7, <2>4, <3>2
    <3> QED
      BY <1>3, <3>1, <3>2
  <2>6. \A v \in sent' :
          /\ v.id # 0 /\ v.id <= built'
          /\ v.dev \in crossed' \/ session'[v.dev].id # v.id \/ v.n < session'[v.dev].n
    <3>1. w.n < session'[w.dev].n /\ w.id # 0 /\ w.id <= built'
      BY <1>1, <1>2, <1>5, <1>6, <1>7
    <3>2. \A v \in sent : v.id # 0 /\ v.id <= built'
      BY <1>5 DEF IInv, NumbersSound
    <3> HIDE DEF w
    <3> QED
      BY <1>3, <1>6, <3>1, <3>2
  <2> QED
    BY <2>5, <2>6 DEF NumbersSound
<1> QED
  BY <1>6, <1>8, <1>9, <1>10 DEF IInv

LEMMA OpenStep ==
  ASSUME IInv, NEW t \in Tasks, Open(t)
  PROVE  IInv'
<1> DEFINE d == Dev(t)
           ses == task[t].ses
           x == [task[t] EXCEPT !.at = "known", !.ses = NoSession]
           y == [task[t] EXCEPT !.at = "bundle", !.ses = NoSession]
<1>0. task[t].at = "open" /\ d \in Devices /\ task[t].got.key # 0
  BY Known DEF Open, At, Held, Keyed, Fits
<1>1. /\ x \in Task /\ x.at = "known" /\ x.dev = d /\ x.addrs = task[t].addrs /\ x.ses = NoSession
      /\ y \in Task /\ y.at = "bundle" /\ y.dev = d /\ y.addrs = task[t].addrs /\ y.ses = NoSession
  BY Known, Constants, StepNames DEF Task, Held, Keyed
<1>2. CASE ses.key = task[t].got.key /\ ~Refused(d, ses.key)
  <2>1. /\ StoreBack(t, ses) /\ task' = [task EXCEPT ![t].at = "known", ![t].ses = NoSession]
        /\ UNCHANGED <<bundle, peerList, pins, shown, built, misplaced, torn, sent>>
    BY <1>2 DEF Open, peer
  <2>2. task' = [task EXCEPT ![t] = x]
    BY <2>1, Known
  <2> HIDE DEF x
  <2>3. Moved(t, x)
    BY <1>1, <2>2, Known, IsMoved
  <2>4. Fits(x, built)
    BY <1>0, <1>1, Constants DEF Fits, Held, Keyed, IInv, Typed
  <2>5. ses \in Session /\ ses.key # 0 /\ ses.n >= ses.n
    BY <1>0, <1>2, Known DEF Session
  <2>6. /\ ident' \in [Devices -> Idents] /\ session' \in [Devices -> Session]
        /\ approved' \in [Devices -> SUBSET Keys]
        /\ crossed \subseteq crossed'
        /\ TasksFit' /\ TasksBased' /\ SessionsSound' /\ RowsAreSound' /\ Awake'
        /\ \A v \in sent : v.dev \in crossed' \/ session'[v.dev].id # v.id \/ v.n < session'[v.dev].n
    BY <1>0, <1>1, <2>1, <2>3, <2>4, <2>5, PutBack
  <2>7. /\ \A e \in Devices : approved[e] \subseteq approved'[e]
        /\ swapped \subseteq swapped'
    BY <1>0, <2>1, <2>5, Saves DEF StoreBack, Session
  <2>8. Typed'
    BY <2>1, <2>3, <2>6 DEF IInv, Typed, Moved
  <2>9. WrappedWereTrusted'
    BY <2>1, <2>7 DEF IInv, Typed, Wraps, WrappedWereTrusted
  <2>10. NumbersSound'
    BY <2>1, <2>6 DEF IInv, NumbersSound, NumbersUsedOnce
  <2> QED
    BY <2>6, <2>8, <2>9, <2>10 DEF IInv
<1>3. CASE ~(ses.key = task[t].got.key /\ ~Refused(d, ses.key))
  <2>1. /\ Over(t) \/ task' = [task EXCEPT ![t].at = "bundle", ![t].ses = NoSession]
        /\ UNCHANGED Tables /\ shown' = shown
    BY <1>3 DEF Open, Tables, peer, marks
  <2>2. CASE Over(t)
    BY <2>1, <2>2, OverWell, Moves DEF IInv, Typed
  <2>3. CASE task' = [task EXCEPT ![t].at = "bundle", ![t].ses = NoSession]
    <3>1. task' = [task EXCEPT ![t] = y]
      BY <2>3, Known
    <3> HIDE DEF y
    <3>2. Moved(t, y)
      BY <1>1, <3>1, Known, IsMoved
    <3>3. Fits(y, built)
      BY <1>0, <1>1, Constants DEF Fits, Keyed, IInv, Typed
    <3>4. Based(y, ident, pins, approved, swapped \cup misplaced, racing, torn)
      BY <1>1, Known DEF Based
    <3>5. MovesWell(t)
      BY <1>1, <3>2, <3>3, <3>4 DEF MovesWell
    <3> QED
      BY <2>1, <3>5, Moves DEF IInv, Typed
  <2> QED
    BY <2>1, <2>2, <2>3
<1> QED
  BY <1>2, <1>3

-----------------------------------------------------------------------------
(* Pins.                                                                     *)

LEMMA Pinned ==
  ASSUME IInv, NEW t \in Tasks, Dev(t) \in Devices, task[t].got.key # 0, Pin(t)
  PROVE  /\ pins' \in [Devices -> [1..MaxKeys -> Keys]]
         /\ racing \subseteq racing'
         /\ \A e \in Devices, k \in 1..MaxKeys :
              pins'[e][k] # pins[e][k] => e = Dev(t) /\ k = task[t].got.key
         /\ \A u \in Tasks : u # t =>
              Based(task[u], ident, pins', approved, swapped \cup misplaced, racing', torn)
<1> DEFINE d == Dev(t)
           key == task[t].got.key
           pq == task[t].got.pq
<1>0. key \in 1..MaxKeys /\ pq \in Keys
  BY Known DEF Bundle, Keys
<1>1. pins' = [pins EXCEPT ![d][key] = pq] /\ pins \in [Devices -> [1..MaxKeys -> Keys]]
  BY DEF Pin, IInv, Typed
<1>2. racing' = IF Busy(t, d, {"identity", "store", "pin", "refill"}) THEN racing \cup {d} ELSE racing
  BY DEF Pin
<1> HIDE DEF key, pq
<1>3. /\ pins' \in [Devices -> [1..MaxKeys -> Keys]]
      /\ \A e \in Devices, k \in 1..MaxKeys : pins'[e][k] # pins[e][k] => e = d /\ k = key
  BY <1>0, <1>1
<1>4. ASSUME NEW u \in Tasks, u # t
      PROVE  Based(task[u], ident, pins', approved, swapped \cup misplaced, racing', torn)
  <2>1. /\ Based(task[u], ident, pins, approved, swapped \cup misplaced, racing, torn)
        /\ Fits(task[u], built) /\ task[u].got \in Bundle
    BY Known
  <2>2. task[u].at \in {"identity", "store", "pin", "refill"} =>
          /\ task[u].dev \in Devices /\ task[u].got.key \in 1..MaxKeys
          /\ task[u].dev = d => d \in racing'
    BY <1>2, <1>4, <2>1 DEF Fits, Held, Keyed, Busy, Dev, Bundle, Keys
  <2>3. task[u].at \in {"identity", "store", "pin", "refill"} =>
          pins'[task[u].dev][task[u].got.key] = pins[task[u].dev][task[u].got.key] \/ task[u].dev \in racing'
    BY <1>3, <2>2
  <2> QED
    BY <1>2, <2>1, <2>3 DEF Based
<1> QED
  BY <1>2, <1>3, <1>4 DEF key

LEMMA PinStep ==
  ASSUME IInv, NEW t \in Tasks, PinBundle(t) \/ Fill(t)
  PROVE  IInv'
<1>0. task[t].at \in {"pin", "refill"} /\ Dev(t) \in Devices /\ task[t].got.key # 0
  BY Known DEF PinBundle, Fill, At, Held, Keyed, Fits
<1>1. /\ Pin(t)
      /\ UNCHANGED <<bundle, peerList, ident, session, shown, built, sent, approved, crossed, swapped,
                     misplaced, torn>>
  BY DEF PinBundle, Fill, peer, marks
<1>2. /\ pins' \in [Devices -> [1..MaxKeys -> Keys]] /\ racing \subseteq racing'
      /\ \A u \in Tasks : u # t =>
           Based(task[u], ident, pins', approved, swapped \cup misplaced, racing', torn)
  BY <1>0, <1>1, Pinned
<1>3. PICK x : /\ Moved(t, x) /\ Fits(x, built) /\ x.at \in {"trust", "done"}
               /\ x.addrs \subseteq task[t].addrs
  <2>1. CASE Go(t, "trust")
    <3>1. PICK x : /\ Moved(t, x) /\ x.at = "trust" /\ x.dev = task[t].dev /\ x.addrs = task[t].addrs
                   /\ x.got = task[t].got /\ x.ses = task[t].ses
      BY <2>1, GoMoves, Known, StepNames DEF Free
    <3>2. Fits(x, built)
      BY <1>0, <3>1, Known DEF Fits, Keyed
    <3> QED
      BY <3>1, <3>2
  <2>2. CASE Over(t)
    <3>1. PICK x : /\ Moved(t, x) /\ x.at = "done" /\ x.addrs = {} /\ x.ses.id = 0 /\ x.ses.key = 0
      BY <2>2, OverMoves, Known
    <3>2. Fits(x, built)
      BY <3>1 DEF Fits, Held, Keyed, IInv, Typed
    <3> QED
      BY <3>1, <3>2
  <2> QED
    BY <2>1, <2>2 DEF PinBundle, Fill
<1>4. Based(x, ident, pins', approved, swapped \cup misplaced, racing', torn)
  BY <1>3, Known DEF Based
<1>5. Typed'
  BY <1>1, <1>2, <1>3 DEF IInv, Typed, Moved
<1>6. TasksFit' /\ TasksBased'
  BY <1>1, <1>2, <1>3, <1>4 DEF IInv, TasksFit, TasksBased, Moved
<1>7. SessionsSound' /\ RowsAreSound' /\ WrappedWereTrusted' /\ NumbersSound'
  BY <1>1 DEF IInv, SessionsSound, RowsAreSound, Trusted, WrappedWereTrusted, NumbersSound, NumbersUsedOnce
<1>8. Awake'
  BY <1>1, <1>3 DEF IInv, Awake, At, Moved
<1> QED
  BY <1>5, <1>6, <1>7, <1>8 DEF IInv

-----------------------------------------------------------------------------
(* Resets.                                                                   *)

LEMMA DropSessionsStep ==
  ASSUME IInv, NEW t \in Tasks, DropSessions(t)
  PROVE  IInv'
<1>1. PICK x : /\ Moved(t, x) /\ x.at = "rows" /\ x.dev = task[t].dev /\ x.addrs = task[t].addrs
               /\ x.got = task[t].got /\ x.ses = task[t].ses
  BY GoMoves, Known, StepNames DEF DropSessions
<1>2. /\ session' \in [Devices -> Session]
      /\ \A d \in Devices : session'[d].id = 0 /\ session'[d].key = 0
  BY Constants DEF DropSessions
<1>3. UNCHANGED <<bundle, peerList, ident, pins, shown, built, sent, approved, crossed, swapped,
                  misplaced, racing, torn>>
  BY DEF DropSessions, peer, marks
<1>4. Typed'
  BY <1>1, <1>2, <1>3 DEF IInv, Typed, Moved
<1>5. TasksFit'
  <2>1. Fits(x, built)
    BY <1>1, Known DEF Fits, Held, Keyed
  <2> QED
    BY <1>1, <1>3, <2>1 DEF IInv, TasksFit, Moved
<1>6. TasksBased'
  <2>1. Based(x, ident, pins, approved, swapped \cup misplaced, racing, torn)
    BY <1>1, Known DEF Based
  <2> QED
    BY <1>1, <1>3, <2>1 DEF IInv, TasksBased, Moved
<1>7. SessionsSound' /\ Awake'
  <2>1. built \in Nat
    BY DEF IInv, Typed
  <2> QED
    BY <1>2, <1>3, <2>1 DEF SessionsSound, Awake
<1>8. RowsAreSound' /\ WrappedWereTrusted'
  BY <1>2, <1>3 DEF IInv, RowsAreSound, Trusted, WrappedWereTrusted
<1>9. NumbersSound'
  <2>1. \A w \in sent : w.dev \in Devices
    BY DEF IInv, Typed, Wraps
  <2> QED
    BY <1>2, <1>3, <2>1 DEF IInv, NumbersSound, NumbersUsedOnce
<1> QED
  BY <1>4, <1>5, <1>6, <1>7, <1>8, <1>9 DEF IInv

LEMMA DropIdentitiesStep ==
  ASSUME IInv, NEW t \in Tasks, DropIdentities(t)
  PROVE  IInv'
<1>1. PICK x : /\ Moved(t, x) /\ x.at = "pins" /\ x.dev = task[t].dev /\ x.addrs = task[t].addrs
               /\ x.got = task[t].got /\ x.ses = task[t].ses
  BY GoMoves, Known, StepNames DEF DropIdentities, Free
<1>2. /\ ident' \in [Devices -> Idents]
      /\ \A d \in Devices : ident'[d].key = 0 /\ ident'[d].trust = 0
  BY Constants DEF DropIdentities, Idents
<1>3. UNCHANGED <<bundle, peerList, pins, session, shown, built, sent, approved, crossed, swapped,
                  misplaced>>
  BY DEF DropIdentities, peer, marks
<1>4. /\ torn' = torn \cup {d \in Devices : session[d].id # 0 /\ \E u \in Tasks \ {t} : ~At(u, "idle")}
                      \cup {d \in Devices : Busy(t, d, {"store", "record"})}
      /\ racing' = racing \cup {d \in Devices : Busy(t, d, {"identity", "store", "pin"})}
  BY DEF DropIdentities
<1>5. Typed'
  BY <1>1, <1>2, <1>3 DEF IInv, Typed, Moved
<1>6. TasksFit'
  <2>1. Fits(x, built)
    BY <1>1, Known DEF Fits, Held, Keyed
  <2> QED
    BY <1>1, <1>3, <2>1 DEF IInv, TasksFit, Moved
<1>7. ASSUME NEW u \in Tasks, u # t
      PROVE  Based(task[u], ident', pins, approved, swapped \cup misplaced, racing', torn')
  <2>1. /\ Based(task[u], ident, pins, approved, swapped \cup misplaced, racing, torn)
        /\ Fits(task[u], built) /\ task[u].addrs \subseteq Devices
    BY Known
  <2>2. task[u].at \in {"store", "record"} => task[u].dev \in torn'
    BY <1>4, <1>7, <2>1 DEF Fits, Held, Keyed, Busy, Dev
  <2>3. task[u].at \in {"identity", "store", "pin"} => task[u].dev \in racing'
    BY <1>4, <1>7, <2>1 DEF Fits, Held, Keyed, Busy, Dev
  <2>4. \A d \in task[u].addrs : ident'[d].key = 0
    BY <1>2, <2>1
  <2> QED
    BY <1>4, <2>1, <2>2, <2>3, <2>4 DEF Based
<1>8. TasksBased'
  <2>1. Based(x, ident', pins, approved, swapped \cup misplaced, racing', torn')
    BY <1>1, <1>2, Known DEF Based
  <2> QED
    BY <1>1, <1>3, <1>7, <2>1 DEF TasksBased, Moved
<1>9. RowsAreSound'
  <2>1. \A d \in Devices : session[d].id # 0 => d \in torn'
    BY <1>4 DEF IInv, Awake, DropIdentities
  <2> QED
    BY <1>2, <1>3, <2>1 DEF RowsAreSound, Trusted
<1>10. SessionsSound' /\ WrappedWereTrusted' /\ NumbersSound'
  BY <1>3 DEF IInv, SessionsSound, WrappedWereTrusted, NumbersSound, NumbersUsedOnce
<1>11. Awake'
  BY <1>1, <1>3 DEF IInv, Awake, At, Moved
<1> QED
  BY <1>5, <1>6, <1>8, <1>9, <1>10, <1>11 DEF IInv

LEMMA DropPinsStep ==
  ASSUME IInv, NEW t \in Tasks, DropPins(t)
  PROVE  IInv'
<1>1. PICK x : /\ Moved(t, x) /\ x.at = "forget" /\ x.dev = task[t].dev /\ x.addrs = task[t].addrs
               /\ x.got = task[t].got /\ x.ses = task[t].ses
  BY GoMoves, Known, StepNames DEF DropPins, Free
<1>2. /\ pins' \in [Devices -> [1..MaxKeys -> Keys]]
      /\ \A d \in Devices, k \in 1..MaxKeys : pins'[d][k] = 0
  BY Constants DEF DropPins
<1>3. UNCHANGED <<bundle, peerList, ident, session, shown, built, sent, approved, crossed, swapped,
                  misplaced, racing, torn>>
  BY DEF DropPins, peer, marks
<1>4. Typed'
  BY <1>1, <1>2, <1>3 DEF IInv, Typed, Moved
<1>5. TasksFit'
  <2>1. Fits(x, built)
    BY <1>1, Known DEF Fits, Held, Keyed
  <2> QED
    BY <1>1, <1>3, <2>1 DEF IInv, TasksFit, Moved
<1>6. ASSUME NEW u \in Tasks
      PROVE  Based(task[u], ident, pins', approved, swapped \cup misplaced, racing, torn)
  <2>1. /\ Based(task[u], ident, pins, approved, swapped \cup misplaced, racing, torn)
        /\ Fits(task[u], built) /\ task[u].got \in Bundle
    BY Known
  <2>2. task[u].at \in {"identity", "store", "pin", "refill"} => pins'[task[u].dev][task[u].got.key] = 0
    BY <1>2, <2>1 DEF Fits, Held, Keyed, Bundle, Keys
  <2> QED
    BY <2>1, <2>2 DEF Based
<1>7. TasksBased'
  <2>1. Based(x, ident, pins', approved, swapped \cup misplaced, racing, torn)
    BY <1>1, Known DEF Based
  <2> QED
    BY <1>1, <1>3, <1>6, <2>1 DEF TasksBased, Moved
<1>8. SessionsSound' /\ RowsAreSound' /\ WrappedWereTrusted' /\ NumbersSound'
  BY <1>3 DEF IInv, SessionsSound, RowsAreSound, Trusted, WrappedWereTrusted, NumbersSound, NumbersUsedOnce
<1>9. Awake'
  BY <1>1, <1>3 DEF IInv, Awake, At, Moved
<1> QED
  BY <1>4, <1>5, <1>7, <1>8, <1>9 DEF IInv

-----------------------------------------------------------------------------
(* The peer, the clock and the user.                                         *)

LEMMA OutsideStep ==
  ASSUME IInv, NEW d \in Devices, Rekey(d) \/ ChangeList(d) \/ Expire(d) \/ Show(d)
  PROVE  IInv'
<1>1. /\ UNCHANGED <<ident, pins, session, built, task, sent, approved, crossed, swapped, misplaced,
                     racing, torn>>
      /\ peerList' \subseteq Devices /\ shown' \in [Devices -> Keys]
  <2>1. peerList \subseteq Devices /\ shown \in [Devices -> Keys] /\ ident[d].key \in Keys
    BY DEF IInv, Typed, Idents
  <2> QED
    BY <2>1 DEF Rekey, ChangeList, Expire, Show, peer, tables, marks
<1>2. bundle' \in [Devices -> Bundle] /\ \A e \in Devices : bundle'[e].key # 0 /\ bundle'[e].key <= bundle'[e].pq
  <2>1. /\ bundle \in [Devices -> Bundle] /\ \A e \in Devices : bundle[e].key # 0 /\ bundle[e].key <= bundle[e].pq
        /\ bundle[d].key \in Nat /\ bundle[d].pq \in Nat
    BY DEF IInv, Typed, Bundle, Keys
  <2>2. CASE bundle' = bundle
    BY <2>1, <2>2
  <2>3. ASSUME NEW b \in Bundle, b.key # 0, b.key <= b.pq, bundle' = [bundle EXCEPT ![d] = b]
        PROVE  bundle' \in [Devices -> Bundle] /\ \A e \in Devices : bundle'[e].key # 0 /\ bundle'[e].key <= bundle'[e].pq
    BY <2>1, <2>3
  <2>4. CASE Rekey(d)
    <3> DEFINE a == [bundle[d] EXCEPT !.pq = @ + 1, !.key = @ + 1]
               c == [bundle[d] EXCEPT !.pq = @ + 1]
    <3>a. /\ bundle[d] \in Bundle /\ bundle[d].pq < MaxKeys /\ MaxKeys \in Nat
          /\ bundle[d].key # 0 /\ bundle[d].key <= bundle[d].pq
      BY <2>1, <2>4, PeersAssumption DEF Rekey
    <3>1. /\ a \in Bundle /\ a.key # 0 /\ a.key <= a.pq
          /\ c \in Bundle /\ c.key # 0 /\ c.key <= c.pq
      <4> DEFINE b == bundle[d]
      <4>1. b \in Bundle /\ b.key \in Nat /\ b.pq \in Nat /\ b.key # 0 /\ b.key <= b.pq /\ b.pq < MaxKeys
        BY <3>a, <2>1
      <4>2. a = [b EXCEPT !.pq = b.pq + 1, !.key = b.key + 1] /\ c = [b EXCEPT !.pq = b.pq + 1]
        OBVIOUS
      <4>3. b.key + 1 \in Keys /\ b.pq + 1 \in Keys /\ b.key \in Keys
        BY <3>a, <4>1 DEF Keys
      <4> HIDE DEF a, b, c
      <4>4. /\ a \in Bundle /\ a.key = b.key + 1 /\ a.pq = b.pq + 1
            /\ c \in Bundle /\ c.key = b.key /\ c.pq = b.pq + 1
        BY <4>1, <4>2, <4>3 DEF Bundle
      <4> QED
        BY <4>1, <4>4
    <3>2. bundle' = [bundle EXCEPT ![d] = a] \/ bundle' = [bundle EXCEPT ![d] = c]
      BY <2>1, <2>4 DEF Rekey
    <3> HIDE DEF a, c
    <3> QED
      BY <2>3, <3>1, <3>2
  <2> QED
    BY <2>2, <2>4 DEF ChangeList, Expire, Show, peer
<1>3. Typed'
  BY <1>1, <1>2 DEF IInv, Typed
<1> QED
  BY <1>1, <1>3 DEF IInv, TasksFit, TasksBased, SessionsSound, Awake, At, RowsAreSound, Trusted,
                    WrappedWereTrusted, NumbersSound, NumbersUsedOnce

LEMMA SetTrustStep ==
  ASSUME IInv, NEW d \in Devices, NEW trust \in {1, 2, 3}, SetTrust(d, trust)
  PROVE  IInv'
<1>1. /\ UNCHANGED <<bundle, peerList, pins, session, shown, built, task, sent, crossed, swapped, torn>>
      /\ ident' = [ident EXCEPT ![d].trust = trust] /\ ident[d].key # 0
      /\ racing' = IF \E t \in Tasks : Dev(t) = d /\ task[t].at \in {"identity", "store", "pin"}
                   THEN racing \cup {d} ELSE racing
  BY DEF SetTrust, peer
<1>2. /\ ident' \in [Devices -> Idents] /\ \A e \in Devices : ident'[e].key = ident[e].key
      /\ \A e \in Devices : e # d => ident'[e] = ident[e]
      /\ ident'[d].trust = trust
  <2> DEFINE row == [ident[d] EXCEPT !.trust = trust]
  <2>1. ident \in [Devices -> Idents]
    BY DEF IInv, Typed
  <2>2. row \in Idents /\ row.trust = trust /\ row.key = ident[d].key
    BY <2>1 DEF Idents
  <2>3. ident' = [ident EXCEPT ![d] = row]
    BY <1>1, <2>1
  <2> HIDE DEF row
  <2> QED
    BY <2>1, <2>2, <2>3
<1>3. /\ approved' \in [Devices -> SUBSET Keys] /\ misplaced \subseteq misplaced'
      /\ \A e \in Devices : approved[e] \subseteq approved'[e]
      /\ trust # 2 => ident[d].key \in approved'[d] \/ d \in misplaced'
  <2>1. approved \in [Devices -> SUBSET Keys] /\ shown[d] \in Keys
    BY DEF IInv, Typed
  <2>2. CASE trust = 2
    BY <2>1, <2>2 DEF SetTrust
  <2>3. CASE trust # 2
    <3>1. /\ approved' = [approved EXCEPT ![d] = @ \cup {shown[d]}]
          /\ misplaced' = IF shown[d] = ident[d].key THEN misplaced ELSE misplaced \cup {d}
      BY <2>3 DEF SetTrust
    <3> QED
      BY <2>1, <3>1
  <2> QED
    BY <2>2, <2>3
<1>4. Typed'
  BY <1>1, <1>2, <1>3 DEF IInv, Typed
<1>5. ASSUME NEW u \in Tasks
      PROVE  Based(task[u], ident', pins, approved', swapped \cup misplaced', racing', torn)
  <2>1. /\ Based(task[u], ident, pins, approved, swapped \cup misplaced, racing, torn)
        /\ Fits(task[u], built) /\ task[u].addrs \subseteq Devices
    BY Known
  <2>2. task[u].at \in {"store", "record"} => ident'[task[u].dev].key # 0 \/ task[u].dev \in torn
    BY <1>2, <2>1 DEF Based, Fits, Held, Keyed
  <2>3. \A e \in task[u].addrs :
          e \in swapped \cup misplaced' \/ ident'[e].key = 0 \/ ident'[e].key \in approved'[e]
    BY <1>2, <1>3, <2>1 DEF Based
  <2>4. task[u].at \in {"identity", "store", "pin"} =>
          \/ pins[task[u].dev][task[u].got.key] \in {0, task[u].got.pq}
          \/ ident'[task[u].dev].trust = 3 \/ task[u].dev \in racing'
    BY <1>1, <1>2, <2>1 DEF Based, Fits, Held, Keyed, Dev
  <2>5. task[u].at = "refill" => pins[task[u].dev][task[u].got.key] = 0 \/ task[u].dev \in racing'
    BY <1>1, <2>1 DEF Based
  <2> QED
    BY <2>2, <2>3, <2>4, <2>5 DEF Based
<1>6. TasksBased'
  BY <1>1, <1>5 DEF TasksBased
<1>7. TasksFit' /\ SessionsSound' /\ Awake' /\ NumbersSound'
  BY <1>1 DEF IInv, TasksFit, SessionsSound, Awake, At, NumbersSound, NumbersUsedOnce
<1>8. RowsAreSound'
  <2>1. \A e \in Devices : ident'[e].trust \in {1, 3} => ident'[e].key \in approved'[e] \/ e \in misplaced'
    BY <1>2, <1>3 DEF IInv, RowsAreSound, Trusted
  <2>2. \A e \in Devices : session[e].id # 0 /\ ident'[e].key = 0 => e \in torn
    BY <1>2 DEF IInv, RowsAreSound
  <2> QED
    BY <1>1, <2>1, <2>2 DEF RowsAreSound, Trusted
<1>9. WrappedWereTrusted'
  BY <1>1, <1>3 DEF IInv, Typed, Wraps, WrappedWereTrusted
<1> QED
  BY <1>4, <1>6, <1>7, <1>8, <1>9 DEF IInv

-----------------------------------------------------------------------------
(* The invariant.                                                            *)

LEMMA Starting0 == Init => IInv
<1> SUFFICES ASSUME Init PROVE IInv
  OBVIOUS
<1>1. PICK n \in {0, 1} :
        /\ ident = [d \in Devices |-> [key |-> n, trust |-> n]]
        /\ pins = [d \in Devices |-> [k \in 1..MaxKeys |-> IF k = 1 THEN n ELSE 0]]
        /\ session = [d \in Devices |-> [key |-> n, id |-> n, n |-> 0]]
        /\ shown = [d \in Devices |-> n]
        /\ built = n
        /\ approved = [d \in Devices |-> IF n = 0 THEN {} ELSE {1}]
  <2>1. PICK start \in Starts :
          LET n == IF start = "fresh" THEN 0 ELSE 1
          IN /\ ident = [d \in Devices |-> [key |-> n, trust |-> n]]
             /\ pins = [d \in Devices |-> [k \in 1..MaxKeys |-> IF k = 1 THEN n ELSE 0]]
             /\ session = [d \in Devices |-> [key |-> n, id |-> n, n |-> 0]]
             /\ shown = [d \in Devices |-> n]
             /\ built = n
             /\ approved = [d \in Devices |-> IF n = 0 THEN {} ELSE {1}]
    BY DEF Init
  <2> QED
    BY <2>1
<1>2. n \in Keys /\ n \in 0..3 /\ n \in 0..MaxBuilt /\ 1 \in Keys
  BY DEF Keys
<1>3. /\ ident \in [Devices -> Idents] /\ \A d \in Devices : ident[d].key = n /\ ident[d].trust = n
      /\ session \in [Devices -> Session]
      /\ \A d \in Devices : session[d].key = n /\ session[d].id = n
  BY <1>1, <1>2 DEF Idents, Session
<1>4. pins \in [Devices -> [1..MaxKeys -> Keys]]
  BY <1>1, <1>2, Constants
<1>5. approved \in [Devices -> SUBSET Keys] /\ (n = 1 => \A d \in Devices : 1 \in approved[d])
  BY <1>1, <1>2
<1>6. bundle \in [Devices -> Bundle] /\ \A d \in Devices : bundle[d].key # 0 /\ bundle[d].key <= bundle[d].pq
  BY <1>2 DEF Init, Bundle
<1>7. task \in [Tasks -> Task] /\ \A t \in Tasks : task[t] = Blank
  BY Constants DEF Init
<1>8. Typed
  <2>1. peerList \subseteq Devices /\ sent \subseteq Wraps /\ shown \in [Devices -> Keys] /\ built \in 0..MaxBuilt
    BY <1>1, <1>2 DEF Init
  <2> QED
    BY <1>3, <1>4, <1>5, <1>6, <1>7, <2>1 DEF Typed
<1>9. TasksFit /\ TasksBased /\ Awake
  <2>1. Fits(Blank, built)
    BY <1>1, Constants DEF Fits, Held, Keyed
  <2>2. Based(Blank, ident, pins, approved, swapped \cup misplaced, racing, torn)
    BY Constants DEF Based
  <2> QED
    BY <1>7, <2>1, <2>2, Constants DEF TasksFit, TasksBased, Awake, At
<1>10. SessionsSound /\ RowsAreSound
  BY <1>1, <1>3, <1>5 DEF SessionsSound, RowsAreSound, Trusted
<1>11. WrappedWereTrusted /\ NumbersSound
  BY DEF Init, WrappedWereTrusted, NumbersSound, NumbersUsedOnce
<1> QED
  BY <1>8, <1>9, <1>10, <1>11 DEF IInv

LEMMA Steps0 ==
  ASSUME IInv, Next
  PROVE  IInv'
<1>1. CASE \E d \in Devices : Rekey(d) \/ ChangeList(d) \/ Expire(d) \/ Show(d)
  BY <1>1, OutsideStep
<1>2. CASE \E d \in Devices, trust \in {1, 2, 3} : SetTrust(d, trust)
  BY <1>2, SetTrustStep
<1>3. ASSUME NEW t \in Sends \cup Receives, EstablishSession(t)
      PROVE  IInv'
  BY <1>3, FetchBundleStep, CheckPinStep, SaveBundleIdentityStep, StoreSessionStep, PinStep
     DEF EstablishSession, Tasks
<1>4. ASSUME NEW t \in Sends, Send(t)
      PROVE  IInv'
  BY <1>4, EasySteps, FetchListStep, PickStep, CheckTrustStep, LoadSessionStep, WrapStep DEF Send, Tasks
<1>5. ASSUME NEW t \in Receives, Receive(t)
      PROVE  IInv'
  <2>1. t \in Tasks
    BY DEF Tasks
  <2>2. CASE \E d \in Devices, key \in 1..MaxKeys : key <= bundle[d].key /\ StartReceive(t, d, key)
    BY <2>1, <2>2, StartReceiveStep
  <2>3. CASE Open(t) \/ Accept(t) \/ Record(t) \/ Heal(t)
    BY <2>1, <2>3, OpenStep, AcceptStep, StoreSessionStep, HealStep
  <2>4. CASE LoadSession(t) \/ Wrap(t) \/ Reconcile(t) \/ Refill(t) \/ Fill(t)
    BY <2>1, <2>4, LoadSessionStep, WrapStep, ReconcileStep, RefillStep, PinStep
  <2> QED
    BY <1>5, <2>2, <2>3, <2>4 DEF Receive
<1>6. ASSUME NEW t \in Resets, Reset(t)
      PROVE  IInv'
  BY <1>6, DropSessionsStep, DropIdentitiesStep, DropPinsStep, EasySteps DEF Reset, Tasks
<1> QED
  BY <1>1, <1>2, <1>3, <1>4, <1>5, <1>6 DEF Next

LEMMA Stutter ==
  ASSUME IInv, UNCHANGED vars
  PROVE  IInv'
BY DEF vars, IInv, Typed, TasksFit, TasksBased, SessionsSound, Awake, At, RowsAreSound, Trusted,
       WrappedWereTrusted, NumbersSound, NumbersUsedOnce

\* What the other theorems are read off: whatever tasks have read is so, or a race says why not.
THEOREM Inductive == Spec => []IInv
<1>1. IInv /\ [Next]_vars => IInv'
  BY Steps0, Stutter
<1> QED
  BY <1>1, Starting0, PTL DEF Spec

-----------------------------------------------------------------------------
(* What follows.                                                             *)

\* No number of a session is used for two messages, unless a session was stored over a newer one
\* (message_encrypt, decrypt).
THEOREM UsedOnce == Spec => []NumbersUsedOnce
<1>1. IInv => NumbersUsedOnce
  BY DEF IInv, NumbersSound
<1> QED
  BY <1>1, Inductive, PTL

\* A message is wrapped only for a key that was accepted, but for the named races
\* (encrypt_for_recipients, heal_session).
THEOREM OnlyTrusted == Spec => []WrappedWereTrusted
<1>1. IInv => WrappedWereTrusted
  BY DEF IInv
<1> QED
  BY <1>1, Inductive, PTL

\* A trusted row has an accepted key, and a session has a row (save_omemo_identity,
\* reset_omemo2_peer_state).
THEOREM Rows == Spec => []RowsAreSound
<1>1. IInv => RowsAreSound
  BY DEF IInv
<1> QED
  BY <1>1, Inductive, PTL

\* A pin is changed only for a verified device, but for the named races (establish_session,
\* reconcile_pq_pin_if_missing).
THEOREM PinsStay == Spec => PinsKept
<1> DEFINE Kept == \A d \in Devices, k \in 1..MaxKeys :
                     pins[d][k] # 0 /\ pins'[d][k] \notin {0, pins[d][k]} =>
                       ident[d].trust = 3 \/ d \in racing'
<1>1. ASSUME IInv, Next PROVE Kept \/ UNCHANGED pins
  <2>1. ASSUME NEW t \in Tasks, PinBundle(t) \/ Fill(t)
        PROVE  Kept
    <3>0. /\ task[t].at \in {"pin", "refill"} /\ Dev(t) \in Devices /\ task[t].got.key # 0
          /\ task[t].got.key \in 1..MaxKeys
      BY <1>1, <2>1, Known DEF PinBundle, Fill, At, Held, Keyed, Fits, Bundle, Keys
    <3>1. /\ racing \subseteq racing'
          /\ \A e \in Devices, k \in 1..MaxKeys :
               pins'[e][k] # pins[e][k] => e = Dev(t) /\ k = task[t].got.key
      BY <1>1, <2>1, <3>0, Pinned DEF PinBundle, Fill
    <3>2. pins'[Dev(t)][task[t].got.key] = task[t].got.pq
      BY <1>1, <2>1, <3>0 DEF PinBundle, Fill, Pin, IInv, Typed
    <3>3. \/ pins[Dev(t)][task[t].got.key] \in {0, task[t].got.pq}
          \/ ident[Dev(t)].trust = 3 \/ Dev(t) \in racing
      BY <1>1, <3>0, Known DEF Based, Dev
    <3> QED
      BY <3>1, <3>2, <3>3
  <2>2. ASSUME NEW t \in Tasks, DropPins(t)
        PROVE  Kept
    <3>1. \A d \in Devices, k \in 1..MaxKeys : pins'[d][k] = 0
      BY <2>2 DEF DropPins
    <3> QED
      BY <3>1
  <2>3. ASSUME NEW d \in Devices, Rekey(d) \/ ChangeList(d) \/ Expire(d) \/ Show(d)
        PROVE  UNCHANGED pins
    BY <2>3 DEF Rekey, ChangeList, Expire, Show, tables
  <2>4. ASSUME NEW d \in Devices, NEW trust \in {1, 2, 3}, SetTrust(d, trust)
        PROVE  UNCHANGED pins
    BY <2>4 DEF SetTrust
  <2>5. ASSUME NEW t \in Tasks, FetchBundle(t) \/ CheckPin(t) \/ SaveBundleIdentity(t) \/ StoreSession(t)
        PROVE  UNCHANGED pins
    BY <2>5 DEF FetchBundle, CheckPin, SaveBundleIdentity, StoreSession, tables
  <2>6. ASSUME NEW t \in Tasks, Send(t)
        PROVE  UNCHANGED pins
    BY <2>6 DEF Send, StartSend, FetchList, Pick, CheckTrust, LoadSession, Wrap, tables
  <2>7. ASSUME NEW t \in Tasks,
               \/ \E d \in Devices, key \in 1..MaxKeys : key <= bundle[d].key /\ StartReceive(t, d, key)
               \/ Open(t) \/ Accept(t) \/ Record(t) \/ Heal(t)
        PROVE  UNCHANGED pins
    BY <2>7 DEF StartReceive, Open, Accept, Record, Heal, tables
  <2>8. ASSUME NEW t \in Tasks, LoadSession(t) \/ Wrap(t) \/ Reconcile(t) \/ Refill(t)
        PROVE  UNCHANGED pins
    BY <2>8 DEF LoadSession, Wrap, Reconcile, Refill, tables
  <2>9. ASSUME NEW t \in Tasks, DropSessions(t) \/ DropIdentities(t) \/ ForgetCaches(t)
        PROVE  UNCHANGED pins
    BY <2>9 DEF DropSessions, DropIdentities, ForgetCaches, tables
  <2>10. Sends \subseteq Tasks /\ Receives \subseteq Tasks /\ Resets \subseteq Tasks
    BY DEF Tasks
  <2> HIDE DEF Kept
  <2> QED
    BY <1>1, <2>1, <2>2, <2>3, <2>4, <2>5, <2>6, <2>7, <2>8, <2>9, <2>10
       DEF Next, EstablishSession, Receive, Reset
<1>2. ASSUME IInv, [Next]_vars PROVE [Kept]_pins
  <2>1. CASE Next
    BY <1>1, <1>2, <2>1
  <2>2. CASE UNCHANGED vars
    BY <2>2 DEF vars
  <2> QED
    BY <1>2, <2>1, <2>2
<1> QED
  BY <1>2, Inductive, PTL DEF Spec, PinsKept

-----------------------------------------------------------------------------
(* Types.                                                                    *)

Rest ==
  /\ failures \subseteq Devices /\ seenList \subseteq Devices \cup Unseen
  /\ healed \subseteq Devices /\ asked \subseteq Devices
  /\ turns \in 0..MaxTurns
  /\ crossed \subseteq Devices /\ swapped \subseteq Devices /\ misplaced \subseteq Devices
  /\ racing \subseteq Devices /\ torn \subseteq Devices

LEMMA TurnCounts ==
  ASSUME turns \in 0..MaxTurns, Turn
  PROVE  turns' \in 0..MaxTurns
BY DEF Turn

LEMMA RestOutside ==
  ASSUME Rest,
         \/ \E d \in Devices : Rekey(d) \/ ChangeList(d) \/ Expire(d) \/ Show(d)
         \/ \E d \in Devices, trust \in {1, 2, 3} : SetTrust(d, trust)
  PROVE  Rest'
<1> USE DEF peer, tables, caches, marks, Rest
<1>1. ASSUME NEW d \in Devices, Rekey(d) \/ ChangeList(d) PROVE Rest'
  <2>1. turns' \in 0..MaxTurns
    BY <1>1, TurnCounts DEF Rekey, ChangeList
  <2> QED
    BY <1>1, <2>1 DEF Rekey, ChangeList
<1>2. ASSUME NEW d \in Devices, Expire(d) PROVE Rest'
  <2>1. turns' \in 0..MaxTurns
    BY <1>2, TurnCounts DEF Expire
  <2> QED
    BY <1>2, <2>1 DEF Expire
<1>3. ASSUME NEW d \in Devices, Show(d) PROVE Rest'
  BY <1>3 DEF Show
<1>4. ASSUME NEW d \in Devices, NEW trust \in {1, 2, 3}, SetTrust(d, trust) PROVE Rest'
  <2>1. turns' \in 0..MaxTurns
    BY <1>4, TurnCounts DEF SetTrust
  <2> QED
    BY <1>4, <2>1 DEF SetTrust
<1> QED
  BY <1>1, <1>2, <1>3, <1>4

\* What a task that keeps or is about a device may note of it.
LEMMA RestSaved ==
  ASSUME Rest, NEW t \in Tasks, NEW d \in Devices, NEW key, SaveIdentity(t, d, key)
  PROVE  swapped' \subseteq Devices /\ racing' \subseteq Devices
BY DEF Rest, SaveIdentity

LEMMA RestEstablish ==
  ASSUME IInv, Rest, NEW t \in Tasks, EstablishSession(t)
  PROVE  Rest'
<1> USE DEF peer, tables, caches, marks, Rest
<1>0. At(t, "bundle") \/ At(t, "pinned") \/ At(t, "identity") \/ At(t, "store") \/ At(t, "pin")
        => Dev(t) \in Devices
  BY Known DEF At, Held, Keyed, Fits
<1>1. CASE FetchBundle(t)
  <2>1. turns' \in 0..MaxTurns
    BY <1>1, TurnCounts DEF FetchBundle
  <2> QED
    BY <1>0, <1>1, <2>1 DEF FetchBundle
<1>2. CASE CheckPin(t)
  BY <1>0, <1>2 DEF CheckPin
<1>3. CASE SaveBundleIdentity(t)
  <2>1. swapped' \subseteq Devices /\ racing' \subseteq Devices
    BY <1>0, <1>3, RestSaved DEF SaveBundleIdentity
  <2> QED
    BY <1>0, <1>3, <2>1 DEF SaveBundleIdentity
<1>4. CASE StoreSession(t)
  BY <1>4 DEF StoreSession
<1>5. CASE PinBundle(t)
  BY <1>0, <1>5 DEF PinBundle, Pin
<1> QED
  BY <1>1, <1>2, <1>3, <1>4, <1>5 DEF EstablishSession

LEMMA RestWrap ==
  ASSUME IInv, Rest, NEW t \in Tasks, Wrap(t)
  PROVE  Rest'
<1> USE DEF peer, tables, caches, marks, Rest
<1>1. Dev(t) \in Devices
  BY Known DEF Wrap, At, Held, Keyed, Fits
<1>2. swapped' \subseteq Devices /\ racing' \subseteq Devices
  BY <1>1, RestSaved DEF Wrap, StoreBack
<1>3. crossed' \subseteq Devices
  BY <1>1 DEF Wrap, StoreBack
<1> QED
  BY <1>2, <1>3 DEF Wrap

LEMMA RestSend ==
  ASSUME IInv, Rest, NEW t \in Sends, Send(t)
  PROVE  Rest'
<1> USE DEF peer, tables, caches, marks, Rest
<1>0. t \in Tasks /\ peerList \subseteq Devices
  BY DEF Tasks, IInv, Typed
<1>1. CASE FetchList(t)
  <2>1. turns' \in 0..MaxTurns
    BY <1>1, TurnCounts DEF FetchList
  <2> QED
    BY <1>0, <1>1, <2>1 DEF FetchList
<1>2. CASE StartSend(t) \/ Pick(t) \/ CheckTrust(t) \/ LoadSession(t)
  BY <1>2 DEF StartSend, Pick, CheckTrust, LoadSession
<1>3. CASE Wrap(t)
  BY <1>0, <1>3, RestWrap
<1> QED
  BY <1>1, <1>2, <1>3 DEF Send

LEMMA RestReceive ==
  ASSUME IInv, Rest, NEW t \in Receives, Receive(t)
  PROVE  Rest'
<1> USE DEF peer, tables, caches, marks, Rest
<1>0. /\ t \in Tasks
      /\ At(t, "open") \/ At(t, "accept") \/ At(t, "known") \/ At(t, "refill") => Dev(t) \in Devices
  BY Known DEF Tasks, At, Held, Keyed, Fits
<1>1. CASE \E d \in Devices, key \in 1..MaxKeys : StartReceive(t, d, key)
  BY <1>1 DEF StartReceive
<1>2. CASE Open(t)
  <2>1. CASE task[t].ses.key = task[t].got.key /\ ~Refused(Dev(t), task[t].ses.key)
    <3>1. StoreBack(t, task[t].ses) /\ UNCHANGED <<failures, healed>>
      BY <1>2, <2>1 DEF Open
    <3>2. swapped' \subseteq Devices /\ racing' \subseteq Devices
      BY <1>0, <1>2, <3>1, RestSaved DEF Open, StoreBack
    <3>3. crossed' \subseteq Devices
      BY <1>0, <1>2, <3>1 DEF Open, StoreBack
    <3> QED
      BY <1>2, <3>1, <3>2, <3>3 DEF Open
  <2>2. CASE ~(task[t].ses.key = task[t].got.key /\ ~Refused(Dev(t), task[t].ses.key))
    BY <1>0, <1>2, <2>2 DEF Open
  <2> QED
    BY <2>1, <2>2
<1>3. CASE Accept(t)
  <2>1. swapped' \subseteq Devices /\ racing' \subseteq Devices
    BY <1>0, <1>3, RestSaved DEF Accept
  <2> QED
    BY <1>3, <2>1 DEF Accept
<1>4. CASE Record(t) \/ Heal(t) \/ LoadSession(t)
  BY <1>4 DEF Record, Heal, LoadSession
<1>5. CASE Wrap(t)
  BY <1>0, <1>5, RestWrap
<1>6. CASE Reconcile(t)
  BY <1>0, <1>6 DEF Reconcile
<1>7. CASE Refill(t)
  <2>1. turns' \in 0..MaxTurns
    BY <1>7, TurnCounts DEF Refill
  <2> QED
    BY <1>7, <2>1 DEF Refill
<1>8. CASE Fill(t)
  BY <1>0, <1>8 DEF Fill, Pin
<1> QED
  BY <1>1, <1>2, <1>3, <1>4, <1>5, <1>6, <1>7, <1>8 DEF Receive

LEMMA RestReset ==
  ASSUME Rest, NEW t \in Resets, Reset(t)
  PROVE  Rest'
BY DEF peer, tables, caches, marks, Rest, Reset, DropSessions, DropIdentities, DropPins, ForgetCaches

\* Every reachable state of the sessions with a peer is well typed, for any devices, tasks, keys
\* and sessions (session.rs, store.rs).
THEOREM TypeCorrect == Spec => []TypeOK
<1>1. Init => Rest
  BY DEF Init, Rest
<1>2. IInv /\ Rest /\ [Next]_vars => Rest'
  <2>1. ASSUME IInv, Rest, Next PROVE Rest'
    BY <2>1, RestOutside, RestEstablish, RestSend, RestReceive, RestReset DEF Next, Tasks
  <2>2. ASSUME Rest, UNCHANGED vars PROVE Rest'
    BY <2>2 DEF vars, Rest
  <2> QED
    BY <2>1, <2>2
<1>3. IInv /\ Rest => TypeOK
  BY DEF IInv, Typed, Rest, TypeOK, Task, Idents, Wraps
<1> QED
  BY <1>1, <1>2, <1>3, Inductive, PTL DEF Spec
=============================================================================
