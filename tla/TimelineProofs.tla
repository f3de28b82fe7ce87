--------------------------- MODULE TimelineProofs ---------------------------
(***************************************************************************)
(* Proofs about the receive path: type correctness, one row for each       *)
(* stanza, nothing acknowledged and forgotten, what a placeholder row says *)
(* about its stanza, and what a handler that ends has done.                *)
(***************************************************************************)
EXTENDS Timeline, TLAPS

Kept(n) == Stored(n) \/ InHand(n) \/ n \in killed
Applied(n) == Stored(n) \/ \E i \in RowsOf(sent[n].of) : Changed(i)

\* The archive is bounded, and what refers to a stanza refers to one that was sent.
ArchiveSound ==
  /\ Len(sent) <= MaxSent
  /\ cursor <= Len(sent)
  /\ receipted \cup opened \subseteq DOMAIN sent
  /\ \A n \in Stanzas, v \in Via : pc[n][v] # "idle" => n \in DOMAIN sent

\* What a catch-up task may count on.
SyncSound(s) ==
  /\ spc[s] = "ask" => left[s] > 0
  /\ spc[s] = "results" => page[s].next > 0 /\ page[s].next <= page[s].last + 1
  /\ spc[s] = "save" => page[s].last # after[s]
  /\ spc[s] \in {"results", "save"} => page[s].last <= Len(sent)
  /\ spc[s] \in {"ask", "results", "save"} => after[s] <= Len(sent)

\* A handler's step fits its stanza, and the row it aims at is its target's.
HandlerSound(n, v) ==
  /\ pc[n][v] \in {"receipt", "placeholder"} => Is("text", n)
  /\ pc[n][v] \in {"find", "edit", "react", "wipe", "unreact"} => ~Is("text", n)
  /\ pc[n][v] \in {"react", "wipe", "unreact"} => ~Is("correct", n)
  /\ pc[n][v] = "edit" => /\ Is("correct", n)
                          /\ hit[n][v] \in RowsOf(sent[n].of)
  /\ pc[n][v] = "bump" => Stored(n)

Sound ==
  /\ TypeOK
  /\ ArchiveSound
  /\ \A s \in Syncs : SyncSound(s)
  /\ \A n \in Stanzas, v \in Via : HandlerSound(n, v)

\* Where the results of a task's page begin.
Start(s) == IF after[s] = 0 THEN FirstOf(page[s].last) ELSE after[s] + 1

\* A task has handed over what it will move the cursor past.
PageKept(s) ==
  /\ spc[s] = "results" => \A n \in Start(s)..page[s].next - 1 : Is("text", n) => Kept(n)
  /\ spc[s] = "save" => \A n \in Start(s)..page[s].last : Is("text", n) => Kept(n)
  /\ spc[s] \in {"ask", "results", "save"} /\ after[s] # 0 =>
       \A n \in horizon..after[s] : Is("text", n) => Kept(n)

PagesKept == AcknowledgedIsKept /\ \A s \in Syncs : PageKept(s)

\* A message key that is used up was used by a handler that stored what it read, is about to,
\* or was cut short; a second handler of that stanza overlapped it.
OpenedSound(n) ==
  /\ (\A v \in Via : pc[n][v] # "idle") => n \in overlapped
  /\ n \in opened /\ Is("text", n) =>
       Stored(n) \/ n \in killed \/ \E v \in Via : pc[n][v] \in {"receipt", "insert", "placeholder"}
  /\ n \in opened /\ Is("correct", n) =>
       Applied(n) \/ n \in killed \/ \E v \in Via : pc[n][v] \in {"find", "edit", "insert"}
  /\ \A v \in Via : pc[n][v] = "placeholder" => Stored(n) \/ n \in overlapped \cup killed

PlaceholdersSound == LostOnlyByOverlap /\ \A n \in Stanzas : OpenedSound(n)

IInv == Sound /\ OneRowEach /\ PagesKept /\ PlaceholdersSound

USE TimelineAssumption

(* The archive after one more stanza. *)
LEMMA QueueAppend ==
  ASSUME NEW S, NEW q \in Seq(S), NEW e \in S
  PROVE  /\ Append(q, e) \in Seq(S)
         /\ Len(Append(q, e)) = Len(q) + 1
         /\ \A i \in 1..Len(q) + 1 : Append(q, e)[i] = IF i = Len(q) + 1 THEN e ELSE q[i]
OBVIOUS

(* The initial state satisfies the invariant. *)
LEMMA InitIInv == Init => IInv
<1> SUFFICES ASSUME Init PROVE IInv
  OBVIOUS
<1>1. TypeOK
  <2>1. /\ pc \in [Stanzas -> [Via -> HandlerSteps]]
        /\ hit \in [Stanzas -> [Via -> Nat]]
        /\ spc \in [Syncs -> SyncSteps]
        /\ page \in [Syncs -> [next : Nat, last : 0..MaxSent, complete : BOOLEAN]]
    BY DEF Init, HandlerSteps, SyncSteps, NoPage
  <2>2. /\ after \in [Syncs -> 0..MaxSent]
        /\ left \in [Syncs -> 0..MaxPages]
        /\ sent \in Seq([kind : Kinds, of : Stanzas])
        /\ rows \in Seq(Row)
    BY DEF Init
  <2>3. /\ liveNext \in 1..MaxSent + 1 /\ cursor \in 0..MaxSent /\ horizon \in 0..MaxSent
        /\ unread \in Nat /\ stops \in Nat
    BY DEF Init
  <2> QED
    BY <2>1, <2>2, <2>3 DEF Init, TypeOK
<1>2. ArchiveSound /\ \A n \in Stanzas, v \in Via : HandlerSound(n, v)
  BY DEF Init, ArchiveSound, HandlerSound
<1>3. \A s \in Syncs : SyncSound(s) /\ PageKept(s)
  BY DEF Init, SyncSound, PageKept
<1>4. OneRowEach /\ LostOnlyByOverlap
  BY DEF Init, OneRowEach, LostOnlyByOverlap
<1>5. AcknowledgedIsKept
  BY DEF Init, AcknowledgedIsKept, Is
<1>6. \A n \in Stanzas : OpenedSound(n)
  <2>1. \A n \in Stanzas : \A v \in Via : pc[n][v] = "idle"
    BY DEF Init
  <2>2. "live" \in Via /\ opened = {}
    BY DEF Init, Via
  <2> QED
    BY <2>1, <2>2 DEF OpenedSound
<1> QED
  BY <1>1, <1>2, <1>3, <1>4, <1>5, <1>6 DEF IInv, Sound, PagesKept, PlaceholdersSound

-----------------------------------------------------------------------------
(* What the helpers do to the state.                                         *)

LEMMA StepType ==
  ASSUME TypeOK, NEW n, NEW v, NEW step \in HandlerSteps, Step(n, v, step)
  PROVE  pc' \in [Stanzas -> [Via -> HandlerSteps]]
BY DEF Step, TypeOK

LEMMA FinishType ==
  ASSUME TypeOK, NEW n, NEW v, Finish(n, v)
  PROVE  /\ pc' \in [Stanzas -> [Via -> HandlerSteps]]
         /\ hit' \in [Stanzas -> [Via -> Nat]]
<1>1. "idle" \in HandlerSteps
  BY DEF HandlerSteps
<1> QED
  BY <1>1, StepType DEF Finish, TypeOK

LEMMA EndsType ==
  ASSUME TypeOK, NEW s \in Syncs, SyncEnds(s)
  PROVE  /\ spc' \in [Syncs -> SyncSteps]
         /\ after' \in [Syncs -> 0..MaxSent]
         /\ left' \in [Syncs -> 0..MaxPages]
         /\ page' \in [Syncs -> [next : Nat, last : 0..MaxSent, complete : BOOLEAN]]
BY DEF SyncEnds, TypeOK, SyncSteps, NoPage

(* A new row is a row, and says the placeholder only for a stanza that could not be opened. *)
LEMMA NewRowType ==
  ASSUME TypeOK, NEW n \in Stanzas, NEW v \in Via
  PROVE  /\ NewRow(n, v) \in Row
         /\ NewRow(n, v).of = n
         /\ NewRow(n, v).body = Placeholder => pc[n][v] = "placeholder"
BY DEF NewRow, Row, Placeholder, Stanzas, TypeOK

(* A stanza has one row at most, so that the newest of its rows is that one. *)
LEMMA MaxIsMember ==
  ASSUME TypeOK, OneRowEach, NEW n
  PROVE  /\ Max0(RowsOf(n)) \in Nat
         /\ Stored(n) => Max0(RowsOf(n)) \in RowsOf(n)
<1>1. RowsOf(n) \subseteq Nat /\ \A i, j \in RowsOf(n) : i = j
  BY DEF RowsOf, OneRowEach, TypeOK
<1>2. CASE RowsOf(n) = {}
  BY <1>2 DEF Max0, Stored
<1>3. CASE RowsOf(n) # {}
  <2> PICK i \in RowsOf(n) : TRUE
    BY <1>3
  <2>1. i \in Nat /\ \A j \in RowsOf(n) : j <= i
    BY <1>1
  <2> QED
    BY <1>1, <2>1, <1>3 DEF Max0
<1> QED
  BY <1>2, <1>3

(* A stanza arrives: its handler starts. *)
LEMMA ArriveType ==
  ASSUME TypeOK, NEW n \in Stanzas, NEW v \in Via, Arrive(n, v)
  PROVE  /\ pc' \in [Stanzas -> [Via -> HandlerSteps]]
         /\ hit' \in [Stanzas -> [Via -> Nat]]
         /\ overlapped' \subseteq Stanzas
<1>1. "open" \in HandlerSteps
  BY DEF HandlerSteps
<1> QED
  BY <1>1, StepType DEF Arrive, TypeOK

(* A change to one row leaves it a row, of the same stanza, and the table as long as it was. *)
LEMMA RowEdits ==
  ASSUME TypeOK, NEW h
  PROVE  /\ \A b \in 0..Placeholder :
              /\ [rows EXCEPT ![h].body = b] \in Seq(Row)
              /\ [rows EXCEPT ![h].body = b, ![h].retracted = TRUE] \in Seq(Row)
         /\ \A r \in 0..MaxSent : [rows EXCEPT ![h].reaction = r] \in Seq(Row)
<1>1. rows \in Seq(Row)
  BY DEF TypeOK
<1>2. ASSUME NEW e, h \in DOMAIN rows => e \in Row
      PROVE  [rows EXCEPT ![h] = e] \in Seq(Row)
  <2>1. rows \in [1..Len(rows) -> Row] /\ Len(rows) \in Nat
    BY <1>1
  <2>2. [rows EXCEPT ![h] = e] \in [1..Len(rows) -> Row]
    BY <1>2, <2>1
  <2> QED
    BY <2>1, <2>2
<1>3. h \in DOMAIN rows => rows[h] \in Row
  BY <1>1
<1>4. ASSUME NEW b \in 0..Placeholder
      PROVE  h \in DOMAIN rows => /\ [rows[h] EXCEPT !.body = b] \in Row
                                  /\ [rows[h] EXCEPT !.body = b, !.retracted = TRUE] \in Row
  BY <1>3 DEF Row
<1>5. ASSUME NEW r \in 0..MaxSent
      PROVE  h \in DOMAIN rows => [rows[h] EXCEPT !.reaction = r] \in Row
  BY <1>3 DEF Row
<1>6. ASSUME NEW b \in 0..Placeholder
      PROVE  /\ [rows EXCEPT ![h].body = b] \in Seq(Row)
             /\ [rows EXCEPT ![h].body = b, ![h].retracted = TRUE] \in Seq(Row)
  BY <1>2, <1>4
<1>7. ASSUME NEW r \in 0..MaxSent
      PROVE  [rows EXCEPT ![h].reaction = r] \in Seq(Row)
  BY <1>2, <1>5
<1> QED
  BY <1>6, <1>7

(* A handler's step preserves the types. *)
LEMMA HandlerTypeOK ==
  ASSUME Sound, OneRowEach, NEW n \in Stanzas, NEW v \in Via, HandlerNext(n, v)
  PROVE  TypeOK'
<1> USE DEF archive, table, marks, sync, history
<1>0. TypeOK /\ "live" \in Via
  BY DEF Sound, Via
<1>s. {"idle", "receipt", "insert", "placeholder", "bump", "find", "edit", "react", "wipe", "unreact"}
      \subseteq HandlerSteps
  BY DEF HandlerSteps
<1>1. CASE Open(n, v)
  <2>1. pc' \in [Stanzas -> [Via -> HandlerSteps]]
    <3>1. FirstStep(n, v) \in HandlerSteps
      BY <1>s DEF FirstStep
    <3> QED
      BY <1>0, <1>1, <3>1, StepType DEF Open
  <2> QED
    BY <1>0, <1>1, <2>1 DEF Open, TypeOK
<1>2. CASE OpenFails(n, v)
  <2>1. pc' \in [Stanzas -> [Via -> HandlerSteps]]
    BY <1>0, <1>2, <1>s, StepType DEF OpenFails
  <2> QED
    BY <1>0, <1>2, <2>1 DEF OpenFails, TypeOK
<1>3. CASE Insert(n, v)
  <2>1. pc' \in [Stanzas -> [Via -> HandlerSteps]]
    BY <1>0, <1>3, <1>s, StepType DEF Insert, AfterInsert
  <2>2. Append(rows, NewRow(n, v)) \in Seq(Row)
    BY <1>0, NewRowType, QueueAppend DEF TypeOK
  <2>3. rows' \in Seq(Row)
    BY <1>0, <1>3, <2>2 DEF Insert, TypeOK
  <2> QED
    BY <1>0, <1>3, <2>1, <2>3 DEF Insert, TypeOK
<1>4. CASE Find(n, v)
  <2>1. pc' \in [Stanzas -> [Via -> HandlerSteps]]
    BY <1>0, <1>4, <1>s, StepType DEF Find, Aimed
  <2>2. hit' \in [Stanzas -> [Via -> Nat]]
    BY <1>0, <1>4, MaxIsMember DEF Find, TypeOK
  <2> QED
    BY <1>0, <1>4, <2>1, <2>2 DEF Find, TypeOK
<1>5. CASE Edit(n, v) \/ React(n, v) \/ Unreact(n, v)
  <2>1. /\ pc' \in [Stanzas -> [Via -> HandlerSteps]]
        /\ hit' \in [Stanzas -> [Via -> Nat]]
    BY <1>0, <1>5, FinishType DEF Edit, React, Unreact
  <2>2. n \in 0..Placeholder /\ n \in 0..MaxSent /\ 0 \in 0..MaxSent
    BY DEF Stanzas, Placeholder
  <2>3. rows' \in Seq(Row)
    <3>1. CASE Edit(n, v)
      BY <1>0, <2>2, <3>1, RowEdits DEF Edit
    <3>2. CASE React(n, v)
      BY <1>0, <2>2, <3>2, RowEdits DEF React
    <3>3. CASE Unreact(n, v)
      BY <1>0, <2>2, <3>3, RowEdits DEF Unreact
    <3> QED
      BY <1>5, <3>1, <3>2, <3>3
  <2> QED
    BY <1>0, <1>5, <2>1, <2>3 DEF Edit, React, Unreact, TypeOK
<1>6. CASE Wipe(n, v)
  <2>1. pc' \in [Stanzas -> [Via -> HandlerSteps]]
    BY <1>0, <1>6, <1>s, StepType DEF Wipe
  <2>2. Null \in 0..Placeholder
    BY DEF Null, Placeholder
  <2>3. rows' \in Seq(Row)
    BY <1>0, <1>6, <2>2, RowEdits DEF Wipe, TypeOK
  <2> QED
    BY <1>0, <1>6, <2>1, <2>3 DEF Wipe, TypeOK
<1>7. CASE Receipt(n)
  <2>1. pc' \in [Stanzas -> [Via -> HandlerSteps]]
    BY <1>0, <1>7, <1>s, StepType DEF Receipt
  <2> QED
    BY <1>0, <1>7, <2>1 DEF Receipt, TypeOK
<1>8. CASE Bump(n)
  <2>1. pc' \in [Stanzas -> [Via -> HandlerSteps]]
    BY <1>0, <1>8, <1>s, StepType DEF Bump
  <2> QED
    BY <1>0, <1>8, <2>1 DEF Bump, TypeOK
<1> QED
  BY <1>1, <1>2, <1>3, <1>4, <1>5, <1>6, <1>7, <1>8 DEF HandlerNext

(* A page lies within the archive. *)
LEMMA PageType ==
  ASSUME TypeOK, Len(sent) <= MaxSent, NEW a \in 0..Len(sent)
  PROVE  /\ PageAfter(a) \in [next : Nat, last : 0..MaxSent, complete : BOOLEAN]
         /\ PageAfter(a).next > 0 /\ PageAfter(a).next <= PageAfter(a).last + 1
         /\ PageAfter(a).last <= Len(sent)
         /\ PageAfter(a).next = IF a = 0 THEN FirstOf(PageAfter(a).last) ELSE a + 1
BY DEF PageAfter, FirstOf, TypeOK

(* A catch-up task's step preserves the types. *)
LEMMA SyncTypeOK ==
  ASSUME Sound, NEW s \in Syncs, SyncNext(s)
  PROVE  TypeOK'
<1> USE DEF archive, table, marks, handlers, history
<1>0. TypeOK /\ ArchiveSound /\ SyncSound(s) /\ "mam" \in Via
  BY DEF Sound, Via
<1>s. {"off", "read", "ask", "results", "save"} \subseteq SyncSteps
  BY DEF SyncSteps
<1>1. CASE SyncRead(s)
  BY <1>0, <1>1, <1>s DEF SyncRead, TypeOK
<1>2. CASE SyncAsk(s)
  <2>1. after[s] \in 0..Len(sent) /\ left[s] - 1 \in 0..MaxPages
    BY <1>0, <1>2 DEF SyncAsk, SyncSound, TypeOK
  <2>2. page' \in [Syncs -> [next : Nat, last : 0..MaxSent, complete : BOOLEAN]]
    BY <1>0, <1>2, <2>1, PageType DEF SyncAsk, TypeOK, ArchiveSound
  <2> QED
    BY <1>0, <1>2, <1>s, <2>1, <2>2 DEF SyncAsk, TypeOK
<1>3. CASE SyncResult(s)
  <2>0. page[s] \in [next : Nat, last : 0..MaxSent, complete : BOOLEAN]
    BY <1>0 DEF TypeOK
  <2>1. page[s].next \in Stanzas
    BY <1>0, <1>3, <2>0 DEF SyncResult, SyncSound, Stanzas
  <2>2. /\ pc' \in [Stanzas -> [Via -> HandlerSteps]]
        /\ hit' \in [Stanzas -> [Via -> Nat]]
        /\ overlapped' \subseteq Stanzas
    BY <1>0, <1>3, <2>1, ArriveType DEF SyncResult
  <2>3. page' \in [Syncs -> [next : Nat, last : 0..MaxSent, complete : BOOLEAN]]
    <3>1. [page[s] EXCEPT !.next = @ + 1] \in [next : Nat, last : 0..MaxSent, complete : BOOLEAN]
      BY <2>0
    <3> QED
      BY <1>0, <1>3, <3>1 DEF SyncResult, TypeOK
  <2> QED
    BY <1>0, <1>3, <2>2, <2>3 DEF SyncResult, TypeOK
<1>4. CASE SyncFin(s)
  <2>1. CASE SyncEnds(s)
    BY <1>0, <1>4, <2>1, EndsType DEF SyncFin, TypeOK
  <2>2. CASE spc' = [spc EXCEPT ![s] = "save"] /\ UNCHANGED <<after, left, page>>
    BY <1>0, <1>4, <1>s, <2>2 DEF SyncFin, TypeOK
  <2> QED
    BY <1>4, <2>1, <2>2 DEF SyncFin
<1>5. CASE SyncSave(s)
  <2>1. page[s].last \in 0..MaxSent
    BY <1>0 DEF TypeOK
  <2>2. cursor' \in 0..MaxSent /\ horizon' \in 0..MaxSent
    <3>1. horizon \in 0..MaxSent
      BY <1>0 DEF TypeOK
    <3>2. after[s] = 0 => FirstOf(page[s].last) \in 1..MaxSent
      BY <1>0, <1>5, <2>1 DEF SyncSave, SyncSound, FirstOf
    <3> QED
      BY <1>5, <2>1, <3>1, <3>2 DEF SyncSave
  <2>3. CASE SyncEnds(s)
    BY <1>0, <1>5, <2>2, <2>3, EndsType DEF SyncSave, TypeOK
  <2>4. CASE /\ spc' = [spc EXCEPT ![s] = "ask"]
             /\ after' = [after EXCEPT ![s] = page[s].last]
             /\ UNCHANGED <<left, page>>
    BY <1>0, <1>5, <1>s, <2>1, <2>2, <2>4 DEF SyncSave, TypeOK
  <2> QED
    BY <1>5, <2>3, <2>4 DEF SyncSave
<1>6. CASE SyncTimeout(s)
  BY <1>0, <1>6, EndsType DEF SyncTimeout, TypeOK
<1> QED
  BY <1>1, <1>2, <1>3, <1>4, <1>5, <1>6 DEF SyncNext

(* The peer's stanzas are sound, and the archive grows within its bound. *)
LEMMA SendsType ==
  ASSUME TypeOK, PeerSends
  PROVE  /\ sent' \in Seq([kind : Kinds, of : Stanzas])
         /\ Len(sent') = Len(sent) + 1 /\ Len(sent') <= MaxSent
         /\ \A n \in DOMAIN sent : n \in DOMAIN sent' /\ sent'[n] = sent[n]
<1>1. PICK e \in [kind : Kinds, of : Stanzas] : sent' = Append(sent, e)
  <2>1. CASE sent' = Append(sent, [kind |-> "text", of |-> Len(sent) + 1])
    <3>1. Len(sent) + 1 \in Stanzas
      BY DEF PeerSends, TypeOK, Stanzas
    <3> QED
      BY <2>1, <3>1 DEF Kinds
  <2>2. ASSUME NEW k \in Edits, NEW t \in DOMAIN sent, sent' = Append(sent, [kind |-> k, of |-> t])
        PROVE  \E e \in [kind : Kinds, of : Stanzas] : sent' = Append(sent, e)
    <3>1. t \in Stanzas
      BY DEF PeerSends, TypeOK, Stanzas
    <3> QED
      BY <2>2, <3>1 DEF Kinds
  <2> QED
    BY <2>1, <2>2 DEF PeerSends
<1> QED
  BY <1>1, QueueAppend DEF PeerSends, TypeOK

(* Every step preserves the types. *)
LEMMA NextTypeOK ==
  ASSUME Sound, OneRowEach, [Next]_vars
  PROVE  TypeOK'
<1> USE DEF archive, table, marks, sync, handlers, history
<1>0. TypeOK /\ ArchiveSound
  BY DEF Sound
<1>1. CASE PeerSends
  BY <1>0, <1>1, SendsType DEF PeerSends, TypeOK
<1>2. CASE SessionUp
  BY <1>0, <1>2 DEF SessionUp, TypeOK, SyncSteps
<1>3. CASE SessionDown
  BY <1>0, <1>3 DEF SessionDown, TypeOK
<1>8. CASE MarkRead
  BY <1>0, <1>8 DEF MarkRead, TypeOK
<1>4. CASE LiveMiss
  <2>1. liveNext' \in 1..MaxSent + 1
    BY <1>0, <1>4 DEF LiveMiss, TypeOK, ArchiveSound
  <2> QED
    BY <1>0, <1>4, <2>1 DEF LiveMiss, TypeOK
<1>5. CASE LiveDelivery
  <2>0. liveNext \in 1..Len(sent) /\ Len(sent) <= MaxSent /\ Len(sent) \in Nat
    BY <1>0, <1>5 DEF LiveDelivery, TypeOK, ArchiveSound
  <2>1. liveNext \in Stanzas /\ liveNext' \in 1..MaxSent + 1 /\ "live" \in Via
    BY <1>5, <2>0 DEF LiveDelivery, Stanzas, Via
  <2>2. /\ pc' \in [Stanzas -> [Via -> HandlerSteps]]
        /\ hit' \in [Stanzas -> [Via -> Nat]]
        /\ overlapped' \subseteq Stanzas
    BY <1>0, <1>5, <2>1, ArriveType DEF LiveDelivery
  <2> QED
    BY <1>0, <1>5, <2>1, <2>2 DEF LiveDelivery, TypeOK
<1>6. CASE CoreStops
  <2>1. /\ pc' \in [Stanzas -> [Via -> HandlerSteps]]
        /\ hit' \in [Stanzas -> [Via -> Nat]]
    BY <1>6 DEF CoreStops, HandlerSteps
  <2>2. /\ spc' \in [Syncs -> SyncSteps]
        /\ after' \in [Syncs -> 0..MaxSent]
        /\ left' \in [Syncs -> 0..MaxPages]
        /\ page' \in [Syncs -> [next : Nat, last : 0..MaxSent, complete : BOOLEAN]]
    BY <1>6 DEF CoreStops, SyncSteps, NoPage
  <2>3. killed' \subseteq Stanzas /\ stops' \in Nat /\ up' \in BOOLEAN
    <3>1. killed \subseteq Stanzas /\ stops \in Nat
      BY <1>0 DEF TypeOK
    <3>2. killed' = killed \cup {n \in Stanzas : InHand(n)} /\ stops' = stops + 1 /\ up' = FALSE
      BY <1>6 DEF CoreStops
    <3>3. killed' \subseteq Stanzas
      BY <3>1, <3>2
    <3>4. up' \in BOOLEAN
      BY <3>2
    <3>5. stops' \in Nat
      BY <3>1, <3>2
    <3> QED
      BY <3>3, <3>4, <3>5
  <2>4. UNCHANGED <<archive, table, opened, receipted, marks, overlapped>>
    BY <1>6 DEF CoreStops
  <2> QED
    BY <1>0, <2>1, <2>2, <2>3, <2>4 DEF TypeOK
<1>7. CASE UNCHANGED vars
  BY <1>0, <1>7 DEF vars, TypeOK
<1> QED
  BY <1>1, <1>2, <1>3, <1>4, <1>5, <1>6, <1>7, <1>8, HandlerTypeOK, SyncTypeOK DEF Next

-----------------------------------------------------------------------------
(* What a step can do to the handlers and the table.                         *)

Quiet == UNCHANGED <<pc, hit, rows, opened, receipted, overlapped, killed>>
Arrival(n, v) == Arrive(n, v) /\ UNCHANGED <<rows, opened, receipted, killed, sent>>

(* A step leaves the handlers alone, stops them all, starts one or is one of theirs. *)
LEMMA StepKinds ==
  ASSUME Sound, [Next]_vars
  PROVE  \/ Quiet
         \/ CoreStops
         \/ \E n \in Stanzas, v \in Via : n \in DOMAIN sent /\ Arrival(n, v)
         \/ \E n \in Stanzas, v \in Via : HandlerNext(n, v)
<1> USE DEF archive, table, marks, sync, handlers, history
<1>0. TypeOK /\ ArchiveSound
  BY DEF Sound
<1>1. CASE PeerSends \/ SessionUp \/ SessionDown \/ MarkRead \/ LiveMiss \/ UNCHANGED vars
  BY <1>1 DEF PeerSends, SessionUp, SessionDown, MarkRead, LiveMiss, vars, Quiet
<1>2. CASE LiveDelivery
  <2>1. liveNext \in 1..Len(sent) /\ Len(sent) <= MaxSent /\ Len(sent) \in Nat
    BY <1>0, <1>2 DEF LiveDelivery, TypeOK, ArchiveSound
  <2>2. liveNext \in Stanzas /\ "live" \in Via /\ liveNext \in DOMAIN sent
    BY <1>2, <2>1 DEF LiveDelivery, Stanzas, Via
  <2> QED
    BY <1>2, <2>2 DEF LiveDelivery, Arrival
<1>3. ASSUME NEW s \in Syncs, SyncNext(s)
      PROVE  Quiet \/ \E n \in Stanzas, v \in Via : n \in DOMAIN sent /\ Arrival(n, v)
  <2>1. CASE SyncResult(s)
    <3>1. page[s] \in [next : Nat, last : 0..MaxSent, complete : BOOLEAN] /\ SyncSound(s)
      BY <1>0 DEF TypeOK, Sound
    <3>2. page[s].next \in 1..Len(sent) /\ Len(sent) <= MaxSent /\ Len(sent) \in Nat
      BY <1>0, <2>1, <3>1 DEF SyncResult, SyncSound, ArchiveSound, TypeOK
    <3>3. page[s].next \in Stanzas /\ "mam" \in Via
      BY <1>0, <3>2 DEF Stanzas, Via
    <3>4. page[s].next \in DOMAIN sent
      BY <1>0, <3>2 DEF TypeOK
    <3> QED
      BY <2>1, <3>3, <3>4 DEF SyncResult, Arrival
  <2>2. CASE SyncRead(s) \/ SyncAsk(s) \/ SyncFin(s) \/ SyncSave(s) \/ SyncTimeout(s)
    BY <2>2 DEF SyncRead, SyncAsk, SyncFin, SyncSave, SyncTimeout, Quiet
  <2> QED
    BY <1>3, <2>1, <2>2 DEF SyncNext
<1> QED
  BY <1>1, <1>2, <1>3 DEF Next

(* The archive only grows. *)
LEMMA SentGrows ==
  ASSUME Sound, [Next]_vars
  PROVE  /\ \A n \in DOMAIN sent : n \in DOMAIN sent' /\ sent'[n] = sent[n]
         /\ Len(sent) <= Len(sent') /\ Len(sent') <= MaxSent
<1> USE DEF archive, table, marks, sync, handlers, history
<1>0. TypeOK /\ Len(sent) <= MaxSent /\ Len(sent) \in Nat
  BY DEF Sound, ArchiveSound, TypeOK
<1>1. CASE PeerSends
  BY <1>0, <1>1, SendsType
<1>2. CASE sent' = sent
  BY <1>0, <1>2
<1>3. ASSUME NEW n \in Stanzas, NEW v \in Via, HandlerNext(n, v)
      PROVE  sent' = sent
  BY <1>3 DEF HandlerNext, Open, OpenFails, Insert, Find, Edit, React, Wipe, Unreact, Receipt, Bump
<1>4. ASSUME NEW s \in Syncs, SyncNext(s)
      PROVE  sent' = sent
  BY <1>4 DEF SyncNext, SyncRead, SyncAsk, SyncResult, SyncFin, SyncSave, SyncTimeout
<1>5. ASSUME SessionUp \/ SessionDown \/ CoreStops \/ MarkRead \/ UNCHANGED vars
      PROVE  sent' = sent
  BY <1>5 DEF SessionUp, SessionDown, CoreStops, MarkRead, vars
<1>6. ASSUME LiveDelivery \/ LiveMiss
      PROVE  sent' = sent
  BY <1>6 DEF LiveDelivery, LiveMiss
<1> QED
  BY <1>1, <1>2, <1>3, <1>4, <1>5, <1>6 DEF Next

(* What kind a stanza is does not change. *)
LEMMA KindStays ==
  ASSUME Sound, [Next]_vars, NEW n \in DOMAIN sent, NEW k
  PROVE  (Is(k, n) <=> Is(k, n)') /\ sent[n] = sent[n]'
BY SentGrows DEF Is

LEMMA StepEffect ==
  ASSUME TypeOK, NEW n \in Stanzas, NEW v \in Via, NEW step, Step(n, v, step)
  PROVE  \A m \in Stanzas, w \in Via :
           pc'[m][w] = IF m = n /\ w = v THEN step ELSE pc[m][w]
BY DEF Step, TypeOK

(* A new row comes last and a change to a row leaves it its stanza's. *)
LEMMA InsertEffect ==
  ASSUME TypeOK, NEW n \in Stanzas, NEW v \in Via, Insert(n, v)
  PROVE  \/ Stored(n) /\ rows' = rows /\ Step(n, v, "idle")
         \/ /\ ~Stored(n)
            /\ DOMAIN rows' = DOMAIN rows \cup {Len(rows) + 1}
            /\ \A i \in DOMAIN rows : i # Len(rows) + 1 /\ rows'[i] = rows[i]
            /\ rows'[Len(rows) + 1] = NewRow(n, v)
            /\ Step(n, v, AfterInsert(v))
<1>1. NewRow(n, v) \in Row /\ rows \in Seq(Row)
  BY NewRowType DEF TypeOK
<1> DEFINE q == Append(rows, NewRow(n, v))
<1>2. /\ q \in Seq(Row) /\ Len(q) = Len(rows) + 1
      /\ \A i \in 1..Len(rows) + 1 : q[i] = IF i = Len(rows) + 1 THEN NewRow(n, v) ELSE rows[i]
  BY <1>1, QueueAppend
<1>3. DOMAIN q = 1..Len(rows) + 1 /\ DOMAIN rows = 1..Len(rows) /\ Len(rows) \in Nat
  BY <1>1, <1>2
<1>4. /\ DOMAIN q = DOMAIN rows \cup {Len(rows) + 1}
      /\ \A i \in DOMAIN rows : i # Len(rows) + 1 /\ q[i] = rows[i]
      /\ q[Len(rows) + 1] = NewRow(n, v)
  BY <1>2, <1>3
<1> QED
  BY <1>4 DEF Insert

LEMMA EditEffect ==
  ASSUME TypeOK, NEW n \in Stanzas, NEW v \in Via,
         Edit(n, v) \/ React(n, v) \/ Wipe(n, v) \/ Unreact(n, v)
  PROVE  /\ DOMAIN rows' = DOMAIN rows
         /\ \A i \in DOMAIN rows :
              /\ rows'[i].of = rows[i].of
              /\ rows[i].retracted => rows'[i].retracted
              /\ \/ rows'[i].body = rows[i].body
                 \/ Edit(n, v) /\ rows'[i].body = n
                 \/ Wipe(n, v) /\ rows'[i].body = Null /\ rows'[i].retracted
         /\ Edit(n, v) /\ hit[n][v] \in DOMAIN rows => rows'[hit[n][v]].body = n
<1>1. \A i \in DOMAIN rows : rows[i] \in Row
  BY DEF TypeOK
<1>2. CASE Edit(n, v)
  <2> DEFINE r(i) == [rows[i] EXCEPT !.body = n]
  <2>1. rows' = [i \in DOMAIN rows |-> IF i = hit[n][v] THEN r(i) ELSE rows[i]]
    BY <1>2 DEF Edit
  <2>2. \A i \in DOMAIN rows : r(i).of = rows[i].of /\ r(i).retracted = rows[i].retracted /\ r(i).body = n
    BY <1>1 DEF Row
  <2> HIDE DEF r
  <2> QED
    BY <1>2, <2>1, <2>2
<1>3. CASE React(n, v)
  <2> DEFINE r(i) == [rows[i] EXCEPT !.reaction = n]
  <2>1. rows' = [i \in DOMAIN rows |-> IF i = hit[n][v] THEN r(i) ELSE rows[i]]
    BY <1>3 DEF React
  <2>2. \A i \in DOMAIN rows : r(i).of = rows[i].of /\ r(i).retracted = rows[i].retracted /\ r(i).body = rows[i].body
    BY <1>1 DEF Row
  <2>3. ~Edit(n, v)
    BY <1>3 DEF React, Edit
  <2> HIDE DEF r
  <2> QED
    BY <1>3, <2>1, <2>2, <2>3
<1>4. CASE Wipe(n, v)
  <2> DEFINE r(i) == [rows[i] EXCEPT !.body = Null, !.retracted = TRUE]
  <2>1. rows' = [i \in DOMAIN rows |-> IF i = hit[n][v] THEN r(i) ELSE rows[i]]
    BY <1>4 DEF Wipe
  <2>2. \A i \in DOMAIN rows : r(i).of = rows[i].of /\ r(i).retracted /\ r(i).body = Null
    BY <1>1 DEF Row
  <2>3. ~Edit(n, v)
    BY <1>4 DEF Wipe, Edit
  <2> HIDE DEF r
  <2> QED
    BY <1>4, <2>1, <2>2, <2>3
<1>5. CASE Unreact(n, v)
  <2> DEFINE r(i) == [rows[i] EXCEPT !.reaction = 0]
  <2>1. rows' = [i \in DOMAIN rows |-> IF i = hit[n][v] THEN r(i) ELSE rows[i]]
    BY <1>5 DEF Unreact
  <2>2. \A i \in DOMAIN rows : r(i).of = rows[i].of /\ r(i).retracted = rows[i].retracted /\ r(i).body = rows[i].body
    BY <1>1 DEF Row
  <2>3. ~Edit(n, v)
    BY <1>5 DEF Unreact, Edit
  <2> HIDE DEF r
  <2> QED
    BY <1>5, <2>1, <2>2, <2>3
<1> QED
  BY <1>2, <1>3, <1>4, <1>5

-----------------------------------------------------------------------------
(* Rows are never taken away, and a correction or a retraction that shows in one keeps
   showing. *)
LEMMA RowsGrow ==
  ASSUME Sound, [Next]_vars
  PROVE  \A i \in DOMAIN rows :
           i \in DOMAIN rows' /\ rows'[i].of = rows[i].of /\ (Changed(i) => Changed(i)')
<1>0. TypeOK
  BY DEF Sound
<1>s. \A k, n : Is(k, n) => Is(k, n)'
  BY SentGrows DEF Is
<1>1. CASE rows' = rows
  BY <1>1, <1>s DEF Changed
<1>2. ASSUME NEW n \in Stanzas, NEW v \in Via, Insert(n, v)
      PROVE  \A i \in DOMAIN rows : i \in DOMAIN rows' /\ rows'[i] = rows[i]
  BY <1>0, <1>2, InsertEffect
<1>3. ASSUME NEW n \in Stanzas, NEW v \in Via,
             Edit(n, v) \/ React(n, v) \/ Wipe(n, v) \/ Unreact(n, v),
             NEW i \in DOMAIN rows
      PROVE  i \in DOMAIN rows' /\ rows'[i].of = rows[i].of /\ (Changed(i) => Changed(i)')
  <2>1. Edit(n, v) => Is("correct", n)
    BY <1>3 DEF Sound, HandlerSound, Edit
  <2>2. /\ i \in DOMAIN rows' /\ rows'[i].of = rows[i].of
        /\ rows[i].retracted => rows'[i].retracted
        /\ \/ rows'[i].body = rows[i].body
           \/ Edit(n, v) /\ rows'[i].body = n
           \/ rows'[i].retracted
    BY <1>0, <1>3, EditEffect
  <2> QED
    BY <2>1, <2>2, <1>s DEF Changed
<1>4. ASSUME NEW n \in Stanzas, NEW v \in Via, HandlerNext(n, v)
      PROVE  \/ rows' = rows \/ Insert(n, v)
             \/ Edit(n, v) \/ React(n, v) \/ Wipe(n, v) \/ Unreact(n, v)
  BY <1>4 DEF HandlerNext, Open, OpenFails, Find, Receipt, Bump, table
<1>5. rows' = rows \/ \E n \in Stanzas, v \in Via : HandlerNext(n, v)
  BY StepKinds DEF Quiet, CoreStops, Arrival, table
<1> QED
  BY <1>1, <1>2, <1>3, <1>4, <1>5, <1>s DEF Changed

(* What is stored stays stored, and what is applied stays applied. *)
LEMMA StoredStays ==
  ASSUME Sound, [Next]_vars, NEW n
  PROVE  /\ \A i \in RowsOf(n) : i \in RowsOf(n)'
         /\ Stored(n) => Stored(n)'
         /\ n \in DOMAIN sent /\ Applied(n) => Applied(n)'
<1>1. \A m : \A i \in RowsOf(m) : i \in RowsOf(m)' /\ (Changed(i) => Changed(i)')
  BY RowsGrow DEF RowsOf
<1>2. \A m : Stored(m) => Stored(m)'
  BY <1>1 DEF Stored
<1>3. ASSUME n \in DOMAIN sent, Applied(n)
      PROVE  Applied(n)'
  <2>1. sent'[n] = sent[n]
    BY <1>3, SentGrows
  <2> QED
    BY <1>1, <1>2, <1>3, <2>1 DEF Applied
<1> QED
  BY <1>1, <1>2, <1>3

(* Every step preserves what is said of the archive. *)
LEMMA NextArchiveSound ==
  ASSUME Sound, [Next]_vars
  PROVE  ArchiveSound'
<1>0. TypeOK /\ ArchiveSound /\ Len(sent) \in Nat
  BY DEF Sound, TypeOK
<1>1. Len(sent') <= MaxSent
  BY SentGrows
<1>2. cursor' <= Len(sent')
  <2>1. CASE cursor' = cursor
    BY <1>0, <2>1, SentGrows DEF ArchiveSound, TypeOK
  <2>2. ASSUME NEW s \in Syncs, SyncSave(s)
        PROVE  cursor' <= Len(sent')
    <3>1. cursor' = page[s].last /\ page[s].last <= Len(sent) /\ sent' = sent
      BY <2>2 DEF SyncSave, Sound, SyncSound, archive
    <3> QED
      BY <3>1
  <2>3. ASSUME NEW s \in Syncs, SyncNext(s)
        PROVE  cursor' = cursor \/ SyncSave(s)
    BY <2>3 DEF SyncNext, SyncRead, SyncAsk, SyncResult, SyncFin, SyncTimeout, marks
  <2>4. ASSUME NEW n \in Stanzas, NEW v \in Via, HandlerNext(n, v)
        PROVE  cursor' = cursor
    BY <2>4 DEF HandlerNext, Open, OpenFails, Insert, Find, Edit, React, Wipe, Unreact, Receipt, Bump,
                marks
  <2>5. ASSUME PeerSends \/ SessionUp \/ SessionDown \/ MarkRead \/ LiveMiss \/ LiveDelivery
               \/ CoreStops \/ UNCHANGED vars
        PROVE  cursor' = cursor
    BY <2>5 DEF PeerSends, SessionUp, SessionDown, MarkRead, LiveMiss, LiveDelivery, CoreStops, vars, marks
  <2> QED
    BY <2>1, <2>2, <2>3, <2>4, <2>5 DEF Next
<1>3. \A n \in Stanzas, v \in Via : pc'[n][v] # "idle" => n \in DOMAIN sent'
  <2> SUFFICES ASSUME NEW n \in Stanzas, NEW v \in Via, pc'[n][v] # "idle"
               PROVE  n \in DOMAIN sent
    BY SentGrows
  <2>1. CASE Quiet \/ CoreStops
    BY <1>0, <2>1 DEF Quiet, CoreStops, ArchiveSound
  <2>2. ASSUME NEW m \in Stanzas, NEW w \in Via, m \in DOMAIN sent, Arrival(m, w)
        PROVE  n \in DOMAIN sent
    BY <1>0, <2>2, StepEffect DEF Arrival, Arrive, ArchiveSound
  <2>3. ASSUME NEW m \in Stanzas, NEW w \in Via, HandlerNext(m, w)
        PROVE  n \in DOMAIN sent
    <3>1. \E step : Step(m, w, step) /\ pc[m][w] # "idle"
      BY <2>3 DEF HandlerNext, Open, OpenFails, Insert, Find, Edit, React, Wipe, Unreact, Receipt,
                  Bump, Finish
    <3> QED
      BY <1>0, <3>1, StepEffect DEF ArchiveSound
  <2> QED
    BY <2>1, <2>2, <2>3, StepKinds
<1>4. receipted' \cup opened' \subseteq DOMAIN sent'
  <2>1. ASSUME NEW m \in Stanzas, NEW w \in Via, HandlerNext(m, w)
        PROVE  /\ m \in DOMAIN sent
               /\ receipted' \subseteq receipted \cup {m}
               /\ opened' \subseteq opened \cup {m}
    <3>1. pc[m][w] # "idle"
      BY <2>1 DEF HandlerNext, Open, OpenFails, Insert, Find, Edit, React, Wipe, Unreact, Receipt, Bump
    <3>2. /\ receipted' = receipted \/ receipted' = receipted \cup {m}
          /\ opened' = opened \/ opened' = opened \cup ({m} \cap Encrypted)
      BY <2>1 DEF HandlerNext, Open, OpenFails, Insert, Find, Edit, React, Wipe, Unreact, Receipt, Bump
    <3> QED
      BY <1>0, <3>1, <3>2 DEF ArchiveSound
  <2>2. CASE receipted' = receipted /\ opened' = opened
    BY <1>0, <2>2, SentGrows DEF ArchiveSound
  <2>3. (receipted' = receipted /\ opened' = opened)
          \/ \E n \in Stanzas, v \in Via : HandlerNext(n, v)
    BY StepKinds DEF Quiet, CoreStops, Arrival
  <2> QED
    BY <1>0, <2>1, <2>2, <2>3, SentGrows DEF ArchiveSound
<1> QED
  BY <1>1, <1>2, <1>3, <1>4 DEF ArchiveSound

(* A handler that does not move stays sound. *)
LEMMA HandlerStays ==
  ASSUME Sound, [Next]_vars, NEW n \in Stanzas, NEW v \in Via,
         pc'[n][v] = pc[n][v], pc[n][v] = "edit" => hit'[n][v] = hit[n][v]
  PROVE  HandlerSound(n, v)'
<1>1. HandlerSound(n, v)
  BY DEF Sound
<1>2. CASE pc[n][v] = "idle"
  BY <1>2 DEF HandlerSound
<1>3. CASE pc[n][v] # "idle"
  <2>1. n \in DOMAIN sent
    BY <1>3 DEF Sound, ArchiveSound
  <2>2. /\ \A k : Is(k, n) <=> Is(k, n)'
        /\ sent'[n] = sent[n]
        /\ Stored(n) => Stored(n)'
        /\ \A i \in RowsOf(sent[n].of) : i \in RowsOf(sent[n].of)'
    BY <2>1, KindStays, StoredStays
  <2> QED
    BY <1>1, <2>2 DEF HandlerSound
<1> QED
  BY <1>2, <1>3

(* A handler's step leaves the other handlers where they are, and the archive too. *)
LEMMA OthersStay ==
  ASSUME TypeOK, NEW n \in Stanzas, NEW v \in Via, HandlerNext(n, v)
  PROVE  /\ \A m \in Stanzas, w \in Via : ~(m = n /\ w = v) =>
              pc'[m][w] = pc[m][w] /\ hit'[m][w] = hit[m][w]
         /\ sent' = sent /\ overlapped' = overlapped /\ killed' = killed
<1>1. \E step : Step(n, v, step)
  BY DEF HandlerNext, Open, OpenFails, Insert, Find, Edit, React, Wipe, Unreact, Receipt, Bump, Finish
<1>2. \A m \in Stanzas, w \in Via : ~(m = n /\ w = v) => pc'[m][w] = pc[m][w]
  BY <1>1, StepEffect
<1>3. \E x : hit' = [hit EXCEPT ![n][v] = x]
  <2>1. CASE hit' = hit
    <3>1. hit = [hit EXCEPT ![n][v] = hit[n][v]]
      BY DEF TypeOK
    <3> QED
      BY <2>1, <3>1
  <2>2. CASE Find(n, v)
    BY <2>2 DEF Find
  <2>3. CASE Finish(n, v)
    BY <2>3 DEF Finish
  <2> QED
    BY <2>1, <2>2, <2>3 DEF HandlerNext, Open, OpenFails, Insert, Edit, React, Wipe, Unreact,
                            Receipt, Bump
<1>4. \A m \in Stanzas, w \in Via : ~(m = n /\ w = v) => hit'[m][w] = hit[m][w]
  BY <1>3 DEF TypeOK
<1>5. sent' = sent /\ overlapped' = overlapped /\ killed' = killed
  BY DEF HandlerNext, Open, OpenFails, Insert, Find, Edit, React, Wipe, Unreact, Receipt, Bump,
         archive, history
<1> QED
  BY <1>2, <1>4, <1>5

LEMMA AimedAt ==
  ASSUME NEW n
  PROVE  /\ Is("correct", n) => Aimed(n) = "edit"
         /\ ~Is("correct", n) => Aimed(n) \in {"react", "wipe"}
BY DEF Aimed, Is

(* A handler's step leaves that handler sound. *)
LEMMA HandlerMoves ==
  ASSUME Sound, OneRowEach, NEW n \in Stanzas, NEW v \in Via, HandlerNext(n, v)
  PROVE  HandlerSound(n, v)'
<1>0. TypeOK /\ HandlerSound(n, v) /\ sent' = sent /\ \A k : Is(k, n) <=> Is(k, n)'
  BY OthersStay DEF Sound, Is
<1>e. \A step : Step(n, v, step) => pc'[n][v] = step
  BY <1>0, StepEffect
<1>i. pc'[n][v] = "idle" => HandlerSound(n, v)'
  BY DEF HandlerSound
<1>1. CASE Open(n, v)
  <2>1. pc'[n][v] = FirstStep(n, v)
    BY <1>1, <1>e DEF Open
  <2> QED
    BY <1>0, <2>1 DEF FirstStep, HandlerSound
<1>2. CASE OpenFails(n, v)
  <2>1. pc'[n][v] = IF Is("text", n) THEN "placeholder" ELSE "idle"
    BY <1>2, <1>e DEF OpenFails
  <2> QED
    BY <1>0, <2>1 DEF HandlerSound
<1>3. CASE Insert(n, v)
  <2>1. CASE Step(n, v, "idle")
    BY <2>1, <1>e, <1>i
  <2>2. CASE /\ DOMAIN rows' = DOMAIN rows \cup {Len(rows) + 1}
             /\ rows'[Len(rows) + 1] = NewRow(n, v)
             /\ Step(n, v, AfterInsert(v))
    <3>1. Stored(n)'
      BY <1>0, <2>2, NewRowType DEF Stored, RowsOf
    <3>2. pc'[n][v] \in {"bump", "idle"}
      BY <2>2, <1>e DEF AfterInsert
    <3> QED
      BY <3>1, <3>2 DEF HandlerSound
  <2> QED
    BY <1>0, <1>3, <2>1, <2>2, InsertEffect
<1>4. CASE Find(n, v)
  <2>1. /\ hit'[n][v] = Max0(RowsOf(sent[n].of))
        /\ pc'[n][v] = IF Stored(sent[n].of) THEN Aimed(n)
                       ELSE IF Is("correct", n) THEN "insert" ELSE "idle"
        /\ rows' = rows
    BY <1>0, <1>4, <1>e DEF Find, TypeOK, table
  <2>2. Stored(sent[n].of) => hit'[n][v] \in RowsOf(sent[n].of)
    BY <1>0, <2>1, MaxIsMember
  <2>3. RowsOf(sent[n].of)' = RowsOf(sent[n].of)
    BY <1>0, <2>1 DEF RowsOf
  <2>4. ~Is("text", n)
    BY <1>0, <1>4 DEF Find, HandlerSound
  <2>5. pc'[n][v] \in {"edit", "react", "wipe", "insert", "idle"}
        /\ (pc'[n][v] = "edit" => Is("correct", n) /\ Stored(sent[n].of))
        /\ (pc'[n][v] \in {"react", "wipe"} => ~Is("correct", n))
    BY <2>1, AimedAt
  <2> QED
    BY <1>0, <2>2, <2>3, <2>4, <2>5 DEF HandlerSound
<1>5. CASE Edit(n, v) \/ React(n, v) \/ Unreact(n, v) \/ (Bump(n) /\ v = "live")
  <2>1. pc'[n][v] = "idle"
    BY <1>5, <1>e DEF Edit, React, Unreact, Finish, Bump
  <2> QED
    BY <1>i, <2>1
<1>6. CASE Wipe(n, v)
  <2>1. pc'[n][v] = "unreact" /\ ~Is("text", n) /\ ~Is("correct", n)
    BY <1>0, <1>6, <1>e DEF Wipe, HandlerSound
  <2> QED
    BY <1>0, <2>1 DEF HandlerSound
<1>7. CASE Receipt(n) /\ v = "live"
  <2>1. pc'[n][v] = "insert"
    BY <1>7, <1>e DEF Receipt
  <2> QED
    BY <2>1 DEF HandlerSound
<1> QED
  BY <1>1, <1>2, <1>3, <1>4, <1>5, <1>6, <1>7 DEF HandlerNext

(* Every step leaves every handler sound. *)
LEMMA NextHandlerSound ==
  ASSUME Sound, OneRowEach, [Next]_vars, NEW n \in Stanzas, NEW v \in Via
  PROVE  HandlerSound(n, v)'
<1>0. TypeOK
  BY DEF Sound
<1>1. CASE Quiet
  BY <1>1, HandlerStays DEF Quiet
<1>2. CASE CoreStops
  <2>1. pc'[n][v] = "idle"
    BY <1>2 DEF CoreStops
  <2> QED
    BY <2>1 DEF HandlerSound
<1>3. ASSUME NEW m \in Stanzas, NEW w \in Via, Arrival(m, w)
      PROVE  HandlerSound(n, v)'
  <2>1. CASE n = m /\ v = w
    <3>1. pc'[n][v] = "open"
      BY <1>0, <1>3, <2>1, StepEffect DEF Arrival, Arrive
    <3> QED
      BY <3>1 DEF HandlerSound
  <2>2. CASE ~(n = m /\ v = w)
    BY <1>0, <1>3, <2>2, StepEffect, HandlerStays DEF Arrival, Arrive
  <2> QED
    BY <2>1, <2>2
<1>4. ASSUME NEW m \in Stanzas, NEW w \in Via, HandlerNext(m, w)
      PROVE  HandlerSound(n, v)'
  <2>1. CASE n = m /\ v = w
    BY <1>4, <2>1, HandlerMoves
  <2>2. CASE ~(n = m /\ v = w)
    BY <1>0, <1>4, <2>2, OthersStay, HandlerStays
  <2> QED
    BY <2>1, <2>2
<1> QED
  BY <1>1, <1>2, <1>3, <1>4, StepKinds

-----------------------------------------------------------------------------
(* The catch-up.                                                             *)

(* The handler of a text that ends leaves the text stored. *)
LEMMA TextGoesOn ==
  ASSUME Sound, OneRowEach, NEW n \in Stanzas, NEW v \in Via, HandlerNext(n, v), Is("text", n)
  PROVE  pc'[n][v] # "idle" \/ Stored(n)'
<1>0. TypeOK /\ HandlerSound(n, v)
  BY DEF Sound
<1>e. \A step : Step(n, v, step) => pc'[n][v] = step
  BY <1>0, StepEffect
<1>1. CASE Open(n, v) \/ OpenFails(n, v)
  BY <1>1, <1>e DEF Open, OpenFails, FirstStep
<1>2. CASE Insert(n, v)
  <2>1. CASE Stored(n) /\ rows' = rows
    BY <2>1 DEF Stored, RowsOf
  <2>2. CASE /\ DOMAIN rows' = DOMAIN rows \cup {Len(rows) + 1}
             /\ rows'[Len(rows) + 1] = NewRow(n, v)
    BY <1>0, <2>2, NewRowType DEF Stored, RowsOf
  <2> QED
    BY <1>0, <1>2, <2>1, <2>2, InsertEffect
<1>3. CASE Find(n, v) \/ Edit(n, v) \/ React(n, v) \/ Wipe(n, v) \/ Unreact(n, v)
  BY <1>0, <1>3 DEF Find, Edit, React, Wipe, Unreact, HandlerSound
<1>4. CASE v = "live" /\ Receipt(n)
  BY <1>4, <1>e DEF Receipt
<1>5. CASE v = "live" /\ Bump(n)
  <2>1. Stored(n) /\ rows' = rows
    BY <1>0, <1>5 DEF Bump, HandlerSound
  <2> QED
    BY <2>1 DEF Stored, RowsOf
<1> QED
  BY <1>1, <1>2, <1>3, <1>4, <1>5 DEF HandlerNext

(* What a text is once kept it stays. *)
LEMMA KeptStays ==
  ASSUME Sound, OneRowEach, [Next]_vars, NEW n \in DOMAIN sent, Is("text", n), Kept(n)
  PROVE  Kept(n)'
<1>0. TypeOK /\ n \in Stanzas
  BY DEF Sound, ArchiveSound, TypeOK, Stanzas
<1>1. CASE Stored(n)
  BY <1>1, StoredStays DEF Kept
<1>2. CASE n \in killed
  <2>1. killed \subseteq killed'
    BY <1>0, StepKinds, OthersStay DEF Quiet, CoreStops, Arrival
  <2> QED
    BY <1>2, <2>1 DEF Kept
<1>3. ASSUME InHand(n), NEW v \in Via, pc[n][v] # "idle"
      PROVE  Kept(n)'
  <2>1. CASE Quiet
    BY <1>3, <2>1 DEF Quiet, Kept, InHand
  <2>2. CASE CoreStops
    BY <1>0, <1>3, <2>2 DEF CoreStops, Kept
  <2>3. ASSUME NEW m \in Stanzas, NEW w \in Via, Arrival(m, w)
        PROVE  Kept(n)'
    <3>1. pc'[n][v] # "idle"
      BY <1>0, <1>3, <2>3, StepEffect DEF Arrival, Arrive
    <3> QED
      BY <3>1 DEF Kept, InHand
  <2>4. ASSUME NEW m \in Stanzas, NEW w \in Via, HandlerNext(m, w)
        PROVE  Kept(n)'
    <3>1. CASE ~(n = m /\ v = w)
      BY <1>0, <1>3, <2>4, <3>1, OthersStay DEF Kept, InHand
    <3>2. CASE n = m /\ v = w
      BY <1>0, <2>4, <3>2, TextGoesOn DEF Kept, InHand
    <3> QED
      BY <3>1, <3>2
  <2> QED
    BY <2>1, <2>2, <2>3, <2>4, StepKinds
<1> QED
  BY <1>1, <1>2, <1>3 DEF Kept, InHand

(* The same for a range of stanzas, of which later ones are not part. *)
LEMMA RangeStays ==
  ASSUME Sound, OneRowEach, [Next]_vars, NEW a \in Nat, NEW b \in Nat, b <= Len(sent),
         \A n \in a..b : Is("text", n) => Kept(n)
  PROVE  \A n \in a..b : Is("text", n)' => Kept(n)'
<1> SUFFICES ASSUME NEW n \in a..b, Is("text", n)'
             PROVE  Kept(n)'
  OBVIOUS
<1>1. sent \in Seq([kind : Kinds, of : Stanzas]) /\ sent' \in Seq([kind : Kinds, of : Stanzas])
  BY NextTypeOK DEF Sound, TypeOK
<1>2. n \in DOMAIN sent
  BY <1>1 DEF Is
<1> QED
  BY <1>2, KindStays, KeptStays

SameTask(t) ==
  spc'[t] = spc[t] /\ after'[t] = after[t] /\ left'[t] = left[t] /\ page'[t] = page[t]

(* A step is one of a catch-up task, starts or ends it, or leaves it alone. *)
LEMMA TaskKinds ==
  ASSUME Sound, [Next]_vars, NEW t \in Syncs
  PROVE  SameTask(t) \/ spc'[t] \in {"off", "read"} \/ SyncNext(t)
<1>0. TypeOK
  BY DEF Sound
<1>1. CASE UNCHANGED sync
  BY <1>1 DEF sync, SameTask
<1>2. CASE SessionUp \/ CoreStops
  BY <1>0, <1>2 DEF SessionUp, CoreStops, SameTask, TypeOK
<1>3. ASSUME NEW s \in Syncs, SyncNext(s), s # t
      PROVE  SameTask(t)
  <2>1. CASE SyncEnds(s)
    BY <1>0, <1>3, <2>1 DEF SyncEnds, SameTask, TypeOK
  <2>2. CASE SyncRead(s) \/ SyncAsk(s)
    BY <1>0, <1>3, <2>2 DEF SyncRead, SyncAsk, SameTask, TypeOK
  <2>3. CASE SyncResult(s)
    BY <1>0, <1>3, <2>3 DEF SyncResult, SameTask, TypeOK
  <2>4. CASE SyncFin(s) \/ SyncSave(s) \/ SyncTimeout(s)
    BY <1>0, <1>3, <2>1, <2>4 DEF SyncFin, SyncSave, SyncTimeout, SameTask, TypeOK
  <2> QED
    BY <1>3, <2>2, <2>3, <2>4 DEF SyncNext
<1>4. ASSUME NEW n \in Stanzas, NEW v \in Via, HandlerNext(n, v)
      PROVE  UNCHANGED sync
  BY <1>4 DEF HandlerNext, Open, OpenFails, Insert, Find, Edit, React, Wipe, Unreact, Receipt, Bump
<1>5. ASSUME PeerSends \/ SessionDown \/ MarkRead \/ LiveMiss \/ LiveDelivery \/ UNCHANGED vars
      PROVE  UNCHANGED sync
  BY <1>5 DEF PeerSends, SessionDown, MarkRead, LiveMiss, LiveDelivery, vars, sync
<1> QED
  BY <1>1, <1>2, <1>3, <1>4, <1>5 DEF Next

(* Every step leaves a catch-up task what it counts on. *)
LEMMA NextSyncSound ==
  ASSUME Sound, OneRowEach, [Next]_vars, NEW t \in Syncs
  PROVE  SyncSound(t)'
<1>0. TypeOK /\ ArchiveSound /\ SyncSound(t) /\ Len(sent) \in Nat /\ Len(sent') \in Nat
  <2>1. TypeOK /\ TypeOK'
    BY NextTypeOK DEF Sound
  <2>2. Len(sent) \in Nat /\ Len(sent') \in Nat
    <3>1. sent \in Seq([kind : Kinds, of : Stanzas])
      BY <2>1 DEF TypeOK
    <3>2. sent' \in Seq([kind : Kinds, of : Stanzas])
      BY <2>1 DEF TypeOK
    <3> QED
      BY <3>1, <3>2
  <2> QED
    BY <2>1, <2>2 DEF Sound
<1>1. CASE spc'[t] \in {"off", "read"}
  BY <1>1 DEF SyncSound
<1>2. CASE SameTask(t)
  <2>1. Len(sent) <= Len(sent') /\ after[t] \in Nat /\ page[t].last \in Nat
    BY <1>0, SentGrows DEF TypeOK
  <2> QED
    BY <1>0, <1>2, <2>1 DEF SameTask, SyncSound
<1>3. CASE SyncEnds(t)
  <2>1. spc'[t] = "off"
    BY <1>0, <1>3 DEF SyncEnds, TypeOK
  <2> QED
    BY <2>1 DEF SyncSound
<1>4. CASE SyncRead(t)
  <2>1. spc'[t] = "ask" /\ after'[t] = cursor /\ left'[t] = MaxPages /\ sent' = sent
    BY <1>0, <1>4 DEF SyncRead, TypeOK, archive
  <2> QED
    BY <1>0, <2>1 DEF SyncSound, ArchiveSound
<1>5. CASE SyncAsk(t)
  <2>1. spc'[t] = "results" /\ after'[t] = after[t] /\ page'[t] = PageAfter(after[t]) /\ sent' = sent
    BY <1>0, <1>5 DEF SyncAsk, TypeOK, archive
  <2>2. after[t] \in 0..Len(sent)
    BY <1>0, <1>5 DEF SyncAsk, SyncSound, TypeOK
  <2>3. /\ page'[t].next > 0 /\ page'[t].last <= Len(sent')
        /\ page'[t].next <= page'[t].last + 1
    BY <1>0, <2>1, <2>2, PageType DEF ArchiveSound
  <2> QED
    BY <2>1, <2>2, <2>3 DEF SyncSound
<1>6. CASE SyncResult(t)
  <2>1. /\ spc'[t] = "results" /\ after'[t] = after[t] /\ sent' = sent
        /\ page'[t] = [page[t] EXCEPT !.next = @ + 1]
        /\ page[t] \in [next : Nat, last : 0..MaxSent, complete : BOOLEAN]
    BY <1>0, <1>6 DEF SyncResult, TypeOK, archive
  <2> QED
    BY <1>0, <1>6, <2>1 DEF SyncSound, SyncResult
<1>7. CASE SyncFin(t)
  <2>1. CASE page[t].last # after[t]
    <3>1. spc'[t] = "save" /\ UNCHANGED <<after, page, sent>>
      BY <1>0, <1>7, <2>1 DEF SyncFin, TypeOK, archive
    <3> QED
      BY <1>0, <1>7, <2>1, <3>1 DEF SyncFin, SyncSound
  <2> QED
    BY <1>3, <1>7, <2>1 DEF SyncFin
<1>8. CASE SyncSave(t)
  <2>1. CASE ~SyncEnds(t)
    <3>1. /\ spc'[t] = "ask" /\ after'[t] = page[t].last /\ UNCHANGED <<left, page, sent>>
          /\ left[t] # 0
      BY <1>0, <1>8, <2>1 DEF SyncSave, TypeOK, archive
    <3>2. left[t] \in 0..MaxPages
      BY <1>0 DEF TypeOK
    <3> QED
      BY <1>0, <1>8, <3>1, <3>2 DEF SyncSave, SyncSound
  <2> QED
    BY <1>3, <2>1
<1>9. CASE SyncTimeout(t)
  BY <1>3, <1>9 DEF SyncTimeout
<1> QED
  BY <1>1, <1>2, <1>4, <1>5, <1>6, <1>7, <1>8, <1>9, TaskKinds DEF SyncNext

(* Every step keeps what a page and the cursor promise. *)
LEMMA CursorMoves ==
  ASSUME Sound, [Next]_vars
  PROVE  \/ cursor' = cursor /\ horizon' = horizon
         \/ \E s \in Syncs : SyncSave(s)
<1>1. ASSUME NEW n \in Stanzas, NEW v \in Via, HandlerNext(n, v)
      PROVE  UNCHANGED marks
  BY <1>1 DEF HandlerNext, Open, OpenFails, Insert, Find, Edit, React, Wipe, Unreact, Receipt, Bump
<1>2. ASSUME NEW s \in Syncs, SyncNext(s)
      PROVE  UNCHANGED marks \/ SyncSave(s)
  BY <1>2 DEF SyncNext, SyncRead, SyncAsk, SyncResult, SyncFin, SyncTimeout
<1>3. ASSUME PeerSends \/ SessionUp \/ SessionDown \/ MarkRead \/ LiveMiss \/ LiveDelivery \/ CoreStops
             \/ UNCHANGED vars
      PROVE  UNCHANGED marks
  BY <1>3 DEF PeerSends, SessionUp, SessionDown, MarkRead, LiveMiss, LiveDelivery, CoreStops, vars, marks
<1> QED
  BY <1>1, <1>2, <1>3 DEF Next, marks

LEMMA HorizonGrows ==
  ASSUME Sound, [Next]_vars
  PROVE  horizon <= horizon'
<1>1. horizon \in Nat
  BY DEF Sound, TypeOK
<1>2. ASSUME NEW s \in Syncs, SyncSave(s)
      PROVE  horizon <= horizon'
  <2>1. page[s].last \in 0..MaxSent
    BY DEF Sound, TypeOK
  <2>2. FirstOf(page[s].last) \in Nat
    BY <2>1 DEF FirstOf
  <2> QED
    BY <1>1, <1>2, <2>2 DEF SyncSave
<1> QED
  BY <1>1, <1>2, CursorMoves

(* A task that moves the cursor has seen to everything up to there. *)
LEMMA SavedRange ==
  ASSUME Sound, PagesKept, NEW s \in Syncs, spc[s] = "save"
  PROVE  /\ after[s] # 0 => \A n \in horizon..page[s].last : Is("text", n) => Kept(n)
         /\ after[s] = 0 => \A n \in FirstOf(page[s].last)..page[s].last : Is("text", n) => Kept(n)
<1>1. /\ PageKept(s) /\ page[s].last \in Nat /\ after[s] \in Nat /\ horizon \in Nat
  BY DEF PagesKept, Sound, TypeOK
<1>2. CASE after[s] # 0
  <2>1. \A n \in after[s] + 1..page[s].last : Is("text", n) => Kept(n)
    BY <1>1, <1>2 DEF PageKept, Start
  <2>2. \A n \in horizon..after[s] : Is("text", n) => Kept(n)
    BY <1>1, <1>2 DEF PageKept
  <2>3. \A n \in horizon..page[s].last : n \in horizon..after[s] \/ n \in after[s] + 1..page[s].last
    BY <1>1
  <2> QED
    BY <1>2, <2>1, <2>2, <2>3
<1>3. CASE after[s] = 0
  BY <1>1, <1>3 DEF PageKept, Start
<1> QED
  BY <1>2, <1>3

LEMMA NextPageKept ==
  ASSUME Sound, OneRowEach, PagesKept, [Next]_vars, NEW t \in Syncs
  PROVE  PageKept(t)'
<1>0. /\ TypeOK /\ ArchiveSound /\ SyncSound(t) /\ PageKept(t) /\ AcknowledgedIsKept
      /\ page[t] \in [next : Nat, last : 0..MaxSent, complete : BOOLEAN]
      /\ after[t] \in Nat /\ horizon \in Nat /\ cursor \in Nat /\ Len(sent) \in Nat
      /\ horizon <= horizon' /\ horizon' \in Nat
  <2>1. TypeOK /\ TypeOK' /\ horizon <= horizon'
    BY HorizonGrows, NextTypeOK DEF Sound
  <2>2. horizon' \in Nat
    BY <2>1 DEF TypeOK
  <2>3. /\ page[t] \in [next : Nat, last : 0..MaxSent, complete : BOOLEAN]
        /\ after[t] \in Nat /\ horizon \in Nat /\ cursor \in Nat /\ Len(sent) \in Nat
    BY <2>1 DEF TypeOK
  <2> QED
    BY <2>1, <2>2, <2>3 DEF Sound, PagesKept
<1>s. Start(t) \in Nat
  BY <1>0 DEF Start, FirstOf
<1>h. ASSUME NEW b \in Nat, b <= Len(sent), \A n \in horizon..b : Is("text", n) => Kept(n)
      PROVE  \A n \in horizon'..b : Is("text", n)' => Kept(n)'
  <2>1. \A n \in horizon..b : Is("text", n)' => Kept(n)'
    BY <1>0, <1>h, RangeStays
  <2> QED
    BY <1>0, <2>1
<1>1. CASE spc'[t] \in {"off", "read"}
  BY <1>1 DEF PageKept
<1>2. CASE SameTask(t)
  <2>1. Start(t)' = Start(t)
    BY <1>2 DEF SameTask, Start, FirstOf
  <2>2. spc[t] = "results" => \A n \in Start(t)..page[t].next - 1 : Is("text", n)' => Kept(n)'
    <3> SUFFICES ASSUME spc[t] = "results"
                 PROVE  \A n \in Start(t)..page[t].next - 1 : Is("text", n)' => Kept(n)'
      OBVIOUS
    <3>1. page[t].next - 1 \in Nat /\ page[t].next - 1 <= Len(sent)
      BY <1>0 DEF SyncSound
    <3> QED
      BY <1>0, <1>s, <3>1, RangeStays DEF PageKept
  <2>3. spc[t] = "save" => \A n \in Start(t)..page[t].last : Is("text", n)' => Kept(n)'
    <3> SUFFICES ASSUME spc[t] = "save"
                 PROVE  \A n \in Start(t)..page[t].last : Is("text", n)' => Kept(n)'
      OBVIOUS
    <3>1. page[t].last \in Nat /\ page[t].last <= Len(sent)
      BY <1>0 DEF SyncSound
    <3>2. \A n \in Start(t)..page[t].last : Is("text", n) => Kept(n)
      BY <1>0 DEF PageKept
    <3> QED
      BY <1>s, <3>1, <3>2, RangeStays
  <2>4. spc[t] \in {"ask", "results", "save"} /\ after[t] # 0 =>
          \A n \in horizon'..after[t] : Is("text", n)' => Kept(n)'
    BY <1>0, <1>h DEF PageKept, SyncSound
  <2> QED
    BY <1>2, <2>1, <2>2, <2>3, <2>4 DEF SameTask, PageKept
<1>3. CASE SyncEnds(t)
  <2>1. spc'[t] = "off"
    BY <1>0, <1>3 DEF SyncEnds, TypeOK
  <2> QED
    BY <2>1 DEF PageKept
<1>4. CASE SyncRead(t)
  <2>1. spc'[t] = "ask" /\ after'[t] = cursor
    BY <1>0, <1>4 DEF SyncRead, TypeOK
  <2>2. \A n \in horizon'..cursor : Is("text", n)' => Kept(n)'
    BY <1>0, <1>h DEF AcknowledgedIsKept, Kept, ArchiveSound
  <2> QED
    BY <2>1, <2>2 DEF PageKept
<1>5. CASE SyncAsk(t)
  <2>1. spc'[t] = "results" /\ after'[t] = after[t] /\ page'[t] = PageAfter(after[t]) /\ spc[t] = "ask"
    BY <1>0, <1>5 DEF SyncAsk, TypeOK
  <2>2. after[t] \in 0..Len(sent)
    BY <1>0, <1>5 DEF SyncAsk, SyncSound
  <2>3. PageAfter(after[t]).next = IF after[t] = 0 THEN FirstOf(PageAfter(after[t]).last) ELSE after[t] + 1
    BY <1>0, <2>2, PageType DEF ArchiveSound
  <2>4. Start(t)' = page'[t].next
    BY <2>1, <2>3 DEF Start, FirstOf
  <2>5. page'[t].next \in Nat
    BY <1>0, <2>1, <2>2, PageType DEF ArchiveSound
  <2>6. after[t] # 0 => \A n \in horizon'..after[t] : Is("text", n)' => Kept(n)'
    BY <1>0, <1>h, <2>1, <2>2 DEF PageKept
  <2> QED
    BY <2>1, <2>4, <2>5, <2>6 DEF PageKept
<1>6. CASE SyncResult(t)
  <2> PICK m \in Nat : m = page[t].next
    BY <1>0
  <2>1. /\ spc[t] = "results" /\ spc'[t] = "results" /\ after'[t] = after[t]
        /\ page'[t].next = m + 1 /\ page'[t].last = page[t].last /\ Arrive(m, "mam") /\ sent' = sent
    BY <1>0, <1>6 DEF SyncResult, TypeOK, archive
  <2>2. Start(t)' = Start(t)
    BY <2>1 DEF Start, FirstOf
  <2>a. SyncSound(t) /\ Len(sent) <= MaxSent
    BY <1>0 DEF ArchiveSound
  <2>3. m \in Stanzas /\ "mam" \in Via /\ m - 1 \in Nat /\ m - 1 <= Len(sent) /\ m \in Nat
    <3>1. 0 < m /\ m <= page[t].last /\ page[t].last <= Len(sent)
      BY <1>6, <2>a DEF SyncResult, SyncSound
    <3>2. page[t].last \in Nat /\ Len(sent) \in Nat /\ MaxSent \in Nat
      BY <1>0
    <3>3. m \in 1..MaxSent /\ m - 1 \in Nat /\ m - 1 <= Len(sent)
      BY <2>a, <3>1, <3>2
    <3> QED
      BY <3>3 DEF Stanzas, Via
  <2>4. Kept(m)'
    <3>1. pc'[m]["mam"] = "open"
      BY <1>0, <2>1, <2>3, StepEffect DEF Arrive
    <3> QED
      BY <2>3, <3>1 DEF Kept, InHand
  <2>5. \A n \in Start(t)..m - 1 : Is("text", n)' => Kept(n)'
    BY <1>0, <1>s, <2>1, <2>3, RangeStays DEF PageKept
  <2>6. \A n \in Start(t)..m : Is("text", n)' => Kept(n)'
    BY <1>s, <2>3, <2>4, <2>5
  <2>7. after[t] # 0 => \A n \in horizon'..after[t] : Is("text", n)' => Kept(n)'
    BY <1>0, <1>h, <2>1 DEF PageKept, SyncSound
  <2>8. page'[t].next - 1 = m
    BY <2>1, <2>3
  <2> QED
    BY <2>1, <2>2, <2>6, <2>7, <2>8 DEF PageKept
<1>7. CASE SyncFin(t)
  <2>1. CASE page[t].last # after[t]
    <3>1. spc'[t] = "save" /\ spc[t] = "results" /\ UNCHANGED <<after, page>> /\ page[t].next > page[t].last
      BY <1>0, <1>7, <2>1 DEF SyncFin, TypeOK
    <3>2. Start(t)' = Start(t)
      BY <3>1 DEF Start, FirstOf
    <3>3. page[t].last \in Nat /\ page[t].last <= Len(sent)
      BY <1>0, <3>1 DEF SyncSound
    <3>4. \A n \in Start(t)..page[t].last : Is("text", n) => Kept(n)
      BY <1>0, <1>s, <3>1, <3>3 DEF PageKept
    <3>5. \A n \in Start(t)..page[t].last : Is("text", n)' => Kept(n)'
      BY <1>s, <3>3, <3>4, RangeStays
    <3>6. after[t] # 0 => \A n \in horizon'..after[t] : Is("text", n)' => Kept(n)'
      BY <1>0, <1>h, <3>1 DEF PageKept, SyncSound
    <3> QED
      BY <3>1, <3>2, <3>5, <3>6 DEF PageKept
  <2> QED
    BY <1>3, <1>7, <2>1 DEF SyncFin
<1>8. CASE SyncSave(t)
  <2>1. CASE ~SyncEnds(t)
    <3>1. /\ spc'[t] = "ask" /\ after'[t] = page[t].last /\ after[t] # 0
          /\ spc[t] = "save"
      BY <1>0, <1>8, <2>1 DEF SyncSave, TypeOK
    <3>2. \A n \in horizon..page[t].last : Is("text", n) => Kept(n)
      BY <1>0, <1>s, <3>1, SavedRange
    <3>3. \A n \in horizon'..page[t].last : Is("text", n)' => Kept(n)'
      BY <1>0, <1>h, <3>1, <3>2 DEF SyncSound
    <3> QED
      BY <3>1, <3>3 DEF PageKept
  <2> QED
    BY <1>3, <2>1
<1>9. CASE SyncTimeout(t)
  BY <1>3, <1>9 DEF SyncTimeout
<1> QED
  BY <1>1, <1>2, <1>4, <1>5, <1>6, <1>7, <1>8, <1>9, TaskKinds DEF SyncNext

LEMMA NextAcknowledged ==
  ASSUME Sound, OneRowEach, PagesKept, [Next]_vars
  PROVE  AcknowledgedIsKept'
<1>0. /\ TypeOK /\ ArchiveSound /\ horizon \in Nat /\ cursor \in Nat
      /\ sent \in Seq([kind : Kinds, of : Stanzas])
  BY DEF Sound, TypeOK
<1>1. ASSUME NEW n \in horizon'..cursor', Is("text", n)'
      PROVE  Kept(n)'
  <2>1. CASE cursor' = cursor /\ horizon' = horizon
    BY <1>0, <1>1, <2>1, RangeStays DEF PagesKept, AcknowledgedIsKept, ArchiveSound, Kept
  <2>2. ASSUME NEW s \in Syncs, SyncSave(s)
        PROVE  Kept(n)'
    <3>1. /\ cursor' = page[s].last /\ spc[s] = "save"
          /\ page[s].last \in Nat /\ page[s].last <= Len(sent)
      BY <2>2 DEF SyncSave, Sound, SyncSound, TypeOK
    <3>2. FirstOf(page[s].last) \in Nat
      BY <3>1 DEF FirstOf
    <3>3. CASE after[s] # 0
      <4>1. horizon' = horizon
        BY <2>2, <3>3 DEF SyncSave
      <4>2. \A i \in horizon..page[s].last : Is("text", i) => Kept(i)
        BY <3>1, <3>3, SavedRange
      <4> QED
        BY <1>0, <1>1, <3>1, <4>1, <4>2, RangeStays
    <3>4. CASE after[s] = 0
      <4>1. FirstOf(page[s].last) <= horizon' /\ horizon' \in Nat
        BY <1>0, <2>2, <3>2, <3>4 DEF SyncSave
      <4>2. \A i \in FirstOf(page[s].last)..page[s].last : Is("text", i) => Kept(i)
        BY <3>1, <3>4, SavedRange
      <4>3. n \in FirstOf(page[s].last)..page[s].last
        BY <1>1, <3>1, <3>2, <4>1
      <4> QED
        BY <1>1, <3>1, <3>2, <4>2, <4>3, RangeStays
    <3> QED
      BY <3>3, <3>4
  <2> QED
    BY <2>1, <2>2, CursorMoves
<1>2. ASSUME NEW n \in receipted', Is("text", n)'
      PROVE  Kept(n)'
  <2>1. CASE n \in receipted
    <3>1. n \in DOMAIN sent
      BY <1>0, <2>1 DEF ArchiveSound
    <3> QED
      BY <1>2, <2>1, <3>1, KindStays, KeptStays DEF PagesKept, AcknowledgedIsKept, Kept
  <2>2. ASSUME NEW m \in Stanzas, NEW v \in Via, HandlerNext(m, v), n \notin receipted
        PROVE  Kept(n)'
    <3>1. Receipt(m) /\ n = m /\ "live" \in Via
      BY <2>2 DEF HandlerNext, Open, OpenFails, Insert, Find, Edit, React, Wipe, Unreact, Receipt, Bump, Via
    <3>2. pc'[m]["live"] = "insert"
      BY <1>0, <3>1, StepEffect DEF Receipt
    <3> QED
      BY <3>1, <3>2 DEF Kept, InHand
  <2>3. receipted' = receipted \/ \E m \in Stanzas, v \in Via : HandlerNext(m, v)
    BY StepKinds DEF Quiet, CoreStops, Arrival
  <2> QED
    BY <2>1, <2>2, <2>3
<1> QED
  BY <1>1, <1>2 DEF AcknowledgedIsKept, Kept

-----------------------------------------------------------------------------
(* The rows.                                                                 *)

LEMMA NextOneRow ==
  ASSUME Sound, OneRowEach, [Next]_vars
  PROVE  OneRowEach'
<1>0. TypeOK
  BY DEF Sound
<1>1. CASE rows' = rows
  BY <1>1 DEF OneRowEach
<1>2. ASSUME NEW n \in Stanzas, NEW v \in Via, Insert(n, v), rows' # rows
      PROVE  OneRowEach'
  <2>1. /\ ~Stored(n)
        /\ DOMAIN rows' = DOMAIN rows \cup {Len(rows) + 1}
        /\ \A i \in DOMAIN rows : i # Len(rows) + 1 /\ rows'[i] = rows[i]
        /\ rows'[Len(rows) + 1] = NewRow(n, v)
    BY <1>0, <1>2, InsertEffect
  <2>2. \A i \in DOMAIN rows : rows'[i].of # rows'[Len(rows) + 1].of
    BY <1>0, <2>1, NewRowType DEF Stored, RowsOf
  <2> QED
    BY <2>1, <2>2 DEF OneRowEach
<1>3. ASSUME NEW n \in Stanzas, NEW v \in Via,
             Edit(n, v) \/ React(n, v) \/ Wipe(n, v) \/ Unreact(n, v)
      PROVE  OneRowEach'
  BY <1>0, <1>3, EditEffect DEF OneRowEach
<1>4. ASSUME NEW n \in Stanzas, NEW v \in Via, HandlerNext(n, v)
      PROVE  OneRowEach'
  <2>1. \/ rows' = rows \/ Insert(n, v)
        \/ Edit(n, v) \/ React(n, v) \/ Wipe(n, v) \/ Unreact(n, v)
    BY <1>4 DEF HandlerNext, Open, OpenFails, Find, Receipt, Bump, table
  <2> QED
    BY <1>1, <1>2, <1>3, <2>1
<1> QED
  BY <1>1, <1>4, StepKinds DEF Quiet, CoreStops, Arrival, table

LEMMA NextPlaceholders ==
  ASSUME Sound, OneRowEach, PlaceholdersSound, [Next]_vars
  PROVE  LostOnlyByOverlap'
<1>0. /\ TypeOK /\ overlapped \cup killed \subseteq overlapped' \cup killed'
      /\ \A n : n \in Stanzas => n # Placeholder
      /\ Null # Placeholder
  <2>1. TypeOK
    BY DEF Sound
  <2>2. overlapped \cup killed \subseteq overlapped' \cup killed'
    BY <2>1, StepKinds, OthersStay DEF Quiet, CoreStops, Arrival, Arrive
  <2> QED
    BY <2>1, <2>2 DEF Stanzas, Placeholder, Null
<1>1. CASE rows' = rows
  BY <1>0, <1>1 DEF LostOnlyByOverlap, PlaceholdersSound
<1>2. ASSUME NEW n \in Stanzas, NEW v \in Via, Insert(n, v), rows' # rows
      PROVE  LostOnlyByOverlap'
  <2>1. /\ ~Stored(n)
        /\ DOMAIN rows' = DOMAIN rows \cup {Len(rows) + 1}
        /\ \A i \in DOMAIN rows : rows'[i] = rows[i]
        /\ rows'[Len(rows) + 1] = NewRow(n, v)
    BY <1>0, <1>2, InsertEffect
  <2>2. pc[n][v] = "placeholder" => n \in overlapped \cup killed
    BY <2>1 DEF PlaceholdersSound, OpenedSound
  <2>3. NewRow(n, v).of = n /\ (NewRow(n, v).body = Placeholder => pc[n][v] = "placeholder")
    BY <1>0, NewRowType
  <2> QED
    BY <1>0, <2>1, <2>2, <2>3 DEF LostOnlyByOverlap, PlaceholdersSound
<1>3. ASSUME NEW n \in Stanzas, NEW v \in Via,
             Edit(n, v) \/ React(n, v) \/ Wipe(n, v) \/ Unreact(n, v)
      PROVE  LostOnlyByOverlap'
  <2>1. \A i \in DOMAIN rows' :
          i \in DOMAIN rows /\ rows'[i].of = rows[i].of
          /\ (rows'[i].body = Placeholder => rows[i].body = Placeholder)
    BY <1>0, <1>3, EditEffect
  <2> QED
    BY <1>0, <2>1 DEF LostOnlyByOverlap, PlaceholdersSound
<1>4. ASSUME NEW n \in Stanzas, NEW v \in Via, HandlerNext(n, v)
      PROVE  LostOnlyByOverlap'
  <2>1. \/ rows' = rows \/ Insert(n, v)
        \/ Edit(n, v) \/ React(n, v) \/ Wipe(n, v) \/ Unreact(n, v)
    BY <1>4 DEF HandlerNext, Open, OpenFails, Find, Receipt, Bump, table
  <2> QED
    BY <1>1, <1>2, <1>3, <2>1
<1> QED
  BY <1>1, <1>4, StepKinds DEF Quiet, CoreStops, Arrival, table

-----------------------------------------------------------------------------
(* What a handler has done when it ends.                                     *)

Reading(n) == \E v \in Via : pc[n][v] \in {"receipt", "insert", "placeholder"}
Correcting(n) == \E v \in Via : pc[n][v] \in {"find", "edit", "insert"}

(* An insert leaves a row of its stanza behind. *)
LEMMA InsertStores ==
  ASSUME TypeOK, NEW n \in Stanzas, NEW v \in Via, Insert(n, v)
  PROVE  Stored(n)'
<1>1. CASE Stored(n) /\ rows' = rows
  BY <1>1 DEF Stored, RowsOf
<1>2. CASE /\ DOMAIN rows' = DOMAIN rows \cup {Len(rows) + 1}
           /\ rows'[Len(rows) + 1] = NewRow(n, v)
  BY <1>2, NewRowType DEF Stored, RowsOf
<1> QED
  BY <1>1, <1>2, InsertEffect

(* The handler of a correction goes on until the correction is applied, unless its message key
   is used up. *)
LEMMA CorrectGoesOn ==
  ASSUME Sound, OneRowEach, NEW n \in Stanzas, NEW v \in Via, HandlerNext(n, v), Is("correct", n)
  PROVE  \/ pc'[n][v] \in {"find", "edit", "insert"}
         \/ Applied(n)'
         \/ OpenFails(n, v)
<1>0. /\ TypeOK /\ HandlerSound(n, v) /\ ~Is("text", n)
      /\ sent' = sent /\ \A k, m : Is(k, m) <=> Is(k, m)'
  BY OthersStay DEF Sound, Is
<1>e. \A step : Step(n, v, step) => pc'[n][v] = step
  BY <1>0, StepEffect
<1>1. CASE Open(n, v)
  BY <1>0, <1>1, <1>e DEF Open, FirstStep
<1>2. CASE Insert(n, v)
  BY <1>0, <1>2, InsertStores DEF Applied
<1>3. CASE Find(n, v)
  BY <1>3, <1>e, AimedAt DEF Find
<1>4. CASE Edit(n, v)
  <2>1. hit[n][v] \in RowsOf(sent[n].of) /\ hit[n][v] \in DOMAIN rows
    BY <1>0, <1>4 DEF Edit, HandlerSound, RowsOf
  <2> PICK h \in DOMAIN rows : h = hit[n][v]
    BY <2>1
  <2>2. h \in DOMAIN rows' /\ rows'[h].of = rows[h].of /\ rows'[h].body = n
    BY <1>0, <1>4, EditEffect
  <2>3. h \in RowsOf(sent[n].of)' /\ Changed(h)'
    BY <1>0, <2>1, <2>2 DEF RowsOf, Changed
  <2> QED
    BY <2>3 DEF Applied
<1>5. CASE React(n, v) \/ Wipe(n, v) \/ Unreact(n, v) \/ (v = "live" /\ Receipt(n))
  BY <1>0, <1>5 DEF React, Wipe, Unreact, Receipt, HandlerSound
<1>6. CASE v = "live" /\ Bump(n)
  <2>1. Stored(n) /\ rows' = rows
    BY <1>0, <1>6 DEF Bump, HandlerSound
  <2> QED
    BY <2>1 DEF Stored, RowsOf, Applied
<1> QED
  BY <1>1, <1>2, <1>3, <1>4, <1>5, <1>6 DEF HandlerNext

(* Two copies of a stanza in hand are its two copies. *)
LEMMA BothVia ==
  ASSUME NEW v \in Via, NEW w \in Via, v # w
  PROVE  \A u \in Via : u = v \/ u = w
BY DEF Via

(* A handler's step leaves what is said of an opened stanza true. *)
LEMMA OpenedMoves ==
  ASSUME Sound, OneRowEach, PlaceholdersSound, [Next]_vars,
         NEW n \in Stanzas, NEW w \in Via, HandlerNext(n, w)
  PROVE  OpenedSound(n)'
<1>0. /\ TypeOK /\ OpenedSound(n) /\ n \in DOMAIN sent /\ pc[n][w] # "idle"
      /\ overlapped' = overlapped /\ killed' = killed
      /\ \A k : Is(k, n) <=> Is(k, n)'
      /\ Is("text", n) => ~Is("correct", n)
      /\ Stored(n) => Stored(n)'
      /\ Applied(n) => Applied(n)'
  <2>1. pc[n][w] # "idle"
    BY DEF HandlerNext, Open, OpenFails, Insert, Find, Edit, React, Wipe, Unreact, Receipt, Bump
  <2>2. n \in DOMAIN sent
    BY <2>1 DEF Sound, ArchiveSound
  <2>3. /\ Stored(n) => Stored(n)'
        /\ Applied(n) => Applied(n)'
        /\ \A k : Is(k, n) <=> Is(k, n)'
    BY <2>2, StoredStays, KindStays
  <2>4. TypeOK /\ overlapped' = overlapped /\ killed' = killed
    BY OthersStay DEF Sound
  <2> QED
    BY <2>1, <2>2, <2>3, <2>4 DEF PlaceholdersSound, Is
<1>1. \A v \in Via : v # w => pc'[n][v] = pc[n][v]
  BY <1>0, OthersStay
<1>2. (\A v \in Via : pc'[n][v] # "idle") => n \in overlapped'
  BY <1>0, <1>1 DEF OpenedSound
<1>3. n \in opened' => n \in opened \/ Open(n, w)
  BY DEF HandlerNext, OpenFails, Insert, Find, Edit, React, Wipe, Unreact, Receipt, Bump
<1>4. ASSUME n \in opened', Is("text", n)
      PROVE  Stored(n)' \/ n \in killed' \/ Reading(n)'
  <2>1. CASE Open(n, w)
    <3>1. pc'[n][w] \in {"receipt", "insert"}
      BY <1>0, <1>4, <2>1, StepEffect DEF Open, FirstStep
    <3> QED
      BY <3>1 DEF Reading
  <2>2. ASSUME n \in opened, NEW v \in Via, pc[n][v] \in {"receipt", "insert", "placeholder"}
        PROVE  Stored(n)' \/ Reading(n)'
    <3>1. CASE v # w
      BY <1>1, <2>2, <3>1 DEF Reading
    <3>2. CASE v = w /\ Insert(n, w)
      BY <1>0, <3>2, InsertStores
    <3>3. CASE v = w /\ Receipt(n) /\ w = "live"
      <4>1. pc'[n][w] = "insert"
        BY <1>0, <3>3, StepEffect DEF Receipt
      <4> QED
        BY <4>1 DEF Reading
    <3>4. v = w => Insert(n, w) \/ (Receipt(n) /\ w = "live")
      BY <2>2 DEF HandlerNext, Open, OpenFails, Find, Edit, React, Wipe, Unreact, Bump
    <3> QED
      BY <3>1, <3>2, <3>3, <3>4
  <2> QED
    BY <1>0, <1>3, <1>4, <2>1, <2>2 DEF OpenedSound
<1>5. ASSUME n \in opened', Is("correct", n)
      PROVE  Applied(n)' \/ n \in killed' \/ Correcting(n)'
  <2>1. pc'[n][w] \in {"find", "edit", "insert"} => Correcting(n)'
    BY DEF Correcting
  <2>2. CASE OpenFails(n, w)
    <3>1. n \in opened /\ pc[n][w] = "open"
      BY <2>2 DEF OpenFails
    <3>2. ASSUME NEW v \in Via, pc[n][v] \in {"find", "edit", "insert"}
          PROVE  Correcting(n)'
      BY <1>1, <3>1, <3>2 DEF Correcting
    <3> QED
      BY <1>0, <1>5, <3>1, <3>2 DEF OpenedSound
  <2> QED
    BY <1>5, <2>1, <2>2, CorrectGoesOn
<1>6. ASSUME NEW v \in Via, pc'[n][v] = "placeholder"
      PROVE  Stored(n)' \/ n \in overlapped' \cup killed'
  <2>1. CASE pc[n][v] = "placeholder"
    BY <1>0, <2>1 DEF OpenedSound
  <2>2. CASE pc[n][v] # "placeholder"
    <3>1. v = w
      BY <1>1, <1>6, <2>2
    <3>2. OpenFails(n, w) /\ Is("text", n)
      <4>e. \A step : Step(n, w, step) => step = "placeholder"
        BY <1>0, <1>6, <3>1, StepEffect
      <4>1. CASE Open(n, w)
        BY <4>e, <4>1 DEF Open, FirstStep
      <4>2. CASE Insert(n, w)
        BY <4>e, <4>2 DEF Insert, AfterInsert
      <4>3. CASE Find(n, w)
        BY <4>e, <4>3 DEF Find, Aimed
      <4>4. CASE OpenFails(n, w)
        BY <4>e, <4>4 DEF OpenFails
      <4>5. CASE Edit(n, w) \/ React(n, w) \/ Wipe(n, w) \/ Unreact(n, w) \/ Receipt(n) \/ Bump(n)
        <5>1. w = "live" => Step(n, w, "insert") \/ Step(n, w, "idle") \/ Step(n, w, "unreact")
                            \/ ~(Receipt(n) \/ Bump(n))
          BY DEF Receipt, Bump
        <5>2. Edit(n, w) \/ React(n, w) \/ Wipe(n, w) \/ Unreact(n, w) =>
                Step(n, w, "idle") \/ Step(n, w, "unreact")
          BY DEF Edit, React, Wipe, Unreact, Finish
        <5>3. ~(Edit(n, w) \/ React(n, w) \/ Wipe(n, w) \/ Unreact(n, w))
          BY <4>e, <5>2
        <5>4. w = "live" => ~(Receipt(n) \/ Bump(n))
          BY <4>e, <5>1
        <5> QED
          BY <4>1, <4>2, <4>3, <4>4, <5>3, <5>4 DEF HandlerNext
      <4> QED
        BY <4>1, <4>2, <4>3, <4>4, <4>5 DEF HandlerNext
    <3>3. n \in opened /\ pc[n][w] = "open"
      BY <3>2 DEF OpenFails
    <3>4. ASSUME NEW u \in Via, pc[n][u] \in {"receipt", "insert", "placeholder"}
          PROVE  n \in overlapped
      <4>1. u # w
        BY <3>3, <3>4
      <4>2. \A x \in Via : pc[n][x] # "idle"
        BY <1>0, <3>4, <4>1, BothVia
      <4> QED
        BY <1>0, <4>2 DEF OpenedSound
    <3> QED
      BY <1>0, <3>2, <3>3, <3>4 DEF OpenedSound
  <2> QED
    BY <2>1, <2>2
<1> QED
  BY <1>0, <1>2, <1>4, <1>5, <1>6 DEF OpenedSound, Reading, Correcting

(* Every step leaves what is said of an opened stanza true. *)
LEMMA NextOpenedSound ==
  ASSUME Sound, OneRowEach, PlaceholdersSound, [Next]_vars, NEW n \in Stanzas
  PROVE  OpenedSound(n)'
<1>0. /\ TypeOK /\ OpenedSound(n)
      /\ n \in opened => /\ n \in DOMAIN sent
                         /\ Stored(n) => Stored(n)'
                         /\ Applied(n) => Applied(n)'
                         /\ \A k : Is(k, n) <=> Is(k, n)'
      /\ Stored(n) => Stored(n)'
  BY StoredStays, KindStays DEF Sound, ArchiveSound, PlaceholdersSound
<1>1. CASE Quiet
  BY <1>0, <1>1 DEF Quiet, OpenedSound
<1>2. CASE CoreStops
  <2>1. /\ opened' = opened /\ overlapped' = overlapped
        /\ \A v \in Via : pc'[n][v] = "idle"
        /\ n \in killed \/ InHand(n) => n \in killed'
    BY <1>2 DEF CoreStops
  <2>2. "live" \in Via
    BY DEF Via
  <2>3. \A v \in Via : pc[n][v] # "idle" => InHand(n)
    BY DEF InHand
  <2> QED
    BY <1>0, <2>1, <2>2, <2>3 DEF OpenedSound
<1>3. ASSUME NEW m \in Stanzas, NEW w \in Via, Arrival(m, w)
      PROVE  OpenedSound(n)'
  <2>1. /\ opened' = opened /\ killed' = killed /\ overlapped \subseteq overlapped'
        /\ pc[m][w] = "idle"
        /\ \A v \in Via : pc'[n][v] = IF n = m /\ v = w THEN "open" ELSE pc[n][v]
        /\ InHand(m) => m \in overlapped'
    BY <1>0, <1>3, StepEffect DEF Arrival, Arrive
  <2>2. (\A v \in Via : pc'[n][v] # "idle") => n \in overlapped'
    <3> SUFFICES ASSUME \A v \in Via : pc'[n][v] # "idle"
                 PROVE  n \in overlapped'
      OBVIOUS
    <3>1. CASE n # m
      BY <1>0, <2>1, <3>1 DEF OpenedSound
    <3>2. CASE n = m
      <4> PICK u \in Via : u # w
        BY DEF Via
      <4>1. pc[n][u] # "idle"
        BY <2>1
      <4> QED
        BY <2>1, <3>2, <4>1 DEF InHand
    <3> QED
      BY <3>1, <3>2
  <2>3. \A v \in Via : pc[n][v] # "idle" => pc'[n][v] = pc[n][v]
    BY <2>1
  <2>4. \A v \in Via : pc'[n][v] \notin {"idle", "open"} => pc'[n][v] = pc[n][v]
    BY <2>1
  <2> QED
    BY <1>0, <2>1, <2>2, <2>3, <2>4 DEF OpenedSound
<1>4. ASSUME NEW m \in Stanzas, NEW w \in Via, HandlerNext(m, w)
      PROVE  OpenedSound(n)'
  <2>1. CASE n = m
    BY <1>4, <2>1, OpenedMoves
  <2>2. CASE n # m
    <3>1. /\ \A v \in Via : pc'[n][v] = pc[n][v]
          /\ overlapped' = overlapped /\ killed' = killed
      BY <1>0, <1>4, <2>2, OthersStay
    <3>2. n \in opened' => n \in opened
      BY <1>4, <2>2 DEF HandlerNext, Open, OpenFails, Insert, Find, Edit, React, Wipe, Unreact,
                        Receipt, Bump
    <3> QED
      BY <1>0, <3>1, <3>2 DEF OpenedSound
  <2> QED
    BY <2>1, <2>2
<1> QED
  BY <1>1, <1>2, <1>3, <1>4, StepKinds

(* The invariant is inductive. *)
LEMMA NextIInv == IInv /\ [Next]_vars => IInv'
<1> SUFFICES ASSUME IInv, [Next]_vars PROVE IInv'
  OBVIOUS
<1>0. Sound /\ OneRowEach /\ PagesKept /\ PlaceholdersSound
  BY DEF IInv
<1>1. Sound'
  BY <1>0, NextTypeOK, NextArchiveSound, NextSyncSound, NextHandlerSound DEF Sound
<1>2. OneRowEach'
  BY <1>0, NextOneRow
<1>3. PagesKept'
  BY <1>0, NextAcknowledged, NextPageKept DEF PagesKept
<1>4. PlaceholdersSound'
  BY <1>0, NextPlaceholders, NextOpenedSound DEF PlaceholdersSound
<1> QED
  BY <1>1, <1>2, <1>3, <1>4 DEF IInv

LEMMA Invariant == Spec => []IInv
BY InitIInv, NextIInv, PTL DEF Spec

(* The variables keep their types. *)
THEOREM TypeCorrect == Spec => []TypeOK
<1>1. IInv => TypeOK
  BY DEF IInv, Sound
<1> QED
  BY <1>1, Invariant, PTL

(* However many copies of a stanza race, live, from the archive and after restarts, the table
   has one row of it (insert_message). *)
THEOREM OneRow == Spec => []OneRowEach
<1>1. IInv => OneRowEach
  BY DEF IInv
<1> QED
  BY <1>1, Invariant, PTL

(* No text is forgotten that a receipt or the catch-up's cursor has told the peer or the server
   we have (catch_up_account, process_payload). *)
THEOREM Acknowledged == Spec => []AcknowledgedIsKept
<1>1. IInv => AcknowledgedIsKept
  BY DEF IInv, PagesKept
<1> QED
  BY <1>1, Invariant, PTL

(* A placeholder row is there only for a stanza two copies of which were in hand at once, or
   whose handler a stop cut short (persist_decrypt_failure). *)
THEOREM PlaceholderMeansOverlap == Spec => []LostOnlyByOverlap
<1>1. IInv => LostOnlyByOverlap
  BY DEF IInv, PlaceholdersSound
<1> QED
  BY <1>1, Invariant, PTL

(* A step that ends the last handler of a stanza leaves the stanza shown. *)
LEMMA EndShows ==
  ASSUME IInv, [Next]_vars, NEW n \in Stanzas, InHand(n), ~InHand(n)', n \notin killed'
  PROVE  /\ Is("text", n) => Stored(n)'
         /\ Is("correct", n) => Applied(n)'
<1>0. /\ Sound /\ TypeOK /\ OneRowEach /\ OpenedSound(n) /\ PlaceholdersSound
      /\ \A v \in Via : pc'[n][v] = "idle"
  BY DEF IInv, Sound, PlaceholdersSound, InHand
<1>1. ~Quiet /\ ~CoreStops
  BY DEF Quiet, CoreStops, InHand
<1>2. ASSUME NEW m \in Stanzas, NEW w \in Via, Arrival(m, w)
      PROVE  FALSE
  <2>1. \A v \in Via : pc'[n][v] = IF n = m /\ v = w THEN "open" ELSE pc[n][v]
    BY <1>0, <1>2, StepEffect DEF Arrival, Arrive
  <2> QED
    BY <1>0, <2>1 DEF InHand
<1>3. PICK m \in Stanzas, w \in Via : HandlerNext(m, w)
  BY <1>0, <1>1, <1>2, StepKinds
<1>4. m = n
  BY <1>0, <1>3, OthersStay DEF InHand
<1>5. HandlerNext(n, w) /\ pc'[n][w] = "idle" /\ killed' = killed
  BY <1>0, <1>3, <1>4, OthersStay
<1>6. Is("text", n) => Stored(n)'
  BY <1>0, <1>5, TextGoesOn
<1>7. ASSUME Is("correct", n)
      PROVE  Applied(n)'
  <2>1. CASE OpenFails(n, w)
    <3>1. n \in opened /\ pc[n][w] = "open"
      BY <2>1 DEF OpenFails
    <3>2. \A v \in Via : v # w => pc[n][v] = "idle"
      BY <1>0, <1>5, OthersStay
    <3>3. Applied(n)
      BY <1>0, <1>5, <1>7, <3>1, <3>2 DEF OpenedSound
    <3>4. n \in DOMAIN sent
      BY <1>0, <3>1 DEF Sound, ArchiveSound
    <3> QED
      BY <1>0, <3>3, <3>4, StoredStays
  <2> QED
    BY <1>0, <1>5, <1>7, <2>1, CorrectGoesOn
<1> QED
  BY <1>6, <1>7

(* A handler that ends has shown its stanza, whatever else raced with it (process_payload). *)
THEOREM HandlersShow == Spec => HandledIsShown
<1> DEFINE Shows == \A n \in Stanzas :
                      (InHand(n) /\ ~InHand(n)' /\ n \notin killed') =>
                        /\ Is("text", n) => Stored(n)'
                        /\ Is("correct", n) => Stored(n)' \/ \E i \in RowsOf(sent[n].of)' : Changed(i)'
<1>1. IInv /\ [Next]_vars => [Shows]_vars
  <2> SUFFICES ASSUME IInv, [Next]_vars PROVE Shows
    OBVIOUS
  <2> QED
    BY EndShows DEF Applied
<1>2. Spec => [][Shows]_vars
  BY <1>1, Invariant, PTL DEF Spec
<1> QED
  BY <1>2 DEF HandledIsShown

=============================================================================
