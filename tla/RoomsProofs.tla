---------------------------- MODULE RoomsProofs ----------------------------
(***************************************************************************)
(* What holds of the room for every number of people, tasks and events:    *)
(* a room that was left stays left, one that was joined stays joined,      *)
(* members that a list named keep getting keys, whoever is there is shown, *)
(* and every state is well typed.                                          *)
(*                                                                         *)
(* The first two rest on where the queue of sent presence leads: Heading   *)
(* is where we are once the room has taken all of it.  No task may turn it *)
(* without the user, unless one of the races that the properties name has  *)
(* been run.                                                               *)
(***************************************************************************)
EXTENDS Rooms, FiniteSetTheorems, SequenceTheorems, TLAPS

Joins == [step : {"off", "send", "configure", "ask", "listed", "last"}, list : SUBSET People, old : BOOLEAN]
Words == {"join", "leave"}

\* Where we are when the room has taken o.
Heading(o, in) == IF o = <<>> THEN in = TRUE ELSE o[Len(o)] = "join"

Typed ==
  /\ member \subseteq People
  /\ out \in Seq(Words) /\ join \in [Starters -> Joins]
  /\ up \in BOOLEAN /\ inside \in BOOLEAN
  /\ crossed \in BOOLEAN /\ failed \in BOOLEAN /\ elsewhere \in BOOLEAN /\ late \in BOOLEAN

\* The bootstrap's join and the bookmark that it was told are at hand only where it needs them.
BootSound ==
  /\ boot # "join" => join["boot"].step = "off"
  /\ boot # "upsert" => fetched = "none"
  /\ ~elsewhere => bookmark \in {"none", "auto"} /\ fetched \in {"none", "auto"}

Starting == boot \in {"fetch", "upsert", "list"} \/ \E s \in Starters : join[s].step = "send"

Staying ==
  wish = "in" /\ ~crossed /\ ~elsewhere =>
    /\ leave = "off"
    /\ conv = "auto" \/ join["user"].step = "send"
    /\ Heading(out, inside) \/ ~up \/ Starting
    /\ failed \/ bookmark = "auto" \/ join["user"].step # "off"

Going ==
  wish = "out" /\ ~crossed /\ ~failed /\ ~elsewhere =>
    /\ join["user"].step = "off" /\ boot # "join"
    /\ boot # "off" => leave = "off"
    /\ fetched = "none"
    /\ ~Heading(out, inside)
    /\ leave # "bookmark" => bookmark = "none"
    /\ leave = "off" => conv # "auto" /\ (late \/ conv = "none")

Listed == listed \subseteq jids

IInv == Typed /\ BootSound /\ Staying /\ Going /\ Listed

-----------------------------------------------------------------------------
(* The queue of presence and the table of joins.                             *)

LEMMA AppendHeads ==
  ASSUME NEW o \in Seq(Words), NEW w \in Words, NEW in \in BOOLEAN
  PROVE  Append(o, w) \in Seq(Words) /\ (Heading(Append(o, w), in) <=> w = "join")
BY DEF Heading

LEMMA TailHeads ==
  ASSUME NEW o \in Seq(Words), o # <<>>, NEW in \in BOOLEAN
  PROVE  Tail(o) \in Seq(Words) /\ (Heading(Tail(o), Head(o) = "join") <=> Heading(o, in))
<1>0. /\ Len(o) \in Nat \ {0} /\ Head(o) = o[1]
      /\ Tail(o) \in Seq(Words) /\ Len(Tail(o)) = Len(o) - 1
      /\ \A i \in 1..Len(Tail(o)) : Tail(o)[i] = o[i + 1]
  BY HeadTailProperties
<1>e. Len(<<>>) = 0 /\ (Tail(o) # <<>> => Len(Tail(o)) \in Nat \ {0})
  BY <1>0, EmptySeq
<1>1. CASE Len(o) = 1
  <2>1. Tail(o) = <<>>
    BY <1>0, <1>1, <1>e
  <2> QED
    BY <1>0, <1>1, <2>1 DEF Heading
<1>2. CASE Len(o) # 1
  <2>1. Len(o) - 1 \in 1..Len(Tail(o)) /\ (Len(o) - 1) + 1 = Len(o) /\ Len(Tail(o)) # 0
    BY <1>0, <1>2
  <2>2. Tail(o)[Len(o) - 1] = o[Len(o)] /\ Tail(o) # <<>>
    BY <1>0, <1>e, <2>1
  <2> QED
    BY <1>0, <2>2 DEF Heading
<1> QED
  BY <1>1, <1>2

LEMMA JoinStep ==
  ASSUME join \in [Starters -> Joins], NEW s \in Starters,
         NEW w \in {"off", "send", "configure", "ask", "listed", "last"}, JoinTo(s, w)
  PROVE  /\ join' \in [Starters -> Joins]
         /\ join'[s].step = w
         /\ \A t \in Starters : t # s => join'[t] = join[t]
BY DEF JoinTo, Joins

-----------------------------------------------------------------------------
(* Every step keeps the invariant.                                           *)

Settings == <<out, join, up, inside, crossed, failed, elsewhere, late, boot, fetched, bookmark,
              wish, leave, conv, listed, jids>>

(* Steps of people and of presence that has no part in joining or leaving. *)
LEMMA Quiet ==
  ASSUME IInv, UNCHANGED Settings, member' \subseteq People
  PROVE  IInv'
BY DEF Settings, IInv, Typed, BootSound, Staying, Going, Listed, Starting, Heading

LEMMA RoomStep ==
  ASSUME IInv,
         \/ \E p \in People : Enters(p) \/ Leaves(p) \/ Changes(p)
         \/ RoomTakes \/ SessionDown \/ SessionUp
         \/ \E b \in {"none", "plain", "auto"} : OtherDevice(b)
  PROVE  IInv'
<1> USE DEF room, stream, table, tasks, history
<1>1. ASSUME NEW p \in People, Enters(p) \/ Leaves(p) \/ Changes(p)
      PROVE  UNCHANGED Settings /\ member' \subseteq People
  <2>1. member \subseteq People
    BY DEF IInv, Typed
  <2>2. UNCHANGED Settings
    BY <1>1 DEF Enters, Leaves, Changes, Settings
  <2>3. member' \subseteq People
    BY <1>1, <2>1 DEF Enters, Leaves, Changes
  <2> QED
    BY <2>2, <2>3
<1>2. CASE RoomTakes
  <2>1. /\ out' = Tail(out) /\ out # <<>> /\ (inside' <=> Head(out) = "join") /\ inside' \in BOOLEAN
        /\ UNCHANGED <<join, up, crossed, failed, elsewhere, late, boot, fetched, bookmark, wish,
                       leave, conv, listed, jids, member>>
    BY <1>2 DEF RoomTakes
  <2>2. out' \in Seq(Words) /\ (Heading(out', inside') <=> Heading(out, inside))
    BY <1>2, TailHeads DEF RoomTakes, IInv, Typed
  <2> QED
    BY <2>1, <2>2 DEF IInv, Typed, BootSound, Staying, Going, Listed, Starting
<1>3. CASE SessionDown
  <2>1. /\ up' = FALSE /\ inside' = FALSE
        /\ UNCHANGED <<out, join, crossed, failed, elsewhere, late, boot, fetched, bookmark, wish,
                       leave, conv, listed, jids, member>>
    BY <1>3 DEF SessionDown
  <2>2. Heading(out, FALSE) => Heading(out, inside)
    BY DEF Heading
  <2> QED
    BY <2>1, <2>2 DEF IInv, Typed, BootSound, Staying, Going, Listed, Starting
<1>4. CASE SessionUp
  BY <1>4 DEF SessionUp, IInv, Typed, BootSound, Staying, Going, Listed, Starting
<1>5. ASSUME NEW b \in {"none", "plain", "auto"}, OtherDevice(b)
      PROVE  IInv'
  BY <1>5 DEF OtherDevice, IInv, Typed, BootSound, Staying, Going, Listed, Starting
<1> QED
  BY <1>1, <1>2, <1>3, <1>4, <1>5, Quiet

LEMMA PresenceStep ==
  ASSUME IInv,
         \/ Deliver
         \/ \E i \in DOMAIN handlers : Photo(i) \/ RowStep(i) \/ Show(i)
  PROVE  IInv'
<1> USE DEF room, stream, table, tasks, history
<1>1. CASE Deliver
  BY <1>1, Quiet DEF Deliver, Settings, IInv, Typed
<1>2. ASSUME NEW i \in DOMAIN handlers, Photo(i) \/ Show(i)
      PROVE  UNCHANGED Settings /\ member' = member
  BY <1>2 DEF Photo, Show, Settings
<1>3. ASSUME NEW i \in DOMAIN handlers, RowStep(i)
      PROVE  IInv'
  <2>1. /\ conv' = (IF conv = "none" THEN "idle" ELSE conv) /\ late' = (late \/ conv = "none")
        /\ UNCHANGED <<out, join, up, inside, crossed, failed, elsewhere, boot, fetched, bookmark,
                       wish, leave, listed, jids, member>>
    BY <1>3 DEF RowStep
  <2> QED
    BY <2>1 DEF IInv, Typed, BootSound, Staying, Going, Listed, Starting
<1> QED
  BY <1>1, <1>2, <1>3, Quiet DEF IInv, Typed

LEMMA JoinsStep ==
  ASSUME IInv,
         \/ UserJoins
         \/ \E s \in Starters : \/ JoinSend(s) \/ JoinConfigure(s) \/ JoinAsk(s)
                                \/ JoinListed(s) \/ JoinLast(s)
  PROVE  IInv'
<1> USE DEF room, stream, table, tasks, history
<1>0. "user" \in Starters /\ "boot" \in Starters /\ \A s \in Starters : s = "user" \/ s = "boot"
  BY DEF Starters
<1>1. CASE UserJoins
  <2>1. join' \in [Starters -> Joins] /\ join'["user"].step = "send" /\ join'["boot"] = join["boot"]
    BY <1>0, <1>1, JoinStep DEF UserJoins, IInv, Typed
  <2> QED
    BY <1>0, <1>1, <2>1 DEF UserJoins, IInv, Typed, BootSound, Staying, Going, Listed, Starting
<1>2. ASSUME NEW s \in Starters, JoinSend(s)
      PROVE  IInv'
  <2>1. /\ join' \in [Starters -> Joins] /\ join'[s].step = "configure" /\ join[s].step = "send"
        /\ \A t \in Starters : t # s => join'[t] = join[t]
    BY <1>2, JoinStep DEF JoinSend, IInv, Typed
  <2>2. out' \in Seq(Words) /\ Heading(out', inside)
    BY <1>2, AppendHeads DEF JoinSend, IInv, Typed, Words
  <2> QED
    BY <1>0, <1>2, <2>1, <2>2 DEF JoinSend, IInv, Typed, BootSound, Staying, Going, Listed, Starting
<1>3. ASSUME NEW s \in Starters, JoinConfigure(s)
      PROVE  IInv'
  <2>1. /\ join' \in [Starters -> Joins] /\ join'[s].step = "ask" /\ join[s].step = "configure"
        /\ \A t \in Starters : t # s => join'[t] = join[t]
    BY <1>3, JoinStep DEF JoinConfigure, IInv, Typed
  <2> QED
    BY <1>0, <1>3, <2>1 DEF JoinConfigure, IInv, Typed, BootSound, Staying, Going, Listed, Starting
<1>4. ASSUME NEW s \in Starters, JoinAsk(s)
      PROVE  IInv'
  <2>1. /\ join' \in [Starters -> Joins] /\ join'[s].step \in {"listed", "last"} /\ join[s].step = "ask"
        /\ \A t \in Starters : t # s => join'[t] = join[t]
    <3>1. CASE JoinTo(s, "last")
      BY <1>4, <3>1, JoinStep DEF JoinAsk, IInv, Typed
    <3>2. CASE join' = [join EXCEPT ![s].step = "listed", ![s].list = member]
      BY <1>4, <3>2 DEF JoinAsk, IInv, Typed, Joins
    <3> QED
      BY <1>4, <3>1, <3>2 DEF JoinAsk, IInv, Typed
  <2>2. UNCHANGED <<out, up, inside, crossed, failed, elsewhere, late, boot, fetched, bookmark,
                    wish, leave, conv, listed, jids, member>>
    BY <1>4 DEF JoinAsk
  <2> QED
    BY <1>0, <2>1, <2>2 DEF IInv, Typed, BootSound, Staying, Going, Listed, Starting
<1>5. ASSUME NEW s \in Starters, JoinListed(s)
      PROVE  IInv'
  <2>1. /\ join' \in [Starters -> Joins] /\ join'[s].step = "last" /\ join[s].step = "listed"
        /\ \A t \in Starters : t # s => join'[t] = join[t]
    BY <1>5, JoinStep DEF JoinListed, IInv, Typed
  <2> QED
    BY <1>0, <1>5, <2>1 DEF JoinListed, IInv, Typed, BootSound, Staying, Going, Listed, Starting
<1>6. ASSUME NEW s \in Starters, JoinLast(s)
      PROVE  IInv'
  <2>1. /\ join' \in [Starters -> Joins] /\ join'[s].step = "off" /\ join[s].step = "last"
        /\ \A t \in Starters : t # s => join'[t] = join[t]
    BY <1>6 DEF JoinLast, NoJoin, IInv, Typed, Joins
  <2> QED
    <3>1. /\ UNCHANGED <<out, up, inside, crossed, elsewhere, late, fetched, wish, leave, conv, listed, jids, member>>
          /\ s = "boot" => boot' = "off" /\ bookmark' = bookmark /\ failed' = failed
          /\ s = "user" => /\ boot' = boot
                           /\ \/ bookmark' = "auto" /\ failed' = failed
                              \/ bookmark' = bookmark /\ failed' = TRUE
      BY <1>6 DEF JoinLast
    <3>2. Typed' /\ Listed'
      BY <1>0, <2>1, <3>1 DEF IInv, Typed, Listed
    <3>3. BootSound'
      BY <1>0, <2>1, <3>1 DEF IInv, BootSound
    <3>4. Staying'
      BY <1>0, <2>1, <3>1 DEF IInv, Typed, BootSound, Staying, Starting
    <3>5. Going'
      BY <1>0, <2>1, <3>1 DEF IInv, Typed, BootSound, Going
    <3> QED
      BY <3>2, <3>3, <3>4, <3>5 DEF IInv
<1> QED
  BY <1>1, <1>2, <1>3, <1>4, <1>5, <1>6

LEMMA LeavesStep ==
  ASSUME IInv, UserLeaves \/ LeaveBookmark \/ LeaveDelete
  PROVE  IInv'
<1> USE DEF room, stream, table, tasks, history
<1>0. "user" \in Starters /\ "boot" \in Starters /\ \A s \in Starters : s = "user" \/ s = "boot"
  BY DEF Starters
<1>1. CASE UserLeaves
  <2>1. out' \in Seq(Words) /\ ~Heading(out', inside)
    BY <1>1, AppendHeads DEF UserLeaves, IInv, Typed, Words
  <2> QED
    BY <1>0, <1>1, <2>1 DEF UserLeaves, Joining, IInv, Typed, BootSound, Staying, Going, Listed, Starting
<1>2. CASE LeaveBookmark
  BY <1>2 DEF LeaveBookmark, IInv, Typed, BootSound, Staying, Going, Listed, Starting
<1>3. CASE LeaveDelete
  <2>1. join' \in [Starters -> Joins] /\ \A s \in Starters : join'[s].step = join[s].step
    BY <1>3 DEF LeaveDelete, IInv, Typed, Joins
  <2> QED
    BY <1>0, <1>3, <2>1 DEF LeaveDelete, IInv, Typed, BootSound, Staying, Going, Listed, Starting
<1> QED
  BY <1>1, <1>2, <1>3

LEMMA BootStep ==
  ASSUME IInv, BootFetch \/ BootUpsert \/ BootList
  PROVE  IInv'
<1> USE DEF room, stream, table, tasks, history
<1>0. "user" \in Starters /\ "boot" \in Starters /\ \A s \in Starters : s = "user" \/ s = "boot"
  BY DEF Starters
<1>1. CASE BootFetch
  BY <1>1 DEF BootFetch, IInv, Typed, BootSound, Staying, Going, Listed, Starting
<1>2. CASE BootUpsert
  BY <1>2 DEF BootUpsert, IInv, Typed, BootSound, Staying, Going, Listed, Starting
<1>3. CASE BootList
  <2>1. CASE conv = "auto"
    <3>1. /\ join' \in [Starters -> Joins] /\ join'["boot"].step = "send" /\ join'["user"] = join["user"]
      BY <1>0, <1>3, <2>1, JoinStep DEF BootList, IInv, Typed
    <3> QED
      BY <1>0, <1>3, <2>1, <3>1 DEF BootList, IInv, Typed, BootSound, Staying, Going, Listed, Starting
  <2>2. CASE conv # "auto"
    BY <1>0, <1>3, <2>2 DEF BootList, IInv, Typed, BootSound, Staying, Going, Listed, Starting
  <2> QED
    BY <2>1, <2>2
<1> QED
  BY <1>1, <1>2, <1>3

\* What the theorems about joining and leaving are read off: it holds in every state of every run.
THEOREM Inductive == Spec => []IInv
<1>1. ASSUME Init PROVE IInv
  <2>1. join \in [Starters -> Joins] /\ \A s \in Starters : join[s].step = "off"
    BY <1>1 DEF Init, NoJoin, Joins
  <2>2. out = <<>> /\ out \in Seq(Words)
    BY <1>1, EmptySeq DEF Init
  <2> QED
    BY <1>1, <2>1, <2>2 DEF Init, Starters, Heading, IInv, Typed, BootSound, Staying, Going, Listed, Starting
<1>2. IInv /\ [Next]_vars => IInv'
  <2>1. ASSUME IInv, Next PROVE IInv'
    BY <2>1, RoomStep, PresenceStep, JoinsStep, LeavesStep, BootStep DEF Next
  <2>2. ASSUME IInv, UNCHANGED vars PROVE IInv'
    BY <2>2, Quiet DEF vars, IInv, Typed, Settings, room, stream, table, tasks, history
  <2> QED
    BY <2>1, <2>2
<1> QED
  BY <1>1, <1>2, PTL DEF Spec

-----------------------------------------------------------------------------
(* What follows.                                                             *)

\* A room that the user left stays left through any number of sessions, in the room, on the server
\* and in the store, unless one of the named races was run (LeaveMuc, bookmarks::fetch, bootstrap).
THEOREM Left == Spec => []LeftStaysLeft
<1>1. IInv => LeftStaysLeft
  BY DEF IInv, Going, LeftStaysLeft, Settled, Heading
<1> QED
  BY <1>1, Inductive, PTL

\* A room that the user joined is joined again by each session (JoinMuc, upsert_muc, bootstrap).
THEOREM Joined == Spec => []JoinedStaysJoined
<1>1. IInv => JoinedStaysJoined
  BY DEF IInv, Typed, Staying, Starting, Starters, Joining, JoinedStaysJoined, Settled, Heading
<1> QED
  BY <1>1, Inductive, PTL

\* Members that a list named stay in the table whoever comes and goes (configure_room,
\* remove_muc_occupant).
THEOREM Away == Spec => []AwayAreTargets
<1>1. IInv => AwayAreTargets
  BY DEF IInv, Listed, AwayAreTargets, Targets
<1> QED
  BY <1>1, Inductive, PTL

-----------------------------------------------------------------------------
(* Who is in the room.  The words about a person, in hand and behind them  *)
(* on the wire, stand in one line in the order in which they came.         *)

Persons == People \cup {Me}
Words3 == Persons \X BOOLEAN \X {"photo", "row", "show"}

Line(h, w) == h \o [i \in 1..Len(w) |-> <<w[i][1], w[i][2], "wire">>]

Says(q, p, b) == \E j \in 1..Len(q) : q[j][1] = p /\ q[j][2] = b

\* The last word about p, if there is one, is b, and the map has it or will.
Follows(q, p, b, done) ==
  /\ \A i \in 1..Len(q) : q[i][1] = p /\ q[i][2] # b =>
       \E j \in 1..Len(q) : j > i /\ q[j][1] = p /\ q[j][2] = b
  /\ done \/ Says(q, p, b)

\* A word that is still to write its row.
RowOf(q, j, p, b) == q[j][1] = p /\ q[j][2] = b /\ q[j][3] # "show"

RowFollows(q, p, done) ==
  /\ \A i \in 1..Len(q) : RowOf(q, i, p, FALSE) => \E j \in 1..Len(q) : j > i /\ RowOf(q, j, p, TRUE)
  /\ done \/ \E j \in 1..Len(q) : RowOf(q, j, p, TRUE)

Queued ==
  /\ handlers \in Seq(Words3) /\ wire \in Seq(Persons \X BOOLEAN)
  /\ present \subseteq People /\ shown \subseteq People

ShownSound ==
  \A p \in People \ overtaken :
    /\ inside /\ p \in present => Follows(Line(handlers, wire), p, TRUE, p \in shown)
    /\ p \notin present /\ p \notin missed => Follows(Line(handlers, wire), p, FALSE, p \notin shown)

\* While the room is being left, nothing turns back what the queue of presence says.
Parting ==
  leave # "off" /\ ~crossed =>
    ~Heading(out, inside) /\ boot = "off" /\ \A s \in Starters : join[s].step = "off"

TargetsSound ==
  inside /\ out = <<>> /\ ~crossed /\ ~late /\ join["user"].step # "send" =>
    \A p \in present \ overtaken : RowFollows(Line(handlers, wire), p, p \in Targets)

OInv == Queued /\ ShownSound /\ Parting /\ TargetsSound

LEMMA RemoveIs ==
  ASSUME NEW S, NEW s \in Seq(S), NEW i \in 1..Len(s)
  PROVE  /\ RemoveAt(s, i) \in Seq(S) /\ Len(RemoveAt(s, i)) = Len(s) - 1
         /\ \A j \in 1..Len(s) - 1 : RemoveAt(s, i)[j] = IF j < i THEN s[j] ELSE s[j + 1]
<1> DEFINE a == SubSeq(s, 1, i - 1)
           b == SubSeq(s, i + 1, Len(s))
<1>0. Len(s) \in Nat /\ \A j \in 1..Len(s) : s[j] \in S
  OBVIOUS
<1>1. a \in Seq(S) /\ Len(a) = i - 1 /\ \A j \in 1..i - 1 : a[j] = s[j]
  BY <1>0, SubSeqProperties
<1>2. b \in Seq(S) /\ Len(b) = Len(s) - i /\ \A j \in 1..Len(s) - i : b[j] = s[i + j]
  BY <1>0, SubSeqProperties
<1>3. RemoveAt(s, i) = a \o b
  BY DEF RemoveAt
<1> HIDE DEF a, b
<1>4. /\ a \o b \in Seq(S) /\ Len(a \o b) = Len(a) + Len(b)
      /\ \A j \in 1..Len(a) + Len(b) : (a \o b)[j] = IF j <= Len(a) THEN a[j] ELSE b[j - Len(a)]
  BY <1>1, <1>2, ConcatProperties
<1>5. ASSUME NEW j \in 1..Len(s) - 1
      PROVE  (a \o b)[j] = IF j < i THEN s[j] ELSE s[j + 1]
  <2>1. CASE j < i
    BY <1>0, <1>1, <1>2, <1>4, <2>1
  <2>2. CASE ~(j < i)
    <3>1. (a \o b)[j] = b[j - (i - 1)] /\ j - (i - 1) \in 1..Len(s) - i
      BY <1>0, <1>1, <1>2, <1>4, <2>2
    <3>2. i + (j - (i - 1)) = j + 1
      BY <1>0
    <3> QED
      BY <1>2, <2>2, <3>1, <3>2
  <2> QED
    BY <2>1, <2>2
<1> QED
  BY <1>0, <1>1, <1>2, <1>3, <1>4, <1>5

IsLine(q, h, w) ==
  /\ Len(h) \in Nat /\ Len(w) \in Nat /\ Len(q) = Len(h) + Len(w)
  /\ \A i \in 1..Len(h) : q[i] = h[i]
  /\ \A i \in 1..Len(w) : q[Len(h) + i] = <<w[i][1], w[i][2], "wire">>

LEMMA LineIs ==
  ASSUME NEW H, NEW W, NEW h \in Seq(H), NEW w \in Seq(W)
  PROVE  IsLine(Line(h, w), h, w)
<1> DEFINE v == [i \in 1..Len(w) |-> <<w[i][1], w[i][2], "wire">>]
           V == {<<w[i][1], w[i][2], "wire">> : i \in 1..Len(w)}
<1>1. Len(w) \in Nat /\ Len(h) \in Nat
  OBVIOUS
<1>2. v \in [1..Len(w) -> V]
  OBVIOUS
<1>3. v \in Seq(H \cup V) /\ Len(v) = Len(w) /\ h \in Seq(H \cup V)
  BY <1>1, <1>2
<1>4. \A i \in 1..Len(w) : v[i] = <<w[i][1], w[i][2], "wire">>
  OBVIOUS
<1>5. Line(h, w) = h \o v
  BY DEF Line
<1> HIDE DEF v
<1>6. /\ Len(h \o v) = Len(h) + Len(v)
      /\ \A i \in 1..Len(h) + Len(v) : (h \o v)[i] = IF i <= Len(h) THEN h[i] ELSE v[i - Len(h)]
  BY <1>3, ConcatProperties
<1>7. ASSUME NEW i \in 1..Len(w) PROVE Line(h, w)[Len(h) + i] = v[i]
  <2>1. Len(h) + i \in 1..Len(h) + Len(w) /\ ~(Len(h) + i <= Len(h)) /\ (Len(h) + i) - Len(h) = i
    BY <1>1
  <2> QED
    BY <1>3, <1>5, <1>6, <2>1
<1>8. ASSUME NEW i \in 1..Len(h) PROVE Line(h, w)[i] = h[i]
  <2>1. i \in 1..Len(h) + Len(w) /\ i <= Len(h)
    BY <1>1
  <2> QED
    BY <1>3, <1>5, <1>6, <2>1
<1> QED
  BY <1>1, <1>3, <1>4, <1>5, <1>6, <1>7, <1>8 DEF IsLine

(* What is told to who joins: every occupant, once. *)
LEMMA AllTold ==
  ASSUME NEW S, IsFiniteSet(S)
  PROVE  /\ SetToSeq({<<p, TRUE>> : p \in S}) \in Seq({<<p, TRUE>> : p \in S})
         /\ \A p \in S : \E i \in 1..Len(SetToSeq({<<q, TRUE>> : q \in S})) :
              SetToSeq({<<q, TRUE>> : q \in S})[i] = <<p, TRUE>>
<1> DEFINE T == {<<p, TRUE>> : p \in S}
           f == [p \in S |-> <<p, TRUE>>]
           t == SetToSeq(T)
<1>1. f \in Bijection(S, T)
  <2>1. f \in [S -> T] /\ (\A x, y \in S : f[x] = f[y] => x = y) /\ \A z \in T : \E x \in S : f[x] = z
    OBVIOUS
  <2> QED
    BY <2>1 DEF Bijection, Injection, Surjection, IsInjective
<1>2. IsFiniteSet(T)
  <2>1. ExistsBijection(S, T)
    BY <1>1 DEF ExistsBijection
  <2> HIDE DEF T
  <2> QED
    BY <2>1, FS_Bijection
<1> HIDE DEF T, f
<1>3. Cardinality(T) \in Nat /\ ExistsBijection(1..Cardinality(T), T)
  BY <1>2, FS_CardinalityType
<1>4. \E g \in [1..Cardinality(T) -> T] : IsInjective(g)
  BY <1>3 DEF ExistsBijection, Bijection, Injection
<1>5. t \in [1..Cardinality(T) -> T] /\ IsInjective(t)
  BY <1>4 DEF SetToSeq
<1>6. t \in Seq(T) /\ Len(t) = Cardinality(T)
  BY <1>3, <1>5
<1>7. t \in Surjection(1..Cardinality(T), T)
  <2>1. t \in Injection(1..Cardinality(T), T)
    BY <1>5 DEF Injection
  <2>2. IsFiniteSet(1..Cardinality(T)) /\ Cardinality(1..Cardinality(T)) = Cardinality(T)
    BY <1>3, FS_Interval
  <2> HIDE DEF t
  <2> QED
    BY <1>2, <2>1, <2>2, FS_Injection
<1>8. \A z \in T : \E i \in 1..Len(t) : t[i] = z
  BY <1>6, <1>7 DEF Surjection
<1>9. \A p \in S : <<p, TRUE>> \in T
  BY DEF T
<1> HIDE DEF t
<1>10. t \in Seq(T) /\ \A p \in S : \E i \in 1..Len(t) : t[i] = <<p, TRUE>>
  BY <1>6, <1>8, <1>9
<1> QED
  BY <1>10 DEF t, T

(* Words that come behind: none about p but b. *)
LEMMA Grown ==
  ASSUME NEW q, NEW r, Len(q) \in Nat, Len(r) \in Nat, Len(q) <= Len(r),
         \A i \in 1..Len(q) : r[i] = q[i],
         NEW p, NEW b,
         \A i \in 1..Len(r) : i > Len(q) /\ r[i][1] = p => r[i][2] = b
  PROVE  /\ \A d \in BOOLEAN : Follows(q, p, b, d) => Follows(r, p, b, d)
         /\ (\E i \in 1..Len(r) : i > Len(q) /\ r[i][1] = p) => Follows(r, p, b, FALSE)
<1> DEFINE m == Len(q)
           n == Len(r)
<1>0. \A i \in 1..m : i \in 1..n
  OBVIOUS
<1>00. \A i \in 1..n : i \in 1..m \/ i > m
  OBVIOUS
<1>01. \A i \in 1..m, j \in 1..n : j > m => j > i
  OBVIOUS
<1>02. \A i \in 1..m : r[i] = q[i]
  OBVIOUS
<1>03. \A i \in 1..n : i > m /\ r[i][1] = p => r[i][2] = b
  OBVIOUS
<1> HIDE DEF m, n
<1>1. ASSUME NEW d \in BOOLEAN, Follows(q, p, b, d) PROVE Follows(r, p, b, d)
  <2>1. Says(q, p, b) => Says(r, p, b)
    BY <1>0, <1>02 DEF Says, m, n
  <2>2. ASSUME NEW i \in 1..n, r[i][1] = p, r[i][2] # b
        PROVE  \E j \in 1..n : j > i /\ r[j][1] = p /\ r[j][2] = b
    <3>1. i \in 1..m
      BY <1>00, <1>03, <2>2
    <3>2. PICK j \in 1..m : j > i /\ q[j][1] = p /\ q[j][2] = b
      BY <1>1, <1>02, <2>2, <3>1 DEF Follows, m
    <3> QED
      BY <1>0, <1>02, <3>2
  <2> QED
    BY <1>1, <2>1, <2>2 DEF Follows, n
<1>2. ASSUME NEW k \in 1..n, k > m, r[k][1] = p PROVE Follows(r, p, b, FALSE)
  <2>1. r[k][2] = b
    BY <1>03, <1>2
  <2>2. ASSUME NEW i \in 1..n, r[i][1] = p, r[i][2] # b
        PROVE  \E j \in 1..n : j > i /\ r[j][1] = p /\ r[j][2] = b
    BY <1>00, <1>01, <1>03, <1>2, <2>1, <2>2
  <2> QED
    BY <1>2, <2>1, <2>2 DEF Follows, Says, n
<1> QED
  BY <1>1, <1>2 DEF n, m

LEMMA RowGrown ==
  ASSUME NEW q, NEW r, Len(q) \in Nat, Len(r) \in Nat, Len(q) <= Len(r),
         \A i \in 1..Len(q) : r[i] = q[i],
         NEW p,
         \A i \in 1..Len(r) : i > Len(q) /\ r[i][1] = p => RowOf(r, i, p, TRUE)
  PROVE  /\ \A d \in BOOLEAN : RowFollows(q, p, d) => RowFollows(r, p, d)
         /\ (\E i \in 1..Len(r) : i > Len(q) /\ r[i][1] = p) => RowFollows(r, p, FALSE)
<1> DEFINE m == Len(q)
           n == Len(r)
<1>0. \A i \in 1..m : i \in 1..n
  OBVIOUS
<1>00. \A i \in 1..n : i \in 1..m \/ i > m
  OBVIOUS
<1>01. \A i \in 1..m, j \in 1..n : j > m => j > i
  OBVIOUS
<1>02. \A i \in 1..m, b \in BOOLEAN : RowOf(r, i, p, b) <=> RowOf(q, i, p, b)
  BY DEF RowOf
<1>03. \A i \in 1..n : i > m /\ r[i][1] = p => RowOf(r, i, p, TRUE)
  OBVIOUS
<1>04. \A i \in 1..n : RowOf(r, i, p, FALSE) => r[i][1] = p /\ ~RowOf(r, i, p, TRUE)
  BY DEF RowOf
<1> HIDE DEF m, n
<1>1. ASSUME NEW d \in BOOLEAN, RowFollows(q, p, d) PROVE RowFollows(r, p, d)
  <2>1. (\E j \in 1..m : RowOf(q, j, p, TRUE)) => \E j \in 1..n : RowOf(r, j, p, TRUE)
    BY <1>0, <1>02
  <2>2. ASSUME NEW i \in 1..n, RowOf(r, i, p, FALSE)
        PROVE  \E j \in 1..n : j > i /\ RowOf(r, j, p, TRUE)
    <3>1. i \in 1..m
      BY <1>00, <1>03, <1>04, <2>2
    <3>2. PICK j \in 1..m : j > i /\ RowOf(q, j, p, TRUE)
      BY <1>1, <1>02, <2>2, <3>1 DEF RowFollows, m
    <3> QED
      BY <1>0, <1>02, <3>2
  <2> QED
    BY <1>1, <2>1, <2>2 DEF RowFollows, n, m
<1>2. ASSUME NEW k \in 1..n, k > m, r[k][1] = p PROVE RowFollows(r, p, FALSE)
  <2>1. RowOf(r, k, p, TRUE)
    BY <1>03, <1>2
  <2>2. ASSUME NEW i \in 1..n, RowOf(r, i, p, FALSE)
        PROVE  \E j \in 1..n : j > i /\ RowOf(r, j, p, TRUE)
    BY <1>00, <1>01, <1>03, <1>04, <1>2, <2>1, <2>2
  <2> QED
    BY <2>1, <2>2 DEF RowFollows, n
<1> QED
  BY <1>1, <1>2 DEF n, m

(* The same words, at other steps. *)
LEMMA SameWords ==
  ASSUME NEW q, NEW r, Len(r) = Len(q),
         \A i \in 1..Len(q) : r[i][1] = q[i][1] /\ r[i][2] = q[i][2],
         NEW p, NEW b, NEW d \in BOOLEAN, Follows(q, p, b, d)
  PROVE  Follows(r, p, b, d)
BY DEF Follows, Says

LEMMA SameRows ==
  ASSUME NEW q, NEW r, Len(r) = Len(q), NEW p,
         \A i \in 1..Len(q), b \in BOOLEAN : RowOf(r, i, p, b) <=> RowOf(q, i, p, b),
         NEW d \in BOOLEAN, RowFollows(q, p, d)
  PROVE  RowFollows(r, p, d)
BY DEF RowFollows

(* One word writes its row and no earlier one about p has yet to. *)
LEMMA RowWritten ==
  ASSUME NEW q, NEW r, Len(q) \in Nat, Len(r) = Len(q), NEW p, NEW k \in 1..Len(q),
         \A i \in 1..Len(q), b \in BOOLEAN : i # k => (RowOf(r, i, p, b) <=> RowOf(q, i, p, b)),
         \A b \in BOOLEAN : ~RowOf(r, k, p, b),
         NEW c \in BOOLEAN, RowOf(q, k, p, c),
         \A i \in 1..Len(q), b \in BOOLEAN : RowOf(q, i, p, b) => i >= k,
         NEW d \in BOOLEAN, RowFollows(q, p, d)
  PROVE  RowFollows(r, p, c)
<1> DEFINE n == Len(q)
<1>1. \A i \in 1..n : RowOf(q, i, p, FALSE) => \E j \in 1..n : j > i /\ RowOf(q, j, p, TRUE)
  BY DEF RowFollows
<1>2. \A i, j \in 1..n : i >= k /\ j > i => j # k
  OBVIOUS
<1>3. \A i \in 1..n : RowOf(r, i, p, FALSE) => \E j \in 1..n : j > i /\ RowOf(r, j, p, TRUE)
  BY <1>1, <1>2
<1>4. c = FALSE => \E j \in 1..n : RowOf(r, j, p, TRUE)
  BY <1>1, <1>2
<1> QED
  BY <1>3, <1>4 DEF RowFollows

\* r is q without its word at k.
Removed(q, r, k) ==
  /\ Len(q) \in Nat /\ k \in 1..Len(q) /\ Len(r) = Len(q) - 1
  /\ \A i \in 1..Len(q) - 1 : r[i] = IF i < k THEN q[i] ELSE q[i + 1]

(* One word is removed: it is about another, or it is the first about p. *)
LEMMA WordShown ==
  ASSUME NEW q, NEW r, NEW k, Removed(q, r, k),
         NEW p, NEW b, NEW d \in BOOLEAN, NEW e \in BOOLEAN, Follows(q, p, b, d),
         \/ q[k][1] # p /\ e = d
         \/ q[k][1] = p /\ (\A i \in 1..k - 1 : q[i][1] # p) /\ (e <=> q[k][2] = b)
  PROVE  Follows(r, p, b, e)
<1> DEFINE n == Len(q)
           at(i) == IF i < k THEN i ELSE i + 1
           from(i) == IF i < k THEN i ELSE i - 1
<1>0. /\ Len(q) \in Nat /\ k \in 1..Len(q) /\ Len(r) = Len(q) - 1
      /\ \A i \in 1..Len(q) - 1 : r[i] = IF i < k THEN q[i] ELSE q[i + 1]
  BY DEF Removed
<1>1. \A i \in 1..n - 1 : at(i) \in 1..n /\ at(i) # k /\ r[i] = q[at(i)]
  BY <1>0
<1>2. \A i \in 1..n : i # k => from(i) \in 1..n - 1 /\ at(from(i)) = i
  BY <1>0
<1>3. \A i \in 1..n - 1, j \in 1..n : j # k /\ j > at(i) => from(j) > i
  BY <1>0
<1>4. \A i \in 1..n : i # k => r[from(i)] = q[i]
  BY <1>1, <1>2
<1>5. 1..Len(r) = 1..n - 1
  BY <1>0
<1>50. \A i \in 1..n : i < k => i \in 1..k - 1
  BY <1>0
<1>51. \A i, j \in 1..n : (i # k => i < k \/ i > k) /\ (i > k /\ j > i => j # k) /\ (j > k => j # k)
  BY <1>0
<1>52. \A i \in 1..n : q[i][1] = p /\ q[i][2] # b => \E j \in 1..n : j > i /\ q[j][1] = p /\ q[j][2] = b
  BY DEF Follows
<1>53. d = FALSE => \E j \in 1..n : q[j][1] = p /\ q[j][2] = b
  BY DEF Follows, Says
<1> HIDE DEF n, at, from
<1>6. ASSUME NEW i \in 1..n - 1, r[i][1] = p, r[i][2] # b
      PROVE  \E j \in 1..n - 1 : j > i /\ r[j][1] = p /\ r[j][2] = b
  <2>1. PICK j \in 1..n : j > at(i) /\ q[j][1] = p /\ q[j][2] = b
    BY <1>1, <1>52, <1>6
  <2>2. j # k
    BY <1>1, <1>50, <1>51, <1>6, <2>1
  <2> QED
    BY <1>2, <1>3, <1>4, <2>1, <2>2
<1>7. ASSUME e = FALSE PROVE \E j \in 1..n - 1 : r[j][1] = p /\ r[j][2] = b
  <2>1. CASE q[k][1] # p
    <3>1. PICK j \in 1..n : q[j][1] = p /\ q[j][2] = b
      BY <1>7, <1>53, <2>1
    <3> QED
      BY <1>2, <1>4, <2>1, <3>1
  <2>2. CASE q[k][1] = p
    <3>1. PICK j \in 1..n : j > k /\ q[j][1] = p /\ q[j][2] = b
      BY <1>0, <1>7, <1>52, <2>2 DEF n
    <3> QED
      BY <1>2, <1>4, <1>51, <3>1 DEF n
  <2> QED
    BY <2>1, <2>2
<1> QED
  BY <1>5, <1>6, <1>7 DEF Follows, Says

LEMMA RowShown ==
  ASSUME NEW q, NEW r, NEW k, Removed(q, r, k),
         q[k][3] = "show",
         NEW p, NEW d \in BOOLEAN, RowFollows(q, p, d)
  PROVE  RowFollows(r, p, d)
<1> DEFINE n == Len(q)
           at(i) == IF i < k THEN i ELSE i + 1
           from(i) == IF i < k THEN i ELSE i - 1
<1>0. /\ Len(q) \in Nat /\ k \in 1..Len(q) /\ Len(r) = Len(q) - 1
      /\ \A i \in 1..Len(q) - 1 : r[i] = IF i < k THEN q[i] ELSE q[i + 1]
  BY DEF Removed
<1>1. \A i \in 1..n - 1 : at(i) \in 1..n /\ at(i) # k /\ r[i] = q[at(i)]
  BY <1>0
<1>2. \A i \in 1..n : i # k => from(i) \in 1..n - 1 /\ at(from(i)) = i
  BY <1>0
<1>3. \A i \in 1..n - 1, j \in 1..n : j # k /\ j > at(i) => from(j) > i
  BY <1>0
<1>4. \A i \in 1..n : i # k => r[from(i)] = q[i]
  BY <1>1, <1>2
<1>5. 1..Len(r) = 1..n - 1
  BY <1>0
<1>6. \A b \in BOOLEAN : ~RowOf(q, k, p, b)
  BY DEF RowOf
<1>7. \A i \in 1..n : RowOf(q, i, p, FALSE) => \E j \in 1..n : j > i /\ RowOf(q, j, p, TRUE)
  BY DEF RowFollows
<1>8. d = FALSE => \E j \in 1..n : RowOf(q, j, p, TRUE)
  BY DEF RowFollows
<1> HIDE DEF n, at, from
<1>9. \A i \in 1..n - 1, b \in BOOLEAN : RowOf(r, i, p, b) <=> RowOf(q, at(i), p, b)
  BY <1>1 DEF RowOf
<1>10. \A i \in 1..n, b \in BOOLEAN : RowOf(q, i, p, b) => from(i) \in 1..n - 1 /\ RowOf(r, from(i), p, b)
  BY <1>2, <1>6, <1>9
<1>11. ASSUME NEW i \in 1..n - 1, RowOf(r, i, p, FALSE)
       PROVE  \E j \in 1..n - 1 : j > i /\ RowOf(r, j, p, TRUE)
  <2>1. at(i) \in 1..n /\ RowOf(q, at(i), p, FALSE)
    BY <1>1, <1>9, <1>11
  <2>2. PICK j \in 1..n : j > at(i) /\ RowOf(q, j, p, TRUE)
    BY <1>7, <2>1
  <2>3. j # k
    BY <1>6, <2>2
  <2>4. from(j) \in 1..n - 1 /\ from(j) > i /\ RowOf(r, from(j), p, TRUE)
    BY <1>3, <1>10, <2>2, <2>3
  <2> QED
    BY <2>4
<1>12. d = FALSE => \E j \in 1..n - 1 : RowOf(r, j, p, TRUE)
  BY <1>8, <1>10
<1> QED
  BY <1>5, <1>11, <1>12 DEF RowFollows

-----------------------------------------------------------------------------
(* Presence that the room sends joins the end of the line.                   *)

\* r is q with the words v, still on the wire, behind it.
Longer(q, r, v) ==
  /\ Len(q) \in Nat /\ Len(r) \in Nat /\ Len(q) <= Len(r)
  /\ \A i \in 1..Len(q) : r[i] = q[i]
  /\ \A i \in 1..Len(r) : i > Len(q) => \E k \in 1..Len(v) : r[i] = <<v[k][1], v[k][2], "wire">>
  /\ \A k \in 1..Len(v) : \E i \in 1..Len(r) : i > Len(q) /\ r[i] = <<v[k][1], v[k][2], "wire">>

LEMMA LineGrows ==
  ASSUME NEW H, NEW W, NEW h \in Seq(H), NEW w \in Seq(W), NEW v \in Seq(W)
  PROVE  Longer(Line(h, w), Line(h, w \o v), v)
<1> DEFINE q == Line(h, w)
           r == Line(h, w \o v)
           a == Len(h)
           c == Len(w)
           e == Len(v)
<1>1. /\ w \o v \in Seq(W) /\ Len(w \o v) = c + e
      /\ \A i \in 1..c + e : (w \o v)[i] = IF i <= c THEN w[i] ELSE v[i - c]
  BY ConcatProperties
<1>2. IsLine(q, h, w)
  BY LineIs
<1>3. IsLine(r, h, w \o v)
  <2> DEFINE x == w \o v
  <2>1. x \in Seq(W)
    BY <1>1
  <2> HIDE DEF x
  <2>2. IsLine(Line(h, x), h, x)
    BY <2>1, LineIs
  <2> QED
    BY <2>2 DEF x
<1>20. /\ a \in Nat /\ c \in Nat /\ Len(q) = a + c
       /\ \A i \in 1..a : q[i] = h[i]
       /\ \A i \in 1..c : q[a + i] = <<w[i][1], w[i][2], "wire">>
  <2> HIDE DEF q, r
  <2> QED
    BY <1>2 DEF IsLine
<1>30. /\ Len(r) = a + Len(w \o v)
       /\ \A i \in 1..a : r[i] = h[i]
       /\ \A i \in 1..Len(w \o v) : r[a + i] = <<(w \o v)[i][1], (w \o v)[i][2], "wire">>
  <2> HIDE DEF q, r
  <2> QED
    BY <1>3 DEF IsLine
<1>4. e \in Nat
  OBVIOUS
<1>5. \A i \in 1..c : r[a + i] = q[a + i]
  <2> SUFFICES ASSUME NEW i \in 1..c PROVE r[a + i] = q[a + i]
    OBVIOUS
  <2> HIDE DEF q, r, a, c, e
  <2>1. i \in 1..c + e /\ i <= c
    BY <1>20, <1>4
  <2> QED
    BY <1>1, <1>20, <1>30, <2>1
<1>6. \A k \in 1..e : r[a + (c + k)] = <<v[k][1], v[k][2], "wire">>
  <2> SUFFICES ASSUME NEW k \in 1..e PROVE r[a + (c + k)] = <<v[k][1], v[k][2], "wire">>
    OBVIOUS
  <2> HIDE DEF q, r, a, c, e
  <2>1. c + k \in 1..c + e /\ ~(c + k <= c) /\ (c + k) - c = k
    BY <1>20, <1>4
  <2> QED
    <3>1. (w \o v)[c + k] = v[k] /\ c + k \in 1..Len(w \o v)
      BY <1>1, <2>1
    <3>2. r[a + (c + k)] = <<(w \o v)[c + k][1], (w \o v)[c + k][2], "wire">>
      BY <1>30, <3>1
    <3> QED
      BY <3>1, <3>2
<1>7. Len(r) = a + c + e
  <2> HIDE DEF q, r, a, c, e
  <2> QED
    BY <1>1, <1>20, <1>30, <1>4
<1> HIDE DEF q, r, a, c, e
<1>8. \A i \in 1..a + c : i \in 1..a \/ (i - a \in 1..c /\ i = a + (i - a))
  BY <1>20
<1>9. \A i \in 1..a + c + e : i > a + c => (i - (a + c) \in 1..e /\ i = a + (c + (i - (a + c))))
  BY <1>20, <1>4
<1>10. \A k \in 1..e : a + (c + k) \in 1..a + c + e /\ a + (c + k) > a + c
  BY <1>20, <1>4
<1>11. ASSUME NEW i \in 1..Len(q) PROVE r[i] = q[i]
  <2>1. CASE i \in 1..a
    BY <1>20, <1>30, <2>1
  <2>2. CASE i - a \in 1..c /\ i = a + (i - a)
    BY <1>5, <2>2
  <2> QED
    BY <1>8, <1>20, <2>1, <2>2
<1>12. \A i \in 1..Len(r) : i > Len(q) => \E k \in 1..e : r[i] = <<v[k][1], v[k][2], "wire">>
  BY <1>20, <1>6, <1>7, <1>9
<1>13. \A k \in 1..e : \E i \in 1..Len(r) : i > Len(q) /\ r[i] = <<v[k][1], v[k][2], "wire">>
  BY <1>20, <1>6, <1>7, <1>10
<1>14. Len(q) \in Nat /\ Len(r) \in Nat /\ Len(q) <= Len(r)
  BY <1>20, <1>4, <1>7
<1> QED
  BY <1>11, <1>12, <1>13, <1>14 DEF q, r, e, Longer

\* The words v say nothing of p but b; they say something of p.
Only(v, p, b) == \A k \in 1..Len(v) : v[k][1] = p => v[k][2] = b
About(v, p) == \E k \in 1..Len(v) : v[k][1] = p

LEMMA ToldOf ==
  ASSUME NEW H, NEW W, NEW h \in Seq(H), NEW w \in Seq(W), NEW v \in Seq(W),
         NEW p, NEW b, Only(v, p, b)
  PROVE  /\ \A d \in BOOLEAN : Follows(Line(h, w), p, b, d) => Follows(Line(h, w \o v), p, b, d)
         /\ About(v, p) => Follows(Line(h, w \o v), p, b, FALSE)
<1> DEFINE q == Line(h, w)
           r == Line(h, w \o v)
<1>0. Longer(q, r, v)
  BY LineGrows
<1> HIDE DEF q, r
<1>1. /\ Len(q) \in Nat /\ Len(r) \in Nat /\ Len(q) <= Len(r)
      /\ \A i \in 1..Len(q) : r[i] = q[i]
      /\ \A i \in 1..Len(r) : i > Len(q) => \E k \in 1..Len(v) : r[i] = <<v[k][1], v[k][2], "wire">>
      /\ \A k \in 1..Len(v) : \E i \in 1..Len(r) : i > Len(q) /\ r[i] = <<v[k][1], v[k][2], "wire">>
  BY <1>0 DEF Longer
<1>2. ASSUME NEW i \in 1..Len(r), i > Len(q), r[i][1] = p PROVE r[i][2] = b
  <2>1. PICK k \in 1..Len(v) : r[i] = <<v[k][1], v[k][2], "wire">>
    BY <1>1, <1>2
  <2> QED
    BY <1>2, <2>1 DEF Only
<1>3. ASSUME NEW k \in 1..Len(v), v[k][1] = p PROVE \E i \in 1..Len(r) : i > Len(q) /\ r[i][1] = p
  <2>1. PICK i \in 1..Len(r) : i > Len(q) /\ r[i] = <<v[k][1], v[k][2], "wire">>
    BY <1>1
  <2> QED
    BY <1>3, <2>1
<1>4. /\ \A d \in BOOLEAN : Follows(q, p, b, d) => Follows(r, p, b, d)
      /\ (\E i \in 1..Len(r) : i > Len(q) /\ r[i][1] = p) => Follows(r, p, b, FALSE)
  BY <1>1, <1>2, Grown
<1> QED
  BY <1>3, <1>4 DEF q, r, About

LEMMA RowToldOf ==
  ASSUME NEW H, NEW W, NEW h \in Seq(H), NEW w \in Seq(W), NEW v \in Seq(W),
         NEW p, Only(v, p, TRUE)
  PROVE  /\ \A d \in BOOLEAN : RowFollows(Line(h, w), p, d) => RowFollows(Line(h, w \o v), p, d)
         /\ About(v, p) => RowFollows(Line(h, w \o v), p, FALSE)
<1> DEFINE q == Line(h, w)
           r == Line(h, w \o v)
<1>0. Longer(q, r, v)
  BY LineGrows
<1> HIDE DEF q, r
<1>1. /\ Len(q) \in Nat /\ Len(r) \in Nat /\ Len(q) <= Len(r)
      /\ \A i \in 1..Len(q) : r[i] = q[i]
      /\ \A i \in 1..Len(r) : i > Len(q) => \E k \in 1..Len(v) : r[i] = <<v[k][1], v[k][2], "wire">>
      /\ \A k \in 1..Len(v) : \E i \in 1..Len(r) : i > Len(q) /\ r[i] = <<v[k][1], v[k][2], "wire">>
  BY <1>0 DEF Longer
<1>2. \A i \in 1..Len(r) : i > Len(q) /\ r[i][1] = p => RowOf(r, i, p, TRUE)
  <2> SUFFICES ASSUME NEW i \in 1..Len(r), i > Len(q), r[i][1] = p PROVE RowOf(r, i, p, TRUE)
    OBVIOUS
  <2>1. PICK k \in 1..Len(v) : r[i] = <<v[k][1], v[k][2], "wire">>
    BY <1>1
  <2> QED
    BY <2>1 DEF RowOf, Only
<1>3. ASSUME NEW k \in 1..Len(v), v[k][1] = p PROVE \E i \in 1..Len(r) : i > Len(q) /\ r[i][1] = p
  <2>1. PICK i \in 1..Len(r) : i > Len(q) /\ r[i] = <<v[k][1], v[k][2], "wire">>
    BY <1>1
  <2> QED
    BY <1>3, <2>1
<1>4. /\ \A d \in BOOLEAN : RowFollows(q, p, d) => RowFollows(r, p, d)
      /\ (\E i \in 1..Len(r) : i > Len(q) /\ r[i][1] = p) => RowFollows(r, p, FALSE)
  BY <1>1, <1>2, RowGrown
<1> QED
  BY <1>3, <1>4 DEF q, r, About

(* What tasks do to the line. *)

\* r is q with another word at k.
Replaced(q, r, k) ==
  /\ Len(q) \in Nat /\ Len(r) = Len(q) /\ k \in 1..Len(q)
  /\ \A j \in 1..Len(q) : j # k => r[j] = q[j]

ReplacedHere(q, r, h, g, k) ==
  /\ Replaced(q, r, k) /\ q[k] = h[k] /\ r[k] = g[k]
  /\ \A j \in 1..k : q[j] = h[j]

LEMMA LineStep ==
  ASSUME NEW h \in Seq(Words3), NEW g \in Seq(Words3), NEW w \in Seq(Persons \X BOOLEAN),
         NEW k \in 1..Len(h), Len(g) = Len(h), \A j \in 1..Len(h) : j # k => g[j] = h[j]
  PROVE  ReplacedHere(Line(h, w), Line(g, w), h, g, k)
<1> DEFINE q == Line(h, w)
           r == Line(g, w)
           a == Len(h)
           c == Len(w)
<1>1. IsLine(q, h, w) /\ IsLine(r, g, w)
  BY LineIs
<1> HIDE DEF q, r
<1>2. /\ a \in Nat /\ c \in Nat /\ Len(q) = a + c /\ Len(r) = a + c
      /\ \A i \in 1..a : q[i] = h[i] /\ r[i] = g[i]
      /\ \A i \in 1..c : q[a + i] = r[a + i]
  BY <1>1 DEF IsLine
<1> HIDE DEF a, c
<1>3. k \in 1..a /\ k \in 1..a + c /\ \A j \in 1..k : j \in 1..a
  BY <1>2 DEF a
<1>4. \A i \in 1..a + c : i \in 1..a \/ (i - a \in 1..c /\ i = a + (i - a))
  BY <1>2
<1>5. ASSUME NEW j \in 1..a + c, j # k PROVE r[j] = q[j]
  <2>1. CASE j \in 1..a
    BY <1>2, <1>5, <2>1 DEF a
  <2>2. CASE j - a \in 1..c /\ j = a + (j - a)
    BY <1>2, <2>2
  <2> QED
    BY <1>4, <2>1, <2>2
<1>6. Len(q) \in Nat
  BY <1>2
<1> QED
  BY <1>2, <1>3, <1>5, <1>6 DEF Replaced, ReplacedHere, q, r

\* The first word of the wire is in hand.
Taken(q, r, h, w, x) ==
  /\ Replaced(q, r, Len(h) + 1)
  /\ q[Len(h) + 1] = <<w[1][1], w[1][2], "wire">> /\ r[Len(h) + 1] = x

LEMMA LineTaken ==
  ASSUME NEW h \in Seq(Words3), NEW w \in Seq(Persons \X BOOLEAN), w # <<>>,
         NEW x \in Words3, x[1] = w[1][1], x[2] = w[1][2]
  PROVE  /\ Append(h, x) \in Seq(Words3) /\ Tail(w) \in Seq(Persons \X BOOLEAN)
         /\ Taken(Line(h, w), Line(Append(h, x), Tail(w)), h, w, x)
<1> DEFINE H == Words3
           W == Persons \X BOOLEAN
           g == Append(h, x)
           t == Tail(w)
           q == Line(h, w)
           r == Line(g, t)
           a == Len(h)
           c == Len(w)
<1>1. a \in Nat /\ c \in Nat /\ c >= 1
  BY EmptySeq
<1>2. t \in Seq(W) /\ Len(t) = c - 1 /\ \A i \in 1..c - 1 : t[i] = w[i + 1]
  BY HeadTailProperties
<1>3. x \in H
  OBVIOUS
<1>4. g \in Seq(H) /\ Len(g) = a + 1 /\ g[a + 1] = x /\ \A i \in 1..a : g[i] = h[i]
  BY <1>3, AppendProperties
<1> HIDE DEF t, g
<1>5. IsLine(q, h, w) /\ IsLine(r, g, t)
  BY <1>2, <1>4, LineIs
<1> HIDE DEF q, r
<1>6. /\ Len(q) = a + c
      /\ \A i \in 1..a : q[i] = h[i]
      /\ \A i \in 1..c : q[a + i] = <<w[i][1], w[i][2], "wire">>
  BY <1>5 DEF IsLine
<1>7. /\ Len(r) = Len(g) + Len(t)
      /\ \A i \in 1..Len(g) : r[i] = g[i]
      /\ \A i \in 1..Len(t) : r[Len(g) + i] = <<t[i][1], t[i][2], "wire">>
  BY <1>5 DEF IsLine
<1> HIDE DEF a, c
<1>8. Len(r) = a + c /\ a + 1 \in 1..a + c /\ a + 1 \in 1..a + 1 /\ 1 \in 1..c
  BY <1>1, <1>2, <1>4, <1>7
<1>9. r[a + 1] = x /\ q[a + 1] = <<w[1][1], w[1][2], "wire">>
  BY <1>4, <1>6, <1>7, <1>8
<1>10. ASSUME NEW j \in 1..a + c, j # a + 1 PROVE r[j] = q[j]
  <2>1. CASE j <= a
    <3>1. j \in 1..a /\ j \in 1..a + 1
      BY <1>1, <2>1
    <3> QED
      BY <1>4, <1>6, <1>7, <3>1
  <2>2. CASE ~(j <= a)
    <3> DEFINE i == j - (a + 1)
    <3>1. i \in 1..c - 1 /\ i + 1 \in 1..c /\ j = (a + 1) + i /\ j = a + (i + 1)
      BY <1>1, <1>10, <2>2
    <3> HIDE DEF i
    <3>2. r[(a + 1) + i] = <<t[i][1], t[i][2], "wire">> /\ t[i] = w[i + 1]
      BY <1>2, <1>4, <1>7, <3>1
    <3>3. q[a + (i + 1)] = <<w[i + 1][1], w[i + 1][2], "wire">>
      BY <1>6, <3>1
    <3> QED
      BY <3>1, <3>2, <3>3
  <2> QED
    BY <2>1, <2>2
<1>11. Replaced(q, r, a + 1)
  <2>1. Len(q) \in Nat
    BY <1>1, <1>6
  <2> QED
    BY <1>6, <1>8, <1>10, <2>1 DEF Replaced
<1>12. Append(h, x) \in Seq(H) /\ Tail(w) \in Seq(W)
  BY <1>2, <1>4 DEF g, t
<1> QED
  BY <1>9, <1>11, <1>12 DEF q, r, g, t, a, Taken

LEMMA LineShorter ==
  ASSUME NEW h \in Seq(Words3), NEW w \in Seq(Persons \X BOOLEAN), NEW k \in 1..Len(h)
  PROVE  /\ RemoveAt(h, k) \in Seq(Words3)
         /\ Removed(Line(h, w), Line(RemoveAt(h, k), w), k)
         /\ \A j \in 1..k : Line(h, w)[j] = h[j]
<1> DEFINE H == Words3
           W == Persons \X BOOLEAN
           g == RemoveAt(h, k)
           q == Line(h, w)
           r == Line(g, w)
           a == Len(h)
           c == Len(w)
<1>1. a \in Nat /\ c \in Nat /\ k \in 1..a
  OBVIOUS
<1>2. g \in Seq(H) /\ Len(g) = a - 1 /\ \A j \in 1..a - 1 : g[j] = IF j < k THEN h[j] ELSE h[j + 1]
  BY RemoveIs
<1> HIDE DEF g
<1>3. IsLine(q, h, w) /\ IsLine(r, g, w)
  BY <1>2, LineIs
<1> HIDE DEF q, r
<1>4. /\ Len(q) = a + c
      /\ \A i \in 1..a : q[i] = h[i]
      /\ \A i \in 1..c : q[a + i] = <<w[i][1], w[i][2], "wire">>
  BY <1>3 DEF IsLine
<1>5. /\ Len(r) = Len(g) + c
      /\ \A i \in 1..Len(g) : r[i] = g[i]
      /\ \A i \in 1..c : r[Len(g) + i] = <<w[i][1], w[i][2], "wire">>
  BY <1>3 DEF IsLine
<1> HIDE DEF a, c
<1>6. Len(q) \in Nat /\ k \in 1..Len(q) /\ Len(r) = Len(q) - 1 /\ Len(q) - 1 = (a - 1) + c
  BY <1>1, <1>2, <1>4, <1>5
<1>7. \A j \in 1..k : q[j] = h[j]
  <2>1. \A j \in 1..k : j \in 1..a
    BY <1>1
  <2> QED
    BY <1>4, <2>1
<1>8. ASSUME NEW j \in 1..(a - 1) + c PROVE r[j] = IF j < k THEN q[j] ELSE q[j + 1]
  <2>1. CASE j <= a - 1
    <3>1. j \in 1..a - 1 /\ j \in 1..a /\ j + 1 \in 1..a
      BY <1>1, <2>1
    <3>2. r[j] = g[j] /\ q[j] = h[j] /\ q[j + 1] = h[j + 1]
      BY <1>2, <1>4, <1>5, <3>1
    <3> QED
      BY <1>2, <3>1, <3>2
  <2>2. CASE ~(j <= a - 1)
    <3> DEFINE i == j - (a - 1)
    <3>1. i \in 1..c /\ j = (a - 1) + i /\ j + 1 = a + i /\ ~(j < k)
      BY <1>1, <2>2
    <3> HIDE DEF i
    <3>2. r[(a - 1) + i] = <<w[i][1], w[i][2], "wire">> /\ q[a + i] = <<w[i][1], w[i][2], "wire">>
      BY <1>2, <1>4, <1>5, <3>1
    <3> QED
      BY <3>1, <3>2
  <2> QED
    BY <2>1, <2>2
<1>9. \A j \in 1..Len(q) - 1 : r[j] = IF j < k THEN q[j] ELSE q[j + 1]
  BY <1>6, <1>8
<1>10. Removed(q, r, k)
  BY <1>6, <1>9 DEF Removed
<1> QED
  BY <1>2, <1>7, <1>10 DEF q, r, g

(* The wire is lost: what it said of p is no loss if it did not say b. *)
LEMMA LineLost ==
  ASSUME NEW H, NEW W, NEW h \in Seq(H), NEW w \in Seq(W), NEW p, NEW b,
         \A i \in 1..Len(w) : ~(w[i][1] = p /\ w[i][2] = b),
         NEW d \in BOOLEAN, Follows(Line(h, w), p, b, d)
  PROVE  Follows(Line(h, <<>>), p, b, d)
<1> DEFINE q == Line(h, w)
           r == Line(h, <<>>)
           a == Len(h)
           c == Len(w)
<1>1. <<>> \in Seq(W) /\ Len(<<>>) = 0
  BY EmptySeq
<1>2. IsLine(q, h, w) /\ IsLine(r, h, <<>>)
  BY <1>1, LineIs
<1>3. Follows(q, p, b, d)
  OBVIOUS
<1>4. \A i \in 1..c : ~(w[i][1] = p /\ w[i][2] = b)
  OBVIOUS
<1> HIDE DEF q, r
<1>5. /\ a \in Nat /\ c \in Nat /\ Len(q) = a + c
      /\ \A i \in 1..a : q[i] = h[i]
      /\ \A i \in 1..c : q[a + i] = <<w[i][1], w[i][2], "wire">>
  BY <1>2 DEF IsLine
<1>6. Len(r) = a /\ \A i \in 1..a : r[i] = h[i]
  BY <1>1, <1>2, <1>5 DEF IsLine
<1> HIDE DEF a, c
<1>7. \A i \in 1..a : i \in 1..a + c
  BY <1>5
<1>8. ASSUME NEW j \in 1..a + c, q[j][1] = p, q[j][2] = b PROVE j \in 1..a /\ r[j] = q[j]
  <2>1. j \in 1..a \/ (j - a \in 1..c /\ j = a + (j - a))
    BY <1>5
  <2>2. ASSUME NEW i \in 1..c, j = a + i PROVE FALSE
    <3>1. q[j] = <<w[i][1], w[i][2], "wire">>
      BY <1>5, <2>2
    <3>2. w[i][1] = p /\ w[i][2] = b
      BY <1>8, <3>1
    <3> QED
      BY <1>4, <3>2
  <2> QED
    BY <1>5, <1>6, <2>1, <2>2
<1>9. \A i \in 1..a : r[i] = q[i]
  BY <1>5, <1>6
<1>10. ASSUME NEW i \in 1..a, r[i][1] = p, r[i][2] # b
       PROVE  \E j \in 1..a : j > i /\ r[j][1] = p /\ r[j][2] = b
  <2>1. PICK j \in 1..a + c : j > i /\ q[j][1] = p /\ q[j][2] = b
    BY <1>3, <1>5, <1>7, <1>9, <1>10 DEF Follows
  <2> QED
    BY <1>8, <2>1
<1>11. Says(q, p, b) => Says(r, p, b)
  BY <1>5, <1>6, <1>8 DEF Says
<1> QED
  BY <1>3, <1>6, <1>10, <1>11 DEF Follows, r

LEMMA EmptyLine ==
  /\ <<>> \in Seq(Words3) /\ <<>> \in Seq(Persons \X BOOLEAN)
  /\ \A i : i \notin 1..Len(Line(<<>>, <<>>))
  /\ \A p, b, d : (Follows(Line(<<>>, <<>>), p, b, d) <=> d) /\ (RowFollows(Line(<<>>, <<>>), p, d) <=> d)
<1>1. <<>> \in Seq(Words3) /\ <<>> \in Seq(Persons \X BOOLEAN) /\ Len(<<>>) = 0
  BY EmptySeq
<1>2. IsLine(Line(<<>>, <<>>), <<>>, <<>>)
  BY <1>1, LineIs
<1>3. Len(Line(<<>>, <<>>)) = 0
  BY <1>1, <1>2 DEF IsLine
<1>4. \A i : i \notin 1..Len(Line(<<>>, <<>>))
  BY <1>3
<1> QED
  BY <1>1, <1>4 DEF Follows, Says, RowFollows

-----------------------------------------------------------------------------
(* Steps that leave the line, the room and the map alone.                    *)

Seen == <<handlers, wire, present, shown, inside, overtaken, missed>>

LEMMA SeenSame ==
  ASSUME Queued, ShownSound, UNCHANGED Seen
  PROVE  Queued' /\ ShownSound'
BY DEF Seen, Queued, ShownSound

LEMMA TargetsSame ==
  ASSUME TargetsSound, UNCHANGED Seen, Targets \subseteq Targets',
         (inside /\ out = <<>> /\ ~crossed /\ ~late /\ join["user"].step # "send")'
           => inside /\ out = <<>> /\ ~crossed /\ ~late /\ join["user"].step # "send"
  PROVE  TargetsSound'
<1> SUFFICES ASSUME (inside /\ out = <<>> /\ ~crossed /\ ~late /\ join["user"].step # "send")',
                    NEW p \in (present \ overtaken)'
             PROVE  RowFollows(Line(handlers, wire), p, p \in Targets)'
  BY DEF TargetsSound
<1>1. p \in present \ overtaken /\ RowFollows(Line(handlers, wire), p, p \in Targets)
  BY DEF TargetsSound, Seen
<1>2. handlers' = handlers /\ wire' = wire
  BY DEF Seen
<1> QED
  BY <1>1, <1>2 DEF RowFollows

LEMMA OccupantsJoins ==
  ASSUME IInv, OInv,
         \/ UserJoins
         \/ \E s \in Starters : \/ JoinSend(s) \/ JoinConfigure(s) \/ JoinAsk(s)
                                \/ JoinListed(s) \/ JoinLast(s)
  PROVE  OInv'
<1> USE DEF room, stream, table, tasks, history
<1>0. "user" \in Starters /\ "boot" \in Starters /\ join \in [Starters -> Joins] /\ out \in Seq(Words)
  BY DEF Starters, IInv, Typed
<1>1. UNCHANGED Seen
  BY DEF Seen, UserJoins, JoinSend, JoinConfigure, JoinAsk, JoinListed, JoinLast
<1>2. Queued' /\ ShownSound'
  BY <1>1, SeenSame DEF OInv
<1>3. CASE UserJoins
  <2>1. join'["user"].step = "send"
    BY <1>0, <1>3, JoinStep DEF UserJoins
  <2>2. leave' = leave /\ (leave # "off" => crossed')
    BY <1>3 DEF UserJoins
  <2> QED
    BY <1>2, <2>1, <2>2 DEF OInv, Parting, TargetsSound
<1>4. ASSUME NEW s \in Starters, JoinSend(s)
      PROVE  OInv'
  <2>1. join[s].step = "send" /\ crossed' = crossed /\ leave' = leave
    BY <1>4 DEF JoinSend
  <2>2. out' # <<>>
    <3>1. out' = Append(out, "join") /\ Len(Append(out, "join")) = Len(out) + 1 /\ Len(out) \in Nat
      BY <1>0, <1>4, AppendProperties DEF JoinSend, Words
    <3> QED
      BY <3>1, EmptySeq
  <2>3. Parting'
    BY <2>1 DEF OInv, Parting
  <2> QED
    BY <1>2, <2>2, <2>3 DEF OInv, TargetsSound
<1>5. ASSUME NEW s \in Starters, JoinConfigure(s) \/ JoinAsk(s) \/ JoinListed(s) \/ JoinLast(s)
      PROVE  OInv'
  <2>1. join[s].step \notin {"off", "send"} /\ crossed' = crossed /\ leave' = leave
    BY <1>5 DEF JoinConfigure, JoinAsk, JoinListed, JoinLast
  <2>2. Parting'
    BY <2>1 DEF OInv, Parting
  <2>3. \A t \in Starters : t # s => join'[t] = join[t]
    BY <1>0, <1>5, JoinStep DEF JoinConfigure, JoinAsk, JoinListed, JoinLast
  <2>4. (inside /\ out = <<>> /\ ~crossed /\ ~late /\ join["user"].step # "send")'
           => inside /\ out = <<>> /\ ~crossed /\ ~late /\ join["user"].step # "send"
    <3>1. UNCHANGED <<inside, out, crossed, late>>
      BY <1>5 DEF JoinConfigure, JoinAsk, JoinListed, JoinLast
    <3>2. join'["user"].step # "send" => join["user"].step # "send"
      BY <1>0, <2>1, <2>3
    <3> QED
      BY <3>1, <3>2
  <2>5. Targets \subseteq Targets'
    BY <1>5 DEF JoinConfigure, JoinAsk, JoinListed, JoinLast, Targets
  <2>6. TargetsSound'
    BY <1>1, <2>4, <2>5, TargetsSame DEF OInv
  <2> QED
    BY <1>2, <2>2, <2>6 DEF OInv
<1> QED
  BY <1>3, <1>4, <1>5

LEMMA OccupantsLeaves ==
  ASSUME IInv, OInv, UserLeaves \/ LeaveBookmark \/ LeaveDelete
  PROVE  OInv'
<1> USE DEF room, stream, table, tasks, history
<1>0. "user" \in Starters /\ "boot" \in Starters /\ join \in [Starters -> Joins] /\ out \in Seq(Words)
      /\ inside \in BOOLEAN
  BY DEF Starters, IInv, Typed
<1>1. UNCHANGED Seen
  BY DEF Seen, UserLeaves, LeaveBookmark, LeaveDelete
<1>2. Queued' /\ ShownSound'
  BY <1>1, SeenSame DEF OInv
<1>3. CASE UserLeaves
  <2>1. out' = Append(out, "leave") /\ inside' = inside
    BY <1>3 DEF UserLeaves
  <2>2. ~Heading(out', inside') /\ out' # <<>>
    <3>1. Append(out, "leave") \in Seq(Words) /\ ~Heading(Append(out, "leave"), inside)
      BY <1>0, AppendHeads DEF Words
    <3>2. Len(Append(out, "leave")) = Len(out) + 1 /\ Len(out) \in Nat
      BY <1>0, AppendProperties DEF Words
    <3> QED
      BY <2>1, <3>1, <3>2, EmptySeq
  <2>3. ~crossed' => boot' = "off" /\ \A s \in Starters : join'[s].step = "off"
    BY <1>3 DEF UserLeaves, Joining
  <2> QED
    BY <1>2, <2>2, <2>3 DEF OInv, Parting, TargetsSound
<1>4. CASE LeaveBookmark
  <2>1. /\ leave # "off" /\ UNCHANGED <<inside, out, crossed, late, join, boot, nicks, jids>>
    BY <1>4 DEF LeaveBookmark
  <2>2. Parting'
    BY <2>1 DEF OInv, Parting
  <2>3. TargetsSound'
    BY <1>1, <2>1, TargetsSame DEF OInv, Targets
  <2> QED
    BY <1>2, <2>2, <2>3 DEF OInv
<1>5. CASE LeaveDelete
  <2>1. leave # "off" /\ leave' = "off" /\ UNCHANGED <<inside, out, crossed>>
    BY <1>5 DEF LeaveDelete
  <2>2. Parting'
    BY <2>1 DEF Parting
  <2>3. ~(inside /\ out = <<>> /\ ~crossed)'
    BY <1>0, <2>1 DEF OInv, Parting, Heading
  <2> QED
    BY <1>2, <2>2, <2>3 DEF OInv, TargetsSound
<1> QED
  BY <1>3, <1>4, <1>5

LEMMA OccupantsBoot ==
  ASSUME IInv, OInv, BootFetch \/ BootUpsert \/ BootList
  PROVE  OInv'
<1> USE DEF room, stream, table, tasks, history
<1>0. "user" \in Starters /\ "boot" \in Starters /\ join \in [Starters -> Joins]
  BY DEF Starters, IInv, Typed
<1>1. UNCHANGED Seen
  BY DEF Seen, BootFetch, BootUpsert, BootList
<1>2. Queued' /\ ShownSound'
  BY <1>1, SeenSame DEF OInv
<1>3. boot # "off" /\ UNCHANGED <<inside, out, crossed, late, leave, nicks, jids>>
  BY DEF BootFetch, BootUpsert, BootList
<1>4. Parting'
  BY <1>3 DEF OInv, Parting
<1>5. join'["user"] = join["user"]
  BY <1>0, JoinStep DEF BootFetch, BootUpsert, BootList
<1>6. TargetsSound'
  BY <1>1, <1>3, <1>5, TargetsSame DEF OInv, Targets
<1> QED
  BY <1>2, <1>4, <1>6 DEF OInv

-----------------------------------------------------------------------------
(* Steps of the room and of the session.                                     *)

LEMMA Speaks ==
  ASSUME Queued, ShownSound, TargetsSound, NEW v \in Seq(Persons \X BOOLEAN),
         wire' = wire \o v, UNCHANGED <<handlers, shown, overtaken, nicks, jids>>,
         \A p \in People : inside' /\ p \in present' =>
           /\ Only(v, p, TRUE)
           /\ (inside /\ p \in present) \/ About(v, p),
         \A p \in People : p \notin present' /\ p \notin missed' =>
           /\ Only(v, p, FALSE)
           /\ (p \notin present /\ p \notin missed) \/ About(v, p),
         present' \subseteq People,
         (inside /\ out = <<>> /\ ~crossed /\ ~late /\ join["user"].step # "send")' =>
           \A p \in present' :
             \/ About(v, p)
             \/ p \in present /\ inside /\ out = <<>> /\ ~crossed /\ ~late /\ join["user"].step # "send"
  PROVE  ShownSound' /\ TargetsSound'
<1> DEFINE q == Line(handlers, wire)
           r == Line(handlers, wire \o v)
<1>0. handlers \in Seq(Words3) /\ wire \in Seq(Persons \X BOOLEAN)
  BY DEF Queued
<1>1. Line(handlers, wire)' = r
  OBVIOUS
<1>2. ASSUME NEW p, NEW b, Only(v, p, b)
      PROVE  /\ \A d \in BOOLEAN : Follows(q, p, b, d) => Follows(r, p, b, d)
             /\ About(v, p) => Follows(r, p, b, FALSE)
  BY <1>0, <1>2, ToldOf
<1>3. ASSUME NEW p, Only(v, p, TRUE)
      PROVE  /\ \A d \in BOOLEAN : RowFollows(q, p, d) => RowFollows(r, p, d)
             /\ About(v, p) => RowFollows(r, p, FALSE)
  BY <1>0, <1>3, RowToldOf
<1>4. /\ \A p, b, d : Follows(r, p, b, FALSE) => Follows(r, p, b, d)
      /\ \A p, d : RowFollows(r, p, FALSE) => RowFollows(r, p, d)
  BY DEF Follows, RowFollows
<1> HIDE DEF r
<1>5. ShownSound'
  <2> SUFFICES ASSUME NEW p \in (People \ overtaken)'
               PROVE  /\ (inside /\ p \in present)' => Follows(r, p, TRUE, p \in shown')
                      /\ (p \notin present /\ p \notin missed)' => Follows(r, p, FALSE, p \notin shown')
    BY <1>1 DEF ShownSound
  <2>0. p \in People \ overtaken /\ shown' = shown /\ (p \in shown) \in BOOLEAN /\ (p \notin shown) \in BOOLEAN
    OBVIOUS
  <2>1. ASSUME inside', p \in present' PROVE Follows(r, p, TRUE, p \in shown)
    <3>1. Only(v, p, TRUE)
      BY <2>0, <2>1
    <3>2. CASE inside /\ p \in present
      <4> DEFINE d == p \in shown
      <4>1. Follows(q, p, TRUE, d)
        BY <2>0, <3>2 DEF ShownSound
      <4>2. d \in BOOLEAN
        OBVIOUS
      <4> HIDE DEF d, q
      <4>3. Follows(r, p, TRUE, d)
        BY <1>2, <3>1, <4>1, <4>2
      <4> QED
        BY <4>3 DEF d
    <3>3. CASE About(v, p)
      BY <1>2, <1>4, <3>1, <3>3
    <3> QED
      BY <2>0, <2>1, <3>2, <3>3
  <2>2. ASSUME p \notin present', p \notin missed' PROVE Follows(r, p, FALSE, p \notin shown)
    <3>1. Only(v, p, FALSE)
      BY <2>0, <2>2
    <3>2. CASE p \notin present /\ p \notin missed
      <4>1. Follows(q, p, FALSE, p \notin shown)
        BY <2>0, <3>2 DEF ShownSound
      <4> QED
        BY <1>2, <2>0, <3>1, <4>1
    <3>3. CASE About(v, p)
      BY <1>2, <1>4, <3>1, <3>3
    <3> QED
      BY <2>0, <2>2, <3>2, <3>3
  <2> QED
    BY <2>0, <2>1, <2>2
<1>6. TargetsSound'
  <2> SUFFICES ASSUME (inside /\ out = <<>> /\ ~crossed /\ ~late /\ join["user"].step # "send")',
                      NEW p \in (present \ overtaken)'
               PROVE  RowFollows(r, p, p \in Targets)
    BY <1>1 DEF TargetsSound, Targets
  <2>0. p \in People \ overtaken /\ p \in present' /\ inside' /\ (p \in Targets) \in BOOLEAN
    OBVIOUS
  <2>1. Only(v, p, TRUE)
    BY <2>0
  <2>2. CASE About(v, p)
    BY <1>3, <1>4, <2>1, <2>2
  <2>3. CASE p \in present /\ inside /\ out = <<>> /\ ~crossed /\ ~late /\ join["user"].step # "send"
    <3> DEFINE d == p \in Targets
    <3>1. RowFollows(q, p, d)
      BY <2>0, <2>3 DEF TargetsSound
    <3>2. d \in BOOLEAN
      OBVIOUS
    <3> HIDE DEF d, q
    <3>3. RowFollows(r, p, d)
      BY <1>3, <2>1, <3>1, <3>2
    <3> QED
      BY <3>3 DEF d
  <2> QED
    BY <2>0, <2>2, <2>3
<1> QED
  BY <1>5, <1>6

(* Nobody tells us anything while we are not there. *)
LEMMA Unheard ==
  ASSUME ShownSound, ~inside', UNCHANGED <<handlers, wire, shown, overtaken>>,
         \A p \in People : p \notin present' /\ p \notin missed' => p \notin present /\ p \notin missed
  PROVE  ShownSound' /\ TargetsSound'
BY DEF ShownSound, TargetsSound

LEMMA OneWord ==
  ASSUME NEW p \in Persons, NEW b \in BOOLEAN
  PROVE  /\ <<<<p, b>>>> \in Seq(Persons \X BOOLEAN) /\ Len(<<<<p, b>>>>) = 1
         /\ <<<<p, b>>>>[1][1] = p /\ <<<<p, b>>>>[1][2] = b
         /\ \A w \in Seq(Persons \X BOOLEAN) : Append(w, <<p, b>>) = w \o <<<<p, b>>>>
<1>1. <<p, b>> \in Persons \X BOOLEAN
  OBVIOUS
<1>2. \A w \in Seq(Persons \X BOOLEAN) : Append(w, <<p, b>>) = w \o <<<<p, b>>>>
  BY <1>1, AppendIsConcat
<1>3. \A e \in Persons \X BOOLEAN : <<e>> \in Seq(Persons \X BOOLEAN) /\ Len(<<e>>) = 1 /\ <<e>>[1] = e
  OBVIOUS
<1>4. /\ <<<<p, b>>>> \in Seq(Persons \X BOOLEAN) /\ Len(<<<<p, b>>>>) = 1
      /\ <<<<p, b>>>>[1] = <<p, b>>
  BY <1>1, <1>3
<1>5. <<<<p, b>>>>[1][1] = p /\ <<<<p, b>>>>[1][2] = b
  BY <1>4
<1> QED
  BY <1>2, <1>4, <1>5

LEMMA OccupantsPeople ==
  ASSUME IInv, OInv, NEW p \in People, Enters(p) \/ Leaves(p) \/ Changes(p), member \subseteq People
  PROVE  OInv'
<1> USE DEF room, stream, table, tasks, history
<1>0. Queued /\ ShownSound /\ Parting /\ TargetsSound /\ p \in Persons
      /\ wire \in Seq(Persons \X BOOLEAN) /\ inside \in BOOLEAN
  BY DEF OInv, Queued, Persons, IInv, Typed
<1>1. UNCHANGED <<inside, out, handlers, shown, overtaken, nicks, jids, crossed, late, join, leave, boot>>
  BY DEF Enters, Leaves, Changes
<1>2. Parting'
  BY <1>0, <1>1 DEF Parting
<1>3. CASE Changes(p)
  <2>1. UNCHANGED Seen
    BY <1>3 DEF Changes, Seen
  <2> QED
    BY <1>0, <1>1, <1>2, <2>1, SeenSame, TargetsSame DEF OInv, Targets
<1>4. CASE Enters(p)
  <2>1. present' = present \cup {p} /\ missed' = missed /\ present' \subseteq People
    BY <1>0, <1>4 DEF Enters, Queued
  <2>2. CASE ~inside
    <3>1. wire' = wire
      BY <1>4, <2>2 DEF Enters, Tell
    <3> QED
      BY <1>0, <1>1, <1>2, <2>1, <2>2, <3>1, Unheard DEF OInv, Queued
  <2>3. CASE inside
    <3> DEFINE v == <<<<p, TRUE>>>>
    <3>1. wire' = wire \o v
      BY <1>0, <1>4, <2>3, OneWord DEF Enters, Tell
    <3>2. v \in Seq(Persons \X BOOLEAN) /\ Len(v) = 1 /\ v[1][1] = p /\ v[1][2] = TRUE
      BY <1>0, OneWord
    <3> HIDE DEF v
    <3>20. 1..Len(v) = {1}
      BY <3>2
    <3>3. wire' \in Seq(Persons \X BOOLEAN)
      BY <1>0, <3>1, <3>2, ConcatProperties
    <3>4. \A x \in People : inside' /\ x \in present' =>
           /\ Only(v, x, TRUE)
           /\ (inside /\ x \in present) \/ About(v, x)
      BY <2>1, <2>3, <3>2, <3>20 DEF Only, About
    <3>5. \A x \in People : x \notin present' /\ x \notin missed' =>
           /\ Only(v, x, FALSE)
           /\ (x \notin present /\ x \notin missed) \/ About(v, x)
      BY <2>1, <3>2, <3>20 DEF Only, About
    <3>6. (inside /\ out = <<>> /\ ~crossed /\ ~late /\ join["user"].step # "send")' =>
           \A x \in present' :
             \/ About(v, x)
             \/ x \in present /\ inside /\ out = <<>> /\ ~crossed /\ ~late /\ join["user"].step # "send"
      BY <1>1, <2>1, <3>2, <3>20 DEF Only, About
    <3>7. ShownSound' /\ TargetsSound'
      BY <1>0, <1>1, <2>1, <3>1, <3>2, <3>4, <3>5, <3>6, Speaks
    <3> QED
      BY <1>0, <1>1, <1>2, <2>1, <3>3, <3>7 DEF OInv, Queued
  <2> QED
    BY <1>0, <2>2, <2>3
<1>5. CASE Leaves(p)
  <2>1. present' = present \ {p} /\ present' \subseteq People
    BY <1>0, <1>5 DEF Leaves, Queued
  <2>2. CASE ~inside
    <3>1. wire' = wire /\ missed' = missed \cup {p}
      BY <1>5, <2>2 DEF Leaves, Tell
    <3> QED
      BY <1>0, <1>1, <1>2, <2>1, <2>2, <3>1, Unheard DEF OInv, Queued
  <2>3. CASE inside
    <3> DEFINE v == <<<<p, FALSE>>>>
    <3>1. wire' = wire \o v /\ missed' = missed
      BY <1>0, <1>5, <2>3, OneWord DEF Leaves, Tell
    <3>2. v \in Seq(Persons \X BOOLEAN) /\ Len(v) = 1 /\ v[1][1] = p /\ v[1][2] = FALSE
      BY <1>0, OneWord
    <3> HIDE DEF v
    <3>20. 1..Len(v) = {1}
      BY <3>2
    <3>3. wire' \in Seq(Persons \X BOOLEAN)
      BY <1>0, <3>1, <3>2, ConcatProperties
    <3>4. \A x \in People : inside' /\ x \in present' =>
           /\ Only(v, x, TRUE)
           /\ (inside /\ x \in present) \/ About(v, x)
      BY <2>1, <2>3, <3>2, <3>20 DEF Only, About
    <3>5. \A x \in People : x \notin present' /\ x \notin missed' =>
           /\ Only(v, x, FALSE)
           /\ (x \notin present /\ x \notin missed) \/ About(v, x)
      BY <2>1, <3>1, <3>2, <3>20 DEF Only, About
    <3>6. (inside /\ out = <<>> /\ ~crossed /\ ~late /\ join["user"].step # "send")' =>
           \A x \in present' :
             \/ About(v, x)
             \/ x \in present /\ inside /\ out = <<>> /\ ~crossed /\ ~late /\ join["user"].step # "send"
      BY <1>1, <2>1, <3>2, <3>20 DEF Only, About
    <3>7. ShownSound' /\ TargetsSound'
      BY <1>0, <1>1, <2>1, <3>1, <3>2, <3>4, <3>5, <3>6, Speaks
    <3> QED
      BY <1>0, <1>1, <1>2, <2>1, <3>3, <3>7 DEF OInv, Queued
  <2> QED
    BY <1>0, <2>2, <2>3
<1> QED
  BY <1>3, <1>4, <1>5

(* The answer to a join names every occupant, as there, and then us. *)
LEMMA JoinAnswer ==
  ASSUME NEW S \in SUBSET People
  PROVE  LET v == SetToSeq({<<p, TRUE>> : p \in S}) \o <<<<Me, TRUE>>>>
         IN  /\ v \in Seq(Persons \X BOOLEAN)
             /\ \A p \in People : Only(v, p, TRUE) /\ (p \notin S => Only(v, p, FALSE))
             /\ \A p \in S : About(v, p)
<1> DEFINE T == {<<p, TRUE>> : p \in S}
           t == SetToSeq(T)
           e == <<<<Me, TRUE>>>>
           v == t \o e
<1>1. Me \notin People /\ IsFiniteSet(S)
  BY RoomsAssumption, FS_Subset
<1>2. t \in Seq(T) /\ \A p \in S : \E i \in 1..Len(t) : t[i] = <<p, TRUE>>
  BY <1>1, AllTold
<1>3. T \subseteq Persons \X BOOLEAN /\ \A z \in T : z[1] \in S /\ z[2] = TRUE
  <2> SUFFICES ASSUME NEW p \in S
               PROVE  <<p, TRUE>> \in Persons \X BOOLEAN /\ <<p, TRUE>>[1] \in S /\ <<p, TRUE>>[2] = TRUE
    OBVIOUS
  <2>1. p \in Persons /\ TRUE \in BOOLEAN
    BY DEF Persons
  <2> QED
    BY <2>1
<1> HIDE DEF T, t
<1>4. t \in Seq(Persons \X BOOLEAN) /\ Len(t) \in Nat /\ \A i \in 1..Len(t) : t[i] \in T
  BY <1>2, <1>3
<1>5. e \in Seq(Persons \X BOOLEAN) /\ Len(e) = 1 /\ e[1][1] = Me /\ e[1][2] = TRUE
  BY OneWord DEF Persons
<1> HIDE DEF e
<1>6. /\ v \in Seq(Persons \X BOOLEAN) /\ Len(v) = Len(t) + 1
      /\ \A i \in 1..Len(t) + 1 : v[i] = IF i <= Len(t) THEN t[i] ELSE e[i - Len(t)]
  BY <1>4, <1>5, ConcatProperties
<1> HIDE DEF v
<1>7. ASSUME NEW k \in 1..Len(v) PROVE v[k][2] = TRUE /\ (v[k][1] = Me \/ v[k][1] \in S)
  <2>1. CASE k <= Len(t)
    <3>1. k \in 1..Len(t) /\ v[k] = t[k]
      BY <1>4, <1>6, <2>1
    <3> QED
      BY <1>3, <1>4, <3>1
  <2>2. CASE ~(k <= Len(t))
    <3>1. k - Len(t) = 1 /\ v[k] = e[k - Len(t)]
      BY <1>4, <1>6, <2>2
    <3> QED
      BY <1>5, <3>1
  <2> QED
    BY <2>1, <2>2
<1>8. ASSUME NEW p \in S PROVE About(v, p)
  <2>1. PICK i \in 1..Len(t) : t[i] = <<p, TRUE>>
    BY <1>2
  <2>2. i \in 1..Len(v) /\ v[i] = t[i]
    BY <1>4, <1>6
  <2>3. v[i][1] = p
    BY <2>1, <2>2
  <2> QED
    BY <2>2, <2>3 DEF About
<1>9. \A p \in People : Only(v, p, TRUE)
  BY <1>7 DEF Only
<1>10. ASSUME NEW p \in People, p \notin S PROVE Only(v, p, FALSE)
  BY <1>1, <1>7, <1>10 DEF Only
<1> QED
  BY <1>6, <1>8, <1>9, <1>10 DEF v, t, e, T

LEMMA OccupantsTaken ==
  ASSUME IInv, OInv, RoomTakes
  PROVE  OInv'
<1> USE DEF room, stream, table, tasks, history
<1>0. /\ Queued /\ ShownSound /\ Parting /\ TargetsSound /\ present \subseteq People
      /\ wire \in Seq(Persons \X BOOLEAN) /\ out \in Seq(Words) /\ inside \in BOOLEAN
  BY DEF OInv, Queued, IInv, Typed
<1>1. /\ UNCHANGED <<present, handlers, shown, overtaken, missed, nicks, jids, crossed, late, join, leave, boot>>
      /\ out # <<>> /\ out' = Tail(out) /\ inside' = (Head(out) = "join")
  BY DEF RoomTakes
<1>2. Parting'
  <2>1. Heading(out', inside') <=> Heading(out, inside)
    BY <1>0, <1>1, TailHeads
  <2> QED
    BY <1>0, <1>1, <2>1 DEF Parting
<1>3. ASSUME NEW v \in Seq(Persons \X BOOLEAN), wire' = wire \o v,
             \A p \in People : p \notin present => Only(v, p, FALSE),
             inside' => \A p \in People : Only(v, p, TRUE) /\ (p \in present => About(v, p))
      PROVE  OInv'
  <2>1. \A p \in People : inside' /\ p \in present' =>
          Only(v, p, TRUE) /\ ((inside /\ p \in present) \/ About(v, p))
    BY <1>1, <1>3
  <2>2. \A p \in People : p \notin present' /\ p \notin missed' =>
          Only(v, p, FALSE) /\ ((p \notin present /\ p \notin missed) \/ About(v, p))
    BY <1>1, <1>3
  <2>3. (inside /\ out = <<>> /\ ~crossed /\ ~late /\ join["user"].step # "send")' =>
           \A p \in present' :
             \/ About(v, p)
             \/ p \in present /\ inside /\ out = <<>> /\ ~crossed /\ ~late /\ join["user"].step # "send"
    BY <1>0, <1>1, <1>3
  <2>4. ShownSound' /\ TargetsSound'
    BY <1>0, <1>1, <1>3, <2>1, <2>2, <2>3, Speaks
  <2>5. wire' \in Seq(Persons \X BOOLEAN)
    BY <1>0, <1>3, ConcatProperties
  <2> QED
    BY <1>0, <1>1, <1>2, <2>4, <2>5 DEF OInv, Queued
<1>4. CASE Head(out) = "join"
  <2> DEFINE v == SetToSeq({<<p, TRUE>> : p \in present}) \o <<<<Me, TRUE>>>>
  <2>1. wire' = wire \o v
    BY <1>4 DEF RoomTakes
  <2>2. /\ v \in Seq(Persons \X BOOLEAN)
        /\ \A p \in People : Only(v, p, TRUE) /\ (p \notin present => Only(v, p, FALSE))
        /\ \A p \in present : About(v, p)
    BY <1>0, JoinAnswer
  <2> HIDE DEF v
  <2> QED
    BY <1>3, <2>1, <2>2
<1>5. CASE Head(out) # "join" /\ inside
  <2> DEFINE v == <<<<Me, FALSE>>>>
  <2>1. wire' = wire \o v
    BY <1>5 DEF RoomTakes
  <2>2. v \in Seq(Persons \X BOOLEAN) /\ Len(v) = 1 /\ v[1][1] = Me
    BY OneWord DEF Persons
  <2> HIDE DEF v
  <2>3. 1..Len(v) = {1}
    BY <2>2
  <2>4. \A p \in People : Only(v, p, FALSE)
    BY <2>2, <2>3, RoomsAssumption DEF Only
  <2> QED
    BY <1>1, <1>3, <1>5, <2>1, <2>2, <2>4
<1>6. CASE Head(out) # "join" /\ ~inside
  <2>1. wire' = wire \o <<>> /\ <<>> \in Seq(Persons \X BOOLEAN) /\ Len(<<>>) = 0
    BY <1>6, EmptySeq DEF RoomTakes
  <2>2. \A p \in People : Only(<<>>, p, FALSE)
    BY <2>1 DEF Only
  <2> QED
    BY <1>1, <1>3, <1>6, <2>1, <2>2
<1> QED
  BY <1>4, <1>5, <1>6

LEMMA OccupantsSession ==
  ASSUME IInv, OInv,
         \/ SessionDown \/ SessionUp
         \/ \E b \in {"none", "plain", "auto"} : OtherDevice(b)
  PROVE  OInv'
<1> USE DEF room, stream, table, tasks, history
<1>0. Queued /\ ShownSound /\ Parting /\ TargetsSound
  BY DEF OInv
<1>1. CASE SessionUp
  <2>1. /\ UNCHANGED Seen
        /\ UNCHANGED <<inside, out, late, join, leave, nicks, jids>>
        /\ (leave # "off" => crossed') /\ (crossed => crossed')
    BY <1>1 DEF SessionUp, Seen
  <2>2. Parting'
    BY <2>1 DEF Parting
  <2> QED
    BY <1>0, <2>1, <2>2, SeenSame, TargetsSame DEF OInv, Targets
<1>2. ASSUME NEW b \in {"none", "plain", "auto"}, OtherDevice(b)
      PROVE  OInv'
  <2>1. /\ UNCHANGED Seen
        /\ UNCHANGED <<inside, out, crossed, late, join, leave, boot, nicks, jids>>
    BY <1>2 DEF OtherDevice, Seen
  <2>2. Parting'
    BY <1>0, <2>1 DEF Parting
  <2> QED
    BY <1>0, <2>1, <2>2, SeenSame, TargetsSame DEF OInv, Targets
<1>3. CASE SessionDown
  <2>0. handlers \in Seq(Words3) /\ wire \in Seq(Persons \X BOOLEAN)
    BY <1>0 DEF Queued
  <2>1. /\ inside' = FALSE /\ wire' = <<>>
        /\ missed' = missed \cup {p \in People : Contains(wire, <<p, FALSE>>)}
        /\ UNCHANGED <<present, handlers, shown, overtaken, out, crossed, join, leave, boot>>
    BY <1>3 DEF SessionDown
  <2>2. Parting'
    BY <1>0, <2>1 DEF Parting, Heading
  <2>3. Queued'
    BY <1>0, <2>1, EmptyLine DEF Queued
  <2>4. ASSUME NEW p \in People \ overtaken, p \notin present, p \notin missed'
        PROVE  Follows(Line(handlers, <<>>), p, FALSE, p \notin shown)
    <3> DEFINE d == p \notin shown
    <3>1. \A i \in 1..Len(wire) : ~(wire[i][1] = p /\ wire[i][2] = FALSE)
      <4> SUFFICES ASSUME NEW i \in 1..Len(wire), wire[i][1] = p, wire[i][2] = FALSE PROVE FALSE
        OBVIOUS
      <4>0. wire[i] \in Persons \X BOOLEAN
        BY <2>0
      <4>1. PICK x \in Persons, y \in BOOLEAN : wire[i] = <<x, y>>
        BY <4>0
      <4>10. x = p /\ (y <=> FALSE)
        BY <4>1
      <4>2. wire[i] = <<p, FALSE>>
        BY <4>1, <4>10
      <4> QED
        BY <2>1, <2>4, <4>2 DEF Contains
    <3>2. d \in BOOLEAN
      OBVIOUS
    <3>3. Follows(Line(handlers, wire), p, FALSE, d)
      BY <1>0, <2>1, <2>4 DEF ShownSound
    <3> HIDE DEF d
    <3>4. Follows(Line(handlers, <<>>), p, FALSE, d)
      BY <2>0, <3>1, <3>2, <3>3, LineLost
    <3> QED
      BY <3>4 DEF d
  <2>5. ShownSound'
    BY <2>1, <2>4 DEF ShownSound
  <2>6. TargetsSound'
    BY <2>1 DEF TargetsSound
  <2> QED
    BY <2>2, <2>3, <2>5, <2>6 DEF OInv
<1> QED
  BY <1>1, <1>2, <1>3

-----------------------------------------------------------------------------
(* Steps of the tasks that handle presence.                                  *)

Wordwise(q, r) == Len(r) = Len(q) /\ \A i \in 1..Len(q) : r[i][1] = q[i][1] /\ r[i][2] = q[i][2]

LEMMA ShownMoves ==
  ASSUME ShownSound, UNCHANGED <<present, shown, inside, missed>>, overtaken \subseteq overtaken',
         Wordwise(Line(handlers, wire), Line(handlers', wire'))
  PROVE  ShownSound'
<1> SUFFICES ASSUME NEW p \in (People \ overtaken)'
             PROVE  /\ inside /\ p \in present => Follows(Line(handlers', wire'), p, TRUE, p \in shown)
                    /\ p \notin present /\ p \notin missed =>
                         Follows(Line(handlers', wire'), p, FALSE, p \notin shown)
  BY DEF ShownSound
<1>1. /\ inside /\ p \in present => Follows(Line(handlers, wire), p, TRUE, p \in shown)
      /\ p \notin present /\ p \notin missed => Follows(Line(handlers, wire), p, FALSE, p \notin shown)
  BY DEF ShownSound
<1> DEFINE q == Line(handlers, wire)
           r == Line(handlers', wire')
<1>2. Wordwise(q, r)
  OBVIOUS
<1> HIDE DEF q, r
<1>3. ASSUME NEW b, NEW d \in BOOLEAN, Follows(q, p, b, d) PROVE Follows(r, p, b, d)
  BY <1>2, <1>3, SameWords DEF Wordwise
<1>4. ASSUME Follows(q, p, TRUE, p \in shown) PROVE Follows(r, p, TRUE, p \in shown)
  <2> DEFINE d == p \in shown
  <2>1. d \in BOOLEAN
    OBVIOUS
  <2>2. Follows(q, p, TRUE, d)
    BY <1>4
  <2> HIDE DEF d
  <2>3. Follows(r, p, TRUE, d)
    BY <1>3, <2>1, <2>2
  <2> QED
    BY <2>3 DEF d
<1>5. ASSUME Follows(q, p, FALSE, p \notin shown) PROVE Follows(r, p, FALSE, p \notin shown)
  <2> DEFINE d == p \notin shown
  <2>1. d \in BOOLEAN /\ Follows(q, p, FALSE, d)
    BY <1>5
  <2> HIDE DEF d
  <2>2. Follows(r, p, FALSE, d)
    BY <1>3, <2>1
  <2> QED
    BY <2>2 DEF d
<1> QED
  BY <1>1, <1>4, <1>5 DEF q, r

LEMMA TargetsMove ==
  ASSUME TargetsSound, UNCHANGED <<present, inside, out, overtaken, crossed, late, join, nicks, jids>>,
         Len(Line(handlers', wire')) = Len(Line(handlers, wire)),
         \A p \in People, i \in 1..Len(Line(handlers, wire)), b \in BOOLEAN :
           RowOf(Line(handlers', wire'), i, p, b) <=> RowOf(Line(handlers, wire), i, p, b),
         present \subseteq People
  PROVE  TargetsSound'
<1> SUFFICES ASSUME inside /\ out = <<>> /\ ~crossed /\ ~late /\ join["user"].step # "send",
                    NEW p \in present \ overtaken
             PROVE  RowFollows(Line(handlers', wire'), p, p \in Targets)
  BY DEF TargetsSound, Targets
<1> DEFINE q == Line(handlers, wire)
           r == Line(handlers', wire')
           d == p \in Targets
<1>1. RowFollows(q, p, d) /\ d \in BOOLEAN
  BY DEF TargetsSound
<1>2. Len(r) = Len(q) /\ \A i \in 1..Len(q), b \in BOOLEAN : RowOf(r, i, p, b) <=> RowOf(q, i, p, b)
  OBVIOUS
<1> HIDE DEF q, r, d
<1>3. RowFollows(r, p, d)
  BY <1>1, <1>2, SameRows
<1> QED
  BY <1>3 DEF r, d

LEMMA Triple ==
  ASSUME NEW x \in Persons, NEW y \in BOOLEAN, NEW s \in {"photo", "row", "show"}
  PROVE  Append(<<x, y>>, s) = <<x, y, s>> /\ <<x, y, s>> \in Words3
<1>1. <<x, y, s>> \in Words3
  BY DEF Words3
<1>2. ASSUME NEW S, NEW a \in S, NEW b \in S, NEW c \in S PROVE Append(<<a, b>>, c) = <<a, b, c>>
  <2>1. <<a, b>> \in Seq(S) /\ Len(<<a, b>>) = 2 /\ <<a, b>>[1] = a /\ <<a, b>>[2] = b
    OBVIOUS
  <2>2. /\ Append(<<a, b>>, c) \in Seq(S) /\ Len(Append(<<a, b>>, c)) = 3
        /\ Append(<<a, b>>, c)[1] = a /\ Append(<<a, b>>, c)[2] = b /\ Append(<<a, b>>, c)[3] = c
    BY <2>1, AppendProperties
  <2>3. /\ <<a, b, c>> \in Seq(S) /\ Len(<<a, b, c>>) = 3
        /\ <<a, b, c>>[1] = a /\ <<a, b, c>>[2] = b /\ <<a, b, c>>[3] = c
    OBVIOUS
  <2>4. \A j \in 1..3 : Append(<<a, b>>, c)[j] = <<a, b, c>>[j]
    <3>1. \A j \in 1..3 : j = 1 \/ j = 2 \/ j = 3
      OBVIOUS
    <3> QED
      BY <2>2, <2>3, <3>1
  <2> QED
    BY <2>2, <2>3, <2>4, SeqEqual
<1>3. Append(<<x, y>>, s) = <<x, y, s>>
  <2> DEFINE S == {x, y, s}
  <2>1. x \in S /\ y \in S /\ s \in S
    OBVIOUS
  <2> HIDE DEF S
  <2> QED
    BY <1>2, <2>1
<1> QED
  BY <1>1, <1>3

LEMMA OccupantsDeliver ==
  ASSUME IInv, OInv, Deliver
  PROVE  OInv'
<1> USE DEF room, stream, table, tasks, history
<1>0. /\ Queued /\ ShownSound /\ Parting /\ TargetsSound /\ present \subseteq People
      /\ handlers \in Seq(Words3) /\ wire \in Seq(Persons \X BOOLEAN) /\ wire # <<>>
  BY DEF OInv, Queued, Deliver
<1>1. UNCHANGED <<present, shown, inside, missed, overtaken, out, crossed, late, join, nicks, jids, leave, boot>>
  BY DEF Deliver
<1>2. PICK s \in {"photo", "row"} : handlers' = Append(handlers, Append(Head(wire), s))
  BY DEF Deliver
<1>3. wire' = Tail(wire)
  BY DEF Deliver
<1>4. Head(wire) = wire[1] /\ wire[1] \in Persons \X BOOLEAN
  <2>1. Len(wire) \in Nat /\ Len(wire) # 0
    BY <1>0, EmptySeq
  <2> QED
    BY <1>0, <2>1, HeadTailProperties
<1>5. PICK x \in Persons, y \in BOOLEAN : wire[1] = <<x, y>>
  BY <1>4
<1> DEFINE z == <<x, y, s>>
           q == Line(handlers, wire)
           r == Line(handlers', wire')
           k == Len(handlers) + 1
<1>6. handlers' = Append(handlers, z)
  <2>1. Append(<<x, y>>, s) = z
    BY Triple
  <2> QED
    BY <1>2, <1>4, <1>5, <2>1
<1>7. /\ handlers' \in Seq(Words3) /\ wire' \in Seq(Persons \X BOOLEAN)
      /\ Taken(q, r, handlers, wire, z)
      /\ z = <<wire[1][1], wire[1][2], s>>
  <2> HIDE DEF q, r
  <2>1. z \in Words3 /\ z[1] = x /\ z[2] = y /\ wire[1][1] = x /\ wire[1][2] = y
    <3>1. <<x, y, s>> \in Words3
      BY Triple
    <3>2. <<x, y, s>>[1] = x /\ <<x, y, s>>[2] = y /\ <<x, y>>[1] = x /\ <<x, y>>[2] = y
      OBVIOUS
    <3> QED
      BY <1>5, <3>1, <3>2
  <2>2. z = <<wire[1][1], wire[1][2], s>>
    BY <2>1
  <2> HIDE DEF z
  <2>3. /\ Append(handlers, z) \in Seq(Words3) /\ Tail(wire) \in Seq(Persons \X BOOLEAN)
        /\ Taken(Line(handlers, wire), Line(Append(handlers, z), Tail(wire)), handlers, wire, z)
    BY <1>0, <2>1, LineTaken
  <2> QED
    BY <1>3, <1>6, <2>2, <2>3 DEF q, r
<1> HIDE DEF q, r, k, z
<1>70. /\ Replaced(q, r, k)
       /\ q[k] = <<wire[1][1], wire[1][2], "wire">> /\ r[k] = <<wire[1][1], wire[1][2], s>>
  BY <1>7 DEF Taken, k
<1>8. Len(r) = Len(q) /\ \A j \in 1..Len(q) : j # k => r[j] = q[j]
  BY <1>70 DEF Replaced
<1>9. Wordwise(q, r)
  <2>1. ASSUME NEW j \in 1..Len(q) PROVE r[j][1] = q[j][1] /\ r[j][2] = q[j][2]
    <3>1. CASE j = k
      BY <1>70, <3>1
    <3>2. CASE j # k
      BY <1>8, <3>2
    <3> QED
      BY <3>1, <3>2
  <2> QED
    BY <1>8, <2>1 DEF Wordwise
<1>10. ASSUME NEW p \in People, NEW j \in 1..Len(q), NEW b \in BOOLEAN
       PROVE  RowOf(r, j, p, b) <=> RowOf(q, j, p, b)
  <2>1. CASE j = k
    <3>1. q[k][3] # "show" /\ r[k][3] # "show" /\ r[k][1] = q[k][1] /\ r[k][2] = q[k][2]
      BY <1>70
    <3> QED
      BY <2>1, <3>1 DEF RowOf
  <2>2. CASE j # k
    BY <1>8, <2>2 DEF RowOf
  <2> QED
    BY <2>1, <2>2
<1>11. ShownSound'
  BY <1>0, <1>1, <1>9, ShownMoves DEF q, r
<1>12. TargetsSound'
  BY <1>0, <1>1, <1>8, <1>10, TargetsMove DEF q, r
<1>13. Parting'
  BY <1>0, <1>1 DEF Parting
<1> QED
  BY <1>0, <1>1, <1>7, <1>11, <1>12, <1>13 DEF OInv, Queued

LEMMA Change ==
  ASSUME NEW S, NEW s \in Seq(S), NEW i \in 1..Len(s), NEW e \in S
  PROVE  /\ [s EXCEPT ![i] = e] \in Seq(S) /\ Len([s EXCEPT ![i] = e]) = Len(s)
         /\ [s EXCEPT ![i] = e][i] = e
         /\ \A j \in 1..Len(s) : j # i => [s EXCEPT ![i] = e][j] = s[j]
OBVIOUS

(* A task takes its next step: the words of the line stay. *)
LEMMA StepsOn ==
  ASSUME Queued, NEW i \in DOMAIN handlers, NEW s \in {"row", "show"},
         handlers' = [handlers EXCEPT ![i][3] = s], wire' = wire
  PROVE  /\ handlers' \in Seq(Words3) /\ i \in 1..Len(handlers)
         /\ Replaced(Line(handlers, wire), Line(handlers', wire'), i)
         /\ Line(handlers, wire)[i] = handlers[i]
         /\ Line(handlers', wire')[i] = <<handlers[i][1], handlers[i][2], s>>
         /\ \A j \in 1..i : Line(handlers, wire)[j] = handlers[j] /\ j \in 1..Len(handlers)
<1>1. handlers \in Seq(Words3) /\ wire \in Seq(Persons \X BOOLEAN) /\ i \in 1..Len(handlers)
  BY DEF Queued
<1>2. PICK x \in Persons, y \in BOOLEAN, z \in {"photo", "row", "show"} : handlers[i] = <<x, y, z>>
  BY <1>1 DEF Words3
<1>3. [handlers[i] EXCEPT ![3] = s] = <<x, y, s>> /\ <<x, y, s>> \in Words3
  BY <1>2 DEF Words3
<1>4. handlers' = [handlers EXCEPT ![i] = <<x, y, s>>]
  BY <1>3
<1>5. /\ handlers' \in Seq(Words3) /\ Len(handlers') = Len(handlers) /\ handlers'[i] = <<x, y, s>>
      /\ \A j \in 1..Len(handlers) : j # i => handlers'[j] = handlers[j]
  <2> DEFINE t == <<x, y, s>>
  <2>1. t \in Words3 /\ handlers' = [handlers EXCEPT ![i] = t]
    BY <1>3, <1>4
  <2> HIDE DEF t
  <2>2. PICK g : g = [handlers EXCEPT ![i] = t]
    OBVIOUS
  <2>3. /\ g \in Seq(Words3) /\ Len(g) = Len(handlers) /\ g[i] = t
        /\ \A j \in 1..Len(handlers) : j # i => g[j] = handlers[j]
    BY <1>1, <2>1, <2>2, Change
  <2> QED
    BY <2>1, <2>2, <2>3 DEF t
<1>6. \A j \in 1..i : j \in 1..Len(handlers)
  BY <1>1
<1>7. PICK g \in Seq(Words3) : g = handlers' /\ Len(g) = Len(handlers)
                              /\ \A j \in 1..Len(handlers) : j # i => g[j] = handlers[j]
  BY <1>5
<1>80. ReplacedHere(Line(handlers, wire), Line(g, wire), handlers, g, i)
  BY <1>1, <1>7, LineStep
<1>8. /\ Replaced(Line(handlers, wire), Line(g, wire), i)
      /\ Line(handlers, wire)[i] = handlers[i] /\ Line(g, wire)[i] = g[i]
      /\ \A j \in 1..i : Line(handlers, wire)[j] = handlers[j]
  BY <1>80 DEF ReplacedHere
<1>9. handlers[i][1] = x /\ handlers[i][2] = y
  BY <1>2
<1> QED
  BY <1>1, <1>5, <1>6, <1>7, <1>8, <1>9

LEMMA OccupantsPhoto ==
  ASSUME IInv, OInv, NEW i \in DOMAIN handlers, Photo(i)
  PROVE  OInv'
<1> USE DEF room, stream, table, tasks, history
<1>0. Queued /\ ShownSound /\ Parting /\ TargetsSound /\ present \subseteq People
  BY DEF OInv, Queued
<1>1. /\ UNCHANGED <<present, shown, inside, missed, overtaken, out, crossed, late, join, nicks, jids, leave, boot>>
      /\ wire' = wire /\ handlers[i][3] = "photo" /\ handlers' = [handlers EXCEPT ![i][3] = "row"]
  BY DEF Photo
<1> DEFINE q == Line(handlers, wire)
           r == Line(handlers', wire')
<1>2. /\ handlers' \in Seq(Words3) /\ Replaced(q, r, i)
      /\ q[i] = handlers[i] /\ r[i] = <<handlers[i][1], handlers[i][2], "row">>
  BY <1>0, <1>1, StepsOn
<1> HIDE DEF q, r
<1>3. Len(r) = Len(q) /\ \A j \in 1..Len(q) : j # i => r[j] = q[j]
  BY <1>2 DEF Replaced
<1>4. r[i][1] = q[i][1] /\ r[i][2] = q[i][2] /\ r[i][3] = "row" /\ q[i][3] = "photo"
  BY <1>1, <1>2
<1>5. Wordwise(q, r)
  BY <1>3, <1>4 DEF Wordwise
<1>6. ASSUME NEW p \in People, NEW j \in 1..Len(q), NEW b \in BOOLEAN
      PROVE  RowOf(r, j, p, b) <=> RowOf(q, j, p, b)
  BY <1>3, <1>4 DEF RowOf
<1>7. ShownSound'
  BY <1>0, <1>1, <1>5, ShownMoves DEF q, r
<1>8. TargetsSound'
  BY <1>0, <1>1, <1>3, <1>6, TargetsMove DEF q, r
<1>9. Parting'
  BY <1>0, <1>1 DEF Parting
<1> QED
  BY <1>0, <1>1, <1>2, <1>7, <1>8, <1>9 DEF OInv, Queued

LEMMA OccupantsRow ==
  ASSUME IInv, OInv, NEW i \in DOMAIN handlers, RowStep(i)
  PROVE  OInv'
<1> USE DEF room, stream, table, tasks, history
<1>0. Queued /\ ShownSound /\ Parting /\ TargetsSound /\ present \subseteq People
  BY DEF OInv, Queued
<1>1. /\ UNCHANGED <<present, shown, inside, missed, out, crossed, join, jids, leave, boot>>
      /\ wire' = wire /\ handlers[i][3] = "row" /\ handlers' = [handlers EXCEPT ![i][3] = "show"]
      /\ (late => late') /\ overtaken \subseteq overtaken'
  BY DEF RowStep, Overtakes
<1> DEFINE q == Line(handlers, wire)
           r == Line(handlers', wire')
<1>2. /\ handlers' \in Seq(Words3) /\ Replaced(q, r, i) /\ i \in 1..Len(handlers)
      /\ q[i] = handlers[i] /\ r[i] = <<handlers[i][1], handlers[i][2], "show">>
      /\ \A j \in 1..i : q[j] = handlers[j] /\ j \in 1..Len(handlers)
  BY <1>0, <1>1, StepsOn
<1> HIDE DEF q, r
<1>3. /\ Len(q) \in Nat /\ i \in 1..Len(q)
      /\ Len(r) = Len(q) /\ \A j \in 1..Len(q) : j # i => r[j] = q[j]
  BY <1>2 DEF Replaced
<1>4. r[i][1] = q[i][1] /\ r[i][2] = q[i][2] /\ r[i][3] = "show" /\ q[i][3] = "row"
  BY <1>1, <1>2
<1>5. Wordwise(q, r)
  BY <1>3, <1>4 DEF Wordwise
<1>6. ShownSound'
  BY <1>0, <1>1, <1>5, ShownMoves DEF q, r
<1>7. Parting'
  BY <1>0, <1>1 DEF Parting
<1>8. \A p, b : \A j \in 1..Len(q) : j # i => (RowOf(r, j, p, b) <=> RowOf(q, j, p, b))
  BY <1>3 DEF RowOf
<1>9. TargetsSound'
  <2> SUFFICES ASSUME (inside /\ out = <<>> /\ ~crossed /\ ~late /\ join["user"].step # "send")',
                      NEW p \in People, p \in present, p \notin overtaken'
               PROVE  RowFollows(r, p, p \in (nicks' \cup jids))
    BY <1>0, <1>1 DEF TargetsSound, Targets, r
  <2> DEFINE d == p \in Targets
             e == p \in (nicks' \cup jids)
  <2>1. RowFollows(q, p, d)
    BY <1>0, <1>1 DEF TargetsSound, q
  <2>2. d \in BOOLEAN /\ e \in BOOLEAN
    OBVIOUS
  <2>3. CASE handlers[i][1] # p
    <3>1. e <=> d
      BY <2>3 DEF RowStep, Targets
    <3>2. \A b : ~RowOf(r, i, p, b) /\ ~RowOf(q, i, p, b)
      BY <1>2, <1>4, <2>3 DEF RowOf
    <3> HIDE DEF d, e
    <3>3. \A j \in 1..Len(q), b \in BOOLEAN : RowOf(r, j, p, b) <=> RowOf(q, j, p, b)
      BY <1>8, <3>2
    <3>4. RowFollows(r, p, d)
      BY <1>3, <2>1, <2>2, <3>3, SameRows
    <3> QED
      BY <2>2, <3>1, <3>4 DEF e
  <2>4. CASE handlers[i][1] = p
    <3>1. p # Me /\ ~Earlier(i, {"photo", "row"})
      BY <1>0, <2>4, RoomsAssumption DEF RowStep, Overtakes
    <3>2. handlers[i] \in Words3
      BY <1>0, <1>2 DEF Queued
    <3>3. PICK c \in BOOLEAN : handlers[i][2] = c
      BY <3>2 DEF Words3
    <3>4. c = TRUE => e
      BY <2>4, <3>1, <3>3 DEF RowStep
    <3>5. RowOf(q, i, p, c) /\ \A b \in BOOLEAN : ~RowOf(r, i, p, b)
      BY <1>2, <1>4, <2>4, <3>3 DEF RowOf
    <3>6. ASSUME NEW j \in 1..Len(q), NEW b \in BOOLEAN, RowOf(q, j, p, b) PROVE j >= i
      <4>1. SUFFICES ASSUME ~(j >= i) PROVE FALSE
        OBVIOUS
      <4>2. j \in 1..i /\ j \in 1..i - 1
        BY <1>3, <4>1
      <4>3. q[j] = handlers[j] /\ handlers[j] \in Words3
        BY <1>0, <1>2, <4>2 DEF Queued
      <4>4. handlers[j][1] = p /\ handlers[j][3] \in {"photo", "row"}
        BY <3>6, <4>3 DEF RowOf, Words3
      <4> QED
        BY <2>4, <3>1, <4>2, <4>4 DEF Earlier
    <3> HIDE DEF d, e
    <3>7. RowFollows(r, p, c)
      BY <1>3, <1>8, <2>1, <2>2, <3>5, <3>6, RowWritten
    <3>8. RowFollows(r, p, e)
      BY <2>2, <3>4, <3>7 DEF RowFollows
    <3> QED
      BY <3>8 DEF e
  <2> QED
    BY <2>3, <2>4
<1> QED
  BY <1>0, <1>1, <1>2, <1>6, <1>7, <1>9 DEF OInv, Queued

LEMMA OccupantsShow ==
  ASSUME IInv, OInv, NEW i \in DOMAIN handlers, Show(i)
  PROVE  OInv'
<1> USE DEF room, stream, table, tasks, history
<1>0. /\ Queued /\ ShownSound /\ Parting /\ TargetsSound /\ present \subseteq People
      /\ handlers \in Seq(Words3) /\ wire \in Seq(Persons \X BOOLEAN) /\ i \in 1..Len(handlers)
      /\ shown \subseteq People
  BY DEF OInv, Queued
<1>1. /\ UNCHANGED <<present, inside, missed, out, crossed, late, join, nicks, jids, leave, boot>>
      /\ wire' = wire /\ handlers[i][3] = "show" /\ handlers' = RemoveAt(handlers, i)
      /\ overtaken \subseteq overtaken'
  BY DEF Show, Overtakes
<1> DEFINE q == Line(handlers, wire)
           r == Line(handlers', wire')
<1>2. handlers' \in Seq(Words3) /\ Removed(q, r, i) /\ \A j \in 1..i : q[j] = handlers[j]
  <2> DEFINE g == RemoveAt(handlers, i)
  <2>1. /\ g \in Seq(Words3) /\ Removed(Line(handlers, wire), Line(g, wire), i)
        /\ \A j \in 1..i : Line(handlers, wire)[j] = handlers[j]
    BY <1>0, LineShorter
  <2>2. g = handlers'
    BY <1>1
  <2> HIDE DEF g
  <2> QED
    BY <1>1, <2>1, <2>2
<1> HIDE DEF q, r
<1>3. handlers[i] \in Words3
  BY <1>0
<1>4. PICK x \in Persons, y \in BOOLEAN : q[i] = <<x, y, "show">> /\ handlers[i][1] = x /\ handlers[i][2] = y
  <2>1. PICK x \in Persons, y \in BOOLEAN, z \in {"photo", "row", "show"} : handlers[i] = <<x, y, z>>
    BY <1>3 DEF Words3
  <2>2. i \in 1..i
    BY <1>0
  <2>3. q[i] = handlers[i] /\ z = "show" /\ handlers[i][1] = x /\ handlers[i][2] = y
    BY <1>1, <1>2, <2>1, <2>2
  <2> QED
    BY <2>1, <2>3
<1>40. q[i][1] = x /\ q[i][2] = y /\ q[i][3] = "show"
  BY <1>4
<1>5. shown' = IF y THEN shown \cup ({x} \ {Me}) ELSE shown \ {x}
  BY <1>4 DEF Show
<1>6. Queued'
  <2>1. shown' \subseteq People
    BY <1>0, <1>5 DEF Persons
  <2> QED
    BY <1>0, <1>1, <1>2, <2>1 DEF Queued
<1>7. Parting'
  BY <1>0, <1>1 DEF Parting
<1>8. TargetsSound'
  <2> SUFFICES ASSUME inside /\ out = <<>> /\ ~crossed /\ ~late /\ join["user"].step # "send",
                      NEW p \in People, p \in present, p \notin overtaken
               PROVE  RowFollows(r, p, p \in Targets)
    BY <1>0, <1>1 DEF TargetsSound, Targets, r
  <2> DEFINE d == p \in Targets
  <2>1. RowFollows(q, p, d)
    BY <1>0 DEF TargetsSound, q
  <2>2. d \in BOOLEAN
    OBVIOUS
  <2> HIDE DEF d
  <2>3. RowFollows(r, p, d)
    BY <1>2, <1>40, <2>1, <2>2, RowShown
  <2> QED
    BY <2>3 DEF d
<1>9. ASSUME NEW p \in People, p \notin overtaken', x = p PROVE \A j \in 1..i - 1 : q[j][1] # p
  <2>1. ~Earlier(i, {"photo", "row", "show"})
    BY <1>4, <1>9, RoomsAssumption DEF Show, Overtakes
  <2> SUFFICES ASSUME NEW j \in 1..i - 1, q[j][1] = p PROVE FALSE
    OBVIOUS
  <2>2. j \in 1..i /\ j \in 1..Len(handlers)
    BY <1>0
  <2>3. q[j] = handlers[j] /\ handlers[j] \in Words3
    BY <1>0, <1>2, <2>2
  <2>4. handlers[j][1] = handlers[i][1] /\ handlers[j][3] \in {"photo", "row", "show"}
    BY <1>4, <1>9, <2>3 DEF Words3
  <2> QED
    BY <2>1, <2>4 DEF Earlier
<1>10. ASSUME NEW p \in People, p \notin overtaken', NEW b \in BOOLEAN, NEW d \in BOOLEAN, NEW e \in BOOLEAN,
              x # p => (e <=> d), x = p => (e <=> y = b), Follows(q, p, b, d)
       PROVE  Follows(r, p, b, e)
  <2>1. \/ q[i][1] # p /\ e = d
        \/ q[i][1] = p /\ (\A j \in 1..i - 1 : q[j][1] # p) /\ (e <=> q[i][2] = b)
    BY <1>9, <1>10, <1>40
  <2> QED
    BY <1>2, <1>10, <2>1, WordShown
<1>11. ShownSound'
  <2> SUFFICES ASSUME NEW p \in People, p \notin overtaken'
               PROVE  /\ inside /\ p \in present => Follows(r, p, TRUE, p \in shown')
                      /\ p \notin present /\ p \notin missed => Follows(r, p, FALSE, p \notin shown')
    BY <1>1 DEF ShownSound, r
  <2>0. p \in People \ overtaken /\ p # Me
    BY <1>1, RoomsAssumption
  <2>1. ASSUME inside, p \in present PROVE Follows(r, p, TRUE, p \in shown')
    <3> DEFINE d == p \in shown
               e == p \in shown'
    <3>1. Follows(q, p, TRUE, d)
      BY <1>0, <2>0, <2>1 DEF ShownSound, q
    <3>2. d \in BOOLEAN /\ e \in BOOLEAN /\ TRUE \in BOOLEAN
      OBVIOUS
    <3>3. (x # p => (e <=> d)) /\ (x = p => (e <=> y = TRUE))
      BY <1>5, <2>0
    <3> HIDE DEF d, e
    <3>4. Follows(r, p, TRUE, e)
      BY <1>10, <3>1, <3>2, <3>3
    <3> QED
      BY <3>4 DEF e
  <2>2. ASSUME p \notin present, p \notin missed PROVE Follows(r, p, FALSE, p \notin shown')
    <3> DEFINE d == p \notin shown
               e == p \notin shown'
    <3>1. Follows(q, p, FALSE, d)
      BY <1>0, <2>0, <2>2 DEF ShownSound, q
    <3>2. d \in BOOLEAN /\ e \in BOOLEAN /\ FALSE \in BOOLEAN
      OBVIOUS
    <3>3. (x # p => (e <=> d)) /\ (x = p => (e <=> y = FALSE))
      BY <1>5, <2>0
    <3> HIDE DEF d, e
    <3>4. Follows(r, p, FALSE, e)
      BY <1>10, <3>1, <3>2, <3>3
    <3> QED
      BY <3>4 DEF e
  <2> QED
    BY <2>1, <2>2
<1> QED
  BY <1>6, <1>7, <1>8, <1>11 DEF OInv

-----------------------------------------------------------------------------
LEMMA OccupantsInit ==
  ASSUME Init
  PROVE  OInv
<1>1. /\ handlers = <<>> /\ wire = <<>> /\ out = <<>> /\ leave = "off" /\ present \subseteq People
      /\ \/ inside = FALSE /\ shown = {}
         \/ inside = TRUE /\ shown = present /\ nicks = present
  BY DEF Init
<1>2. Queued
  BY <1>1, EmptyLine DEF Queued
<1>3. ShownSound
  BY <1>1, EmptyLine DEF ShownSound
<1>4. TargetsSound
  BY <1>1, EmptyLine DEF TargetsSound, Targets
<1>5. Parting
  BY <1>1 DEF Parting
<1> QED
  BY <1>2, <1>3, <1>4, <1>5 DEF OInv

\* The invariant of the presence on its way and in hand.
THEOREM OccupantsInductive == Spec => []OInv
<1>1. Init => OInv
  BY OccupantsInit
<1>2. IInv /\ OInv /\ [Next]_vars => OInv'
  <2>1. ASSUME IInv, OInv, Next PROVE OInv'
    <3>0. member \subseteq People
      BY <2>1 DEF IInv, Typed
    <3> QED
      BY <2>1, <3>0, OccupantsPeople, OccupantsTaken, OccupantsSession, OccupantsDeliver, OccupantsPhoto,
         OccupantsRow, OccupantsShow, OccupantsJoins, OccupantsLeaves, OccupantsBoot DEF Next
  <2>2. ASSUME OInv, UNCHANGED vars PROVE OInv'
    BY <2>2 DEF vars, OInv, Queued, ShownSound, Parting, TargetsSound, Targets, room, stream, table, tasks, history
  <2> QED
    BY <2>1, <2>2
<1> QED
  BY <1>1, <1>2, Inductive, PTL DEF Spec

\* Whoever is in the room is encrypted to and shown, and nobody else is shown but those of whom we
\* were not told, for any number of people, tasks and events, but for the races that the property
\* names (presence.rs handle_incoming, muc_member_jids, session.rs PRESENCE).
THEOREM Known == Spec => []OccupantsKnown
<1>1. OInv => OccupantsKnown
  <2> SUFFICES ASSUME OInv, Settled, inside PROVE OccupantsKnown
    BY DEF OccupantsKnown
  <2>1. /\ Line(handlers, wire) = Line(<<>>, <<>>) /\ out = <<>> /\ present \subseteq People
        /\ shown \subseteq People /\ join["user"].step # "send"
    BY DEF Settled, Joining, Starters, OInv, Queued
  <2>2. \A p \in People \ overtaken : /\ p \in present => p \in shown
                                      /\ p \notin present /\ p \notin missed => p \notin shown
    BY <2>1, EmptyLine DEF OInv, ShownSound, Follows, Says
  <2>3. ~crossed /\ ~late => \A p \in present \ overtaken : p \in Targets
    BY <2>1, EmptyLine DEF OInv, TargetsSound, RowFollows
  <2> QED
    BY <2>1, <2>2, <2>3 DEF OccupantsKnown
<1> QED
  BY <1>1, OccupantsInductive, PTL

-----------------------------------------------------------------------------
(* Types.                                                                    *)

Rest ==
  /\ present \subseteq member /\ bookmark \in {"none", "plain", "auto"}
  /\ conv \in {"none", "idle", "auto"} /\ nicks \subseteq People /\ jids \subseteq People
  /\ leave \in {"off", "bookmark", "delete"}
  /\ boot \in {"off", "fetch", "upsert", "list", "join"} /\ fetched \in {"none", "plain", "auto"}
  /\ wish \in {"none", "in", "out"} /\ listed \subseteq People
  /\ overtaken \subseteq People /\ missed \subseteq People
  /\ events \in 0..MaxEvents

LEMMA Counted ==
  ASSUME events \in 0..MaxEvents, Event
  PROVE  events' \in 0..MaxEvents
BY RoomsAssumption DEF Event

LEMMA RestOutside ==
  ASSUME IInv, OInv, Rest,
         \/ \E p \in People : Enters(p) \/ Leaves(p) \/ Changes(p)
         \/ RoomTakes \/ SessionDown \/ SessionUp \/ Deliver
         \/ \E b \in {"none", "plain", "auto"} : OtherDevice(b)
  PROVE  Rest'
<1> USE DEF room, stream, table, tasks, history, Rest
<1>1. ASSUME NEW p \in People, Enters(p) PROVE Rest'
  BY <1>1, Counted DEF Enters
<1>2. ASSUME NEW p \in People, Leaves(p) PROVE Rest'
  <2>1. events' \in 0..MaxEvents
    BY <1>2, Counted DEF Leaves
  <2>2. present' \subseteq member' /\ missed' \subseteq People
    BY <1>2 DEF Leaves
  <2> QED
    BY <1>2, <2>1, <2>2 DEF Leaves
<1>3. ASSUME NEW p \in People, Changes(p) PROVE Rest'
  <2>1. present' \subseteq member'
    BY <1>3 DEF Changes
  <2> QED
    BY <1>3, <2>1, Counted DEF Changes
<1>4. CASE RoomTakes
  BY <1>4 DEF RoomTakes
<1>5. CASE SessionDown
  BY <1>5, Counted DEF SessionDown
<1>6. CASE SessionUp
  BY <1>6 DEF SessionUp
<1>7. CASE Deliver
  BY <1>7 DEF Deliver
<1>8. ASSUME NEW b \in {"none", "plain", "auto"}, OtherDevice(b) PROVE Rest'
  BY <1>8, Counted DEF OtherDevice
<1> QED
  BY <1>1, <1>2, <1>3, <1>4, <1>5, <1>6, <1>7, <1>8

LEMMA RestPresence ==
  ASSUME IInv, OInv, Rest, NEW i \in DOMAIN handlers, Photo(i) \/ RowStep(i) \/ Show(i)
  PROVE  Rest'
<1> USE DEF room, stream, table, tasks, history, Rest
<1>1. handlers[i][1] \in People \cup {Me}
  BY DEF OInv, Queued, Words3, Persons
<1>2. CASE Photo(i)
  BY <1>2 DEF Photo
<1>3. CASE RowStep(i)
  <2>1. overtaken' \subseteq People /\ nicks' \subseteq People
    BY <1>1, <1>3 DEF RowStep, Overtakes
  <2> QED
    BY <1>3, <2>1 DEF RowStep
<1>4. CASE Show(i)
  <2>1. overtaken' \subseteq People
    BY <1>1, <1>4 DEF Show, Overtakes
  <2> QED
    BY <1>4, <2>1 DEF Show
<1> QED
  BY <1>2, <1>3, <1>4

LEMMA RestTasks ==
  ASSUME IInv, Rest,
         \/ UserJoins \/ UserLeaves \/ LeaveBookmark \/ LeaveDelete
         \/ \E s \in Starters :
              JoinSend(s) \/ JoinConfigure(s) \/ JoinAsk(s) \/ JoinListed(s) \/ JoinLast(s)
         \/ BootFetch \/ BootUpsert \/ BootList
  PROVE  Rest'
<1> USE DEF room, stream, table, tasks, history, Rest
<1>1. CASE UserJoins
  BY <1>1, Counted DEF UserJoins
<1>2. CASE UserLeaves
  BY <1>2, Counted DEF UserLeaves
<1>3. CASE LeaveBookmark
  BY <1>3 DEF LeaveBookmark
<1>4. CASE LeaveDelete
  BY <1>4 DEF LeaveDelete
<1>5. ASSUME NEW s \in Starters, JoinSend(s) \/ JoinConfigure(s) \/ JoinAsk(s) \/ JoinLast(s) PROVE Rest'
  BY <1>5 DEF JoinSend, JoinConfigure, JoinAsk, JoinLast
<1>6. ASSUME NEW s \in Starters, JoinListed(s) PROVE Rest'
  <2>1. join[s].list \subseteq People
    BY DEF IInv, Typed, Joins
  <2> QED
    BY <1>6, <2>1 DEF JoinListed
<1>7. CASE BootFetch \/ BootUpsert \/ BootList
  BY <1>7 DEF BootFetch, BootUpsert, BootList
<1> QED
  BY <1>1, <1>2, <1>3, <1>4, <1>5, <1>6, <1>7

\* Every reachable state of the room is well typed, for any people and any number of tasks and
\* events (muc.rs, presence.rs, bookmarks.rs).
THEOREM TypeCorrect == Spec => []TypeOK
<1>1. Init => Rest
  <2> SUFFICES ASSUME Init PROVE Rest
    OBVIOUS
  <2>1. events \in 0..MaxEvents
    BY RoomsAssumption DEF Init
  <2> QED
    BY <2>1 DEF Init, Rest
<1>2. IInv /\ OInv /\ Rest /\ [Next]_vars => Rest'
  <2>1. ASSUME IInv, OInv, Rest, Next PROVE Rest'
    BY <2>1, RestOutside, RestPresence, RestTasks DEF Next
  <2>2. ASSUME Rest, UNCHANGED vars PROVE Rest'
    BY <2>2 DEF vars, Rest, room, stream, table, tasks, history
  <2> QED
    BY <2>1, <2>2
<1>3. IInv /\ OInv /\ Rest => TypeOK
  <2> SUFFICES ASSUME IInv, OInv, Rest PROVE TypeOK
    OBVIOUS
  <2>1. Words3 = (People \cup {Me}) \X BOOLEAN \X {"photo", "row", "show"}
    BY DEF Words3, Persons
  <2> QED
    BY <2>1 DEF IInv, Typed, OInv, Queued, Rest, TypeOK, Words, Joins, Persons
<1> QED
  BY <1>1, <1>2, <1>3, Inductive, OccupantsInductive, PTL DEF Spec

=============================================================================
