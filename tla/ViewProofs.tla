----------------------------- MODULE ViewProofs -----------------------------
(***************************************************************************)
(* What holds of the front end for every number of chats, loads and        *)
(* events: the page shows its header's chat and all there is of it, what   *)
(* was seen is neither counted nor kept from the peer, no refresh of the   *)
(* open chat is lost between the two flags of schedule_list_refresh, and   *)
(* the lock of the header is the stored one; each of them but for the      *)
(* races that the property names.  And of the bubble of one message: both  *)
(* ends show the same, what it stands for is fetched, and what was clicked *)
(* on is shown.                                                            *)
(***************************************************************************)
EXTENDS View, Bubble, SequenceTheorems, FiniteSetTheorems, WellFoundedInduction, TLAPS

\* A refresh that is wanted is announced by the second flag, and some task will read it.
Announced ==
  /\ wanted \in BOOLEAN /\ openToo \in BOOLEAN
  /\ woken \in Nat
  /\ wanted => openToo /\ (bursting \/ pending \/ woken > 0)

Clean(c) == races[c] \cap {"foreign", "crossed"} = {}

\* What is on its way to the store is what the user chose last, and nothing is on its way only
\* when the store has it.
LockSound ==
  /\ races \in [Chats -> SUBSET Races]
  /\ crypt \in [Chats -> BOOLEAN] /\ wish \in [Chats -> BOOLEAN]
  /\ header \in Chats \cup {None}
  /\ \A c \in Chats : Clean(c) =>
       /\ \A on : <<c, on>> \in toggles => on = wish[c]
       /\ crypt[c] = wish[c] \/ \E on : <<c, on>> \in toggles

-----------------------------------------------------------------------------
(* Steps that touch neither the lock nor the flags, but may add a race.      *)

LEMMA RaceGrows ==
  ASSUME NEW c \in Chats, NEW kind \in Races, races \in [Chats -> SUBSET Races]
  PROVE  /\ Race(c, kind) \in [Chats -> SUBSET Races]
         /\ \A d \in Chats : races[d] \subseteq Race(c, kind)[d]
BY DEF Race

Growing ==
  /\ races' \in [Chats -> SUBSET Races]
  /\ \A d \in Chats : races[d] \subseteq races'[d]

LEMMA GrowsSound ==
  ASSUME LockSound, Growing, UNCHANGED <<lock, header>>
  PROVE  LockSound'
<1>1. \A c \in Chats : Clean(c)' => Clean(c)
  BY DEF Growing, Clean
<1> QED
  BY <1>1 DEF LockSound, Growing, Clean, lock

LEMMA Stays ==
  ASSUME LockSound, UNCHANGED races
  PROVE  Growing
BY DEF LockSound, Growing

\* Everything but the choice of a lock, its write and the flags.
PageStep ==
  \/ \E c \in Chats : Insert(c) \/ Bump(c) \/ NoteStored(c)
  \/ \E c \in Chats : Open(c) \/ OpenPeer(c) \/ Fetched(c)
  \/ LoadOlder \/ FetchMedia
  \/ \E i \in DOMAIN loads : Read(i) \/ Mark(i) \/ Build(i) \/ Apply(i)
  \/ \E m \in marking : MarkClears(m[1], m[2]) \/ MarkRead(m[1], m[2]) \/ SendReadMarker(m[1], m[2])

FlagStep == (\E open \in BOOLEAN : Burst(open)) \/ Schedule \/ Wake \/ RefreshOpen

LEMMA AnyRace ==
  ASSUME NEW c, NEW kind \in Races, races \in [Chats -> SUBSET Races], races' = Race(c, kind)
  PROVE  Growing
BY DEF Race, Growing

LEMMA PageKeeps ==
  ASSUME LockSound, PageStep
  PROVE  /\ UNCHANGED <<refresh, lock>> /\ Growing
         /\ header' \in Chats \cup {None}
<1> USE DEF chats, page, marks, lock
<1>0. /\ {"swallowed", "recounted", "regressed"} \subseteq Races /\ races \in [Chats -> SUBSET Races]
      /\ header \in Chats \cup {None}
  BY DEF Races, LockSound
<1>1. ASSUME NEW c \in Chats, Insert(c) \/ NoteStored(c)
      PROVE  UNCHANGED <<refresh, lock, races, header>>
  BY <1>1 DEF Insert, NoteStored
<1>2. ASSUME NEW c \in Chats, Bump(c)
      PROVE  UNCHANGED <<refresh, lock, header>> /\ Growing
  BY <1>0, <1>2, Stays, AnyRace DEF Bump
<1>3. ASSUME NEW c \in Chats, Open(c) \/ OpenPeer(c) \/ Fetched(c)
      PROVE  UNCHANGED <<refresh, lock, races>> /\ header' \in Chats \cup {None}
  BY <1>0, <1>3 DEF Open, OpenPeer, Fetched
<1>4. CASE LoadOlder \/ FetchMedia
  BY <1>0, <1>4, Stays DEF LoadOlder, FetchMedia
<1>5. ASSUME NEW i \in DOMAIN loads, Read(i) \/ Build(i) \/ Apply(i)
      PROVE  UNCHANGED <<refresh, lock, races, header>>
  BY <1>5 DEF Read, Build, Apply
<1>6. ASSUME NEW i \in DOMAIN loads, Mark(i)
      PROVE  UNCHANGED <<refresh, lock, header>> /\ Growing
  BY <1>0, <1>6, Stays, AnyRace DEF Mark, MarkDisplayed
<1>7. ASSUME NEW m \in marking, MarkClears(m[1], m[2]) \/ MarkRead(m[1], m[2])
      PROVE  UNCHANGED <<refresh, lock, header>> /\ Growing
  BY <1>0, <1>7, Stays, AnyRace DEF MarkClears, MarkRead, Clear
<1>8. ASSUME NEW m \in marking, SendReadMarker(m[1], m[2])
      PROVE  UNCHANGED <<refresh, lock, header>> /\ Growing
  BY <1>0, <1>8, Stays, AnyRace DEF SendReadMarker
<1> QED
  BY <1>0, <1>1, <1>2, <1>3, <1>4, <1>5, <1>6, <1>7, <1>8, Stays DEF PageStep

-----------------------------------------------------------------------------
(* The two flags.                                                            *)

LEMMA FlagsAnnounced ==
  ASSUME Announced, FlagStep
  PROVE  Announced'
<1>1. ASSUME NEW open \in BOOLEAN, Burst(open)
      PROVE  Announced'
  BY <1>1 DEF Burst, Announced
<1>2. CASE Schedule
  BY <1>2 DEF Schedule, Announced
<1>3. CASE Wake
  BY <1>3 DEF Wake, Announced
<1>4. CASE RefreshOpen
  <2>1. woken' \in Nat
    BY <1>4 DEF RefreshOpen, Announced
  <2> QED
    BY <1>4, <2>1 DEF RefreshOpen, Announced
<1> QED
  BY <1>1, <1>2, <1>3, <1>4 DEF FlagStep

LEMMA FlagsKeepLock ==
  ASSUME LockSound, FlagStep
  PROVE  LockSound'
<1>1. UNCHANGED <<lock, races, header>>
  BY DEF FlagStep, Burst, Schedule, Wake, RefreshOpen, page
<1> QED
  BY <1>1, Stays, GrowsSound

-----------------------------------------------------------------------------
(* The lock.                                                                 *)

LEMMA ChoiceSound ==
  ASSUME LockSound, NEW on \in BOOLEAN, SetEncryption(on)
  PROVE  LockSound'
<1>0. /\ header \in Chats /\ header' = header /\ crypt' = crypt
      /\ wish' = [wish EXCEPT ![header] = on] /\ toggles' = toggles \cup {<<model.chat, on>>}
  BY DEF SetEncryption, LockSound, page
<1>1. CASE model.chat # header
  <2>1. /\ races' = [races EXCEPT ![model.chat] = @ \cup {"foreign"}, ![header] = @ \cup {"foreign"}]
        /\ races' \in [Chats -> SUBSET Races]
    BY <1>0, <1>1 DEF SetEncryption, LockSound, Races
  <2>2. "foreign" \in races'[header] /\ (model.chat \in Chats => "foreign" \in races'[model.chat])
    BY <1>0, <2>1 DEF LockSound
  <2>3. \A d \in Chats : d # header /\ d # model.chat => races'[d] = races[d] /\ wish'[d] = wish[d]
    BY <1>0, <2>1 DEF LockSound
  <2>4. \A d \in Chats : Clean(d)' => d # header /\ d # model.chat /\ Clean(d)
    BY <2>2, <2>3 DEF Clean
  <2>5. \A d \in Chats : Clean(d)' =>
          /\ \A b : <<d, b>> \in toggles' <=> <<d, b>> \in toggles
          /\ wish'[d] = wish[d] /\ crypt'[d] = crypt[d]
    BY <1>0, <2>3, <2>4
  <2>6. wish' \in [Chats -> BOOLEAN] /\ crypt' \in [Chats -> BOOLEAN] /\ header' \in Chats \cup {None}
    BY <1>0 DEF LockSound
  <2> QED
    BY <2>1, <2>4, <2>5, <2>6 DEF LockSound
<1>2. CASE model.chat = header
  <2>1. \/ /\ races' = Race(header, "crossed")
        \/ /\ races' = races
           /\ ~ \E b \in BOOLEAN : <<header, b>> \in toggles
    BY <1>2 DEF SetEncryption
  <2>2. Growing
    BY <2>1, Stays, AnyRace DEF LockSound, Races
  <2>3. \A d \in Chats : Clean(d)' => Clean(d)
    BY <2>2 DEF Growing, Clean
  <2>4. Clean(header)' => ~ \E b \in BOOLEAN : <<header, b>> \in toggles
    BY <1>0, <2>1 DEF Clean, Race, LockSound
  <2>5. Clean(header)' => \A b : <<header, b>> \notin toggles
    BY <1>0, <2>3, <2>4 DEF LockSound
  <2>6. /\ wish' \in [Chats -> BOOLEAN] /\ crypt' \in [Chats -> BOOLEAN] /\ header' \in Chats \cup {None}
        /\ wish'[header] = on /\ \A d \in Chats : d # header => wish'[d] = wish[d]
    BY <1>0 DEF LockSound
  <2>7. Clean(header)' =>
          /\ \A b : <<header, b>> \in toggles' => b = wish'[header]
          /\ \E b : <<header, b>> \in toggles'
    BY <1>0, <1>2, <2>5, <2>6
  <2>8. \A d \in Chats : d # header /\ Clean(d)' =>
          /\ \A b : <<d, b>> \in toggles' <=> <<d, b>> \in toggles
          /\ wish'[d] = wish[d] /\ crypt'[d] = crypt[d]
    BY <1>0, <1>2, <2>6
  <2>9. \A d \in Chats : Clean(d)' =>
          /\ \A b : <<d, b>> \in toggles' => b = wish'[d]
          /\ crypt'[d] = wish'[d] \/ \E b : <<d, b>> \in toggles'
    <3>1. ASSUME NEW d \in Chats, Clean(d)', d # header
          PROVE  /\ \A b : <<d, b>> \in toggles' => b = wish'[d]
                 /\ crypt'[d] = wish'[d] \/ \E b : <<d, b>> \in toggles'
      <4>1. /\ \A b : <<d, b>> \in toggles => b = wish[d]
            /\ crypt[d] = wish[d] \/ \E b : <<d, b>> \in toggles
        BY <2>3, <3>1 DEF LockSound
      <4> QED
        BY <2>8, <3>1, <4>1
    <3> QED
      BY <1>0, <2>7, <3>1
  <2> QED
    BY <2>2, <2>6, <2>9 DEF LockSound, Growing
<1> QED
  BY <1>1, <1>2

LEMMA WriteSound ==
  ASSUME LockSound, NEW c \in Chats, NEW on \in BOOLEAN, WriteEncryption(c, on)
  PROVE  LockSound'
<1>1. /\ <<c, on>> \in toggles /\ toggles' = toggles \ {<<c, on>>}
      /\ crypt' = [crypt EXCEPT ![c] = on] /\ UNCHANGED <<wish, races, header>>
  BY DEF WriteEncryption, page
<1>2. /\ crypt' \in [Chats -> BOOLEAN] /\ crypt'[c] = on
      /\ \A d \in Chats : d # c => crypt'[d] = crypt[d]
  BY <1>1 DEF LockSound
<1>3. \A d \in Chats : Clean(d)' <=> Clean(d)
  BY <1>1 DEF Clean
<1>4. \A d \in Chats : Clean(d) =>
        /\ \A b : <<d, b>> \in toggles' => b = wish[d]
        /\ crypt'[d] = wish[d] \/ \E b : <<d, b>> \in toggles'
  <2>1. \A d \in Chats : Clean(d) => \A b : <<d, b>> \in toggles' => b = wish[d]
    BY <1>1 DEF LockSound
  <2>2. Clean(c) => crypt'[c] = wish[c]
    BY <1>1, <1>2 DEF LockSound
  <2>3. \A d \in Chats : d # c => \A b : <<d, b>> \in toggles' <=> <<d, b>> \in toggles
    BY <1>1
  <2> QED
    BY <1>2, <2>1, <2>2, <2>3 DEF LockSound
<1> QED
  BY <1>1, <1>2, <1>3, <1>4 DEF LockSound

LEMMA LockKeepsFlags ==
  ASSUME Announced, NEW on \in BOOLEAN, SetEncryption(on) \/ \E c \in Chats : WriteEncryption(c, on)
  PROVE  Announced'
<1>1. UNCHANGED refresh
  BY DEF SetEncryption, WriteEncryption
<1> QED
  BY <1>1 DEF Announced, refresh

-----------------------------------------------------------------------------
(* The rows of the page.  The load that began last decides what is shown at  *)
(* rest: it is overtaken from the start, or it is of the header's chat and   *)
(* whatever it has read of it is still so, or news of it is under way.  When *)
(* it has been applied, the loads that are left are overtaken.               *)

Load ==
  [shown : [of : Chats, rows : Nat, pic : BOOLEAN, late : BOOLEAN],
   how : {"reload", "older", "open"}, step : {"begun", "read", "marked", "built"}]
Page ==
  [chat : Chats \cup {None},
   shown : [of : Chats \cup {None}, rows : Nat, pic : BOOLEAN, late : BOOLEAN],
   displaced : BOOLEAN]

\* Rows that were read are some of those that are stored.
HasRows(l) == l.step # "begun" => l.shown.rows \in 1..stored[l.shown.of]
RowsSound == \A i \in 1..Len(loads) : HasRows(loads[i])

PageTyped ==
  /\ stored \in [Chats -> Nat \ {0}]
  /\ arriving \in [Chats -> {"no", "inserted", "bumped"}]
  /\ picture \in [Chats -> {"no", "fetching", "cached"}]
  /\ header \in Chats \cup {None}
  /\ model \in Page
  /\ loads \in Seq(Load)
  /\ RowsSound

AllRows(n) == n = stored[header] \/ arriving[header] # "no"
Pictured(pic) == picture[header] = "cached" => pic

Good(l) ==
  \/ l.shown.late
  \/ /\ l.shown.of = header
     /\ l.step # "begun" => AllRows(l.shown.rows)
     /\ l.step = "built" => Pictured(l.shown.pic)

\* The page is its header's, or a load that opens the header's chat runs, or it is displaced.
ChatFollows ==
  header # None /\ ~model.displaced =>
    \/ model.chat = header
    \/ \E i \in 1..Len(loads) : loads[i].how = "open" /\ loads[i].shown.of = header

PageSound ==
  /\ ChatFollows
  /\ Len(loads) > 0 => Good(loads[Len(loads)])
  /\ Len(loads) = 0 /\ header # None /\ ~model.displaced =>
       \/ model.shown.late
       \/ model.shown.of = header /\ AllRows(model.shown.rows) /\ Pictured(model.shown.pic)

LEMMA RemoveIs ==
  ASSUME NEW S, NEW s \in Seq(S), NEW i \in 1..Len(s)
  PROVE  /\ RemoveAt(s, i) \in Seq(S) /\ Len(RemoveAt(s, i)) = Len(s) - 1
         /\ \A j \in 1..Len(s) - 1 : RemoveAt(s, i)[j] = IF j < i THEN s[j] ELSE s[j + 1]
<1> DEFINE a == SubSeq(s, 1, i - 1)
           b == SubSeq(s, i + 1, Len(s))
<1>0. Len(s) \in Nat /\ \A j \in 1..Len(s) : s[j] \in S
  OBVIOUS
<1>1. a \in Seq(S) /\ Len(a) = i - 1 /\ \A j \in 1..i - 1 : a[j] = s[j]
  BY <1>0, SubSeqProperties
<1>2. b \in Seq(S) /\ Len(b) = Len(s) - i /\ \A j \in 1..Len(s) - i : b[j] = s[i + j]
  BY <1>0, SubSeqProperties
<1>3. RemoveAt(s, i) = a \o b
  BY DEF RemoveAt
<1> HIDE DEF a, b
<1>4. /\ a \o b \in Seq(S) /\ Len(a \o b) = Len(a) + Len(b)
      /\ \A j \in 1..Len(a) + Len(b) : (a \o b)[j] = IF j <= Len(a) THEN a[j] ELSE b[j - Len(a)]
  BY <1>1, <1>2, ConcatProperties
<1>5. ASSUME NEW j \in 1..Len(s) - 1
      PROVE  (a \o b)[j] = IF j < i THEN s[j] ELSE s[j + 1]
  <2>1. CASE j < i
    BY <1>0, <1>1, <1>2, <1>4, <2>1
  <2>2. CASE ~(j < i)
    <3>1. (a \o b)[j] = b[j - (i - 1)] /\ j - (i - 1) \in 1..Len(s) - i
      BY <1>0, <1>1, <1>2, <1>4, <2>2
    <3>2. i + (j - (i - 1)) = j + 1
      BY <1>0
    <3> QED
      BY <1>2, <2>2, <3>1, <3>2
  <2> QED
    BY <2>1, <2>2
<1> QED
  BY <1>0, <1>1, <1>2, <1>3, <1>4, <1>5

LEMMA MapSeq ==
  ASSUME NEW S, NEW s \in Seq(S), NEW T, NEW t, t = [i \in DOMAIN s |-> t[i]],
         \A i \in 1..Len(s) : t[i] \in T
  PROVE  t \in Seq(T) /\ Len(t) = Len(s)
<1>1. DOMAIN s = 1..Len(s) /\ Len(s) \in Nat
  OBVIOUS
<1>2. t \in [1..Len(s) -> T]
  BY <1>1
<1>3. t \in Seq(T)
  BY <1>1, <1>2, SeqDef
<1>4. Len(t) = Len(s)
  BY <1>1, <1>2, <1>3
<1> QED
  BY <1>3, <1>4

\* A load that is marked as overtaken is otherwise the same.
LEMMA LateIs ==
  ASSUME NEW l \in Load, NEW b \in BOOLEAN
  PROVE  /\ [l EXCEPT !.shown.late = b] \in Load
         /\ [l EXCEPT !.shown.late = b].shown.late = b
         /\ [l EXCEPT !.shown.late = b].shown.of = l.shown.of
         /\ [l EXCEPT !.shown.late = b].shown.rows = l.shown.rows
         /\ [l EXCEPT !.shown.late = b].shown.pic = l.shown.pic
         /\ [l EXCEPT !.shown.late = b].how = l.how
         /\ [l EXCEPT !.shown.late = b].step = l.step
<1>1. l.shown \in [of : Chats, rows : Nat, pic : BOOLEAN, late : BOOLEAN]
  BY DEF Load
<1>2. [l EXCEPT !.shown.late = b] = [shown |-> [l.shown EXCEPT !.late = b], how |-> l.how, step |-> l.step]
  BY DEF Load
<1>3. [l.shown EXCEPT !.late = b] =
        [of |-> l.shown.of, rows |-> l.shown.rows, pic |-> l.shown.pic, late |-> b]
  BY <1>1
<1> QED
  BY <1>2, <1>3 DEF Load

\* What a list of loads becomes when one more begins.
LEMMA BeginIs ==
  ASSUME NEW running, running \in Seq(Load), NEW c, c \in Chats, NEW how \in {"reload", "older", "open"},
         NEW at, Begin(running, c, how, at)
  PROVE  /\ loads' \in Seq(Load) /\ Len(loads') = Len(running) + 1
         /\ \A i \in 1..Len(running) : loads'[i] = running[i]
         /\ loads'[Len(loads')].step = "begun" /\ loads'[Len(loads')].how = how
         /\ loads'[Len(loads')].shown.of = c /\ loads'[Len(loads')].shown.rows = 0
         /\ loads'[Len(loads')].shown.late <=> c # at
<1> DEFINE late == c # at
           l == [shown |-> [of |-> c, rows |-> 0, pic |-> FALSE, late |-> late], how |-> how, step |-> "begun"]
<1>1. late \in BOOLEAN /\ (late <=> c # at)
  OBVIOUS
<1>2. loads' = Append(running, l)
  BY DEF Begin
<1> HIDE DEF late
<1>4. l \in Load /\ l.step = "begun" /\ l.how = how /\ l.shown.of = c /\ l.shown.late = late
      /\ l.shown.rows = 0
  BY <1>1 DEF Load
<1> HIDE DEF l
<1>5. /\ Append(running, l) \in Seq(Load) /\ Len(Append(running, l)) = Len(running) + 1
      /\ \A i \in 1..Len(running) : Append(running, l)[i] = running[i]
      /\ Append(running, l)[Len(running) + 1] = l
  BY <1>4, AppendProperties
<1> QED
  BY <1>1, <1>2, <1>4, <1>5

\* The list has the loads of before, perhaps marked as overtaken.
Alike(running) ==
  /\ running \in Seq(Load) /\ Len(running) = Len(loads)
  /\ \A i \in 1..Len(loads) :
       /\ running[i].how = loads[i].how /\ running[i].step = loads[i].step
       /\ running[i].shown.of = loads[i].shown.of /\ running[i].shown.rows = loads[i].shown.rows
       /\ running[i].shown.pic = loads[i].shown.pic
       /\ loads[i].shown.late => running[i].shown.late

LEMMA LoadsAlike ==
  ASSUME PageTyped
  PROVE  Alike(loads)
BY DEF PageTyped, Alike

LEMMA UnnoticedIs ==
  ASSUME PageTyped, NEW missed
  PROVE  /\ Alike(Unnoticed(missed))
         /\ \A i \in 1..Len(loads) : i \in missed => Unnoticed(missed)[i].shown.late
<1> DEFINE t == Unnoticed(missed)
<1>0. loads \in Seq(Load) /\ DOMAIN loads = 1..Len(loads) /\ \A i \in 1..Len(loads) : loads[i] \in Load
  BY DEF PageTyped
<1>1. t = [i \in DOMAIN loads |-> IF i \in missed THEN [loads[i] EXCEPT !.shown.late = TRUE] ELSE loads[i]]
  BY DEF Unnoticed
<1> HIDE DEF t
<1>2. ASSUME NEW i \in 1..Len(loads)
      PROVE  /\ t[i] \in Load
             /\ t[i].how = loads[i].how /\ t[i].step = loads[i].step
             /\ t[i].shown.of = loads[i].shown.of /\ t[i].shown.rows = loads[i].shown.rows
             /\ t[i].shown.pic = loads[i].shown.pic
             /\ loads[i].shown.late => t[i].shown.late
             /\ i \in missed => t[i].shown.late
  <2>0. loads[i] \in Load
    BY <1>0
  <2>1. CASE i \in missed
    <3>1. t[i] = [loads[i] EXCEPT !.shown.late = TRUE]
      BY <1>0, <1>1, <2>1
    <3>2. TRUE \in BOOLEAN
      OBVIOUS
    <3> DEFINE m == [loads[i] EXCEPT !.shown.late = TRUE]
    <3>3. /\ m \in Load /\ m.shown.late = TRUE /\ m.shown.of = loads[i].shown.of
          /\ m.shown.rows = loads[i].shown.rows /\ m.shown.pic = loads[i].shown.pic
          /\ m.how = loads[i].how /\ m.step = loads[i].step
      BY <2>0, <3>2, LateIs
    <3> HIDE DEF m
    <3>4. t[i] = m
      BY <3>1 DEF m
    <3> QED
      BY <3>3, <3>4
  <2>2. CASE i \notin missed
    <3>1. t[i] = loads[i]
      BY <1>0, <1>1, <2>2
    <3> QED
      BY <2>0, <2>2, <3>1
  <2> QED
    BY <2>1, <2>2
<1>3. t = [i \in DOMAIN loads |-> t[i]]
  BY <1>1
<1>4. t \in Seq(Load) /\ Len(t) = Len(loads)
  BY <1>0, <1>2, <1>3, MapSeq
<1> QED
  BY <1>2, <1>4 DEF Alike, t

\* A step that begins a load, with the header that the load is compared with, leaves the page sound
\* whatever else it changes.
LEMMA BeginSound ==
  ASSUME PageTyped, NEW running, Alike(running), NEW c, c \in Chats, NEW how \in {"reload", "older", "open"},
         NEW at, at = header', Begin(running, c, how, at),
         UNCHANGED stored,
         \/ UNCHANGED header /\ ChatFollows /\ UNCHANGED model
         \/ model'.chat = header'
         \/ how = "open" /\ c = header'
  PROVE  /\ loads' \in Seq(Load) /\ RowsSound'
         /\ PageSound'
<1> DEFINE n == Len(loads)
<1>0. n \in Nat /\ running \in Seq(Load) /\ Len(running) = n
  BY DEF PageTyped, Alike
<1>1. /\ loads' \in Seq(Load) /\ Len(loads') = n + 1
      /\ \A i \in 1..n : loads'[i] = running[i]
      /\ loads'[n + 1].step = "begun" /\ loads'[n + 1].how = how /\ loads'[n + 1].shown.of = c
      /\ loads'[n + 1].shown.late <=> c # at
  BY <1>0, BeginIs
<1>2. ASSUME NEW i \in 1..Len(loads')
      PROVE  loads'[i].step # "begun" => loads'[i].shown.rows \in 1..stored'[loads'[i].shown.of]
  <2>1. CASE i \in 1..n
    <3>1. loads'[i] = running[i] /\ HasRows(loads[i])
      BY <1>1, <2>1 DEF PageTyped, RowsSound
    <3>2. running[i].step = loads[i].step /\ running[i].shown.of = loads[i].shown.of /\ running[i].shown.rows = loads[i].shown.rows
      BY <2>1 DEF Alike
    <3> QED
      BY <3>1, <3>2 DEF HasRows
  <2>2. CASE i = n + 1
    BY <1>1, <2>2 DEF HasRows
  <2> QED
    BY <1>0, <1>1, <2>1, <2>2
<1>3. Good(loads[Len(loads)])'
  BY <1>1 DEF Good
<1>4. Len(loads') # 0
  BY <1>0, <1>1
<1>5. ChatFollows'
  <2>1. CASE UNCHANGED header /\ ChatFollows /\ UNCHANGED model
    <3>1. ASSUME NEW i \in 1..n, loads[i].how = "open", loads[i].shown.of = header
          PROVE  \E j \in 1..Len(loads') : loads'[j].how = "open" /\ loads'[j].shown.of = header'
      <4>1. loads'[i] = running[i] /\ i \in 1..Len(loads')
        BY <1>0, <1>1
      <4>2. running[i].how = loads[i].how /\ running[i].shown.of = loads[i].shown.of
        BY DEF Alike
      <4> QED
        BY <2>1, <3>1, <4>1, <4>2
    <3> QED
      BY <2>1, <3>1 DEF ChatFollows
  <2>2. CASE model'.chat = header'
    BY <2>2 DEF ChatFollows
  <2>3. CASE how = "open" /\ c = header'
    <3>1. n + 1 \in 1..Len(loads')
      BY <1>0, <1>1
    <3> QED
      BY <1>1, <2>3, <3>1 DEF ChatFollows
  <2> QED
    BY <2>1, <2>2, <2>3
<1> QED
  BY <1>1, <1>2, <1>3, <1>4, <1>5 DEF PageSound, RowsSound, HasRows

\* A step that begins none, changes no load but by marking it, and no news of the header's chat.
LEMMA RestSound ==
  ASSUME PageTyped, PageSound, Alike(loads'), UNCHANGED <<header, model>>,
         stored' \in [Chats -> Nat \ {0}], \A c \in Chats : stored[c] <= stored'[c],
         Len(loads) > 0 =>
           \/ loads'[Len(loads)].shown.late
           \/ \A n \in Nat, c \in Chats :
                c = header =>
                  /\ loads[Len(loads)].step # "begun" /\ n = loads[Len(loads)].shown.rows /\ AllRows(n) =>
                       n = stored'[c] \/ arriving'[c] # "no"
                  /\ picture'[c] = "cached" /\ loads[Len(loads)].step = "built" =>
                       picture[c] = "cached" \/ loads[Len(loads)].shown.pic,
         Len(loads) = 0 /\ ~model.displaced /\ ~model.shown.late =>
           \A n \in Nat, c \in Chats :
             c = header /\ model.chat = header =>
               /\ n = model.shown.rows /\ AllRows(n) => n = stored'[c] \/ arriving'[c] # "no"
               /\ picture'[c] = "cached" => picture[c] = "cached" \/ model.shown.pic
  PROVE  /\ loads' \in Seq(Load) /\ RowsSound'
         /\ PageSound'
<1>0. Len(loads) \in Nat /\ Len(loads') = Len(loads) /\ \A i \in 1..Len(loads) : loads[i] \in Load
  BY DEF PageTyped, Alike
<1>1. ASSUME NEW i \in 1..Len(loads')
      PROVE  loads'[i].step # "begun" => loads'[i].shown.rows \in 1..stored'[loads'[i].shown.of]
  <2>1. HasRows(loads[i]) /\ loads[i] \in Load
    BY <1>0 DEF PageTyped, RowsSound
  <2>2. /\ loads'[i].step = loads[i].step /\ loads'[i].shown.of = loads[i].shown.of
        /\ loads'[i].shown.rows = loads[i].shown.rows
    BY <1>0 DEF Alike
  <2>3. loads[i].shown.of \in Chats
    BY <2>1 DEF Load
  <2>4. stored[loads[i].shown.of] \in Nat /\ stored'[loads[i].shown.of] \in Nat
        /\ stored[loads[i].shown.of] <= stored'[loads[i].shown.of]
    BY <2>3 DEF PageTyped
  <2> QED
    BY <2>1, <2>2, <2>4 DEF HasRows
<1>2. ChatFollows'
  <2>1. \A i \in 1..Len(loads) : loads'[i].how = loads[i].how /\ loads'[i].shown.of = loads[i].shown.of
    BY DEF Alike
  <2> QED
    BY <1>0, <2>1 DEF ChatFollows, PageSound
<1>3. ASSUME Len(loads) > 0
      PROVE  Good(loads[Len(loads)])'
  <2> DEFINE l == loads[Len(loads)]
             m == loads'[Len(loads)]
  <2>0. Len(loads) \in 1..Len(loads)
    BY <1>0, <1>3
  <2>1. /\ m.step = l.step /\ m.shown.of = l.shown.of /\ m.shown.rows = l.shown.rows
        /\ m.shown.pic = l.shown.pic /\ (l.shown.late => m.shown.late)
    BY <2>0 DEF Alike
  <2>2. Good(l) /\ l \in Load
    BY <1>0, <1>3, <2>0 DEF PageSound
  <2>3. loads[Len(loads)]' = m
    BY <1>0
  <2> HIDE DEF l, m
  <2>4. CASE m.shown.late
    BY <2>3, <2>4 DEF Good
  <2>5. CASE ~m.shown.late
    <3>1. l.shown.of = header /\ header \in Chats /\ l.shown.rows \in Nat
      BY <2>1, <2>2, <2>5 DEF Good, Load
    <3>2. /\ l.step # "begun" => AllRows(l.shown.rows)
          /\ l.step = "built" => Pictured(l.shown.pic)
      BY <2>1, <2>2, <2>5 DEF Good
    <3>3. \A n \in Nat, c \in Chats :
                c = header =>
                  /\ l.step # "begun" /\ n = l.shown.rows /\ AllRows(n) =>
                       n = stored'[c] \/ arriving'[c] # "no"
                  /\ picture'[c] = "cached" /\ l.step = "built" =>
                       picture[c] = "cached" \/ l.shown.pic
      BY <1>3, <2>5 DEF l, m
    <3>4. l.step # "begun" => l.shown.rows = stored'[header] \/ arriving'[header] # "no"
      BY <3>1, <3>2, <3>3
    <3>5. l.step = "built" /\ picture'[header] = "cached" => l.shown.pic
      BY <3>1, <3>2, <3>3 DEF Pictured
    <3> QED
      BY <2>1, <2>3, <3>1, <3>4, <3>5 DEF Good, AllRows, Pictured
  <2> QED
    BY <2>4, <2>5
<1>4. ASSUME Len(loads) = 0, header # None, ~model.displaced, ~model.shown.late
      PROVE  /\ model.shown.of = header
             /\ model.shown.rows = stored'[header] \/ arriving'[header] # "no"
             /\ picture'[header] = "cached" => model.shown.pic
  <2>1. header \in Chats /\ model.shown.rows \in Nat
    BY <1>4 DEF PageTyped, Page
  <2>2. model.chat = header
    BY <1>4 DEF PageSound, ChatFollows
  <2>3. model.shown.of = header /\ AllRows(model.shown.rows) /\ Pictured(model.shown.pic)
    BY <1>4 DEF PageSound
  <2> QED
    BY <1>4, <2>1, <2>2, <2>3 DEF Pictured
<1>5. loads' \in Seq(Load)
  BY DEF Alike
<1> QED
  BY <1>0, <1>1, <1>2, <1>3, <1>4, <1>5 DEF PageSound, AllRows, Pictured, RowsSound, HasRows

\* A message that is stored and not yet told of, and a download that does not end, change no rows.
LEMMA StoreStep ==
  ASSUME PageTyped, PageSound, UNCHANGED <<header, model, loads>>,
         stored' \in [Chats -> Nat \ {0}], arriving' \in [Chats -> {"no", "inserted", "bumped"}],
         picture' \in [Chats -> {"no", "fetching", "cached"}],
         \A c \in Chats : /\ stored[c] <= stored'[c]
                          /\ arriving[c] # "no" => arriving'[c] # "no"
                          /\ stored'[c] = stored[c] \/ arriving'[c] # "no"
                          /\ picture'[c] = "cached" => picture[c] = "cached"
  PROVE  PageTyped' /\ PageSound'
<1>1. Alike(loads')
  BY LoadsAlike
<1>2. \A n \in Nat, c \in Chats : c = header /\ AllRows(n) => n = stored'[c] \/ arriving'[c] # "no"
  BY DEF AllRows
<1>3. loads' \in Seq(Load) /\ RowsSound' /\ PageSound'
  BY <1>1, <1>2, RestSound
<1> QED
  BY <1>3 DEF PageTyped

\* Everything that leaves the page, the loads, the messages and the pictures alone.
LEMMA OtherStep ==
  ASSUME PageTyped, PageSound, UNCHANGED <<stored, arriving, page, loads, picture>>
  PROVE  PageTyped' /\ PageSound'
BY DEF page, PageTyped, PageSound, RowsSound, HasRows, ChatFollows, Good, AllRows, Pictured

LEMMA StoredSound ==
  ASSUME PageTyped, PageSound, NEW c \in Chats, Insert(c) \/ Bump(c)
  PROVE  PageTyped' /\ PageSound'
<1>1. UNCHANGED <<header, model, loads, picture>>
  BY DEF Insert, Bump, page
<1>2. /\ stored' \in [Chats -> Nat \ {0}] /\ arriving' \in [Chats -> {"no", "inserted", "bumped"}]
      /\ \A d \in Chats : /\ stored[d] <= stored'[d]
                          /\ arriving[d] # "no" => arriving'[d] # "no"
                          /\ stored'[d] = stored[d] \/ arriving'[d] # "no"
  <2>1. CASE Insert(c)
    <3>1. stored[c] \in Nat \ {0} /\ stored[c] + 1 \in Nat \ {0}
      BY DEF PageTyped
    <3>2. stored' = [stored EXCEPT ![c] = @ + 1] /\ arriving' = [arriving EXCEPT ![c] = "inserted"]
      BY <2>1 DEF Insert
    <3> QED
      BY <3>1, <3>2 DEF PageTyped
  <2>2. CASE Bump(c)
    BY <2>2 DEF Bump, PageTyped
  <2> QED
    BY <2>1, <2>2
<1>3. picture' \in [Chats -> {"no", "fetching", "cached"}]
  BY <1>1 DEF PageTyped
<1> QED
  BY <1>1, <1>2, <1>3, StoreStep

\* A load of the model's chat begins, beside a list that is like the one there was.
LEMMA ReloadSound ==
  ASSUME PageTyped, PageSound, NEW running, Alike(running), ReloadCurrent(running),
         model.chat # None, UNCHANGED <<stored, page>>,
         arriving' \in [Chats -> {"no", "inserted", "bumped"}],
         picture' \in [Chats -> {"no", "fetching", "cached"}]
  PROVE  PageTyped' /\ PageSound'
<1>1. UNCHANGED <<header, model>> /\ ChatFollows
  BY DEF page, PageSound
<1>2. model.chat \in Chats /\ Begin(running, model.chat, "reload", header)
  BY DEF PageTyped, Page, ReloadCurrent
<1>3. loads' \in Seq(Load) /\ RowsSound' /\ PageSound'
  <2> DEFINE at == header
             c == model.chat
  <2>1. at = header' /\ c \in Chats /\ Begin(running, c, "reload", at)
    BY <1>1, <1>2
  <2> HIDE DEF at, c
  <2> QED
    BY <1>1, <2>1, BeginSound
<1> QED
  BY <1>1, <1>3 DEF PageTyped

LEMMA OpenSound ==
  ASSUME PageTyped, PageSound, NEW c \in Chats, Open(c) \/ OpenPeer(c)
  PROVE  PageTyped' /\ PageSound'
<1>0. Alike(loads) /\ header' = c /\ UNCHANGED <<stored, arriving, picture>>
  BY LoadsAlike DEF Open, OpenPeer, chats
<1>1. CASE Open(c)
  <2>1. model' = [model EXCEPT !.chat = c, !.displaced = FALSE]
    BY <1>1 DEF Open
  <2>2. model' \in Page /\ model'.chat = c
    BY <2>1 DEF PageTyped, Page
  <2>3. PICK how \in {"reload", "open"} : Begin(loads, c, how, c)
    BY <1>1 DEF Open
  <2>4. loads' \in Seq(Load) /\ RowsSound' /\ PageSound'
    BY <1>0, <2>2, <2>3, BeginSound
  <2> QED
    BY <1>0, <2>2, <2>4 DEF PageTyped
<1>2. CASE OpenPeer(c)
  <2>1. UNCHANGED model /\ Begin(loads, c, "open", c)
    BY <1>2 DEF OpenPeer
  <2>2. loads' \in Seq(Load) /\ RowsSound' /\ PageSound'
    BY <1>0, <2>1, BeginSound
  <2> QED
    BY <1>0, <2>1, <2>2 DEF PageTyped
<1> QED
  BY <1>1, <1>2

LEMMA OlderSound ==
  ASSUME PageTyped, PageSound, LoadOlder
  PROVE  PageTyped' /\ PageSound'
<1>1. /\ UNCHANGED <<header, model, stored, arriving, picture>> /\ ChatFollows
      /\ model.chat \in Chats /\ Begin(loads, model.chat, "older", header) /\ Alike(loads)
  BY LoadsAlike DEF LoadOlder, page, chats, PageSound, PageTyped, Page
<1>2. loads' \in Seq(Load) /\ RowsSound' /\ PageSound'
  <2> DEFINE at == header
             c == model.chat
  <2>1. at = header' /\ c \in Chats /\ Begin(loads, c, "older", at)
    BY <1>1
  <2> HIDE DEF at, c
  <2> QED
    BY <1>1, <2>1, BeginSound
<1> QED
  BY <1>1, <1>2 DEF PageTyped

LEMMA RefreshSound ==
  ASSUME PageTyped, PageSound, RefreshOpen
  PROVE  PageTyped' /\ PageSound'
<1>1. UNCHANGED <<stored, arriving, page, picture>>
  BY DEF RefreshOpen, chats
<1>2. CASE openToo /\ model.chat # None
  <2>1. ReloadCurrent(loads) /\ Alike(loads)
    BY <1>2, LoadsAlike DEF RefreshOpen
  <2>2. /\ arriving' \in [Chats -> {"no", "inserted", "bumped"}]
        /\ picture' \in [Chats -> {"no", "fetching", "cached"}]
    BY <1>1 DEF PageTyped
  <2> QED
    BY <1>1, <1>2, <2>1, <2>2, ReloadSound
<1>3. CASE ~(openToo /\ model.chat # None)
  <2>1. UNCHANGED loads
    BY <1>3 DEF RefreshOpen, ReloadCurrent
  <2> QED
    BY <1>1, <2>1, OtherStep
<1> QED
  BY <1>2, <1>3

LEMMA MediaSound ==
  ASSUME PageTyped, PageSound, FetchMedia
  PROVE  PageTyped' /\ PageSound'
<1> DEFINE c == model.shown.of
<1>1. c \in Chats /\ UNCHANGED <<stored, arriving, page>> /\ UNCHANGED <<header, model>>
  BY DEF FetchMedia, PageTyped, Page, chats, page
<1>2. CASE picture[c] = "cached"
  <2>1. ReloadCurrent(loads) /\ UNCHANGED picture /\ Alike(loads)
    BY <1>2, LoadsAlike DEF FetchMedia
  <2>2. /\ arriving' \in [Chats -> {"no", "inserted", "bumped"}]
        /\ picture' \in [Chats -> {"no", "fetching", "cached"}]
    BY <1>1, <2>1 DEF PageTyped
  <2>3. CASE model.chat # None
    BY <1>1, <2>1, <2>2, <2>3, ReloadSound
  <2>4. CASE model.chat = None
    <3>1. UNCHANGED loads
      BY <2>1, <2>4 DEF ReloadCurrent
    <3> QED
      BY <1>1, <2>1, <3>1, OtherStep
  <2> QED
    BY <2>3, <2>4
<1>3. CASE picture[c] # "cached"
  <2>1. picture' = [picture EXCEPT ![c] = "fetching"] /\ UNCHANGED loads
    BY <1>3 DEF FetchMedia
  <2>2. /\ picture' \in [Chats -> {"no", "fetching", "cached"}]
        /\ \A d \in Chats : picture'[d] = "cached" => picture[d] = "cached"
    BY <1>1, <2>1 DEF PageTyped
  <2>3. /\ stored' \in [Chats -> Nat \ {0}] /\ arriving' \in [Chats -> {"no", "inserted", "bumped"}]
        /\ \A d \in Chats : stored[d] <= stored'[d] /\ stored'[d] = stored[d] /\ arriving'[d] = arriving[d]
    BY <1>1 DEF PageTyped
  <2> QED
    BY <1>1, <2>1, <2>2, <2>3, StoreStep
<1> QED
  BY <1>2, <1>3

LEMMA NewsSound ==
  ASSUME PageTyped, PageSound, NEW c \in Chats, NoteStored(c)
  PROVE  PageTyped' /\ PageSound'
<1>0. c # None /\ UNCHANGED <<stored, page, picture>> /\ UNCHANGED <<header, model>>
  BY ViewAssumption DEF NoteStored, page
<1>1. /\ arriving' \in [Chats -> {"no", "inserted", "bumped"}]
      /\ \A d \in Chats : d # c => arriving'[d] = arriving[d]
      /\ stored' \in [Chats -> Nat \ {0}] /\ picture' \in [Chats -> {"no", "fetching", "cached"}]
  BY <1>0 DEF NoteStored, PageTyped
<1>2. CASE model.chat = c
  <2>1. ReloadCurrent(loads) /\ Alike(loads) /\ model.chat # None
    BY <1>0, <1>2, LoadsAlike DEF NoteStored
  <2> QED
    BY <1>0, <1>1, <2>1, ReloadSound
<1>3. CASE model.chat # c
  <2> DEFINE L == Len(loads)
             l == loads[L]
  <2>1. loads' = Unnoticed(MissedStored(c))
    BY <1>3 DEF NoteStored
  <2>2. Alike(loads') /\ \A i \in 1..L : i \in MissedStored(c) => loads'[i].shown.late
    BY <2>1, UnnoticedIs
  <2>3. L \in Nat /\ DOMAIN loads = 1..L
    BY DEF PageTyped
  <2>4. ASSUME L > 0, ~loads'[L].shown.late, NEW n \in Nat, c = header,
               l.step # "begun", n = l.shown.rows, AllRows(n)
        PROVE  n = stored'[c]
    <3>0. L \in 1..L
      BY <2>3, <2>4
    <3>1. ~l.shown.late
      BY <2>2, <2>4, <3>0 DEF Alike
    <3>2. l.shown.of = c /\ HasRows(l)
      BY <2>4, <3>0, <3>1 DEF PageSound, Good, PageTyped, RowsSound
    <3>3. ~(n < stored[c])
      BY <2>2, <2>3, <2>4, <3>0, <3>2 DEF MissedStored
    <3>4. n \in 1..stored[c] /\ stored[c] \in Nat
      BY <2>4, <3>2 DEF HasRows, PageTyped
    <3> QED
      BY <1>0, <3>3, <3>4
  <2>5. ASSUME L > 0
        PROVE  \/ loads'[L].shown.late
               \/ \A n \in Nat, d \in Chats :
                    d = header =>
                      /\ l.step # "begun" /\ n = l.shown.rows /\ AllRows(n) =>
                           n = stored'[d] \/ arriving'[d] # "no"
                      /\ picture'[d] = "cached" /\ l.step = "built" =>
                           picture[d] = "cached" \/ l.shown.pic
    <3> SUFFICES ASSUME ~loads'[L].shown.late, NEW n \in Nat, NEW d \in Chats, d = header
                 PROVE  /\ l.step # "begun" /\ n = l.shown.rows /\ AllRows(n) =>
                             n = stored'[d] \/ arriving'[d] # "no"
                        /\ picture'[d] = "cached" => picture[d] = "cached"
      OBVIOUS
    <3>1. CASE d = c
      BY <1>0, <2>4, <2>5, <3>1
    <3>2. CASE d # c
      BY <1>0, <1>1, <3>2 DEF AllRows
    <3> QED
      BY <3>1, <3>2
  <2>6. \A n \in Nat, d \in Chats :
          d = header /\ model.chat = header =>
            /\ n = model.shown.rows /\ AllRows(n) => n = stored'[d] \/ arriving'[d] # "no"
            /\ picture'[d] = "cached" => picture[d] = "cached"
    BY <1>0, <1>1, <1>3 DEF AllRows
  <2>7. \A d \in Chats : stored[d] <= stored'[d]
    BY <1>0 DEF PageTyped
  <2>8. loads' \in Seq(Load) /\ RowsSound' /\ PageSound'
    BY <1>0, <1>1, <2>2, <2>5, <2>6, <2>7, RestSound
  <2> QED
    BY <1>0, <1>1, <2>8 DEF PageTyped
<1> QED
  BY <1>2, <1>3

LEMMA FetchedSound ==
  ASSUME PageTyped, PageSound, NEW c \in Chats, Fetched(c)
  PROVE  PageTyped' /\ PageSound'
<1>0. /\ c # None /\ UNCHANGED <<stored, arriving, page>> /\ UNCHANGED <<header, model>>
      /\ stored' \in [Chats -> Nat \ {0}] /\ arriving' \in [Chats -> {"no", "inserted", "bumped"}]
      /\ \A d \in Chats : stored[d] <= stored'[d] /\ stored'[d] = stored[d] /\ arriving'[d] = arriving[d]
  BY ViewAssumption DEF Fetched, page, chats, PageTyped
<1>1. CASE picture' = [picture EXCEPT ![c] = "no"] /\ UNCHANGED loads
  <2>1. /\ picture' \in [Chats -> {"no", "fetching", "cached"}]
        /\ \A d \in Chats : picture'[d] = "cached" => picture[d] = "cached"
    BY <1>1 DEF PageTyped
  <2> QED
    BY <1>0, <1>1, <2>1, StoreStep
<1>2. CASE /\ picture' = [picture EXCEPT ![c] = "cached"]
           /\ ReloadCurrent(IF model.chat = c THEN loads ELSE Unnoticed(MissedPicture(c)))
  <2>0. /\ picture' \in [Chats -> {"no", "fetching", "cached"}]
        /\ \A d \in Chats : d # c => picture'[d] = picture[d]
    BY <1>2 DEF PageTyped
  <2>1. CASE model.chat # None
    <3> DEFINE running == IF model.chat = c THEN loads ELSE Unnoticed(MissedPicture(c))
    <3>1. Alike(running)
      BY LoadsAlike, UnnoticedIs
    <3>2. ReloadCurrent(running)
      BY <1>2
    <3> HIDE DEF running
    <3> QED
      BY <1>0, <2>0, <2>1, <3>1, <3>2, ReloadSound
  <2>2. CASE model.chat = None
    <3> DEFINE L == Len(loads)
               l == loads[L]
    <3>1. loads' = Unnoticed(MissedPicture(c))
      BY <1>0, <1>2, <2>2 DEF ReloadCurrent
    <3>2. Alike(loads') /\ \A i \in 1..L : i \in MissedPicture(c) => loads'[i].shown.late
      BY <3>1, UnnoticedIs
    <3>3. L \in Nat /\ DOMAIN loads = 1..L
      BY DEF PageTyped
    <3>4. ASSUME L > 0, ~loads'[L].shown.late, c = header, l.step = "built"
          PROVE  l.shown.pic
      <4>0. L \in 1..L
        BY <3>3, <3>4
      <4>1. ~l.shown.late
        BY <3>2, <3>4, <4>0 DEF Alike
      <4>2. l.shown.of = c
        BY <3>4, <4>0, <4>1 DEF PageSound, Good
      <4> QED
        BY <3>2, <3>3, <3>4, <4>0, <4>2 DEF MissedPicture
    <3>5. ASSUME L > 0
          PROVE  \/ loads'[L].shown.late
                 \/ \A n \in Nat, d \in Chats :
                      d = header =>
                        /\ l.step # "begun" /\ n = l.shown.rows /\ AllRows(n) =>
                             n = stored'[d] \/ arriving'[d] # "no"
                        /\ picture'[d] = "cached" /\ l.step = "built" =>
                             picture[d] = "cached" \/ l.shown.pic
      <4> SUFFICES ASSUME ~loads'[L].shown.late, NEW n \in Nat, NEW d \in Chats, d = header
                   PROVE  /\ n = l.shown.rows /\ AllRows(n) => n = stored'[d] \/ arriving'[d] # "no"
                          /\ picture'[d] = "cached" /\ l.step = "built" =>
                               picture[d] = "cached" \/ l.shown.pic
        OBVIOUS
      <4>1. n = l.shown.rows /\ AllRows(n) => n = stored'[d] \/ arriving'[d] # "no"
        BY <1>0 DEF AllRows
      <4>2. picture'[d] = "cached" /\ l.step = "built" => picture[d] = "cached" \/ l.shown.pic
        BY <2>0, <3>4, <3>5
      <4> QED
        BY <4>1, <4>2
    <3>6. \A d \in Chats : ~(d = header /\ model.chat = header)
      BY <2>2, ViewAssumption
    <3>7. loads' \in Seq(Load) /\ RowsSound' /\ PageSound'
      BY <1>0, <3>2, <3>5, <3>6, RestSound
    <3> QED
      BY <1>0, <2>0, <3>7 DEF PageTyped
  <2> QED
    BY <2>1, <2>2
<1> QED
  BY <1>1, <1>2 DEF Fetched

\* A load goes on: it keeps its chat and its way, and what it has seen is so.
LEMMA LoadStep ==
  ASSUME PageTyped, PageSound, NEW i \in 1..Len(loads), NEW l, l \in Load, loads' = [loads EXCEPT ![i] = l],
         l.how = loads[i].how, l.shown.of = loads[i].shown.of, l.shown.late <=> loads[i].shown.late,
         l.step # "begun" => l.shown.rows \in 1..stored[l.shown.of],
         l.step # "begun" => (loads[i].step # "begun" /\ l.shown.rows = loads[i].shown.rows)
                             \/ l.shown.rows = stored[l.shown.of],
         l.step = "built" /\ picture[l.shown.of] = "cached" => l.shown.pic,
         UNCHANGED <<header, model, stored, arriving>>, picture' \in [Chats -> {"no", "fetching", "cached"}],
         \A c \in Chats : picture'[c] = "cached" <=> picture[c] = "cached"
  PROVE  PageTyped' /\ PageSound'
<1> DEFINE n == Len(loads)
<1>0. n \in Nat /\ loads \in Seq(Load)
  BY DEF PageTyped
<1>1. /\ loads' \in Seq(Load) /\ Len(loads') = n
      /\ \A j \in 1..n : loads'[j] = IF j = i THEN l ELSE loads[j]
  BY <1>0, ExceptSeq
<1>2. RowsSound'
  <2> SUFFICES ASSUME NEW j \in 1..n
               PROVE  loads'[j].step # "begun" => loads'[j].shown.rows \in 1..stored[loads'[j].shown.of]
    BY <1>1 DEF RowsSound, HasRows
  <2>1. CASE j = i
    BY <1>1, <2>1
  <2>2. CASE j # i
    BY <1>1, <2>2 DEF PageTyped, RowsSound, HasRows
  <2> QED
    BY <2>1, <2>2
<1>3. ChatFollows'
  <2>1. \A j \in 1..n : loads'[j].how = loads[j].how /\ loads'[j].shown.of = loads[j].shown.of
    BY <1>1
  <2> QED
    BY <1>1, <2>1 DEF ChatFollows, PageSound
<1>4. ASSUME n > 0
      PROVE  Good(loads[Len(loads)])'
  <2>0. n \in 1..n /\ loads[Len(loads)]' = loads'[n] /\ Good(loads[n]) /\ loads[n] \in Load
    BY <1>0, <1>1, <1>4 DEF PageSound
  <2>1. CASE n # i
    <3>0. loads'[n] = loads[n]
      BY <1>1, <2>0, <2>1
    <3>1. loads'[n] = loads[n] /\ loads[n].shown.of \in Chats
      BY <2>0, <3>0 DEF Load
    <3> QED
      BY <2>0, <3>1 DEF Good, AllRows, Pictured
  <2>2. CASE n = i
    <3>1. loads'[n] = l /\ l.shown.of \in Chats
      BY <1>1, <2>0, <2>2 DEF Load
    <3>2. CASE l.shown.late
      BY <2>0, <3>1, <3>2 DEF Good
    <3>3. CASE ~l.shown.late
      <4>1. l.shown.of = header /\ (loads[i].step # "begun" => AllRows(loads[i].shown.rows))
        BY <2>0, <2>2, <3>3 DEF Good
      <4>2. l.step # "begun" => l.shown.rows = stored[header] \/ arriving[header] # "no"
        BY <4>1 DEF AllRows
      <4>3. l.step = "built" /\ picture'[header] = "cached" => l.shown.pic
        BY <3>1, <4>1
      <4> QED
        BY <2>0, <3>1, <4>1, <4>2, <4>3 DEF Good, AllRows, Pictured
    <3> QED
      BY <3>2, <3>3
  <2> QED
    BY <2>1, <2>2
<1>5. Len(loads') # 0
  BY <1>0, <1>1
<1>b. Good(loads[Len(loads)])'
  BY <1>0, <1>4
<1>6. PageTyped'
  BY <1>1, <1>2 DEF PageTyped
<1>7. PageSound'
  BY <1>3, <1>5, <1>b DEF PageSound
<1> QED
  BY <1>6, <1>7

LEMMA ReadSound ==
  ASSUME PageTyped, PageSound, NEW i \in 1..Len(loads), Read(i)
  PROVE  PageTyped' /\ PageSound'
<1> DEFINE l == loads[i]
           m == [l EXCEPT !.step = "read", !.shown.rows = stored[l.shown.of]]
<1>0. l \in Load /\ loads \in Seq(Load)
  BY DEF PageTyped
<1>1. l \in Load /\ loads \in Seq(Load) /\ stored[l.shown.of] \in Nat \ {0}
  <2>1. l.shown.of \in Chats
    BY <1>0 DEF Load
  <2> QED
    BY <1>0, <2>1 DEF PageTyped
<1>2. loads' = [loads EXCEPT ![i] = m]
  BY <1>1 DEF Read
<1>3. /\ m \in Load /\ m.how = l.how /\ m.step = "read" /\ m.shown.of = l.shown.of
      /\ m.shown.late = l.shown.late /\ m.shown.rows = stored[l.shown.of]
  BY <1>1 DEF Load
<1>4. /\ UNCHANGED <<header, model, stored, arriving>> /\ UNCHANGED picture
      /\ picture' \in [Chats -> {"no", "fetching", "cached"}]
  BY DEF Read, page, chats, PageTyped
<1>5. m.shown.rows \in 1..stored[m.shown.of]
  BY <1>1, <1>3
<1> HIDE DEF l, m
<1> QED
  BY <1>2, <1>3, <1>4, <1>5, LoadStep DEF l

LEMMA MarkSound ==
  ASSUME PageTyped, PageSound, NEW i \in 1..Len(loads), Mark(i)
  PROVE  PageTyped' /\ PageSound'
<1> DEFINE l == loads[i]
           m == [l EXCEPT !.step = "marked"]
<1>0. l \in Load /\ loads \in Seq(Load) /\ HasRows(l)
  BY DEF PageTyped, RowsSound
<1>1. l \in Load /\ loads \in Seq(Load) /\ HasRows(l) /\ l.shown.of \in Chats
  <2>1. l.shown.of \in Chats
    BY <1>0 DEF Load
  <2> QED
    BY <1>0, <2>1
<1>2. l.step = "read" /\ loads' = [loads EXCEPT ![i] = m]
  BY <1>1 DEF Mark
<1>3. m \in Load /\ m.how = l.how /\ m.step = "marked" /\ m.shown = l.shown
  BY <1>1 DEF Load
<1>4. UNCHANGED <<header, model, stored, arriving>>
  BY DEF Mark, page, chats
<1>5. /\ picture' \in [Chats -> {"no", "fetching", "cached"}]
      /\ \A c \in Chats : picture'[c] = "cached" <=> picture[c] = "cached"
  BY <1>1 DEF Mark, Prefetch, PageTyped
<1>6. l.shown.rows \in 1..stored[l.shown.of]
  BY <1>1, <1>2 DEF HasRows
<1> HIDE DEF l, m
<1> QED
  BY <1>2, <1>3, <1>4, <1>5, <1>6, LoadStep DEF l

LEMMA BuildSound ==
  ASSUME PageTyped, PageSound, NEW i \in 1..Len(loads), Build(i)
  PROVE  PageTyped' /\ PageSound'
<1> DEFINE l == loads[i]
           pic == l.shown.pic \/ (l.shown.rows > 0 /\ picture[l.shown.of] = "cached")
           m == [l EXCEPT !.step = "built", !.shown.pic = pic]
<1>1. l \in Load /\ loads \in Seq(Load) /\ HasRows(l)
  BY DEF PageTyped, RowsSound
<1>2. l.step = "marked" /\ loads' = [loads EXCEPT ![i] = m]
  BY <1>1 DEF Build
<1>3. l.shown.rows \in 1..stored[l.shown.of] /\ stored[l.shown.of] \in Nat
  BY <1>1, <1>2 DEF HasRows, PageTyped, Load
<1>4. pic \in BOOLEAN /\ (picture[l.shown.of] = "cached" => pic)
  BY <1>1, <1>3 DEF Load
<1> HIDE DEF pic
<1>5. /\ m \in Load /\ m.how = l.how /\ m.step = "built" /\ m.shown.of = l.shown.of
      /\ m.shown.late = l.shown.late /\ m.shown.rows = l.shown.rows /\ m.shown.pic = pic
  BY <1>1, <1>4 DEF Load
<1>6. /\ UNCHANGED <<header, model, stored, arriving>> /\ UNCHANGED picture
      /\ picture' \in [Chats -> {"no", "fetching", "cached"}]
  BY DEF Build, page, chats, PageTyped
<1> HIDE DEF l, m
<1> QED
  BY <1>2, <1>3, <1>4, <1>5, <1>6, LoadStep DEF l

\* Rows are handed over: the loads that began before are overtaken.
LEMMA ApplySound ==
  ASSUME PageTyped, PageSound, NEW i \in 1..Len(loads), Apply(i)
  PROVE  PageTyped' /\ PageSound'
<1> DEFINE l == loads[i]
           n == Len(loads)
           u == [j \in DOMAIN loads |-> [loads[j] EXCEPT !.shown.late = @ \/ j < i]]
<1>a. n \in Nat /\ i \in 1..n
  BY DEF PageTyped
<1>b. loads \in Seq(Load) /\ DOMAIN loads = 1..n /\ l \in Load /\ \A j \in 1..n : loads[j] \in Load
  BY DEF PageTyped
<1>c. l.shown.of \in Chats
  BY <1>b DEF Load
<1>0. /\ n \in Nat /\ n >= 1 /\ loads \in Seq(Load) /\ DOMAIN loads = 1..n /\ l \in Load /\ l.shown.of \in Chats
      /\ \A j \in 1..n : loads[j] \in Load
      /\ l.step = "built" /\ UNCHANGED <<header, stored, arriving, picture>>
  BY <1>a, <1>b, <1>c DEF Apply, chats
<1>1. loads' = RemoveAt(u, i)
  BY DEF Apply
<1>2. ASSUME NEW j \in 1..n
      PROVE  /\ u[j] \in Load /\ u[j].how = loads[j].how /\ u[j].step = loads[j].step
             /\ u[j].shown.of = loads[j].shown.of /\ u[j].shown.rows = loads[j].shown.rows
             /\ u[j].shown.pic = loads[j].shown.pic
             /\ u[j].shown.late <=> loads[j].shown.late \/ j < i
  <2> DEFINE x == loads[j]
             b == x.shown.late \/ j < i
             y == [x EXCEPT !.shown.late = b]
  <2>1. u[j] = y /\ x \in Load
    BY <1>0
  <2>2. b \in BOOLEAN /\ (b <=> loads[j].shown.late \/ j < i)
    BY <2>1 DEF Load
  <2> HIDE DEF b, u
  <2>3. /\ y \in Load /\ y.shown.late = b /\ y.shown.of = x.shown.of /\ y.shown.rows = x.shown.rows
        /\ y.shown.pic = x.shown.pic /\ y.how = x.how /\ y.step = x.step
    BY <2>1, <2>2, LateIs
  <2> HIDE DEF y
  <2> QED
    BY <2>1, <2>2, <2>3
<1>3. u = [j \in DOMAIN loads |-> u[j]]
  OBVIOUS
<1> HIDE DEF u
<1>4. u \in Seq(Load) /\ Len(u) = n
  BY <1>0, <1>2, <1>3, MapSeq
<1>5. /\ loads' \in Seq(Load) /\ Len(loads') = n - 1
      /\ \A j \in 1..n - 1 : loads'[j] = IF j < i THEN u[j] ELSE u[j + 1]
  BY <1>1, <1>4, RemoveIs
<1>6. model' \in Page
  <2>1. model \in Page
    BY DEF PageTyped
  <2>2. CASE l.how # "open"
    <3>1. model' = [model EXCEPT !.shown = l.shown]
      BY <2>2 DEF Apply
    <3> QED
      BY <1>0, <2>1, <3>1 DEF Page, Load
  <2>3. CASE l.how = "open"
    <3> DEFINE away == l.shown.of # header
    <3>1. model' = [chat |-> l.shown.of, shown |-> l.shown, displaced |-> away] /\ away \in BOOLEAN
      BY <2>3 DEF Apply
    <3> HIDE DEF away
    <3> QED
      BY <1>0, <3>1 DEF Page, Load
  <2> QED
    BY <2>2, <2>3
<1>7. RowsSound'
  <2> SUFFICES ASSUME NEW j \in 1..n - 1
               PROVE  loads'[j].step # "begun" => loads'[j].shown.rows \in 1..stored[loads'[j].shown.of]
    BY <1>0, <1>5 DEF RowsSound, HasRows
  <2>1. PICK k \in 1..n : loads'[j] = u[k]
    BY <1>0, <1>5
  <2>2. HasRows(loads[k])
    BY <2>1 DEF PageTyped, RowsSound
  <2> QED
    BY <1>2, <2>1, <2>2 DEF HasRows
<1>8. ChatFollows'
  <2> SUFFICES ASSUME header # None, ~model'.displaced
               PROVE  \/ model'.chat = header
                      \/ \E j \in 1..n - 1 : loads'[j].how = "open" /\ loads'[j].shown.of = header
    BY <1>0, <1>5 DEF ChatFollows
  <2>1. CASE l.how = "open"
    <3> DEFINE away == l.shown.of # header
    <3>1. model' = [chat |-> l.shown.of, shown |-> l.shown, displaced |-> away]
      BY <2>1 DEF Apply
    <3>2. model'.chat = l.shown.of /\ (model'.displaced <=> away)
      <4> HIDE DEF away
      <4> QED
        BY <3>1
    <3> QED
      BY <3>2
  <2>2. CASE l.how # "open"
    <3>1. model' = [model EXCEPT !.shown = l.shown]
      BY <2>2 DEF Apply
    <3>2. model'.chat = model.chat /\ model'.displaced = model.displaced
      BY <3>1 DEF PageTyped, Page
    <3>3. ASSUME NEW k \in 1..n, loads[k].how = "open", loads[k].shown.of = header
          PROVE  \E j \in 1..n - 1 : loads'[j].how = "open" /\ loads'[j].shown.of = header
      <4>1. k # i /\ u[k].how = "open" /\ u[k].shown.of = header
        BY <1>2, <2>2, <3>3
      <4>2. CASE k < i
        <5>1. k \in 1..n - 1 /\ loads'[k] = u[k]
          BY <1>0, <1>5, <4>2
        <5> QED
          BY <4>1, <5>1
      <4>3. CASE k > i
        <5>1. k - 1 \in 1..n - 1 /\ ~(k - 1 < i) /\ (k - 1) + 1 = k
          BY <1>0, <4>3
        <5>2. loads'[k - 1] = u[k]
          BY <1>5, <5>1
        <5> QED
          BY <4>1, <5>1, <5>2
      <4> QED
        BY <1>0, <4>1, <4>2, <4>3
    <3> QED
      BY <3>2, <3>3 DEF PageSound, ChatFollows
  <2> QED
    BY <2>1, <2>2
<1>9. ASSUME n - 1 > 0
      PROVE  \/ loads'[n - 1].shown.late
             \/ /\ loads'[n - 1].shown.of = header
                /\ loads'[n - 1].step # "begun" => AllRows(loads'[n - 1].shown.rows)
                /\ loads'[n - 1].step = "built" => Pictured(loads'[n - 1].shown.pic)
  <2>1. CASE i = n
    <3>1. n - 1 \in 1..n - 1 /\ n - 1 \in 1..n /\ n - 1 < i
      <4> HIDE DEF n
      <4> QED
        BY <1>a, <1>9, <2>1
    <3>2. loads'[n - 1] = u[n - 1]
      BY <1>5, <3>1
    <3> QED
      BY <1>2, <3>1, <3>2
  <2>2. CASE i # n
    <3>1. n - 1 \in 1..n - 1 /\ n \in 1..n /\ ~(n - 1 < i) /\ ~(n < i) /\ (n - 1) + 1 = n
      <4> HIDE DEF n
      <4> QED
        BY <1>a, <1>9, <2>2
    <3>2. loads'[n - 1] = u[n]
      BY <1>5, <3>1
    <3>3. Good(loads[n])
      BY <1>0 DEF PageSound
    <3>4. /\ u[n].step = loads[n].step /\ u[n].shown.of = loads[n].shown.of
          /\ u[n].shown.rows = loads[n].shown.rows /\ u[n].shown.pic = loads[n].shown.pic
          /\ loads[n].shown.late => u[n].shown.late
      BY <1>2, <3>1
    <3> QED
      BY <3>2, <3>3, <3>4 DEF Good
  <2> QED
    BY <2>1, <2>2
<1>10. ASSUME n - 1 = 0, header # None, ~model'.shown.late
       PROVE  model'.shown.of = header /\ AllRows(model'.shown.rows) /\ Pictured(model'.shown.pic)
  <2>1. i = n /\ Good(l)
    <3>1. i = n /\ n > 0
      <4> HIDE DEF n
      <4> QED
        BY <1>a, <1>10
    <3> QED
      BY <3>1 DEF PageSound
  <2>2. model'.shown = l.shown
    <3>1. CASE l.how # "open"
      BY <3>1 DEF Apply, PageTyped, Page
    <3>2. CASE l.how = "open"
      <4> DEFINE away == l.shown.of # header
      <4>1. model' = [chat |-> l.shown.of, shown |-> l.shown, displaced |-> away]
        BY <3>2 DEF Apply
      <4> HIDE DEF away
      <4> QED
        BY <4>1
    <3> QED
      BY <3>1, <3>2
  <2> QED
    BY <1>0, <1>10, <2>1, <2>2 DEF Good
<1>11. PageTyped'
  BY <1>0, <1>5, <1>6, <1>7 DEF PageTyped
<1>12. PageSound'
  BY <1>0, <1>5, <1>8, <1>9, <1>10 DEF PageSound, Good, AllRows, Pictured
<1> QED
  BY <1>11, <1>12

-----------------------------------------------------------------------------
(* The counter and the marker.  A chat of which no race was run is counted   *)
(* as far as it is not seen, or a task that will clear the counter stands    *)
(* for all that was seen; and what was seen is told, or a task will tell it. *)

MarkSteps == {"clear", "command", "core"}

MarksTyped ==
  /\ unread \in [Chats -> Nat]
  /\ marked \in [Chats -> Nat] /\ told \in [Chats -> Nat] /\ seen \in [Chats -> Nat]
  /\ marking \subseteq Chats \X Nat \X MarkSteps

\* How many messages of the chat were counted, ever.
Counted(c) == IF arriving[c] = "inserted" THEN stored[c] - 1 ELSE stored[c]

Bounds(c) ==
  /\ seen[c] <= stored[c] /\ marked[c] <= seen[c] /\ told[c] <= seen[c]
  /\ \A n \in Nat, s \in MarkSteps : <<c, n, s>> \in marking => n <= seen[c]

Telling(c) ==
  "regressed" \notin races[c] =>
    /\ marked[c] = seen[c]
    /\ told[c] = seen[c] \/ \E s \in MarkSteps : <<c, seen[c], s>> \in marking

Counting(c) ==
  races[c] \cap {"swallowed", "recounted"} = {} =>
    /\ Counted(c) <= unread[c] + seen[c]
    /\ \/ unread[c] + seen[c] = Counted(c)
       \/ unread[c] = 0
       \/ \E s \in {"clear", "command"} : <<c, seen[c], s>> \in marking

MarksSound == \A c \in Chats : Bounds(c) /\ Telling(c) /\ Counting(c)

\* A chat that a step does not touch, but for a race it may add.
LEMMA MarksStay ==
  ASSUME NEW c \in Chats, Bounds(c), Telling(c), Counting(c),
         stored'[c] = stored[c], Counted(c)' = Counted(c), unread'[c] = unread[c],
         marked'[c] = marked[c], told'[c] = told[c], seen'[c] = seen[c], races[c] \subseteq races'[c],
         \A n \in Nat, s \in MarkSteps : <<c, n, s>> \in marking' <=> <<c, n, s>> \in marking,
         seen[c] \in Nat
  PROVE  Bounds(c)' /\ Telling(c)' /\ Counting(c)'
<1>1. Bounds(c)'
  BY DEF Bounds
<1>2. Telling(c)'
  BY DEF Telling
<1>3. {"clear", "command"} \subseteq MarkSteps
  BY DEF MarkSteps
<1>4. Counting(c)'
  BY <1>3 DEF Counting
<1> QED
  BY <1>1, <1>2, <1>4

LEMMA MarksRest ==
  ASSUME PageTyped, MarksTyped, MarksSound, UNCHANGED <<stored, arriving, unread, marks>>,
         \A c \in Chats : races[c] \subseteq races'[c]
  PROVE  MarksTyped' /\ MarksSound'
<1>1. MarksTyped'
  BY DEF MarksTyped, marks
<1>2. ASSUME NEW c \in Chats PROVE Bounds(c)' /\ Telling(c)' /\ Counting(c)'
  <2>1. Counted(c)' = Counted(c) /\ seen[c] \in Nat /\ UNCHANGED <<marked, marking, told, seen>>
    BY DEF Counted, MarksTyped, marks
  <2> QED
    BY <2>1, MarksStay DEF MarksSound
<1> QED
  BY <1>1, <1>2 DEF MarksSound

LEMMA CountMarks ==
  ASSUME PageTyped, LockSound, MarksTyped, MarksSound, NEW c \in Chats, Insert(c) \/ Bump(c) \/ NoteStored(c)
  PROVE  MarksTyped' /\ MarksSound'
<1>0. /\ UNCHANGED <<marked, marking, told, seen>>
      /\ stored[c] \in Nat /\ seen[c] \in Nat /\ unread[c] \in Nat /\ Bounds(c) /\ Telling(c) /\ Counting(c)
  BY DEF Insert, Bump, NoteStored, marks, MarksTyped, MarksSound, PageTyped
<1>1. MarksTyped'
  BY <1>0 DEF Insert, Bump, NoteStored, MarksTyped
<1>2. ASSUME NEW d \in Chats, d # c
      PROVE  Bounds(d)' /\ Telling(d)' /\ Counting(d)'
  <2>1. /\ stored'[d] = stored[d] /\ arriving'[d] = arriving[d] /\ unread'[d] = unread[d]
        /\ races[d] \subseteq races'[d] /\ seen[d] \in Nat
    BY <1>2 DEF Insert, Bump, NoteStored, PageTyped, MarksTyped, LockSound, Race
  <2>2. Counted(d)' = Counted(d)
    BY <2>1 DEF Counted
  <2> QED
    BY <1>0, <2>1, <2>2, MarksStay DEF MarksSound
<1>3. CASE Insert(c)
  <2>1. /\ stored'[c] = stored[c] + 1 /\ arriving[c] = "no" /\ arriving'[c] = "inserted"
        /\ unread'[c] = unread[c] /\ races' = races
    BY <1>3 DEF Insert, PageTyped
  <2>2. Counted(c) = stored[c] /\ Counted(c)' = stored[c]
    BY <1>0, <2>1 DEF Counted
  <2>3. Bounds(c)'
    BY <1>0, <2>1 DEF Bounds
  <2>4. Telling(c)' /\ Counting(c)'
    BY <1>0, <2>1, <2>2 DEF Telling, Counting
  <2> QED
    BY <1>1, <1>2, <2>3, <2>4 DEF MarksSound
<1>4. CASE NoteStored(c)
  <2>1. /\ stored'[c] = stored[c] /\ arriving[c] = "bumped" /\ arriving'[c] = "no"
        /\ unread'[c] = unread[c] /\ races' = races
    BY <1>4 DEF NoteStored, PageTyped
  <2>2. Counted(c)' = Counted(c)
    BY <2>1 DEF Counted
  <2>3. Bounds(c)' /\ Telling(c)' /\ Counting(c)'
    BY <1>0, <2>1, <2>2, MarksStay
  <2> QED
    BY <1>1, <1>2, <2>3 DEF MarksSound
<1>5. CASE Bump(c)
  <2>1. /\ stored'[c] = stored[c] /\ arriving[c] = "inserted" /\ arriving'[c] = "bumped"
        /\ unread'[c] = unread[c] + 1
    BY <1>5 DEF Bump, PageTyped, MarksTyped
  <2>2. Counted(c) = stored[c] - 1 /\ Counted(c)' = stored[c]
    BY <2>1 DEF Counted
  <2>3. races' = IF seen[c] = stored[c] THEN Race(c, "recounted") ELSE races
    BY <1>5 DEF Bump
  <2>4. races[c] \subseteq races'[c] /\ (seen[c] = stored[c] => "recounted" \in races'[c])
    BY <2>3 DEF Race, LockSound
  <2>5. Bounds(c)'
    BY <1>0, <2>1 DEF Bounds
  <2>6. Telling(c)'
    BY <1>0, <2>1, <2>4 DEF Telling
  <2>7. Counting(c)'
    <3> SUFFICES ASSUME races'[c] \cap {"swallowed", "recounted"} = {}
                 PROVE  /\ stored[c] <= (unread[c] + 1) + seen[c]
                        /\ \/ (unread[c] + 1) + seen[c] = stored[c]
                           \/ unread'[c] = 0
                           \/ \E s \in {"clear", "command"} : <<c, seen[c], s>> \in marking
      BY <1>0, <2>1, <2>2 DEF Counting
    <3>1. races[c] \cap {"swallowed", "recounted"} = {} /\ seen[c] # stored[c]
      BY <2>4
    <3>2. seen[c] <= stored[c]
      BY <1>0 DEF Bounds
    <3>3. /\ stored[c] - 1 <= unread[c] + seen[c]
          /\ \/ unread[c] + seen[c] = stored[c] - 1
             \/ unread[c] = 0
             \/ \E s \in {"clear", "command"} : <<c, seen[c], s>> \in marking
      BY <1>0, <2>2, <3>1 DEF Counting
    <3> QED
      BY <1>0, <3>1, <3>2, <3>3
  <2> QED
    BY <1>1, <1>2, <2>5, <2>6, <2>7 DEF MarksSound
<1> QED
  BY <1>3, <1>4, <1>5

\* A load that marks what it has read.
LEMMA SeenMarks ==
  ASSUME PageTyped, LockSound, MarksTyped, MarksSound, NEW i \in 1..Len(loads), Mark(i)
  PROVE  MarksTyped' /\ MarksSound'
<1>1. UNCHANGED <<stored, arriving, unread>>
  BY DEF Mark, chats
<1>2. CASE loads[i].how = "older"
  <2>1. UNCHANGED <<marks, races>>
    BY <1>2 DEF Mark
  <2> QED
    BY <1>1, <2>1, MarksRest
<1>3. CASE loads[i].how # "older"
  <2>0. loads[i] \in Load /\ HasRows(loads[i]) /\ loads[i].step = "read"
    BY DEF PageTyped, RowsSound, Mark
  <2>a. loads[i].shown.of \in Chats /\ loads[i].shown.rows \in Nat
    BY <2>0 DEF Load
  <2>b. PICK c \in Chats, n \in Nat : c = loads[i].shown.of /\ n = loads[i].shown.rows
    BY <2>a
  <2>1. c \in Chats /\ n \in 1..stored[c] /\ stored[c] \in Nat
    BY <2>0, <2>b DEF HasRows, PageTyped
  <2>2. MarkDisplayed(c, n)
    BY <1>3, <2>b DEF Mark
  <2>3. /\ n \in Nat /\ n # 0 /\ n <= stored[c] /\ seen[c] \in Nat /\ marked[c] \in Nat /\ told[c] \in Nat
        /\ unread[c] \in Nat /\ Bounds(c) /\ Telling(c) /\ Counting(c)
    BY <2>1 DEF MarksTyped, MarksSound
  <2>4. /\ seen' = [seen EXCEPT ![c] = IF n > @ THEN n ELSE @]
        /\ marked' = [marked EXCEPT ![c] = n] /\ told' = told
        /\ marking' = IF marked' = marked THEN marking ELSE marking \cup {<<c, n, "clear">>}
        /\ races' = IF n < seen[c] THEN Race(c, "regressed") ELSE races
    BY <2>2, <2>3 DEF MarkDisplayed
  <2>5. /\ seen'[c] = (IF n > seen[c] THEN n ELSE seen[c]) /\ marked'[c] = n
        /\ \A d \in Chats : d # c => seen'[d] = seen[d] /\ marked'[d] = marked[d]
        /\ marking \subseteq marking' /\ marking' \subseteq marking \cup {<<c, n, "clear">>}
        /\ marked[c] # n => <<c, n, "clear">> \in marking'
    BY <2>1, <2>4 DEF MarksTyped
  <2>6. /\ \A d \in Chats : races[d] \subseteq races'[d]
        /\ n < seen[c] => "regressed" \in races'[c]
        /\ races'[c] \cap {"swallowed", "recounted"} = {} => races[c] \cap {"swallowed", "recounted"} = {}
    BY <2>1, <2>4 DEF Race, LockSound
  <2>7. MarksTyped'
    <3>1. seen' \in [Chats -> Nat] /\ marked' \in [Chats -> Nat]
      BY <2>3, <2>4 DEF MarksTyped
    <3>2. <<c, n, "clear">> \in Chats \X Nat \X MarkSteps
      BY <2>1, <2>3 DEF MarkSteps
    <3>3. marking' \subseteq Chats \X Nat \X MarkSteps
      BY <2>5, <3>2 DEF MarksTyped
    <3> QED
      BY <1>1, <2>4, <3>1, <3>3 DEF MarksTyped
  <2>8. ASSUME NEW d \in Chats, d # c
        PROVE  Bounds(d)' /\ Telling(d)' /\ Counting(d)'
    <3>1. \A k \in Nat, s \in MarkSteps : <<d, k, s>> \in marking' <=> <<d, k, s>> \in marking
      BY <2>5, <2>8
    <3>2. Counted(d)' = Counted(d) /\ seen[d] \in Nat
      BY <1>1 DEF Counted, MarksTyped
    <3> QED
      BY <1>1, <2>4, <2>5, <2>6, <2>8, <3>1, <3>2, MarksStay DEF MarksSound
  <2>9. Bounds(c)'
    <3>1. seen[c] <= stored[c] /\ told[c] <= seen[c] /\ \A k \in Nat, s \in MarkSteps : <<c, k, s>> \in marking => k <= seen[c]
      BY <2>3 DEF Bounds
    <3>2. seen'[c] <= stored[c] /\ n <= seen'[c] /\ seen[c] <= seen'[c] /\ seen'[c] \in Nat
      BY <2>1, <2>3, <2>5, <3>1
    <3>3. ASSUME NEW k \in Nat, NEW s \in MarkSteps, <<c, k, s>> \in marking'
          PROVE  k <= seen'[c]
      <4>1. k = n \/ <<c, k, s>> \in marking
        BY <2>5, <3>3
      <4> QED
        BY <2>3, <3>1, <3>2, <4>1
    <3>4. told'[c] <= seen'[c]
      BY <2>3, <2>4, <3>1, <3>2
    <3> QED
      BY <1>1, <2>5, <3>2, <3>3, <3>4 DEF Bounds
  <2>10. Telling(c)'
    <3> SUFFICES ASSUME "regressed" \notin races'[c]
                 PROVE  /\ marked'[c] = seen'[c]
                        /\ told'[c] = seen'[c] \/ \E s \in MarkSteps : <<c, seen'[c], s>> \in marking'
      BY DEF Telling
    <3>1. ~(n < seen[c]) /\ marked[c] = seen[c]
          /\ (told[c] = seen[c] \/ \E s \in MarkSteps : <<c, seen[c], s>> \in marking)
      BY <2>1, <2>3, <2>6 DEF Telling
    <3>2. seen'[c] = n
      BY <2>3, <2>5, <3>1
    <3>3. CASE marked[c] = n
      BY <2>4, <2>5, <3>1, <3>2, <3>3
    <3>4. CASE marked[c] # n
      BY <2>5, <3>2, <3>4 DEF MarkSteps
    <3> QED
      BY <2>5, <3>2, <3>3, <3>4
  <2>11. Counting(c)'
    <3>0. Counted(c)' = Counted(c) /\ Counted(c) \in Int
      BY <1>1, <2>1 DEF Counted
    <3> SUFFICES ASSUME races'[c] \cap {"swallowed", "recounted"} = {}
                 PROVE  /\ Counted(c) <= unread[c] + seen'[c]
                        /\ \/ unread[c] + seen'[c] = Counted(c)
                           \/ unread[c] = 0
                           \/ \E s \in {"clear", "command"} : <<c, seen'[c], s>> \in marking'
      BY <1>1, <3>0 DEF Counting
    <3>1. /\ Counted(c) <= unread[c] + seen[c]
          /\ \/ unread[c] + seen[c] = Counted(c)
             \/ unread[c] = 0
             \/ \E s \in {"clear", "command"} : <<c, seen[c], s>> \in marking
      BY <2>3, <2>6 DEF Counting
    <3>2. CASE n > seen[c]
      <4>1. seen'[c] = n /\ marked[c] # n
        BY <2>3, <2>5, <3>2 DEF Bounds
      <4>2. Counted(c) <= unread[c] + n
        BY <2>3, <3>0, <3>1, <3>2
      <4> QED
        BY <2>5, <4>1, <4>2
    <3>3. CASE ~(n > seen[c])
      <4>1. seen'[c] = seen[c]
        BY <2>5, <3>3
      <4> QED
        BY <2>5, <3>1, <4>1
    <3> QED
      BY <3>2, <3>3
  <2> QED
    BY <2>7, <2>8, <2>9, <2>10, <2>11 DEF MarksSound
<1> QED
  BY <1>2, <1>3

\* A task clears the counter: with it go the messages that were counted since its rows were read,
\* and then the chat is one of those that swallowed some.
LEMMA ClearMarks ==
  ASSUME PageTyped, LockSound, MarksTyped, MarksSound, NEW c, NEW n, NEW s \in {"clear", "command"},
         NEW t \in MarkSteps, <<c, n, s>> \in marking, Clear(c, n),
         marking' = (marking \ {<<c, n, s>>}) \cup {<<c, n, t>>}, UNCHANGED <<marked, told, seen>>
  PROVE  MarksTyped' /\ MarksSound'
<1>0. c \in Chats /\ n \in Nat /\ s \in MarkSteps
  BY DEF MarksTyped, MarkSteps
<1>1. /\ stored' = stored /\ arriving' = arriving /\ unread' = [unread EXCEPT ![c] = 0]
      /\ races' = IF Counted(c) > n /\ unread[c] > 0 THEN Race(c, "swallowed") ELSE races
  BY DEF Clear, Counted
<1>2. /\ stored[c] \in Nat /\ seen[c] \in Nat /\ unread[c] \in Nat /\ Counted(c) \in Int
      /\ Bounds(c) /\ Telling(c) /\ Counting(c)
  <2>1. stored[c] \in Nat
    BY <1>0 DEF PageTyped
  <2> QED
    BY <1>0, <2>1 DEF MarksTyped, MarksSound, Counted
<1>3. /\ unread'[c] = 0 /\ \A d \in Chats : d # c => unread'[d] = unread[d]
      /\ \A d \in Chats : races[d] \subseteq races'[d]
      /\ Counted(c) > n /\ unread[c] > 0 => "swallowed" \in races'[c]
  BY <1>0, <1>1 DEF MarksTyped, Race, LockSound
<1>4. MarksTyped'
  BY <1>0, <1>1 DEF MarksTyped
<1>5. ASSUME NEW d \in Chats, d # c
      PROVE  Bounds(d)' /\ Telling(d)' /\ Counting(d)'
  <2>1. \A k \in Nat, x \in MarkSteps : <<d, k, x>> \in marking' <=> <<d, k, x>> \in marking
    BY <1>5
  <2>2. Counted(d)' = Counted(d) /\ seen[d] \in Nat
    BY <1>1 DEF Counted, MarksTyped
  <2> QED
    BY <1>1, <1>3, <1>5, <2>1, <2>2, MarksStay DEF MarksSound
<1>6. n <= seen[c]
  BY <1>0, <1>2 DEF Bounds
<1>7. Bounds(c)'
  <2>1. ASSUME NEW k \in Nat, NEW x \in MarkSteps, <<c, k, x>> \in marking'
        PROVE  k <= seen[c]
    <3>1. k = n \/ <<c, k, x>> \in marking
      BY <2>1
    <3> QED
      BY <1>2, <1>6, <2>1, <3>1 DEF Bounds
  <2> QED
    BY <1>1, <1>2, <2>1 DEF Bounds
<1>8. Telling(c)'
  <2> SUFFICES ASSUME "regressed" \notin races'[c]
               PROVE  /\ marked[c] = seen[c]
                      /\ told[c] = seen[c] \/ \E x \in MarkSteps : <<c, seen[c], x>> \in marking'
    BY DEF Telling
  <2>1. marked[c] = seen[c] /\ (told[c] = seen[c] \/ \E x \in MarkSteps : <<c, seen[c], x>> \in marking)
    BY <1>0, <1>2, <1>3 DEF Telling
  <2>2. ASSUME NEW x \in MarkSteps, <<c, seen[c], x>> \in marking
        PROVE  \E y \in MarkSteps : <<c, seen[c], y>> \in marking'
    <3>1. CASE seen[c] = n
      BY <3>1
    <3>2. CASE seen[c] # n
      BY <2>2, <3>2
    <3> QED
      BY <3>1, <3>2
  <2> QED
    BY <2>1, <2>2
<1>9. Counting(c)'
  <2> SUFFICES ASSUME races'[c] \cap {"swallowed", "recounted"} = {}
               PROVE  Counted(c) <= 0 + seen[c]
    BY <1>1, <1>3 DEF Counting, Counted
  <2>1. races[c] \cap {"swallowed", "recounted"} = {} /\ ~(Counted(c) > n /\ unread[c] > 0)
    BY <1>0, <1>3
  <2>2. CASE ~(Counted(c) > n)
    BY <1>0, <1>2, <1>6, <2>2
  <2>3. CASE ~(unread[c] > 0)
    <3>1. Counted(c) <= unread[c] + seen[c]
      BY <1>2, <2>1 DEF Counting
    <3> QED
      BY <1>2, <2>3, <3>1
  <2> QED
    BY <2>1, <2>2, <2>3
<1> QED
  BY <1>4, <1>5, <1>7, <1>8, <1>9 DEF MarksSound

\* The peer is told, perhaps of less than it was told before.
LEMMA TellMarks ==
  ASSUME PageTyped, LockSound, MarksTyped, MarksSound, NEW c, NEW n, SendReadMarker(c, n)
  PROVE  MarksTyped' /\ MarksSound'
<1>0. /\ <<c, n, "core">> \in marking /\ marking' = marking \ {<<c, n, "core">>}
      /\ told' = [told EXCEPT ![c] = n] /\ UNCHANGED <<stored, arriving, unread, marked, seen>>
      /\ races' = IF n < told[c] THEN Race(c, "regressed") ELSE races
  BY DEF SendReadMarker, chats
<1>1. c \in Chats /\ n \in Nat /\ "core" \in MarkSteps
  BY <1>0 DEF MarksTyped, MarkSteps
<1>2. seen[c] \in Nat /\ told[c] \in Nat /\ Bounds(c) /\ Telling(c) /\ Counting(c)
  BY <1>1 DEF MarksTyped, MarksSound
<1>3. /\ told'[c] = n /\ \A d \in Chats : d # c => told'[d] = told[d]
      /\ \A d \in Chats : races[d] \subseteq races'[d]
      /\ n < told[c] => "regressed" \in races'[c]
  BY <1>0, <1>1 DEF MarksTyped, Race, LockSound
<1>4. MarksTyped'
  BY <1>0, <1>1 DEF MarksTyped
<1>5. ASSUME NEW d \in Chats, d # c
      PROVE  Bounds(d)' /\ Telling(d)' /\ Counting(d)'
  <2>1. \A k \in Nat, x \in MarkSteps : <<d, k, x>> \in marking' <=> <<d, k, x>> \in marking
    BY <1>0, <1>5
  <2>2. Counted(d)' = Counted(d) /\ seen[d] \in Nat
    BY <1>0 DEF Counted, MarksTyped
  <2> QED
    BY <1>0, <1>3, <1>5, <2>1, <2>2, MarksStay DEF MarksSound
<1>6. n <= seen[c]
  BY <1>0, <1>1, <1>2 DEF Bounds
<1>7. Bounds(c)'
  BY <1>0, <1>2, <1>3, <1>6 DEF Bounds
<1>8. Telling(c)'
  <2> SUFFICES ASSUME "regressed" \notin races'[c]
               PROVE  /\ marked[c] = seen[c]
                      /\ n = seen[c] \/ \E x \in MarkSteps : <<c, seen[c], x>> \in marking'
    BY <1>0, <1>3 DEF Telling
  <2>1. /\ marked[c] = seen[c] /\ ~(n < told[c])
        /\ told[c] = seen[c] \/ \E x \in MarkSteps : <<c, seen[c], x>> \in marking
    BY <1>1, <1>2, <1>3 DEF Telling
  <2>2. CASE n = seen[c]
    BY <2>1, <2>2
  <2>3. CASE n # seen[c]
    <3>1. told[c] # seen[c]
      BY <1>1, <1>2, <1>6, <2>1, <2>3
    <3>2. PICK x \in MarkSteps : <<c, seen[c], x>> \in marking
      BY <2>1, <3>1
    <3>3. <<c, seen[c], x>> \in marking'
      BY <1>0, <2>3, <3>2
    <3> QED
      BY <2>1, <3>3
  <2> QED
    BY <2>2, <2>3
<1>9. Counting(c)'
  <2>1. \A x \in {"clear", "command"} : <<c, seen[c], x>> \in marking => <<c, seen[c], x>> \in marking'
    BY <1>0
  <2>2. Counted(c)' = Counted(c) /\ races[c] \subseteq races'[c]
    BY <1>0, <1>1, <1>3 DEF Counted
  <2> QED
    BY <1>0, <1>2, <2>1, <2>2 DEF Counting
<1> QED
  BY <1>4, <1>5, <1>7, <1>8, <1>9 DEF MarksSound

-----------------------------------------------------------------------------
(* The inductive invariant.                                                  *)

IInv == Announced /\ LockSound /\ PageTyped /\ PageSound /\ MarksTyped /\ MarksSound

\* The page opens on nothing: each chat has a message that nobody has seen.
LEMMA InitInv == Init => IInv
<1> SUFFICES ASSUME Init PROVE IInv
  OBVIOUS
<1>1. Announced /\ LockSound
  <2>1. Announced
    BY DEF Init, Announced
  <2>2. races \in [Chats -> SUBSET Races]
    BY DEF Init
  <2>3. crypt \in [Chats -> BOOLEAN] /\ wish = crypt /\ toggles = {} /\ header \in Chats \cup {None}
    BY DEF Init
  <2> QED
    BY <2>1, <2>2, <2>3 DEF LockSound
<1>2. loads = <<>> /\ Len(loads) = 0 /\ loads \in Seq(Load)
  BY DEF Init
<1>3. PageTyped
  <2>1. model \in Page
    BY DEF Init, Page, Nothing
  <2> QED
    BY <1>2, <2>1 DEF Init, PageTyped, RowsSound
<1>4. PageSound
  BY <1>2 DEF Init, PageSound, ChatFollows
<1>5. MarksTyped
  BY DEF Init, MarksTyped
<1>6. MarksSound
  <2> SUFFICES ASSUME NEW c \in Chats PROVE Bounds(c) /\ Telling(c) /\ Counting(c)
    BY DEF MarksSound
  <2>1. /\ stored[c] = 1 /\ unread[c] = 1 /\ arriving[c] = "no" /\ marked[c] = 0 /\ told[c] = 0
        /\ seen[c] = 0 /\ marking = {}
    BY DEF Init
  <2> QED
    BY <2>1 DEF Bounds, Telling, Counting, Counted
<1> QED
  BY <1>1, <1>3, <1>4, <1>5, <1>6 DEF IInv

LEMMA FlagsAndLock ==
  ASSUME Announced, LockSound, [Next]_vars
  PROVE  Announced' /\ LockSound'
<1>1. CASE PageStep
  <2>1. UNCHANGED <<refresh, lock>> /\ Growing /\ header' \in Chats \cup {None}
    BY <1>1, PageKeeps
  <2>2. \A c \in Chats : Clean(c)' => Clean(c)
    BY <2>1 DEF Growing, Clean
  <2>3. LockSound'
    BY <2>1, <2>2 DEF LockSound, Growing, lock
  <2>4. Announced'
    BY <2>1 DEF Announced, refresh
  <2> QED
    BY <2>3, <2>4
<1>2. CASE FlagStep
  BY <1>2, FlagsAnnounced, FlagsKeepLock
<1>3. ASSUME NEW on \in BOOLEAN, SetEncryption(on)
      PROVE  Announced' /\ LockSound'
  BY <1>3, ChoiceSound, LockKeepsFlags
<1>4. ASSUME NEW c \in Chats, NEW on \in BOOLEAN, WriteEncryption(c, on)
      PROVE  Announced' /\ LockSound'
  BY <1>4, WriteSound, LockKeepsFlags
<1>5. CASE UNCHANGED vars
  <2>1. UNCHANGED <<refresh, lock, races, header>>
    BY <1>5 DEF vars, page
  <2> QED
    BY <2>1, Stays, GrowsSound DEF Announced, refresh
<1> QED
  BY <1>1, <1>2, <1>3, <1>4, <1>5 DEF Next, PageStep, FlagStep

LEMMA RowsPreserved ==
  ASSUME PageTyped, PageSound, [Next]_vars
  PROVE  PageTyped' /\ PageSound'
<1>0. DOMAIN loads = 1..Len(loads)
  BY DEF PageTyped
<1>1. ASSUME NEW c \in Chats, Insert(c) \/ Bump(c) \/ NoteStored(c) PROVE PageTyped' /\ PageSound'
  BY <1>1, StoredSound, NewsSound
<1>2. ASSUME NEW c \in Chats, Open(c) \/ OpenPeer(c) \/ Fetched(c) PROVE PageTyped' /\ PageSound'
  BY <1>2, OpenSound, FetchedSound
<1>3. CASE LoadOlder \/ FetchMedia \/ RefreshOpen
  BY <1>3, OlderSound, MediaSound, RefreshSound
<1>4. ASSUME NEW i \in DOMAIN loads, Read(i) \/ Mark(i) \/ Build(i) \/ Apply(i) PROVE PageTyped' /\ PageSound'
  <2>1. i \in 1..Len(loads)
    BY <1>0
  <2> QED
    BY <1>4, <2>1, ReadSound, MarkSound, BuildSound, ApplySound
<1>5. ASSUME \/ \E on \in BOOLEAN : SetEncryption(on) \/ \E c \in Chats : WriteEncryption(c, on)
             \/ \E m \in marking : MarkClears(m[1], m[2]) \/ MarkRead(m[1], m[2]) \/ SendReadMarker(m[1], m[2])
             \/ \E open \in BOOLEAN : Burst(open)
             \/ Schedule \/ Wake \/ UNCHANGED vars
      PROVE  PageTyped' /\ PageSound'
  <2>1. UNCHANGED <<stored, arriving, page, loads, picture>>
    BY <1>5 DEF SetEncryption, WriteEncryption, MarkClears, MarkRead, SendReadMarker, Clear, Burst, Schedule,
                Wake, vars, chats
  <2> QED
    BY <2>1, OtherStep
<1> QED
  BY <1>1, <1>2, <1>3, <1>4, <1>5 DEF Next

LEMMA MarksPreserved ==
  ASSUME PageTyped, LockSound, MarksTyped, MarksSound, [Next]_vars
  PROVE  MarksTyped' /\ MarksSound'
<1>0. DOMAIN loads = 1..Len(loads)
  BY DEF PageTyped
<1>1. ASSUME NEW c \in Chats, Insert(c) \/ Bump(c) \/ NoteStored(c) PROVE MarksTyped' /\ MarksSound'
  BY <1>1, CountMarks
<1>2. ASSUME NEW i \in DOMAIN loads, Mark(i) PROVE MarksTyped' /\ MarksSound'
  BY <1>0, <1>2, SeenMarks
<1>3. ASSUME NEW c, NEW n, MarkClears(c, n) PROVE MarksTyped' /\ MarksSound'
  <2>1. /\ "clear" \in {"clear", "command"} /\ "command" \in MarkSteps /\ <<c, n, "clear">> \in marking
        /\ Clear(c, n) /\ UNCHANGED <<marked, told, seen>>
        /\ marking' = (marking \ {<<c, n, "clear">>}) \cup {<<c, n, "command">>}
    BY <1>3 DEF MarkClears, MarkSteps
  <2> QED
    BY <2>1, ClearMarks
<1>4. ASSUME NEW c, NEW n, MarkRead(c, n) PROVE MarksTyped' /\ MarksSound'
  <2>1. /\ "command" \in {"clear", "command"} /\ "core" \in MarkSteps /\ <<c, n, "command">> \in marking
        /\ Clear(c, n) /\ UNCHANGED <<marked, told, seen>>
        /\ marking' = (marking \ {<<c, n, "command">>}) \cup {<<c, n, "core">>}
    BY <1>4 DEF MarkRead, MarkSteps
  <2> QED
    BY <2>1, ClearMarks
<1>5. ASSUME NEW c, NEW n, SendReadMarker(c, n) PROVE MarksTyped' /\ MarksSound'
  BY <1>5, TellMarks
<1>6. ASSUME UNCHANGED <<stored, arriving, unread, marks>>, UNCHANGED races \/ \E on \in BOOLEAN : SetEncryption(on)
      PROVE  MarksTyped' /\ MarksSound'
  <2>1. \A c \in Chats : races[c] \subseteq races'[c]
    <3>1. CASE UNCHANGED races
      BY <3>1
    <3>2. ASSUME NEW on \in BOOLEAN, SetEncryption(on) PROVE \A c \in Chats : races[c] \subseteq races'[c]
      BY <3>2 DEF SetEncryption, Race, LockSound
    <3> QED
      BY <1>6, <3>1, <3>2
  <2> QED
    BY <1>6, <2>1, MarksRest
<1>7. ASSUME \/ \E c \in Chats : Open(c) \/ OpenPeer(c) \/ Fetched(c)
             \/ LoadOlder \/ FetchMedia
             \/ \E c \in Chats, on \in BOOLEAN : WriteEncryption(c, on)
             \/ \E i \in DOMAIN loads : Read(i) \/ Build(i) \/ Apply(i)
             \/ \E open \in BOOLEAN : Burst(open)
             \/ Schedule \/ Wake \/ RefreshOpen \/ UNCHANGED vars
      PROVE  UNCHANGED <<stored, arriving, unread, marks, races>>
  BY <1>7 DEF Open, OpenPeer, Fetched, LoadOlder, FetchMedia, WriteEncryption, Read, Build, Apply, Burst,
              Schedule, Wake, RefreshOpen, vars, chats
<1>8. ASSUME NEW on \in BOOLEAN, SetEncryption(on) PROVE UNCHANGED <<stored, arriving, unread, marks>>
  BY <1>8 DEF SetEncryption, chats
<1> QED
  BY <1>1, <1>2, <1>3, <1>4, <1>5, <1>6, <1>7, <1>8 DEF Next

\* What the other theorems are read off: it holds in every state of every run.
THEOREM Inductive == Spec => []IInv
<1>1. IInv /\ [Next]_vars => IInv'
  BY FlagsAndLock, RowsPreserved, MarksPreserved DEF IInv
<1> QED
  BY <1>1, InitInv, PTL DEF Spec

\* A refresh of the open chat that was asked for while a task was about to run is done by it or by
\* the next one (schedule_list_refresh clears the first flag before it reads the second).
THEOREM Refreshed == Spec => []RefreshKept
<1>1. IInv => RefreshKept
  BY DEF IInv, Announced, RefreshKept, Settled
<1> QED
  BY <1>1, Inductive, PTL

\* The stored mode of every chat is the last one chosen under its header, unless one of the two
\* named races was run (MessageModel.set_encryption).
THEOREM LockIsStored == Spec => []LockKept
<1>1. IInv => LockKept
  BY DEF IInv, LockSound, Clean, LockKept, Settled
<1> QED
  BY <1>1, Inductive, PTL

\* At rest the page shows the chat of its header with all that is stored and downloaded of it, unless
\* its rows were overtaken or it was displaced (MessageModel.reset and set_open compare nothing).
THEOREM PageIsCurrent == Spec => []ShownIsOpen
<1>1. IInv => ShownIsOpen
  <2> SUFFICES ASSUME IInv, Settled, header # None, ~model.shown.late, ~model.displaced
               PROVE  /\ model.chat = header /\ model.shown.of = header
                      /\ model.shown.rows = stored[header]
                      /\ picture[header] = "cached" => model.shown.pic
    BY DEF ShownIsOpen
  <2>1. Len(loads) = 0 /\ header \in Chats
    BY DEF Settled, IInv, PageTyped
  <2>2. model.chat = header
    BY <2>1 DEF IInv, PageSound, ChatFollows
  <2>3. model.shown.of = header /\ AllRows(model.shown.rows) /\ Pictured(model.shown.pic)
    BY <2>1 DEF IInv, PageSound
  <2>4. arriving[header] = "no"
    BY <2>1 DEF Settled
  <2> QED
    BY <2>2, <2>3, <2>4 DEF AllRows, Pictured
<1> QED
  BY <1>1, Inductive, PTL

\* At rest a chat counts what no load has marked and the peer is told of the newest message that was
\* shown, unless one of the named races was run (persist_and_emit counts after it inserts,
\* mark_displayed clears whatever is counted, markers are sent by tasks of their own).
THEOREM SeenIsTold == Spec => []SeenIsSettled
<1>1. IInv => SeenIsSettled
  <2> SUFFICES ASSUME IInv, Settled, NEW c \in Chats
               PROVE  /\ races[c] \cap {"swallowed", "recounted"} = {} => unread[c] = stored[c] - seen[c]
                      /\ "regressed" \notin races[c] => told[c] = seen[c]
    BY DEF SeenIsSettled
  <2>1. marking = {} /\ arriving[c] = "no" /\ Bounds(c) /\ Telling(c) /\ Counting(c)
    BY DEF Settled, IInv, MarksSound
  <2>2. stored[c] \in Nat /\ unread[c] \in Nat /\ seen[c] \in Nat
    BY DEF IInv, PageTyped, MarksTyped
  <2>3. "regressed" \notin races[c] => told[c] = seen[c]
    BY <2>1 DEF Telling
  <2>4. ASSUME races[c] \cap {"swallowed", "recounted"} = {} PROVE unread[c] = stored[c] - seen[c]
    <3>1. /\ stored[c] <= unread[c] + seen[c] /\ seen[c] <= stored[c]
          /\ unread[c] + seen[c] = stored[c] \/ unread[c] = 0
      BY <2>1, <2>4 DEF Counting, Counted, Bounds
    <3> QED
      BY <2>2, <3>1
  <2> QED
    BY <2>3, <2>4
<1> QED
  BY <1>1, Inductive, PTL

-----------------------------------------------------------------------------
(* Types.  What the invariant leaves open are the bounds: nothing is stored  *)
(* or shown that no event brought, a refresh task is awake only for an event *)
(* that sent it, and no more is counted than has come.                       *)

AsOne(b) == IF b THEN 1 ELSE 0

RowsLimited == \A i \in 1..Len(loads) : loads[i].shown.rows <= events + 1

Limits ==
  /\ events \in 0..MaxEvents
  /\ pending \in BOOLEAN /\ bursting \in BOOLEAN
  /\ woken + AsOne(pending) + AsOne(bursting) <= events
  /\ toggles \subseteq Chats \X BOOLEAN
  /\ \A c \in Chats : stored[c] <= events + 1 /\ unread[c] <= Counted(c)
  /\ model.shown.rows <= events + 1
  /\ RowsLimited

LEMMA TimeLimits ==
  ASSUME IInv, Limits, [Next]_vars
  PROVE  /\ events' \in 0..MaxEvents /\ events <= events'
         /\ \A c \in Chats : stored'[c] <= events' + 1
<1>0. /\ events \in Nat /\ MaxEvents \in Nat /\ stored \in [Chats -> Nat \ {0}]
      /\ events' = events => events' \in 0..MaxEvents /\ events <= events'
      /\ Event => events' \in 0..MaxEvents /\ events' = events + 1
  BY ViewAssumption DEF Limits, Event, IInv, PageTyped
<1>1. ASSUME NEW c \in Chats, Insert(c)
      PROVE  Event /\ stored' = [stored EXCEPT ![c] = @ + 1]
  BY <1>1 DEF Insert
<1>2. ASSUME NEW c \in Chats, Bump(c) \/ NoteStored(c) \/ Open(c) \/ OpenPeer(c) \/ Fetched(c)
      PROVE  (events' = events \/ Event) /\ UNCHANGED stored
  BY <1>2 DEF Bump, NoteStored, Open, OpenPeer, Fetched, chats
<1>3. ASSUME \/ LoadOlder \/ FetchMedia \/ Schedule \/ Wake \/ RefreshOpen \/ UNCHANGED vars
             \/ \E on \in BOOLEAN : SetEncryption(on) \/ Burst(on) \/ \E c \in Chats : WriteEncryption(c, on)
             \/ \E i \in DOMAIN loads : Read(i) \/ Mark(i) \/ Build(i) \/ Apply(i)
             \/ \E c, n : MarkClears(c, n) \/ MarkRead(c, n) \/ SendReadMarker(c, n)
      PROVE  (events' = events \/ Event) /\ UNCHANGED stored
  BY <1>3 DEF LoadOlder, FetchMedia, Schedule, Wake, RefreshOpen, SetEncryption, Burst, WriteEncryption,
              Read, Mark, Build, Apply, MarkClears, MarkRead, SendReadMarker, Clear, chats, vars
<1>4. \/ (events' = events \/ Event) /\ UNCHANGED stored
      \/ Event /\ \E c \in Chats : stored' = [stored EXCEPT ![c] = @ + 1]
  BY <1>1, <1>2, <1>3 DEF Next
<1>5. events' \in 0..MaxEvents /\ events <= events'
  BY <1>0, <1>4
<1>6. ASSUME NEW c \in Chats PROVE stored'[c] <= events' + 1
  <2>1. stored[c] \in Nat /\ stored[c] <= events + 1
    BY <1>0 DEF Limits
  <2>2. \/ stored'[c] = stored[c]
        \/ events' = events + 1 /\ stored'[c] = stored[c] + 1
    BY <1>0, <1>4
  <2> QED
    BY <1>0, <1>5, <2>1, <2>2
<1> QED
  BY <1>5, <1>6

LEMMA TaskLimits ==
  ASSUME IInv, Limits, [Next]_vars
  PROVE  /\ pending' \in BOOLEAN /\ bursting' \in BOOLEAN
         /\ woken' + AsOne(pending)' + AsOne(bursting)' <= events'
<1>0. /\ woken \in Nat /\ events \in Nat /\ events' \in Nat /\ events <= events' /\ pending \in BOOLEAN /\ bursting \in BOOLEAN
      /\ woken + AsOne(pending) + AsOne(bursting) <= events
  BY TimeLimits DEF Limits, IInv, Announced
<1>1. CASE UNCHANGED refresh
  BY <1>0, <1>1 DEF refresh, AsOne
<1>2. ASSUME NEW open \in BOOLEAN, Burst(open)
      PROVE  /\ pending' \in BOOLEAN /\ bursting' \in BOOLEAN
             /\ woken' + AsOne(pending)' + AsOne(bursting)' <= events'
  BY <1>0, <1>2 DEF Burst, Event, AsOne
<1>3. CASE Schedule
  <2>1. /\ bursting = TRUE /\ bursting' = FALSE /\ pending' = TRUE /\ UNCHANGED <<woken, events>>
    BY <1>0, <1>3 DEF Schedule
  <2>2. AsOne(bursting) = 1 /\ AsOne(bursting)' = 0 /\ AsOne(pending) \in Nat /\ AsOne(pending)' = 1
    BY <2>1 DEF AsOne
  <2>3. woken' + AsOne(pending)' + AsOne(bursting)' <= events'
    BY <1>0, <2>1, <2>2
  <2>4. pending' \in BOOLEAN /\ bursting' \in BOOLEAN
    BY <2>1
  <2> QED
    BY <2>3, <2>4
<1>4. CASE Wake
  <2>1. /\ pending = TRUE /\ pending' = FALSE /\ woken' = woken + 1 /\ UNCHANGED <<bursting, events>>
    BY <1>0, <1>4 DEF Wake
  <2>2. AsOne(pending) = 1 /\ AsOne(pending)' = 0 /\ AsOne(bursting)' = AsOne(bursting) /\ AsOne(bursting) \in Nat
    BY <2>1 DEF AsOne
  <2>3. woken' + AsOne(pending)' + AsOne(bursting)' <= events'
    BY <1>0, <2>1, <2>2
  <2>4. pending' \in BOOLEAN /\ bursting' \in BOOLEAN
    BY <1>0, <2>1
  <2> QED
    BY <2>3, <2>4
<1>5. CASE RefreshOpen
  <2>1. woken > 0 /\ woken' = woken - 1 /\ UNCHANGED <<pending, bursting, events>>
    BY <1>5 DEF RefreshOpen
  <2> QED
    BY <1>0, <2>1 DEF AsOne
<1>6. PageStep => UNCHANGED refresh
  BY PageKeeps DEF IInv
<1>7. ASSUME NEW c \in Chats, NEW on \in BOOLEAN, SetEncryption(on) \/ WriteEncryption(c, on)
      PROVE  UNCHANGED refresh
  BY <1>7 DEF SetEncryption, WriteEncryption
<1>8. \A on \in BOOLEAN : SetEncryption(on) => UNCHANGED refresh
  BY DEF SetEncryption
<1> QED
  BY <1>1, <1>2, <1>3, <1>4, <1>5, <1>6, <1>7, <1>8 DEF Next, PageStep, vars

LEMMA CountLimits ==
  ASSUME IInv, Limits, [Next]_vars
  PROVE  \A c \in Chats : unread'[c] <= Counted(c)'
<1>0. /\ unread \in [Chats -> Nat] /\ stored \in [Chats -> Nat \ {0}]
      /\ arriving \in [Chats -> {"no", "inserted", "bumped"}]
      /\ \A c \in Chats : unread[c] <= Counted(c)
  BY DEF Limits, IInv, PageTyped, MarksTyped
<1>1. ASSUME NEW c \in Chats, Insert(c) PROVE \A d \in Chats : unread'[d] <= Counted(d)'
  <2>1. /\ arriving[c] = "no" /\ UNCHANGED unread
        /\ stored' = [stored EXCEPT ![c] = @ + 1] /\ arriving' = [arriving EXCEPT ![c] = "inserted"]
    BY <1>1 DEF Insert
  <2> QED
    BY <1>0, <2>1 DEF Counted
<1>2. ASSUME NEW c \in Chats, Bump(c) PROVE \A d \in Chats : unread'[d] <= Counted(d)'
  <2>1. /\ arriving[c] = "inserted" /\ UNCHANGED stored
        /\ unread' = [unread EXCEPT ![c] = @ + 1] /\ arriving' = [arriving EXCEPT ![c] = "bumped"]
    BY <1>2 DEF Bump
  <2> QED
    BY <1>0, <2>1 DEF Counted
<1>3. ASSUME NEW c \in Chats, NoteStored(c) PROVE \A d \in Chats : unread'[d] <= Counted(d)'
  <2>1. arriving[c] = "bumped" /\ UNCHANGED <<stored, unread>> /\ arriving' = [arriving EXCEPT ![c] = "no"]
    BY <1>3 DEF NoteStored
  <2> QED
    BY <1>0, <2>1 DEF Counted
<1>4. ASSUME NEW c, NEW n, Clear(c, n) PROVE \A d \in Chats : unread'[d] <= Counted(d)'
  <2>1. unread' = [unread EXCEPT ![c] = 0] /\ UNCHANGED <<stored, arriving>>
    BY <1>4 DEF Clear
  <2>2. \A d \in Chats : Counted(d)' = Counted(d) /\ Counted(d) \in Nat
    BY <1>0, <2>1 DEF Counted
  <2> QED
    BY <1>0, <2>1, <2>2
<1>5. ASSUME UNCHANGED chats PROVE \A d \in Chats : unread'[d] <= Counted(d)'
  BY <1>0, <1>5 DEF chats, Counted
<1>6. ASSUME \/ \E c \in Chats : Open(c) \/ OpenPeer(c) \/ Fetched(c)
             \/ LoadOlder \/ FetchMedia \/ Schedule \/ Wake \/ RefreshOpen \/ UNCHANGED vars
             \/ \E on \in BOOLEAN : SetEncryption(on) \/ Burst(on) \/ \E c \in Chats : WriteEncryption(c, on)
             \/ \E i \in DOMAIN loads : Read(i) \/ Mark(i) \/ Build(i) \/ Apply(i)
             \/ \E c, n : SendReadMarker(c, n)
      PROVE  UNCHANGED chats
  BY <1>6 DEF Open, OpenPeer, Fetched, LoadOlder, FetchMedia, Schedule, Wake, RefreshOpen, SetEncryption, Burst,
              WriteEncryption, Read, Mark, Build, Apply, SendReadMarker, vars
<1>7. \A c, n : MarkClears(c, n) \/ MarkRead(c, n) => Clear(c, n)
  BY DEF MarkClears, MarkRead
<1> QED
  BY <1>1, <1>2, <1>3, <1>4, <1>5, <1>6, <1>7 DEF Next

LEMMA ToggleLimits ==
  ASSUME IInv, Limits, [Next]_vars
  PROVE  toggles' \subseteq Chats \X BOOLEAN
<1>0. toggles \subseteq Chats \X BOOLEAN /\ model.chat \in Chats \cup {None}
  BY DEF Limits, IInv, PageTyped, Page
<1>1. ASSUME NEW on \in BOOLEAN, SetEncryption(on) PROVE toggles' \subseteq Chats \X BOOLEAN
  <2>1. model.chat \in Chats /\ toggles' = toggles \cup {<<model.chat, on>>}
    BY <1>0, <1>1 DEF SetEncryption
  <2> QED
    BY <1>0, <2>1
<1>2. ASSUME NEW c \in Chats, NEW on \in BOOLEAN, WriteEncryption(c, on) PROVE toggles' \subseteq toggles
  BY <1>2 DEF WriteEncryption
<1>3. PageStep => UNCHANGED toggles
  BY PageKeeps DEF IInv, lock
<1>4. FlagStep => UNCHANGED toggles
  BY DEF FlagStep, Burst, Schedule, Wake, RefreshOpen, lock
<1>5. UNCHANGED vars => UNCHANGED toggles
  BY DEF vars, lock
<1> QED
  BY <1>0, <1>1, <1>2, <1>3, <1>4, <1>5 DEF Next, PageStep, FlagStep

\* A list of loads whose rows are some of those there were, besides new ones without rows.
LEMMA RowsFrom ==
  ASSUME IInv, Limits, [Next]_vars, loads' \in Seq(Load),
         \A i \in 1..Len(loads') : LET n == loads'[i].shown.rows IN
           \/ n = 0
           \/ \E c \in Chats : n = stored[c]
           \/ \E j \in 1..Len(loads) : n = loads[j].shown.rows
  PROVE  RowsLimited'
<1>1. /\ events \in Nat /\ events' \in Nat /\ events <= events'
      /\ stored \in [Chats -> Nat \ {0}] /\ \A c \in Chats : stored[c] <= events + 1
      /\ \A j \in 1..Len(loads) : loads[j].shown.rows <= events + 1 /\ loads[j].shown.rows \in Nat
  <2>1. events \in Nat /\ events' \in Nat /\ events <= events' /\ stored \in [Chats -> Nat \ {0}]
    BY TimeLimits DEF Limits, IInv, PageTyped
  <2>2. \A j \in 1..Len(loads) : loads[j] \in Load
    BY DEF IInv, PageTyped
  <2>3. \A j \in 1..Len(loads) : loads[j].shown.rows \in Nat
    BY <2>2 DEF Load
  <2> QED
    BY <2>1, <2>3 DEF Limits, RowsLimited
<1>2. ASSUME NEW i \in 1..Len(loads') PROVE loads'[i].shown.rows <= events' + 1
  BY <1>1
<1> QED
  BY <1>2 DEF RowsLimited

LEMMA BeginLimits ==
  ASSUME IInv, Limits, [Next]_vars, NEW running, Alike(running), NEW c \in Chats,
         NEW how \in {"reload", "older", "open"}, NEW at, Begin(running, c, how, at)
  PROVE  RowsLimited'
<1>1. running \in Seq(Load) /\ Len(running) = Len(loads) /\ Len(loads) \in Nat
      /\ \A i \in 1..Len(loads) : running[i].shown.rows = loads[i].shown.rows
  BY DEF Alike, IInv, PageTyped
<1>2. /\ loads' \in Seq(Load) /\ Len(loads') = Len(running) + 1
      /\ \A i \in 1..Len(running) : loads'[i] = running[i]
      /\ loads'[Len(loads')].shown.rows = 0
  BY <1>1, BeginIs
<1>3. ASSUME NEW i \in 1..Len(loads')
      PROVE  loads'[i].shown.rows = 0 \/ \E j \in 1..Len(loads) : loads'[i].shown.rows = loads[j].shown.rows
  <2>1. i \in 1..Len(loads) \/ i = Len(loads')
    BY <1>1, <1>2
  <2> QED
    BY <1>1, <1>2, <2>1
<1> QED
  BY <1>2, <1>3, RowsFrom

LEMMA ReloadLimits ==
  ASSUME IInv, Limits, [Next]_vars, NEW running, Alike(running), loads' = running \/ ReloadCurrent(running)
  PROVE  RowsLimited'
<1>1. CASE loads' = running
  <2>1. loads' \in Seq(Load) /\ \A i \in 1..Len(loads') : loads'[i].shown.rows = loads[i].shown.rows /\ i \in 1..Len(loads)
    BY <1>1 DEF Alike
  <2> QED
    BY <2>1, RowsFrom
<1>2. CASE model.chat # None /\ ReloadCurrent(running)
  <2> DEFINE c == model.chat
             at == header
  <2>1. c \in Chats /\ Begin(running, c, "reload", at)
    BY <1>2 DEF ReloadCurrent, IInv, PageTyped, Page
  <2> HIDE DEF c, at
  <2> QED
    BY <2>1, BeginLimits
<1> QED
  BY <1>1, <1>2 DEF ReloadCurrent

\* A load that goes on has its rows, or those that are stored.
LEMMA LoadLimits ==
  ASSUME IInv, Limits, [Next]_vars, PageTyped', NEW i \in 1..Len(loads), Read(i) \/ Mark(i) \/ Build(i)
  PROVE  RowsLimited'
<1> DEFINE l == loads[i]
<1>0. loads \in Seq(Load) /\ l \in Load /\ l.shown.of \in Chats /\ loads' \in Seq(Load)
  <2>1. loads \in Seq(Load) /\ l \in Load /\ loads' \in Seq(Load)
    BY DEF IInv, PageTyped
  <2> QED
    BY <2>1 DEF Load
<1>1. PICK m : /\ loads' = [loads EXCEPT ![i] = m]
               /\ m.shown.rows = l.shown.rows \/ m.shown.rows = stored[l.shown.of]
  <2>1. CASE Read(i)
    <3> DEFINE m == [l EXCEPT !.step = "read", !.shown.rows = stored[l.shown.of]]
    <3>1. loads' = [loads EXCEPT ![i] = m] /\ m.shown.rows = stored[l.shown.of]
      BY <1>0, <2>1 DEF Read, Load
    <3> QED
      BY <3>1
  <2>2. CASE Mark(i)
    <3> DEFINE m == [l EXCEPT !.step = "marked"]
    <3>1. loads' = [loads EXCEPT ![i] = m] /\ m.shown.rows = l.shown.rows
      BY <1>0, <2>2 DEF Mark, Load
    <3> QED
      BY <3>1
  <2>3. CASE Build(i)
    <3> DEFINE pic == l.shown.pic \/ (l.shown.rows > 0 /\ picture[l.shown.of] = "cached")
               m == [l EXCEPT !.step = "built", !.shown.pic = pic]
    <3>1. loads' = [loads EXCEPT ![i] = m]
      BY <1>0, <2>3 DEF Build
    <3> HIDE DEF pic
    <3>2. m.shown.rows = l.shown.rows
      BY <1>0 DEF Load
    <3> QED
      BY <3>1, <3>2
  <2> QED
    BY <2>1, <2>2, <2>3
<1>2. Len(loads') = Len(loads) /\ \A j \in 1..Len(loads) : loads'[j] = IF j = i THEN m ELSE loads[j]
  BY <1>0, <1>1
<1> QED
  BY <1>0, <1>1, <1>2, RowsFrom

LEMMA ApplyLimits ==
  ASSUME IInv, Limits, [Next]_vars, PageTyped', NEW i \in 1..Len(loads), Apply(i)
  PROVE  RowsLimited' /\ model'.shown = loads[i].shown
<1> DEFINE n == Len(loads)
           u == [j \in DOMAIN loads |-> [loads[j] EXCEPT !.shown.late = @ \/ j < i]]
<1>0. loads \in Seq(Load) /\ DOMAIN loads = 1..n /\ n \in Nat /\ \A j \in 1..n : loads[j] \in Load
  BY DEF IInv, PageTyped
<1>1. loads' = RemoveAt(u, i)
  BY DEF Apply
<1>2. ASSUME NEW j \in 1..n PROVE u[j] \in Load /\ u[j].shown.rows = loads[j].shown.rows
  <2> DEFINE x == loads[j]
             b == x.shown.late \/ j < i
             y == [x EXCEPT !.shown.late = b]
  <2>1. u[j] = y /\ x \in Load
    BY <1>0
  <2>2. b \in BOOLEAN
    BY <2>1 DEF Load
  <2> HIDE DEF b, u
  <2>3. y \in Load /\ y.shown.rows = x.shown.rows
    BY <2>1, <2>2, LateIs
  <2> HIDE DEF y
  <2> QED
    BY <2>1, <2>3
<1>3. u = [j \in DOMAIN loads |-> u[j]]
  OBVIOUS
<1> HIDE DEF u
<1>4. u \in Seq(Load) /\ Len(u) = n
  BY <1>0, <1>2, <1>3, MapSeq
<1>5. /\ loads' \in Seq(Load) /\ Len(loads') = n - 1
      /\ \A j \in 1..n - 1 : loads'[j] = IF j < i THEN u[j] ELSE u[j + 1]
  BY <1>1, <1>4, RemoveIs
<1>6. ASSUME NEW j \in 1..Len(loads') PROVE \E k \in 1..n : loads'[j].shown.rows = loads[k].shown.rows
  <2>1. PICK k \in 1..n : loads'[j] = u[k]
    BY <1>0, <1>5
  <2> QED
    BY <1>2, <2>1
<1>7. RowsLimited'
  BY <1>5, <1>6, RowsFrom
<1>8. model'.shown = loads[i].shown
  <2>1. model \in Page
    BY DEF IInv, PageTyped
  <2> QED
    BY <2>1 DEF Apply, Page
<1> QED
  BY <1>7, <1>8

LEMMA PageLimits ==
  ASSUME IInv, Limits, [Next]_vars, PageTyped'
  PROVE  RowsLimited' /\ model'.shown.rows <= events' + 1
<1>0. /\ DOMAIN loads = 1..Len(loads) /\ events \in Nat /\ events' \in Nat /\ events <= events'
      /\ model.shown.rows <= events + 1 /\ model.shown.rows \in Nat /\ Alike(loads)
  BY TimeLimits, LoadsAlike DEF Limits, IInv, PageTyped, Page
<1>1. model'.shown = model.shown => model'.shown.rows <= events' + 1
  BY <1>0
<1>2. loads' = loads => RowsLimited'
  BY <1>0, ReloadLimits
<1>3. ASSUME NEW c \in Chats, Open(c) \/ OpenPeer(c)
      PROVE  RowsLimited' /\ model'.shown = model.shown
  <2>1. PICK how \in {"reload", "older", "open"} : Begin(loads, c, how, c)
    BY <1>3 DEF Open, OpenPeer
  <2>2. model'.shown = model.shown
    BY <1>3 DEF Open, OpenPeer, IInv, PageTyped, Page
  <2> QED
    BY <1>0, <2>1, <2>2, BeginLimits
<1>4. ASSUME NEW c \in Chats, NoteStored(c)
      PROVE  RowsLimited' /\ model'.shown = model.shown
  <2>1. PICK running : Alike(running) /\ (loads' = running \/ ReloadCurrent(running))
    BY <1>0, <1>4, UnnoticedIs DEF NoteStored, IInv
  <2> QED
    BY <1>4, <2>1, ReloadLimits DEF NoteStored, page
<1>5. ASSUME NEW c \in Chats, Fetched(c)
      PROVE  RowsLimited' /\ model'.shown = model.shown
  <2> DEFINE t == Unnoticed(MissedPicture(c))
  <2>1. Alike(t)
    BY UnnoticedIs DEF IInv
  <2>2. ReloadCurrent(loads) \/ ReloadCurrent(t) \/ loads' = loads
    BY <1>5 DEF Fetched
  <2> HIDE DEF t
  <2>3. RowsLimited'
    BY <1>0, <2>1, <2>2, ReloadLimits
  <2> QED
    BY <1>5, <2>3 DEF Fetched, page
<1>6. CASE LoadOlder
  <2> DEFINE c == model.chat
             at == header
  <2>1. c \in Chats /\ Begin(loads, c, "older", at) /\ UNCHANGED model
    BY <1>6 DEF LoadOlder, IInv, PageTyped, Page, page
  <2> HIDE DEF c, at
  <2> QED
    BY <1>0, <1>1, <2>1, BeginLimits
<1>7. ASSUME FetchMedia \/ RefreshOpen
      PROVE  RowsLimited' /\ model'.shown = model.shown
  <2>1. loads' = loads \/ ReloadCurrent(loads)
    BY <1>7 DEF FetchMedia, RefreshOpen
  <2>2. RowsLimited'
    BY <1>0, <2>1, ReloadLimits
  <2> QED
    BY <1>7, <2>2 DEF FetchMedia, RefreshOpen, page
<1>8. ASSUME NEW i \in 1..Len(loads), Read(i) \/ Mark(i) \/ Build(i)
      PROVE  RowsLimited' /\ model'.shown = model.shown
  <2>1. RowsLimited'
    BY <1>8, LoadLimits
  <2> QED
    BY <1>8, <2>1 DEF Read, Mark, Build, page
<1>9. ASSUME NEW i \in 1..Len(loads), Apply(i)
      PROVE  RowsLimited' /\ model'.shown.rows <= events' + 1
  <2>1. RowsLimited' /\ model'.shown = loads[i].shown
    BY <1>9, ApplyLimits
  <2>2. loads[i].shown.rows <= events + 1 /\ loads[i].shown.rows \in Nat
    <3>1. loads[i] \in Load
      BY DEF IInv, PageTyped
    <3> QED
      BY <3>1 DEF Limits, RowsLimited, Load
  <2> QED
    BY <1>0, <2>1, <2>2
<1>10. ASSUME \/ Schedule \/ Wake \/ UNCHANGED vars \/ \E c \in Chats : Insert(c) \/ Bump(c)
              \/ \E on \in BOOLEAN : SetEncryption(on) \/ Burst(on) \/ \E c \in Chats : WriteEncryption(c, on)
              \/ \E c, n : MarkClears(c, n) \/ MarkRead(c, n) \/ SendReadMarker(c, n)
       PROVE  UNCHANGED <<loads, model>>
  BY <1>10 DEF Schedule, Wake, Insert, Bump, SetEncryption, Burst, WriteEncryption, MarkClears, MarkRead,
               SendReadMarker, page, vars
<1> QED
  BY <1>0, <1>1, <1>2, <1>3, <1>4, <1>5, <1>6, <1>7, <1>8, <1>9, <1>10 DEF Next

LEMMA Within ==
  ASSUME IInv, Limits
  PROVE  TypeOK
<1>0. /\ MaxEvents \in Nat /\ events \in 0..MaxEvents /\ woken \in Nat
      /\ \A n \in Nat : n <= events + 1 => n \in Numbers
  BY ViewAssumption DEF Limits, IInv, Announced, Numbers
<1>1. stored \in [Chats -> Numbers]
  BY <1>0 DEF Limits, IInv, PageTyped
<1>2. unread \in [Chats -> Numbers]
  <2>1. ASSUME NEW c \in Chats PROVE unread[c] \in Nat /\ unread[c] <= events + 1
    <3>1. /\ unread[c] \in Nat /\ stored[c] \in Nat /\ events \in Nat
          /\ stored[c] <= events + 1 /\ unread[c] <= Counted(c)
      BY <1>0 DEF Limits, IInv, PageTyped, MarksTyped
    <3>2. Counted(c) = stored[c] - 1 \/ Counted(c) = stored[c]
      BY DEF Counted
    <3> QED
      BY <3>1, <3>2
  <2> QED
    BY <1>0, <2>1 DEF IInv, MarksTyped
<1>3. \A c \in Chats : seen[c] \in Nat /\ seen[c] <= events + 1 /\ Bounds(c)
  BY <1>0 DEF Limits, IInv, PageTyped, MarksTyped, MarksSound, Bounds
<1>4. marked \in [Chats -> Numbers] /\ told \in [Chats -> Numbers] /\ seen \in [Chats -> Numbers]
  <2>1. \A c \in Chats : marked[c] <= events + 1 /\ told[c] <= events + 1 /\ marked[c] \in Nat /\ told[c] \in Nat
    BY <1>0, <1>3 DEF IInv, MarksTyped, Bounds
  <2> QED
    BY <1>0, <1>3, <2>1 DEF IInv, MarksTyped
<1>5. marking \subseteq Chats \X Numbers \X {"clear", "command", "core"}
  <2> SUFFICES ASSUME NEW m \in marking PROVE m \in Chats \X Numbers \X {"clear", "command", "core"}
    OBVIOUS
  <2>1. PICK c \in Chats, n \in Nat, s \in MarkSteps : m = <<c, n, s>>
    BY DEF IInv, MarksTyped
  <2>2. n <= seen[c]
    BY <1>3, <2>1 DEF Bounds
  <2>3. n \in Numbers
    BY <1>0, <1>3, <2>2
  <2> QED
    BY <2>1, <2>3 DEF MarkSteps
<1>6. woken \in 0..MaxEvents
  BY <1>0 DEF Limits, AsOne
<1>7. model \in [chat : Chats \cup {None}, shown : Shown, displaced : BOOLEAN]
  <2>1. model \in Page /\ model.shown.rows \in Numbers
    BY <1>0 DEF Limits, IInv, PageTyped, Page
  <2> QED
    BY <2>1 DEF Page, Shown
<1>8. loads \in Seq(Loads)
  <2>1. ASSUME NEW i \in 1..Len(loads) PROVE loads[i] \in Loads
    <3>1. loads[i] \in Load /\ loads[i].shown.rows <= events + 1
      BY DEF Limits, RowsLimited, IInv, PageTyped
    <3>2. loads[i].shown.rows \in Numbers
      BY <1>0, <3>1 DEF Load
    <3> QED
      BY <3>1, <3>2 DEF Load, Loads, Shown
  <2>2. loads \in Seq(Load) /\ loads = [i \in DOMAIN loads |-> loads[i]]
    BY DEF IInv, PageTyped
  <2> QED
    BY <2>1, <2>2, MapSeq
<1>9. /\ arriving \in [Chats -> {"no", "inserted", "bumped"}] /\ header \in Chats \cup {None}
      /\ picture \in [Chats -> {"no", "fetching", "cached"}]
      /\ crypt \in [Chats -> BOOLEAN] /\ wish \in [Chats -> BOOLEAN] /\ races \in [Chats -> SUBSET Races]
      /\ openToo \in BOOLEAN /\ wanted \in BOOLEAN
  BY DEF IInv, PageTyped, LockSound, Announced
<1> QED
  BY <1>0, <1>1, <1>2, <1>4, <1>5, <1>6, <1>7, <1>8, <1>9 DEF TypeOK, Limits

\* Every reachable state of the front end's chat page is well typed, for any chats and any bounds: rows,
\* counters and markers never go beyond what is stored (mark_displayed, persist_and_emit), and no
\* more refresh tasks are awake than events sent (schedule_list_refresh).
THEOREM TypeCorrect == Spec => []TypeOK
<1>1. Init => Limits
  <2> SUFFICES ASSUME Init PROVE Limits
    OBVIOUS
  <2>1. loads = <<>> /\ Len(loads) = 0 /\ model.shown.rows = 0 /\ events = 0 /\ MaxEvents \in Nat
    BY ViewAssumption DEF Init, Nothing
  <2>2. pending = FALSE /\ bursting = FALSE /\ woken = 0 /\ toggles = {}
    BY DEF Init
  <2>3. \A c \in Chats : stored[c] = 1 /\ unread[c] = 1 /\ Counted(c) = 1
    BY DEF Init, Counted
  <2>4. woken + AsOne(pending) + AsOne(bursting) <= events
    BY <2>1, <2>2 DEF AsOne
  <2>5. \A c \in Chats : stored[c] <= events + 1 /\ unread[c] <= Counted(c)
    BY <2>1, <2>3
  <2>6. RowsLimited /\ model.shown.rows <= events + 1 /\ events \in 0..MaxEvents
    BY <2>1 DEF RowsLimited
  <2>7. pending \in BOOLEAN /\ bursting \in BOOLEAN /\ toggles \subseteq Chats \X BOOLEAN
    BY <2>2
  <2> QED
    BY <2>4, <2>5, <2>6, <2>7 DEF Limits
<1>2. IInv /\ IInv' /\ Limits /\ [Next]_vars => Limits'
  <2> SUFFICES ASSUME IInv, IInv', Limits, [Next]_vars PROVE Limits'
    OBVIOUS
  <2>1. PageTyped'
    BY DEF IInv
  <2>2. /\ events' \in 0..MaxEvents /\ \A c \in Chats : stored'[c] <= events' + 1
        /\ pending' \in BOOLEAN /\ bursting' \in BOOLEAN
        /\ woken' + AsOne(pending)' + AsOne(bursting)' <= events'
    BY TimeLimits, TaskLimits
  <2>3. /\ toggles' \subseteq Chats \X BOOLEAN /\ \A c \in Chats : unread'[c] <= Counted(c)'
        /\ RowsLimited' /\ model'.shown.rows <= events' + 1
    BY <2>1, ToggleLimits, CountLimits, PageLimits
  <2> QED
    BY <2>2, <2>3 DEF Limits
<1>3. IInv /\ Limits => TypeOK
  BY Within
<1> QED
  BY <1>1, <1>2, <1>3, Inductive, PTL DEF Spec

-----------------------------------------------------------------------------
(* The bubble of one message.                                                *)

\* The bubble is made of the row and of what was in the cache at some load, or nothing is shown yet.
FromSomeLoad ==
  \/ item = Showing(<<>>, "nothing", NoUrl)
  \/ \E have \in SUBSET Urls : item = FromRow(row, ~public, have)

\* What a bubble offers to a click, and what it shows in place.
Offers(it, u) ==
  \/ it.as \in {"button", "card"} /\ u = it.url
  \/ it.as = "tiles" /\ [url |-> u, here |-> FALSE] \in it.tiles
ShowsIn(it, u) == (it.as \in {"image", "audio"} /\ it.url = u) \/ Tile(u, {u}) \in it.tiles

\* What a bubble waits for.
Awaited(it) ==
  {t.url : t \in {t \in it.tiles : ~t.here /\ Media(t.url)}}
  \cup {u \in Urls : u = it.url /\ it.as \in {"placeholder", "caption"}}

\* Media that was clicked on is on its way, there or lost; and every load that finds it shows it.
TappedComes ==
  \A u \in tapped : Media(u) =>
    /\ u \in fetching \cup cache \cup failed
    /\ \A have \in SUBSET Urls : u \in have => ShowsIn(FromRow(row, ~public, have), u)

BubbleSound ==
  /\ row.files \in Seq(Urls) /\ row.retracted \in BOOLEAN /\ public \in BOOLEAN
  /\ cache \subseteq Urls
  /\ ~row.retracted =>
       /\ FromSomeLoad /\ TappedComes
       /\ ~public => Awaited(item) \subseteq fetching \cup cache \cup failed

LEMMA Pair ==
  ASSUME NEW S, NEW u \in S, NEW v \in S
  PROVE  <<u>> \in Seq(S) /\ <<u, v>> \in Seq(S)
  OBVIOUS

LEMMA OneFile ==
  ASSUME NEW u \in Urls
  PROVE  SetToSeq({u}) = <<u>>
<1>1. Cardinality({u}) = 1
  BY FS_Singleton
<1> DEFINE f == [i \in 1..1 |-> u]
<1>2. f \in [1..1 -> {u}] /\ IsInjective(f)
  BY DEF IsInjective
<1>3. SetToSeq({u}) \in [1..1 -> {u}]
  BY <1>1, <1>2 DEF SetToSeq
<1> QED
  BY <1>3

\* The files of a row are URLs, whatever content it was made of.
LEMMA FilesAreUrls ==
  ASSUME NEW c, NEW here, c.sfs \in Seq(Urls), c.oob \in {{}} \cup {{u} : u \in Urls}
  PROVE  Parse(c, here).files \in Seq(Urls)
<1>1. CASE c.sfs # <<>>
  BY <1>1 DEF Parse, Row
<1>2. CASE c.sfs = <<>> /\ c.oob # {}
  <2>1. PICK u \in Urls : c.oob = {u}
    BY <1>2
  <2>2. SetToSeq({u}) \in Seq(Urls)
    BY OneFile, Pair
  <2> QED
    BY <1>2, <2>1, <2>2 DEF Parse, Row
<1>3. CASE c.sfs = <<>> /\ c.oob = {}
  BY <1>3 DEF Parse, Row
<1> QED
  BY <1>1, <1>2, <1>3

LEMMA ContentsSent ==
  ASSUME NEW m \in Ours \cup Theirs
  PROVE  m.content.sfs \in Seq(Urls) /\ m.content.oob \in {{}} \cup {{u} : u \in Urls}
<1>1. Encrypted \subseteq Urls
  BY ContentAssumption
<1>2. <<>> \in Seq(Urls)
  OBVIOUS
<1>3. ASSUME NEW t, NEW u \in Urls
      PROVE  /\ SendText(t).sfs = <<>> /\ SendText(t).oob = {}
             /\ SendFile(t, u).sfs = <<>> /\ SendFile(t, u).oob \in {{}} \cup {{v} : v \in Urls}
             /\ SendApp(u).sfs = <<>> /\ SendApp(u).oob = {}
             /\ SendSticker.sfs = <<>> /\ SendSticker.oob = {}
  BY DEF SendText, SendFile, SendApp, SendSticker, Blank
<1>4. ASSUME NEW t, NEW f
      PROVE  SendFiles(t, f).sfs = f /\ SendFiles(t, f).oob = {}
  BY DEF SendFiles, Blank
<1>5. CASE m \in Theirs
  <2>1. PICK f \in Foreign : m.content = f.content
    BY <1>5 DEF Theirs
  <2>2. f.content \in Contents
    BY BubbleAssumption
  <2> QED
    BY <2>1, <2>2 DEF Contents
<1>6. CASE m \in Ours
  <2> DEFINE Pairs == {<<u, v>> : u \in Encrypted, v \in Encrypted \ Plain}
  <2>1. ASSUME NEW f \in Pairs PROVE f \in Seq(Urls)
    BY <1>1, Pair
  <2>4. \/ \E t : m.content = SendText(t)
        \/ \E t : \E u \in Encrypted : m.content = SendFile(t, u)
        \/ \E t : \E f \in Pairs : m.content = SendFiles(t, f)
        \/ m.content = SendSticker
        \/ \E u \in Encrypted : m.content = SendApp(u)
    BY <1>6 DEF Ours, Message, Row
  <2> HIDE DEF Pairs
  <2>5. CASE \E t : m.content = SendText(t)
    BY <1>2, <2>5 DEF SendText, Blank
  <2>6. CASE \E t : \E u \in Encrypted : m.content = SendFile(t, u)
    BY <1>1, <1>2, <1>3, <2>6
  <2>7. CASE \E t : \E f \in Pairs : m.content = SendFiles(t, f)
    BY <1>4, <2>1, <2>7
  <2>8. CASE m.content = SendSticker
    BY <1>2, <2>8 DEF SendSticker, Blank
  <2>9. CASE \E u \in Encrypted : m.content = SendApp(u)
    BY <1>1, <1>2, <1>3, <2>9
  <2> QED
    BY <2>4, <2>5, <2>6, <2>7, <2>8, <2>9
<1> QED
  BY <1>5, <1>6

\* What a bubble of a row offers, every bubble of that row that finds it shows.
LEMMA OfferedIsShown ==
  ASSUME NEW r, r.files \in Seq(Urls), ~r.retracted, NEW auto \in BOOLEAN, NEW have, NEW later, NEW u,
         Media(u), Offers(FromRow(r, auto, have), u), u \in later
  PROVE  ShowsIn(FromRow(r, auto, later), u)
<1> USE DEF Showing
<1>1. CASE Len(r.files) > 1
  <2>1. /\ FromRow(r, auto, have).tiles = {Tile(v, have) : v \in ToSet(r.files)}
        /\ FromRow(r, auto, have).as = "tiles"
        /\ FromRow(r, auto, later).tiles = {Tile(v, later) : v \in ToSet(r.files)}
    BY <1>1 DEF FromRow
  <2>2. u \in ToSet(r.files)
    BY <2>1 DEF Offers, Tile
  <2>3. Tile(u, later) = Tile(u, {u})
    BY DEF Tile
  <2> QED
    BY <2>1, <2>2, <2>3 DEF ShowsIn
<1>2. CASE Len(r.files) <= 1 /\ IsApp(r)
  BY <1>2 DEF FromRow, Offers
<1>3. CASE Len(r.files) <= 1 /\ ~IsApp(r) /\ IsCid(r.body)
  BY <1>3 DEF FromRow, Offers
<1> DEFINE caption == IF r.files # <<>> THEN r.body ELSE <<>>
<1>4. CASE Len(r.files) <= 1 /\ ~IsApp(r) /\ ~IsCid(r.body) /\ ~auto
  <2>1. /\ FromRow(r, auto, have) = OnRequest(r, caption, have)
        /\ FromRow(r, auto, later) = OnRequest(r, caption, later)
    BY <1>4 DEF FromRow
  <2> DEFINE offered == IF r.files # <<>> THEN {Head(r.files)}
                        ELSE IF IsMedia(r.body) \/ IsOtherFile(r.body) THEN {Head(r.body)} ELSE {}
             it == CHOOSE v \in offered : TRUE
  <2> HIDE DEF caption, offered, it
  <2>a. \A h : OnRequest(r, caption, h) =
           IF offered = {} THEN Showing(r.body, "text", NoUrl)
           ELSE IF Media(it) /\ it \in h THEN Inline(it, caption, h) ELSE Showing(caption, "button", it)
    BY DEF OnRequest, offered, it
  <2>2. offered # {} /\ it = u
    BY <2>1, <2>a DEF Offers, Inline
  <2>3. OnRequest(r, caption, later).as \in {"image", "audio"} /\ OnRequest(r, caption, later).url = u
    BY <2>2, <2>a DEF Inline
  <2> QED
    BY <2>1, <2>3 DEF ShowsIn
<1>5. CASE Len(r.files) <= 1 /\ ~IsApp(r) /\ ~IsCid(r.body) /\ auto
  <2>1. r.files # <<>> => IsMedia(<<Head(r.files)>>) \/ ~Media(Head(r.files))
    BY DEF IsMedia, IsLink
  <2>2. CASE r.files # <<>>
    BY <1>5, <2>1, <2>2 DEF FromRow, Offers, Inline
  <2>3. CASE r.files = <<>>
    BY <1>5, <2>3 DEF FromRow, Offers, Inline, IsOtherFile
  <2> QED
    BY <2>2, <2>3
<1> QED
  BY <1>1, <1>2, <1>3, <1>4, <1>5

\* What the bubble of a private chat waits for is media that the prefetch of its load saw missing.
LEMMA AwaitedIsMissing ==
  ASSUME NEW r, r.files \in Seq(Urls), ~r.retracted, NEW auto, auto = TRUE, NEW have,
         NEW it, it = FromRow(r, auto, have)
  PROVE  Awaited(it) \subseteq RowMedia(r) \ have
<1> USE DEF Showing
<1>1. CASE Len(r.files) > 1
  <2>1. /\ it.tiles = {Tile(v, have) : v \in ToSet(r.files)}
        /\ it.as = "tiles"
    BY <1>1 DEF FromRow
  <2>2. RowMedia(r) = {v \in ToSet(r.files) : Media(v)}
    BY <1>1 DEF RowMedia
  <2>3. ASSUME NEW t \in it.tiles PROVE t.url \in ToSet(r.files) /\ (~t.here => t.url \notin have)
    <3>1. PICK v \in ToSet(r.files) : t = Tile(v, have)
      BY <2>1
    <3> QED
      BY <3>1 DEF Tile
  <2> HIDE DEF Showing
  <2> QED
    BY <2>1, <2>2, <2>3, Zenon DEF Awaited
<1>2. CASE Len(r.files) <= 1 /\ IsApp(r)
  BY <1>2 DEF FromRow, Awaited
<1>3. CASE Len(r.files) <= 1 /\ ~IsApp(r) /\ IsCid(r.body)
  BY <1>3 DEF FromRow, Awaited
<1>4. CASE Len(r.files) <= 1 /\ ~IsApp(r) /\ ~IsCid(r.body) /\ r.files # <<>>
  <2>1. Head(r.files) \in ToSet(r.files)
    BY <1>4 DEF ToSet
  <2>2. it = IF IsMedia(<<Head(r.files)>>) THEN Inline(Head(r.files), r.body, have)
             ELSE Showing(r.body, "card", Head(r.files))
    BY <1>4 DEF FromRow
  <2>3. IsMedia(<<Head(r.files)>>) => Media(Head(r.files))
    BY DEF IsMedia
  <2>4. RowMedia(r) = {v \in ToSet(r.files) : Media(v)}
    BY <1>4 DEF RowMedia
  <2>5. it.tiles = {}
    BY <2>2 DEF Inline
  <2> QED
    BY <2>1, <2>2, <2>3, <2>4, <2>5 DEF Awaited, Inline
<1>5. CASE Len(r.files) <= 1 /\ ~IsApp(r) /\ ~IsCid(r.body) /\ r.files = <<>>
  BY <1>5 DEF FromRow, Awaited, Inline, RowMedia
<1>6. Len(r.files) > 1 \/ Len(r.files) <= 1
  OBVIOUS
<1> QED
  BY <1>1, <1>2, <1>3, <1>4, <1>5, <1>6, Zenon

\* What the theorems about downloads and clicks are read off: it holds through loads and retraction.
THEOREM BubbleInductive == BubbleSpec => []BubbleSound
<1>1. BubbleInit => BubbleSound
  <2> SUFFICES ASSUME BubbleInit PROVE BubbleSound
    OBVIOUS
  <2>1. PICK m \in Ours \cup Theirs, here \in BOOLEAN : row = Live(Parse(m.content, here))
    BY DEF BubbleInit
  <2>2. row.files \in Seq(Urls) /\ row.retracted \in BOOLEAN
    BY <2>1, FilesAreUrls, ContentsSent DEF Live
  <2>3. public \in BOOLEAN /\ cache = {} /\ tapped = {} /\ item = Showing(<<>>, "nothing", NoUrl)
    BY DEF BubbleInit
  <2> QED
    BY <2>2, <2>3 DEF BubbleSound, FromSomeLoad, TappedComes, Awaited, Showing
<1>2. BubbleSound /\ [BubbleNext]_bubbleVars => BubbleSound'
  <2> SUFFICES ASSUME BubbleSound, [BubbleNext]_bubbleVars PROVE BubbleSound'
    OBVIOUS
  <2>1. CASE LoadAgain
    <3>1. /\ fetching' = fetching \cup (IF ~public THEN RowMedia(row) \ (cache \cup fetching) ELSE {})
          /\ item' = FromRow(row, ~public, cache)
          /\ row' = row /\ public' = public /\ cache' = cache /\ failed' = failed /\ tapped' = tapped
      BY <2>1 DEF LoadAgain, ToFetch, Automatic
    <3>2. FromSomeLoad'
      BY <3>1 DEF FromSomeLoad, BubbleSound
    <3>3. ~row.retracted => TappedComes'
      BY <3>1 DEF TappedComes, BubbleSound
    <3>4. ~row.retracted /\ ~public => Awaited(item') \subseteq fetching' \cup cache'
      <4> SUFFICES ASSUME ~row.retracted, ~public PROVE Awaited(item') \subseteq fetching' \cup cache'
        OBVIOUS
      <4>1. Awaited(FromRow(row, ~public, cache)) \subseteq RowMedia(row) \ cache
        BY AwaitedIsMissing DEF BubbleSound
      <4> QED
        BY <3>1, <4>1
    <3> QED
      BY <3>1, <3>2, <3>3, <3>4 DEF BubbleSound
  <2>2. CASE Retract
    BY <2>2 DEF Retract, BubbleSound, Live, NoRow, Row
  <2>3. ASSUME NEW u \in Urls, Downloaded(u) PROVE BubbleSound'
    <3>1. /\ row' = row /\ public' = public /\ tapped' = tapped /\ item' = item
          /\ cache \subseteq cache' /\ cache' \subseteq cache \cup {u}
          /\ fetching \cup cache \cup failed \subseteq fetching' \cup cache' \cup failed'
      BY <2>3 DEF Downloaded
    <3>2. ~row.retracted => FromSomeLoad'
      BY <3>1 DEF FromSomeLoad, BubbleSound
    <3>3. ~row.retracted => TappedComes'
      BY <3>1 DEF TappedComes, BubbleSound
    <3> QED
      BY <3>1, <3>2, <3>3 DEF BubbleSound
  <2>4. ASSUME NEW u \in Urls, Tap(u) PROVE BubbleSound'
    <3>1. /\ row' = row /\ public' = public /\ item' = item /\ cache' = cache /\ failed' = failed
          /\ tapped' = tapped \cup {u} /\ Offers(item, u)
          /\ fetching \subseteq fetching' /\ (Media(u) => u \in fetching' \cup cache)
      BY <2>4 DEF Tap, Offers
    <3>2. ~row.retracted => FromSomeLoad'
      BY <3>1 DEF FromSomeLoad, BubbleSound
    <3>3. ~row.retracted => TappedComes'
      <4> SUFFICES ASSUME ~row.retracted, Media(u) 
                   PROVE  \A have \in SUBSET Urls : u \in have => ShowsIn(FromRow(row, ~public, have), u)
        BY <3>1 DEF TappedComes, BubbleSound
      <4>1. item # Showing(<<>>, "nothing", NoUrl)
        BY <3>1 DEF Offers, Showing
      <4>2. PICK at \in SUBSET Urls : item = FromRow(row, ~public, at)
        BY <4>1 DEF BubbleSound, FromSomeLoad
      <4> QED
        BY <3>1, <4>2, OfferedIsShown DEF BubbleSound
    <3> QED
      BY <3>1, <3>2, <3>3 DEF BubbleSound
  <2>5. CASE UNCHANGED bubbleVars
    BY <2>5 DEF BubbleSound, FromSomeLoad, TappedComes, bubbleVars
  <2> QED
    BY <2>1, <2>2, <2>3, <2>4, <2>5 DEF BubbleNext
<1> QED
  BY <1>1, <1>2, PTL DEF BubbleSpec

\* A placeholder or an empty tile of a private chat stands for media that is on its way, there for
\* the next load, or lost: the prefetch of a load asks for all that its bubble then waits for, and
\* only a retraction takes it away again (prefetch_images against from_row).
THEOREM AwaitedIsFetched == BubbleSpec => []PlaceholderIsFetched
<1>1. BubbleSound => PlaceholderIsFetched
  <2> SUFFICES ASSUME BubbleSound, ~public
               PROVE  Awaited(item) \subseteq fetching \cup cache \cup failed \cup (IF row.retracted THEN Urls ELSE {})
    BY Zenon DEF PlaceholderIsFetched, Awaited
  <2>1. Awaited(item) \subseteq Urls
    BY DEF Awaited, Media, Urls
  <2> QED
    BY <2>1 DEF BubbleSound
<1> QED
  BY <1>1, BubbleInductive, PTL

\* A picture, a sound or a tile that was clicked on is what the bubble shows once its download is
\* there (download_attachment against from_row).
THEOREM Tapped == BubbleSpec => []TapShows
<1>1. BubbleSound => TapShows
  <2> SUFFICES ASSUME BubbleSound, fetching = {}, ~row.retracted, item = FromRow(row, ~public, cache),
                      NEW u \in tapped \ failed, Media(u)
               PROVE  ShowsIn(item, u)
    BY DEF TapShows, ShowsIn
  <2> QED
    BY DEF BubbleSound, TappedComes
<1> QED
  BY <1>1, BubbleInductive, PTL

-----------------------------------------------------------------------------
(* What is cut from a body and what stays: both ends show the same.          *)

\* A set of numbers that is not empty has a least one.
LEMMA LeastPlace ==
  ASSUME NEW T \in SUBSET Nat, T # {}
  PROVE  \E n \in T : \A m \in T : n <= m
<1>1. \E n \in T : \A m \in T : ~(<<m, n>> \in OpToRel(<, Nat))
  <2> DEFINE R == OpToRel(<, Nat)
  <2>1. IsWellFoundedOn(R, Nat)
    BY NatLessThanWellFounded
  <2> HIDE DEF R
  <2>2. \E n \in T : \A m \in T : ~(<<m, n>> \in R)
    BY <2>1, WFMin
  <2> QED
    BY <2>2 DEF R
<1>2. \E n \in T : \A m \in T : ~(m < n)
  <2>1. ASSUME NEW m \in Nat, NEW n \in Nat, m < n PROVE <<m, n>> \in OpToRel(<, Nat)
    BY <2>1 DEF OpToRel
  <2> QED
    BY <1>1, <2>1, Zenon
<1> QED
  BY <1>2

\* How many places of keep come no later than i.
Upto(keep, i) == Cardinality({j \in keep : j <= i})

LEMMA Counts ==
  ASSUME NEW m \in Nat, NEW keep \in SUBSET (1..m)
  PROVE  /\ Cardinality(keep) \in Nat /\ \A i \in Nat : Upto(keep, i) \in Nat
         /\ Upto(keep, 0) = 0 /\ Upto(keep, m) = Cardinality(keep)
         /\ \A i \in Nat : Upto(keep, i + 1) = IF i + 1 \in keep THEN Upto(keep, i) + 1 ELSE Upto(keep, i)
         /\ \A i, k \in keep : i < k => Upto(keep, i) < Upto(keep, k)
         /\ \A k \in 0..m : 1..k \subseteq keep => Upto(keep, k) = k
<1>0. \A j \in keep : j \in Int /\ 1 <= j /\ j <= m
  OBVIOUS
<1>1. IsFiniteSet(keep)
  <2>1. IsFiniteSet(1..m)
    BY FS_Interval
  <2> QED
    BY <2>1, FS_Subset
<1>2. \A i : IsFiniteSet({j \in keep : j <= i})
  BY <1>1, FS_Subset
<1>3. Cardinality(keep) \in Nat /\ \A i : Upto(keep, i) \in Nat
  BY <1>1, <1>2, FS_CardinalityType DEF Upto
<1>4. {j \in keep : j <= 0} = {} /\ {j \in keep : j <= m} = keep
  <2>1. \A j \in keep : ~(j <= 0) /\ j <= m
    BY <1>0
  <2> QED
    BY <2>1, Zenon
<1>5. Upto(keep, 0) = 0 /\ Upto(keep, m) = Cardinality(keep)
  BY <1>4, FS_EmptySet DEF Upto
<1>6. ASSUME NEW i \in Nat
      PROVE  Upto(keep, i + 1) = IF i + 1 \in keep THEN Upto(keep, i) + 1 ELSE Upto(keep, i)
  <2>1. CASE i + 1 \in keep
    <3>1. {j \in keep : j <= i + 1} = {j \in keep : j <= i} \cup {i + 1}
      <4>1. \A j \in keep : j <= i + 1 <=> j <= i \/ j = i + 1
        BY <1>0
      <4> QED
        BY <2>1, <4>1, Zenon
    <3>2. i + 1 \notin {j \in keep : j <= i}
      OBVIOUS
    <3> QED
      BY <1>2, <2>1, <3>1, <3>2, FS_AddElement DEF Upto
  <2>2. CASE i + 1 \notin keep
    <3>1. {j \in keep : j <= i + 1} = {j \in keep : j <= i}
      <4>1. \A j \in keep : j # i + 1 => (j <= i + 1 <=> j <= i)
        BY <1>0
      <4> QED
        BY <2>2, <4>1, Zenon
    <3> QED
      BY <2>2, <3>1 DEF Upto
  <2> QED
    BY <2>1, <2>2
<1>7. ASSUME NEW i \in keep, NEW k \in keep, i < k PROVE Upto(keep, i) < Upto(keep, k)
  <2> DEFINE A == {j \in keep : j <= i}
             B == {j \in keep : j <= k}
  <2>1. A \cup {k} \in SUBSET B /\ k \notin A
    <3>1. \A j \in keep : j <= i => j <= k
      BY <1>0, <1>7
    <3>2. k <= k /\ ~(k <= i)
      BY <1>0, <1>7
    <3> QED
      BY <3>1, <3>2, Zenon
  <2>2. Cardinality(A \cup {k}) = Cardinality(A) + 1
    BY <1>2, <2>1, FS_AddElement
  <2>3. Cardinality(A \cup {k}) <= Cardinality(B)
    BY <1>2, <2>1, FS_Subset
  <2> QED
    BY <1>3, <2>2, <2>3 DEF Upto
<1>8. ASSUME NEW k \in 0..m, 1..k \subseteq keep PROVE Upto(keep, k) = k
  <2>1. {j \in keep : j <= k} = 1..k
    <3>1. \A j \in keep : j <= k <=> j \in 1..k
      BY <1>0
    <3> QED
      BY <1>8, <3>1, Zenon
  <2>2. k \in Int /\ 0 <= k /\ Cardinality(1..k) = k
    BY FS_Interval
  <2> QED
    BY <2>1, <2>2 DEF Upto
<1> QED
  BY <1>3, <1>5, <1>6, <1>7, <1>8

LEMMA PlaceOf ==
  ASSUME NEW m \in Nat, NEW keep \in SUBSET (1..m), NEW n \in 1..Cardinality(keep)
  PROVE  \E i \in keep : Upto(keep, i) = n
<1> DEFINE T == {i \in 1..m : n <= Upto(keep, i)}
<1>0. Cardinality(keep) \in Nat /\ m # 0
  BY Counts
<1>1. m \in T
  BY <1>0, Counts
<1>2. PICK i \in T : \A k \in T : i <= k
  <2>1. T \in SUBSET Nat /\ T # {}
    BY <1>1
  <2> HIDE DEF T
  <2> QED
    BY <2>1, LeastPlace
<1>3. i - 1 \in Nat /\ Upto(keep, i - 1) < n
  <2>0. i \in Nat /\ 1 <= i
    BY <1>2
  <2>1. i - 1 \in Nat /\ i - 1 \notin T /\ Upto(keep, i - 1) \in Nat
    <3>1. i - 1 \in Nat
      BY <2>0
    <3> QED
      BY <1>2, <2>0, <3>1, Counts
  <2>2. CASE i = 1
    BY <2>2, <1>0, Counts
  <2>3. CASE i # 1
    BY <2>1, <2>3, <1>0
  <2> QED
    BY <2>1, <2>2, <2>3
<1>4. Upto(keep, i) = IF i \in keep THEN Upto(keep, i - 1) + 1 ELSE Upto(keep, i - 1)
  <2>1. (i - 1) + 1 = i
    OBVIOUS
  <2> QED
    BY <1>3, <2>1, Counts
<1>5. n <= Upto(keep, i) /\ Upto(keep, i - 1) \in Nat
  BY <1>3, Counts
<1> QED
  BY <1>0, <1>3, <1>4, <1>5

LEMMA Picked ==
  ASSUME NEW S, NEW body \in Seq(S), NEW keep \in SUBSET (1..Len(body)),
         NEW k \in 0..Len(body), 1..k \subseteq keep
  PROVE  /\ WordsAt(body, keep) \in Seq(S)
         /\ Len(WordsAt(body, keep)) = Cardinality(keep)
         /\ k <= Cardinality(keep)
         /\ \A n \in 1..k : WordsAt(body, keep)[n] = body[n]
         /\ \A n \in k + 1..Cardinality(keep) :
              \E i \in keep : i > k /\ WordsAt(body, keep)[n] = body[i]
<1> DEFINE w == WordsAt(body, keep)
<1>1. Len(body) \in Nat /\ Cardinality(keep) \in Nat
  BY Counts
<1>a. \A i \in keep : i \in Int /\ 1 <= i /\ i <= Len(body)
  BY <1>1
<1>2. PICK at \in [1..Cardinality(keep) -> keep] :
        /\ \A n \in 1..Cardinality(keep) : Upto(keep, at[n]) = n
        /\ w = [n \in 1..Cardinality(keep) |-> body[at[n]]]
  <2> DEFINE places == [n \in 1..Cardinality(keep) |-> CHOOSE i \in keep : Upto(keep, i) = n]
  <2>1. \A n \in 1..Cardinality(keep) : places[n] \in keep /\ Upto(keep, places[n]) = n
    BY <1>1, PlaceOf
  <2>2. places \in [1..Cardinality(keep) -> keep]
    BY <2>1
  <2>3. w = [n \in 1..Cardinality(keep) |-> body[places[n]]]
    BY DEF WordsAt, Upto
  <2> HIDE DEF places
  <2> QED
    BY <2>1, <2>2, <2>3
<1> HIDE DEF w
<1>3. \A n \in 1..Cardinality(keep) : at[n] \in keep
  BY <1>2
<1>4. \A i \in keep : body[i] \in S
  BY <1>1, <1>a
<1>5. w \in Seq(S) /\ Len(w) = Cardinality(keep)
  <2>1. \A n \in 1..Cardinality(keep) : body[at[n]] \in S
    BY <1>3, <1>4, Zenon
  <2>2. w \in [1..Cardinality(keep) -> S]
    BY <1>2, <2>1
  <2> QED
    BY <1>1, <2>2
<1>6. k <= Cardinality(keep)
  <2>1. 1..k \in SUBSET keep /\ IsFiniteSet(keep)
    <3>1. IsFiniteSet(1..Len(body))
      BY <1>1, FS_Interval
    <3> QED
      BY <3>1, FS_Subset
  <2>2. Cardinality(1..k) = k
    BY FS_Interval
  <2> QED
    BY <2>1, <2>2, FS_Subset
<1>7. ASSUME NEW n \in 1..k PROVE at[n] = n
  <2>1. n \in keep /\ Upto(keep, n) = n
    <3>1. 1..n \subseteq keep /\ n \in 0..Len(body)
      OBVIOUS
    <3> QED
      BY <1>1, <3>1, Counts
  <2>2. n \in 1..Cardinality(keep)
    BY <1>1, <1>6
  <2>3. at[n] \in keep /\ Upto(keep, at[n]) = n
    BY <1>2, <1>3, <2>2
  <2>4. ~(at[n] < n) /\ ~(n < at[n])
    <3>1. \A i, j \in keep : i < j => Upto(keep, i) < Upto(keep, j)
      BY <1>1, Counts
    <3>2. ~(n < n)
      BY <1>1
    <3> QED
      BY <2>1, <2>3, <3>1, <3>2, Zenon
  <2>5. n \in Int /\ at[n] \in Int
    BY <1>1, <1>a, <2>1, <2>3
  <2> QED
    BY <2>4, <2>5
<1>8. ASSUME NEW n \in k + 1..Cardinality(keep) PROVE at[n] > k
  <2>1. n \in 1..Cardinality(keep) /\ n > k
    BY <1>1
  <2>2. at[n] \in keep /\ Upto(keep, at[n]) = n
    BY <1>2, <1>3, <2>1
  <2>a. at[n] \in Int /\ 1 <= at[n] /\ at[n] <= Len(body)
    BY <1>1, <1>a, <2>2
  <2>3. ASSUME at[n] <= k PROVE FALSE
    <3>1. at[n] \in 1..k /\ 1..at[n] \subseteq keep /\ at[n] \in 0..Len(body)
      BY <1>1, <2>a, <2>3
    <3>2. Upto(keep, at[n]) = at[n]
      BY <1>1, <3>1, Counts
    <3> QED
      BY <2>a, <2>1, <2>2, <2>3, <3>2
  <2> QED
    BY <2>a, <2>3
<1>9. \A n \in 1..k : w[n] = body[n]
  BY <1>1, <1>2, <1>6, <1>7
<1>10. \A n \in k + 1..Cardinality(keep) : \E i \in keep : i > k /\ w[n] = body[i]
  <2> TAKE n \in k + 1..Cardinality(keep)
  <2>1. n \in 1..Cardinality(keep)
    BY <1>1
  <2>2. at[n] \in keep /\ at[n] > k /\ w[n] = body[at[n]]
    BY <1>2, <1>3, <1>8, <2>1
  <2> QED
    BY <2>2
<1> QED
  BY <1>5, <1>6, <1>9, <1>10 DEF w


\* A span is cut: the words before it, and those behind it.
LEMMA Dropped ==
  ASSUME NEW S, NEW a \in Seq(S), NEW b \in Seq(S), NEW c \in Seq(S)
  PROVE  Drop(a \o b \o c, Len(a), Len(a) + Len(b)) = a \o c
<1> DEFINE s == a \o b \o c
           left == SubSeq(s, 1, Len(a))
           right == SubSeq(s, Len(a) + Len(b) + 1, Len(s))
<1>1. s \in Seq(S) /\ Len(s) = Len(a) + Len(b) + Len(c)
  OBVIOUS
<1>2. /\ \A i \in 1..Len(a) : s[i] = a[i]
      /\ \A i \in 1..Len(c) : s[Len(a) + Len(b) + i] = c[i]
  OBVIOUS
<1> HIDE DEF s
<1>3. left = a
  <2>1. left \in Seq(S) /\ Len(left) = Len(a) /\ \A i \in 1..Len(a) : left[i] = s[i]
    BY <1>1, SubSeqProperties
  <2> QED
    BY <1>2, <2>1
<1>4. right = c
  <2>1. right \in Seq(S) /\ Len(right) = Len(c)
        /\ \A i \in 1..Len(c) : right[i] = s[Len(a) + Len(b) + i]
    BY <1>1, SubSeqProperties
  <2> QED
    BY <1>2, <2>1
<1> QED
  BY <1>3, <1>4 DEF Drop, s

Namespaces == {"reply", "oob", "sfs"}

\* The words need no span of a namespace or it has one; and all that it has mark the same words.
Covered(c, of, words) == words = <<>> \/ \E i \in DOMAIN c.spans : c.spans[i].of = of
Marks(c, of, from, to) == \A i \in DOMAIN c.spans : c.spans[i].of = of => c.spans[i] = Span(of, from, to)

\* Spans of a namespace that all mark the same words, if any, take these away.
LEMMA Stripped ==
  ASSUME NEW c \in Contents, NEW ns \in Namespaces,
         NEW a \in Seq(Words), NEW b \in Seq(Words), NEW d \in Seq(Words),
         Marks(c, ns, Len(a), Len(a) + Len(b)), Covered(c, ns, b)
  PROVE  StripFor(c, a \o b \o d, ns) = a \o d
<1> DEFINE body == a \o b \o d
           fit == {i \in DOMAIN c.spans : c.spans[i].of = ns /\ Fits(c.spans[i], body)}
<1>0. DOMAIN c.spans \in SUBSET Nat
  BY DEF Contents
<1>1. Len(body) = Len(a) + Len(b) + Len(d)
  OBVIOUS
<1>2. \A i \in DOMAIN c.spans : c.spans[i].of = ns => i \in fit
  BY <1>1 DEF Marks, Span, Fits
<1>3. CASE fit = {}
  <2>1. b = <<>>
    BY <1>2, <1>3, EmptySeq DEF Covered
  <2>2. a \o b \o d = a \o d
    BY <2>1
  <2> QED
    BY <1>3, <2>2 DEF StripFor
<1>4. CASE fit # {}
  <2>1. PICK n \in fit : \A m \in fit : n <= m
    BY <1>0, <1>4, LeastPlace
  <2>2. Min(fit) \in fit
    BY <2>1 DEF Min
  <2>3. c.spans[Min(fit)].from = Len(a) /\ c.spans[Min(fit)].to = Len(a) + Len(b)
    <3>1. \A i \in fit : i \in DOMAIN c.spans /\ c.spans[i].of = ns
      OBVIOUS
    <3> HIDE DEF fit
    <3>2. c.spans[Min(fit)] = Span(ns, Len(a), Len(a) + Len(b))
      BY <2>2, <3>1 DEF Marks
    <3> QED
      BY <3>2 DEF Span
  <2>4. StripFor(c, body, ns) = Drop(body, Len(a), Len(a) + Len(b))
    BY <1>4, <2>3 DEF StripFor
  <2> QED
    BY <2>4, Dropped
<1> QED
  BY <1>3, <1>4

\* Text and then file URLs: the spans of the files and the search for URLs leave the text.
LEMMA FilesStripped ==
  ASSUME NEW c \in Contents, NEW said \in Seq(Words), NEW rest \in Seq(Words),
         \A n \in DOMAIN rest : Contains(c.sfs, rest[n]),
         \A n \in DOMAIN said : ~Contains(c.sfs, said[n]),
         \A i \in DOMAIN c.spans : c.spans[i].of # "reply" => c.spans[i].from >= Len(said)
  PROVE  StripUrls(StripSpans(c, said \o rest), c.sfs) = said
<1> DEFINE body == said \o rest
           k == Len(said)
           cut(i) == \E s \in ToSet(c.spans) : s.of # "reply" /\ Fits(s, body) /\ s.from < i /\ i <= s.to
           keep == {i \in DOMAIN body : ~cut(i)}
           b == StripSpans(c, body)
           left == {i \in DOMAIN b : ~Contains(c.sfs, b[i])}
<1>1. /\ body \in Seq(Words) /\ Len(body) = k + Len(rest) /\ DOMAIN body = 1..Len(body)
      /\ k \in Nat /\ Len(rest) \in Nat
      /\ \A i \in 1..k : body[i] = said[i]
      /\ \A i \in k + 1..Len(body) : i - k \in 1..Len(rest) /\ body[i] = rest[i - k]
  OBVIOUS
<1>2. \A s \in ToSet(c.spans) : s.of # "reply" => s.from \in Nat /\ s.from >= k
  <2> SUFFICES ASSUME NEW i \in DOMAIN c.spans, c.spans[i].of # "reply"
               PROVE  c.spans[i].from \in Nat /\ c.spans[i].from >= k
    BY DEF ToSet
  <2>1. c.spans \in Seq([of : {"reply", "oob", "sfs"}, from : Nat, to : Nat])
    BY DEF Contents
  <2>2. \A R : \A s \in Seq(R) : \A n \in DOMAIN s : s[n] \in R
    OBVIOUS
  <2>3. c.spans[i] \in [of : {"reply", "oob", "sfs"}, from : Nat, to : Nat]
    BY <2>1, <2>2, Zenon
  <2> QED
    BY <2>3
<1>3. keep \in SUBSET (1..Len(body)) /\ 1..k \subseteq keep /\ k \in 0..Len(body)
  <2>1. \A i \in 1..k : ~cut(i)
    BY <1>1, <1>2
  <2> HIDE DEF cut
  <2> QED
    BY <1>1, <2>1
<1>4. b = WordsAt(body, keep)
  BY DEF StripSpans
<1> HIDE DEF body, keep, k
<1>5. /\ b \in Seq(Words) /\ Len(b) = Cardinality(keep) /\ k <= Cardinality(keep)
      /\ \A n \in 1..k : b[n] = body[n]
      /\ \A n \in k + 1..Cardinality(keep) : \E i \in keep : i > k /\ b[n] = body[i]
  <2>1. k \in 0..Len(body) /\ 1..k \subseteq keep /\ keep \in SUBSET (1..Len(body)) /\ body \in Seq(Words)
    BY <1>1, <1>3
  <2> HIDE DEF b
  <2> QED
    BY <1>4, <2>1, Picked
<1> HIDE DEF b
<1>6. Len(b) \in Nat /\ k \in Nat /\ DOMAIN b = 1..Len(b)
  BY <1>1, <1>5
<1>7. ASSUME NEW n \in 1..k PROVE n \in left /\ b[n] = said[n]
  <2>1. b[n] = said[n]
    BY <1>1, <1>5
  <2>2. n \in DOMAIN said /\ n \in DOMAIN b
    BY <1>5, <1>6 DEF k
  <2> QED
    BY <2>1, <2>2
<1>8. ASSUME NEW n \in k + 1..Len(b) PROVE n \notin left
  <2>1. PICK i \in keep : i > k /\ b[n] = body[i]
    BY <1>5
  <2>2. i \in k + 1..Len(body)
    BY <1>1, <1>3, <2>1
  <2>3. b[n] = rest[i - k] /\ i - k \in DOMAIN rest
    BY <1>1, <2>1, <2>2
  <2> QED
    BY <2>3
<1>9. left = 1..k
  BY <1>5, <1>6, <1>7, <1>8
<1>10. StripUrls(b, c.sfs) = WordsAt(b, 1..k)
  BY <1>9 DEF StripUrls
<1> HIDE DEF left
<1>11. 1..k \in SUBSET (1..Len(b)) /\ k \in 0..Len(b)
  BY <1>5, <1>6
<1>12. /\ WordsAt(b, 1..k) \in Seq(Words) /\ Len(WordsAt(b, 1..k)) = k
       /\ \A n \in 1..k : WordsAt(b, 1..k)[n] = b[n]
  <2>1. Cardinality(1..k) = k
    <3>1. Cardinality(1..k) = IF 1 > k THEN 0 ELSE k - 1 + 1
      BY <1>6, FS_Interval
    <3>2. k \in Int /\ k >= 0
      BY <1>6
    <3> QED
      BY <3>1, <3>2
  <2> QED
    BY <1>5, <1>11, <2>1, Picked
<1>13. WordsAt(b, 1..k) = said
  BY <1>7, <1>12 DEF k
<1> QED
  BY <1>10, <1>13 DEF b, body

\* A content whose text comes first: a quote that a reply marks, the text, then the files, each
\* marked by the spans of its namespace and, described by elements, named nowhere in the text.
TextFirst(m) ==
  LET c == m.content IN
  /\ ~c.img /\ ~c.data
  /\ \E quote \in Seq(Words), rest \in Seq(Words) :
       /\ c.body = quote \o m.said \o rest
       /\ Marks(c, "reply", 0, Len(quote)) /\ Covered(c, "reply", quote)
       /\ c.sfs = <<>> => Marks(c, "oob", Len(m.said), Len(m.said) + Len(rest))
       /\ c.sfs # <<>> =>
            /\ \A i \in DOMAIN c.spans : c.spans[i].of # "reply" => c.spans[i].from >= Len(m.said)
            /\ \A n \in DOMAIN rest : Contains(c.sfs, rest[n])
            /\ \A n \in DOMAIN m.said : ~Contains(c.sfs, m.said[n])

LEMMA QuoteCut ==
  ASSUME NEW c \in Contents, NEW quote \in Seq(Words), NEW text \in Seq(Words),
         Covered(c, "reply", quote), Marks(c, "reply", 0, Len(quote))
  PROVE  StripFor(c, quote \o text, "reply") = text
<1> DEFINE empty == <<>>
           reply == "reply"
<1>0. reply \in Namespaces
  BY DEF Namespaces
<1>1. empty \in Seq(Words) /\ Len(empty) = 0 /\ Len(empty) + Len(quote) = Len(quote)
  OBVIOUS
<1>2. empty \o quote = quote /\ empty \o text = text
  OBVIOUS
<1>3. Covered(c, reply, quote) /\ Marks(c, reply, 0, Len(quote))
  OBVIOUS
<1> HIDE DEF empty, reply
<1>4. Marks(c, reply, Len(empty), Len(empty) + Len(quote))
  BY <1>1, <1>3, Zenon
<1>5. StripFor(c, empty \o quote \o text, reply) = empty \o text
  BY <1>0, <1>1, <1>3, <1>4, Stripped
<1> QED
  BY <1>2, <1>5, Zenon DEF reply

LEMMA FileCut ==
  ASSUME NEW c \in Contents, NEW said \in Seq(Words), NEW rest \in Seq(Words),
         Covered(c, "oob", rest), Marks(c, "oob", Len(said), Len(said) + Len(rest))
  PROVE  StripFor(c, said \o rest, "oob") = said
<1> DEFINE empty == <<>>
           oob == "oob"
<1>0. oob \in Namespaces
  BY DEF Namespaces
<1>1. empty \in Seq(Words)
  OBVIOUS
<1>2. (said \o rest) \o empty = said \o rest /\ said \o empty = said
  OBVIOUS
<1>3. Covered(c, oob, rest) /\ Marks(c, oob, Len(said), Len(said) + Len(rest))
  OBVIOUS
<1> HIDE DEF empty, oob
<1>4. StripFor(c, said \o rest \o empty, oob) = said \o empty
  BY <1>0, <1>1, <1>3, Stripped
<1> QED
  BY <1>2, <1>4, Zenon DEF oob

LEMMA TextIsShown ==
  ASSUME NEW m, NEW here, m.said \in Seq(Words), m.content \in Contents, TextFirst(m),
         Marked(m.content), Parse(m.content, here).files # <<>>
  PROVE  Parse(m.content, here).body = m.said
<1> DEFINE Body(c) == StripFor(c, WithSticker(c, here), "reply")
<1>1. PICK c, said : c = m.content /\ said = m.said
  OBVIOUS
<1>2. c \in Contents /\ said \in Seq(Words) /\ Marked(c)
  BY <1>1
<1>3. WithSticker(c, here) = c.body
  BY <1>1 DEF TextFirst, WithSticker
<1>4. PICK quote \in Seq(Words), rest \in Seq(Words) :
       /\ c.body = quote \o said \o rest
       /\ Marks(c, "reply", 0, Len(quote)) /\ Covered(c, "reply", quote)
       /\ c.sfs = <<>> => Marks(c, "oob", Len(said), Len(said) + Len(rest))
       /\ c.sfs # <<>> =>
            /\ \A i \in DOMAIN c.spans : c.spans[i].of # "reply" => c.spans[i].from >= Len(said)
            /\ \A n \in DOMAIN rest : Contains(c.sfs, rest[n])
            /\ \A n \in DOMAIN said : ~Contains(c.sfs, said[n])
  BY <1>1 DEF TextFirst
<1>5. Body(c) = said \o rest
  <2>1. said \o rest \in Seq(Words)
    BY <1>2, ConcatProperties
  <2>2. (quote \o said) \o rest = quote \o (said \o rest)
    BY <1>2, ConcatAssociative
  <2>3. StripFor(c, quote \o (said \o rest), "reply") = said \o rest
    BY <1>2, <1>4, <2>1, QuoteCut, Zenon
  <2> QED
    BY <1>3, <1>4, <2>2, <2>3, Zenon
<1> HIDE DEF Body
<1>6. CASE c.sfs # <<>>
  <2>1. StripUrls(StripSpans(c, said \o rest), c.sfs) = said
    BY <1>2, <1>4, <1>6, FilesStripped, ZenonT(100)
  <2> QED
    BY <1>1, <1>5, <1>6, <2>1 DEF Parse, Row, Body
<1>7. CASE c.sfs = <<>> /\ c.oob # {}
  <2>1. Covered(c, "oob", rest)
    BY <1>2, <1>7 DEF Marked, Covered
  <2>2. StripFor(c, said \o rest, "oob") = said
    BY <1>2, <1>4, <1>7, <2>1, FileCut, Zenon
  <2> QED
    BY <1>1, <1>5, <1>7, <2>2 DEF Parse, Row, Body
<1>8. CASE c.sfs = <<>> /\ c.oob = {}
  BY <1>1, <1>8 DEF Parse, Row
<1> QED
  BY <1>6, <1>7, <1>8

LEMMA FlattenTwo ==
  ASSUME NEW S, NEW a \in Seq(S), NEW b \in Seq(S)
  PROVE  FlattenSeq(<<a, b>>) = a \o b
<1> DEFINE s == <<a, b>>
           IsFlat(f) == f = [i \in 1..Len(s) |-> IF i = 1 THEN s[i] ELSE f[i - 1] \o s[i]]
           g == [i \in 1..2 |-> IF i = 1 THEN a ELSE a \o b]
<1>1. Len(s) = 2 /\ s[1] = a /\ s[2] = b /\ 2 \in 1..Len(s) /\ 1 \in 1..Len(s)
  OBVIOUS
<1>2. IsFlat(g)
  <2>1. \A i \in 1..2 : g[i] = IF i = 1 THEN s[i] ELSE g[i - 1] \o s[i]
    OBVIOUS
  <2> QED
    BY <1>1, <2>1
<1>3. FlattenSeq(s) = (CHOOSE f : IsFlat(f))[Len(s)]
  BY <1>1 DEF FlattenSeq
<1> HIDE DEF g, s
<1>4. PICK f : f = (CHOOSE h : IsFlat(h)) /\ IsFlat(f)
  BY <1>2, Zenon
<1>5. f[2] = a \o b
  <2>1. f[1] = s[1]
    BY <1>1, <1>4
  <2>2. f[2] = f[1] \o s[2]
    <3>1. \A i \in 1..Len(s) : f[i] = IF i = 1 THEN s[i] ELSE f[i - 1] \o s[i]
      BY <1>4
    <3>2. 2 - 1 = 1 /\ 2 # 1
      OBVIOUS
    <3> QED
      BY <1>1, <3>1, <3>2, Zenon
  <2> QED
    BY <1>1, <2>1, <2>2
<1> QED
  BY <1>1, <1>3, <1>4, <1>5 DEF s

\* A content without fallbacks, sticker or files is shown as it is.
LEMMA PlainAsIs ==
  ASSUME NEW body \in Seq(Words), NEW here, NEW thread,
         NEW c, c.body = body, c.spans = <<>>, c.oob = {}, c.sfs = <<>>, c.thread = thread,
         ~c.img, ~c.data
  PROVE  Parse(c, here) = Row(body, <<>>, thread)
<1>1. WithSticker(c, here) = body
  BY DEF WithSticker
<1>2. \A x : StripFor(c, x, "reply") = x
  BY DEF StripFor
<1> QED
  BY <1>1, <1>2 DEF Parse

\* What this program marks in a message with a caption: its files.
LEMMA FilesMarked ==
  ASSUME NEW t \in {<<>>, <<Typed>>}, NEW u \in Urls, NEW v \in Urls
  PROVE  LET c == SendFiles(t, <<u, v>>) IN
         /\ c.spans \in Seq([of : {"reply", "oob", "sfs"}, from : Nat, to : Nat])
         /\ \A i \in DOMAIN c.spans : c.spans[i].of # "reply" /\ c.spans[i].from >= Len(t)
<1> DEFINE n == Len(t)
           spans == SendFiles(t, <<u, v>>).spans
           R == [of : {"reply", "oob", "sfs"}, from : Nat, to : Nat]
           P == {s \in R : s.of # "reply" /\ s.from >= n}
           a == <<Span("oob", n, n + 1), Span("sfs", n, n + 1)>>
           b == <<Span("oob", n + 1, n + 2), Span("sfs", n + 1, n + 2)>>
<1>1. n \in Nat
  BY LenProperties
<1>2. spans = FlattenSeq(<<a, b>>)
  <2>1. spans = FlattenSeq([i \in DOMAIN <<u, v>> |-> <<Span("oob", n + i - 1, n + i - 1 + 1),
                                                        Span("sfs", n + i - 1, n + i - 1 + 1)>>])
    BY DEF SendFiles, Blank
  <2>2. DOMAIN <<u, v>> = 1..2
    OBVIOUS
  <2>3. n + 1 - 1 = n /\ n + 2 - 1 = n + 1 /\ n + 1 + 1 = n + 2
    BY <1>1
  <2>4. [i \in DOMAIN <<u, v>> |-> <<Span("oob", n + i - 1, n + i - 1 + 1),
                                     Span("sfs", n + i - 1, n + i - 1 + 1)>>] = <<a, b>>
    BY <1>1, <2>2, <2>3
  <2> QED
    BY <2>1, <2>4
<1>3. a \in Seq(P) /\ b \in Seq(P)
  <2>1. /\ Span("oob", n, n + 1) \in P /\ Span("sfs", n, n + 1) \in P
        /\ Span("oob", n + 1, n + 2) \in P /\ Span("sfs", n + 1, n + 2) \in P
    BY <1>1 DEF Span
  <2> HIDE DEF P
  <2> QED
    BY <2>1
<1> HIDE DEF a, b, P
<1>4. spans = a \o b
  BY <1>2, <1>3, FlattenTwo, Zenon
<1> HIDE DEF spans
<1>5. spans \in Seq(P)
  BY <1>3, <1>4
<1>6. spans \in Seq(R)
  <2>1. P \subseteq R
    BY DEF P
  <2> HIDE DEF R
  <2> QED
    BY <1>5, <2>1
<1>7. \A i \in DOMAIN spans : spans[i] \in P
  BY <1>5
<1>8. \A i \in DOMAIN spans : spans[i].of # "reply" /\ spans[i].from >= n
  BY <1>7, Zenon DEF P
<1> QED
  BY <1>6, <1>8 DEF spans

LEMMA WordsSent ==
  /\ Encrypted \subseteq Urls /\ Urls \subseteq Words /\ Typed \in Words /\ Cid \in Words
  /\ Typed \notin Urls
  BY ContentAssumption DEF Words

LEMMA TextAlike ==
  ASSUME NEW t \in Seq(Words), NEW here
  PROVE  Parse(SendText(t), here) = Row(t, <<>>, FALSE)
<1> DEFINE c == SendText(t)
<1>1. /\ c.body = t /\ c.spans = <<>> /\ c.oob = {} /\ c.sfs = <<>> /\ c.thread = FALSE
      /\ ~c.img /\ ~c.data
  BY DEF SendText, Blank
<1> HIDE DEF c
<1>2. Parse(c, here) = Row(t, <<>>, FALSE)
  BY <1>1, PlainAsIs
<1> QED
  BY <1>2 DEF c

LEMMA AppAlike ==
  ASSUME NEW u \in Words, NEW here
  PROVE  Parse(SendApp(u), here) = Row(<<u>>, <<>>, TRUE)
<1> DEFINE c == SendApp(u)
           body == <<u>>
<1>1. /\ c.body = body /\ c.spans = <<>> /\ c.oob = {} /\ c.sfs = <<>> /\ c.thread = TRUE
      /\ ~c.img /\ ~c.data
  BY DEF SendApp, Blank
<1>2. body \in Seq(Words)
  OBVIOUS
<1> HIDE DEF c, body
<1>3. Parse(c, here) = Row(body, <<>>, TRUE)
  BY <1>1, <1>2, PlainAsIs
<1> QED
  BY <1>3 DEF c, body

LEMMA StickerAlike ==
  ASSUME NEW here, here = TRUE
  PROVE  Parse(SendSticker, here) = Row(<<Cid>>, <<>>, FALSE)
<1> DEFINE c == SendSticker
<1>1. /\ c.body = <<Cid>> /\ c.img /\ c.data /\ c.spans = <<>> /\ c.sfs = <<>> /\ c.oob = {}
      /\ c.thread = FALSE
  BY DEF SendSticker, Blank
<1>2. WithSticker(c, here) = <<Cid>>
  <2>1. Head(c.body) = Cid
    BY <1>1
  <2> QED
    BY <1>1, <2>1 DEF WithSticker
<1>3. StripFor(c, <<Cid>>, "reply") = <<Cid>>
  BY <1>1 DEF StripFor
<1> HIDE DEF c
<1>4. Parse(c, here) = Row(<<Cid>>, <<>>, FALSE)
  BY <1>1, <1>2, <1>3 DEF Parse
<1> QED
  BY <1>4 DEF c

LEMMA FileAlike ==
  ASSUME NEW t \in {<<>>, <<Typed>>}, NEW u \in Urls, NEW here
  PROVE  Parse(SendFile(t, u), here) = KeptFile(t, u)
<1>0. u \in Words /\ Typed \in Words /\ <<u>> \in Seq(Words) /\ <<Typed>> \in Seq(Words)
  BY WordsSent
<1>1. CASE t = <<>>
  <2>1. SendFile(t, u) = SendText(<<u>>) /\ KeptFile(t, u) = Row(<<u>>, <<>>, FALSE)
    BY <1>1 DEF SendFile, KeptFile
  <2> QED
    BY <1>0, <2>1, TextAlike
<1>2. CASE t = <<Typed>>
  <2> DEFINE said == <<Typed>>
             rest == <<u>>
  <2>1. PICK c : c = SendFile(t, u)
    OBVIOUS
  <2>2. said # <<>> /\ Len(said) = 1 /\ Len(rest) = 1 /\ Append(said, u) = said \o rest /\ 1 + 1 = 2
    OBVIOUS
  <2>3. /\ c.body = said \o rest /\ c.sfs = <<>> /\ c.oob = {u} /\ ~c.img /\ ~c.data /\ c.thread = FALSE
        /\ c.spans = <<Span("oob", 1, 2)>>
    BY <1>2, <2>1, <2>2 DEF SendFile, Blank
  <2>4. KeptFile(t, u) = Row(said, rest, FALSE)
    BY <1>2, <2>2 DEF KeptFile
  <2>5. c.spans[1] = Span("oob", 1, 2) /\ DOMAIN c.spans = {1}
    BY <2>3
  <2>6. c \in Contents
    <3>1. c = [body |-> said \o rest, spans |-> <<Span("oob", 1, 2)>>, oob |-> {u}, sfs |-> <<>>,
               img |-> FALSE, data |-> FALSE, thread |-> FALSE]
      BY <1>2, <2>1, <2>2 DEF SendFile, Blank
    <3>2. said \o rest \in Seq(Words) /\ <<>> \in Seq(Urls)
      BY <1>0
    <3>3. <<Span("oob", 1, 2)>> \in Seq([of : {"reply", "oob", "sfs"}, from : Nat, to : Nat])
      BY DEF Span
    <3> QED
      BY <3>1, <3>2, <3>3 DEF Contents
  <2>7. WithSticker(c, here) = said \o rest
    BY <2>3 DEF WithSticker
  <2>8. StripFor(c, said \o rest, "reply") = said \o rest
    <3>1. \A i \in DOMAIN c.spans : c.spans[i].of # "reply"
      BY <2>5 DEF Span
    <3> QED
      BY <3>1 DEF StripFor
  <2>9. StripFor(c, said \o rest, "oob") = said
    <3>1. Covered(c, "oob", rest) /\ Marks(c, "oob", Len(said), Len(said) + Len(rest))
      BY <2>2, <2>5 DEF Covered, Marks, Span
    <3> HIDE DEF said, rest
    <3> QED
      BY <1>0, <2>6, <3>1, FileCut DEF said, rest
  <2>10. SetToSeq({u}) = rest
    BY OneFile
  <2> HIDE DEF said, rest
  <2>11. Parse(c, here) = Row(said, rest, FALSE)
    BY <2>3, <2>7, <2>8, <2>9, <2>10 DEF Parse
  <2> QED
    BY <2>1, <2>4, <2>11
<1> QED
  BY <1>1, <1>2

LEMMA FilesAlike ==
  ASSUME NEW t \in {<<>>, <<Typed>>}, NEW u \in Urls, NEW v \in Urls, NEW here
  PROVE  Parse(SendFiles(t, <<u, v>>), here) = KeptFiles(t, <<u, v>>)
<1> DEFINE f == <<u, v>>
<1>1. PICK c : c = SendFiles(t, f)
  OBVIOUS
<1>2. /\ c.body = t \o f /\ c.sfs = f /\ ~c.img /\ ~c.data /\ ~c.thread /\ c.oob = {}
      /\ c.spans \in Seq([of : {"reply", "oob", "sfs"}, from : Nat, to : Nat])
      /\ \A i \in DOMAIN c.spans : c.spans[i].of # "reply" /\ c.spans[i].from >= Len(t)
  <2>1. /\ c.spans \in Seq([of : {"reply", "oob", "sfs"}, from : Nat, to : Nat])
        /\ \A i \in DOMAIN c.spans : c.spans[i].of # "reply" /\ c.spans[i].from >= Len(t)
    BY <1>1, FilesMarked, Zenon
  <2>2. c.body = t \o f /\ c.sfs = f /\ ~c.img /\ ~c.data /\ ~c.thread /\ c.oob = {}
    BY <1>1 DEF SendFiles, Blank
  <2> QED
    BY <2>1, <2>2, Zenon
<1>3. t \in Seq(Words) /\ f \in Seq(Words) /\ f \in Seq(Urls) /\ f # <<>>
  <2>1. u \in Words /\ v \in Words /\ Typed \in Words
    BY WordsSent
  <2>2. <<Typed>> \in Seq(Words) /\ <<>> \in Seq(Words)
    BY <2>1
  <2>3. f \in Seq(Words) /\ f \in Seq(Urls) /\ f # <<>>
    BY <2>1
  <2> QED
    BY <2>2, <2>3
<1>4. c \in Contents
  <2> DEFINE spans == c.spans
  <2>1. c = [body |-> t \o f, spans |-> spans, oob |-> {}, sfs |-> f,
             img |-> FALSE, data |-> FALSE, thread |-> FALSE]
    BY <1>1 DEF SendFiles, Blank
  <2>2. t \o f \in Seq(Words)
    BY <1>3
  <2>3. spans \in Seq([of : {"reply", "oob", "sfs"}, from : Nat, to : Nat])
    BY <1>2
  <2> HIDE DEF spans, f
  <2> QED
    BY <1>3, <2>1, <2>2, <2>3 DEF Contents
<1>5. WithSticker(c, here) = t \o f
  BY <1>2 DEF WithSticker
<1>6. StripFor(c, t \o f, "reply") = t \o f
  BY <1>2 DEF StripFor
<1>7. StripUrls(StripSpans(c, t \o f), f) = t
  <2>1. \A n \in DOMAIN f : Contains(f, f[n])
    BY DEF Contains
  <2>2. \A n \in DOMAIN t : ~Contains(f, t[n])
    <3>1. \A n \in DOMAIN t : t[n] = Typed
      OBVIOUS
    <3>2. \A n \in DOMAIN f : f[n] # Typed
      BY WordsSent
    <3> QED
      BY <3>1, <3>2 DEF Contains
  <2> HIDE DEF f
  <2> QED
    BY <1>2, <1>3, <1>4, <2>1, <2>2, FilesStripped
<1> HIDE DEF f
<1>8. c.thread = FALSE
  BY <1>1 DEF SendFiles, Blank
<1> QED
  BY <1>1, <1>2, <1>3, <1>5, <1>6, <1>7, <1>8 DEF Parse, KeptFiles, f

\* What the reader makes of a message of this program is the row that its sender kept.
LEMMA OursAlike ==
  ASSUME NEW m \in Ours, NEW here \in BOOLEAN, here \/ ~m.content.data
  PROVE  /\ Parse(m.content, here) = m.kept /\ m.ours
         /\ m.kept.files # <<>> => m.kept.body = m.said
<1>0. Encrypted \subseteq Urls /\ Urls \subseteq Words /\ Typed \in Words
  BY WordsSent
<1>1. ASSUME NEW t \in {<<Typed>>} \cup {<<u>> : u \in Urls \ Encrypted},
             m = Message(t, <<>>, SendText(t), Row(t, <<>>, FALSE))
      PROVE  Parse(m.content, here) = m.kept /\ m.kept.files = <<>> /\ m.ours
  <2>1. t \in Seq(Words)
    <3>1. t = <<Typed>> \/ \E u \in Urls : t = <<u>>
      OBVIOUS
    <3>2. \A w \in Words : <<w>> \in Seq(Words)
      OBVIOUS
    <3> QED
      BY <1>0, <3>1, <3>2, Zenon
  <2>2. m.content = SendText(t) /\ m.kept = Row(t, <<>>, FALSE) /\ m.ours
    BY <1>1 DEF Message
  <2> QED
    BY <2>1, <2>2, TextAlike DEF Row
<1>2. ASSUME NEW t \in Said, NEW u \in Encrypted, m = Message(t, <<u>>, SendFile(t, u), KeptFile(t, u))
      PROVE  /\ Parse(m.content, here) = m.kept /\ m.ours
             /\ m.kept.files # <<>> => m.kept.body = m.said
  <2>1. m.content = SendFile(t, u) /\ m.kept = KeptFile(t, u) /\ m.said = t /\ m.ours
    BY <1>2 DEF Message
  <2>2. t \in {<<>>, <<Typed>>} /\ u \in Urls
    BY <1>0 DEF Said
  <2>3. KeptFile(t, u).files # <<>> => KeptFile(t, u).body = t
    BY DEF KeptFile, Row
  <2> QED
    BY <2>1, <2>2, <2>3, FileAlike
<1>3. ASSUME NEW t \in Said, NEW u \in Encrypted, NEW v \in Encrypted \ Plain,
             m = Message(t, <<u, v>>, SendFiles(t, <<u, v>>), KeptFiles(t, <<u, v>>))
      PROVE  Parse(m.content, here) = m.kept /\ m.kept.body = m.said /\ m.ours
  <2>1. /\ m.content = SendFiles(t, <<u, v>>) /\ m.kept = KeptFiles(t, <<u, v>>) /\ m.said = t
        /\ m.ours
    BY <1>3 DEF Message
  <2>2. t \in {<<>>, <<Typed>>} /\ u \in Urls /\ v \in Urls
    BY <1>0 DEF Said
  <2>3. KeptFiles(t, <<u, v>>).body = t
    BY DEF KeptFiles, Row
  <2> QED
    <3>1. Parse(SendFiles(t, <<u, v>>), here) = KeptFiles(t, <<u, v>>)
      BY <2>2, FilesAlike
    <3> QED
      BY <2>1, <2>3, <3>1, Zenon
<1>4. ASSUME m = Message(<<Cid>>, <<>>, SendSticker, Row(<<Cid>>, <<>>, FALSE))
      PROVE  Parse(m.content, here) = m.kept /\ m.kept.files = <<>> /\ m.ours
  <2>1. m.content = SendSticker /\ m.kept = Row(<<Cid>>, <<>>, FALSE) /\ m.ours
    BY <1>4 DEF Message
  <2>2. here = TRUE
    BY <2>1 DEF SendSticker
  <2> QED
    <3>1. Parse(SendSticker, here) = Row(<<Cid>>, <<>>, FALSE)
      BY <2>2, StickerAlike
    <3> QED
      BY <2>1, <3>1 DEF Row
<1>5. ASSUME NEW u \in Encrypted \cap Apps, m = Message(<<>>, <<u>>, SendApp(u), Row(<<u>>, <<>>, TRUE))
      PROVE  Parse(m.content, here) = m.kept /\ m.kept.files = <<>> /\ m.ours
  <2>1. m.content = SendApp(u) /\ m.kept = Row(<<u>>, <<>>, TRUE) /\ m.ours
    BY <1>5 DEF Message
  <2>2. u \in Words
    BY <1>0
  <2> QED
    BY <2>1, <2>2, AppAlike DEF Row
<1>6. \/ \E t \in {<<Typed>>} \cup {<<u>> : u \in Urls \ Encrypted} :
           m = Message(t, <<>>, SendText(t), Row(t, <<>>, FALSE))
      \/ \E t \in Said, u \in Encrypted : m = Message(t, <<u>>, SendFile(t, u), KeptFile(t, u))
      \/ \E t \in Said, u \in Encrypted, v \in Encrypted \ Plain :
           m = Message(t, <<u, v>>, SendFiles(t, <<u, v>>), KeptFiles(t, <<u, v>>))
      \/ m = Message(<<Cid>>, <<>>, SendSticker, Row(<<Cid>>, <<>>, FALSE))
      \/ \E u \in Encrypted \cap Apps : m = Message(<<>>, <<u>>, SendApp(u), Row(<<u>>, <<>>, TRUE))
  <2> DEFINE Typings == {<<Typed>>} \cup {<<u>> : u \in Urls \ Encrypted}
             Pairs == {<<u, v>> : u \in Encrypted, v \in Encrypted \ Plain}
             Texts == {Message(t, <<>>, SendText(t), Row(t, <<>>, FALSE)) : t \in Typings}
             One == {Message(t, <<u>>, SendFile(t, u), KeptFile(t, u)) : t \in Said, u \in Encrypted}
             Two == {Message(t, f, SendFiles(t, f), KeptFiles(t, f)) : t \in Said, f \in Pairs}
             Stickers == {Message(<<Cid>>, <<>>, SendSticker, Row(<<Cid>>, <<>>, FALSE))}
             Programs == {Message(<<>>, <<u>>, SendApp(u), Row(<<u>>, <<>>, TRUE)) : u \in Encrypted \cap Apps}
  <2>1. m \in Texts \/ m \in One \/ m \in Two \/ m \in Stickers \/ m \in Programs
    <3>1. Ours = Texts \cup One \cup Two \cup Stickers \cup Programs
      BY DEF Ours
    <3> HIDE DEF Texts, One, Two, Stickers, Programs
    <3> QED
      BY <3>1
  <2>2. m \in Texts => \E t \in Typings : m = Message(t, <<>>, SendText(t), Row(t, <<>>, FALSE))
    OBVIOUS
  <2>3. m \in One => \E t \in Said, u \in Encrypted : m = Message(t, <<u>>, SendFile(t, u), KeptFile(t, u))
    OBVIOUS
  <2>4. m \in Two => \E t \in Said, u \in Encrypted, v \in Encrypted \ Plain :
                       m = Message(t, <<u, v>>, SendFiles(t, <<u, v>>), KeptFiles(t, <<u, v>>))
    <3> SUFFICES ASSUME m \in Two
                 PROVE  \E t \in Said, u \in Encrypted, v \in Encrypted \ Plain :
                          m = Message(t, <<u, v>>, SendFiles(t, <<u, v>>), KeptFiles(t, <<u, v>>))
      OBVIOUS
    <3>1. PICK t \in Said, f \in Pairs : m = Message(t, f, SendFiles(t, f), KeptFiles(t, f))
      OBVIOUS
    <3>2. PICK u \in Encrypted, v \in Encrypted \ Plain : f = <<u, v>>
      BY <3>1
    <3> QED
      BY <3>1, <3>2
  <2>5. m \in Stickers => m = Message(<<Cid>>, <<>>, SendSticker, Row(<<Cid>>, <<>>, FALSE))
    OBVIOUS
  <2>6. m \in Programs =>
          \E u \in Encrypted \cap Apps : m = Message(<<>>, <<u>>, SendApp(u), Row(<<u>>, <<>>, TRUE))
    OBVIOUS
  <2> HIDE DEF Texts, One, Two, Stickers, Programs
  <2> QED
    BY <2>1, <2>2, <2>3, <2>4, <2>5, <2>6, Zenon
<1> QED
  BY <1>1, <1>2, <1>3, <1>4, <1>5, <1>6, Zenon

\* SameBothEnds: of this program's messages, for any URLs, and of every other client's whose text
\* comes first.
THEOREM AlikeAtBothEnds == BubbleSpec => [](sent.ours \/ TextFirst(sent) => SameBothEnds)
<1> DEFINE SameRow == sent.ours \/ TextFirst(sent) => SameBothEnds
<1>1. BubbleInit => SameRow
  <2> SUFFICES ASSUME BubbleInit, sent.ours \/ TextFirst(sent) PROVE SameBothEnds
    OBVIOUS
  <2>1. PICK m \in Ours \cup Theirs, here \in BOOLEAN :
          /\ here \/ ~m.content.data
          /\ sent = [said |-> m.said, files |-> m.files, content |-> m.content, ours |-> m.ours]
          /\ kept = m.kept
          /\ row = Live(Parse(m.content, here))
    BY DEF BubbleInit
  <2>2. /\ sent.said = m.said /\ sent.content = m.content /\ sent.ours = m.ours
        /\ row.files = Parse(m.content, here).files /\ row.body = Parse(m.content, here).body
    BY <2>1 DEF Live
  <2>3. CASE m \in Ours
    <3>1. /\ Parse(m.content, here) = m.kept
          /\ m.kept.files # <<>> => m.kept.body = m.said
      BY <2>1, <2>3, OursAlike
    <3>2. row = Live(kept)
      BY <2>1, <3>1, Zenon
    <3>3. row.files # <<>> => row.body = sent.said
      BY <2>2, <3>1, Zenon
    <3> QED
      BY <3>2, <3>3, Zenon DEF SameBothEnds
  <2>4. CASE m \in Theirs
    <3>1. PICK f \in Foreign : m.said = f.said /\ m.content = f.content /\ m.ours = FALSE
      BY <2>4 DEF Theirs
    <3>2. sent.said \in Seq(Words) /\ sent.content \in Contents /\ ~sent.ours
      BY <2>2, <3>1, BubbleAssumption
    <3>3. TextFirst(sent)
      BY <3>2
    <3>4. ASSUME row.files # <<>>, Marked(sent.content) PROVE row.body = sent.said
      BY <2>2, <3>2, <3>3, <3>4, TextIsShown
    <3> QED
      BY <3>2, <3>4, Zenon DEF SameBothEnds
  <2> QED
    BY <2>1, <2>3, <2>4
<1>2. SameRow /\ [BubbleNext]_bubbleVars => SameRow'
  <2> SUFFICES ASSUME SameRow, [BubbleNext]_bubbleVars PROVE SameRow'
    OBVIOUS
  <2>1. sent' = sent /\ kept' = kept
    BY DEF BubbleNext, LoadAgain, Retract, Downloaded, Tap, bubbleVars
  <2>2. row' = row \/ row'.retracted
    BY DEF BubbleNext, LoadAgain, Retract, Downloaded, Tap, bubbleVars, Live, NoRow, Row
  <2>3. CASE row'.retracted
    BY <2>3 DEF SameBothEnds
  <2>4. CASE row' = row
    BY <2>1, <2>4 DEF SameBothEnds, TextFirst
  <2> QED
    BY <2>2, <2>3, <2>4
<1> QED
  BY <1>1, <1>2, PTL DEF BubbleSpec
=============================================================================
