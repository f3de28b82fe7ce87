--------------------------- MODULE PrekeysProofs ---------------------------
(***************************************************************************)
(* What holds of the prekeys for every number of key exchanges, passes,    *)
(* keys and months: a prekey opens one session, the keys of every bundle   *)
(* that was published stay readable for as long as they were promised, and *)
(* what is advertised at rest can be used.                                 *)
(*                                                                         *)
(* Three arguments carry this.  A copy that is about to store its session  *)
(* and a session that is stored never share a key unless both were read    *)
(* before either was stored (Raced, Gone).  Every key of a bundle that can *)
(* be cited is in the store or its absence is accounted for (Kept).  And   *)
(* of the passes that have listed, the last one lists what the store holds *)
(* until a pass is under way that has not listed yet (Current).            *)
(***************************************************************************)
EXTENDS Prekeys, FiniteSetTheorems, WellFoundedInduction, TLAPS

-----------------------------------------------------------------------------
(* The inductive invariant.                                                  *)

\* The steps at which a pass has not listed the store yet.
Unlisted == PassSteps \ {"publish"}

\* The steps that come after a purge or start from an empty store.
Cleaned == PassSteps \ {"check", "purge"}

\* A peer may start a session from this bundle.
Citable(b) == b.ec # {} /\ ~b.round3

Blank ==
  /\ ec = {} /\ kem = {} /\ spk = {} /\ published = NoBundle
  /\ \A t \in Tasks : draft[t] = NoBundle
  /\ \A k \in Kex : cites[k] = NoCite

\* What is known of the store at each step of a pass.
PassSound ==
  /\ (\E r \in spk : r.id = 1) \/ Blank
  /\ \A t \in Tasks :
       /\ pc[t] \in PassSteps \ {"check", "generate", "publish"} => \E r \in spk : r.id = 1
       /\ pc[t] \in {"prune", "list"} => \E r \in spk : r.id = next[t]
       /\ pc[t] \in {"storeEc", "storeKem"} => todo[t] > 0
       /\ pc[t] # "publish" => draft[t] = NoBundle
  /\ \/ \E t \in Tasks : pc[t] \in Cleaned \/ Citable(draft[t])
     \/ Citable(published)
     \/ \E k \in Kex : cites[k] # NoCite
     => \A r \in kem : ~r.round3

\* A table gives an id to one key at a time.
UniqueIds ==
  /\ \A r, s \in ec : r.id = s.id => r = s
  /\ \A r, s \in kem : r.id = s.id => r = s

Bounded(table) == \E n \in Nat : \A r \in table : r.id <= n

Small == Bounded(ec) /\ Bounded(kem) /\ Bounded(spk) /\ IsFiniteSet(ec) /\ IsFiniteSet(kem)

Curve(x) ==
  \/ \E r \in ec : r.key = x
  \/ \E y \in published.ec : y.key = x
  \/ \E t \in Tasks : \E y \in draft[t].ec : y.key = x
  \/ \E k \in Kex : cites[k].ec.key = x

OneTime(x) ==
  \/ \E r \in kem : ~r.last /\ r.key = x
  \/ \E y \in published.kem : y.key = x
  \/ \E t \in Tasks : \E y \in draft[t].kem : y.key = x
  \/ \E k \in Kex : cites[k] # NoCite /\ ~cites[k].last /\ cites[k].kem.key = x

LastResort(x) ==
  \/ \E r \in kem : r.last /\ r.key = x
  \/ published.last.key = x
  \/ \E t \in Tasks : draft[t].last.key = x
  \/ \E k \in Kex : cites[k].last /\ cites[k].kem.key = x

\* Keys that were generated are never generated again, and none is both one-time and last-resort.
Kinds ==
  \A x \in Nat :
    /\ Curve(x) => x <= made
    /\ OneTime(x) => x \in 1..made /\ ~LastResort(x)
    /\ LastResort(x) => x <= made

\* Nothing is from the future.
Dated ==
  /\ \A r \in kem : r.born <= clock
  /\ published.born <= clock
  /\ \A t \in Tasks : draft[t].born <= clock
  /\ \A k \in Kex : cites[k].born <= clock

Committing(c) == pc[c] = "commit"

\* What is read has been cited, and what is stored was read.
CopiesSound ==
  /\ \A c \in Copies : Committing(c) \/ c \in opened => cites[c[1]] # NoCite
  /\ \A c \in opened : pc[c] \notin {"idle", "commit"}

\* A session that is stored took its one-time keys with it.
Gone ==
  \A c \in opened :
    /\ ~Holds(ec, cites[c[1]].ec)
    /\ ~cites[c[1]].last => ~Holds({r \in kem : r.last \/ ~r.used}, cites[c[1]].kem)

Clash(c, d) ==
  \/ cites[c[1]].ec = cites[d[1]].ec
  \/ cites[c[1]].kem = cites[d[1]].kem /\ ~cites[c[1]].last

Raced ==
  /\ \A c, d \in Copies :
       c # d /\ Committing(c) /\ Committing(d) /\ (Clash(c, d) \/ Clash(d, c)) =>
         c \in raced /\ d \in raced
  /\ \A c \in opened, d \in Copies :
       Committing(d) /\ Clash(c, d) => c \in raced /\ d \in raced
  /\ OpenedOnce

\* A key that a peer may cite is there, or it is accounted for.
EcKept(x) == Holds(ec, x) \/ x.key \in spent \cup overwritten
OneKept(x) == Holds(Available, x) \/ x.key \in spent \cup overwritten
LastKept(x, born) ==
  \/ \E r \in LastResorts : Public(r) = x /\ r.born = born
  \/ x.key \in overwritten
  \/ clock - born > KeepAge
SignedKept(x) == Holds(spk, x) \/ x.key \in overwritten

BundleKept(b) ==
  /\ \A x \in b.ec : EcKept(x)
  /\ \A x \in b.kem : OneKept(x)
  /\ LastKept(b.last, b.born) /\ SignedKept(b.signed)

Kept ==
  /\ Citable(published) => BundleKept(published)
  /\ \A t \in Tasks : Citable(draft[t]) => BundleKept(draft[t])
  /\ \A k \in Kex : cites[k] # NoCite =>
       /\ EcKept(cites[k].ec) /\ SignedKept(cites[k].signed)
       /\ IF cites[k].last THEN LastKept(cites[k].kem, cites[k].born) ELSE OneKept(cites[k].kem)

Excused ==
  \A l \in lost :
    \/ l.of \in {"ec", "kem"} /\ l.key \in spent
    \/ l.key \in overwritten
    \/ l.of = "last" /\ l.age > KeepAge

\* A pass that is alone gives ids that no key has.
Alone ==
  ~crowded =>
    /\ overwritten = {}
    /\ \A t, u \in Tasks : Passing(t) /\ Passing(u) => t = u
    /\ \A t \in Tasks :
         /\ pc[t] = "generate" => ec = {} /\ kem = {} /\ spk = {}
         /\ pc[t] = "storeEc" => \A r \in ec : r.id < next[t]
         /\ pc[t] \in {"storeKem", "storeLast"} => \A r \in kem : r.id < next[t]
         /\ pc[t] = "storeSigned" => \A r \in spk : r.id < next[t]

\* The ids of last-resort keys that peers have cited or may cite.
LastId(i) ==
  \/ Citable(published) /\ published.last.id = i
  \/ \E t \in Tasks : Citable(draft[t]) /\ draft[t].last.id = i
  \/ \E k \in Kex : cites[k].last /\ cites[k].kem.id = i

\* While no key is overwritten, the id of a last-resort key is not given to a one-time key: a later
\* last-resort key keeps the ids above it, and who has chosen an id already meets the key itself.
LastIdsKept ==
  /\ \A t \in Tasks, r \in kem : pc[t] = "storeKem" /\ r.id >= next[t] => r.born = clock
  /\ overwritten = {} =>
       \A i \in Nat : LastId(i) =>
         /\ \E r \in LastResorts : r.id >= i
         /\ \A r \in kem : r.id = i => r.last
         /\ \A t \in Tasks : pc[t] = "storeKem" => i < next[t] \/ \E r \in kem : r.id = i

\* Without overwritten keys and races, what a copy has read is there when its session is stored.
Calm ==
  overwritten = {} /\ raced = {} =>
    /\ spent \subseteq CitedKeys
    /\ \A c \in Copies : Committing(c) =>
         /\ Holds(ec, cites[c[1]].ec)
         /\ ~cites[c[1]].last => Holds(Available, cites[c[1]].kem)

\* Bundles that wait to be published are in the order in which they were listed.
Ordered ==
  /\ \A t \in Tasks : before[t] \subseteq {u \in Tasks : pc[u] = "publish"}
  /\ \A t \in Tasks : t \notin before[t]
  /\ \A t, u \in Tasks :
       t # u /\ pc[t] = "publish" /\ pc[u] = "publish" => (t \in before[u] <=> u \notin before[t])
  /\ outrun \subseteq {u \in Tasks : pc[u] = "publish"}

\* The last bundle of those that wait and were not overtaken.
Latest(t) ==
  /\ pc[t] = "publish" /\ t \notin outrun
  /\ \A u \in Tasks : t \notin before[u]

\* Once a bootstrap has begun, what was listed last is what the store holds.
Current ==
  (\E b \in Boots : pc[b] # "idle") /\ unpublished = {} /\ ~overtaken =>
    \/ \E t \in Tasks : pc[t] \in Unlisted
    \/ \E t \in Tasks : Latest(t) /\ Usable(draft[t])
    \/ Usable(published) /\ \A t \in Tasks : pc[t] = "publish" => t \in outrun

IInv ==
  /\ TypeOK /\ PassSound /\ UniqueIds /\ Small /\ Kinds /\ Dated
  /\ CopiesSound /\ Gone /\ Raced
  /\ Kept /\ Excused /\ Alone /\ LastIdsKept /\ Calm
  /\ Ordered /\ Current
-----------------------------------------------------------------------------
(* Tables.                                                                   *)

LEMMA Greatest ==
  ASSUME NEW S \in SUBSET Nat, S # {}, NEW n \in Nat, \A x \in S : x <= n
  PROVE  \E m \in S : \A x \in S : x <= m
<1> DEFINE T == {i \in Nat : n - i \in S}
<1>1. T \subseteq Nat /\ T # {}
  <2>1. PICK x \in S : TRUE
    OBVIOUS
  <2>2. n - x \in Nat /\ n - (n - x) = x
    BY <2>1
  <2> QED
    BY <2>1, <2>2
<1>2. PICK i \in T : \A j \in T : <<j, i>> \notin OpToRel(<, Nat)
  <2> HIDE DEF T
  <2> QED
    BY <1>1, NatLessThanWellFounded, WFMin, Zenon
<1>3. \A j \in T : ~(j < i)
  BY <1>1, <1>2 DEF OpToRel
<1>4. \A x \in S : x <= n - i
  <2> SUFFICES ASSUME NEW x \in S PROVE x <= n - i
    OBVIOUS
  <2>1. n - x \in T
    <3>1. n - x \in Nat /\ n - (n - x) = x
      OBVIOUS
    <3> QED
      BY <3>1
  <2>2. ~(n - x < i)
    BY <1>3, <2>1
  <2> QED
    BY <1>1, <2>2
<1> QED
  BY <1>4

LEMMA Least ==
  ASSUME NEW S \in SUBSET Nat, S # {}
  PROVE  \E m \in S : \A x \in S : m <= x
<1>1. PICK m \in S : \A x \in S : <<x, m>> \notin OpToRel(<, Nat)
  BY NatLessThanWellFounded, WFMin, Zenon
<1>2. \A x \in S : ~(x < m)
  BY <1>1 DEF OpToRel
<1> QED
  BY <1>2

LEMMA NewestIsOne ==
  ASSUME NEW table, \A r \in table : r.id \in Nat, Bounded(table), table # {}
  PROVE  Newest(table) \in table /\ \A s \in table : s.id <= Newest(table).id
<1> DEFINE S == {r.id : r \in table}
<1>1. S \in SUBSET Nat /\ S # {} /\ \E n \in Nat : \A x \in S : x <= n
  BY DEF Bounded
<1>2. PICK m \in S : \A x \in S : x <= m
  BY <1>1, Greatest
<1>3. \E r \in table : \A s \in table : s.id <= r.id
  BY <1>2
<1> QED
  BY <1>3 DEF Newest

LEMMA FirstIsOne ==
  ASSUME NEW keys, \A r \in keys : r.id \in Nat, keys # {}
  PROVE  First(keys) \in keys
<1> DEFINE S == {r.id : r \in keys}
<1>1. S \in SUBSET Nat /\ S # {}
  OBVIOUS
<1>2. PICK m \in S : \A x \in S : m <= x
  BY <1>1, Least
<1>3. \E r \in keys : \A s \in keys : r.id <= s.id
  BY <1>2
<1> QED
  BY <1>3 DEF First

LEMMA HighestIsBound ==
  ASSUME NEW table, \A r \in table : r.id \in Nat, Bounded(table)
  PROVE  HighestId(table) \in Nat /\ \A r \in table : r.id <= HighestId(table)
<1> DEFINE S == {r.id : r \in table} \cup {0}
<1>1. S \in SUBSET Nat /\ S # {} /\ \E n \in Nat : \A x \in S : x <= n
  BY DEF Bounded
<1>2. PICK m \in S : \A x \in S : x <= m
  BY <1>1, Greatest
<1>3. Max(S) \in S /\ \A x \in S : Max(S) >= x
  BY <1>1, <1>2 DEF Max
<1>4. HighestId(table) = Max(S)
  BY DEF HighestId
<1> HIDE DEF S
<1>5. \A r \in table : r.id \in S
  BY DEF S
<1> QED
  BY <1>1, <1>3, <1>4, <1>5

LEMMA PutBounded ==
  ASSUME NEW table, \A r \in table : r.id \in Nat, Bounded(table), NEW row, row.id \in Nat
  PROVE  Bounded(Put(table, row))
<1>1. PICK n \in Nat : \A r \in table : r.id <= n
  BY DEF Bounded
<1>2. \A r \in Put(table, row) : r.id <= n + row.id
  BY <1>1 DEF Put
<1> QED
  BY <1>2 DEF Bounded

LEMMA PutFinite ==
  ASSUME NEW table, IsFiniteSet(table), NEW row
  PROVE  IsFiniteSet(Put(table, row))
<1>1. IsFiniteSet({r \in table : r.id # row.id})
  BY FS_Subset
<1> QED
  BY <1>1, FS_AddElement DEF Put

LEMMA RangeFinite ==
  ASSUME NEW n \in Nat, NEW f, f = [i \in 1..n |-> f[i]]
  PROVE  IsFiniteSet({f[i] : i \in 1..n})
<1> DEFINE T == {f[i] : i \in 1..n}
<1>1. f \in Surjection(1..n, T)
  BY DEF Surjection
<1>2. IsFiniteSet(1..n)
  BY FS_Interval
<1> QED
  BY <1>1, <1>2, FS_Surjection
-----------------------------------------------------------------------------
(* Types.                                                                    *)

LEMMA TablesTyped ==
  ASSUME TypeOK, Small
  PROVE  /\ \A r \in ec \cup kem \cup spk : r.id \in Nat /\ r.key \in Nat
         /\ Bounded(LastResorts) /\ LastResorts \subseteq kem /\ Available \subseteq kem
         /\ HighestId(ec) \in Nat /\ HighestId(kem) \in Nat
         /\ \A r \in kem : r.id <= HighestId(kem)
         /\ \A r \in ec : r.id <= HighestId(ec)
         /\ Cardinality(ec) \in Nat /\ Cardinality(Available) \in Nat
         /\ LastResorts # {} => /\ Newest(LastResorts) \in LastResorts
                                /\ \A r \in LastResorts : r.id <= Newest(LastResorts).id
         /\ spk # {} => Newest(spk) \in spk /\ \A r \in spk : r.id <= Newest(spk).id
<1>1. \A r \in ec \cup kem \cup spk : r.id \in Nat /\ r.key \in Nat
  BY DEF TypeOK, EcKey, KemKey, SignedKey
<1>2. LastResorts \subseteq kem /\ Available \subseteq kem
  BY DEF LastResorts, Available
<1>3. Bounded(LastResorts)
  BY <1>2 DEF Small, Bounded
<1>4. Cardinality(ec) \in Nat /\ Cardinality(Available) \in Nat
  BY <1>2, FS_CardinalityType, FS_Subset DEF Small
<1>5. /\ HighestId(ec) \in Nat /\ HighestId(kem) \in Nat
      /\ \A r \in kem : r.id <= HighestId(kem)
      /\ \A r \in ec : r.id <= HighestId(ec)
  BY <1>1, HighestIsBound DEF Small
<1>6. LastResorts # {} => /\ Newest(LastResorts) \in LastResorts
                          /\ \A r \in LastResorts : r.id <= Newest(LastResorts).id
  BY <1>1, <1>2, <1>3, NewestIsOne
<1>7. spk # {} => Newest(spk) \in spk /\ \A r \in spk : r.id <= Newest(spk).id
  BY <1>1, NewestIsOne DEF Small
<1> QED
  BY <1>1, <1>2, <1>3, <1>4, <1>5, <1>6, <1>7

LEMMA LookTyped ==
  ASSUME IInv, NEW t \in Tasks,
         Check(t) \/ CountEc(t) \/ CountKem(t) \/ Rotate(t) \/ Signed(t)
  PROVE  /\ UNCHANGED <<clock, store, opened, published, cites, draft, history>>
         /\ pc[t] \in Unlisted
         /\ pc' \in [Tasks -> Steps] /\ pc'[t] \in Unlisted
         /\ next' \in [Tasks -> Nat] /\ todo' \in [Tasks -> Nat]
         /\ \A u \in Tasks \ {t} : next'[u] = next[u] /\ todo'[u] = todo[u] /\ pc'[u] = pc[u]
<1> USE DEF Unlisted, PassSteps, Step, Steps
<1>0. next \in [Tasks -> Nat] /\ todo \in [Tasks -> Nat] /\ pc \in [Tasks -> Steps]
  BY DEF IInv, TypeOK
<1>1. CASE Check(t)
  BY <1>0, <1>1 DEF Check
<1>2. CASE CountEc(t)
  <2>1. HighestId(ec) + 1 \in Nat /\ (Cardinality(ec) < LowWater => Target - Cardinality(ec) \in Nat)
    BY TablesTyped, PrekeysAssumption DEF IInv
  <2> QED
    BY <1>0, <1>2, <2>1 DEF CountEc, Count
<1>3. CASE CountKem(t)
  <2>1. /\ HighestId(kem) + 1 \in Nat
        /\ Cardinality(Available) < LowWater => Target - Cardinality(Available) \in Nat
    BY TablesTyped, PrekeysAssumption DEF IInv
  <2> QED
    BY <1>0, <1>3, <2>1 DEF CountKem, Count
<1>4. CASE Rotate(t)
  <2>1. HighestId(kem) + 1 \in Nat
    BY TablesTyped DEF IInv
  <2> QED
    BY <1>0, <1>4, <2>1 DEF Rotate
<1>5. CASE Signed(t)
  <2>1. spk # {}
    BY <1>5 DEF IInv, PassSound, Signed
  <2>2. Newest(spk).id \in Nat
    BY <2>1, TablesTyped DEF IInv
  <2>3. \E n \in Nat, step \in {"storeSigned", "prune"} :
          next' = [next EXCEPT ![t] = n] /\ pc' = [pc EXCEPT ![t] = step]
    <3> DEFINE due == clock - Newest(spk).born > RotateAge
    <3>1. /\ next' = [next EXCEPT ![t] = IF due THEN Newest(spk).id + 1 ELSE Newest(spk).id]
          /\ pc' = [pc EXCEPT ![t] = IF due THEN "storeSigned" ELSE "prune"]
      BY <1>5 DEF Signed
    <3> HIDE DEF due
    <3>2. CASE due
      <4>1. /\ next' = [next EXCEPT ![t] = Newest(spk).id + 1] /\ Newest(spk).id + 1 \in Nat
            /\ pc' = [pc EXCEPT ![t] = "storeSigned"]
        BY <2>2, <3>1, <3>2
      <4> QED
        BY <4>1, Zenon
    <3>3. CASE ~due
      <4>1. /\ next' = [next EXCEPT ![t] = Newest(spk).id]
            /\ pc' = [pc EXCEPT ![t] = "prune"]
        BY <3>1, <3>3
      <4> QED
        BY <2>2, <4>1, Zenon
    <3> QED
      BY <3>2, <3>3
  <2> QED
    BY <1>0, <1>5, <2>3 DEF Signed
<1> QED
  BY <1>1, <1>2, <1>3, <1>4, <1>5

LEMMA WriteTyped ==
  ASSUME IInv, NEW t \in Tasks,
         Purge(t) \/ StoreEc(t) \/ StoreKem(t) \/ StoreLast(t) \/ StoreSigned(t) \/ Prune(t)
  PROVE  /\ UNCHANGED <<clock, opened, published, cites, draft, before, outrun, raced, crowded,
                        unpublished, overtaken, spent, lost>>
         /\ pc[t] \in Unlisted
         /\ pc' \in [Tasks -> Steps] /\ pc'[t] \in Unlisted
         /\ next' \in [Tasks -> Nat] /\ todo' \in [Tasks -> Nat]
         /\ \A u \in Tasks \ {t} : next'[u] = next[u] /\ todo'[u] = todo[u] /\ pc'[u] = pc[u]
         /\ made' \in Nat /\ made' >= made
<1> USE DEF Unlisted, PassSteps, Step, Steps, order, history, store
<1>0. /\ next \in [Tasks -> Nat] /\ todo \in [Tasks -> Nat] /\ pc \in [Tasks -> Steps] /\ made \in Nat
      /\ pc[t] \in {"storeEc", "storeKem"} => todo[t] > 0
  BY DEF IInv, TypeOK, PassSound
<1>1. CASE Purge(t)
  BY <1>0, <1>1 DEF Purge
<1>2. CASE StoreEc(t)
  BY <1>0, <1>2 DEF StoreEc, Written
<1>3. CASE StoreKem(t)
  BY <1>0, <1>3 DEF StoreKem, Written
<1>4. CASE StoreLast(t)
  BY <1>0, <1>4 DEF StoreLast
<1>5. CASE StoreSigned(t)
  BY <1>0, <1>5 DEF StoreSigned
<1>6. CASE Prune(t)
  BY <1>0, <1>6 DEF Prune
<1> QED
  BY <1>1, <1>2, <1>3, <1>4, <1>5, <1>6

\* What each write does to the tables.
LEMMA WriteTables ==
  ASSUME IInv, NEW t \in Tasks,
         Purge(t) \/ StoreEc(t) \/ StoreKem(t) \/ StoreLast(t) \/ StoreSigned(t) \/ Prune(t)
  PROVE  /\ ec' \subseteq EcKey /\ kem' \subseteq KemKey /\ spk' \subseteq SignedKey
         /\ overwritten' \subseteq Nat /\ overwritten \subseteq overwritten'
         /\ Small'
<1> USE DEF order, history, store
<1>0. /\ ec \subseteq EcKey /\ kem \subseteq KemKey /\ spk \subseteq SignedKey /\ overwritten \subseteq Nat
      /\ made \in Nat /\ clock \in Nat /\ next[t] \in Nat /\ made + 1 \in Nat
  BY DEF IInv, TypeOK
<1>1. \A ids : Displaced(ec, ids) \subseteq Nat /\ Displaced(kem, ids) \subseteq Nat /\ Displaced(spk, ids) \subseteq Nat
  BY TablesTyped DEF Displaced, IInv
<1>2. ASSUME Purge(t) \/ Prune(t)
      PROVE  kem' \subseteq kem /\ UNCHANGED <<ec, spk, overwritten>>
  BY <1>2 DEF Purge, Prune
<1>3. ASSUME kem' \subseteq kem, UNCHANGED <<ec, spk, overwritten>>
      PROVE  Small' /\ kem' \subseteq KemKey
  <2>1. IsFiniteSet(kem') /\ Bounded(kem')
    BY <1>3, FS_Subset DEF IInv, Small, Bounded
  <2> QED
    BY <1>0, <1>3, <2>1 DEF IInv, Small, Bounded
<1>4. CASE StoreEc(t)
  <2> DEFINE row == [id |-> next[t], key |-> made + 1]
  <2>1. ec' = Put(ec, row) /\ UNCHANGED <<kem, spk>> /\ overwritten' = overwritten \cup Displaced(ec, {next[t]})
    BY <1>4 DEF StoreEc, Written
  <2>2. row \in EcKey /\ row.id \in Nat
    BY <1>0 DEF EcKey
  <2> HIDE DEF row
  <2>3. ec' \subseteq EcKey
    BY <1>0, <2>1, <2>2 DEF Put
  <2>4. Bounded(ec') /\ IsFiniteSet(ec')
    BY <2>1, <2>2, PutBounded, PutFinite, TablesTyped DEF IInv, Small
  <2> QED
    BY <1>0, <1>1, <2>1, <2>3, <2>4 DEF IInv, Small, Bounded
<1>5. ASSUME StoreKem(t) \/ StoreLast(t)
      PROVE  \E last \in BOOLEAN : kem' = Put(kem, FreshKem(next[t], made + 1, last)) /\ UNCHANGED <<ec, spk>>
               /\ overwritten' = overwritten \cup Displaced(kem, {next[t]})
  BY <1>5 DEF StoreKem, StoreLast, Written
<1>6. ASSUME NEW last \in BOOLEAN, kem' = Put(kem, FreshKem(next[t], made + 1, last)), UNCHANGED <<ec, spk>>,
             overwritten' = overwritten \cup Displaced(kem, {next[t]})
      PROVE  Small' /\ kem' \subseteq KemKey /\ overwritten' \subseteq Nat
  <2> DEFINE row == FreshKem(next[t], made + 1, last)
  <2>2. row \in KemKey /\ row.id \in Nat
    BY <1>0 DEF KemKey, FreshKem
  <2> HIDE DEF row
  <2>3. kem' \subseteq KemKey
    BY <1>0, <1>6, <2>2 DEF Put, row
  <2>4. Bounded(kem') /\ IsFiniteSet(kem')
    BY <1>6, <2>2, PutBounded, PutFinite, TablesTyped DEF IInv, Small, row
  <2> QED
    BY <1>0, <1>1, <1>6, <2>3, <2>4 DEF IInv, Small, Bounded
<1>7. CASE StoreSigned(t)
  <2> DEFINE row == [id |-> next[t], key |-> made + 1, born |-> clock]
  <2>1. spk' = Put(spk, row) /\ UNCHANGED <<ec, kem>> /\ overwritten' = overwritten \cup Displaced(spk, {next[t]})
    BY <1>7 DEF StoreSigned
  <2>2. row \in SignedKey /\ row.id \in Nat
    BY <1>0 DEF SignedKey
  <2> HIDE DEF row
  <2>3. spk' \subseteq SignedKey
    BY <1>0, <2>1, <2>2 DEF Put
  <2>4. Bounded(spk')
    BY <2>1, <2>2, PutBounded, TablesTyped DEF IInv, Small
  <2> QED
    BY <1>0, <1>1, <2>1, <2>3, <2>4 DEF IInv, Small, Bounded
<1> QED
  BY <1>0, <1>2, <1>3, <1>4, <1>5, <1>6, <1>7

\* What generate_and_store_prekeys makes.
NewEc == {[id |-> i, key |-> made + i] : i \in 1..Target}
NewSigned == [id |-> 1, key |-> made + Target + 1, born |-> clock]
NewKem == {FreshKem(i, made + Target + 1 + i, i = 1) : i \in 1..Target + 1}
NewBundle ==
  [ec |-> NewEc, kem |-> {Public(r) : r \in {n \in NewKem : ~n.last}},
   last |-> [id |-> 1, key |-> made + Target + 2], signed |-> Public(NewSigned),
   round3 |-> FALSE, born |-> clock]

LEMMA NewTyped ==
  ASSUME made \in Nat, clock \in Nat
  PROVE  /\ NewEc \subseteq EcKey /\ IsFiniteSet(NewEc) /\ NewSigned \in SignedKey
         /\ NewKem \subseteq KemKey /\ IsFiniteSet(NewKem) /\ NewBundle \in Bundle
         /\ \A r \in NewEc : r.id <= Target /\ r.key \in made + 1..made + 2 * Target + 2
         /\ \A r \in NewKem : /\ r.id \in 1..Target + 1 /\ r.key \in made + 1..made + 2 * Target + 2
                              /\ r.born = clock /\ (r.last <=> r.id = 1) /\ ~r.round3 /\ ~r.used
                              /\ (r.last => r.key = made + Target + 2)
         /\ \A r, q \in NewKem : r.id = q.id \/ r.key = q.key => r = q
         /\ \A r, q \in NewEc : r.id = q.id => r = q
         /\ FreshKem(1, made + Target + 2, TRUE) \in NewKem
         /\ [id |-> 1, key |-> made + 1] \in NewEc
<1>0. Target \in Nat /\ Target >= 1 /\ Target + 1 \in Nat
  BY PrekeysAssumption
<1>1. NewEc \subseteq EcKey /\ NewSigned \in SignedKey
  BY <1>0 DEF NewEc, EcKey, NewSigned, SignedKey
<1>2. \A i \in 1..Target + 1 : FreshKem(i, made + Target + 1 + i, i = 1) \in KemKey
  BY <1>0 DEF FreshKem, KemKey
<1>3. NewKem \subseteq KemKey
  BY <1>2 DEF NewKem
<1>4. IsFiniteSet(NewEc)
  <2> DEFINE f == [i \in 1..Target |-> [id |-> i, key |-> made + i]]
  <2>1. IsFiniteSet({f[i] : i \in 1..Target})
    BY <1>0, RangeFinite
  <2>2. NewEc = {f[i] : i \in 1..Target}
    BY DEF NewEc
  <2> QED
    BY <2>1, <2>2
<1>5. IsFiniteSet(NewKem)
  <2> DEFINE f == [i \in 1..Target + 1 |-> FreshKem(i, made + Target + 1 + i, i = 1)]
  <2>1. f = [i \in 1..Target + 1 |-> f[i]]
    OBVIOUS
  <2>2. NewKem = {f[i] : i \in 1..Target + 1}
    BY DEF NewKem
  <2> HIDE DEF f
  <2>3. IsFiniteSet({f[i] : i \in 1..Target + 1})
    BY <1>0, <2>1, RangeFinite
  <2> QED
    BY <2>2, <2>3
<1>6. NewBundle \in Bundle
  <2>1. NewEc \subseteq Key
    BY <1>1 DEF EcKey, Key
  <2>2. \A r \in NewKem : Public(r) \in Key
    BY <1>3 DEF KemKey, Key, Public
  <2>3. {Public(r) : r \in {n \in NewKem : ~n.last}} \subseteq Key
    BY <2>2
  <2>4. Public(NewSigned) \in Key /\ [id |-> 1, key |-> made + Target + 2] \in Key
    BY <1>0, <1>1 DEF SignedKey, Key, Public
  <2> QED
    BY <2>1, <2>3, <2>4 DEF NewBundle, Bundle
<1>7. \A r \in NewEc : r.id <= Target /\ r.key \in made + 1..made + 2 * Target + 2
  BY <1>0 DEF NewEc
<1>8. \A r \in NewKem : \E i \in 1..Target + 1 :
        /\ r.id = i /\ r.key = made + Target + 1 + i /\ r.born = clock /\ (r.last <=> i = 1)
        /\ ~r.round3 /\ ~r.used
  <2> SUFFICES ASSUME NEW r \in NewKem
               PROVE  \E i \in 1..Target + 1 :
                        /\ r.id = i /\ r.key = made + Target + 1 + i /\ r.born = clock
                        /\ (r.last <=> i = 1) /\ ~r.round3 /\ ~r.used
    OBVIOUS
  <2>1. PICK i \in 1..Target + 1 : r = FreshKem(i, made + Target + 1 + i, i = 1)
    BY DEF NewKem
  <2> WITNESS i \in 1..Target + 1
  <2> QED
    BY <2>1 DEF FreshKem
<1>9. \A r, q \in NewKem : r.id = q.id \/ r.key = q.key => r = q
  <2> SUFFICES ASSUME NEW r \in NewKem, NEW q \in NewKem, r.id = q.id \/ r.key = q.key
               PROVE  r = q
    OBVIOUS
  <2>1. PICK i \in 1..Target + 1 : r = FreshKem(i, made + Target + 1 + i, i = 1)
    BY DEF NewKem
  <2>2. PICK j \in 1..Target + 1 : q = FreshKem(j, made + Target + 1 + j, j = 1)
    BY DEF NewKem
  <2>3. r.id = i /\ q.id = j /\ r.key = made + Target + 1 + i /\ q.key = made + Target + 1 + j
    BY <2>1, <2>2 DEF FreshKem
  <2>4. i = j
    BY <1>0, <2>3
  <2> QED
    BY <2>1, <2>2, <2>4
<1>10. FreshKem(1, made + Target + 2, TRUE) \in NewKem
  <2>1. 1 \in 1..Target + 1 /\ made + Target + 1 + 1 = made + Target + 2 /\ (1 = 1) = TRUE
    BY <1>0
  <2> QED
    BY <2>1 DEF NewKem
<1>11. [id |-> 1, key |-> made + 1] \in NewEc
  BY <1>0 DEF NewEc
<1>12. \A r, q \in NewEc : r.id = q.id => r = q
  BY DEF NewEc
<1>13. \A r \in NewKem : /\ r.id \in 1..Target + 1 /\ r.key \in made + 1..made + 2 * Target + 2
                         /\ r.born = clock /\ (r.last <=> r.id = 1) /\ ~r.round3 /\ ~r.used
                         /\ (r.last => r.key = made + Target + 2)
  BY <1>0, <1>8
<1> QED
  BY <1>1, <1>3, <1>4, <1>5, <1>6, <1>7, <1>9, <1>10, <1>11, <1>12, <1>13

LEMMA GenerateDoes ==
  ASSUME IInv, NEW t \in Tasks, Generate(t)
  PROVE  /\ UNCHANGED <<clock, opened, published, cites, next, todo, outrun, raced, crowded,
                        unpublished, overtaken, spent, lost>>
         /\ pc[t] = "generate" /\ pc' \in [Tasks -> Steps] /\ pc'[t] = "publish"
         /\ \A u \in Tasks \ {t} : pc'[u] = pc[u] /\ draft'[u] = draft[u] /\ before'[u] = before[u]
         /\ draft' \in [Tasks -> Bundle] /\ draft'[t] = NewBundle
         /\ before' \in [Tasks -> SUBSET Tasks] /\ before'[t] = {u \in Tasks : pc[u] = "publish"}
         /\ ec' = {r \in ec : \A n \in NewEc : n.id # r.id} \cup NewEc
         /\ spk' = Put(spk, NewSigned)
         /\ kem' = {r \in kem : \A n \in NewKem : n.id # r.id} \cup NewKem
         /\ made' = made + 2 * Target + 2
         /\ overwritten' = overwritten \cup Displaced(ec, 1..Target) \cup Displaced(spk, {1})
                                       \cup Displaced(kem, 1..Target + 1)
         /\ overwritten' \subseteq Nat
         /\ ec' \subseteq EcKey /\ kem' \subseteq KemKey /\ spk' \subseteq SignedKey
         /\ Small'
<1>0. /\ ec \subseteq EcKey /\ kem \subseteq KemKey /\ spk \subseteq SignedKey /\ overwritten \subseteq Nat
      /\ made \in Nat /\ clock \in Nat /\ Target \in Nat
      /\ pc \in [Tasks -> Steps] /\ draft \in [Tasks -> Bundle] /\ before \in [Tasks -> SUBSET Tasks]
  BY PrekeysAssumption DEF IInv, TypeOK
<1>1. /\ UNCHANGED <<clock, opened, published, cites, next, todo, outrun, raced, crowded,
                     unpublished, overtaken, spent, lost>>
      /\ pc[t] = "generate" /\ pc' = [pc EXCEPT ![t] = "publish"]
      /\ draft' = [draft EXCEPT ![t] = NewBundle]
      /\ before' = [before EXCEPT ![t] = {u \in Tasks : pc[u] = "publish"}]
      /\ ec' = {r \in ec : \A n \in NewEc : n.id # r.id} \cup NewEc
      /\ spk' = Put(spk, NewSigned)
      /\ kem' = {r \in kem : \A n \in NewKem : n.id # r.id} \cup NewKem
      /\ made' = made + 2 * Target + 2
      /\ overwritten' = overwritten \cup Displaced(ec, 1..Target) \cup Displaced(spk, {1})
                                    \cup Displaced(kem, 1..Target + 1)
  BY DEF Generate, Lists, Step, NewEc, NewSigned, NewKem, NewBundle
<1>2. NewBundle \in Bundle /\ "publish" \in Steps
  BY <1>0, NewTyped DEF Steps, PassSteps
<1>3. \A ids : Displaced(ec, ids) \subseteq Nat /\ Displaced(kem, ids) \subseteq Nat /\ Displaced(spk, ids) \subseteq Nat
  BY TablesTyped DEF Displaced, IInv
<1>4. ec' \subseteq EcKey /\ kem' \subseteq KemKey /\ spk' \subseteq SignedKey
  BY <1>0, <1>1, NewTyped DEF Put
<1>5. IsFiniteSet(ec') /\ IsFiniteSet(kem')
  <2>1. IsFiniteSet({r \in ec : \A n \in NewEc : n.id # r.id})
        /\ IsFiniteSet({r \in kem : \A n \in NewKem : n.id # r.id})
    BY FS_Subset DEF IInv, Small
  <2> QED
    BY <1>0, <1>1, <2>1, NewTyped, FS_Union
<1>6. Bounded(ec')
  <2>1. PICK n \in Nat : \A r \in ec : r.id <= n
    BY DEF IInv, Small, Bounded
  <2>2. \A r \in ec' : r.id <= n + Target
    BY <1>0, <1>1, <1>4, <2>1, NewTyped DEF EcKey
  <2> QED
    BY <1>0, <2>2 DEF Bounded
<1>7. Bounded(kem')
  <2>1. PICK n \in Nat : \A r \in kem : r.id <= n
    BY DEF IInv, Small, Bounded
  <2>2. \A r \in kem' : r.id <= n + Target + 1
    BY <1>0, <1>1, <1>4, <2>1, NewTyped DEF KemKey
  <2> QED
    BY <1>0, <2>2 DEF Bounded
<1>8. Bounded(spk')
  BY <1>0, <1>1, PutBounded, TablesTyped DEF IInv, Small, NewSigned
<1> QED
  BY <1>0, <1>1, <1>2, <1>3, <1>4, <1>5, <1>6, <1>7, <1>8 DEF Small

\* What rebuild_bundle lists.
SignedRow(t) == CHOOSE r \in spk : r.id = next[t]
Listed(t) ==
  [ec |-> ec, kem |-> {Public(r) : r \in Available}, last |-> Public(Newest(LastResorts)),
   signed |-> Public(SignedRow(t)), round3 |-> Newest(LastResorts).round3,
   born |-> Newest(LastResorts).born]

LEMMA ListDoes ==
  ASSUME IInv, NEW t \in Tasks, List(t)
  PROVE  /\ UNCHANGED <<clock, made, ec, kem, spk, opened, published, cites, next, todo, outrun, raced,
                        crowded, overtaken, spent, overwritten, lost>>
         /\ pc[t] = "list" /\ pc' \in [Tasks -> Steps]
         /\ \A u \in Tasks \ {t} : pc'[u] = pc[u] /\ draft'[u] = draft[u] /\ before'[u] = before[u]
         /\ draft' \in [Tasks -> Bundle] /\ before' \in [Tasks -> SUBSET Tasks]
         /\ \/ /\ LastResorts = {} /\ pc'[t] = "done" /\ unpublished' = unpublished \cup {t}
               /\ draft' = draft /\ before' = before
            \/ /\ LastResorts # {} /\ pc'[t] = "publish" /\ unpublished' = unpublished
               /\ draft'[t] = Listed(t) /\ before'[t] = {u \in Tasks : pc[u] = "publish"}
               /\ Newest(LastResorts) \in LastResorts
               /\ \A r \in LastResorts : r.id <= Newest(LastResorts).id
               /\ SignedRow(t) \in spk
<1>0. /\ ec \subseteq EcKey /\ kem \subseteq KemKey /\ spk \subseteq SignedKey
      /\ pc \in [Tasks -> Steps] /\ draft \in [Tasks -> Bundle] /\ before \in [Tasks -> SUBSET Tasks]
  BY DEF IInv, TypeOK
<1>1. /\ UNCHANGED <<clock, made, ec, kem, spk, opened, published, cites, next, todo, outrun, raced,
                     crowded, overtaken, spent, overwritten, lost>>
      /\ pc[t] = "list"
      /\ \/ /\ LastResorts = {} /\ pc' = [pc EXCEPT ![t] = "done"] /\ unpublished' = unpublished \cup {t}
            /\ draft' = draft /\ before' = before
         \/ /\ LastResorts # {} /\ pc' = [pc EXCEPT ![t] = "publish"] /\ unpublished' = unpublished
            /\ draft' = [draft EXCEPT ![t] = Listed(t)]
            /\ before' = [before EXCEPT ![t] = {u \in Tasks : pc[u] = "publish"}]
  BY DEF List, Lists, Step, Listed, SignedRow, store, order
<1>2. SignedRow(t) \in spk
  BY <1>1 DEF SignedRow, IInv, PassSound
<1>3. LastResorts # {} =>
        /\ Newest(LastResorts) \in LastResorts /\ \A r \in LastResorts : r.id <= Newest(LastResorts).id
        /\ Listed(t) \in Bundle
  <2> SUFFICES ASSUME LastResorts # {}
               PROVE  /\ Newest(LastResorts) \in LastResorts /\ \A r \in LastResorts : r.id <= Newest(LastResorts).id
                      /\ Listed(t) \in Bundle
    OBVIOUS
  <2>1. Newest(LastResorts) \in LastResorts /\ \A r \in LastResorts : r.id <= Newest(LastResorts).id
    BY TablesTyped DEF IInv
  <2>2. Newest(LastResorts) \in KemKey /\ SignedRow(t) \in SignedKey
    BY <1>0, <1>2, <2>1 DEF LastResorts
  <2>3. ec \subseteq Key /\ Public(Newest(LastResorts)) \in Key /\ Public(SignedRow(t)) \in Key
    BY <1>0, <2>2 DEF EcKey, KemKey, SignedKey, Key, Public
  <2>4. {Public(r) : r \in Available} \subseteq Key
    BY <1>0 DEF Available, KemKey, Key, Public
  <2>5. Newest(LastResorts).round3 \in BOOLEAN /\ Newest(LastResorts).born \in Nat
    BY <2>2 DEF KemKey
  <2> QED
    BY <2>1, <2>3, <2>4, <2>5 DEF Listed, Bundle
<1>4. "done" \in Steps /\ "publish" \in Steps
  BY DEF Steps, PassSteps
<1> QED
  BY <1>0, <1>1, <1>2, <1>3, <1>4

LEMMA PublishDoes ==
  ASSUME IInv, NEW t \in Tasks, Publish(t)
  PROVE  /\ UNCHANGED <<clock, made, ec, kem, spk, opened, cites, todo, raced, crowded, spent,
                        overwritten, lost>>
         /\ pc[t] = "publish" /\ pc' \in [Tasks -> Steps] /\ pc'[t] = "done"
         /\ draft' \in [Tasks -> Bundle] /\ draft'[t] = NoBundle /\ next' \in [Tasks -> Nat]
         /\ \A u \in Tasks \ {t} : pc'[u] = pc[u] /\ draft'[u] = draft[u] /\ next'[u] = next[u]
         /\ before' \in [Tasks -> SUBSET Tasks] /\ before'[t] = {}
         /\ \A u \in Tasks \ {t} : before'[u] = before[u] \ {t}
         /\ \/ /\ published' = draft[t] /\ (overtaken' <=> overtaken \/ t \in outrun)
               /\ outrun' = (outrun \cup before[t]) \ {t} /\ unpublished' = unpublished
            \/ /\ unpublished' = unpublished \cup {t} /\ outrun' = outrun \ {t}
               /\ published' = published /\ overtaken' = overtaken
         /\ published' \in Bundle /\ outrun' \subseteq Tasks /\ overtaken' \in BOOLEAN
<1>0. /\ pc \in [Tasks -> Steps] /\ draft \in [Tasks -> Bundle] /\ next \in [Tasks -> Nat]
      /\ before \in [Tasks -> SUBSET Tasks] /\ outrun \subseteq Tasks /\ overtaken \in BOOLEAN
      /\ published \in Bundle
  BY DEF IInv, TypeOK
<1>1. "done" \in Steps /\ NoBundle \in Bundle
  BY DEF Steps, NoBundle, Bundle, NoKey, Key
<1>2. /\ UNCHANGED <<clock, made, ec, kem, spk, opened, cites, todo, raced, crowded, spent,
                     overwritten, lost>>
      /\ pc[t] = "publish" /\ pc' = [pc EXCEPT ![t] = "done"]
      /\ draft' = [draft EXCEPT ![t] = NoBundle] /\ next' = [next EXCEPT ![t] = 0]
      /\ before' = [u \in Tasks |-> IF u = t THEN {} ELSE before[u] \ {t}]
  BY DEF Publish, Step, store
<1>3. \/ /\ published' = draft[t] /\ (overtaken' <=> overtaken \/ t \in outrun) /\ overtaken' \in BOOLEAN
         /\ outrun' = (outrun \cup before[t]) \ {t} /\ unpublished' = unpublished
      \/ /\ unpublished' = unpublished \cup {t} /\ outrun' = outrun \ {t}
         /\ published' = published /\ overtaken' = overtaken
  BY DEF Publish
<1>4. published' \in Bundle /\ outrun' \subseteq Tasks /\ overtaken' \in BOOLEAN
  BY <1>0, <1>3
<1> QED
  BY <1>0, <1>1, <1>2, <1>3, <1>4

LEMMA StartDoes ==
  ASSUME IInv, NEW b \in Boots, StartPass(b)
  PROVE  /\ UNCHANGED <<clock, made, ec, kem, spk, opened, published, cites, next, todo, draft, before,
                        outrun, raced, unpublished, overtaken, spent, overwritten, lost>>
         /\ b \in Tasks /\ pc[b] = "idle" /\ pc' \in [Tasks -> Steps] /\ pc'[b] = "check"
         /\ \A u \in Tasks \ {b} : pc'[u] = pc[u]
         /\ (crowded' <=> crowded \/ \E u \in Tasks : Passing(u)) /\ crowded' \in BOOLEAN
BY DEF StartPass, Begins, Step, Tasks, IInv, TypeOK, Steps, PassSteps, store, order

LEMMA CiteDoes ==
  ASSUME IInv, NEW k \in Kex, Cite(k)
  PROVE  /\ UNCHANGED <<clock, made, ec, kem, spk, opened, published, pc, next, todo, draft, before,
                        outrun, raced, crowded, unpublished, overtaken, spent, overwritten, lost>>
         /\ cites[k] = NoCite /\ Citable(published)
         /\ cites' \in [Kex -> [ec : Key, kem : Key, signed : Key, last : BOOLEAN, born : Nat]]
         /\ \A j \in Kex \ {k} : cites'[j] = cites[j]
         /\ cites'[k].ec \in published.ec
         /\ cites'[k].last => cites'[k].kem = published.last
         /\ ~cites'[k].last => cites'[k].kem \in published.kem
         /\ cites'[k].signed = published.signed /\ cites'[k].born = published.born
<1>0. /\ published \in Bundle
      /\ cites \in [Kex -> [ec : Key, kem : Key, signed : Key, last : BOOLEAN, born : Nat]]
  BY DEF IInv, TypeOK
<1>1. /\ UNCHANGED <<clock, made, ec, kem, spk, opened, published, pc, next, todo, draft, before,
                     outrun, raced, crowded, unpublished, overtaken, spent, overwritten, lost>>
      /\ cites[k] = NoCite /\ Citable(published) /\ published.ec # {}
  BY DEF Cite, Citable, store, tasks, history
<1> DEFINE one == published.kem # {}
           new == [ec |-> First(published.ec),
                   kem |-> IF one THEN First(published.kem) ELSE published.last,
                   signed |-> published.signed, last |-> ~one, born |-> published.born]
<1>2. cites' = [cites EXCEPT ![k] = new]
  BY DEF Cite
<1>3. published.ec \subseteq Key /\ published.kem \subseteq Key /\ published.last \in Key
      /\ published.signed \in Key /\ published.born \in Nat
  BY <1>0 DEF Bundle
<1>4. First(published.ec) \in published.ec /\ (one => First(published.kem) \in published.kem)
  BY <1>1, <1>3, FirstIsOne DEF Key
<1>5. /\ new \in [ec : Key, kem : Key, signed : Key, last : BOOLEAN, born : Nat]
      /\ new.ec \in published.ec /\ (new.last => new.kem = published.last)
      /\ (~new.last => new.kem \in published.kem)
      /\ new.signed = published.signed /\ new.born = published.born
  BY <1>3, <1>4
<1> HIDE DEF new
<1> QED
  BY <1>0, <1>1, <1>2, <1>5

LEMMA TickDoes ==
  ASSUME IInv, Tick
  PROVE  /\ UNCHANGED <<made, ec, kem, spk, opened, published, cites, pc, next, todo, draft, before,
                        outrun, raced, crowded, unpublished, overtaken, spent, overwritten, lost>>
         /\ Quiet /\ clock' = clock + 1 /\ clock' \in 0..MaxClock /\ clock \in Nat
BY PrekeysAssumption DEF Tick, store, tasks, history, IInv, TypeOK

LEMMA ArriveDoes ==
  ASSUME IInv, NEW c \in Copies, Arrive(c)
  PROVE  /\ UNCHANGED <<clock, made, ec, kem, spk, opened, published, cites, next, todo, draft, before,
                        outrun, crowded, unpublished, overtaken, spent, overwritten>>
         /\ c \in Tasks /\ c[1] \in Kex /\ pc[c] = "idle" /\ cites[c[1]] # NoCite
         /\ pc' \in [Tasks -> Steps] /\ \A u \in Tasks \ {c} : pc'[u] = pc[u]
         /\ \/ /\ ~SessionFrom(c[1]) /\ Unreadable(c[1]) = {} /\ pc'[c] = "commit" /\ lost' = lost
               /\ raced \subseteq raced' /\ Sharing(c) \subseteq raced'
               /\ Sharing(c) # {} => c \in raced'
            \/ /\ pc'[c] = "done" /\ raced' = raced
               /\ lost' = lost \/ lost' = lost \cup Unreadable(c[1])
         /\ raced' \subseteq Copies
         /\ lost' \subseteq [of : {"ec", "kem", "last", "signed"}, key : Nat, age : Nat]
<1>0. /\ pc \in [Tasks -> Steps] /\ raced \subseteq Copies /\ clock \in Nat
      /\ lost \subseteq [of : {"ec", "kem", "last", "signed"}, key : Nat, age : Nat]
      /\ cites \in [Kex -> [ec : Key, kem : Key, signed : Key, last : BOOLEAN, born : Nat]]
      /\ c[1] \in Kex /\ c \in Tasks /\ cites[c[1]].born <= clock
  BY PrekeysAssumption DEF IInv, TypeOK, Dated, Tasks
<1>1. /\ UNCHANGED <<clock, made, ec, kem, spk, opened, published, cites, next, todo, draft, before,
                     outrun, crowded, unpublished, overtaken, spent, overwritten>>
      /\ pc[c] = "idle" /\ cites[c[1]] # NoCite
      /\ \/ /\ ~SessionFrom(c[1]) /\ Unreadable(c[1]) = {} /\ pc' = [pc EXCEPT ![c] = "commit"] /\ lost' = lost
            /\ raced' = raced \cup Sharing(c) \cup (IF Sharing(c) # {} THEN {c} ELSE {})
         \/ /\ pc' = [pc EXCEPT ![c] = "done"] /\ raced' = raced
            /\ lost' = lost \/ lost' = lost \cup Unreadable(c[1])
  BY DEF Arrive, Step, store, order
<1>2. Sharing(c) \subseteq Copies
  BY DEF Sharing
<1>3. Unreadable(c[1]) \subseteq [of : {"ec", "kem", "last", "signed"}, key : Nat, age : Nat]
  <2>1. clock - cites[c[1]].born \in Nat
    BY <1>0
  <2>2. cites[c[1]].ec.key \in Nat /\ cites[c[1]].kem.key \in Nat /\ cites[c[1]].signed.key \in Nat
    BY <1>0 DEF Key
  <2> QED
    BY <2>1, <2>2 DEF Unreadable
<1>4. "done" \in Steps /\ "commit" \in Steps
  BY DEF Steps
<1> QED
  BY <1>0, <1>1, <1>2, <1>3, <1>4

\* mark_kyber_pre_key_used.
Marked(r, k) == IF ~r.last /\ r.id = cites[k].kem.id THEN [r EXCEPT !.used = TRUE] ELSE r

LEMMA MarkedIs ==
  ASSUME NEW k, NEW r \in KemKey
  PROVE  /\ Marked(r, k) \in KemKey
         /\ Marked(r, k).id = r.id /\ Marked(r, k).key = r.key /\ Marked(r, k).born = r.born
         /\ Marked(r, k).last = r.last /\ Marked(r, k).round3 = r.round3
         /\ Marked(r, k).used <=> r.used \/ (~r.last /\ r.id = cites[k].kem.id)
         /\ Public(Marked(r, k)) = Public(r)
BY DEF Marked, KemKey, Public

LEMMA CommitDoes ==
  ASSUME IInv, NEW c \in Copies, Commit(c)
  PROVE  /\ UNCHANGED <<clock, made, spk, published, cites, next, todo, draft, before, outrun, raced,
                        unpublished, overtaken, overwritten, lost>>
         /\ c \in Tasks /\ c[1] \in Kex /\ pc[c] = "commit" /\ cites[c[1]] # NoCite
         /\ pc' \in [Tasks -> Steps] /\ \A u \in Tasks \ {c} : pc'[u] = pc[u]
         /\ \/ /\ cites[c[1]].last /\ SessionFrom(c[1]) /\ pc'[c] = "done"
               /\ UNCHANGED <<ec, kem, opened, crowded, spent>>
            \/ /\ ~(cites[c[1]].last /\ SessionFrom(c[1])) /\ pc'[c] = "check"
               /\ kem' = {Marked(r, c[1]) : r \in kem}
               /\ ec' = {r \in ec : r.id # cites[c[1]].ec.id}
               /\ spent' = spent \cup Displaced(ec, {cites[c[1]].ec.id})
                                 \cup Displaced(Available, {cites[c[1]].kem.id})
               /\ opened' = opened \cup {c}
               /\ crowded' <=> crowded \/ \E u \in Tasks : Passing(u)
         /\ ec' \subseteq EcKey /\ kem' \subseteq KemKey /\ opened' \subseteq Copies
         /\ spent' \subseteq Nat /\ crowded' \in BOOLEAN /\ Small'
<1>0. /\ pc \in [Tasks -> Steps] /\ ec \subseteq EcKey /\ kem \subseteq KemKey /\ opened \subseteq Copies
      /\ spent \subseteq Nat /\ crowded \in BOOLEAN
      /\ c[1] \in Kex /\ c \in Tasks
  BY PrekeysAssumption DEF IInv, TypeOK, Tasks
<1> DEFINE replayed == cites[c[1]].last /\ SessionFrom(c[1])
<1>1. /\ UNCHANGED <<clock, made, spk, published, cites, next, todo, draft, before, outrun, raced,
                     unpublished, overtaken, overwritten, lost>>
      /\ pc[c] = "commit"
      /\ \/ /\ replayed /\ pc' = [pc EXCEPT ![c] = "done"]
            /\ UNCHANGED <<ec, kem, opened, crowded, spent>>
         \/ /\ ~replayed /\ pc' = [pc EXCEPT ![c] = "check"]
            /\ kem' = {Marked(r, c[1]) : r \in kem}
            /\ ec' = {r \in ec : r.id # cites[c[1]].ec.id}
            /\ spent' = spent \cup Displaced(ec, {cites[c[1]].ec.id})
                              \cup Displaced(Available, {cites[c[1]].kem.id})
            /\ opened' = opened \cup {c}
            /\ crowded' = (crowded \/ \E u \in Tasks : Passing(u))
  BY DEF Commit, Begins, Step, store, order, Marked
<1>2. cites[c[1]] # NoCite
  BY <1>1 DEF IInv, CopiesSound, Committing
<1>3. Displaced(ec, {cites[c[1]].ec.id}) \subseteq Nat /\ Displaced(Available, {cites[c[1]].kem.id}) \subseteq Nat
  BY TablesTyped DEF Displaced, IInv
<1>4. "done" \in Steps /\ "check" \in Steps
  BY DEF Steps, PassSteps
<1>5. ec' \subseteq EcKey /\ kem' \subseteq KemKey
  BY <1>0, <1>1, MarkedIs
<1>6. Small'
  <2>1. CASE replayed
    BY <1>1, <2>1 DEF IInv, Small, Bounded
  <2>2. CASE ~replayed
    <3>1. ec' \subseteq ec /\ kem' = {Marked(r, c[1]) : r \in kem} /\ spk' = spk
      BY <1>1, <2>2
    <3>2. IsFiniteSet(ec') /\ Bounded(ec')
      BY <3>1, FS_Subset DEF IInv, Small, Bounded
    <3>3. Bounded(kem')
      <4>1. PICK n \in Nat : \A r \in kem : r.id <= n
        BY DEF IInv, Small, Bounded
      <4>2. \A r \in kem' : r.id <= n
        BY <1>0, <3>1, <4>1, MarkedIs
      <4> QED
        BY <4>2 DEF Bounded
    <3>4. IsFiniteSet(kem')
      <4> DEFINE f == [r \in kem |-> Marked(r, c[1])]
      <4>1. f \in Surjection(kem, kem')
        BY <3>1 DEF Surjection
      <4> QED
        BY <4>1, FS_Surjection DEF IInv, Small
    <3> QED
      BY <3>1, <3>2, <3>3, <3>4 DEF IInv, Small, Bounded
  <2> QED
    BY <2>1, <2>2
<1>7. crowded' \in BOOLEAN /\ spent' \subseteq Nat /\ opened' \subseteq Copies
  BY <1>0, <1>1, <1>3
<1> QED
  BY <1>0, <1>1, <1>2, <1>4, <1>5, <1>6, <1>7

LEMMA TypePreserved ==
  ASSUME IInv, [Next]_vars
  PROVE  TypeOK'
<1>0. TypeOK
  BY DEF IInv
<1>1. CASE Tick
  BY <1>0, <1>1, TickDoes DEF TypeOK
<1>2. ASSUME NEW b \in Boots, StartPass(b) PROVE TypeOK'
  BY <1>0, <1>2, StartDoes DEF TypeOK
<1>3. ASSUME NEW t \in Tasks, Pass(t) PROVE TypeOK'
  <2>1. CASE Check(t) \/ CountEc(t) \/ CountKem(t) \/ Rotate(t) \/ Signed(t)
    BY <1>0, <2>1, LookTyped DEF TypeOK, store, history
  <2>2. CASE Purge(t) \/ StoreEc(t) \/ StoreKem(t) \/ StoreLast(t) \/ StoreSigned(t) \/ Prune(t)
    BY <1>0, <2>2, WriteTyped, WriteTables DEF TypeOK
  <2>3. CASE Generate(t)
    <3>1. made' \in Nat
      BY <1>0, <2>3, GenerateDoes, PrekeysAssumption DEF TypeOK
    <3> QED
      BY <1>0, <2>3, <3>1, GenerateDoes DEF TypeOK
  <2>4. CASE List(t)
    BY <1>0, <2>4, ListDoes DEF TypeOK
  <2>5. CASE Publish(t)
    BY <1>0, <2>5, PublishDoes DEF TypeOK
  <2> QED
    BY <1>3, <2>1, <2>2, <2>3, <2>4, <2>5 DEF Pass
<1>4. ASSUME NEW k \in Kex, Cite(k) PROVE TypeOK'
  BY <1>0, <1>4, CiteDoes DEF TypeOK
<1>5. ASSUME NEW c \in Copies, Arrive(c) PROVE TypeOK'
  BY <1>0, <1>5, ArriveDoes DEF TypeOK
<1>6. ASSUME NEW c \in Copies, Commit(c) PROVE TypeOK'
  BY <1>0, <1>6, CommitDoes DEF TypeOK
<1>7. CASE UNCHANGED vars
  BY <1>0, <1>7 DEF TypeOK, vars
<1> QED
  BY <1>1, <1>2, <1>3, <1>4, <1>5, <1>6, <1>7 DEF Next

-----------------------------------------------------------------------------
(* What any step does to the store.                                          *)

LEMMA OnlyGrows ==
  ASSUME IInv, [Next]_vars
  PROVE  /\ clock \in Nat /\ clock' \in Nat /\ clock <= clock'
         /\ made \in Nat /\ made' \in Nat /\ made <= made'
         /\ spent \subseteq spent' /\ overwritten \subseteq overwritten' /\ opened \subseteq opened'
         /\ raced \subseteq raced' /\ unpublished \subseteq unpublished' /\ (crowded => crowded')
         /\ overtaken => overtaken'
<1>0. clock \in Nat /\ made \in Nat /\ Target \in Nat
  BY PrekeysAssumption DEF IInv, TypeOK
<1>1. CASE Tick
  BY <1>0, <1>1, TickDoes
<1>2. ASSUME NEW b \in Boots, StartPass(b)
      PROVE  /\ clock' = clock /\ made' = made /\ spent \subseteq spent' /\ overwritten \subseteq overwritten'
             /\ opened \subseteq opened' /\ raced \subseteq raced' /\ unpublished \subseteq unpublished'
             /\ (crowded => crowded') /\ (overtaken => overtaken')
  BY <1>2, StartDoes
<1>3. ASSUME NEW t \in Tasks, Pass(t)
      PROVE  /\ clock' = clock /\ made' \in Nat /\ made <= made'
             /\ spent \subseteq spent' /\ overwritten \subseteq overwritten'
             /\ opened \subseteq opened' /\ raced \subseteq raced' /\ unpublished \subseteq unpublished'
             /\ (crowded => crowded') /\ (overtaken => overtaken')
  <2>1. CASE Check(t) \/ CountEc(t) \/ CountKem(t) \/ Rotate(t) \/ Signed(t)
    BY <1>0, <2>1, LookTyped DEF store, history
  <2>2. CASE Purge(t) \/ StoreEc(t) \/ StoreKem(t) \/ StoreLast(t) \/ StoreSigned(t) \/ Prune(t)
    BY <1>0, <2>2, WriteTyped, WriteTables
  <2>3. CASE Generate(t)
    BY <1>0, <2>3, GenerateDoes
  <2>4. CASE List(t)
    BY <1>0, <2>4, ListDoes
  <2>5. CASE Publish(t)
    BY <1>0, <2>5, PublishDoes
  <2> QED
    BY <1>3, <2>1, <2>2, <2>3, <2>4, <2>5 DEF Pass
<1>4. ASSUME NEW k \in Kex, Cite(k)
      PROVE  /\ clock' = clock /\ made' = made /\ spent \subseteq spent' /\ overwritten \subseteq overwritten'
             /\ opened \subseteq opened' /\ raced \subseteq raced' /\ unpublished \subseteq unpublished'
             /\ (crowded => crowded') /\ (overtaken => overtaken')
  BY <1>4, CiteDoes
<1>5. ASSUME NEW c \in Copies, Arrive(c)
      PROVE  /\ clock' = clock /\ made' = made /\ spent \subseteq spent' /\ overwritten \subseteq overwritten'
             /\ opened \subseteq opened' /\ raced \subseteq raced' /\ unpublished \subseteq unpublished'
             /\ (crowded => crowded') /\ (overtaken => overtaken')
  BY <1>5, ArriveDoes
<1>6. ASSUME NEW c \in Copies, Commit(c)
      PROVE  /\ clock' = clock /\ made' = made /\ spent \subseteq spent' /\ overwritten \subseteq overwritten'
             /\ opened \subseteq opened' /\ raced \subseteq raced' /\ unpublished \subseteq unpublished'
             /\ (crowded => crowded') /\ (overtaken => overtaken')
  BY <1>6, CommitDoes
<1>7. CASE UNCHANGED vars
  BY <1>0, <1>7 DEF vars
<1> QED
  BY <1>0, <1>1, <1>2, <1>3, <1>4, <1>5, <1>6, <1>7 DEF Next

\* The signed prekeys change at two steps only, and no id of theirs goes away.
LEMMA SpkGrows ==
  ASSUME IInv, [Next]_vars
  PROVE  /\ \A r \in spk : \E q \in spk' : q.id = r.id
         /\ (\A t \in Tasks : ~Generate(t) /\ ~StoreSigned(t)) => spk' = spk
<1>1. ASSUME NEW row, spk' = Put(spk, row)
      PROVE  \A r \in spk : \E q \in spk' : q.id = r.id
  BY <1>1 DEF Put
<1>2. CASE Tick \/ UNCHANGED vars
  BY <1>2, TickDoes DEF vars
<1>3. ASSUME NEW b \in Boots, StartPass(b) PROVE spk' = spk
  BY <1>3, StartDoes
<1>4. ASSUME NEW t \in Tasks, Pass(t)
      PROVE  spk' = spk \/ Generate(t) \/ StoreSigned(t)
  BY <1>4, LookTyped, ListDoes, PublishDoes
     DEF Pass, store, Purge, StoreEc, StoreKem, StoreLast, Written, Prune
<1>5. ASSUME NEW k \in Kex, Cite(k) PROVE spk' = spk
  BY <1>5, CiteDoes
<1>6. ASSUME NEW c \in Copies, Arrive(c) \/ Commit(c) PROVE spk' = spk
  BY <1>6, ArriveDoes, CommitDoes
<1>7. ASSUME NEW t \in Tasks, Generate(t) \/ StoreSigned(t)
      PROVE  \E row : spk' = Put(spk, row)
  BY <1>7, GenerateDoes DEF StoreSigned
<1>8. (\E row : spk' = Put(spk, row)) \/ spk' = spk
  BY <1>2, <1>3, <1>4, <1>5, <1>6, <1>7 DEF Next
<1>9. (\A t \in Tasks : ~Generate(t) /\ ~StoreSigned(t)) => spk' = spk
  BY <1>2, <1>3, <1>4, <1>5, <1>6 DEF Next
<1> QED
  BY <1>1, <1>8, <1>9

\* Every EC prekey is an old one or new.
LEMMA EcComes ==
  ASSUME IInv, [Next]_vars
  PROVE  \A r \in ec' : r \in ec \/ r.key \in made + 1..made'
<1>0. made \in Nat
  BY DEF IInv, TypeOK
<1>1. CASE Tick \/ UNCHANGED vars
  BY <1>1, TickDoes DEF vars
<1>2. ASSUME NEW b \in Boots, StartPass(b) PROVE ec' = ec
  BY <1>2, StartDoes
<1>3. ASSUME NEW t \in Tasks, Pass(t)
      PROVE  \A r \in ec' : r \in ec \/ r.key \in made + 1..made'
  <2>1. CASE StoreEc(t)
    BY <1>0, <2>1 DEF StoreEc, Written, Put
  <2>2. CASE Generate(t)
    <3>1. \A r \in NewEc : r.key \in made + 1..made'
      BY <1>0, <2>2, GenerateDoes, NewTyped DEF IInv, TypeOK
    <3> QED
      BY <2>2, <3>1, GenerateDoes
  <2>3. CASE ~StoreEc(t) /\ ~Generate(t)
    BY <1>3, <2>3, LookTyped, ListDoes, PublishDoes
       DEF Pass, store, Purge, StoreKem, StoreLast, StoreSigned, Prune
  <2> QED
    BY <2>1, <2>2, <2>3
<1>4. ASSUME NEW k \in Kex, Cite(k) PROVE ec' = ec
  BY <1>4, CiteDoes
<1>5. ASSUME NEW c \in Copies, Arrive(c) \/ Commit(c) PROVE ec' \subseteq ec
  BY <1>5, ArriveDoes, CommitDoes
<1> QED
  BY <1>1, <1>2, <1>3, <1>4, <1>5 DEF Next

\* Two rows that differ at most in whether the key is used.
Same(r, q) ==
  /\ r.id = q.id /\ r.key = q.key /\ r.born = q.born /\ r.last = q.last /\ r.round3 = q.round3
  /\ q.used => r.used

\* Every KEM prekey is an old one, perhaps used now, or new.
LEMMA KemComes ==
  ASSUME IInv, [Next]_vars
  PROVE  \A r \in kem' :
           \/ \E q \in kem : Same(r, q)
           \/ r.key \in made + 1..made' /\ r.born = clock /\ ~r.round3 /\ ~r.used
<1>0. made \in Nat /\ clock \in Nat /\ kem \subseteq KemKey
  BY PrekeysAssumption DEF IInv, TypeOK
<1> DEFINE From(r) == \/ \E q \in kem : Same(r, q)
                      \/ r.key \in made + 1..made' /\ r.born = clock /\ ~r.round3 /\ ~r.used
<1>1. ASSUME kem' \subseteq kem PROVE \A r \in kem' : From(r)
  BY <1>1 DEF Same
<1>2. CASE Tick \/ UNCHANGED vars
  BY <1>1, <1>2, TickDoes DEF vars
<1>3. ASSUME NEW b \in Boots, StartPass(b) PROVE kem' = kem
  BY <1>3, StartDoes
<1>4. ASSUME NEW t \in Tasks, Pass(t)
      PROVE  \A r \in kem' : From(r)
  <2>1. ASSUME NEW last \in BOOLEAN, kem' = Put(kem, FreshKem(next[t], made + 1, last)), made' = made + 1
        PROVE  \A r \in kem' : From(r)
    <3> DEFINE new == FreshKem(next[t], made + 1, last)
    <3>1. new.key \in made + 1..made' /\ new.born = clock /\ ~new.round3 /\ ~new.used
      BY <1>0, <2>1 DEF FreshKem
    <3>2. \A r \in kem' : r \in kem \/ r = new
      BY <2>1 DEF Put
    <3>3. \A r \in kem : Same(r, r)
      BY DEF Same
    <3> QED
      BY <3>1, <3>2, <3>3
  <2>2. CASE StoreKem(t) \/ StoreLast(t)
    BY <2>1, <2>2 DEF StoreKem, StoreLast, Written
  <2>3. CASE Generate(t)
    <3>1. \A r \in NewKem : r.key \in made + 1..made' /\ r.born = clock /\ ~r.round3 /\ ~r.used
      BY <1>0, <2>3, GenerateDoes, NewTyped
    <3>2. \A r \in kem : Same(r, r)
      BY DEF Same
    <3> QED
      BY <2>3, <3>1, <3>2, GenerateDoes
  <2>4. CASE ~StoreKem(t) /\ ~StoreLast(t) /\ ~Generate(t)
    <3>1. kem' \subseteq kem
      BY <1>4, <2>4, LookTyped, ListDoes, PublishDoes
         DEF Pass, store, Purge, StoreEc, StoreSigned, Prune
    <3> QED
      BY <1>1, <3>1
  <2> QED
    BY <2>2, <2>3, <2>4
<1>5. ASSUME NEW k \in Kex, Cite(k) PROVE kem' = kem
  BY <1>5, CiteDoes
<1>6. ASSUME NEW c \in Copies, Arrive(c) PROVE kem' = kem
  BY <1>6, ArriveDoes
<1>7. ASSUME NEW c \in Copies, Commit(c) PROVE \A r \in kem' : From(r)
  <2>1. CASE kem' = kem
    BY <1>1, <2>1
  <2>2. CASE kem' = {Marked(r, c[1]) : r \in kem}
    <3>1. \A r \in kem : Same(Marked(r, c[1]), r)
      BY <1>0, MarkedIs DEF Same
    <3> QED
      BY <2>2, <3>1
  <2> QED
    BY <1>7, <2>1, <2>2, CommitDoes
<1> QED
  BY <1>1, <1>2, <1>3, <1>4, <1>5, <1>6, <1>7 DEF Next

LEMMA DatedPreserved ==
  ASSUME IInv, TypeOK', [Next]_vars
  PROVE  Dated'
<1>0. Dated /\ clock <= clock' /\ clock \in Nat /\ clock' \in Nat
  BY OnlyGrows DEF IInv
<1>1. \A r \in kem' : r.born <= clock'
  <2> SUFFICES ASSUME NEW r \in kem' PROVE r.born <= clock'
    OBVIOUS
  <2>1. CASE r.born = clock
    BY <1>0, <2>1
  <2>2. ASSUME NEW q \in kem, Same(r, q) PROVE r.born <= clock'
    <3>1. q.born <= clock /\ q.born \in Nat /\ r.born = q.born
      BY <1>0, <2>2 DEF Dated, Same, IInv, TypeOK, KemKey
    <3> QED
      BY <1>0, <3>1
  <2> QED
    BY <2>1, <2>2, KemComes
<1>2. ASSUME NEW b \in Bundle, b.born <= clock PROVE b.born <= clock'
  BY <1>0, <1>2 DEF Bundle
<1>3. ASSUME NEW b \in Nat, b <= clock PROVE b <= clock'
  BY <1>0, <1>3
<1>4. /\ published \in Bundle /\ draft \in [Tasks -> Bundle]
      /\ \A k \in Kex : cites[k].born \in Nat
      /\ published.born <= clock /\ (\A t \in Tasks : draft[t].born <= clock)
      /\ \A k \in Kex : cites[k].born <= clock
      /\ \A r \in kem : r.born <= clock
  BY <1>0 DEF IInv, TypeOK, Dated
<1>5. ASSUME UNCHANGED <<published, draft, cites>>
      PROVE  Dated'
  BY <1>1, <1>2, <1>3, <1>4, <1>5 DEF Dated
<1>6. CASE Tick \/ UNCHANGED vars
  BY <1>5, <1>6, TickDoes DEF vars
<1>7. ASSUME NEW b \in Boots, StartPass(b) PROVE Dated'
  BY <1>5, <1>7, StartDoes
<1>8. ASSUME NEW t \in Tasks, Pass(t) PROVE Dated'
  <2>1. CASE Generate(t)
    <3>1. NewBundle.born = clock
      BY DEF NewBundle
    <3> QED
      BY <1>0, <1>1, <1>4, <2>1, <3>1, GenerateDoes DEF Dated
  <2>2. CASE List(t)
    <3>1. LastResorts # {} => Listed(t).born <= clock
      BY <1>4, <2>2, ListDoes DEF LastResorts, Listed
    <3> QED
      BY <1>0, <1>1, <1>4, <2>2, <3>1, ListDoes DEF Dated
  <2>3. CASE Publish(t)
    <3>1. NoBundle.born <= clock
      BY <1>0 DEF NoBundle
    <3> QED
      BY <1>0, <1>1, <1>4, <2>3, <3>1, PublishDoes DEF Dated
  <2>4. CASE ~Generate(t) /\ ~List(t) /\ ~Publish(t)
    BY <1>5, <1>8, <2>4, LookTyped, WriteTyped DEF Pass
  <2> QED
    BY <2>1, <2>2, <2>3, <2>4
<1>9. ASSUME NEW k \in Kex, Cite(k) PROVE Dated'
  BY <1>0, <1>1, <1>4, <1>9, CiteDoes DEF Dated
<1>10. ASSUME NEW c \in Copies, Arrive(c) PROVE Dated'
  BY <1>5, <1>10, ArriveDoes
<1>11. ASSUME NEW c \in Copies, Commit(c) PROVE Dated'
  BY <1>5, <1>11, CommitDoes
<1> QED
  BY <1>6, <1>7, <1>8, <1>9, <1>10, <1>11 DEF Next

-----------------------------------------------------------------------------
(* The passes.                                                               *)

LEMMA BlankOrUsed ==
  ASSUME IInv, TypeOK', [Next]_vars
  PROVE  (\E r \in spk' : r.id = 1) \/ Blank'
<1>1. CASE \E r \in spk : r.id = 1
  BY <1>1, SpkGrows
<1>2. CASE Blank
  <2>1. \A k \in Kex : ~Cite(k)
    BY <1>2, CiteDoes DEF Blank, Citable, NoBundle
  <2>2. \A c \in Copies : ~Arrive(c) /\ ~Commit(c)
    BY <1>2, ArriveDoes, CommitDoes DEF Blank
  <2>3. CASE Tick \/ UNCHANGED vars
    BY <1>2, <2>3, TickDoes DEF Blank, vars
  <2>4. ASSUME NEW b \in Boots, StartPass(b) PROVE Blank'
    BY <1>2, <2>4, StartDoes DEF Blank
  <2>5. ASSUME NEW t \in Tasks, Pass(t) PROVE (\E r \in spk' : r.id = 1) \/ Blank'
    <3>1. pc[t] \in {"check", "generate", "publish"}
      <4>1. pc[t] \in PassSteps
        BY <2>5, LookTyped, WriteTyped, ListDoes, PublishDoes DEF Pass, Generate, Unlisted, PassSteps
      <4> QED
        BY <1>2, <4>1 DEF IInv, PassSound, Blank
    <3>2. CASE Generate(t)
      <4>1. NewSigned \in spk' /\ NewSigned.id = 1
        BY <3>2, GenerateDoes DEF Put, NewSigned
      <4> QED
        BY <4>1
    <3>3. CASE Publish(t)
      BY <1>2, <3>3, PublishDoes DEF Blank
    <3>4. CASE Check(t)
      BY <1>2, <3>4, LookTyped DEF Blank, store
    <3> QED
      BY <2>5, <3>1, <3>2, <3>3, <3>4
         DEF Pass, Purge, CountEc, CountKem, Count, StoreEc, StoreKem, Written, Rotate, StoreLast, Signed,
             StoreSigned, Prune, List
  <2> QED
    BY <2>1, <2>2, <2>3, <2>4, <2>5 DEF Next
<1> QED
  BY <1>1, <1>2 DEF IInv, PassSound

\* What a pass knows at a step.
Knows(t) ==
  /\ pc[t] \in PassSteps \ {"check", "generate", "publish"} => \E r \in spk : r.id = 1
  /\ pc[t] \in {"prune", "list"} => \E r \in spk : r.id = next[t]
  /\ pc[t] \in {"storeEc", "storeKem"} => todo[t] > 0
  /\ pc[t] # "publish" => draft[t] = NoBundle

LEMMA KnowsPreserved ==
  ASSUME IInv, TypeOK', [Next]_vars, NEW t \in Tasks
  PROVE  Knows(t)'
<1>0. \A u \in Tasks : Knows(u)
  BY DEF IInv, PassSound, Knows
<1>1. ASSUME NEW u \in Tasks, UNCHANGED <<pc[u], next[u], todo[u], draft[u]>>
      PROVE  Knows(u)'
  BY <1>0, <1>1, SpkGrows DEF Knows
<1>2. ASSUME NEW u \in Tasks, pc'[u] \notin PassSteps, draft'[u] = NoBundle
      PROVE  Knows(u)'
  BY <1>2 DEF Knows, PassSteps
<1>3. CASE Tick \/ UNCHANGED vars
  BY <1>1, <1>3, TickDoes DEF vars
<1>4. ASSUME NEW b \in Boots, StartPass(b) PROVE Knows(t)'
  BY <1>0, <1>1, <1>4, StartDoes DEF Knows
<1>5. ASSUME NEW k \in Kex, Cite(k) PROVE Knows(t)'
  BY <1>1, <1>5, CiteDoes
<1>6. ASSUME NEW c \in Copies, Arrive(c) \/ Commit(c) PROVE Knows(t)'
  <2>1. /\ c \in Tasks /\ UNCHANGED <<next, todo, draft>> /\ (\A u \in Tasks \ {c} : pc'[u] = pc[u])
        /\ pc[c] \in {"idle", "commit"} /\ pc'[c] \in {"commit", "done", "check"}
    BY <1>6, ArriveDoes, CommitDoes
  <2>2. CASE t # c
    BY <1>1, <2>1, <2>2
  <2>3. CASE t = c
    BY <1>0, <2>1, <2>3 DEF Knows, PassSteps
  <2> QED
    BY <2>2, <2>3
<1>7. ASSUME NEW u \in Tasks, Pass(u) PROVE Knows(t)'
  <2>1. CASE t # u
    <3>1. UNCHANGED <<pc[t], next[t], todo[t], draft[t]>>
      BY <1>7, <2>1, LookTyped, WriteTyped, GenerateDoes, ListDoes, PublishDoes DEF Pass
    <3> QED
      BY <1>1, <3>1
  <2>2. ASSUME t = u PROVE Knows(u)'
    <3> USE DEF Knows, PassSteps
    <3>0. /\ pc \in [Tasks -> Steps] /\ next \in [Tasks -> Nat] /\ todo \in [Tasks -> Nat]
          /\ (\A r \in spk : \E q \in spk' : q.id = r.id) /\ Knows(u)
      BY <1>0, SpkGrows DEF IInv, TypeOK
    <3>1. CASE Check(u)
      BY <3>0, <3>1 DEF Check, Step, store
    <3>2. CASE CountEc(u) \/ CountKem(u)
      <4>1. Cardinality(ec) \in Nat /\ Cardinality(Available) \in Nat /\ Target \in Nat /\ LowWater \in 1..Target
        BY TablesTyped, PrekeysAssumption DEF IInv
      <4>2. CASE CountEc(u)
        BY <3>0, <4>1, <4>2 DEF CountEc, Count, Step, store
      <4>3. CASE CountKem(u)
        BY <3>0, <4>1, <4>3 DEF CountKem, Count, Step, store
      <4> QED
        BY <3>2, <4>2, <4>3
    <3>3. CASE Rotate(u) \/ Purge(u) \/ StoreLast(u)
      BY <3>0, <3>3 DEF Rotate, Purge, StoreLast, Step, store, order
    <3>4. CASE Signed(u)
      <4>1. Newest(spk) \in spk /\ spk' = spk /\ draft' = draft
        BY <3>0, <3>4, TablesTyped DEF IInv, Signed, store
      <4> DEFINE due == clock - Newest(spk).born > RotateAge
      <4>2. /\ pc[u] = "signed"
            /\ next' = [next EXCEPT ![u] = IF due THEN Newest(spk).id + 1 ELSE Newest(spk).id]
            /\ pc' = [pc EXCEPT ![u] = IF due THEN "storeSigned" ELSE "prune"]
        BY <3>4 DEF Signed, Step
      <4> HIDE DEF due
      <4>3. CASE due
        <5>1. pc'[u] = "storeSigned"
          BY <3>0, <4>2, <4>3
        <5> QED
          BY <3>0, <4>1, <4>2, <5>1
      <4>4. CASE ~due
        <5>1. pc'[u] = "prune" /\ next'[u] = Newest(spk).id
          BY <3>0, <4>2, <4>4
        <5> QED
          BY <3>0, <4>1, <4>2, <5>1
      <4> QED
        BY <4>3, <4>4
    <3>5. CASE StoreSigned(u)
      <4> DEFINE row == [id |-> next[u], key |-> made + 1, born |-> clock]
      <4>1. row \in spk' /\ row.id = next[u]
        BY <3>5 DEF StoreSigned, Put
      <4> QED
        BY <3>0, <3>5, <4>1 DEF StoreSigned, Step
    <3>6. CASE Prune(u)
      BY <3>0, <3>6 DEF Prune, Step
    <3>7. CASE StoreEc(u)
      BY <3>0, <3>7 DEF StoreEc, Written, Step
    <3>8. CASE StoreKem(u)
      BY <3>0, <3>8 DEF StoreKem, Written, Step
    <3>9. CASE Generate(u)
      BY <3>9, GenerateDoes
    <3>10. CASE List(u)
      BY <3>0, <3>10, ListDoes
    <3>11. CASE Publish(u)
      BY <3>0, <3>11, PublishDoes
    <3> QED
      BY <1>7, <3>1, <3>2, <3>3, <3>4, <3>5, <3>6, <3>7, <3>8, <3>9, <3>10, <3>11 DEF Pass
  <2> QED
    BY <2>1, <2>2
<1> QED
  BY <1>3, <1>4, <1>5, <1>6, <1>7 DEF Next

\* From then on there are no Round-3 keys.
Modern ==
  \/ \E t \in Tasks : pc[t] \in Cleaned \/ Citable(draft[t])
  \/ Citable(published)
  \/ \E k \in Kex : cites[k] # NoCite

LEMMA ModernPreserved ==
  ASSUME IInv, TypeOK', [Next]_vars, Modern'
  PROVE  \A r \in kem' : ~r.round3
<1>1. Modern => \A r \in kem : ~r.round3
  BY DEF IInv, PassSound, Modern
<1>2. ASSUME \A r \in kem : ~r.round3 PROVE \A r \in kem' : ~r.round3
  BY <1>2, KemComes DEF Same
<1> USE DEF Modern
<1>3. CASE Tick \/ UNCHANGED vars
  BY <1>1, <1>2, <1>3, TickDoes DEF vars
<1>4. ASSUME NEW b \in Boots, StartPass(b) PROVE \A r \in kem' : ~r.round3
  BY <1>1, <1>2, <1>4, StartDoes DEF Cleaned
<1>5. ASSUME NEW k \in Kex, Cite(k) PROVE \A r \in kem' : ~r.round3
  BY <1>1, <1>2, <1>5, CiteDoes
<1>6. ASSUME NEW c \in Copies, Arrive(c) PROVE \A r \in kem' : ~r.round3
  BY <1>1, <1>2, <1>6, ArriveDoes
<1>7. ASSUME NEW c \in Copies, Commit(c) PROVE \A r \in kem' : ~r.round3
  BY <1>1, <1>2, <1>7, CommitDoes
<1>8. ASSUME NEW t \in Tasks, Pass(t) PROVE \A r \in kem' : ~r.round3
  <2>1. CASE Purge(t)
    BY <2>1 DEF Purge
  <2>2. CASE Check(t)
    <3>1. CASE Modern
      BY <1>1, <1>2, <3>1
    <3>2. CASE Blank
      BY <1>2, <3>2 DEF Blank
    <3>3. CASE ~Modern /\ ~Blank
      <4>1. pc' = [pc EXCEPT ![t] = "purge"] /\ draft' = draft /\ published' = published /\ cites' = cites
        BY <2>2, <3>3 DEF Check, Step, IInv, PassSound
      <4> QED
        BY <3>3, <4>1 DEF Cleaned, IInv, TypeOK
    <3> QED
      BY <3>1, <3>2, <3>3
  <2>3. CASE ~Purge(t) /\ ~Check(t) /\ ~Publish(t)
    <3>1. pc[t] \in Cleaned
      BY <1>8, <2>3 DEF Pass, Generate, CountEc, CountKem, Count, StoreEc, StoreKem, Written, Rotate,
                        StoreLast, Signed, StoreSigned, Prune, List, Cleaned, PassSteps
    <3> QED
      BY <1>1, <1>2, <3>1
  <2>4. CASE Publish(t)
    <3>1. pc[t] \in Cleaned
      BY <2>4 DEF Publish, Cleaned, PassSteps
    <3> QED
      BY <1>1, <1>2, <3>1
  <2> QED
    BY <2>1, <2>2, <2>3, <2>4
<1> QED
  BY <1>3, <1>4, <1>5, <1>6, <1>7, <1>8 DEF Next

LEMMA PassSoundPreserved ==
  ASSUME IInv, TypeOK', [Next]_vars
  PROVE  PassSound'
<1>1. \A t \in Tasks : Knows(t)'
  BY KnowsPreserved
<1> QED
  BY <1>1, BlankOrUsed, ModernPreserved DEF PassSound, Knows, Modern

LEMMA UniquePreserved ==
  ASSUME IInv, TypeOK', [Next]_vars
  PROVE  UniqueIds'
<1>0. /\ UniqueIds /\ ec \subseteq EcKey /\ kem \subseteq KemKey /\ made \in Nat /\ clock \in Nat
  BY PrekeysAssumption DEF IInv, TypeOK
<1>1. ASSUME ec' \subseteq ec, kem' \subseteq kem PROVE UniqueIds'
  BY <1>0, <1>1 DEF UniqueIds
<1>2. CASE Tick \/ UNCHANGED vars
  BY <1>1, <1>2, TickDoes DEF vars
<1>3. ASSUME NEW b \in Boots, StartPass(b) PROVE UniqueIds'
  BY <1>1, <1>3, StartDoes
<1>4. ASSUME NEW k \in Kex, Cite(k) PROVE UniqueIds'
  BY <1>1, <1>4, CiteDoes
<1>5. ASSUME NEW c \in Copies, Arrive(c) PROVE UniqueIds'
  BY <1>1, <1>5, ArriveDoes
<1>6. ASSUME NEW c \in Copies, Commit(c) PROVE UniqueIds'
  <2>1. CASE UNCHANGED <<ec, kem>>
    BY <1>1, <2>1
  <2>2. CASE kem' = {Marked(r, c[1]) : r \in kem} /\ ec' \subseteq ec
    <3>1. \A r, s \in kem' : r.id = s.id => r = s
      <4> SUFFICES ASSUME NEW r \in kem, NEW s \in kem, Marked(r, c[1]).id = Marked(s, c[1]).id
                   PROVE  Marked(r, c[1]) = Marked(s, c[1])
        BY <2>2
      <4>1. r.id = s.id
        BY <1>0, MarkedIs
      <4> QED
        BY <1>0, <4>1 DEF UniqueIds
    <3> QED
      BY <1>0, <2>2, <3>1 DEF UniqueIds
  <2> QED
    BY <1>6, <2>1, <2>2, CommitDoes
<1>7. ASSUME NEW t \in Tasks, Pass(t) PROVE UniqueIds'
  <2>1. ASSUME NEW row, kem' = Put(kem, row), ec' = ec PROVE UniqueIds'
    BY <1>0, <2>1 DEF Put, UniqueIds
  <2>2. ASSUME NEW row, ec' = Put(ec, row), kem' = kem PROVE UniqueIds'
    BY <1>0, <2>2 DEF Put, UniqueIds
  <2>3. CASE StoreEc(t)
    BY <2>2, <2>3 DEF StoreEc
  <2>4. CASE StoreKem(t) \/ StoreLast(t)
    BY <2>1, <2>4 DEF StoreKem, StoreLast
  <2>5. CASE Generate(t)
    <3>1. \A r, s \in ec' : r.id = s.id => r = s
      BY <1>0, <2>5, GenerateDoes, NewTyped DEF UniqueIds
    <3>2. \A r, s \in kem' : r.id = s.id => r = s
      BY <1>0, <2>5, GenerateDoes, NewTyped DEF UniqueIds
    <3> QED
      BY <3>1, <3>2 DEF UniqueIds
  <2>6. CASE ~StoreEc(t) /\ ~StoreKem(t) /\ ~StoreLast(t) /\ ~Generate(t)
    <3>1. ec' \subseteq ec /\ kem' \subseteq kem
      BY <1>7, <2>6, LookTyped, ListDoes, PublishDoes DEF Pass, store, Purge, StoreSigned, Prune
    <3> QED
      BY <1>1, <3>1
  <2> QED
    BY <2>3, <2>4, <2>5, <2>6
<1> QED
  BY <1>2, <1>3, <1>4, <1>5, <1>6, <1>7 DEF Next

LEMMA SmallPreserved ==
  ASSUME IInv, TypeOK', [Next]_vars
  PROVE  Small'
<1>0. ASSUME UNCHANGED <<ec, kem, spk>> PROVE Small'
  BY <1>0 DEF IInv, Small, Bounded
<1>1. CASE Tick \/ UNCHANGED vars
  BY <1>0, <1>1, TickDoes DEF vars
<1>2. ASSUME NEW b \in Boots, StartPass(b) PROVE Small'
  BY <1>0, <1>2, StartDoes
<1>3. ASSUME NEW t \in Tasks, Pass(t) PROVE Small'
  BY <1>0, <1>3, LookTyped, WriteTables, GenerateDoes, ListDoes, PublishDoes DEF Pass, store
<1>4. ASSUME NEW k \in Kex, Cite(k) PROVE Small'
  BY <1>0, <1>4, CiteDoes
<1>5. ASSUME NEW c \in Copies, Arrive(c) PROVE Small'
  BY <1>0, <1>5, ArriveDoes
<1>6. ASSUME NEW c \in Copies, Commit(c) PROVE Small'
  BY <1>6, CommitDoes
<1> QED
  BY <1>1, <1>2, <1>3, <1>4, <1>5, <1>6 DEF Next

\* The tasks that have a bundle to publish.
Waiting == {u \in Tasks : pc[u] = "publish"}

\* They change when a pass lists, and when it publishes.
LEMMA WaitingChanges ==
  ASSUME IInv, TypeOK', [Next]_vars
  PROVE  \/ /\ Waiting' = Waiting /\ UNCHANGED <<before, outrun, draft, published, overtaken>>
            /\ \A t \in Tasks : pc'[t] = "publish" <=> pc[t] = "publish"
         \/ \E t \in Tasks :
              /\ t \notin Waiting /\ Waiting' = Waiting \cup {t} /\ outrun' = outrun
              /\ before'[t] = Waiting /\ pc[t] \in Unlisted
              /\ UNCHANGED <<published, unpublished, overtaken>>
              /\ \A u \in Tasks \ {t} : before'[u] = before[u] /\ draft'[u] = draft[u]
              /\ pc'[t] = "publish" /\ \A u \in Tasks \ {t} : pc'[u] = pc[u]
              /\ Generate(t) \/ List(t)
         \/ \E t \in Tasks : Publish(t)
<1>0. pc \in [Tasks -> Steps] /\ pc' \in [Tasks -> Steps]
  BY DEF IInv, TypeOK
<1>1. ASSUME \A t \in Tasks : pc'[t] = "publish" <=> pc[t] = "publish"
      PROVE  Waiting' = Waiting
  BY <1>1 DEF Waiting
<1> USE DEF Unlisted, PassSteps
<1>2. CASE Tick \/ UNCHANGED vars
  BY <1>1, <1>2, TickDoes DEF vars
<1>3. ASSUME NEW b \in Boots, StartPass(b)
      PROVE  \A t \in Tasks : pc'[t] = "publish" <=> pc[t] = "publish"
  BY <1>3, StartDoes
<1>4. ASSUME NEW c \in Copies, Arrive(c) \/ Commit(c)
      PROVE  \A t \in Tasks : pc'[t] = "publish" <=> pc[t] = "publish"
  <2>1. /\ c \in Tasks /\ (\A u \in Tasks \ {c} : pc'[u] = pc[u])
        /\ pc[c] \in {"idle", "commit"} /\ pc'[c] \in {"commit", "done", "check"}
    BY <1>4, ArriveDoes, CommitDoes
  <2> QED
    BY <2>1
<1>5. ASSUME NEW k \in Kex, Cite(k) PROVE UNCHANGED <<pc, before, outrun, draft, published, overtaken>>
  BY <1>5, CiteDoes
<1>6. ASSUME NEW t \in Tasks, Pass(t), ~Generate(t), ~List(t), ~Publish(t)
      PROVE  /\ \A u \in Tasks : pc'[u] = "publish" <=> pc[u] = "publish"
             /\ UNCHANGED <<before, outrun, draft, published, overtaken>>
  <2>1. /\ pc[t] \in Unlisted /\ pc'[t] \in Unlisted /\ \A u \in Tasks \ {t} : pc'[u] = pc[u]
        /\ UNCHANGED <<before, outrun, draft, published, overtaken>>
    BY <1>6, LookTyped, WriteTyped DEF Pass, history
  <2> QED
    BY <2>1
<1>7. ASSUME NEW t \in Tasks, Generate(t) \/ List(t), pc'[t] = "publish"
      PROVE  /\ t \notin Waiting /\ Waiting' = Waiting \cup {t} /\ outrun' = outrun
             /\ before'[t] = Waiting /\ pc[t] \in Unlisted
             /\ UNCHANGED <<published, unpublished, overtaken>>
             /\ \A u \in Tasks \ {t} : before'[u] = before[u] /\ draft'[u] = draft[u]
             /\ \A u \in Tasks \ {t} : pc'[u] = pc[u]
  <2>1. /\ outrun' = outrun /\ before'[t] = {u \in Tasks : pc[u] = "publish"} /\ pc[t] \in {"generate", "list"}
        /\ UNCHANGED <<published, unpublished, overtaken>>
        /\ \A u \in Tasks \ {t} : before'[u] = before[u] /\ draft'[u] = draft[u] /\ pc'[u] = pc[u]
    BY <1>7, GenerateDoes, ListDoes
  <2> QED
    BY <1>7, <2>1 DEF Waiting
<1>8. ASSUME NEW t \in Tasks, Generate(t) \/ List(t), pc'[t] # "publish"
      PROVE  /\ \A u \in Tasks : pc'[u] = "publish" <=> pc[u] = "publish"
             /\ UNCHANGED <<before, outrun, draft, published, overtaken>>
  <2>1. /\ UNCHANGED <<before, outrun, draft, published, overtaken>> /\ pc[t] = "list"
        /\ \A u \in Tasks \ {t} : pc'[u] = pc[u]
    BY <1>8, GenerateDoes, ListDoes
  <2> QED
    BY <1>8, <2>1
<1>9. ASSUME NEW b \in Boots, StartPass(b) PROVE UNCHANGED <<before, outrun, draft, published, overtaken>>
  BY <1>9, StartDoes
<1>10. ASSUME NEW c \in Copies, Arrive(c) \/ Commit(c)
       PROVE  UNCHANGED <<before, outrun, draft, published, overtaken>>
  BY <1>10, ArriveDoes, CommitDoes
<1>11. ASSUME NEW t \in Tasks, Pass(t)
       PROVE  \/ /\ \A u \in Tasks : pc'[u] = "publish" <=> pc[u] = "publish"
                 /\ UNCHANGED <<before, outrun, draft, published, overtaken>>
              \/ pc'[t] = "publish" /\ (Generate(t) \/ List(t))
              \/ Publish(t)
  BY <1>6, <1>8, <1>11
<1> QED
  BY <1>1, <1>2, <1>3, <1>4, <1>5, <1>7, <1>9, <1>10, <1>11 DEF Next

LEMMA OrderedPreserved ==
  ASSUME IInv, TypeOK', [Next]_vars
  PROVE  Ordered'
<1>0. Ordered /\ before \in [Tasks -> SUBSET Tasks] /\ outrun \subseteq Tasks
  BY DEF IInv, TypeOK
<1> DEFINE Sorted ==
      /\ \A t \in Tasks : before[t] \subseteq Waiting
      /\ \A t \in Tasks : t \notin before[t]
      /\ \A t, u \in Waiting : t # u => (t \in before[u] <=> u \notin before[t])
      /\ outrun \subseteq Waiting
<1>1. Ordered <=> Sorted
  BY DEF Ordered, Waiting
<1>2. Sorted' => Ordered'
  BY DEF Ordered, Waiting
<1>3. CASE Waiting' = Waiting /\ UNCHANGED <<before, outrun>>
  BY <1>0, <1>1, <1>2, <1>3
<1>4. ASSUME NEW t \in Tasks, t \notin Waiting, Waiting' = Waiting \cup {t}, outrun' = outrun,
             before'[t] = Waiting, \A u \in Tasks \ {t} : before'[u] = before[u]
      PROVE  Sorted'
  <2>1. Waiting \subseteq Tasks
    BY DEF Waiting
  <2> QED
    BY <1>0, <1>1, <1>4, <2>1
<1>5. ASSUME NEW t \in Tasks, Publish(t) PROVE Sorted'
  <2>1. Waiting' = Waiting \ {t}
    BY <1>5, PublishDoes DEF Waiting
  <2>2. before'[t] = {} /\ \A u \in Tasks \ {t} : before'[u] = before[u] \ {t}
    BY <1>5, PublishDoes
  <2>3. outrun' \subseteq (outrun \cup before[t]) \ {t}
    BY <1>5, PublishDoes
  <2>4. Waiting \subseteq Tasks
    BY DEF Waiting
  <2> QED
    BY <1>0, <1>1, <2>1, <2>2, <2>3, <2>4
<1> HIDE DEF Sorted
<1> QED
  BY <1>2, <1>3, <1>4, <1>5, WaitingChanges

-----------------------------------------------------------------------------
(* Which key is which.                                                       *)

LEMMA MadeBefore ==
  ASSUME IInv
  PROVE  /\ \A r \in ec \cup kem : r.key \in Nat /\ r.key <= made
         /\ \A k \in Kex : /\ cites[k].ec.key \in Nat /\ cites[k].ec.key <= made
                           /\ cites[k].kem.key \in Nat
                           /\ cites[k] # NoCite => cites[k].kem.key <= made
<1>1. /\ ec \subseteq EcKey /\ kem \subseteq KemKey /\ made \in Nat
      /\ \A k \in Kex : cites[k].ec.key \in Nat /\ cites[k].kem.key \in Nat
  BY DEF IInv, TypeOK, Key
<1>2. \A r \in ec \cup kem : r.key \in Nat
  BY <1>1 DEF EcKey, KemKey
<1>3. \A r \in ec : Curve(r.key)
  BY DEF Curve
<1>4. \A k \in Kex : Curve(cites[k].ec.key)
  BY DEF Curve
<1>5. \A r \in kem : OneTime(r.key) \/ LastResort(r.key)
  BY DEF OneTime, LastResort
<1>6. \A k \in Kex : cites[k] # NoCite => OneTime(cites[k].kem.key) \/ LastResort(cites[k].kem.key)
  BY DEF OneTime, LastResort
<1> QED
  BY <1>1, <1>2, <1>3, <1>4, <1>5, <1>6 DEF IInv, Kinds

\* A key exchange cites once.
LEMMA CitesStay ==
  ASSUME IInv, [Next]_vars
  PROVE  \A k \in Kex : cites'[k] = cites[k] \/ (Cite(k) /\ cites[k] = NoCite)
<1>1. CASE Tick \/ UNCHANGED vars
  BY <1>1, TickDoes DEF vars
<1>2. ASSUME NEW b \in Boots, StartPass(b) PROVE cites' = cites
  BY <1>2, StartDoes
<1>3. ASSUME NEW t \in Tasks, Pass(t) PROVE cites' = cites
  BY <1>3, LookTyped, WriteTyped, GenerateDoes, ListDoes, PublishDoes DEF Pass
<1>4. ASSUME NEW j \in Kex, Cite(j)
      PROVE  cites[j] = NoCite /\ \A k \in Kex \ {j} : cites'[k] = cites[k]
  BY <1>4, CiteDoes
<1>5. ASSUME NEW c \in Copies, Arrive(c) \/ Commit(c) PROVE cites' = cites
  BY <1>5, ArriveDoes, CommitDoes
<1> QED
  BY <1>1, <1>2, <1>3, <1>4, <1>5 DEF Next

LEMMA CopiesPreserved ==
  ASSUME IInv, TypeOK', [Next]_vars
  PROVE  CopiesSound'
<1>0. CopiesSound /\ opened \subseteq Copies /\ pc \in [Tasks -> Steps] /\ Copies \subseteq Tasks
  BY DEF IInv, TypeOK, Tasks
<1>1. \A k \in Kex : cites[k] # NoCite => cites'[k] # NoCite
  BY CitesStay
<1>2. \A c \in Copies : c[1] \in Kex
  BY PrekeysAssumption
<1>3. ASSUME \A c \in Copies : Committing(c)' => Committing(c), opened' = opened,
             \A c \in Copies : pc[c] \notin {"idle", "commit"} => pc'[c] \notin {"idle", "commit"}
      PROVE  CopiesSound'
  BY <1>0, <1>1, <1>2, <1>3 DEF CopiesSound
<1> USE DEF Committing
<1>4. CASE Tick \/ UNCHANGED vars
  BY <1>3, <1>4, TickDoes DEF vars
<1>5. ASSUME NEW b \in Boots, StartPass(b) PROVE CopiesSound'
  BY <1>0, <1>3, <1>5, StartDoes
<1>6. ASSUME NEW t \in Tasks, Pass(t) PROVE CopiesSound'
  <2>1. pc'[t] \in PassSteps \cup {"done"} /\ opened' = opened /\ \A u \in Tasks \ {t} : pc'[u] = pc[u]
    BY <1>6, LookTyped, WriteTyped, GenerateDoes, ListDoes, PublishDoes DEF Pass, Unlisted, PassSteps
  <2> QED
    BY <1>0, <1>3, <2>1 DEF PassSteps
<1>7. ASSUME NEW k \in Kex, Cite(k) PROVE CopiesSound'
  BY <1>3, <1>7, CiteDoes
<1>8. ASSUME NEW c \in Copies, Arrive(c) PROVE CopiesSound'
  BY <1>0, <1>1, <1>2, <1>8, ArriveDoes DEF CopiesSound
<1>9. ASSUME NEW c \in Copies, Commit(c) PROVE CopiesSound'
  BY <1>0, <1>1, <1>2, <1>9, CommitDoes DEF CopiesSound
<1> QED
  BY <1>4, <1>5, <1>6, <1>7, <1>8, <1>9 DEF Next

\* A key of the EC prekeys, the one-time or the last-resort KEM prekeys is an old one of them, or
\* has just been made.
LEMMA KeysCome ==
  ASSUME IInv, TypeOK', [Next]_vars, NEW x \in Nat
  PROVE  /\ Curve(x)' => Curve(x) \/ x \in made + 1..made'
         /\ OneTime(x)' => OneTime(x) \/ (x > made /\ \E r \in kem' : ~r.last /\ r.key = x)
         /\ LastResort(x)' =>
              x = 0 \/ LastResort(x) \/ (x > made /\ \E r \in kem' : r.last /\ r.key = x)
<1>0. /\ made \in Nat /\ \A k \in Kex : cites'[k] = cites[k] \/ Cite(k)
      /\ kem' \subseteq KemKey /\ ec' \subseteq EcKey
  BY CitesStay DEF IInv, TypeOK
<1> DEFINE CurveIn(b) == \E y \in b.ec : y.key = x
           OneIn(b) == \E y \in b.kem : y.key = x
           LastIn(b) == b.last.key = x
           NewCurve == x \in made + 1..made'
           NewOne == x > made /\ \E r \in kem' : ~r.last /\ r.key = x
           NewLast == x = 0 \/ (x > made /\ \E r \in kem' : r.last /\ r.key = x)
           Comes(b) == /\ CurveIn(b) => Curve(x) \/ NewCurve
                       /\ OneIn(b) => OneTime(x) \/ NewOne
                       /\ LastIn(b) => LastResort(x) \/ NewLast
<1>1. \A r \in ec' : r.key = x => Curve(x) \/ NewCurve
  BY EcComes DEF Curve
<1>2. \A r \in kem' : ~r.last /\ r.key = x => OneTime(x) \/ NewOne
  <2> SUFFICES ASSUME NEW r \in kem', r.key = x, ~r.last PROVE OneTime(x) \/ x > made
    OBVIOUS
  <2>1. CASE r.key \in made + 1..made'
    BY <1>0, <2>1
  <2>2. ASSUME NEW q \in kem, Same(r, q) PROVE OneTime(x)
    BY <2>2 DEF Same, OneTime
  <2> QED
    BY <2>1, <2>2, KemComes
<1>3. \A r \in kem' : r.last /\ r.key = x => LastResort(x) \/ NewLast
  <2> SUFFICES ASSUME NEW r \in kem', r.key = x, r.last PROVE LastResort(x) \/ x > made
    OBVIOUS
  <2>1. CASE r.key \in made + 1..made'
    BY <1>0, <2>1
  <2>2. ASSUME NEW q \in kem, Same(r, q) PROVE LastResort(x)
    BY <2>2 DEF Same, LastResort
  <2> QED
    BY <2>1, <2>2, KemComes
<1>4. Comes(published) /\ \A t \in Tasks : Comes(draft[t])
  <2>1. CurveIn(published) => Curve(x)
    BY DEF Curve
  <2>2. OneIn(published) => OneTime(x)
    BY DEF OneTime
  <2>3. LastIn(published) => LastResort(x)
    BY DEF LastResort
  <2>4. ASSUME NEW t \in Tasks
        PROVE  /\ CurveIn(draft[t]) => Curve(x)
               /\ OneIn(draft[t]) => OneTime(x)
               /\ LastIn(draft[t]) => LastResort(x)
    <3>1. CurveIn(draft[t]) => Curve(x)
      BY DEF Curve
    <3>2. OneIn(draft[t]) => OneTime(x)
      BY DEF OneTime
    <3>3. LastIn(draft[t]) => LastResort(x)
      BY DEF LastResort
    <3> QED
      BY <3>1, <3>2, <3>3
  <2> HIDE DEF CurveIn, OneIn, LastIn, NewCurve, NewOne, NewLast
  <2> QED
    BY <2>1, <2>2, <2>3, <2>4
<1>5. \A k \in Kex : cites'[k] = cites[k] =>
        /\ cites'[k].ec.key = x => Curve(x)
        /\ cites'[k] # NoCite /\ ~cites'[k].last /\ cites'[k].kem.key = x => OneTime(x)
        /\ cites'[k].last /\ cites'[k].kem.key = x => LastResort(x)
  BY DEF Curve, OneTime, LastResort
<1>6. \A k \in Kex : Cite(k) =>
        /\ cites'[k].ec.key = x => CurveIn(published)
        /\ ~cites'[k].last /\ cites'[k].kem.key = x => OneIn(published)
        /\ cites'[k].last /\ cites'[k].kem.key = x => LastIn(published)
  BY CiteDoes
<1>7. ASSUME Comes(published'), \A t \in Tasks : Comes(draft'[t])
      PROVE  /\ Curve(x)' => Curve(x) \/ NewCurve
             /\ OneTime(x)' => OneTime(x) \/ NewOne
             /\ LastResort(x)' => LastResort(x) \/ NewLast
  <2>1. Curve(x)' => \/ \E r \in ec' : r.key = x
                     \/ CurveIn(published')
                     \/ \E t \in Tasks : CurveIn(draft'[t])
                     \/ \E k \in Kex : cites'[k].ec.key = x
    BY DEF Curve
  <2>2. OneTime(x)' => \/ \E r \in kem' : ~r.last /\ r.key = x
                       \/ OneIn(published')
                       \/ \E t \in Tasks : OneIn(draft'[t])
                       \/ \E k \in Kex : cites'[k] # NoCite /\ ~cites'[k].last /\ cites'[k].kem.key = x
    BY DEF OneTime
  <2>3. LastResort(x)' => \/ \E r \in kem' : r.last /\ r.key = x
                          \/ LastIn(published')
                          \/ \E t \in Tasks : LastIn(draft'[t])
                          \/ \E k \in Kex : cites'[k].last /\ cites'[k].kem.key = x
    BY DEF LastResort
  <2>4. \A k \in Kex : cites'[k].ec.key = x => Curve(x) \/ CurveIn(published)
    BY <1>0, <1>5, <1>6
  <2>5. \A k \in Kex : cites'[k] # NoCite /\ ~cites'[k].last /\ cites'[k].kem.key = x =>
          OneTime(x) \/ OneIn(published)
    BY <1>0, <1>5, <1>6
  <2>6. \A k \in Kex : cites'[k].last /\ cites'[k].kem.key = x => LastResort(x) \/ LastIn(published)
    BY <1>0, <1>5, <1>6
  <2> HIDE DEF CurveIn, OneIn, LastIn, NewCurve, NewOne, NewLast
  <2>7. Curve(x)' => Curve(x) \/ NewCurve
    BY <1>1, <1>4, <1>7, <2>1, <2>4
  <2>8. OneTime(x)' => OneTime(x) \/ NewOne
    BY <1>2, <1>4, <1>7, <2>2, <2>5
  <2>9. LastResort(x)' => LastResort(x) \/ NewLast
    BY <1>3, <1>4, <1>7, <2>3, <2>6
  <2> QED
    BY <2>7, <2>8, <2>9
<1>8. ASSUME NEW t \in Tasks, Generate(t) PROVE Comes(draft'[t])
  <2>0. clock \in Nat /\ Target \in Nat
    BY PrekeysAssumption DEF IInv, TypeOK
  <2>1. made' = made + 2 * Target + 2 /\ draft'[t] = NewBundle /\ NewKem \subseteq kem'
    BY <1>8, GenerateDoes
  <2>5. /\ \A r \in NewEc : r.key \in made + 1..made'
        /\ \A r \in NewKem : r.key \in made + 1..made'
        /\ FreshKem(1, made + Target + 2, TRUE) \in kem'
    BY <1>0, <2>0, <2>1, NewTyped
  <2>2. CurveIn(NewBundle) => NewCurve
    BY <2>5 DEF NewBundle
  <2>3. OneIn(NewBundle) => NewOne
    <3> SUFFICES ASSUME NEW r \in NewKem, ~r.last, Public(r).key = x
                 PROVE  x > made /\ \E q \in kem' : ~q.last /\ q.key = x
      BY DEF NewBundle
    <3>1. r.key = x /\ r.key \in made + 1..made'
      BY <2>5 DEF Public
    <3> QED
      BY <1>0, <2>1, <3>1
  <2>4. LastIn(NewBundle) => NewLast
    <3> DEFINE new == FreshKem(1, made + Target + 2, TRUE)
    <3>1. new.last /\ new.key = made + Target + 2 /\ new \in kem'
      BY <2>5 DEF FreshKem
    <3>2. NewBundle.last.key = made + Target + 2
      BY DEF NewBundle
    <3>3. made + Target + 2 > made
      BY <1>0, <2>0
    <3> HIDE DEF new
    <3> QED
      BY <3>1, <3>2, <3>3
  <2> HIDE DEF CurveIn, OneIn, LastIn, NewCurve, NewOne, NewLast
  <2> QED
    BY <2>1, <2>2, <2>3, <2>4
<1>9. ASSUME NEW t \in Tasks, List(t), draft'[t] = Listed(t), LastResorts # {} PROVE Comes(draft'[t])
  <2>1. Newest(LastResorts) \in LastResorts
    BY <1>9, ListDoes
  <2>2. CurveIn(Listed(t)) => Curve(x)
    BY DEF Listed, Curve
  <2>3. OneIn(Listed(t)) => OneTime(x)
    BY DEF Listed, OneTime, Available, Public
  <2>4. LastIn(Listed(t)) => LastResort(x)
    BY <2>1 DEF Listed, LastResort, LastResorts, Public
  <2> HIDE DEF CurveIn, OneIn, LastIn, NewCurve, NewOne, NewLast
  <2> QED
    BY <1>9, <2>2, <2>3, <2>4
<1>10. ASSUME NEW t \in Tasks, Publish(t)
       PROVE  /\ published' \in {published, draft[t]}
              /\ \A u \in Tasks : draft'[u] = draft[u] \/ draft'[u] = NoBundle
  BY <1>10, PublishDoes
<1>11. Comes(NoBundle)
  <2>1. NoBundle.ec = {} /\ NoBundle.kem = {} /\ NoBundle.last.key = 0
    BY DEF NoBundle, NoKey
  <2>2. ~CurveIn(NoBundle) /\ ~OneIn(NoBundle) /\ (LastIn(NoBundle) => x = 0)
    BY <2>1
  <2> HIDE DEF CurveIn, OneIn, LastIn, NewOne
  <2> QED
    BY <2>2
<1>12. /\ Curve(x)' => Curve(x) \/ NewCurve
       /\ OneTime(x)' => OneTime(x) \/ NewOne
       /\ LastResort(x)' => LastResort(x) \/ NewLast
  <2> HIDE DEF Comes, NewCurve, NewOne, NewLast
  <2>1. ASSUME NEW t \in Tasks, Generate(t) \/ List(t)
        PROVE  /\ published' = published /\ \A u \in Tasks \ {t} : draft'[u] = draft[u]
               /\ Comes(draft'[t])
    <3>1. /\ published' = published /\ (\A u \in Tasks \ {t} : draft'[u] = draft[u])
          /\ List(t) => draft' = draft \/ (draft'[t] = Listed(t) /\ LastResorts # {})
      BY <2>1, GenerateDoes, ListDoes
    <3> QED
      BY <1>4, <1>8, <1>9, <2>1, <3>1
  <2>2. CASE UNCHANGED <<draft, published>>
    BY <1>4, <1>7, <2>2
  <2>3. CASE \E t \in Tasks : Generate(t) \/ List(t)
    BY <1>4, <1>7, <2>1, <2>3
  <2>4. CASE \E t \in Tasks : Publish(t)
    BY <1>4, <1>7, <1>10, <1>11, <2>4
  <2> QED
    BY <2>2, <2>3, <2>4, WaitingChanges
<1> QED
  BY <1>12, Zenon

\* A step makes no key twice.
LEMMA FreshIsOne ==
  ASSUME IInv, [Next]_vars, NEW r \in kem', NEW s \in kem', r.key = s.key, r.key > made
  PROVE  r = s
<1>0. /\ kem \subseteq KemKey /\ made \in Nat /\ clock \in Nat /\ \A q \in kem : ~(q.key > made)
  BY MadeBefore, PrekeysAssumption DEF IInv, TypeOK
<1>1. CASE kem' \subseteq kem
  BY <1>0, <1>1
<1>2. CASE Tick \/ UNCHANGED vars
  BY <1>1, <1>2, TickDoes DEF vars
<1>3. ASSUME NEW b \in Boots, StartPass(b) PROVE r = s
  BY <1>1, <1>3, StartDoes
<1>4. ASSUME NEW k \in Kex, Cite(k) PROVE r = s
  BY <1>1, <1>4, CiteDoes
<1>5. ASSUME NEW c \in Copies, Arrive(c) PROVE r = s
  BY <1>1, <1>5, ArriveDoes
<1>6. ASSUME NEW c \in Copies, Commit(c) PROVE r = s
  <2>1. CASE kem' = {Marked(q, c[1]) : q \in kem}
    BY <1>0, <2>1, MarkedIs
  <2> QED
    BY <1>1, <1>6, <2>1, CommitDoes
<1>7. ASSUME NEW t \in Tasks, Pass(t) PROVE r = s
  <2>1. ASSUME NEW row, kem' = Put(kem, row) PROVE r = s
    BY <1>0, <2>1 DEF Put
  <2>2. CASE StoreKem(t) \/ StoreLast(t)
    BY <2>1, <2>2 DEF StoreKem, StoreLast
  <2>3. CASE Generate(t)
    <3>1. kem' \subseteq kem \cup NewKem
      BY <2>3, GenerateDoes
    <3>2. r \in NewKem /\ s \in NewKem
      BY <1>0, <3>1
    <3> QED
      BY <1>0, <3>2, NewTyped
  <2>4. CASE ~StoreKem(t) /\ ~StoreLast(t) /\ ~Generate(t)
    <3>1. kem' \subseteq kem
      BY <1>7, <2>4, LookTyped, ListDoes, PublishDoes DEF Pass, store, Purge, StoreEc, StoreSigned, Prune
    <3> QED
      BY <1>1, <3>1
  <2> QED
    BY <2>2, <2>3, <2>4
<1> QED
  BY <1>2, <1>3, <1>4, <1>5, <1>6, <1>7 DEF Next

LEMMA KindsPreserved ==
  ASSUME IInv, TypeOK', [Next]_vars
  PROVE  Kinds'
<1> SUFFICES ASSUME NEW x \in Nat
             PROVE  /\ Curve(x)' => x <= made'
                    /\ OneTime(x)' => x \in 1..made' /\ ~LastResort(x)'
                    /\ LastResort(x)' => x <= made'
  BY DEF Kinds
<1>0. made \in Nat /\ made' \in Nat /\ made <= made'
  BY OnlyGrows
<1>1. /\ Curve(x) => x <= made
      /\ OneTime(x) => x \in 1..made /\ ~LastResort(x)
      /\ LastResort(x) => x <= made
  BY DEF IInv, Kinds
<1>2. \A r \in kem' : r.key > made => r.key <= made'
  <2> SUFFICES ASSUME NEW r \in kem', r.key > made PROVE r.key <= made'
    OBVIOUS
  <2>1. ASSUME NEW q \in kem, Same(r, q) PROVE FALSE
    BY <1>0, <2>1, MadeBefore DEF Same
  <2> QED
    BY <1>0, <2>1, KemComes
<1>3. Curve(x)' => x <= made'
  BY <1>0, <1>1, KeysCome
<1>4. LastResort(x)' => x <= made'
  BY <1>0, <1>1, <1>2, KeysCome
<1>5. ASSUME OneTime(x)' PROVE x \in 1..made' /\ ~LastResort(x)'
  <2>1. CASE OneTime(x)
    BY <1>0, <1>1, <2>1, KeysCome
  <2>2. ASSUME x > made, NEW r \in kem', ~r.last, r.key = x PROVE x \in 1..made' /\ ~LastResort(x)'
    <3>1. x \in 1..made'
      BY <1>0, <1>2, <2>2
    <3>2. ASSUME LastResort(x)' PROVE FALSE
      <4>1. PICK s \in kem' : s.last /\ s.key = x
        BY <1>0, <1>1, <2>2, <3>2, KeysCome
      <4> QED
        BY <2>2, <4>1, FreshIsOne
    <3> QED
      BY <3>1, <3>2
  <2> QED
    BY <1>5, <2>1, <2>2, KeysCome
<1> QED
  BY <1>3, <1>4, <1>5

-----------------------------------------------------------------------------
(* Key exchanges.                                                            *)

\* The keys that decrypt can read.
Readable == {r \in kem : r.last \/ ~r.used}

LEMMA GonePreserved ==
  ASSUME IInv, TypeOK', [Next]_vars
  PROVE  Gone'
<1> SUFFICES ASSUME NEW c \in opened'
             PROVE  /\ ~Holds(ec', cites'[c[1]].ec)
                    /\ ~cites'[c[1]].last => ~Holds(Readable', cites'[c[1]].kem)
  BY DEF Gone, Holds, Readable
<1>0. /\ made \in Nat /\ opened \subseteq Copies /\ opened' \subseteq Copies /\ c[1] \in Kex
      /\ kem \subseteq KemKey /\ kem' \subseteq KemKey
      /\ ec \subseteq EcKey /\ ec' \subseteq EcKey
  BY PrekeysAssumption DEF IInv, TypeOK
<1>1. CASE c \in opened
  <2>1. cites[c[1]] # NoCite /\ cites'[c[1]] = cites[c[1]]
    BY <1>0, <1>1, CitesStay DEF IInv, CopiesSound
  <2>2. cites[c[1]].ec.key <= made /\ cites[c[1]].kem.key <= made
        /\ cites[c[1]].ec.key \in Nat /\ cites[c[1]].kem.key \in Nat
    BY <1>0, <2>1, MadeBefore
  <2>3. ~Holds(ec, cites[c[1]].ec) /\ (~cites[c[1]].last => ~Holds(Readable, cites[c[1]].kem))
    BY <1>1 DEF IInv, Gone, Readable
  <2>4. ~Holds(ec', cites[c[1]].ec)
    <3> SUFFICES ASSUME NEW r \in ec', Public(r) = cites[c[1]].ec PROVE FALSE
      BY DEF Holds
    <3>1. r.key = cites[c[1]].ec.key
      BY DEF Public
    <3> QED
      BY <1>0, <2>2, <2>3, <3>1, EcComes DEF Holds
  <2>5. ASSUME ~cites[c[1]].last PROVE ~Holds(Readable', cites[c[1]].kem)
    <3> SUFFICES ASSUME NEW r \in kem', r.last \/ ~r.used, Public(r) = cites[c[1]].kem PROVE FALSE
      BY DEF Holds, Readable
    <3>1. r.key = cites[c[1]].kem.key
      BY DEF Public
    <3>2. PICK q \in kem : Same(r, q)
      BY <1>0, <2>2, <3>1, KemComes
    <3>3. Public(q) = Public(r) /\ (q.last \/ ~q.used)
      BY <3>2 DEF Same, Public
    <3> QED
      BY <2>3, <2>5, <3>3 DEF Holds, Readable
  <2> QED
    BY <2>1, <2>4, <2>5
<1>2. CASE c \notin opened
  <2>1. PICK d \in Copies : Commit(d)
    <3>1. ASSUME NEW t \in Tasks, Pass(t) PROVE opened' = opened
      BY <3>1, LookTyped, WriteTyped, GenerateDoes, ListDoes, PublishDoes DEF Pass
    <3>2. (\A d \in Copies : ~Commit(d)) => opened' = opened
      BY <3>1, TickDoes, StartDoes, CiteDoes, ArriveDoes DEF Next, vars
    <3> QED
      BY <1>2, <3>2
  <2>2. /\ c = d /\ cites' = cites /\ cites[c[1]] # NoCite
        /\ kem' = {Marked(r, c[1]) : r \in kem} /\ ec' = {r \in ec : r.id # cites[c[1]].ec.id}
    <3>1. opened' # opened
      BY <1>2
    <3>2. /\ cites' = cites /\ cites[d[1]] # NoCite /\ opened' = opened \cup {d}
          /\ kem' = {Marked(r, d[1]) : r \in kem} /\ ec' = {r \in ec : r.id # cites[d[1]].ec.id}
      BY <2>1, <3>1, CommitDoes
    <3>3. c = d
      BY <1>2, <3>2
    <3> QED
      BY <3>2, <3>3
  <2>3. ~Holds(ec', cites[c[1]].ec)
    <3> SUFFICES ASSUME NEW r \in ec', Public(r) = cites[c[1]].ec PROVE FALSE
      BY DEF Holds
    <3>1. r.id = cites[c[1]].ec.id
      BY DEF Public
    <3> QED
      BY <2>2, <3>1
  <2>4. ASSUME ~cites[c[1]].last PROVE ~Holds(Readable', cites[c[1]].kem)
    <3> SUFFICES ASSUME NEW q \in kem, Marked(q, c[1]).last \/ ~Marked(q, c[1]).used,
                        Public(Marked(q, c[1])) = cites[c[1]].kem
                 PROVE FALSE
      BY <2>2 DEF Holds, Readable
    <3>1. q.id = cites[c[1]].kem.id /\ q.key = cites[c[1]].kem.key
      <4>1. Public(q) = cites[c[1]].kem
        BY <1>0, MarkedIs
      <4> QED
        BY <4>1 DEF Public
    <3>2. q.last
      BY <1>0, <3>1, MarkedIs
    <3>3. LastResort(q.key) /\ OneTime(q.key) /\ q.key \in Nat
      BY <1>0, <2>2, <2>4, <3>1, <3>2, MadeBefore DEF LastResort, OneTime
    <3> QED
      BY <3>3 DEF IInv, Kinds
  <2> QED
    BY <2>2, <2>3, <2>4
<1> QED
  BY <1>1, <1>2

LEMMA RacedPreserved ==
  ASSUME IInv, TypeOK', CopiesSound', [Next]_vars
  PROVE  Raced'
<1> DEFINE Reads == {c \in Copies : Committing(c)}
           Pairs == \A c, d \in Reads : c # d /\ (Clash(c, d) \/ Clash(d, c)) => c \in raced /\ d \in raced
           After == \A c \in opened, d \in Reads : Clash(c, d) => c \in raced /\ d \in raced
           Both == \A c, d \in opened : c # d /\ Clash(c, d) => c \in raced /\ d \in raced
<1>0. /\ Pairs /\ After /\ Both
      /\ opened \subseteq Copies /\ opened' \subseteq Copies /\ raced \subseteq raced'
      /\ \A c \in Copies : c[1] \in Kex
      /\ pc \in [Tasks -> Steps] /\ pc' \in [Tasks -> Steps] /\ Copies \subseteq Tasks
  <2>1. opened \subseteq Copies /\ opened' \subseteq Copies /\ raced \subseteq raced'
    BY OnlyGrows DEF IInv, TypeOK
  <2>2. Pairs
    BY DEF IInv, Raced
  <2>3. After
    BY DEF IInv, Raced
  <2>4. Both
    BY DEF IInv, Raced, OpenedOnce, Clash
  <2>5. \A c \in Copies : c[1] \in Kex
    BY PrekeysAssumption
  <2> QED
    BY <2>1, <2>2, <2>3, <2>4, <2>5 DEF IInv, TypeOK, Tasks
<1>1. Pairs' /\ After' /\ Both' => Raced'
  BY DEF Raced, OpenedOnce, Clash
<1>2. \A c \in Reads \cup opened : c \in Copies /\ cites[c[1]] # NoCite /\ cites'[c[1]] = cites[c[1]]
  BY <1>0, CitesStay DEF IInv, CopiesSound
<1>3. \A c, d \in Reads \cup opened : Clash(c, d)' <=> Clash(c, d)
  BY <1>2 DEF Clash
<1>4. ASSUME Reads' \subseteq Reads, opened' = opened PROVE Pairs' /\ After' /\ Both'
  <2> HIDE DEF Reads
  <2> QED
    BY <1>0, <1>3, <1>4
<1>5. CASE Tick \/ UNCHANGED vars
  BY <1>1, <1>4, <1>5, TickDoes DEF vars, Committing
<1>6. ASSUME NEW b \in Boots, StartPass(b) PROVE Raced'
  <2>1. pc'[b] = "check" /\ opened' = opened /\ \A u \in Tasks \ {b} : pc'[u] = pc[u]
    BY <1>6, StartDoes
  <2>2. Reads' \subseteq Reads
    BY <1>0, <2>1 DEF Committing
  <2> QED
    BY <1>1, <1>4, <2>1, <2>2
<1>7. ASSUME NEW t \in Tasks, Pass(t) PROVE Raced'
  <2>1. pc'[t] # "commit" /\ opened' = opened /\ \A u \in Tasks \ {t} : pc'[u] = pc[u]
    BY <1>7, LookTyped, WriteTyped, GenerateDoes, ListDoes, PublishDoes DEF Pass, Unlisted, PassSteps
  <2>2. Reads' \subseteq Reads
    BY <1>0, <2>1 DEF Committing
  <2> QED
    BY <1>1, <1>4, <2>1, <2>2
<1>8. ASSUME NEW k \in Kex, Cite(k) PROVE Raced'
  BY <1>1, <1>4, <1>8, CiteDoes DEF Committing
<1>9. ASSUME NEW a \in Copies, Arrive(a) PROVE Raced'
  <2>1. CASE pc'[a] # "commit"
    BY <1>0, <1>1, <1>4, <1>9, <2>1, ArriveDoes DEF Committing
  <2>2. CASE pc'[a] = "commit"
    <3>1. /\ Reads' = Reads \cup {a} /\ opened' = opened /\ cites' = cites /\ a \notin Reads
          /\ Unreadable(a[1]) = {} /\ Sharing(a) \subseteq raced' /\ (Sharing(a) # {} => a \in raced')
      BY <1>0, <1>9, <2>2, ArriveDoes DEF Committing
    <3>2. \A d \in Reads : Clash(a, d) \/ Clash(d, a) => a \in raced' /\ d \in raced'
      <4> SUFFICES ASSUME NEW d \in Reads, Clash(a, d) \/ Clash(d, a) PROVE a \in raced' /\ d \in raced'
        OBVIOUS
      <4>1. d \in Sharing(a)
        BY <3>1 DEF Sharing, Clash, Committing
      <4> QED
        BY <3>1, <4>1
    <3>3. \A c \in opened : ~Clash(c, a)
      <4> SUFFICES ASSUME NEW c \in opened, Clash(c, a) PROVE FALSE
        OBVIOUS
      <4>1. Holds(ec, cites[a[1]].ec) /\ Holds(Readable, cites[a[1]].kem)
        <5>1. Holds(ec, cites[a[1]].ec)
          BY <3>1 DEF Unreadable
        <5>2. Holds({r \in kem : r.last \/ ~r.used}, cites[a[1]].kem)
          BY <3>1 DEF Unreadable
        <5> QED
          BY <5>1, <5>2 DEF Readable
      <4>2. ~Holds(ec, cites[c[1]].ec) /\ (~cites[c[1]].last => ~Holds(Readable, cites[c[1]].kem))
        BY DEF IInv, Gone, Readable
      <4> QED
        BY <4>1, <4>2 DEF Clash
    <3>4. \A c, d \in Copies : Clash(c, d)' <=> Clash(c, d)
      BY <3>1 DEF Clash
    <3> HIDE DEF Reads
    <3>5. Reads \subseteq Copies
      BY DEF Reads
    <3> QED
      BY <1>0, <1>1, <3>1, <3>2, <3>3, <3>4, <3>5
  <2> QED
    BY <2>1, <2>2
<1>10. ASSUME NEW a \in Copies, Commit(a) PROVE Raced'
  <2>1. a \in Reads /\ cites' = cites /\ raced' = raced /\ Reads' \subseteq Reads /\ a \notin Reads'
    BY <1>0, <1>10, CommitDoes DEF Committing
  <2>2. opened' = opened \/ opened' = opened \cup {a}
    BY <1>10, CommitDoes
  <2>3. \A c \in opened : Clash(a, c) => Clash(c, a)
    <3> SUFFICES ASSUME NEW c \in opened, Clash(a, c) PROVE Clash(c, a)
      OBVIOUS
    <3>1. CASE cites[a[1]].ec = cites[c[1]].ec
      BY <3>1 DEF Clash
    <3>2. CASE cites[a[1]].kem = cites[c[1]].kem /\ ~cites[a[1]].last
      <4>1. OneTime(cites[a[1]].kem.key) /\ cites[a[1]].kem.key \in Nat
        BY <1>0, <1>2, <2>1, <3>2, MadeBefore DEF OneTime
      <4>2. ~LastResort(cites[a[1]].kem.key)
        BY <4>1 DEF IInv, Kinds
      <4>3. ~cites[c[1]].last
        BY <1>0, <3>2, <4>2 DEF LastResort
      <4> QED
        BY <3>2, <4>3 DEF Clash
    <3> QED
      BY <3>1, <3>2 DEF Clash
  <2>4. \A c, d \in Copies : Clash(c, d)' <=> Clash(c, d)
    BY <2>1 DEF Clash
  <2>5. Reads \subseteq Copies
    OBVIOUS
  <2> HIDE DEF Reads
  <2> QED
    BY <1>0, <1>1, <2>1, <2>2, <2>3, <2>4, <2>5
<1> QED
  BY <1>5, <1>6, <1>7, <1>8, <1>9, <1>10 DEF Next

LEMMA ExcusedPreserved ==
  ASSUME IInv, TypeOK', [Next]_vars
  PROVE  Excused'
<1>0. Excused /\ spent \subseteq spent' /\ overwritten \subseteq overwritten'
  BY OnlyGrows DEF IInv
<1>1. CASE lost' = lost
  BY <1>0, <1>1 DEF Excused
<1>2. ASSUME NEW c \in Copies, Arrive(c) PROVE Excused'
  <2>1. /\ c[1] \in Kex /\ cites[c[1]] # NoCite /\ lost' \subseteq lost \cup Unreadable(c[1])
        /\ UNCHANGED <<clock, spent, overwritten>>
    BY <1>2, ArriveDoes
  <2> DEFINE k == c[1]
             cite == cites[k]
  <2>2. ASSUME NEW l \in Unreadable(k)
        PROVE  \/ l.of \in {"ec", "kem"} /\ l.key \in spent
               \/ l.key \in overwritten
               \/ l.of = "last" /\ l.age > KeepAge
    <3>1. /\ EcKept(cite.ec) /\ SignedKept(cite.signed)
          /\ IF cite.last THEN LastKept(cite.kem, cite.born) ELSE OneKept(cite.kem)
      BY <2>1 DEF IInv, Kept
    <3>2. \/ l = [of |-> "ec", key |-> cite.ec.key, age |-> clock - cite.born] /\ ~Holds(ec, cite.ec)
          \/ l = [of |-> "signed", key |-> cite.signed.key, age |-> clock - cite.born] /\ ~Holds(spk, cite.signed)
          \/ /\ l = [of |-> IF cite.last THEN "last" ELSE "kem", key |-> cite.kem.key, age |-> clock - cite.born]
             /\ ~Holds(Readable, cite.kem)
      BY DEF Unreadable, Readable
    <3> HIDE DEF cite
    <3>3. CASE l = [of |-> "ec", key |-> cite.ec.key, age |-> clock - cite.born] /\ ~Holds(ec, cite.ec)
      BY <3>1, <3>3 DEF EcKept
    <3>4. CASE l = [of |-> "signed", key |-> cite.signed.key, age |-> clock - cite.born] /\ ~Holds(spk, cite.signed)
      BY <3>1, <3>4 DEF SignedKept
    <3>5. CASE /\ l = [of |-> IF cite.last THEN "last" ELSE "kem", key |-> cite.kem.key, age |-> clock - cite.born]
               /\ ~Holds(Readable, cite.kem)
      <4>1. CASE cite.last
        <5>1. LastKept(cite.kem, cite.born) /\ l.of = "last" /\ l.age = clock - cite.born /\ l.key = cite.kem.key
          BY <3>1, <3>5, <4>1
        <5> QED
          BY <3>5, <5>1 DEF LastKept, Holds, Readable, LastResorts
      <4>2. CASE ~cite.last
        <5>1. OneKept(cite.kem) /\ l.of = "kem" /\ l.key = cite.kem.key
          BY <3>1, <3>5, <4>2
        <5> QED
          BY <3>5, <5>1 DEF OneKept, Holds, Readable, Available
      <4> QED
        BY <4>1, <4>2
    <3> QED
      BY <3>2, <3>3, <3>4, <3>5
  <2> QED
    BY <1>0, <2>1, <2>2 DEF Excused
<1>3. (\A c \in Copies : ~Arrive(c)) => lost' = lost
  <2>1. ASSUME NEW t \in Tasks, Pass(t) PROVE lost' = lost
    BY <2>1, LookTyped, WriteTyped, GenerateDoes, ListDoes, PublishDoes DEF Pass, history
  <2> QED
    BY <2>1, TickDoes, StartDoes, CiteDoes, CommitDoes DEF Next, vars
<1> QED
  BY <1>1, <1>2, <1>3

-----------------------------------------------------------------------------
(* Keys that peers may cite stay.                                            *)

\* A step that consumes the keys of these ids.
Consumes(ecId, kemId) ==
  \E c \in Copies : Commit(c) /\ opened' # opened /\ ecId = cites[c[1]].ec.id /\ kemId = cites[c[1]].kem.id

LEMMA EcStays ==
  ASSUME IInv, [Next]_vars, NEW r \in ec
  PROVE  \/ r \in ec'
         \/ r.key \in overwritten'
         \/ r.key \in spent' /\ \E i : Consumes(r.id, i)
<1>1. CASE Tick \/ UNCHANGED vars
  BY <1>1, TickDoes DEF vars
<1>2. ASSUME NEW b \in Boots, StartPass(b) PROVE ec' = ec
  BY <1>2, StartDoes
<1>3. ASSUME NEW t \in Tasks, Pass(t) PROVE r \in ec' \/ r.key \in overwritten'
  <2>1. CASE StoreEc(t)
    <3>1. r.id = next[t] => r.key \in Displaced(ec, {next[t]})
      BY DEF Displaced
    <3> QED
      BY <2>1, <3>1 DEF StoreEc, Written, Put
  <2>2. CASE Generate(t)
    <3>1. r.id \in 1..Target => r.key \in Displaced(ec, 1..Target)
      BY DEF Displaced
    <3>2. ASSUME NEW n \in NewEc, n.id = r.id PROVE r.id \in 1..Target
      BY <3>2 DEF NewEc
    <3> QED
      BY <2>2, <3>1, <3>2, GenerateDoes
  <2>3. CASE ~StoreEc(t) /\ ~Generate(t)
    BY <1>3, <2>3, LookTyped, ListDoes, PublishDoes
       DEF Pass, store, Purge, StoreKem, StoreLast, StoreSigned, Prune
  <2> QED
    BY <2>1, <2>2, <2>3
<1>4. ASSUME NEW k \in Kex, Cite(k) PROVE ec' = ec
  BY <1>4, CiteDoes
<1>5. ASSUME NEW c \in Copies, Arrive(c) PROVE ec' = ec
  BY <1>5, ArriveDoes
<1>6. ASSUME NEW c \in Copies, Commit(c)
      PROVE  r \in ec' \/ (r.key \in spent' /\ \E i : Consumes(r.id, i))
  <2>1. r.id = cites[c[1]].ec.id => r.key \in Displaced(ec, {cites[c[1]].ec.id})
    BY DEF Displaced
  <2>2. CASE UNCHANGED ec
    BY <2>2
  <2>3. CASE ec' # ec
    <3>1. /\ ec' = {q \in ec : q.id # cites[c[1]].ec.id} /\ Displaced(ec, {cites[c[1]].ec.id}) \subseteq spent'
          /\ opened' = opened \cup {c} /\ pc[c] = "commit"
      BY <1>6, <2>3, CommitDoes
    <3>2. c \notin opened
      BY <3>1 DEF IInv, CopiesSound
    <3> QED
      BY <1>6, <2>1, <3>1, <3>2 DEF Consumes
  <2> QED
    BY <2>2, <2>3
<1> QED
  BY <1>1, <1>2, <1>3, <1>4, <1>5, <1>6 DEF Next

LEMMA SpkStays ==
  ASSUME IInv, [Next]_vars, NEW r \in spk
  PROVE  r \in spk' \/ r.key \in overwritten'
<1>1. CASE \A t \in Tasks : ~Generate(t) /\ ~StoreSigned(t)
  BY <1>1, SpkGrows
<1>2. ASSUME NEW t \in Tasks, StoreSigned(t) PROVE r \in spk' \/ r.key \in overwritten'
  <2>1. r.id = next[t] => r.key \in Displaced(spk, {next[t]})
    BY DEF Displaced
  <2> QED
    BY <1>2, <2>1 DEF StoreSigned, Put
<1>3. ASSUME NEW t \in Tasks, Generate(t) PROVE r \in spk' \/ r.key \in overwritten'
  <2>1. r.id = 1 => r.key \in Displaced(spk, {1})
    BY DEF Displaced
  <2>2. NewSigned.id = 1
    BY DEF NewSigned
  <2> QED
    BY <1>3, <2>1, <2>2, GenerateDoes DEF Put
<1> QED
  BY <1>1, <1>2, <1>3

\* A KEM prekey stays, but for being used, unless it is overwritten, a Round-3 key or stale.
LEMMA KemStays ==
  ASSUME IInv, [Next]_vars, NEW r \in kem
  PROVE  \/ \E q \in kem' : /\ Same(q, r)
                            /\ q.used => r.used \/ (r.key \in spent' /\ ~r.last /\ \E i : Consumes(i, r.id))
         \/ r.key \in overwritten'
         \/ r.round3
         \/ (\E t \in Tasks : Prune(t)) /\ Stale(r)
<1> DEFINE Stays == \E q \in kem' :
                      /\ Same(q, r)
                      /\ q.used => r.used \/ (r.key \in spent' /\ ~r.last /\ \E i : Consumes(i, r.id))
<1>0. kem \subseteq KemKey
  BY DEF IInv, TypeOK
<1>1. r \in kem' => Stays
  BY DEF Same
<1> HIDE DEF Stays
<1>2. ASSUME Tick \/ UNCHANGED vars PROVE Stays
  <2>1. kem' = kem
    BY <1>2, TickDoes DEF vars
  <2> QED
    BY <1>1, <2>1
<1>3. ASSUME NEW b \in Boots, StartPass(b) PROVE Stays
  BY <1>1, <1>3, StartDoes
<1>4. ASSUME NEW t \in Tasks, Pass(t)
      PROVE  Stays \/ r.key \in overwritten' \/ r.round3 \/ (Prune(t) /\ Stale(r))
  <2>1. CASE StoreKem(t) \/ StoreLast(t)
    <3>1. r.id = next[t] => r.key \in Displaced(kem, {next[t]})
      BY DEF Displaced
    <3>2. \E row : /\ kem' = Put(kem, row) /\ row.id = next[t]
                   /\ overwritten' = overwritten \cup Displaced(kem, {next[t]})
      BY <2>1 DEF StoreKem, StoreLast, Written, FreshKem
    <3> QED
      BY <1>1, <3>1, <3>2 DEF Put
  <2>2. CASE Generate(t)
    <3>1. r.id \in 1..Target + 1 => r.key \in Displaced(kem, 1..Target + 1)
      BY DEF Displaced
    <3>2. ASSUME NEW n \in NewKem, n.id = r.id PROVE r.id \in 1..Target + 1
      BY <3>2 DEF NewKem, FreshKem
    <3> QED
      BY <1>1, <2>2, <3>1, <3>2, GenerateDoes
  <2>3. CASE Purge(t)
    BY <1>1, <2>3 DEF Purge
  <2>4. CASE Prune(t)
    BY <1>1, <2>4 DEF Prune
  <2>5. CASE ~StoreKem(t) /\ ~StoreLast(t) /\ ~Generate(t) /\ ~Purge(t) /\ ~Prune(t)
    <3>1. kem' = kem
      BY <1>4, <2>5, LookTyped, ListDoes, PublishDoes DEF Pass, store, StoreEc, StoreSigned
    <3> QED
      BY <1>1, <3>1
  <2> QED
    BY <2>1, <2>2, <2>3, <2>4, <2>5
<1>5. ASSUME NEW k \in Kex, Cite(k) PROVE Stays
  BY <1>1, <1>5, CiteDoes
<1>6. ASSUME NEW c \in Copies, Arrive(c) PROVE Stays
  BY <1>1, <1>6, ArriveDoes
<1>7. ASSUME NEW c \in Copies, Commit(c) PROVE Stays
  <2>1. CASE kem' = kem
    BY <1>1, <2>1
  <2>2. CASE kem' # kem
    <3>1. /\ Marked(r, c[1]) \in kem' /\ Displaced(Available, {cites[c[1]].kem.id}) \subseteq spent'
          /\ opened' = opened \cup {c} /\ pc[c] = "commit"
      BY <1>7, <2>2, CommitDoes
    <3>2. Same(Marked(r, c[1]), r)
      BY <1>0, MarkedIs DEF Same
    <3>3. ~r.used /\ ~r.last /\ r.id = cites[c[1]].kem.id => r.key \in Displaced(Available, {cites[c[1]].kem.id})
      BY DEF Displaced, Available
    <3>4. c \notin opened
      BY <3>1 DEF IInv, CopiesSound
    <3>5. r.id = cites[c[1]].kem.id => \E i : Consumes(i, r.id)
      BY <1>7, <3>1, <3>4 DEF Consumes
    <3>6. Marked(r, c[1]).used => r.used \/ (r.key \in spent' /\ ~r.last /\ \E i : Consumes(i, r.id))
      BY <1>0, <3>1, <3>3, <3>5, MarkedIs
    <3> QED
      BY <3>1, <3>2, <3>6 DEF Stays
  <2> QED
    BY <2>1, <2>2
<1>8. Stays \/ r.key \in overwritten' \/ r.round3 \/ ((\E t \in Tasks : Prune(t)) /\ Stale(r))
  <2>1. CASE \E t \in Tasks : Pass(t)
    BY <1>4, <2>1
  <2>2. CASE ~\E t \in Tasks : Pass(t)
    <3>1. Stays
      BY <1>2, <1>3, <1>5, <1>6, <1>7, <2>2 DEF Next
    <3> QED
      BY <3>1
  <2> QED
    BY <2>1, <2>2
<1> QED
  BY <1>8 DEF Stays

\* What is kept stays kept.
LEMMA EcKeptStays ==
  ASSUME IInv, [Next]_vars, NEW x, EcKept(x)
  PROVE  EcKept(x)'
<1>1. CASE x.key \in spent \cup overwritten
  BY <1>1, OnlyGrows DEF EcKept
<1>2. ASSUME NEW r \in ec, Public(r) = x PROVE EcKept(x)'
  <2>1. r.key = x.key
    BY <1>2 DEF Public
  <2> QED
    BY <1>2, <2>1, EcStays DEF EcKept, Holds
<1> QED
  BY <1>1, <1>2 DEF EcKept, Holds

LEMMA SignedKeptStays ==
  ASSUME IInv, [Next]_vars, NEW x, SignedKept(x)
  PROVE  SignedKept(x)'
<1>1. CASE x.key \in overwritten
  BY <1>1, OnlyGrows DEF SignedKept
<1>2. ASSUME NEW r \in spk, Public(r) = x PROVE SignedKept(x)'
  <2>1. r.key = x.key
    BY <1>2 DEF Public
  <2> QED
    BY <1>2, <2>1, SpkStays DEF SignedKept, Holds
<1> QED
  BY <1>1, <1>2 DEF SignedKept, Holds

LEMMA OneKeptStays ==
  ASSUME IInv, [Next]_vars, \A r \in kem : ~r.round3, NEW x, OneKept(x)
  PROVE  OneKept(x)'
<1>1. CASE x.key \in spent \cup overwritten
  BY <1>1, OnlyGrows DEF OneKept
<1>2. ASSUME NEW r \in Available, Public(r) = x PROVE OneKept(x)'
  <2>1. r.key = x.key /\ r \in kem /\ ~r.used /\ ~r.last
    BY <1>2 DEF Public, Available
  <2>2. CASE r.key \in overwritten'
    BY <2>1, <2>2 DEF OneKept
  <2>3. ASSUME NEW q \in kem', Same(q, r), q.used => r.key \in spent' PROVE OneKept(x)'
    <3>1. Public(q) = x /\ ~q.last
      BY <1>2, <2>1, <2>3 DEF Same, Public
    <3> QED
      BY <2>1, <2>3, <3>1 DEF OneKept, Holds, Available
  <2> QED
    BY <2>1, <2>2, <2>3, KemStays DEF Stale
<1> QED
  BY <1>1, <1>2 DEF OneKept, Holds

LEMMA OlderStill ==
  ASSUME NEW now \in Nat, NEW then \in Nat, NEW from \in Nat, NEW age \in Nat, now <= then, now - from > age
  PROVE  then - from > age
OBVIOUS

LEMMA LastKeptStays ==
  ASSUME IInv, [Next]_vars, \A r \in kem : ~r.round3, NEW x, NEW born \in Nat, LastKept(x, born)
  PROVE  LastKept(x, born)'
<1>0. overwritten \subseteq overwritten'
  BY OnlyGrows
<1>3. clock - born > KeepAge => clock' - born > KeepAge
  <2>1. clock \in Nat /\ clock' \in Nat /\ clock <= clock' /\ KeepAge \in Nat
    BY OnlyGrows, PrekeysAssumption
  <2> QED
    BY <2>1, OlderStill
<1>1. CASE x.key \in overwritten \/ clock - born > KeepAge
  BY <1>0, <1>1, <1>3 DEF LastKept
<1>2. ASSUME NEW r \in LastResorts, Public(r) = x, r.born = born PROVE LastKept(x, born)'
  <2>1. r.key = x.key /\ r \in kem /\ r.last
    BY <1>2 DEF Public, LastResorts
  <2>2. CASE r.key \in overwritten'
    BY <2>1, <2>2 DEF LastKept
  <2>3. ASSUME NEW q \in kem', Same(q, r) PROVE LastKept(x, born)'
    <3>1. Public(q) = x /\ q.last /\ q.born = born
      BY <1>2, <2>1, <2>3 DEF Same, Public
    <3> QED
      BY <3>1 DEF LastKept, LastResorts
  <2>4. CASE Stale(r)
    <3>1. clock - born > KeepAge
      BY <1>2, <2>4 DEF Stale
    <3> QED
      BY <1>3, <3>1 DEF LastKept
  <2> QED
    BY <2>1, <2>2, <2>3, <2>4, KemStays
<1> QED
  BY <1>1, <1>2 DEF LastKept

LEMMA BundleKeptStays ==
  ASSUME IInv, [Next]_vars, \A r \in kem : ~r.round3, NEW b \in Bundle, BundleKept(b)
  PROVE  BundleKept(b)'
BY EcKeptStays, OneKeptStays, LastKeptStays, SignedKeptStays DEF BundleKept, Bundle

\* What a citation needs.
CiteKept(c) ==
  /\ EcKept(c.ec) /\ SignedKept(c.signed)
  /\ IF c.last THEN LastKept(c.kem, c.born) ELSE OneKept(c.kem)

LEMMA NewIsKept ==
  ASSUME IInv, NEW t \in Tasks, Generate(t), NEW b, b = NewBundle
  PROVE  BundleKept(b)'
<1>0. made \in Nat /\ clock \in Nat /\ clock' = clock
  BY GenerateDoes, PrekeysAssumption DEF IInv, TypeOK
<1>1. NewEc \subseteq ec' /\ NewKem \subseteq kem' /\ NewSigned \in spk'
  BY GenerateDoes DEF Put
<1>2. /\ b.ec = NewEc /\ b.kem = {Public(r) : r \in {n \in NewKem : ~n.last}}
      /\ b.last = [id |-> 1, key |-> made + Target + 2] /\ b.signed = Public(NewSigned) /\ b.born = clock
  BY DEF NewBundle
<1>3. \A x \in b.ec : Holds(ec', x)
  <2>1. \A x \in NewEc : Public(x) = x
    BY DEF NewEc, Public
  <2> QED
    BY <1>1, <1>2, <2>1 DEF Holds
<1>4. \A x \in b.kem : Holds(Available', x)
  BY <1>0, <1>1, <1>2, NewTyped DEF Holds, Available
<1>5. \E r \in LastResorts' : Public(r) = b.last /\ r.born = b.born
  <2> DEFINE new == FreshKem(1, made + Target + 2, TRUE)
  <2>1. new \in kem'
    BY <1>0, <1>1, NewTyped
  <2>2. new.last /\ new.born = b.born /\ Public(new) = b.last
    BY <1>2 DEF FreshKem, Public
  <2> HIDE DEF new
  <2> QED
    BY <2>1, <2>2 DEF LastResorts
<1>6. Holds(spk', b.signed)
  BY <1>1, <1>2 DEF Holds
<1>7. /\ \A x \in b.ec : Holds(ec', x) \/ x.key \in (spent' \cup overwritten')
      /\ \A x \in b.kem : Holds(Available', x) \/ x.key \in (spent' \cup overwritten')
      /\ \/ \E r \in LastResorts' : Public(r) = b.last /\ r.born = b.born
         \/ b.last.key \in overwritten'
         \/ clock' - b.born > KeepAge
      /\ Holds(spk', b.signed) \/ b.signed.key \in overwritten'
  BY <1>3, <1>4, <1>5, <1>6
<1> QED
  BY <1>7 DEF BundleKept, EcKept, OneKept, LastKept, SignedKept, Holds, Available, LastResorts

LEMMA ListedIsKept ==
  ASSUME IInv, NEW t \in Tasks, List(t), LastResorts # {}, NEW b, b = Listed(t)
  PROVE  BundleKept(b)'
<1>0. UNCHANGED <<clock, ec, kem, spk, spent, overwritten>>
  BY ListDoes
<1>1. Newest(LastResorts) \in LastResorts /\ SignedRow(t) \in spk
  BY ListDoes
<1>2. /\ b.ec = ec /\ b.kem = {Public(r) : r \in Available}
      /\ b.last = Public(Newest(LastResorts)) /\ b.signed = Public(SignedRow(t))
      /\ b.born = Newest(LastResorts).born
  BY DEF Listed
<1>3. \A x \in b.ec : Public(x) = x
  BY <1>2 DEF Public, IInv, TypeOK, EcKey
<1>4. /\ \A x \in b.ec : EcKept(x)
      /\ \A x \in b.kem : OneKept(x)
      /\ LastKept(b.last, b.born) /\ SignedKept(b.signed)
  BY <1>1, <1>2, <1>3 DEF EcKept, OneKept, LastKept, SignedKept, Holds
<1> QED
  BY <1>0, <1>4 DEF BundleKept, EcKept, OneKept, LastKept, SignedKept, Holds, Available, LastResorts

LEMMA KeptPreserved ==
  ASSUME IInv, TypeOK', PassSound', [Next]_vars
  PROVE  Kept'
<1>0. /\ published \in Bundle /\ draft \in [Tasks -> Bundle] /\ published' \in Bundle
      /\ \A k \in Kex : cites[k].born \in Nat
      /\ Citable(published) => BundleKept(published)
      /\ \A t \in Tasks : Citable(draft[t]) => BundleKept(draft[t])
      /\ \A k \in Kex : cites[k] # NoCite => CiteKept(cites[k])
  BY DEF IInv, TypeOK, Kept, CiteKept
<1>1. \/ Citable(published) \/ (\E t \in Tasks : Citable(draft[t])) \/ (\E k \in Kex : cites[k] # NoCite)
      => \A r \in kem : ~r.round3
  BY DEF IInv, PassSound
<1>2. ASSUME NEW b \in Bundle, b = published \/ (\E t \in Tasks : b = draft[t]), Citable(b)
      PROVE  BundleKept(b)'
  BY <1>0, <1>1, <1>2, BundleKeptStays
<1>3. ASSUME NEW k \in Kex, NEW c, c = cites[k], c # NoCite PROVE CiteKept(c)'
  <2>1. CiteKept(c) /\ c.born \in Nat /\ \A r \in kem : ~r.round3
    BY <1>0, <1>1, <1>3
  <2>2. EcKept(c.ec)' /\ SignedKept(c.signed)'
    BY <2>1, EcKeptStays, SignedKeptStays DEF CiteKept
  <2>3. CASE c.last
    BY <2>1, <2>2, <2>3, LastKeptStays DEF CiteKept
  <2>4. CASE ~c.last
    BY <2>1, <2>2, <2>4, OneKeptStays DEF CiteKept
  <2> QED
    BY <2>3, <2>4
<1>4. ASSUME NEW k \in Kex, Cite(k), NEW c, c = cites'[k] PROVE CiteKept(c)'
  <2>1. /\ Citable(published) /\ c.ec \in published.ec
        /\ c.last => c.kem = published.last
        /\ ~c.last => c.kem \in published.kem
        /\ c.signed = published.signed /\ c.born = published.born
    BY <1>4, CiteDoes
  <2>2. BundleKept(published) /\ published.born \in Nat /\ \A r \in kem : ~r.round3
    BY <1>0, <1>1, <2>1 DEF Bundle
  <2>3. EcKept(c.ec)' /\ SignedKept(c.signed)'
    BY <2>1, <2>2, EcKeptStays, SignedKeptStays DEF BundleKept
  <2>4. CASE c.last
    BY <2>1, <2>2, <2>3, <2>4, LastKeptStays DEF CiteKept, BundleKept
  <2>5. CASE ~c.last
    BY <2>1, <2>2, <2>3, <2>5, OneKeptStays DEF CiteKept, BundleKept
  <2> QED
    BY <2>4, <2>5
<1>5. \A k \in Kex : cites'[k] # NoCite => CiteKept(cites[k])'
  <2> SUFFICES ASSUME NEW k \in Kex, NEW c, c = cites'[k], c # NoCite PROVE CiteKept(c)'
    BY DEF CiteKept, EcKept, OneKept, LastKept, SignedKept, Holds
  <2>1. CASE cites'[k] = cites[k]
    BY <1>3, <2>1
  <2>2. CASE Cite(k)
    BY <1>4, <2>2
  <2> QED
    BY <2>1, <2>2, CitesStay
<1>6. ~Citable(NoBundle)
  BY DEF Citable, NoBundle
<1>7. ASSUME NEW b, b = published', Citable(b) PROVE BundleKept(b)'
  <2>1. CASE \A t \in Tasks : ~Publish(t)
    <3>1. published' = published
      BY <2>1, WaitingChanges
    <3> QED
      BY <1>0, <1>2, <1>7, <3>1
  <2>2. ASSUME NEW t \in Tasks, Publish(t) PROVE BundleKept(b)'
    <3>1. published' = published \/ published' = draft[t]
      BY <2>2, PublishDoes
    <3> QED
      BY <1>0, <1>2, <1>7, <3>1
  <2> QED
    BY <2>1, <2>2
<1>8. ASSUME NEW t \in Tasks, NEW b, b = draft'[t], Citable(b) PROVE BundleKept(b)'
  <2>1. CASE b = draft[t]
    BY <1>0, <1>2, <1>8, <2>1
  <2>2. CASE Generate(t)
    BY <1>8, <2>2, NewIsKept, GenerateDoes
  <2>3. CASE List(t) /\ b # draft[t]
    BY <1>8, <2>3, ListedIsKept, ListDoes
  <2>4. CASE b = NoBundle
    BY <1>6, <1>8, <2>4
  <2>5. b = draft[t] \/ Generate(t) \/ (List(t) /\ b # draft[t]) \/ b = NoBundle
    <3>1. ASSUME NEW u \in Tasks, Publish(u) PROVE b = draft[t] \/ b = NoBundle
      BY <1>8, <3>1, PublishDoes
    <3>2. ASSUME NEW u \in Tasks, Generate(u) \/ List(u)
          PROVE  b = draft[t] \/ Generate(t) \/ (List(t) /\ b # draft[t])
      BY <1>8, <3>2, GenerateDoes, ListDoes
    <3>3. CASE draft' = draft
      BY <1>8, <3>3
    <3> QED
      BY <3>1, <3>2, <3>3, WaitingChanges
  <2> QED
    BY <2>1, <2>2, <2>3, <2>4, <2>5
<1>9. /\ Citable(published') => BundleKept(published)'
      /\ \A t \in Tasks : Citable(draft'[t]) => BundleKept(draft[t])'
  <2>1. ASSUME Citable(published') PROVE BundleKept(published)'
    <3> SUFFICES ASSUME NEW b, b = published' PROVE BundleKept(b)'
      BY DEF BundleKept, EcKept, OneKept, LastKept, SignedKept, Holds
    <3> QED
      BY <1>7, <2>1
  <2>2. ASSUME NEW t \in Tasks, Citable(draft'[t]) PROVE BundleKept(draft[t])'
    <3> SUFFICES ASSUME NEW b, b = draft'[t] PROVE BundleKept(b)'
      BY DEF BundleKept, EcKept, OneKept, LastKept, SignedKept, Holds
    <3> QED
      BY <1>8, <2>2
  <2> QED
    BY <2>1, <2>2
<1> QED
  BY <1>5, <1>9 DEF Kept, CiteKept, Citable

-----------------------------------------------------------------------------
(* A pass that is alone.                                                     *)

\* The ids that a pass is about to give are free.
Free(t) ==
  /\ pc[t] = "generate" => ec = {} /\ kem = {} /\ spk = {}
  /\ pc[t] = "storeEc" => \A r \in ec : r.id < next[t]
  /\ pc[t] \in {"storeKem", "storeLast"} => \A r \in kem : r.id < next[t]
  /\ pc[t] = "storeSigned" => \A r \in spk : r.id < next[t]

LEMMA FreePreserved ==
  ASSUME IInv, TypeOK', NEW t \in Tasks, Pass(t), Free(t)
  PROVE  Free(t)'
<1>0. /\ pc \in [Tasks -> Steps] /\ next \in [Tasks -> Nat] /\ todo \in [Tasks -> Nat]
      /\ ec \subseteq EcKey /\ kem \subseteq KemKey /\ spk \subseteq SignedKey
  BY DEF IInv, TypeOK
<1> USE DEF Free
<1>1. CASE Check(t)
  <2>1. /\ pc' = [pc EXCEPT ![t] = IF \E r \in spk : r.id = 1 THEN "purge" ELSE "generate"]
        /\ UNCHANGED <<ec, kem, spk>>
    BY <1>1 DEF Check, Step, store
  <2>2. CASE \E r \in spk : r.id = 1
    BY <1>0, <2>1, <2>2
  <2>3. CASE ~\E r \in spk : r.id = 1
    BY <1>0, <2>1, <2>3 DEF IInv, PassSound, Blank
  <2> QED
    BY <2>2, <2>3
<1>2. CASE CountEc(t)
  <2>1. HighestId(ec) \in Nat /\ \A r \in ec : r.id \in Nat /\ r.id <= HighestId(ec)
    BY <1>0, TablesTyped DEF IInv, EcKey
  <2>2. UNCHANGED <<ec, kem, spk>> /\ \/ pc'[t] = "storeEc" /\ next'[t] = HighestId(ec) + 1
                                      \/ pc'[t] = "countKem"
    BY <1>0, <1>2 DEF CountEc, Count, Step, store
  <2>3. \A r \in ec : r.id < HighestId(ec) + 1
    BY <2>1
  <2> QED
    BY <2>2, <2>3
<1>3. CASE CountKem(t)
  <2>1. HighestId(kem) \in Nat /\ \A r \in kem : r.id \in Nat /\ r.id <= HighestId(kem)
    BY <1>0, TablesTyped DEF IInv, KemKey
  <2>2. UNCHANGED <<ec, kem, spk>> /\ \/ pc'[t] = "storeKem" /\ next'[t] = HighestId(kem) + 1
                                      \/ pc'[t] = "rotate"
    BY <1>0, <1>3 DEF CountKem, Count, Step, store
  <2>3. \A r \in kem : r.id < HighestId(kem) + 1
    BY <2>1
  <2> QED
    BY <2>2, <2>3
<1>4. CASE Rotate(t)
  <2>1. HighestId(kem) \in Nat /\ \A r \in kem : r.id \in Nat /\ r.id <= HighestId(kem)
    BY <1>0, TablesTyped DEF IInv, KemKey
  <2>2. UNCHANGED <<ec, kem, spk>> /\ \/ pc'[t] = "storeLast" /\ next'[t] = HighestId(kem) + 1
                                      \/ pc'[t] = "signed"
    BY <1>0, <1>4 DEF Rotate, Step, store
  <2>3. \A r \in kem : r.id < HighestId(kem) + 1
    BY <2>1
  <2> QED
    BY <2>2, <2>3
<1>5. CASE Signed(t)
  <2>1. spk # {}
    BY <1>5 DEF IInv, PassSound, Signed, PassSteps
  <2>2. Newest(spk).id \in Nat /\ \A r \in spk : r.id \in Nat /\ r.id <= Newest(spk).id
    BY <1>0, <2>1, TablesTyped DEF IInv, SignedKey
  <2> DEFINE due == clock - Newest(spk).born > RotateAge
  <2>3. /\ UNCHANGED <<ec, kem, spk>>
        /\ next' = [next EXCEPT ![t] = IF due THEN Newest(spk).id + 1 ELSE Newest(spk).id]
        /\ pc' = [pc EXCEPT ![t] = IF due THEN "storeSigned" ELSE "prune"]
    BY <1>5 DEF Signed, Step, store
  <2> HIDE DEF due
  <2>4. \A r \in spk : r.id < Newest(spk).id + 1
    BY <2>2
  <2>5. CASE due
    <3>1. next'[t] = Newest(spk).id + 1 /\ pc'[t] = "storeSigned"
      BY <1>0, <2>3, <2>5
    <3> QED
      BY <2>3, <2>4, <3>1
  <2>6. CASE ~due
    <3>1. pc'[t] = "prune"
      BY <1>0, <2>3, <2>6
    <3> QED
      BY <3>1
  <2> QED
    BY <2>5, <2>6
<1>6. CASE StoreEc(t)
  <2>1. \A r \in ec : r.id \in Nat /\ r.id < next[t]
    BY <1>0, <1>6 DEF StoreEc, Written, EcKey
  <2>2. /\ pc'[t] \in {"storeEc", "countKem"} /\ next'[t] = next[t] + 1
        /\ \A r \in ec' : r \in ec \/ r.id = next[t]
    BY <1>0, <1>6 DEF StoreEc, Written, Step, Put
  <2>3. next[t] \in Nat
    BY <1>0
  <2>4. \A r \in ec' : r.id < next'[t]
    BY <2>1, <2>2, <2>3
  <2> QED
    BY <2>2, <2>4
<1>7. CASE StoreKem(t)
  <2>1. \A r \in kem : r.id \in Nat /\ r.id < next[t]
    BY <1>0, <1>7 DEF StoreKem, Written, KemKey
  <2>2. /\ pc'[t] \in {"storeKem", "rotate"} /\ next'[t] = next[t] + 1
        /\ \A r \in kem' : r \in kem \/ r.id = next[t]
    BY <1>0, <1>7 DEF StoreKem, Written, Step, Put, FreshKem
  <2>3. next[t] \in Nat
    BY <1>0
  <2>4. \A r \in kem' : r.id < next'[t]
    BY <2>1, <2>2, <2>3
  <2> QED
    BY <2>2, <2>4
<1>8. CASE Purge(t) \/ StoreLast(t) \/ StoreSigned(t) \/ Prune(t) \/ Generate(t) \/ List(t) \/ Publish(t)
  <2>1. pc'[t] \in {"countEc", "signed", "prune", "list", "publish", "done"}
    <3>1. CASE Generate(t) \/ List(t) \/ Publish(t)
      BY <3>1, GenerateDoes, ListDoes, PublishDoes
    <3>2. CASE Purge(t) \/ StoreLast(t) \/ StoreSigned(t) \/ Prune(t)
      BY <1>0, <3>2 DEF Purge, StoreLast, StoreSigned, Prune, Step
    <3> QED
      BY <1>8, <3>1, <3>2
  <2> QED
    BY <2>1
<1> QED
  BY <1>1, <1>2, <1>3, <1>4, <1>5, <1>6, <1>7, <1>8 DEF Pass

LEMMA NothingOverwritten ==
  ASSUME IInv, NEW t \in Tasks, Pass(t), Free(t)
  PROVE  overwritten' = overwritten
<1>0. ec \subseteq EcKey /\ kem \subseteq KemKey /\ spk \subseteq SignedKey /\ next[t] \in Nat
  BY DEF IInv, TypeOK
<1>1. ASSUME NEW table \in {ec, kem, spk}, \A r \in table : r.id < next[t]
      PROVE  Displaced(table, {next[t]}) = {}
  <2>1. \A r \in table : r.id \in Nat
    BY <1>0 DEF EcKey, KemKey, SignedKey
  <2>2. \A r \in table : r.id # next[t]
    BY <1>0, <1>1, <2>1
  <2> QED
    BY <2>2 DEF Displaced
<1>2. CASE StoreEc(t)
  BY <1>1, <1>2 DEF StoreEc, Written, Free
<1>3. CASE StoreKem(t)
  BY <1>1, <1>3 DEF StoreKem, Written, Free
<1>4. CASE StoreLast(t)
  BY <1>1, <1>4 DEF StoreLast, Free
<1>5. CASE StoreSigned(t)
  BY <1>1, <1>5 DEF StoreSigned, Free
<1>6. CASE Generate(t)
  <2>1. ec = {} /\ kem = {} /\ spk = {}
    BY <1>6, GenerateDoes DEF Free
  <2>2. \A ids : Displaced(ec, ids) = {} /\ Displaced(kem, ids) = {} /\ Displaced(spk, ids) = {}
    BY <2>1 DEF Displaced
  <2> QED
    BY <1>6, <2>2, GenerateDoes
<1>7. CASE ~StoreEc(t) /\ ~StoreKem(t) /\ ~StoreLast(t) /\ ~StoreSigned(t) /\ ~Generate(t)
  BY <1>7, LookTyped, ListDoes, PublishDoes DEF Pass, history, Purge, Prune
<1> QED
  BY <1>2, <1>3, <1>4, <1>5, <1>6, <1>7

LEMMA AlonePreserved ==
  ASSUME IInv, TypeOK', [Next]_vars
  PROVE  Alone'
<1> SUFFICES ASSUME ~crowded'
             PROVE  /\ overwritten' = {}
                    /\ \A t, u \in Tasks : Passing(t)' /\ Passing(u)' => t = u
                    /\ \A t \in Tasks : Free(t)'
  BY DEF Alone, Free
<1>0. /\ ~crowded /\ overwritten = {} /\ \A t, u \in Tasks : Passing(t) /\ Passing(u) => t = u
      /\ \A t \in Tasks : Free(t)
  BY OnlyGrows DEF IInv, Alone, Free
<1> USE DEF Passing
<1>1. ASSUME UNCHANGED <<overwritten, ec, kem, spk, next>>,
             \A t \in Tasks : pc'[t] \in PassSteps => pc'[t] = pc[t]
      PROVE  /\ overwritten' = {}
             /\ \A t, u \in Tasks : Passing(t)' /\ Passing(u)' => t = u
             /\ \A t \in Tasks : Free(t)'
  <2>1. ASSUME NEW t \in Tasks, pc'[t] \in PassSteps PROVE Free(t)'
    BY <1>0, <1>1, <2>1 DEF Free
  <2>2. ASSUME NEW t \in Tasks, pc'[t] \notin PassSteps PROVE Free(t)'
    BY <2>2 DEF Free, PassSteps
  <2>3. overwritten' = {} /\ \A t, u \in Tasks : Passing(t)' /\ Passing(u)' => t = u
    BY <1>0, <1>1
  <2> QED
    BY <2>1, <2>2, <2>3
<1>2. ASSUME NEW t \in Tasks, \A u \in Tasks : ~Passing(u), \A u \in Tasks \ {t} : pc'[u] = pc[u],
             pc'[t] = "check", overwritten' = overwritten
      PROVE  /\ overwritten' = {}
             /\ \A v, u \in Tasks : Passing(v)' /\ Passing(u)' => v = u
             /\ \A u \in Tasks : Free(u)'
  <2>1. \A u \in Tasks : pc'[u] \notin PassSteps \/ u = t
    BY <1>2
  <2>2. \A u \in Tasks : Free(u)'
    BY <1>2, <2>1 DEF Free, PassSteps
  <2> QED
    BY <1>0, <1>2, <2>1, <2>2
<1>3. CASE Tick \/ UNCHANGED vars
  BY <1>1, <1>3, TickDoes DEF vars
<1>4. ASSUME NEW b \in Boots, StartPass(b)
      PROVE  /\ overwritten' = {}
             /\ \A t, u \in Tasks : Passing(t)' /\ Passing(u)' => t = u
             /\ \A t \in Tasks : Free(t)'
  <2>1. /\ b \in Tasks /\ (\A u \in Tasks : ~Passing(u)) /\ overwritten' = overwritten
        /\ pc'[b] = "check" /\ \A u \in Tasks \ {b} : pc'[u] = pc[u]
    BY <1>4, StartDoes
  <2> QED
    BY <1>2, <2>1
<1>5. ASSUME NEW k \in Kex, Cite(k)
      PROVE  UNCHANGED <<overwritten, ec, kem, spk, next, pc>>
  BY <1>5, CiteDoes
<1>6. ASSUME NEW c \in Copies, Arrive(c)
      PROVE  /\ UNCHANGED <<overwritten, ec, kem, spk, next>>
             /\ \A t \in Tasks : pc'[t] \in PassSteps => pc'[t] = pc[t]
  BY <1>6, ArriveDoes DEF PassSteps
<1>7. ASSUME NEW c \in Copies, Commit(c)
      PROVE  /\ overwritten' = {}
             /\ \A t, u \in Tasks : Passing(t)' /\ Passing(u)' => t = u
             /\ \A t \in Tasks : Free(t)'
  <2>1. CASE pc'[c] = "check"
    <3>1. /\ c \in Tasks /\ overwritten' = overwritten /\ \A u \in Tasks \ {c} : pc'[u] = pc[u]
          /\ \A u \in Tasks : ~Passing(u)
      BY <1>7, <2>1, CommitDoes
    <3> QED
      BY <1>2, <2>1, <3>1
  <2>2. CASE pc'[c] # "check"
    <3>1. /\ UNCHANGED <<overwritten, ec, kem, spk, next>>
          /\ \A t \in Tasks : pc'[t] \in PassSteps => pc'[t] = pc[t]
      BY <1>7, <2>2, CommitDoes DEF PassSteps
    <3> QED
      BY <1>1, <3>1
  <2> QED
    BY <2>1, <2>2
<1>8. ASSUME NEW t \in Tasks, Pass(t)
      PROVE  /\ overwritten' = {}
             /\ \A v, u \in Tasks : Passing(v)' /\ Passing(u)' => v = u
             /\ \A u \in Tasks : Free(u)'
  <2>1. pc[t] \in PassSteps /\ \A u \in Tasks \ {t} : pc'[u] = pc[u]
    BY <1>8, LookTyped, WriteTyped, GenerateDoes, ListDoes, PublishDoes DEF Pass, Unlisted, PassSteps
  <2>2. \A u \in Tasks \ {t} : pc'[u] \notin PassSteps
    BY <1>0, <2>1
  <2>3. \A u \in Tasks \ {t} : Free(u)'
    BY <2>2 DEF Free, PassSteps
  <2>4. Free(t)' /\ overwritten' = overwritten
    BY <1>0, <1>8, FreePreserved, NothingOverwritten
  <2> QED
    BY <1>0, <2>2, <2>3, <2>4
<1> QED
  BY <1>1, <1>3, <1>4, <1>5, <1>6, <1>7, <1>8 DEF Next

-----------------------------------------------------------------------------
(* The ids of last-resort keys.                                              *)

\* How a pass gets to write one-time KEM prekeys.
LEMMA ReplenishStep ==
  ASSUME IInv, TypeOK', [Next]_vars, NEW t \in Tasks, pc'[t] = "storeKem"
  PROVE  \/ pc[t] = "storeKem" /\ next'[t] >= next[t] /\ clock' = clock
         \/ CountKem(t) /\ next'[t] = HighestId(kem) + 1 /\ clock' = clock /\ kem' = kem
<1>0. pc \in [Tasks -> Steps] /\ next \in [Tasks -> Nat] /\ next[t] \in Nat
  BY DEF IInv, TypeOK
<1>1. CASE Tick \/ UNCHANGED vars
  BY <1>0, <1>1, TickDoes DEF vars, Quiet
<1>2. ASSUME NEW b \in Boots, StartPass(b)
      PROVE  pc[t] = "storeKem" /\ next'[t] = next[t] /\ clock' = clock
  BY <1>2, StartDoes
<1>3. ASSUME NEW k \in Kex, Cite(k)
      PROVE  pc[t] = "storeKem" /\ next'[t] = next[t] /\ clock' = clock
  BY <1>3, CiteDoes
<1>4. ASSUME NEW c \in Copies, Arrive(c) \/ Commit(c)
      PROVE  pc[t] = "storeKem" /\ next'[t] = next[t] /\ clock' = clock
  BY <1>4, ArriveDoes, CommitDoes
<1>5. ASSUME NEW u \in Tasks, Pass(u), u # t
      PROVE  pc[t] = "storeKem" /\ next'[t] = next[t] /\ clock' = clock
  BY <1>5, LookTyped, WriteTyped, GenerateDoes, ListDoes, PublishDoes DEF Pass
<1>6. ASSUME Pass(t)
      PROVE  \/ pc[t] = "storeKem" /\ next'[t] >= next[t] /\ clock' = clock
             \/ CountKem(t) /\ next'[t] = HighestId(kem) + 1 /\ clock' = clock /\ kem' = kem
  <2>1. CASE CountKem(t)
    BY <1>0, <2>1 DEF CountKem, Count, Step, store
  <2>2. CASE StoreKem(t)
    <3>1. pc[t] = "storeKem" /\ next'[t] = next[t] + 1 /\ clock' = clock
      BY <1>0, <2>2 DEF StoreKem, Written
    <3> QED
      BY <1>0, <3>1
  <2>3. CASE Generate(t) \/ List(t) \/ Publish(t)
    BY <2>3, GenerateDoes, ListDoes, PublishDoes
  <2>4. CASE Signed(t)
    <3> DEFINE due == clock - Newest(spk).born > RotateAge
    <3>1. pc' = [pc EXCEPT ![t] = IF due THEN "storeSigned" ELSE "prune"]
      BY <2>4 DEF Signed, Step
    <3> HIDE DEF due
    <3> QED
      BY <1>0, <3>1
  <2>5. CASE Rotate(t)
    <3>1. pc'[t] \in {"storeLast", "signed"}
      BY <1>0, <2>5 DEF Rotate, Step
    <3> QED
      BY <3>1
  <2>6. CASE Check(t) \/ CountEc(t) \/ Purge(t) \/ StoreEc(t) \/ StoreLast(t) \/ StoreSigned(t) \/ Prune(t)
    BY <1>0, <2>6 DEF Check, CountEc, Count, Purge, StoreEc, Written, StoreLast, StoreSigned, Prune, Step
  <2> QED
    BY <1>6, <2>1, <2>2, <2>3, <2>4, <2>5, <2>6 DEF Pass
<1>7. next[t] >= next[t]
  BY <1>0
<1> QED
  BY <1>1, <1>2, <1>3, <1>4, <1>5, <1>6, <1>7 DEF Next

\* What a pass writes above its next id is new.
LEMMA AheadPreserved ==
  ASSUME IInv, TypeOK', [Next]_vars, NEW t \in Tasks, NEW r \in kem', pc'[t] = "storeKem", r.id >= next'[t]
  PROVE  r.born = clock'
<1>0. /\ next[t] \in Nat /\ next'[t] \in Nat /\ kem \subseteq KemKey /\ kem' \subseteq KemKey
      /\ pc[t] = "storeKem" => \A q \in kem : q.id >= next[t] => q.born = clock
  BY DEF IInv, TypeOK, LastIdsKept
<1>1. clock' = clock
  BY ReplenishStep
<1>2. CASE r.born = clock
  BY <1>1, <1>2
<1>3. ASSUME NEW q \in kem, Same(r, q) PROVE r.born = clock'
  <2>1. r.id = q.id /\ r.born = q.born /\ q.id \in Nat
    BY <1>0, <1>3 DEF Same, KemKey
  <2>2. CASE pc[t] = "storeKem" /\ next'[t] >= next[t]
    BY <1>0, <1>1, <2>1, <2>2
  <2>3. CASE next'[t] = HighestId(kem) + 1
    <3>1. HighestId(kem) \in Nat /\ q.id <= HighestId(kem)
      BY TablesTyped DEF IInv
    <3> QED
      BY <2>1, <2>3, <3>1
  <2> QED
    BY <2>2, <2>3, ReplenishStep
<1> QED
  BY <1>2, <1>3, KemComes

\* What is asked of an id.
IdKept(i) ==
  /\ \E r \in LastResorts : r.id >= i
  /\ \A r \in kem : r.id = i => r.last
  /\ \A t \in Tasks : pc[t] = "storeKem" => i < next[t] \/ \E r \in kem : r.id = i

LEMMA LastIdModern ==
  ASSUME IInv, NEW i \in Nat, LastId(i)
  PROVE  (\A r \in kem : ~r.round3) /\ (\E r \in spk : r.id = 1)
<1>1. ~Citable(NoBundle) /\ ~NoCite.last
  BY DEF Citable, NoBundle, NoCite
<1>2. \A k \in Kex : cites[k].last => cites[k] # NoCite
  BY <1>1
<1>3. Citable(published) \/ (\E t \in Tasks : Citable(draft[t])) \/ (\E k \in Kex : cites[k] # NoCite)
  BY <1>2 DEF LastId
<1>4. \A r \in kem : ~r.round3
  BY <1>3 DEF IInv, PassSound
<1>5. ~Blank
  BY <1>1, <1>3 DEF Blank
<1> QED
  BY <1>4, <1>5 DEF IInv, PassSound

LEMMA IdKeptStays ==
  ASSUME IInv, TypeOK', [Next]_vars, overwritten' = {}, NEW i \in Nat, LastId(i)
  PROVE  IdKept(i)'
<1>0. /\ overwritten = {} /\ kem \subseteq KemKey /\ kem' \subseteq KemKey /\ made \in Nat
      /\ next \in [Tasks -> Nat] /\ next' \in [Tasks -> Nat]
      /\ clock \in Nat /\ KeepAge \in Nat
  BY OnlyGrows, PrekeysAssumption DEF IInv, TypeOK
<1>1. IdKept(i)
  BY <1>0 DEF IInv, LastIdsKept, IdKept
<1>2. (\A r \in kem : ~r.round3) /\ \E r \in spk : r.id = 1
  BY LastIdModern
<1>3. \A t \in Tasks : ~Generate(t)
  <2> SUFFICES ASSUME NEW t \in Tasks, Generate(t) PROVE FALSE
    OBVIOUS
  <2>1. PICK r \in spk : r.id = 1
    BY <1>2
  <2>2. r.key \in Displaced(spk, {1})
    BY <2>1 DEF Displaced
  <2> QED
    BY <2>2, GenerateDoes
<1>4. \E r \in LastResorts' : r.id >= i
  <2>1. PICK r \in LastResorts : r.id >= i
    BY <1>1 DEF IdKept
  <2> DEFINE n == Newest(LastResorts)
  <2>2. n \in LastResorts /\ n.id >= r.id
    BY <2>1, TablesTyped DEF IInv
  <2>3. n \in kem /\ n.last /\ n.id \in Nat /\ r.id \in Nat /\ ~Stale(n)
    BY <1>0, <2>1, <2>2 DEF LastResorts, Stale, KemKey
  <2> HIDE DEF n
  <2>4. PICK q \in kem' : Same(q, n)
    BY <1>2, <2>3, KemStays
  <2>5. q \in LastResorts' /\ q.id = n.id
    BY <2>3, <2>4 DEF Same, LastResorts
  <2>6. n.id >= i
    BY <2>1, <2>2, <2>3
  <2> QED
    BY <2>5, <2>6
<1>5. \A r \in kem' : r.id = i => r.last
  <2> SUFFICES ASSUME NEW r \in kem', r.id = i, ~r.last PROVE FALSE
    OBVIOUS
  <2>1. \A q \in kem : ~Same(r, q)
    BY <1>1 DEF Same, IdKept
  <2>2. r \notin kem
    BY <2>1 DEF Same
  <2>3. PICK t \in Tasks : StoreKem(t)
    <3>1. \A t \in Tasks : ~StoreLast(t)
      <4> SUFFICES ASSUME NEW t \in Tasks, StoreLast(t) PROVE FALSE
        OBVIOUS
      <4>1. r \in kem \/ r = FreshKem(next[t], made + 1, TRUE)
        BY DEF StoreLast, Put
      <4> QED
        BY <2>2, <4>1 DEF FreshKem
    <3>2. (\A t \in Tasks : ~StoreKem(t) /\ ~StoreLast(t) /\ ~Generate(t)) => \E q \in kem : Same(r, q)
      <4>1. \A q \in kem : Same(q, q)
        BY DEF Same
      <4>2. ASSUME NEW t \in Tasks, Pass(t), ~StoreKem(t), ~StoreLast(t), ~Generate(t) PROVE kem' \subseteq kem
        BY <4>2, LookTyped, ListDoes, PublishDoes DEF Pass, store, Purge, StoreEc, StoreSigned, Prune
      <4>3. ASSUME NEW c \in Copies, Commit(c) PROVE \E q \in kem : Same(r, q)
        <5>1. CASE kem' = kem
          BY <4>1, <5>1
        <5>2. CASE kem' = {Marked(q, c[1]) : q \in kem}
          <6>1. PICK q \in kem : r = Marked(q, c[1])
            BY <5>2
          <6> QED
            BY <1>0, <6>1, MarkedIs DEF Same
        <5> QED
          BY <4>3, <5>1, <5>2, CommitDoes
      <4>4. CASE kem' \subseteq kem
        BY <2>2, <4>4
      <4>5. CASE Tick \/ UNCHANGED vars
        BY <4>4, <4>5, TickDoes DEF vars
      <4> QED
        BY <4>2, <4>3, <4>4, <4>5, StartDoes, CiteDoes, ArriveDoes DEF Next
    <3> QED
      BY <1>3, <2>1, <3>1, <3>2
  <2>4. /\ r \in kem \/ r.id = next[t]
        /\ Displaced(kem, {next[t]}) \subseteq overwritten' /\ pc[t] = "storeKem"
    <3>1. /\ kem' = Put(kem, FreshKem(next[t], made + 1, FALSE))
          /\ overwritten' = overwritten \cup Displaced(kem, {next[t]}) /\ pc[t] = "storeKem"
      BY <2>3 DEF StoreKem, Written
    <3>2. FreshKem(next[t], made + 1, FALSE).id = next[t]
      BY DEF FreshKem
    <3> QED
      BY <3>1, <3>2 DEF Put
  <2>5. i = next[t] /\ next[t] \in Nat
    BY <1>0, <2>2, <2>4
  <2>6. PICK q \in kem : q.id = i
    BY <1>1, <2>4, <2>5 DEF IdKept
  <2>7. q.key \in Displaced(kem, {next[t]})
    BY <2>5, <2>6 DEF Displaced
  <2> QED
    BY <2>4, <2>7
<1>6. ASSUME NEW t \in Tasks, pc'[t] = "storeKem" PROVE i < next'[t] \/ \E r \in kem' : r.id = i
  <2>0. next[t] \in Nat /\ next'[t] \in Nat
    BY <1>0
  <2>1. CASE pc[t] = "storeKem" /\ next'[t] >= next[t] /\ clock' = clock
    <3>1. CASE i < next[t]
      BY <2>0, <2>1, <3>1
    <3>2. ASSUME ~(i < next[t]), NEW r \in kem, r.id = i PROVE \E q \in kem' : q.id = i
      <4>1. r.id >= next[t]
        BY <2>0, <3>2
      <4>2. r.born = clock
        BY <2>1, <4>1 DEF IInv, LastIdsKept
      <4>3. ~(clock - r.born > KeepAge)
        BY <1>0, <4>2
      <4>4. ~Stale(r)
        BY <4>3 DEF Stale
      <4>5. PICK q \in kem' : Same(q, r)
        BY <1>2, <4>4, KemStays
      <4> QED
        BY <3>2, <4>5 DEF Same
    <3> QED
      BY <1>1, <2>1, <3>1, <3>2 DEF IdKept
  <2>2. CASE next'[t] = HighestId(kem) + 1
    <3>1. PICK r \in LastResorts : r.id >= i
      BY <1>1 DEF IdKept
    <3>2. r.id \in Nat /\ HighestId(kem) \in Nat /\ r.id <= HighestId(kem)
      BY <3>1, TablesTyped DEF IInv, LastResorts
    <3> QED
      BY <2>2, <3>1, <3>2
  <2> QED
    BY <1>6, <2>1, <2>2, ReplenishStep
<1> QED
  BY <1>4, <1>5, <1>6 DEF IdKept

\* Where the id of a last-resort key that peers may cite comes from.
LEMMA LastIdComes ==
  ASSUME IInv, TypeOK', [Next]_vars, NEW i \in Nat, LastId(i)'
  PROVE  \/ LastId(i)
         \/ \E t \in Tasks : Generate(t) /\ i = 1
         \/ \E t \in Tasks : List(t) /\ LastResorts # {} /\ i = Newest(LastResorts).id
<1>0. ~Citable(NoBundle)
  BY DEF Citable, NoBundle
<1>1. ASSUME Citable(published'), published'.last.id = i PROVE LastId(i)
  <2>1. CASE \A t \in Tasks : ~Publish(t)
    <3>1. published' = published
      BY <2>1, WaitingChanges
    <3> QED
      BY <1>1, <3>1 DEF LastId
  <2>2. ASSUME NEW t \in Tasks, Publish(t) PROVE LastId(i)
    <3>1. published' = published \/ published' = draft[t]
      BY <2>2, PublishDoes
    <3> QED
      BY <1>1, <3>1 DEF LastId
  <2> QED
    BY <2>1, <2>2
<1>2. ASSUME NEW k \in Kex, cites'[k].last, cites'[k].kem.id = i PROVE LastId(i)
  <2>1. CASE cites'[k] = cites[k]
    BY <1>2, <2>1 DEF LastId
  <2>2. CASE Cite(k)
    BY <1>2, <2>2, CiteDoes DEF LastId
  <2> QED
    BY <2>1, <2>2, CitesStay
<1>3. ASSUME NEW t \in Tasks, Citable(draft'[t]), draft'[t].last.id = i
      PROVE  \/ LastId(i)
             \/ Generate(t) /\ i = 1
             \/ List(t) /\ LastResorts # {} /\ i = Newest(LastResorts).id
  <2>1. CASE draft'[t] = draft[t]
    BY <1>3, <2>1 DEF LastId
  <2>2. CASE Generate(t)
    <3>1. NewBundle.last.id = 1
      BY DEF NewBundle
    <3> QED
      BY <1>3, <2>2, <3>1, GenerateDoes
  <2>3. CASE List(t) /\ draft'[t] # draft[t]
    <3>1. Listed(t).last.id = Newest(LastResorts).id
      BY DEF Listed, Public
    <3> QED
      BY <1>3, <2>3, <3>1, ListDoes
  <2>4. draft'[t] \in {draft[t], NoBundle} \/ Generate(t) \/ (List(t) /\ draft'[t] # draft[t])
    <3>1. ASSUME NEW u \in Tasks, Publish(u) PROVE draft'[t] \in {draft[t], NoBundle}
      BY <3>1, PublishDoes
    <3>2. ASSUME NEW u \in Tasks, Generate(u) \/ List(u)
          PROVE  draft'[t] = draft[t] \/ Generate(t) \/ (List(t) /\ draft'[t] # draft[t])
      BY <3>2, GenerateDoes, ListDoes
    <3> QED
      BY <3>1, <3>2, WaitingChanges
  <2> QED
    BY <1>0, <1>3, <2>1, <2>2, <2>3, <2>4
<1>4. \/ Citable(published') /\ published'.last.id = i
      \/ \E t \in Tasks : Citable(draft'[t]) /\ draft'[t].last.id = i
      \/ \E k \in Kex : cites'[k].last /\ cites'[k].kem.id = i
  BY DEF LastId, Citable
<1> QED
  BY <1>1, <1>2, <1>3, <1>4

LEMMA LastIdsPreserved ==
  ASSUME IInv, TypeOK', UniqueIds', [Next]_vars
  PROVE  LastIdsKept'
<1>1. \A t \in Tasks, r \in kem' : pc'[t] = "storeKem" /\ r.id >= next'[t] => r.born = clock'
  BY AheadPreserved
<1>2. ASSUME overwritten' = {}, NEW i \in Nat, LastId(i)' PROVE IdKept(i)'
  <2>0. made \in Nat /\ clock \in Nat
    BY PrekeysAssumption DEF IInv, TypeOK
  <2>1. CASE LastId(i)
    BY <1>2, <2>1, IdKeptStays
  <2>2. ASSUME NEW r \in kem', r.last, r.id = i PROVE IdKept(i)'
    <3>1. r \in LastResorts' /\ r.id >= i
      BY <2>2 DEF LastResorts
    <3>2. \A q \in kem' : q.id = i => q.last
      BY <2>2 DEF UniqueIds
    <3> QED
      BY <2>2, <3>1, <3>2 DEF IdKept
  <2>3. ASSUME NEW t \in Tasks, Generate(t), i = 1 PROVE IdKept(i)'
    <3> DEFINE new == FreshKem(1, made + Target + 2, TRUE)
    <3>1. new \in kem'
      BY <2>0, <2>3, NewTyped, GenerateDoes
    <3>2. new.last /\ new.id = 1
      BY DEF FreshKem
    <3> HIDE DEF new
    <3> QED
      BY <2>2, <2>3, <3>1, <3>2
  <2>4. ASSUME NEW t \in Tasks, List(t), LastResorts # {}, i = Newest(LastResorts).id PROVE IdKept(i)'
    <3>1. kem' = kem /\ Newest(LastResorts) \in LastResorts
      BY <2>4, ListDoes
    <3> QED
      BY <2>2, <2>4, <3>1 DEF LastResorts
  <2> QED
    BY <1>2, <2>1, <2>3, <2>4, LastIdComes
<1> QED
  BY <1>1, <1>2 DEF LastIdsKept, IdKept

-----------------------------------------------------------------------------
(* Without races and overwritten keys.                                       *)

\* What a copy has read is there.
ReadIsThere(c) ==
  /\ Holds(ec, cites[c[1]].ec)
  /\ ~cites[c[1]].last => Holds(Available, cites[c[1]].kem)

\* Who cites the id of a KEM prekey that is available cites that prekey.
LEMMA CitedRow ==
  ASSUME IInv, overwritten = {}, NEW d \in Copies, ReadIsThere(d), NEW r \in Available,
         r.id = cites[d[1]].kem.id
  PROVE  ~cites[d[1]].last /\ Public(r) = cites[d[1]].kem
<1>0. d[1] \in Kex /\ r \in kem /\ ~r.last /\ kem \subseteq KemKey
  BY PrekeysAssumption DEF Available, IInv, TypeOK
<1>1. ~cites[d[1]].last
  <2> SUFFICES ASSUME cites[d[1]].last PROVE FALSE
    OBVIOUS
  <2>1. r.id \in Nat /\ LastId(r.id)
    BY <1>0 DEF LastId, KemKey
  <2> QED
    BY <1>0, <2>1 DEF IInv, LastIdsKept
<1>2. PICK q \in Available : Public(q) = cites[d[1]].kem
  BY <1>1 DEF ReadIsThere, Holds
<1>3. q.id = cites[d[1]].kem.id
  BY <1>2 DEF Public
<1>4. q = r
  BY <1>0, <1>3 DEF IInv, UniqueIds, Available
<1> QED
  BY <1>1, <1>2, <1>4

LEMMA CitedEcRow ==
  ASSUME IInv, NEW d \in Copies, ReadIsThere(d), NEW r \in ec, r.id = cites[d[1]].ec.id
  PROVE  Public(r) = cites[d[1]].ec
<1>1. PICK q \in ec : Public(q) = cites[d[1]].ec
  BY DEF ReadIsThere, Holds
<1>2. q.id = cites[d[1]].ec.id
  BY <1>1 DEF Public
<1>3. q = r
  BY <1>2 DEF IInv, UniqueIds
<1> QED
  BY <1>1, <1>3

LEMMA CitedKeysGrow ==
  ASSUME IInv, [Next]_vars
  PROVE  CitedKeys \subseteq CitedKeys'
<1>1. \A d \in opened : d \in opened' /\ cites'[d[1]] = cites[d[1]]
  <2>1. \A d \in opened : d \in Copies /\ d[1] \in Kex /\ cites[d[1]] # NoCite
    BY PrekeysAssumption DEF IInv, TypeOK, CopiesSound
  <2> QED
    BY <2>1, OnlyGrows, CitesStay
<1> QED
  BY <1>1 DEF CitedKeys

\* Only a key exchange that is stored consumes keys.
LEMMA OnlyCommitsSpend ==
  ASSUME IInv, [Next]_vars
  PROVE  \/ spent' = spent
         \/ \E c \in Copies : /\ Commit(c) /\ opened' = opened \cup {c}
                              /\ spent' = spent \cup Displaced(ec, {cites[c[1]].ec.id})
                                                \cup Displaced(Available, {cites[c[1]].kem.id})
<1>1. ASSUME NEW t \in Tasks, Pass(t) PROVE spent' = spent
  BY <1>1, LookTyped, WriteTyped, GenerateDoes, ListDoes, PublishDoes DEF Pass, history
<1>2. ASSUME NEW c \in Copies, Commit(c)
      PROVE  \/ spent' = spent
             \/ /\ opened' = opened \cup {c}
                /\ spent' = spent \cup Displaced(ec, {cites[c[1]].ec.id})
                                  \cup Displaced(Available, {cites[c[1]].kem.id})
  BY <1>2, CommitDoes
<1>3. CASE Tick \/ UNCHANGED vars
  BY <1>3, TickDoes DEF vars
<1> QED
  BY <1>1, <1>2, <1>3, StartDoes, CiteDoes, ArriveDoes DEF Next

LEMMA SpentIsCited ==
  ASSUME IInv, TypeOK', [Next]_vars, overwritten = {}, raced = {}
  PROVE  spent' \subseteq CitedKeys'
<1>1. spent \subseteq CitedKeys'
  BY CitedKeysGrow DEF IInv, Calm
<1>2. ASSUME NEW c \in Copies, Commit(c), opened' = opened \cup {c},
             spent' = spent \cup Displaced(ec, {cites[c[1]].ec.id})
                            \cup Displaced(Available, {cites[c[1]].kem.id})
      PROVE  spent' \subseteq CitedKeys'
  <2>1. cites' = cites /\ c \in opened' /\ Committing(c)
    BY <1>2, CommitDoes DEF Committing
  <2>2. ReadIsThere(c)
    BY <2>1 DEF IInv, Calm, ReadIsThere
  <2>3. cites[c[1]].ec.key \in CitedKeys' /\ cites[c[1]].kem.key \in CitedKeys'
    BY <2>1 DEF CitedKeys
  <2>4. \A r \in ec : r.id = cites[c[1]].ec.id => r.key = cites[c[1]].ec.key
    <3> SUFFICES ASSUME NEW r \in ec, r.id = cites[c[1]].ec.id PROVE r.key = cites[c[1]].ec.key
      OBVIOUS
    <3>1. Public(r) = cites[c[1]].ec
      BY <2>2, CitedEcRow
    <3> QED
      BY <3>1 DEF Public
  <2>5. \A r \in Available : r.id = cites[c[1]].kem.id => r.key = cites[c[1]].kem.key
    <3> SUFFICES ASSUME NEW r \in Available, r.id = cites[c[1]].kem.id PROVE r.key = cites[c[1]].kem.key
      OBVIOUS
    <3>1. Public(r) = cites[c[1]].kem
      BY <2>2, CitedRow
    <3> QED
      BY <3>1 DEF Public
  <2>6. /\ \A x \in Displaced(ec, {cites[c[1]].ec.id}) : x = cites[c[1]].ec.key
        /\ \A x \in Displaced(Available, {cites[c[1]].kem.id}) : x = cites[c[1]].kem.key
    BY <2>4, <2>5 DEF Displaced
  <2> QED
    BY <1>1, <1>2, <2>3, <2>6
<1> QED
  BY <1>1, <1>2, OnlyCommitsSpend

\* The step by which a copy comes to have read its prekeys.
LEMMA ReadStep ==
  ASSUME IInv, TypeOK', [Next]_vars, NEW c \in Copies, pc'[c] = "commit"
  PROVE  /\ c[1] \in Kex /\ cites[c[1]] # NoCite /\ cites'[c[1]] = cites[c[1]]
         /\ ~Commit(c)
         /\ \/ Committing(c)
            \/ Unreadable(c[1]) = {} /\ UNCHANGED <<ec, kem>>
<1>0. c[1] \in Kex /\ c \in Tasks /\ pc \in [Tasks -> Steps]
  BY PrekeysAssumption DEF Tasks, IInv, TypeOK
<1>1. ~Commit(c)
  BY CommitDoes
<1>2. Committing(c) \/ Arrive(c)
  <2> USE DEF Committing
  <2>1. CASE Tick \/ UNCHANGED vars
    BY <2>1, TickDoes DEF vars
  <2>2. ASSUME NEW b \in Boots, StartPass(b) PROVE Committing(c)
    BY <1>0, <2>2, StartDoes
  <2>3. ASSUME NEW t \in Tasks, Pass(t) PROVE Committing(c)
    <3>1. pc'[t] # "commit" /\ \A u \in Tasks \ {t} : pc'[u] = pc[u]
      BY <2>3, LookTyped, WriteTyped, GenerateDoes, ListDoes, PublishDoes DEF Pass, Unlisted, PassSteps
    <3> QED
      BY <1>0, <3>1
  <2>4. ASSUME NEW k \in Kex, Cite(k) PROVE Committing(c)
    BY <2>4, CiteDoes
  <2>5. ASSUME NEW d \in Copies, Arrive(d) \/ Commit(d), d # c PROVE Committing(c)
    BY <1>0, <2>5, ArriveDoes, CommitDoes
  <2> QED
    BY <1>1, <2>1, <2>2, <2>3, <2>4, <2>5 DEF Next
<1>3. cites[c[1]] # NoCite
  BY <1>2, ArriveDoes DEF IInv, CopiesSound
<1>4. cites'[c[1]] = cites[c[1]]
  BY <1>0, <1>3, CitesStay
<1>5. Arrive(c) => Unreadable(c[1]) = {} /\ UNCHANGED <<ec, kem>>
  BY ArriveDoes
<1> QED
  BY <1>0, <1>1, <1>2, <1>3, <1>4, <1>5

LEMMA ReadStays ==
  ASSUME IInv, TypeOK', [Next]_vars, overwritten' = {}, raced = {}, NEW c \in Copies, pc'[c] = "commit"
  PROVE  ReadIsThere(c)'
<1>0. /\ c[1] \in Kex /\ cites[c[1]] # NoCite /\ cites'[c[1]] = cites[c[1]] /\ ~Commit(c)
      /\ overwritten = {} /\ kem \subseteq KemKey
  BY ReadStep, OnlyGrows DEF IInv, TypeOK
<1>1. ASSUME Unreadable(c[1]) = {}, UNCHANGED <<ec, kem>> PROVE ReadIsThere(c)'
  <2>1. Holds(ec, cites[c[1]].ec)
    BY <1>1 DEF Unreadable
  <2>2. Holds({r \in kem : r.last \/ ~r.used}, cites[c[1]].kem)
    BY <1>1 DEF Unreadable
  <2>3. ASSUME ~cites[c[1]].last PROVE Holds(Available, cites[c[1]].kem)
    <3>1. PICK r \in kem : (r.last \/ ~r.used) /\ Public(r) = cites[c[1]].kem
      BY <2>2 DEF Holds
    <3>2. r.key = cites[c[1]].kem.key /\ r.key \in Nat
      BY <1>0, <3>1 DEF Public, KemKey
    <3>3. OneTime(r.key)
      BY <1>0, <2>3, <3>2 DEF OneTime
    <3>4. ~r.last
      BY <3>2, <3>3 DEF IInv, Kinds, LastResort
    <3> QED
      BY <3>1, <3>4 DEF Holds, Available
  <2>4. Available' = Available
    BY <1>1 DEF Available
  <2> QED
    BY <1>0, <1>1, <2>1, <2>3, <2>4 DEF ReadIsThere, Holds
<1>2. ASSUME Committing(c) PROVE ReadIsThere(c)'
  <2>1. ReadIsThere(c)
    BY <1>0, <1>2 DEF IInv, Calm, ReadIsThere
  <2>2. ASSUME NEW d \in Copies, Commit(d) PROVE ReadIsThere(d) /\ ~Clash(d, c)
    <3>1. Committing(d) /\ d # c
      BY <1>0, <2>2, CommitDoes DEF Committing
    <3>2. ReadIsThere(d)
      BY <1>0, <3>1 DEF IInv, Calm, ReadIsThere
    <3>3. ~Clash(d, c)
      BY <1>2, <3>1 DEF IInv, Raced
    <3> QED
      BY <3>2, <3>3
  <2>3. Holds(ec', cites[c[1]].ec)
    <3>1. PICK r \in ec : Public(r) = cites[c[1]].ec
      BY <2>1 DEF ReadIsThere, Holds
    <3>2. ASSUME NEW i, Consumes(r.id, i) PROVE FALSE
      <4>1. PICK d \in Copies : Commit(d) /\ r.id = cites[d[1]].ec.id
        BY <3>2 DEF Consumes
      <4>2. Public(r) = cites[d[1]].ec
        BY <2>2, <4>1, CitedEcRow
      <4> QED
        BY <2>2, <3>1, <4>1, <4>2 DEF Clash
    <3>3. r \in ec'
      BY <1>0, <3>2, EcStays
    <3> QED
      BY <3>1, <3>3 DEF Holds
  <2>4. ASSUME ~cites[c[1]].last PROVE Holds(Available', cites[c[1]].kem)
    <3>1. PICK r \in Available : Public(r) = cites[c[1]].kem
      BY <2>1, <2>4 DEF ReadIsThere, Holds
    <3>2. r \in kem /\ ~r.used /\ ~r.last
      BY <3>1 DEF Available
    <3>3. ASSUME NEW i, Consumes(i, r.id) PROVE FALSE
      <4>1. PICK d \in Copies : Commit(d) /\ r.id = cites[d[1]].kem.id
        BY <3>3 DEF Consumes
      <4>2. Public(r) = cites[d[1]].kem /\ ~cites[d[1]].last
        BY <1>0, <2>2, <4>1, CitedRow
      <4> QED
        BY <2>2, <3>1, <4>1, <4>2 DEF Clash
    <3>4. ~r.round3
      BY <1>0, <3>2 DEF IInv, PassSound
    <3>5. PICK q \in kem' : Same(q, r) /\ (q.used => r.used \/ \E i : Consumes(i, r.id))
      BY <1>0, <3>2, <3>4, KemStays DEF Stale
    <3>6. ~q.used /\ ~q.last /\ Public(q) = Public(r)
      BY <3>2, <3>3, <3>5 DEF Same, Public
    <3> QED
      BY <3>1, <3>6 DEF Holds, Available
  <2> QED
    BY <1>0, <2>3, <2>4 DEF ReadIsThere, Holds
<1> QED
  BY <1>1, <1>2, ReadStep

LEMMA CalmPreserved ==
  ASSUME IInv, TypeOK', [Next]_vars
  PROVE  Calm'
<1> SUFFICES ASSUME overwritten' = {}, raced' = {}
             PROVE  /\ spent' \subseteq CitedKeys'
                    /\ \A c \in Copies : pc'[c] = "commit" => ReadIsThere(c)'
  BY DEF Calm, ReadIsThere, Committing
<1>1. overwritten = {} /\ raced = {}
  BY OnlyGrows
<1> QED
  BY <1>1, SpentIsCited, ReadStays

-----------------------------------------------------------------------------
(* What is advertised.                                                       *)

LEMMA UsableStays ==
  ASSUME UNCHANGED <<ec, kem, spk>>, NEW b, Usable(b)
  PROVE  Usable(b)'
BY DEF Usable, Holds, Available, LastResorts

\* What a pass lists can be used.
LEMMA ListedIsUsable ==
  ASSUME IInv, NEW t \in Tasks, Generate(t) \/ List(t), pc'[t] = "publish", NEW b, b = draft'[t]
  PROVE  Usable(b)'
<1>1. CASE Generate(t)
  <2>0. made \in Nat /\ clock \in Nat
    BY PrekeysAssumption DEF IInv, TypeOK
  <2>1. NewEc \subseteq ec' /\ NewKem \subseteq kem' /\ NewSigned \in spk' /\ b = NewBundle
    BY <1>1, GenerateDoes DEF Put
  <2>2. /\ b.ec = NewEc /\ b.kem = {Public(r) : r \in {n \in NewKem : ~n.last}}
        /\ b.last = [id |-> 1, key |-> made + Target + 2] /\ b.signed = Public(NewSigned)
    BY <2>1 DEF NewBundle
  <2>3. \A x \in NewEc : Public(x) = x
    BY DEF NewEc, Public
  <2>4. \A x \in b.kem : Holds(Available', x)
    BY <2>0, <2>1, <2>2, NewTyped DEF Holds, Available
  <2>5. Holds(LastResorts', b.last)
    <3> DEFINE new == FreshKem(1, made + Target + 2, TRUE)
    <3>1. new \in kem' /\ new.last /\ Public(new) = b.last
      <4>1. new \in kem'
        BY <2>0, <2>1, NewTyped
      <4> QED
        BY <2>2, <4>1 DEF FreshKem, Public
    <3> HIDE DEF new
    <3> QED
      BY <3>1 DEF Holds, LastResorts
  <2>6. (\A x \in b.ec : Holds(ec', x)) /\ Holds(spk', b.signed)
    BY <2>1, <2>2, <2>3 DEF Holds
  <2> QED
    BY <2>4, <2>5, <2>6 DEF Usable, Holds, Available, LastResorts
<1>2. CASE List(t)
  <2>1. /\ UNCHANGED <<ec, kem, spk>> /\ b = Listed(t) /\ Newest(LastResorts) \in LastResorts
        /\ SignedRow(t) \in spk
    BY <1>2, ListDoes
  <2>2. /\ b.ec = ec /\ b.kem = {Public(r) : r \in Available}
        /\ b.last = Public(Newest(LastResorts)) /\ b.signed = Public(SignedRow(t))
    BY <2>1 DEF Listed
  <2>3. \A x \in ec : Public(x) = x
    BY DEF Public, IInv, TypeOK, EcKey
  <2>4. Usable(b)
    BY <2>1, <2>2, <2>3 DEF Usable, Holds
  <2> QED
    BY <2>1, <2>4, UsableStays
<1> QED
  BY <1>1, <1>2

\* A step starts a pass or is one of a pass that has not listed yet, lists, publishes, fails, or
\* leaves the keys, the bundles and their order alone.
LEMMA StepKinds ==
  ASSUME IInv, TypeOK', [Next]_vars
  PROVE  \/ \E t \in Tasks : pc'[t] \in Unlisted
         \/ \E t \in Tasks : (Generate(t) \/ List(t)) /\ pc'[t] = "publish"
         \/ \E t \in Tasks : Publish(t)
         \/ unpublished' # {}
         \/ /\ UNCHANGED <<ec, kem, spk, published, draft, before, outrun>>
            /\ \A t \in Tasks : pc'[t] = "publish" <=> pc[t] = "publish"
            /\ \A t \in Tasks : pc[t] \in Unlisted => pc'[t] \in Unlisted
<1> DEFINE Rests ==
      /\ UNCHANGED <<ec, kem, spk, published, draft, before, outrun>>
      /\ \A t \in Tasks : pc'[t] = "publish" <=> pc[t] = "publish"
      /\ \A t \in Tasks : pc[t] \in Unlisted => pc'[t] \in Unlisted
<1> USE DEF Unlisted, PassSteps
<1>1. ASSUME Tick \/ UNCHANGED vars PROVE Rests
  BY <1>1, TickDoes DEF vars
<1>2. ASSUME NEW b \in Boots, StartPass(b) PROVE \E t \in Tasks : pc'[t] \in Unlisted
  BY <1>2, StartDoes
<1>3. ASSUME NEW k \in Kex, Cite(k) PROVE Rests
  BY <1>3, CiteDoes
<1>4. ASSUME NEW c \in Copies, Arrive(c) PROVE Rests
  <2>1. /\ pc[c] = "idle" /\ pc'[c] \in {"commit", "done"} /\ \A u \in Tasks \ {c} : pc'[u] = pc[u]
        /\ UNCHANGED <<ec, kem, spk, published, draft, before, outrun>>
    BY <1>4, ArriveDoes
  <2> QED
    BY <2>1
<1>5. ASSUME NEW c \in Copies, Commit(c) PROVE Rests \/ \E t \in Tasks : pc'[t] \in Unlisted
  <2>1. CASE pc'[c] = "check"
    BY <1>5, <2>1, CommitDoes
  <2>2. CASE pc'[c] # "check"
    <3>1. /\ pc[c] = "commit" /\ pc'[c] = "done" /\ \A u \in Tasks \ {c} : pc'[u] = pc[u]
          /\ UNCHANGED <<ec, kem, spk, published, draft, before, outrun>>
      BY <1>5, <2>2, CommitDoes
    <3> QED
      BY <3>1
  <2> QED
    BY <2>1, <2>2
<1>6. ASSUME NEW t \in Tasks, Pass(t)
      PROVE  \/ pc'[t] \in Unlisted
             \/ (Generate(t) \/ List(t)) /\ pc'[t] = "publish"
             \/ Publish(t)
             \/ unpublished' # {}
  BY <1>6, LookTyped, WriteTyped, GenerateDoes, ListDoes DEF Pass
<1> HIDE DEF Rests
<1>7. \/ \E t \in Tasks : pc'[t] \in Unlisted
      \/ \E t \in Tasks : (Generate(t) \/ List(t)) /\ pc'[t] = "publish"
      \/ \E t \in Tasks : Publish(t)
      \/ unpublished' # {}
      \/ Rests
  BY <1>1, <1>2, <1>3, <1>4, <1>5, <1>6 DEF Next
<1> QED
  BY <1>7 DEF Rests

\* A bootstrap begins once.
LEMMA BootBegins ==
  ASSUME IInv, TypeOK', [Next]_vars, NEW b \in Boots, pc'[b] # "idle"
  PROVE  pc[b] # "idle" \/ \E t \in Tasks : pc'[t] \in Unlisted
<1>0. b \in Tasks /\ b \notin Copies /\ pc \in [Tasks -> Steps]
  BY PrekeysAssumption DEF Tasks, IInv, TypeOK
<1>1. CASE Tick \/ UNCHANGED vars
  BY <1>1, TickDoes DEF vars
<1>2. ASSUME NEW a \in Boots, StartPass(a) PROVE \E t \in Tasks : pc'[t] \in Unlisted
  BY <1>2, StartDoes DEF Unlisted, PassSteps
<1>3. ASSUME NEW t \in Tasks, Pass(t) PROVE pc[b] # "idle"
  <2>1. pc[t] \in PassSteps /\ \A u \in Tasks \ {t} : pc'[u] = pc[u]
    BY <1>3, LookTyped, WriteTyped, GenerateDoes, ListDoes, PublishDoes DEF Pass, Unlisted, PassSteps
  <2> QED
    BY <1>0, <2>1 DEF PassSteps
<1>4. ASSUME NEW k \in Kex, Cite(k) PROVE pc' = pc
  BY <1>4, CiteDoes
<1>5. ASSUME NEW c \in Copies, Arrive(c) \/ Commit(c) PROVE pc'[b] = pc[b]
  BY <1>0, <1>5, ArriveDoes, CommitDoes
<1> QED
  BY <1>1, <1>2, <1>3, <1>4, <1>5 DEF Next

LEMMA CurrentPreserved ==
  ASSUME IInv, TypeOK', Ordered', [Next]_vars
  PROVE  Current'
<1> SUFFICES ASSUME NEW a \in Boots, pc'[a] # "idle", unpublished' = {}, ~overtaken',
                    ~\E t \in Tasks : pc'[t] \in Unlisted
             PROVE  \/ \E t \in Tasks : Latest(t)' /\ Usable(draft[t])'
                    \/ Usable(published)' /\ \A t \in Tasks : pc'[t] = "publish" => t \in outrun'
  BY DEF Current
<1>0. pc[a] # "idle" /\ unpublished = {} /\ ~overtaken /\ Ordered
  BY BootBegins, OnlyGrows DEF IInv
<1>1. \/ \E t \in Tasks : pc[t] \in Unlisted
      \/ \E t \in Tasks : Latest(t) /\ Usable(draft[t])
      \/ Usable(published) /\ \A t \in Tasks : pc[t] = "publish" => t \in outrun
  BY <1>0 DEF IInv, Current
<1>2. ASSUME NEW b, Usable(b)', NEW t \in Tasks, b = draft'[t] PROVE Usable(draft[t])'
  BY <1>2 DEF Usable, Holds
<1>3. ASSUME NEW b, Usable(b)', b = published' PROVE Usable(published)'
  BY <1>3 DEF Usable, Holds
<1>4. CASE /\ UNCHANGED <<ec, kem, spk, published, draft, before, outrun>>
           /\ \A t \in Tasks : pc'[t] = "publish" <=> pc[t] = "publish"
           /\ \A t \in Tasks : pc[t] \in Unlisted => pc'[t] \in Unlisted
  <2>1. CASE \E t \in Tasks : Latest(t) /\ Usable(draft[t])
    <3>1. PICK t \in Tasks : Latest(t) /\ Usable(draft[t])
      BY <2>1
    <3>2. Latest(t)'
      BY <1>4, <3>1 DEF Latest
    <3>3. Usable(draft[t])'
      BY <1>2, <1>4, <3>1, UsableStays
    <3> QED
      BY <3>2, <3>3
  <2>2. CASE Usable(published) /\ \A t \in Tasks : pc[t] = "publish" => t \in outrun
    <3>1. Usable(published)'
      BY <1>3, <1>4, <2>2, UsableStays
    <3> QED
      BY <1>4, <2>2, <3>1
  <2> QED
    BY <1>1, <1>4, <2>1, <2>2
<1>5. ASSUME NEW t \in Tasks, Generate(t) \/ List(t), pc'[t] = "publish"
      PROVE  Latest(t)' /\ Usable(draft[t])'
  <2>1. Usable(draft[t])'
    BY <1>2, <1>5, ListedIsUsable
  <2>2. /\ outrun' = outrun /\ pc[t] # "publish" /\ before'[t] = {u \in Tasks : pc[u] = "publish"}
        /\ \A u \in Tasks \ {t} : before'[u] = before[u]
    BY <1>5, GenerateDoes, ListDoes
  <2>3. t \notin outrun' /\ \A u \in Tasks : t \notin before'[u]
    BY <1>0, <2>2 DEF Ordered
  <2> QED
    BY <1>5, <2>1, <2>3 DEF Latest
<1>6. ASSUME NEW u \in Tasks, Publish(u)
      PROVE  \/ \E t \in Tasks : Latest(t)' /\ Usable(draft[t])'
             \/ Usable(published)' /\ \A t \in Tasks : pc'[t] = "publish" => t \in outrun'
  <2>1. /\ UNCHANGED <<ec, kem, spk>> /\ pc[u] = "publish" /\ pc'[u] = "done"
        /\ \A t \in Tasks \ {u} : pc'[t] = pc[t] /\ draft'[t] = draft[t] /\ before'[t] = before[t] \ {u}
        /\ before'[u] = {}
    BY <1>6, PublishDoes
  <2>2. published' = draft[u] /\ outrun' = (outrun \cup before[u]) \ {u} /\ u \notin outrun
    BY <1>6, PublishDoes
  <2>3. \A t \in Tasks : pc[t] \notin Unlisted
    BY <2>1 DEF Unlisted, PassSteps
  <2>4. ~(\A t \in Tasks : pc[t] = "publish" => t \in outrun)
    BY <2>1, <2>2
  <2>5. PICK t \in Tasks : Latest(t) /\ Usable(draft[t])
    BY <1>1, <2>3, <2>4
  <2>6. CASE t = u
    <3>1. Usable(published)'
      BY <1>3, <2>1, <2>2, <2>5, <2>6, UsableStays
    <3>2. ASSUME NEW w \in Tasks, pc'[w] = "publish" PROVE w \in outrun'
      <4>1. w # u /\ pc[w] = "publish" /\ u \notin before[w]
        BY <2>1, <2>5, <2>6, <3>2 DEF Latest
      <4>2. w \in before[u]
        BY <1>0, <2>1, <4>1 DEF Ordered
      <4> QED
        BY <2>2, <4>1, <4>2
    <3> QED
      BY <3>1, <3>2
  <2>7. CASE t # u
    <3>1. Latest(t)'
      BY <2>1, <2>2, <2>5, <2>7 DEF Latest
    <3>2. Usable(draft[t])'
      BY <1>2, <2>1, <2>5, <2>7, UsableStays
    <3> QED
      BY <3>1, <3>2
  <2> QED
    BY <2>6, <2>7
<1> QED
  BY <1>4, <1>5, <1>6, StepKinds

-----------------------------------------------------------------------------
(* The start.                                                                *)

\* The store of an account that has been in use.
LEMMA OldIsSound ==
  ASSUME NEW start
  PROVE  /\ OldKeys \in Nat /\ OldEc \subseteq EcKey /\ IsFiniteSet(OldEc) /\ OldEc # {}
         /\ OldKem(start) \subseteq KemKey /\ IsFiniteSet(OldKem(start))
         /\ OldSigned \subseteq SignedKey /\ OldBundle(start) \in Bundle
         /\ Bounded(OldEc) /\ Bounded(OldKem(start)) /\ Bounded(OldSigned)
         /\ \A r, s \in OldEc : r.id = s.id => r = s
         /\ \A r \in OldEc : r.key <= OldKeys /\ Public(r) = r
         /\ \A r, s \in OldKem(start) : r.id = s.id => r = s
         /\ \A r \in OldKem(start) :
              /\ r.id \in 1..2 * Target + 1 /\ r.key = Target + r.id /\ r.born = 0 /\ (r.last <=> r.id = 1)
              /\ r.round3 <=> start = "legacy"
         /\ \E r \in OldKem(start) : r.id = 1
         /\ \E r \in OldSigned : r.id = 1 /\ r.key = OldKeys
         /\ OldBundle(start).ec = OldEc
         /\ \A x \in OldBundle(start).kem : start # "drained" /\ \E r \in OldKem(start) : ~r.last /\ Public(r) = x
         /\ OldBundle(start).last = [id |-> 1, key |-> Target + 1]
         /\ OldBundle(start).signed = [id |-> 1, key |-> OldKeys]
         /\ (OldBundle(start).round3 <=> start = "legacy") /\ OldBundle(start).born = 0
<1>0. Target \in Nat /\ Target >= 1 /\ OldKeys = 3 * Target + 2 /\ OldKeys \in Nat
  BY PrekeysAssumption DEF OldKeys
<1> DEFINE n == IF start = "drained" THEN 2 * Target + 1 ELSE Target + 1
<1>1. n \in Nat /\ n >= 1 /\ n <= 2 * Target + 1 /\ OldKem(start) = {OldKey(i, start) : i \in 1..n}
  BY <1>0 DEF OldKem
<1> HIDE DEF n
<1>2. OldEc \subseteq EcKey /\ OldEc # {} /\ \A r \in OldEc : r.id \in 1..Target /\ r.key = r.id /\ Public(r) = r
  <2>1. [id |-> 1, key |-> 1] \in OldEc
    BY <1>0 DEF OldEc
  <2>2. \A r \in OldEc : r \in EcKey /\ r.id \in 1..Target /\ r.key = r.id /\ Public(r) = r
    BY <1>0 DEF OldEc, EcKey, Public
  <2> QED
    BY <2>1, <2>2
<1>3. \A r, s \in OldEc : r.id = s.id => r = s
  BY DEF OldEc
<1>4. IsFiniteSet(OldEc)
  <2> DEFINE f == [i \in 1..Target |-> [id |-> i, key |-> i]]
  <2>1. IsFiniteSet({f[i] : i \in 1..Target})
    BY <1>0, RangeFinite
  <2>2. OldEc = {f[i] : i \in 1..Target}
    BY DEF OldEc
  <2> QED
    BY <2>1, <2>2
<1>5. IsFiniteSet(OldKem(start))
  <2> DEFINE f == [i \in 1..n |-> OldKey(i, start)]
  <2>1. f = [i \in 1..n |-> f[i]]
    OBVIOUS
  <2>2. OldKem(start) = {f[i] : i \in 1..n}
    BY <1>1
  <2> HIDE DEF f
  <2>3. IsFiniteSet({f[i] : i \in 1..n})
    BY <1>1, <2>1, RangeFinite
  <2> QED
    BY <2>2, <2>3
<1>6. \A i \in 1..n : /\ OldKey(i, start) \in KemKey
                      /\ OldKey(i, start).id = i /\ OldKey(i, start).key = Target + i
                      /\ OldKey(i, start).born = 0 /\ (OldKey(i, start).last <=> i = 1)
                      /\ OldKey(i, start).round3 <=> start = "legacy"
  <2> SUFFICES ASSUME NEW i \in 1..n
               PROVE  /\ OldKey(i, start) \in KemKey
                      /\ OldKey(i, start).id = i /\ OldKey(i, start).key = Target + i
                      /\ OldKey(i, start).born = 0 /\ (OldKey(i, start).last <=> i = 1)
                      /\ (OldKey(i, start).round3 <=> start = "legacy")
    OBVIOUS
  <2> DEFINE used == start = "drained" /\ i \in 2..Target + 1
             last == i = 1
             round3 == start = "legacy"
  <2>1. i \in Nat /\ Target + i \in Nat
    BY <1>0, <1>1
  <2>2. used \in BOOLEAN /\ last \in BOOLEAN /\ round3 \in BOOLEAN
    OBVIOUS
  <2>3. OldKey(i, start) = [id |-> i, key |-> Target + i, born |-> 0, last |-> last, used |-> used, round3 |-> round3]
    BY DEF OldKey
  <2>4. (last <=> i = 1) /\ (round3 <=> start = "legacy")
    OBVIOUS
  <2> HIDE DEF used, last, round3
  <2>5. OldKey(i, start) \in KemKey
    BY <2>1, <2>2, <2>3 DEF KemKey
  <2> QED
    BY <2>3, <2>4, <2>5
<1>7. \A r \in OldKem(start) :
        /\ r \in KemKey /\ r.id \in 1..2 * Target + 1 /\ r.key = Target + r.id /\ r.born = 0 /\ (r.last <=> r.id = 1)
        /\ r.round3 <=> start = "legacy"
  <2> SUFFICES ASSUME NEW i \in 1..n, NEW r, r = OldKey(i, start)
               PROVE  /\ r \in KemKey /\ r.id \in 1..2 * Target + 1 /\ r.key = Target + r.id /\ r.born = 0
                      /\ (r.last <=> r.id = 1) /\ (r.round3 <=> start = "legacy")
    BY <1>1
  <2>1. i \in 1..2 * Target + 1
    BY <1>0, <1>1
  <2>2. r.id = i /\ r \in KemKey /\ r.key = Target + i /\ r.born = 0 /\ (r.last <=> i = 1) /\ (r.round3 <=> start = "legacy")
    BY <1>6
  <2> QED
    BY <2>1, <2>2
<1>8. \A r, s \in OldKem(start) : r.id = s.id => r = s
  <2> SUFFICES ASSUME NEW i \in 1..n, NEW j \in 1..n, OldKey(i, start).id = OldKey(j, start).id
               PROVE  OldKey(i, start) = OldKey(j, start)
    BY <1>1
  <2>1. i = j
    BY <1>6
  <2> QED
    BY <2>1
<1>9. \E r \in OldKem(start) : r.id = 1
  <2>1. 1 \in 1..n
    BY <1>1
  <2> QED
    BY <1>1, <1>6, <2>1
<1>10. OldSigned = {[id |-> 1, key |-> OldKeys, born |-> 0]} /\ OldSigned \subseteq SignedKey
  BY <1>0 DEF OldSigned, SignedKey
<1>11. Bounded(OldEc) /\ Bounded(OldKem(start)) /\ Bounded(OldSigned)
  <2>1. \A r \in OldEc : r.id <= Target
    BY <1>0, <1>2
  <2>2. \A r \in OldKem(start) : r.id <= 2 * Target + 1
    BY <1>0, <1>7
  <2>3. \A r \in OldSigned : r.id <= 1
    BY <1>10
  <2>4. Target \in Nat /\ 2 * Target + 1 \in Nat /\ 1 \in Nat
    BY <1>0
  <2> QED
    BY <2>1, <2>2, <2>3, <2>4 DEF Bounded
<1> DEFINE b == OldBundle(start)
           some == {Public(r) : r \in {k \in OldKem(start) : ~k.last}}
<1>12. b = [ec |-> OldEc, kem |-> IF start = "drained" THEN {} ELSE some,
            last |-> [id |-> 1, key |-> Target + 1], signed |-> [id |-> 1, key |-> OldKeys],
            round3 |-> start = "legacy", born |-> 0]
  <2> DEFINE kems == IF start = "drained" THEN {} ELSE some
             round3 == start = "legacy"
             last == [id |-> 1, key |-> Target + 1]
             signed == [id |-> 1, key |-> OldKeys]
  <2>1. b = [NoBundle EXCEPT !.ec = OldEc, !.kem = kems, !.last = last, !.signed = signed, !.round3 = round3]
    BY DEF OldBundle
  <2> HIDE DEF kems, round3, last, signed
  <2>2. b = [ec |-> OldEc, kem |-> kems, last |-> last, signed |-> signed, round3 |-> round3, born |-> 0]
    BY <2>1 DEF NoBundle
  <2> QED
    BY <2>2 DEF kems, round3, last, signed
<1>13. some \subseteq Key /\ \A x \in some : \E r \in OldKem(start) : ~r.last /\ Public(r) = x
  <2>1. \A r \in OldKem(start) : Public(r) \in Key
    BY <1>7 DEF Public, Key, KemKey
  <2> QED
    BY <2>1
<1> HIDE DEF some, b
<1>14. b \in Bundle
  <2>1. OldEc \subseteq Key /\ [id |-> 1, key |-> Target + 1] \in Key /\ [id |-> 1, key |-> OldKeys] \in Key
    BY <1>0, <1>2 DEF EcKey, Key
  <2>2. (IF start = "drained" THEN {} ELSE some) \subseteq Key
    BY <1>13
  <2> QED
    BY <1>12, <2>1, <2>2 DEF Bundle
<1>15. /\ b.ec = OldEc /\ b.last = [id |-> 1, key |-> Target + 1] /\ b.signed = [id |-> 1, key |-> OldKeys]
       /\ (b.round3 <=> start = "legacy") /\ b.born = 0
       /\ \A x \in b.kem : start # "drained" /\ x \in some
  BY <1>12
<1>16. \A x \in b.kem : start # "drained" /\ \E r \in OldKem(start) : ~r.last /\ Public(r) = x
  BY <1>13, <1>15
<1>17. \A r \in OldEc : r.key <= OldKeys
  BY <1>0, <1>2
<1>18. \E r \in OldSigned : r.id = 1 /\ r.key = OldKeys
  BY <1>10
<1> QED
  BY <1>0, <1>2, <1>3, <1>4, <1>5, <1>7, <1>8, <1>9, <1>10, <1>11, <1>14, <1>15, <1>16, <1>17, <1>18 DEF b

\* A run starts in a state that satisfies the invariant.
LEMMA InitInv == Init => IInv
<1> SUFFICES ASSUME Init PROVE IInv
  OBVIOUS
<1>1. PICK start \in Starts, first \in Boots :
        /\ IF start = "fresh"
             THEN made = 0 /\ ec = {} /\ kem = {} /\ spk = {} /\ published = NoBundle
             ELSE /\ made = OldKeys /\ ec = OldEc /\ kem = OldKem(start) /\ spk = OldSigned
                  /\ published = OldBundle(start)
        /\ pc = [t \in Tasks |-> IF t = first /\ start = "drained" THEN "list" ELSE "idle"]
        /\ next = [t \in Tasks |-> IF t = first /\ start = "drained" THEN 1 ELSE 0]
  BY DEF Init
<1>2. /\ clock = 0 /\ opened = {} /\ cites = [k \in Kex |-> NoCite] /\ todo = [t \in Tasks |-> 0]
      /\ draft = [t \in Tasks |-> NoBundle] /\ before = [t \in Tasks |-> {}] /\ outrun = {} /\ raced = {}
      /\ crowded = FALSE /\ unpublished = {} /\ overtaken = FALSE /\ spent = {} /\ overwritten = {} /\ lost = {}
  BY DEF Init
<1>3. \A t \in Tasks : /\ pc[t] \in {"idle", "list"} /\ draft[t] = NoBundle /\ before[t] = {}
                       /\ pc[t] = "list" => t = first /\ start = "drained" /\ next[t] = 1
  BY <1>1, <1>2
<1>4. \A k \in Kex : cites[k] = NoCite
  BY <1>2
<1>5. /\ NoBundle.ec = {} /\ NoBundle.kem = {} /\ NoBundle.last.key = 0 /\ NoBundle.born = 0
      /\ ~Citable(NoBundle) /\ NoBundle \in Bundle
      /\ NoCite.ec.key = 0 /\ NoCite.last = FALSE /\ NoCite.born = 0
      /\ NoCite \in [ec : Key, kem : Key, signed : Key, last : BOOLEAN, born : Nat]
  BY DEF NoBundle, NoCite, NoKey, Citable, Bundle, Key
<1>6. \A t \in Copies : pc[t] = "idle"
  BY <1>1, <1>3, PrekeysAssumption DEF Tasks
<1>7. start \in {"fresh", "drained", "legacy"}
  BY PrekeysAssumption
\* What the store holds, in any of the three.
<1>8. /\ made \in Nat /\ ec \subseteq EcKey /\ kem \subseteq KemKey /\ spk \subseteq SignedKey
      /\ published \in Bundle /\ published.born = 0
      /\ Bounded(ec) /\ Bounded(kem) /\ Bounded(spk) /\ IsFiniteSet(ec) /\ IsFiniteSet(kem)
      /\ \A r, s \in ec : r.id = s.id => r = s
      /\ \A r, s \in kem : r.id = s.id => r = s
      /\ \A r \in kem : r.born = 0 /\ (r.round3 => start = "legacy")
      /\ (\E r \in spk : r.id = 1) \/ (start = "fresh" /\ ec = {} /\ kem = {} /\ spk = {} /\ published = NoBundle)
      /\ Citable(published) => start = "drained"
  <2>1. CASE start = "fresh"
    <3>1. made = 0 /\ ec = {} /\ kem = {} /\ spk = {} /\ published = NoBundle
      BY <1>1, <2>1
    <3>2. IsFiniteSet({}) /\ Bounded({})
      <4>1. \A r \in {} : r.id <= 0
        OBVIOUS
      <4> QED
        BY <4>1, FS_EmptySet DEF Bounded
    <3> QED
      BY <1>5, <2>1, <3>1, <3>2
  <2>2. CASE start # "fresh"
    <3>1. made = OldKeys /\ ec = OldEc /\ kem = OldKem(start) /\ spk = OldSigned /\ published = OldBundle(start)
      BY <1>1, <2>2
    <3>2. Citable(published) => start = "drained"
      <4> SUFFICES ASSUME Citable(published), start = "legacy" PROVE FALSE
        BY <1>7, <2>2
      <4> QED
        BY <3>1, OldIsSound DEF Citable
    <3> QED
      BY <2>2, <3>1, <3>2, OldIsSound
  <2> QED
    BY <2>1, <2>2
<1>9. TypeOK
  <2>1. clock \in 0..MaxClock
    BY <1>2, PrekeysAssumption
  <2>2. pc \in [Tasks -> Steps] /\ next \in [Tasks -> Nat]
    BY <1>1 DEF Steps, PassSteps
  <2>3. /\ cites \in [Kex -> [ec : Key, kem : Key, signed : Key, last : BOOLEAN, born : Nat]]
        /\ draft \in [Tasks -> Bundle]
    BY <1>2, <1>5
  <2>4. todo \in [Tasks -> Nat] /\ before \in [Tasks -> SUBSET Tasks]
    BY <1>2
  <2> QED
    BY <1>2, <1>8, <2>1, <2>2, <2>3, <2>4 DEF TypeOK
<1>10. PassSound
  <2>1. (\E r \in spk : r.id = 1) \/ Blank
    BY <1>3, <1>4, <1>8 DEF Blank
  <2>2. ASSUME NEW t \in Tasks
        PROVE  /\ pc[t] \in PassSteps \ {"check", "generate", "publish"} => \E r \in spk : r.id = 1
               /\ pc[t] \in {"prune", "list"} => \E r \in spk : r.id = next[t]
               /\ pc[t] \in {"storeEc", "storeKem"} => todo[t] > 0
               /\ pc[t] # "publish" => draft[t] = NoBundle
    <3>1. CASE pc[t] = "idle"
      BY <1>3, <3>1 DEF PassSteps
    <3>2. CASE pc[t] = "list"
      <4>1. start = "drained" /\ next[t] = 1
        BY <1>3, <3>2
      <4>2. \E r \in spk : r.id = 1
        BY <1>8, <4>1
      <4> QED
        BY <1>3, <3>2, <4>1, <4>2
    <3> QED
      BY <1>3, <3>1, <3>2
  <2>3. ASSUME \/ \E t \in Tasks : pc[t] \in Cleaned \/ Citable(draft[t])
               \/ Citable(published)
               \/ \E k \in Kex : cites[k] # NoCite
        PROVE  \A r \in kem : ~r.round3
    <3>1. start = "drained"
      <4>1. ASSUME NEW t \in Tasks, pc[t] \in Cleaned \/ Citable(draft[t]) PROVE start = "drained"
        <5>1. pc[t] = "list"
          BY <1>3, <1>5, <4>1 DEF Cleaned, PassSteps
        <5> QED
          BY <1>3, <5>1
      <4> QED
        BY <1>4, <1>8, <2>3, <4>1
    <3> QED
      BY <1>8, <3>1
  <2> QED
    BY <2>1, <2>2, <2>3 DEF PassSound
<1>11. UniqueIds /\ Small
  BY <1>8 DEF UniqueIds, Small
<1>12. Dated
  <2>1. \A r \in kem : r.born <= clock
    BY <1>2, <1>8
  <2>2. published.born <= clock
    BY <1>2, <1>8
  <2>3. \A t \in Tasks : draft[t].born <= clock
    BY <1>2, <1>3, <1>5
  <2>4. \A k \in Kex : cites[k].born <= clock
    BY <1>2, <1>4, <1>5
  <2> QED
    BY <2>1, <2>2, <2>3, <2>4 DEF Dated
<1>13. CopiesSound /\ Gone /\ Raced /\ Excused /\ Calm
  <2>1. \A c \in Copies : ~Committing(c)
    BY <1>6 DEF Committing
  <2>2. opened = {} /\ lost = {} /\ spent = {}
    BY <1>2
  <2> QED
    BY <2>1, <2>2 DEF CopiesSound, Gone, Raced, OpenedOnce, Excused, Calm
<1>14. Alone
  <2>1. \A t \in Tasks : Passing(t) => t = first /\ pc[t] = "list"
    BY <1>3 DEF Passing, PassSteps
  <2>2. \A t \in Tasks : pc[t] \notin {"generate", "storeEc", "storeKem", "storeLast", "storeSigned"}
    BY <1>3
  <2> QED
    BY <1>2, <2>1, <2>2 DEF Alone
<1>15. Ordered
  <2>1. \A t \in Tasks : before[t] = {} /\ pc[t] # "publish"
    BY <1>3
  <2> QED
    BY <1>2, <2>1 DEF Ordered
<1>16. Current
  <2> SUFFICES ASSUME NEW b \in Boots, pc[b] # "idle" PROVE \E t \in Tasks : pc[t] \in Unlisted
    BY DEF Current
  <2>1. b \in Tasks
    BY DEF Tasks
  <2>2. pc[b] = "list"
    BY <1>3, <2>1
  <2> QED
    BY <2>1, <2>2 DEF Unlisted, PassSteps
<1>17. Kinds
  <2>1. \A t \in Tasks : draft[t].ec = {} /\ draft[t].kem = {} /\ draft[t].last.key = 0
    BY <1>3, <1>5
  <2>2. \A k \in Kex : cites[k].ec.key = 0 /\ ~cites[k].last /\ cites[k] = NoCite
    BY <1>4, <1>5
  <2>3. CASE start = "fresh"
    <3>1. made = 0 /\ ec = {} /\ kem = {} /\ published = NoBundle
      BY <1>1, <2>3
    <3> SUFFICES ASSUME NEW x \in Nat
                 PROVE  (Curve(x) => x <= made) /\ ~OneTime(x) /\ (LastResort(x) => x <= made)
      BY DEF Kinds
    <3>2. Curve(x) => x = 0
      BY <1>5, <2>1, <2>2, <3>1 DEF Curve
    <3>3. ~OneTime(x)
      BY <1>5, <2>1, <2>2, <3>1 DEF OneTime
    <3>4. LastResort(x) => x = 0
      BY <1>5, <2>1, <2>2, <3>1 DEF LastResort
    <3> QED
      BY <3>1, <3>2, <3>3, <3>4
  <2>4. CASE start # "fresh"
    <3>1. made = OldKeys /\ ec = OldEc /\ kem = OldKem(start) /\ published = OldBundle(start)
      BY <1>1, <2>4
    <3>2. Target \in Nat /\ Target >= 1 /\ made = 3 * Target + 2
      BY <3>1, PrekeysAssumption DEF OldKeys
    <3>3. \A r \in kem : /\ r.id \in 1..2 * Target + 1 /\ r.key = Target + r.id /\ (r.last <=> r.id = 1)
      BY <3>1, OldIsSound
    <3>4. \A r \in ec : r.key <= made
      BY <3>1, OldIsSound
    <3>5. published.ec = ec /\ published.last.key = Target + 1
      BY <3>1, OldIsSound
    <3>6. \A y \in published.kem : \E r \in kem : ~r.last /\ r.key = y.key
      BY <3>1, OldIsSound DEF Public
    <3> SUFFICES ASSUME NEW x \in Nat
                 PROVE  /\ Curve(x) => x <= made
                        /\ OneTime(x) => x \in 1..made /\ ~LastResort(x)
                        /\ LastResort(x) => x <= made
      BY DEF Kinds
    <3>7. Curve(x) => x <= made
      <4> SUFFICES ASSUME Curve(x) PROVE x <= made
        OBVIOUS
      <4>1. (\E r \in ec : r.key = x) \/ x = 0
        BY <2>1, <2>2, <3>5 DEF Curve
      <4> QED
        BY <3>2, <3>4, <4>1
    <3>8. LastResort(x) => x = Target + 1 \/ x = 0
      <4> SUFFICES ASSUME LastResort(x) PROVE x = Target + 1 \/ x = 0
        OBVIOUS
      <4>1. (\E r \in kem : r.last /\ r.key = x) \/ x = Target + 1 \/ x = 0
        BY <2>1, <2>2, <3>5 DEF LastResort
      <4> QED
        BY <3>3, <4>1
    <3>9. OneTime(x) => x \in 1..made /\ x # Target + 1 /\ x # 0
      <4> SUFFICES ASSUME OneTime(x) PROVE x \in 1..made /\ x # Target + 1 /\ x # 0
        OBVIOUS
      <4>1. PICK r \in kem : ~r.last /\ r.key = x
        BY <2>1, <2>2, <3>6 DEF OneTime
      <4>2. r.id \in 2..2 * Target + 1 /\ x = Target + r.id
        BY <3>2, <3>3, <4>1
      <4> QED
        BY <3>2, <4>2
    <3> QED
      BY <3>2, <3>7, <3>8, <3>9
  <2> QED
    BY <2>3, <2>4
\* Only the bundle of "drained" can be cited.
<1>18. Citable(published) =>
         /\ published = OldBundle(start) /\ ec = OldEc /\ kem = OldKem(start) /\ spk = OldSigned /\ start = "drained"
  BY <1>1, <1>8
<1>19. \A t \in Tasks : ~Citable(draft[t])
  BY <1>3, <1>5
<1>20. \A r \in kem : r.born = clock
  BY <1>2, <1>8
<1>21. Citable(published) =>
         \E r \in LastResorts : Public(r) = published.last /\ r.born = published.born /\ published.last.id = 1
  <2> SUFFICES ASSUME Citable(published)
               PROVE  \E r \in LastResorts :
                        Public(r) = published.last /\ r.born = published.born /\ published.last.id = 1
    OBVIOUS
  <2>1. published.last = [id |-> 1, key |-> Target + 1]
    BY <1>18, OldIsSound
  <2>2. PICK r \in kem : r.id = 1
    BY <1>18, OldIsSound
  <2>3. r.key = Target + 1 /\ r.last /\ r.born = 0
    BY <1>18, <2>2, OldIsSound
  <2> QED
    BY <1>8, <2>1, <2>2, <2>3 DEF LastResorts, Public
<1>22. Kept
  <2>1. ASSUME Citable(published) PROVE BundleKept(published)
    <3>1. \A x \in published.ec : EcKept(x)
      <4>1. published.ec = ec /\ \A x \in ec : Public(x) = x
        BY <1>18, <2>1, OldIsSound
      <4> QED
        BY <4>1 DEF EcKept, Holds
    <3>2. published.kem = {}
      BY <1>18, <2>1, OldIsSound
    <3>3. LastKept(published.last, published.born)
      BY <1>21, <2>1 DEF LastKept
    <3>4. SignedKept(published.signed)
      <4>1. published.signed = [id |-> 1, key |-> OldKeys]
        BY <1>18, <2>1, OldIsSound
      <4>2. PICK r \in spk : r.id = 1 /\ r.key = OldKeys
        BY <1>18, <2>1, OldIsSound
      <4>3. Public(r) = published.signed
        BY <4>1, <4>2 DEF Public
      <4> QED
        BY <4>3 DEF SignedKept, Holds
    <3> QED
      BY <3>1, <3>2, <3>3, <3>4 DEF BundleKept
  <2> QED
    BY <1>4, <1>19, <2>1 DEF Kept
<1>23. LastIdsKept
  <2>1. \A t \in Tasks : pc[t] # "storeKem"
    BY <1>3
  <2>2. \A k \in Kex : ~cites[k].last
    BY <1>4, <1>5
  <2>3. ASSUME NEW i \in Nat, LastId(i)
        PROVE  (\E r \in LastResorts : r.id >= i) /\ \A r \in kem : r.id = i => r.last
    <3>1. Citable(published) /\ published.last.id = i
      BY <1>19, <2>2, <2>3 DEF LastId
    <3>2. i = 1 /\ \E r \in LastResorts : r.id >= i
      <4>1. PICK r \in LastResorts : Public(r) = published.last /\ published.last.id = 1
        BY <1>21, <3>1
      <4>2. r.id = 1 /\ i = 1
        <5>1. Public(r).id = r.id
          BY DEF Public
        <5> QED
          BY <3>1, <4>1, <5>1
      <4> QED
        BY <4>2
    <3>3. \A r \in kem : r.id = 1 => r.last
      BY <1>18, <3>1, OldIsSound
    <3> QED
      BY <3>2, <3>3
  <2> QED
    BY <2>1, <2>3 DEF LastIdsKept
<1> QED
  BY <1>9, <1>10, <1>11, <1>12, <1>13, <1>14, <1>15, <1>16, <1>17, <1>22, <1>23 DEF IInv
-----------------------------------------------------------------------------
(* The theorems.                                                             *)

\* Every step of a pass, a peer or a copy preserves the invariant.
LEMMA StepInv == IInv /\ [Next]_vars => IInv'
<1> SUFFICES ASSUME IInv, [Next]_vars PROVE IInv'
  OBVIOUS
<1>1. TypeOK'
  BY TypePreserved
<1>2. PassSound' /\ UniqueIds' /\ Small' /\ Kinds' /\ Dated'
  BY <1>1, PassSoundPreserved, UniquePreserved, SmallPreserved, KindsPreserved, DatedPreserved
<1>3. CopiesSound' /\ Gone' /\ Excused' /\ Alone' /\ Calm' /\ Ordered'
  BY <1>1, CopiesPreserved, GonePreserved, ExcusedPreserved, AlonePreserved, CalmPreserved, OrderedPreserved
<1>4. Raced' /\ Kept' /\ LastIdsKept' /\ Current'
  BY <1>1, <1>2, <1>3, RacedPreserved, KeptPreserved, LastIdsPreserved, CurrentPreserved
<1> QED
  BY <1>1, <1>2, <1>3, <1>4 DEF IInv

\* What the other theorems are read off: it holds in every state of every run.
THEOREM Inductive == Spec => []IInv
<1> QED
  BY InitInv, StepInv, PTL DEF Spec

\* The tables, the bundles and the tasks keep their types (mxc-store/omemo.rs, mxc-omemo/session.rs).
THEOREM TypeCorrect == Spec => []TypeOK
<1>1. IInv => TypeOK
  BY DEF IInv
<1> QED
  BY <1>1, Inductive, PTL

\* A prekey opens one key exchange and a key exchange opens one session, unless decrypt read both
\* before either was stored: mark_kyber_pre_key_used, remove_pre_key and store_session are enough
\* without a lock in every other order.
THEOREM OnePrekeyOneSession == Spec => []OpenedOnce
<1>1. IInv => OpenedOnce
  BY DEF IInv, Raced
<1> QED
  BY <1>1, Inductive, PTL

\* A key exchange that cites a bundle of ours fails only for the reasons the code accepts: its
\* one-time key was used, its last-resort key outlived KEM_PREKEY_MAX_AGE_MS, or two passes of
\* maintain_bundle at once gave one id twice; a key is consumed only by who cites it, and no pass
\* that is alone overwrites a key.
THEOREM CitedResolve == Spec => []CitedKeysResolve
<1>1. IInv => CitedKeysResolve
  <2> SUFFICES ASSUME IInv PROVE CitedKeysResolve
    OBVIOUS
  <2>1. Excused /\ Calm /\ Alone /\ crowded \in BOOLEAN
    BY DEF IInv, TypeOK
  <2>2. ~(spent \subseteq CitedKeys) => overwritten # {} \/ raced # {}
    BY <2>1 DEF Calm
  <2>3. overwritten # {} => crowded
    BY <2>1 DEF Alone
  <2> QED
    BY <2>1, <2>2, <2>3 DEF Excused, CitedKeysResolve
<1> QED
  BY <1>1, Inductive, PTL

\* At rest the server shows a bundle whose every key the store can use, however passes and key
\* exchanges interleaved, if all of their bundles arrived and none overtook a later one.
THEOREM BundleIsUsable == Spec => []AdvertisedUsable
<1>1. IInv => AdvertisedUsable
  <2> SUFFICES ASSUME IInv, Settled, unpublished = {}, ~overtaken PROVE Usable(published)
    BY DEF AdvertisedUsable
  <2>1. \E b \in Boots : pc[b] # "idle"
    BY DEF Settled
  <2>2. ASSUME NEW t \in Tasks PROVE pc[t] \notin Unlisted /\ ~Latest(t)
    <3>1. pc[t] \in {"idle", "done"}
      BY DEF Settled, Quiet
    <3> QED
      BY <3>1 DEF Unlisted, PassSteps, Latest
  <2> QED
    BY <2>1, <2>2 DEF IInv, Current
<1> QED
  BY <1>1, Inductive, PTL

=============================================================================
