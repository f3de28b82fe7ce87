---------------------------- MODULE AccountProofs ---------------------------
(***************************************************************************)
(* Proofs about what an account's device keeps and sends.  Its OMEMO       *)
(* identity: no bundle is signed by two identities, a retired device is    *)
(* gone, an announced one is listed.  Its messages: a tick is never shown  *)
(* for a message the core did not queue, an accepted message is kept, and  *)
(* Outbox implements DeliveryPromise.                                      *)
(***************************************************************************)
EXTENDS Identity, Outbox, TLAPS

-----------------------------------------------------------------------------
(* The identity, its bundle and the device list.                             *)

\* Steps of a regeneration with the row deleted and the old stores still in memory, steps that no
\* task of ours can be at beside a task of ours that relies on the identity unless they overlapped,
\* and steps with stores in hand.
Wiped == {"wipeKeys", "dropSecret", "dropPq", "forget"}
Exclusive == {"storePq", "storeRow", "storePqRow", "fill", "wipe", "retract"} \cup Wiped
Minting == {"mint", "storePq", "storeRow"}
Holding ==
  Minting \cup {"newPq", "pqRow", "storePqRow", "fill", "maintain", "bundle", "fetch", "publish"}

Placed ==
  /\ \A t \in Others : place[t] \in {"idle", "fetch", "publish", "done"}
  /\ \A t \in Uses : place[t] \in {"idle", "done"} \cup LoadSteps
  /\ \A t \in Tasks \ Regens : place[t] \notin RetireSteps /\ old[t] = 0
  /\ \A t \in Regens : place[t] \in {"idle", "capture"} => old[t] = 0

\* Every device id in use was minted.
Minted ==
  /\ row.dev <= minted /\ cache.dev <= minted
  /\ \A t \in Tasks : mem[t].dev <= minted /\ seen[t] <= minted /\ old[t] <= minted

\* Stores in hand have a device, and a list that is about to be published has it too.
Listing ==
  /\ cache = Nobody \/ cache.dev # 0
  /\ \A t \in Own : place[t] \in Holding => mem[t].dev # 0
  /\ \A t \in Inits \cup Regens : place[t] = "done" /\ t \notin cut => mem[t].dev # 0
  /\ \A t \in Tasks : place[t] = "publish" => MyDevice(t) \in ids[t]
  /\ AnnouncedIsListed

Alone == Smooth => \A t, u \in Own : t # u /\ place[t] \in Exclusive => ~Relies(u)

\* What a task has read of the identity and its keys still holds.
ReadsHold(t) ==
  /\ place[t] \in {"secret", "pqSecret"} => seen[t] = row.dev
  /\ place[t] = "pqSecret" => mem[t].dev = seen[t] /\ mem[t].key = secret
  /\ place[t] \in Minting => row.dev = 0 /\ mem[t].key # 0
  /\ place[t] \in {"storePq", "storeRow", "newPq", "pqRow", "storePqRow", "fill", "maintain",
                   "bundle"} =>
       mem[t].key = secret
  /\ place[t] \in {"newPq", "pqRow", "storePqRow", "fill", "maintain", "bundle"} => row.dev # 0
  /\ place[t] \in Wiped => row.dev = 0

SignedSound ==
  Smooth /\ cut \cap Regens = {} =>
    /\ signers \subseteq {secret}
    /\ \A d \in Numbers : bundles[d].signers \subseteq {bundles[d].key}
    /\ row.dev # 0 => secret # 0
    /\ row.dev = 0 => signers = {} \/ \E r \in Regens : place[r] = "wipeKeys"
    /\ cache = Nobody \/ (\E r \in Regens : place[r] \in Wiped) \/ (cache.key = secret /\ row.dev # 0)
    /\ \A t \in Own : ReadsHold(t)

\* The device that a regeneration has retired is nowhere any more.
Gone(t) ==
  LET d == old[t] IN
  /\ row.dev # d
  /\ place[t] \notin Wiped => cache.dev # d
  /\ place[t] \notin Wiped \cup {"retract"} => bundles[d] = NoBundle
  /\ \A u \in Own : /\ place[u] \in {"secret", "pqSecret"} => seen[u] # d
                    /\ place[u] \in Holding \cup {"pqSecret"} => mem[u].dev # d
  /\ place[t] = "publish" => d \notin ids[t]
  /\ place[t] = "done" => d \notin list \ revived

GoneSound ==
  Smooth => \A t \in Regens :
    old[t] # 0 /\ t \notin cut /\ place[t] \notin {"capture", "wipe"} => Gone(t)

\* A task makes a step; Fails and Restart end tasks.
Step(t) == Start(t) \/ Announce(t) \/ (t \in Own /\ Load(t)) \/ (t \in Regens /\ Retire(t))

\* The other tasks stay where they are.
Only(t) ==
  /\ \A u \in Tasks \ {t} : place'[u] = place[u] /\ mem'[u] = mem[u] /\ seen'[u] = seen[u]
                            /\ ids'[u] = ids[u] /\ old'[u] = old[u]
  /\ Overlaps(t)
  /\ place'[t] \in Exclusive => Changing(t)
  /\ cut \subseteq cut' /\ cut' \subseteq cut \cup {t}

LEMMA IdentityConstants ==
  /\ MaxMint \in Nat /\ 0 \in Numbers /\ Numbers \subseteq Nat
  /\ Others \cap Own = {} /\ Uses \cap Regens = {}
  /\ Uses \cap Inits = {} /\ Inits \cap Regens = {} /\ Others \cap Numbers = {}
  /\ Nobody \in Stores /\ NoBundle \in Bundle
  BY IdentityAssumption DEF Numbers, Nobody, Stores, NoBundle, Bundle

LEMMA Holdings ==
  ASSUME NEW m \in Stores, NEW n \in Numbers
  PROVE  /\ [m EXCEPT !.pq = n] \in Stores
         /\ [m EXCEPT !.pq = n].dev = m.dev /\ [m EXCEPT !.pq = n].key = m.key
         /\ m.dev \in Numbers /\ m.key \in Numbers /\ m.pq \in Numbers
  BY DEF Stores

LEMMA IdentityTyped ==
  ASSUME IdentityTypeOK, Listing, [IdentityNext]_identityVars
  PROVE  IdentityTypeOK'
<1> USE IdentityConstants DEF IdentityTypeOK, disk, server, local, At, Overlaps, Go
<1>a. {"cached", "row", "secret", "pqSecret", "newPq", "pqRow", "mint", "storePq", "storeRow", "storePqRow",
       "fill", "capture", "wipe", "wipeKeys", "dropSecret", "dropPq", "forget", "retract",
       "maintain", "bundle", "fetch", "publish", "idle", "done"} = Steps
  BY DEF Steps, LoadSteps, RetireSteps, PublishSteps
<1>b. Own \subseteq Tasks /\ Regens \subseteq Tasks /\ Others \subseteq Tasks
  BY DEF Own, Tasks
<1>c. ASSUME NEW t \in Tasks
      PROVE  mem[t].dev \in Numbers /\ mem[t].key \in Numbers /\ mem[t].pq \in Numbers
  BY Holdings
<1>d. /\ \A d, k, p \in Numbers : [dev |-> d, key |-> k, pq |-> p] \in Stores
      /\ \A k, p \in Numbers, g \in SUBSET Numbers : [key |-> k, pq |-> p, signers |-> g] \in Bundle
      /\ \A d, p \in Numbers : [dev |-> d, pq |-> p] \in [dev : Numbers, pq : Numbers]
  BY DEF Stores, Bundle
<1>e. /\ fails \in Nat /\ MaxFails \in Nat /\ minted \in Nat
      /\ fails < MaxFails => fails + 1 \in 0..MaxFails
      /\ minted < MaxMint => minted + 1 \in Numbers
  BY IdentityAssumption DEF Numbers
<1> USE <1>a, <1>b
<1>1. ASSUME NEW t \in Tasks, Start(t) PROVE IdentityTypeOK'
  BY <1>1 DEF Start
<1>2. ASSUME NEW ts \in SUBSET Tasks, End(ts), cache' \in {cache, Nobody} PROVE IdentityTypeOK'
  <2>1. /\ row' = row /\ secret' = secret /\ pqSecret' = pqSecret /\ signers' = signers
        /\ bundles' = bundles
        /\ list' = list /\ minted' = minted /\ old' = old /\ overlapped' = overlapped
        /\ clobbered' = clobbered /\ revived' = revived /\ cache' \in Stores /\ cut' \subseteq Tasks
        /\ fails' = fails + 1 /\ fails < MaxFails
    BY <1>2 DEF End
  <2>2. /\ place' \in [Tasks -> Steps] /\ mem' \in [Tasks -> Stores] /\ seen' \in [Tasks -> Numbers]
        /\ ids' \in [Tasks -> SUBSET (Numbers \cup Others)]
    BY <1>2 DEF End
  <2> QED
    BY <1>e, <2>1, <2>2
<1>3. ASSUME NEW t \in Tasks, Fails(t) PROVE IdentityTypeOK'
  BY <1>2, <1>3 DEF Fails
<1>4. CASE Restart
  BY <1>2, <1>4 DEF Restart
<1>5. ASSUME NEW t \in Tasks, Maintain(t) PROVE IdentityTypeOK'
  BY <1>5, <1>c DEF Maintain
<1>6. ASSUME NEW t \in Tasks, PublishBundle(t) PROVE IdentityTypeOK'
  BY <1>6, <1>c, <1>d DEF PublishBundle
<1>7. ASSUME NEW t \in Tasks, FetchList(t) PROVE IdentityTypeOK'
  <2>1. MyDevice(t) \in Numbers \cup Others
    BY <1>c DEF MyDevice
  <2>2. ASSUME NEW fetched \in SUBSET (Numbers \cup Others)
        PROVE  WithUs(t, fetched) \subseteq Numbers \cup Others
    BY <2>1, Zenon DEF WithUs
  <2>3. /\ ids' \in [Tasks -> SUBSET (Numbers \cup Others)]
        /\ fails' = fails \/ (fails < MaxFails /\ fails' = fails + 1)
    BY <1>7, <2>2 DEF FetchList
  <2>4. fails' \in 0..MaxFails
    BY <1>e, <2>3
  <2>5. place' \in [Tasks -> Steps] /\ overlapped' \in BOOLEAN
    BY <1>7 DEF FetchList
  <2> QED
    BY <1>7, <2>3, <2>4, <2>5 DEF FetchList
<1>8. ASSUME NEW t \in Tasks, PublishList(t) PROVE IdentityTypeOK'
  BY <1>8 DEF PublishList, MyDevice
<1>9. ASSUME NEW t \in Own, Cached(t) PROVE IdentityTypeOK'
  BY <1>9 DEF Cached, Holds
<1>10. ASSUME NEW t \in Own, ReadRow(t) PROVE IdentityTypeOK'
  BY <1>10 DEF ReadRow
<1>11. ASSUME NEW t \in Own, ReadSecret(t) PROVE IdentityTypeOK'
  <2>1. mem' = [mem EXCEPT ![t] = [dev |-> seen[t], key |-> secret, pq |-> 0]]
    BY <1>11 DEF ReadSecret
  <2>2. mem' \in [Tasks -> Stores]
    BY <1>d, <2>1
  <2> QED
    BY <1>11, <2>2 DEF ReadSecret
<1>12. ASSUME NEW t \in Own, ReadPq(t) PROVE IdentityTypeOK'
  <2>1. minted' \in Numbers /\ mem' \in [Tasks -> Stores]
    <3>1. CASE minted' = minted /\ mem' = [mem EXCEPT ![t].pq = pqSecret]
      BY <3>1, Holdings
    <3>2. CASE minted < MaxMint /\ minted' = minted + 1 /\
               mem' = [mem EXCEPT ![t] = [dev |-> minted', key |-> minted', pq |-> minted']]
      BY <1>d, <1>e, <3>2
    <3> QED
      BY <1>12, <3>1, <3>2 DEF ReadPq
  <2>2. place' \in [Tasks -> Steps] /\ seen' \in [Tasks -> Numbers] /\ overlapped' \in BOOLEAN
    BY <1>12 DEF ReadPq
  <2> QED
    BY <1>12, <2>1, <2>2 DEF ReadPq
<1>13. ASSUME NEW t \in Own, NewPq(t) PROVE IdentityTypeOK'
  <2>1. /\ minted < MaxMint /\ minted' = minted + 1 /\ pqSecret' = minted'
        /\ mem' = [mem EXCEPT ![t].pq = minted']
    BY <1>13 DEF NewPq
  <2>2. minted' \in Numbers
    BY <1>e, <2>1
  <2>3. mem' \in [Tasks -> Stores]
    BY <2>1, <2>2, Holdings
  <2> QED
    BY <1>13, <2>1, <2>2, <2>3 DEF NewPq
<1>14. ASSUME NEW t \in Own, StoreSecret(t) \/ StorePq(t) PROVE IdentityTypeOK'
  <2>1. secret' \in Numbers /\ pqSecret' \in Numbers
    BY <1>14, <1>c DEF StoreSecret, StorePq
  <2>2. place' \in [Tasks -> Steps] /\ overlapped' \in BOOLEAN
    BY <1>14 DEF StoreSecret, StorePq
  <2> QED
    BY <1>14, <2>1, <2>2 DEF StoreSecret, StorePq
<1>15. ASSUME NEW t \in Own, StoreRow(t) \/ StorePqRow(t) PROVE IdentityTypeOK'
  <2>1. CASE StoreRow(t)
    <3>1. row' = [row EXCEPT !.dev = mem[t].dev] /\ mem[t].dev # 0
      BY <2>1 DEF StoreRow, Listing, Holding, Minting
    <3>2. row' \in [dev : Numbers, pq : Numbers] /\ row'.dev # 0
      BY <1>c, <3>1
    <3>3. place' \in [Tasks -> Steps] /\ overlapped' \in BOOLEAN
      BY <2>1 DEF StoreRow
    <3> QED
      BY <2>1, <3>2, <3>3 DEF StoreRow
  <2>2. CASE StorePqRow(t)
    <3>1. row' = IF row.dev = 0 THEN row ELSE [row EXCEPT !.pq = mem[t].pq]
      BY <2>2 DEF StorePqRow
    <3>2. row' \in [dev : Numbers, pq : Numbers] /\ (row'.dev = 0 => row'.pq = 0)
      BY <1>c, <3>1
    <3>3. place' \in [Tasks -> Steps] /\ overlapped' \in BOOLEAN
      BY <2>2 DEF StorePqRow
    <3> QED
      BY <2>2, <3>2, <3>3 DEF StorePqRow
  <2> QED
    BY <1>15, <2>1, <2>2
<1>16. ASSUME NEW t \in Own, Fill(t) PROVE IdentityTypeOK'
  BY <1>16 DEF Fill, Holds
<1>17. ASSUME NEW t \in Regens, Capture(t) \/ WipeRow(t) \/ WipeKeys(t) PROVE IdentityTypeOK'
  <2>1. row' = row \/ row' = [dev |-> 0, pq |-> 0]
    BY <1>17 DEF Capture, WipeRow, WipeKeys
  <2>2. row' \in [dev : Numbers, pq : Numbers] /\ (row'.dev = 0 => row'.pq = 0) /\ row.dev \in Numbers
    BY <1>d, <2>1
  <2>3. place' \in [Tasks -> Steps] /\ overlapped' \in BOOLEAN
    BY <1>17 DEF Capture, WipeRow, WipeKeys
  <2>4. old' \in [Tasks -> Numbers]
    BY <1>17, <2>2 DEF Capture, WipeRow, WipeKeys
  <2>5. signers' \in SUBSET Numbers
    BY <1>17 DEF Capture, WipeRow, WipeKeys
  <2> QED
    BY <1>17, <2>2, <2>3, <2>4, <2>5 DEF Capture, WipeRow, WipeKeys
<1>18. ASSUME NEW t \in Regens, DropSecret(t) \/ DropPq(t) PROVE IdentityTypeOK'
  BY <1>18 DEF DropSecret, DropPq
<1>19. ASSUME NEW t \in Regens, Forget(t) PROVE IdentityTypeOK'
  BY <1>19 DEF Forget
<1>20. ASSUME NEW t \in Regens, Retract(t) PROVE IdentityTypeOK'
  <2>1. /\ bundles' = bundles \/ bundles' = [bundles EXCEPT ![old[t]] = NoBundle]
        /\ fails' = fails \/ (fails < MaxFails /\ fails' = fails + 1)
    BY <1>20 DEF Retract
  <2>2. fails' \in 0..MaxFails
    BY <1>e, <2>1
  <2>3. bundles' \in [Numbers -> Bundle] /\ cut' \subseteq Tasks /\ place' \in [Tasks -> Steps]
        /\ overlapped' \in BOOLEAN
    BY <1>20, <2>1 DEF Retract
  <2> QED
    BY <1>20, <2>2, <2>3 DEF Retract
<1>21. CASE UNCHANGED identityVars
  BY <1>21 DEF identityVars
<1> QED
  BY <1>1, <1>3, <1>4, <1>5, <1>6, <1>7, <1>8, <1>9, <1>10, <1>11, <1>12, <1>13, <1>14, <1>15,
     <1>16, <1>17,
     <1>18, <1>19, <1>20, <1>21 DEF IdentityNext, Announce, Load, Retire

LEMMA OneMoves ==
  ASSUME IdentityTypeOK, NEW t \in Tasks, Step(t)
  PROVE  Only(t)
<1> USE DEF IdentityTypeOK, At, Go, local
<1>1. CASE Start(t)
  BY <1>1 DEF Start, Only, Exclusive, Wiped
<1>2. CASE Announce(t)
  BY <1>2 DEF Announce, Maintain, PublishBundle, FetchList, PublishList, Only, Exclusive, Wiped
<1>3. CASE Cached(t) \/ ReadRow(t) \/ ReadSecret(t) \/ ReadPq(t) 
  BY <1>3 DEF Cached, Holds, ReadRow, ReadSecret, ReadPq, Only, Exclusive, Wiped
<1>4. CASE NewPq(t) \/ StoreSecret(t) \/ StorePq(t) \/ StoreRow(t)
  BY <1>4 DEF NewPq, StoreSecret, StorePq, StoreRow, Only, Changing
<1>5. CASE StorePqRow(t) \/ Fill(t)
  BY <1>5 DEF StorePqRow, Fill, Holds, Only, Changing
<1>6. CASE Retire(t)
  BY <1>6 DEF Retire, Capture, WipeRow, WipeKeys, DropSecret, DropPq, Forget, Retract, Only,
     Changing, RetireSteps
<1> QED
  BY <1>1, <1>2, <1>3, <1>4, <1>5, <1>6 DEF Step, Load

\* Fails and Restart end tasks and, but for the cache, change nothing else.
LEMMA Ended ==
  ASSUME IdentityTypeOK, NEW ts \in SUBSET Tasks, End(ts)
  PROVE  /\ row' = row /\ secret' = secret /\ signers' = signers /\ bundles' = bundles /\ list' = list
         /\ minted' = minted /\ old' = old /\ overlapped' = overlapped /\ clobbered' = clobbered
         /\ revived' = revived /\ cut' = cut \cup ts
         /\ \A u \in ts : place'[u] = "done" /\ mem'[u] = Nobody /\ seen'[u] = 0 /\ ids'[u] = {}
         /\ \A u \in Tasks \ ts :
              place'[u] = place[u] /\ mem'[u] = mem[u] /\ seen'[u] = seen[u] /\ ids'[u] = ids[u]
<1>1. /\ row' = row /\ secret' = secret /\ signers' = signers /\ bundles' = bundles /\ list' = list
      /\ minted' = minted /\ old' = old /\ overlapped' = overlapped /\ clobbered' = clobbered
      /\ revived' = revived /\ cut' = cut \cup ts
  BY DEF End, disk, server
<1>2. ASSUME NEW u \in Tasks
      PROVE  /\ place'[u] = IF u \in ts THEN "done" ELSE place[u]
             /\ mem'[u] = IF u \in ts THEN Nobody ELSE mem[u]
             /\ seen'[u] = IF u \in ts THEN 0 ELSE seen[u]
             /\ ids'[u] = IF u \in ts THEN {} ELSE ids[u]
  BY DEF End
<1> QED
  BY <1>1, <1>2

Ends(ts) ==
  /\ End(ts)
  /\ \/ \E t \in Tasks : /\ place[t] \in {"mint", "storePq", "bundle", "publish"}
                         /\ ts = {t} /\ cache' = cache
     \/ ts = {t \in Own : Working(t)} /\ cache' = Nobody

LEMMA Cases ==
  ASSUME [IdentityNext]_identityVars
  PROVE  (\E t \in Tasks : Step(t)) \/ (\E ts \in SUBSET Tasks : Ends(ts)) \/ UNCHANGED identityVars
<1>1. ASSUME NEW t \in Tasks, Fails(t) PROVE Ends({t})
  BY <1>1 DEF Ends, Fails
<1>2. Restart => Ends({t \in Own : Working(t)})
  BY DEF Ends, Restart
<1>3. {t \in Own : Working(t)} \subseteq Tasks /\ Own \subseteq Tasks /\ Regens \subseteq Tasks
  BY DEF Own, Tasks
<1> QED
  BY <1>1, <1>2, <1>3 DEF IdentityNext, Step, Own, Tasks

LEMMA Kinds ==
  /\ Own \subseteq Tasks /\ Others \subseteq Tasks
  /\ Regens \subseteq Own /\ Uses \subseteq Own /\ Inits \subseteq Own
  /\ Tasks = Own \cup Others /\ Own = Uses \cup Inits \cup Regens
  /\ Others \cap Own = {} /\ Uses \cap Regens = {} /\ Uses \cap Inits = {} /\ Inits \cap Regens = {}
  BY IdentityConstants DEF Own, Tasks

LEMMA PlacedKept ==
  ASSUME IdentityTypeOK, Placed, [IdentityNext]_identityVars
  PROVE  Placed'
<1> USE Kinds DEF Placed
<1>1. ASSUME NEW t \in Tasks, Step(t) PROVE Placed'
  <2>1. Only(t)
    BY <1>1, OneMoves
  <2>2. /\ t \in Others => place'[t] \in {"idle", "fetch", "publish", "done"}
        /\ t \in Uses => place'[t] \in {"idle", "done"} \cup LoadSteps
        /\ t \in Tasks \ Regens => place'[t] \notin RetireSteps /\ old'[t] = 0
        /\ t \in Regens => (place'[t] \in {"idle", "capture"} => old'[t] = 0)
    <3> USE DEF IdentityTypeOK, At, Go, local, LoadSteps, RetireSteps
    <3>1. CASE Start(t)
      BY <1>1, <3>1 DEF Start
    <3>2. CASE Announce(t)
      BY <1>1, <3>2 DEF Announce, Maintain, PublishBundle, FetchList, PublishList
    <3>3. CASE t \in Own /\ (Cached(t) \/ ReadRow(t) \/ ReadSecret(t) \/ ReadPq(t))
      BY <1>1, <3>3 DEF Cached, Holds, ReadRow, ReadSecret, ReadPq
    <3>4. CASE t \in Own /\ (NewPq(t) \/ StoreSecret(t) \/ StorePq(t) \/ StoreRow(t))
      BY <1>1, <3>4 DEF NewPq, StoreSecret, StorePq, StoreRow
    <3>5. CASE t \in Own /\ (StorePqRow(t) \/ Fill(t))
      BY <1>1, <3>5 DEF StorePqRow, Fill, Holds
    <3>6. CASE t \in Regens /\ Retire(t)
      BY <1>1, <3>6 DEF Retire, Capture, WipeRow, WipeKeys, DropSecret, DropPq, Forget, Retract
    <3> QED
      BY <1>1, <3>1, <3>2, <3>3, <3>4, <3>5, <3>6 DEF Step, Load
  <2> QED
    BY <2>1, <2>2 DEF Only
<1>2. ASSUME NEW ts \in SUBSET Tasks, Ends(ts) PROVE Placed'
  <2>1. End(ts)
    BY <1>2 DEF Ends
  <2>2. \A u \in Tasks : (place'[u] = "done" \/ place'[u] = place[u]) /\ old'[u] = old[u]
    BY <2>1, Ended
  <2> QED
    BY <2>2 DEF RetireSteps
<1>3. CASE UNCHANGED identityVars
  BY <1>3 DEF identityVars
<1> QED
  BY <1>1, <1>2, <1>3, Cases

\* Where the device ids come from.
LEMMA Origins ==
  ASSUME IdentityTypeOK, NEW t \in Tasks, Step(t)
  PROVE  /\ minted' = minted \/ (minted' = minted + 1)
         /\ row'.dev \in {row.dev, 0, mem[t].dev} /\ cache'.dev \in {cache.dev, 0, mem[t].dev}
         /\ mem'[t].dev \in {mem[t].dev, 0, cache.dev, seen[t], minted'}
         /\ seen'[t] \in {seen[t], 0, row.dev} /\ old'[t] \in {old[t], row.dev}
<1> USE Kinds DEF IdentityTypeOK, At, Go, local, disk, server, Nobody, Stores
<1>1. CASE Start(t)
  BY <1>1 DEF Start
<1>2. CASE Announce(t)
  BY Step(t), <1>2 DEF Announce, Maintain, PublishBundle, FetchList, PublishList
<1>3. CASE t \in Own /\ (Cached(t) \/ ReadRow(t) \/ ReadSecret(t) \/ ReadPq(t))
  BY <1>3 DEF Cached, Holds, ReadRow, ReadSecret, ReadPq
<1>4. CASE t \in Own /\ (NewPq(t) \/ StoreSecret(t) \/ StorePq(t) \/ StoreRow(t))
  BY <1>4 DEF NewPq, StoreSecret, StorePq, StoreRow
<1>5. CASE t \in Own /\ (StorePqRow(t) \/ Fill(t))
  BY <1>5 DEF StorePqRow, Fill, Holds
<1>6. CASE t \in Regens /\ Retire(t)
  BY <1>6 DEF Retire, Capture, WipeRow, WipeKeys, DropSecret, DropPq, Forget, Retract
<1> QED
  BY <1>1, <1>2, <1>3, <1>4, <1>5, <1>6 DEF Step, Load

LEMMA MintedKept ==
  ASSUME IdentityTypeOK, Minted, [IdentityNext]_identityVars
  PROVE  Minted'
<1>0. /\ minted \in Nat /\ row.dev \in Nat /\ cache.dev \in Nat
      /\ \A t \in Tasks : mem[t].dev \in Nat /\ seen[t] \in Nat /\ old[t] \in Nat
  BY IdentityConstants DEF IdentityTypeOK, Stores
<1>1. ASSUME NEW t \in Tasks, Step(t) PROVE Minted'
  <2>1. Only(t)
    BY <1>1, OneMoves
  <2>2. /\ minted' \in Nat /\ minted <= minted'
        /\ row'.dev \in {row.dev, 0, mem[t].dev} /\ cache'.dev \in {cache.dev, 0, mem[t].dev}
        /\ mem'[t].dev \in {mem[t].dev, 0, cache.dev, seen[t], minted'}
        /\ seen'[t] \in {seen[t], 0, row.dev} /\ old'[t] \in {old[t], row.dev}
    BY <1>0, <1>1, Origins
  <2>3. row'.dev <= minted' /\ cache'.dev <= minted'
    BY <1>0, <2>2 DEF Minted
  <2>4. mem'[t].dev <= minted' /\ seen'[t] <= minted' /\ old'[t] <= minted'
    BY <1>0, <2>2 DEF Minted
  <2>5. ASSUME NEW u \in Tasks \ {t}
        PROVE  mem'[u].dev <= minted' /\ seen'[u] <= minted' /\ old'[u] <= minted'
    <3>1. mem'[u].dev = mem[u].dev /\ seen'[u] = seen[u] /\ old'[u] = old[u]
      BY <2>1 DEF Only
    <3> QED
      BY <1>0, <2>2, <3>1 DEF Minted
  <2> QED
    BY <2>3, <2>4, <2>5 DEF Minted
<1>2. ASSUME NEW ts \in SUBSET Tasks, Ends(ts) PROVE Minted'
  <2>1. End(ts) /\ (cache'.dev = cache.dev \/ cache'.dev = 0)
    BY <1>2 DEF Ends, Nobody
  <2>2. row' = row /\ minted' = minted
    BY <2>1, Ended
  <2>3. ASSUME NEW u \in Tasks PROVE (mem'[u].dev = mem[u].dev \/ mem'[u].dev = 0) /\
                                     (seen'[u] = seen[u] \/ seen'[u] = 0) /\ old'[u] = old[u]
    BY <2>1, Ended DEF Nobody
  <2> QED
    BY <1>0, <2>1, <2>2, <2>3 DEF Minted
<1>3. CASE UNCHANGED identityVars
  BY <1>3 DEF identityVars, Minted
<1> QED
  BY <1>1, <1>2, <1>3, Cases

\* A step that does not make tasks overlap is made while no other task of ours is changing the
\* identity, and none relies on it when the step is part of such a change.
LEMMA Smoothly ==
  ASSUME IdentityTypeOK, NEW t \in Tasks, Step(t), Smooth'
  PROVE  Smooth /\ \A u \in Own \ {t} : Relies(u) => ~Changing(u) /\ ~Changing(t)
<1>1. Overlaps(t)
  BY OneMoves DEF Only
<1> QED
  BY <1>1 DEF Overlaps, Smooth

LEMMA AloneKept ==
  ASSUME IdentityTypeOK, Placed, Alone, [IdentityNext]_identityVars
  PROVE  Alone'
<1> USE Kinds
<1>1. ASSUME NEW t \in Tasks, Step(t) PROVE Alone'
  <2> SUFFICES ASSUME Smooth', NEW x \in Own, NEW y \in Own, x # y, place'[x] \in Exclusive
               PROVE  ~Relies(y)'
    BY DEF Alone
  <2>1. Only(t) /\ Smooth
    BY <1>1, OneMoves, Smoothly
  <2>2. CASE x = t
    <3>1. Changing(t) /\ place'[y] = place[y]
      BY <2>1, <2>2 DEF Only
    <3> QED
      BY <1>1, <2>2, <3>1, Smoothly DEF Relies, Working
  <2>3. CASE x # t
    <3>1. place[x] \in Exclusive
      BY <2>1, <2>3 DEF Only
    <3>2. Relies(x) /\ Changing(x)
      BY <3>1 DEF Relies, Working, Changing, Exclusive, Wiped, RetireSteps
    <3> QED
      BY <1>1, <2>3, <3>2, Smoothly
  <2> QED
    BY <2>2, <2>3
<1>2. ASSUME NEW ts \in SUBSET Tasks, Ends(ts) PROVE Alone'
  <2>1. End(ts)
    BY <1>2 DEF Ends
  <2>2. overlapped' = overlapped /\ \A u \in Tasks : (place'[u] = "done" \/ place'[u] = place[u])
    BY <2>1, Ended
  <2> QED
    BY <2>2 DEF Alone, Smooth, Relies, Working, Exclusive, Wiped
<1>3. CASE UNCHANGED identityVars
  BY <1>3 DEF identityVars, Alone, Smooth, Relies, Working
<1> QED
  BY <1>1, <1>2, <1>3, Cases

\* Stores come into hand with a device, and a list with the device of its task.
LEMMA InHand ==
  ASSUME IdentityTypeOK, Placed, Listing, NEW t \in Tasks, Step(t)
  PROVE  /\ cache' = Nobody \/ cache'.dev # 0
         /\ t \in Own /\ place'[t] \in Holding => mem'[t].dev # 0
         /\ t \in Inits \cup Regens /\ place'[t] = "done" => PublishList(t)
         /\ place'[t] = "publish" => MyDevice(t)' \in ids'[t]
         /\ ~PublishList(t) => list' = list /\ clobbered' = clobbered
         /\ old'[t] # old[t] => old[t] = 0
<1>0. minted \in Nat
  BY IdentityConstants DEF IdentityTypeOK
<1> USE Kinds DEF IdentityTypeOK, Placed, Listing, At, Go, local, server, Nobody, Stores, Holding, Minting
<1>1. CASE Start(t)
  BY <1>0, <1>1 DEF Start, LoadSteps, RetireSteps
<1>2. CASE Announce(t)
  BY Step(t), <1>0, <1>2 DEF Announce, Maintain, PublishBundle, FetchList, PublishList, MyDevice,
     WithUs, LoadSteps, RetireSteps
<1>3. CASE t \in Own /\ (Cached(t) \/ ReadRow(t) \/ ReadSecret(t) \/ ReadPq(t))
  BY <1>0, <1>3 DEF Cached, Holds, ReadRow, ReadSecret, ReadPq, LoadSteps, RetireSteps
<1>4. CASE t \in Own /\ (NewPq(t) \/ StoreSecret(t) \/ StorePq(t) \/ StoreRow(t))
  BY <1>0, <1>4 DEF NewPq, StoreSecret, StorePq, StoreRow, LoadSteps, RetireSteps
<1>5. CASE t \in Own /\ (StorePqRow(t) \/ Fill(t))
  BY <1>0, <1>5 DEF StorePqRow, Fill, Holds, LoadSteps, RetireSteps
<1>6. CASE t \in Regens /\ Retire(t)
  BY <1>0, <1>6 DEF Retire, Capture, WipeRow, WipeKeys, DropSecret, DropPq, Forget, Retract,
     LoadSteps, RetireSteps
<1> QED
  BY <1>0, <1>1, <1>2, <1>3, <1>4, <1>5, <1>6 DEF Step, Load

LEMMA PublishedList ==
  ASSUME IdentityTypeOK, Placed, Listing, NEW t \in Tasks, PublishList(t)
  PROVE  AnnouncedIsListed'
<1> USE Kinds
<1>1. /\ list' = ids[t] /\ clobbered' = (clobbered \cup (list \ (ids[t] \cup {old[t]}))) \ {MyDevice(t)}
      /\ mem' = mem /\ old' = old /\ cut' = cut /\ place[t] = "publish"
      /\ \A u \in Tasks \ {t} : place'[u] = place[u]
  BY DEF PublishList, At, Go, IdentityTypeOK
<1>2. MyDevice(t) \in list'
  BY <1>1 DEF Listing
<1>3. ASSUME NEW d \in list \cup clobbered, d # old[t] PROVE d \in list' \cup clobbered'
  BY <1>1, <1>2, <1>3
<1>4. ASSUME NEW u \in Inits \cup Regens, place'[u] = "done", u \notin cut
      PROVE  mem[u].dev \in list' \cup clobbered' \/ \E r \in Regens : old[r] = mem[u].dev
  <2>1. CASE u = t
    BY <1>2, <2>1 DEF MyDevice
  <2>2. CASE u # t
    <3>1. place[u] = "done" /\ mem[u].dev # 0
      BY <1>1, <1>4, <2>2 DEF Listing
    <3>2. mem[u].dev \in list \cup clobbered \/ \E r \in Regens : old[r] = mem[u].dev
      BY <1>4, <3>1 DEF Listing, AnnouncedIsListed
    <3>3. mem[u].dev = old[t] => t \in Regens
      BY <3>1 DEF Placed
    <3> QED
      BY <1>3, <3>2, <3>3
  <2> QED
    BY <2>1, <2>2
<1>5. ASSUME NEW d \in Others PROVE d \in list' \cup clobbered'
  <2>1. d # old[t]
    BY IdentityConstants DEF IdentityTypeOK
  <2> QED
    BY <1>3, <2>1 DEF Listing, AnnouncedIsListed
<1> QED
  BY <1>1, <1>4, <1>5 DEF AnnouncedIsListed

LEMMA ListingKept ==
  ASSUME IdentityTypeOK, Placed, Listing, [IdentityNext]_identityVars
  PROVE  Listing'
<1> USE Kinds
<1>1. ASSUME NEW t \in Tasks, Step(t) PROVE Listing'
  <2>1. Only(t)
    BY <1>1, OneMoves
  <2>2. /\ cache' = Nobody \/ cache'.dev # 0
        /\ t \in Own /\ place'[t] \in Holding => mem'[t].dev # 0
        /\ t \in Inits \cup Regens /\ place'[t] = "done" => PublishList(t)
        /\ place'[t] = "publish" => MyDevice(t)' \in ids'[t]
        /\ ~PublishList(t) => list' = list /\ clobbered' = clobbered
        /\ old'[t] # old[t] => old[t] = 0
    BY <1>1, InHand
  <2>3. \A u \in Own : place'[u] \in Holding => mem'[u].dev # 0
    BY <2>1, <2>2 DEF Only, Listing
  <2>4. PublishList(t) => mem' = mem /\ place[t] = "publish" /\ cut' = cut
    BY DEF PublishList, At
  <2>5. \A u \in Inits \cup Regens : place'[u] = "done" /\ u \notin cut' => mem'[u].dev # 0
    <3> SUFFICES ASSUME NEW u \in Inits \cup Regens, place'[u] = "done", u \notin cut'
                 PROVE  mem'[u].dev # 0
      OBVIOUS
    <3>1. CASE u = t
      BY <2>2, <2>4, <3>1 DEF Listing, Holding
    <3>2. CASE u # t
      BY <2>1, <3>2 DEF Only, Listing
    <3> QED
      BY <3>1, <3>2
  <2>6. \A u \in Tasks : place'[u] = "publish" => MyDevice(u)' \in ids'[u]
    BY <2>1, <2>2 DEF Only, Listing, MyDevice
  <2>7. AnnouncedIsListed'
    <3>1. CASE PublishList(t)
      BY <3>1, PublishedList
    <3>2. CASE ~PublishList(t)
      <4>1. list' = list /\ clobbered' = clobbered
        BY <2>2, <3>2
      <4>2. ASSUME NEW u \in Inits \cup Regens, place'[u] = "done", u \notin cut'
            PROVE  mem'[u].dev \in list \cup clobbered \/ \E r \in Regens : old'[r] = mem'[u].dev
        <5>1. u # t /\ u \notin cut
          BY <2>1, <2>2, <3>2, <4>2 DEF Only
        <5>2. mem'[u] = mem[u] /\ place[u] = "done"
          BY <2>1, <4>2, <5>1 DEF Only
        <5>3. mem[u].dev # 0
          BY <5>1, <5>2 DEF Listing
        <5>4. \A r \in Regens : old[r] = mem[u].dev => old'[r] = old[r]
          BY <2>1, <2>2, <5>3 DEF Only
        <5> QED
          BY <5>1, <5>2, <5>4 DEF Listing, AnnouncedIsListed
      <4> QED
        BY <4>1, <4>2 DEF Listing, AnnouncedIsListed
    <3> QED
      BY <3>1, <3>2
  <2> QED
    BY <2>2, <2>3, <2>5, <2>6, <2>7 DEF Listing
<1>2. ASSUME NEW ts \in SUBSET Tasks, Ends(ts) PROVE Listing'
  <2>1. End(ts) /\ (cache' = cache \/ cache' = Nobody)
    BY <1>2 DEF Ends
  <2>2. list' = list /\ clobbered' = clobbered /\ old' = old /\ cut' = cut \cup ts
    BY <2>1, Ended
  <2>3. ASSUME NEW u \in Tasks
        PROVE  /\ u \in ts => place'[u] = "done" /\ u \in cut'
               /\ u \notin ts => /\ place'[u] = place[u] /\ mem'[u] = mem[u] /\ ids'[u] = ids[u]
                              /\ MyDevice(u)' = MyDevice(u)
    BY <2>1, Ended DEF MyDevice
  <2>4. AnnouncedIsListed'
    BY <2>2, <2>3 DEF Listing, AnnouncedIsListed
  <2> QED
    BY <2>1, <2>2, <2>3, <2>4 DEF Listing, Holding, Minting
<1>3. CASE UNCHANGED identityVars
  BY <1>3 DEF identityVars, Listing, AnnouncedIsListed, MyDevice
<1> QED
  BY <1>1, <1>2, <1>3, Cases

\* SignedSound as far as the task that makes the step is concerned.
SignedAt(t) ==
  /\ signers \subseteq {secret}
  /\ \A d \in Numbers : bundles[d].signers \subseteq {bundles[d].key}
  /\ row.dev # 0 => secret # 0
  /\ row.dev = 0 => signers = {} \/ (t \in Regens /\ place[t] = "wipeKeys")
  /\ cache = Nobody \/ (t \in Regens /\ place[t] \in Wiped) \/ (cache.key = secret /\ row.dev # 0)
  /\ t \in Own => ReadsHold(t)

LEMMA SignedStep ==
  ASSUME IdentityTypeOK, Placed, Listing, NEW t \in Tasks, Step(t), SignedAt(t), cut' \cap Regens = {}
  PROVE  SignedAt(t)'
<1>0. minted \in Nat
  BY IdentityConstants DEF IdentityTypeOK
<1> USE Kinds DEF IdentityTypeOK, Placed, SignedAt, ReadsHold, At, Go, local, server, disk, Wiped, Minting
<1>1. CASE Start(t)
  BY <1>1 DEF Start
<1>2. CASE Maintain(t) 
  BY <1>2 DEF Maintain
<1>3. CASE PublishBundle(t)
  <2>1. t \in Own /\ mem[t].key = secret
    BY <1>3 DEF PublishBundle
  <2>2. ASSUME NEW d \in Numbers PROVE bundles'[d].signers \subseteq {bundles'[d].key}
    BY <1>3, <2>1 DEF PublishBundle
  <2> QED
    BY <1>3, <2>1, <2>2 DEF PublishBundle
<1>4. CASE FetchList(t) \/ PublishList(t)
  BY <1>4 DEF FetchList, PublishList
<1>5. CASE t \in Own /\ Cached(t)
  BY <1>5 DEF Cached, Holds
<1>6. CASE t \in Own /\ (ReadRow(t) \/ ReadSecret(t))
  BY <1>6 DEF ReadRow, ReadSecret
<1>7. CASE t \in Own /\ ReadPq(t)
  <2>1. /\ place[t] = "pqSecret" /\ row' = row /\ secret' = secret /\ signers' = signers
        /\ bundles' = bundles /\ cache' = cache
    BY <1>7 DEF ReadPq
  <2>2. row.dev = mem[t].dev /\ secret = mem[t].key
    BY <1>7, <2>1
  <2>3. CASE row.dev # 0 /\ secret # 0
    <3>1. place'[t] \in {"newPq", "pqRow"} /\ mem'[t].key = secret
      BY <1>7, <2>2, <2>3 DEF ReadPq, Stores
    <3> QED
      BY <1>7, <2>1, <2>3, <3>1
  <2>4. CASE row.dev = 0
    <3>1. place'[t] = "mint" /\ mem'[t].key = minted'
      BY <1>7, <2>2, <2>4 DEF ReadPq
    <3>2. minted' # 0
      BY <1>0, <1>7, <2>2, <2>4 DEF ReadPq
    <3> QED
      BY <1>7, <2>1, <2>4, <3>1, <3>2
  <2> QED
    BY <2>3, <2>4
<1>8. CASE t \in Own /\ NewPq(t)
  <2>1. place'[t] = "pqRow" /\ place[t] = "newPq" /\ mem'[t].key = mem[t].key
    BY <1>8 DEF NewPq, Stores
  <2> QED
    BY <1>8, <2>1 DEF NewPq
<1>14. CASE t \in Own /\ StoreSecret(t)
  BY <1>14 DEF StoreSecret
<1>15. CASE t \in Own /\ StorePq(t)
  BY <1>15 DEF StorePq
<1>9. CASE t \in Own /\ (StoreRow(t) \/ StorePqRow(t))
  BY <1>9 DEF StoreRow, StorePqRow, Listing, Holding
<1>10. CASE t \in Own /\ Fill(t)
  BY <1>10 DEF Fill, Holds
<1>11. CASE t \in Regens /\ (Capture(t) \/ WipeRow(t) \/ WipeKeys(t))
  BY <1>11 DEF Capture, WipeRow, WipeKeys
<1>12. CASE t \in Regens /\ (DropSecret(t) \/ DropPq(t) \/ Forget(t))
  BY <1>12 DEF DropSecret, DropPq, Forget
<1>13. CASE t \in Regens /\ Retract(t)
  BY <1>13 DEF Retract, NoBundle
<1> QED
  BY <1>1, <1>2, <1>3, <1>4, <1>5, <1>6, <1>7, <1>8, <1>9, <1>10, <1>11, <1>12, <1>13,
     <1>14, <1>15 DEF Step, Announce, Load, Retire

\* Only tasks that are changing the identity touch what the others have read.
LEMMA OthersRead ==
  ASSUME IdentityTypeOK, NEW t \in Tasks, Step(t), Smooth', NEW u \in Own \ {t}, ReadsHold(u)
  PROVE  ReadsHold(u)'
<1>1. (row' = row /\ secret' = secret) \/ Changing(t)
  <2> USE Kinds DEF At, Go, disk, Changing, RetireSteps
  <2>1. CASE Start(t)
    BY <2>1 DEF Start
  <2>2. CASE Announce(t)
    BY Step(t), <2>2 DEF Announce, Maintain, PublishBundle, FetchList, PublishList
  <2>3. CASE t \in Own /\ (Cached(t) \/ ReadRow(t) \/ ReadSecret(t) \/ ReadPq(t))
    BY <2>3 DEF Cached, Holds, ReadRow, ReadSecret, ReadPq
  <2>4. CASE t \in Own /\ (NewPq(t) \/ StoreSecret(t) \/ StorePq(t) \/ StoreRow(t))
    BY <2>4 DEF NewPq, StoreSecret, StorePq, StoreRow
  <2>5. CASE t \in Own /\ (StorePqRow(t) \/ Fill(t))
    BY <2>5 DEF StorePqRow, Fill, Holds
  <2>6. CASE t \in Regens /\ Retire(t)
    BY <2>6 DEF Retire, Capture, WipeRow, WipeKeys, DropSecret, DropPq, Forget, Retract
  <2> QED
    BY <2>1, <2>2, <2>3, <2>4, <2>5, <2>6 DEF Step, Load
<1>2. Only(t)
  BY OneMoves
<1>3. CASE row' = row /\ secret' = secret
  BY <1>2, <1>3, Kinds DEF Only, ReadsHold
<1>4. CASE Changing(t)
  <2>1. ~Relies(u)
    BY <1>4, Smoothly
  <2>2. place'[u] \in {"idle", "done", "cached"}
    BY <1>2, <2>1, Kinds DEF Only, Relies, Working
  <2> QED
    BY <2>2 DEF ReadsHold, Wiped, Minting
<1> QED
  BY <1>1, <1>3, <1>4

LEMMA SignedKept ==
  ASSUME IdentityTypeOK, Placed, Listing, SignedSound, [IdentityNext]_identityVars
  PROVE  SignedSound'
<1> USE Kinds
<1>1. ASSUME NEW t \in Tasks, Step(t) PROVE SignedSound'
  <2> SUFFICES ASSUME Smooth', cut' \cap Regens = {} 
               PROVE  /\ SignedAt(t)'
                      /\ \A u \in Own \ {t} : ReadsHold(u)'
    BY DEF SignedSound, SignedAt
  <2>1. Only(t) /\ Smooth /\ cut \cap Regens = {}
    BY <1>1, OneMoves, Smoothly DEF Only
  <2>2. ASSUME NEW r \in Regens, place[r] \in Wiped PROVE r = t
    <3>1. Relies(r) /\ Changing(r)
      BY <2>2 DEF Relies, Working, Changing, Wiped, RetireSteps
    <3> QED
      BY <1>1, <3>1, Smoothly
  <2>3. \A u \in Own : ReadsHold(u)
    BY <2>1 DEF SignedSound
  <2>4. SignedAt(t)
    BY <2>1, <2>2, <2>3 DEF SignedSound, SignedAt, Wiped
  <2> QED
    BY <1>1, <2>3, <2>4, SignedStep, OthersRead
<1>2. ASSUME NEW ts \in SUBSET Tasks, Ends(ts) PROVE SignedSound'
  <2> SUFFICES ASSUME Smooth', cut' \cap Regens = {} PROVE SignedSound'
    BY DEF SignedSound
  <2>1. End(ts) /\ (cache' = cache \/ cache' = Nobody)
    BY <1>2 DEF Ends
  <2>2. /\ row' = row /\ secret' = secret /\ signers' = signers /\ bundles' = bundles
        /\ overlapped' = overlapped /\ cut' = cut \cup ts
    BY <2>1, Ended
  <2>3. ts \cap Regens = {} /\ cut \cap Regens = {} /\ Smooth
    BY <2>2 DEF Smooth
  <2>4. ASSUME NEW u \in Own
        PROVE  /\ u \in ts => place'[u] = "done"
               /\ u \notin ts => place'[u] = place[u] /\ mem'[u] = mem[u] /\ seen'[u] = seen[u]
    BY <2>1, Ended
  <2>5. \A u \in Own : ReadsHold(u)'
    BY <2>2, <2>3, <2>4 DEF SignedSound, ReadsHold, Wiped, Minting
  <2>6. \A r \in Regens : place'[r] = place[r]
    BY <2>3, <2>4
  <2> QED
    BY <2>1, <2>2, <2>3, <2>5, <2>6 DEF SignedSound
<1>3. CASE UNCHANGED identityVars
  BY <1>3 DEF identityVars, SignedSound, Smooth, ReadsHold
<1> QED
  BY <1>1, <1>2, <1>3, Cases

\* The regenerations that have deleted the row of a device and were not cut short.
Retiring(t) == old[t] # 0 /\ t \notin cut /\ place[t] \notin {"capture", "wipe"}

\* No step of any task brings the retired device back.
LEMMA GoneStep ==
  ASSUME IdentityTypeOK, Placed, Minted, NEW t \in Tasks, Step(t), NEW x \in Regens, Gone(x), Only(t),
         old[x] # 0, old'[x] = old[x], x \notin cut', place[x] \in Wiped => x = t
  PROVE  Gone(x)'
<1> DEFINE d == old[x]
<1>0. d \in Numbers /\ d # 0 /\ minted + 1 # d /\ minted + 1 # 0 /\ minted \in Nat
  BY IdentityConstants, Kinds DEF IdentityTypeOK, Minted
<1>1. /\ row.dev # d
      /\ place[x] \notin Wiped => cache.dev # d
      /\ place[x] \notin Wiped \cup {"retract"} => bundles[d] = NoBundle
      /\ \A u \in Own : /\ place[u] \in {"secret", "pqSecret"} => seen[u] # d
                        /\ place[u] \in Holding \cup {"pqSecret"} => mem[u].dev # d
      /\ place[x] = "publish" => d \notin ids[x]
      /\ place[x] = "done" => d \notin list \ revived
  BY DEF Gone
<1>2. \A u \in Tasks \ {t} :
        place'[u] = place[u] /\ mem'[u] = mem[u] /\ seen'[u] = seen[u] /\ ids'[u] = ids[u]
  BY DEF Only
<1> HIDE DEF d
<1> USE Kinds DEF IdentityTypeOK, At, Go, disk, server, local
<1>3. row'.dev # d
  <2> USE DEF Holding, Minting
  <2>1. CASE Start(t)
    BY <1>0, <1>1, <2>1 DEF Start
  <2>2. CASE Announce(t)
    BY Step(t), <1>0, <1>1, <2>2 DEF Announce, Maintain, PublishBundle, FetchList, PublishList
  <2>3. CASE t \in Own /\ (Cached(t) \/ ReadRow(t) \/ ReadSecret(t) \/ ReadPq(t))
    BY <1>0, <1>1, <2>3 DEF Cached, Holds, ReadRow, ReadSecret, ReadPq
  <2>4. CASE t \in Own /\ (NewPq(t) \/ StoreSecret(t) \/ StorePq(t) \/ StoreRow(t))
    BY <1>0, <1>1, <2>4 DEF NewPq, StoreSecret, StorePq, StoreRow
  <2>5. CASE t \in Own /\ (StorePqRow(t) \/ Fill(t))
    BY <1>0, <1>1, <2>5 DEF StorePqRow, Fill, Holds
  <2>6. CASE t \in Regens /\ Retire(t)
    BY <1>0, <1>1, <2>6 DEF Retire, Capture, WipeRow, WipeKeys, DropSecret, DropPq, Forget, Retract
  <2> QED
    BY <1>0, <1>1, <2>1, <2>2, <2>3, <2>4, <2>5, <2>6 DEF Step, Load
<1>4. place'[x] \notin Wiped => cache'.dev # d
  <2> USE DEF Holding, Minting, Wiped, Nobody
  <2>1. CASE Start(t)
    BY <1>0, <1>1, <1>2, <2>1 DEF Start
  <2>2. CASE Announce(t)
    BY Step(t), <1>0, <1>1, <1>2, <2>2 DEF Announce, Maintain, PublishBundle, FetchList, PublishList
  <2>3. CASE t \in Own /\ (Cached(t) \/ ReadRow(t) \/ ReadSecret(t) \/ ReadPq(t))
    BY <1>0, <1>1, <1>2, <2>3 DEF Cached, Holds, ReadRow, ReadSecret, ReadPq
  <2>4. CASE t \in Own /\ (NewPq(t) \/ StoreSecret(t) \/ StorePq(t) \/ StoreRow(t))
    BY <1>0, <1>1, <1>2, <2>4 DEF NewPq, StoreSecret, StorePq, StoreRow
  <2>5. CASE t \in Own /\ (StorePqRow(t) \/ Fill(t))
    BY <1>0, <1>1, <1>2, <2>5 DEF StorePqRow, Fill, Holds
  <2>6. CASE t \in Regens /\ Retire(t)
    BY <1>0, <1>1, <1>2, <2>6 DEF Retire, Capture, WipeRow, WipeKeys, DropSecret, DropPq, Forget,
       Retract
  <2> QED
    BY <1>0, <1>1, <1>2, <2>1, <2>2, <2>3, <2>4, <2>5, <2>6 DEF Step, Load
<1>5. place'[x] \notin Wiped \cup {"retract"} => bundles'[d] = NoBundle
  <2> USE DEF Holding, Minting, Wiped
  <2>1. CASE Start(t)
    BY <1>0, <1>1, <1>2, <2>1 DEF Start, Placed, d
  <2>2. CASE Announce(t)
    <3>1. CASE PublishBundle(t)
      <4>1. t \in Own /\ place[t] = "bundle"
        BY <3>1 DEF PublishBundle, Placed
      <4>2. mem[t].dev # d
        BY <1>1, <4>1
      <4> QED
        BY <1>0, <1>1, <1>2, <3>1, <4>1, <4>2 DEF PublishBundle
    <3>2. CASE Maintain(t) \/ FetchList(t) \/ PublishList(t)
      BY <1>1, <1>2, <3>2 DEF Maintain, FetchList, PublishList
    <3> QED
      BY <2>2, <3>1, <3>2 DEF Announce
  <2>3. CASE t \in Own /\ (Cached(t) \/ ReadRow(t) \/ ReadSecret(t) \/ ReadPq(t))
    BY <1>0, <1>1, <1>2, <2>3 DEF Cached, Holds, ReadRow, ReadSecret, ReadPq, Placed, d
  <2>4. CASE t \in Own /\ (NewPq(t) \/ StoreSecret(t) \/ StorePq(t) \/ StoreRow(t))
    BY <1>0, <1>1, <1>2, <2>4 DEF NewPq, StoreSecret, StorePq, StoreRow, Placed, d
  <2>5. CASE t \in Own /\ (StorePqRow(t) \/ Fill(t))
    BY <1>0, <1>1, <1>2, <2>5 DEF StorePqRow, Fill, Holds, Placed, d
  <2>6. CASE t \in Regens /\ Retire(t)
    <3>1. CASE Retract(t)
      <4>1. bundles' = [bundles EXCEPT ![old[t]] = NoBundle] \/ (bundles' = bundles /\ t \in cut')
        BY <3>1 DEF Retract
      <4>2. place[t] = "retract" /\ old[t] \in Numbers
        BY <2>6, <3>1 DEF Retract
      <4>3. CASE t = x
        BY <1>0, <4>1, <4>3 DEF d
      <4>4. CASE t # x
        <5>1. bundles[d] = NoBundle \/ place'[x] \in Wiped \cup {"retract"}
          BY <1>1, <1>2, <4>4
        <5> QED
          BY <1>0, <4>1, <4>2, <5>1
      <4> QED
        BY <4>3, <4>4
    <3>2. CASE Capture(t) \/ WipeRow(t) \/ WipeKeys(t) \/ DropSecret(t) \/ DropPq(t)
      BY <1>1, <1>2, <2>6, <3>2 DEF Capture, WipeRow, WipeKeys, DropSecret, DropPq
    <3>3. CASE Forget(t)
      <4>1. bundles' = bundles
        BY <3>3 DEF Forget
      <4>2. t = x => place'[x] \in {"cached", "retract"} /\ (place'[x] = "cached" => d = 0)
        BY <2>6, <3>3 DEF Forget, d
      <4> QED
        BY <1>0, <1>1, <1>2, <4>1, <4>2
    <3> QED
      BY <2>6, <3>1, <3>2, <3>3 DEF Retire
  <2> QED
    BY <1>0, <1>1, <1>2, <2>1, <2>2, <2>3, <2>4, <2>5, <2>6 DEF Step, Load
<1>6. ASSUME t \in Own
      PROVE  /\ place'[t] \in {"secret", "pqSecret"} => seen'[t] # d
             /\ place'[t] \in Holding \cup {"pqSecret"} => mem'[t].dev # d
  <2> USE DEF Holding, Minting, Wiped
  <2>1. CASE Start(t)
    BY <1>0, <1>1, <1>2, <1>6, <2>1 DEF Start, Stores, Placed
  <2>2. CASE Announce(t)
    BY Step(t), <1>0, <1>1, <1>2, <1>6, <2>2 DEF Announce, Maintain, PublishBundle, FetchList,
       PublishList, Stores, Placed
  <2>3. CASE t \in Own /\ (Cached(t) \/ ReadRow(t) \/ ReadSecret(t) \/ ReadPq(t))
    BY <1>0, <1>1, <1>2, <1>6, <2>3 DEF Cached, Holds, ReadRow, ReadSecret, ReadPq, Stores, Placed
  <2>4. CASE t \in Own /\ (NewPq(t) \/ StoreSecret(t) \/ StorePq(t) \/ StoreRow(t))
    BY <1>0, <1>1, <1>2, <1>6, <2>4 DEF NewPq, StoreSecret, StorePq, StoreRow, Stores, Placed
  <2>5. CASE t \in Own /\ (StorePqRow(t) \/ Fill(t))
    BY <1>0, <1>1, <1>2, <1>6, <2>5 DEF StorePqRow, Fill, Holds, Stores, Placed
  <2>6. CASE t \in Regens /\ Retire(t)
    BY <1>0, <1>1, <1>2, <1>6, <2>6 DEF Retire, Capture, WipeRow, WipeKeys, DropSecret, DropPq,
       Forget, Retract, Stores, Placed
  <2> QED
    BY <1>0, <1>1, <1>2, <1>6, <2>1, <2>2, <2>3, <2>4, <2>5, <2>6 DEF Step, Load
<1>7. place'[x] = "publish" => d \notin ids'[x]
  <2> USE DEF Holding, Minting, Wiped
  <2>1. CASE Start(t)
    BY <1>0, <1>1, <1>2, <2>1 DEF Start
  <2>2. CASE Announce(t)
    BY Step(t), <1>0, <1>1, <1>2, <2>2 DEF Announce, Maintain, PublishBundle, FetchList,
       PublishList, WithUs, MyDevice, d
  <2>3. CASE t \in Own /\ (Cached(t) \/ ReadRow(t) \/ ReadSecret(t) \/ ReadPq(t))
    BY <1>0, <1>1, <1>2, <2>3 DEF Cached, Holds, ReadRow, ReadSecret, ReadPq
  <2>4. CASE t \in Own /\ (NewPq(t) \/ StoreSecret(t) \/ StorePq(t) \/ StoreRow(t))
    BY <1>0, <1>1, <1>2, <2>4 DEF NewPq, StoreSecret, StorePq, StoreRow
  <2>5. CASE t \in Own /\ (StorePqRow(t) \/ Fill(t))
    BY <1>0, <1>1, <1>2, <2>5 DEF StorePqRow, Fill, Holds
  <2>6. CASE t \in Regens /\ Retire(t)
    BY <1>0, <1>1, <1>2, <2>6 DEF Retire, Capture, WipeRow, WipeKeys, DropSecret, DropPq, Forget,
       Retract
  <2> QED
    BY <1>0, <1>1, <1>2, <2>1, <2>2, <2>3, <2>4, <2>5, <2>6 DEF Step, Load
<1>8. place'[x] = "done" => d \notin list' \ revived'
  <2>1. CASE PublishList(t)
    <3>1. /\ list' = ids[t] /\ place[t] = "publish"
          /\ revived' = revived \cup (ids[t] \ (list \cup {MyDevice(t)}))
      BY <2>1 DEF PublishList
    <3>2. d # MyDevice(t)
      BY <1>0, <1>1, <3>1, IdentityConstants DEF MyDevice, Holding
    <3> QED
      BY <1>1, <1>2, <3>1, <3>2
  <2>2. CASE ~PublishList(t)
    <3>1. list' = list /\ revived' = revived /\ (place'[x] = "done" => place[x] = "done")
      <4> USE DEF LoadSteps, RetireSteps
      <4>1. CASE Start(t)
        BY <1>2, <2>2, <4>1 DEF Start
      <4>2. CASE Announce(t)
        BY Step(t), <1>2, <2>2, <4>2 DEF Announce, Maintain, PublishBundle, FetchList, PublishList
      <4>3. CASE t \in Own /\ (Cached(t) \/ ReadRow(t) \/ ReadSecret(t) \/ ReadPq(t))
        BY <1>2, <2>2, <4>3 DEF Cached, Holds, ReadRow, ReadSecret, ReadPq
      <4>4. CASE t \in Own /\ (NewPq(t) \/ StoreSecret(t) \/ StorePq(t) \/ StoreRow(t))
        BY <1>2, <2>2, <4>4 DEF NewPq, StoreSecret, StorePq, StoreRow
      <4>5. CASE t \in Own /\ (StorePqRow(t) \/ Fill(t))
        BY <1>2, <2>2, <4>5 DEF StorePqRow, Fill, Holds
      <4>6. CASE t \in Regens /\ Retire(t)
        BY <1>2, <2>2, <4>6 DEF Retire, Capture, WipeRow, WipeKeys, DropSecret, DropPq, Forget,
           Retract
      <4> QED
        BY <1>2, <2>2, <4>1, <4>2, <4>3, <4>4, <4>5, <4>6 DEF Step, Load
    <3> QED
      BY <1>1, <3>1
  <2> QED
    BY <2>1, <2>2
<1> QED
  BY <1>2, <1>3, <1>4, <1>5, <1>6, <1>7, <1>8 DEF Gone, d

LEMMA GoneKept ==
  ASSUME IdentityTypeOK, Placed, Minted, Alone, GoneSound, [IdentityNext]_identityVars
  PROVE  GoneSound'
<1> USE Kinds
<1>1. ASSUME NEW t \in Tasks, Step(t) PROVE GoneSound'
  <2> SUFFICES ASSUME Smooth', NEW x \in Regens, Retiring(x)' PROVE Gone(x)'
    BY DEF GoneSound, Retiring
  <2>1. Only(t) /\ Smooth
    BY <1>1, OneMoves, Smoothly
  <2>2. old'[x] # 0 /\ x \notin cut' /\ place'[x] \notin {"capture", "wipe"}
    BY DEF Retiring
  <2>3. CASE x = t /\ WipeRow(t)
    <3>1. row'.dev = 0 /\ place'[t] = "wipeKeys" /\ place[t] = "wipe"
      BY <2>3 DEF WipeRow, At, Go, IdentityTypeOK
    <3>2. \A u \in Own \ {t} : ~Relies(u)
      BY <2>1, <2>3, <3>1 DEF Alone, Exclusive
    <3>3. \A u \in Own \ {t} : place'[u] \in {"idle", "done", "cached"}
      BY <2>1, <3>2 DEF Only, Relies, Working
    <3> QED
      BY <2>2, <2>3, <3>1, <3>3 DEF Gone, Wiped, Holding, Minting
  <2>4. CASE ~(x = t /\ WipeRow(t))
    <3>1. old'[x] = old[x]
      <4>1. CASE x # t
        BY <2>1, <4>1 DEF Only
      <4>2. CASE x = t
        <5>1. ~Capture(t)
          BY <2>2, <4>2 DEF Capture, Go, IdentityTypeOK
        <5> USE DEF local
        <5>7. CASE Start(t)
          BY <1>1, <5>1, <5>7 DEF Start
        <5>2. CASE Announce(t)
          BY <1>1, <5>1, <5>2 DEF Announce, Maintain, PublishBundle, FetchList, PublishList
        <5>3. CASE t \in Own /\ (Cached(t) \/ ReadRow(t) \/ ReadSecret(t) \/ ReadPq(t))
          BY <1>1, <5>1, <5>3 DEF Cached, Holds, ReadRow, ReadSecret, ReadPq
        <5>4. CASE t \in Own /\ (NewPq(t) \/ StoreSecret(t) \/ StorePq(t) \/ StoreRow(t))
          BY <1>1, <5>1, <5>4 DEF NewPq, StoreSecret, StorePq, StoreRow
        <5>5. CASE t \in Own /\ (StorePqRow(t) \/ Fill(t))
          BY <1>1, <5>1, <5>5 DEF StorePqRow, Fill, Holds
        <5>6. CASE t \in Regens /\ Retire(t)
          BY <1>1, <5>1, <5>6 DEF Retire, Capture, WipeRow, WipeKeys, DropSecret, DropPq, Forget,
             Retract
        <5> QED
          BY <1>1, <5>1, <5>7, <5>2, <5>3, <5>4, <5>5, <5>6 DEF Step, Load
      <4> QED
        BY <4>1, <4>2
    <3>2. place[x] \notin {"capture", "wipe"}
      <4>1. CASE x # t
        BY <2>1, <2>2, <4>1 DEF Only
      <4>2. CASE x = t
        <5>1. ~Capture(t) /\ ~WipeRow(t)
          BY <2>2, <2>4, <4>2 DEF Capture, Go, IdentityTypeOK
        <5> USE <4>2 DEF At
        <5>7. CASE Start(t)
          BY <1>1, <5>1, <5>7 DEF Start
        <5>2. CASE Announce(t)
          BY <1>1, <5>1, <5>2 DEF Announce, Maintain, PublishBundle, FetchList, PublishList
        <5>3. CASE t \in Own /\ (Cached(t) \/ ReadRow(t) \/ ReadSecret(t) \/ ReadPq(t))
          BY <1>1, <5>1, <5>3 DEF Cached, Holds, ReadRow, ReadSecret, ReadPq
        <5>4. CASE t \in Own /\ (NewPq(t) \/ StoreSecret(t) \/ StorePq(t) \/ StoreRow(t))
          BY <1>1, <5>1, <5>4 DEF NewPq, StoreSecret, StorePq, StoreRow
        <5>5. CASE t \in Own /\ (StorePqRow(t) \/ Fill(t))
          BY <1>1, <5>1, <5>5 DEF StorePqRow, Fill, Holds
        <5>6. CASE t \in Regens /\ Retire(t)
          BY <1>1, <5>1, <5>6 DEF Retire, Capture, WipeRow, WipeKeys, DropSecret, DropPq, Forget,
             Retract
        <5> QED
          BY <1>1, <5>1, <5>7, <5>2, <5>3, <5>4, <5>5, <5>6 DEF Step, Load
      <4> QED
        BY <4>1, <4>2
    <3>3. Retiring(x)
      BY <2>1, <2>2, <3>1, <3>2 DEF Retiring, Only
    <3>4. Gone(x)
      BY <2>1, <3>3 DEF GoneSound, Retiring
    <3>5. place[x] \in Wiped => x = t
      <4>1. place[x] \in Wiped => Relies(x) /\ Changing(x)
        BY DEF Relies, Working, Changing, Wiped, RetireSteps
      <4> QED
        BY <1>1, <4>1, Smoothly
    <3> QED
      BY <1>1, <2>1, <2>2, <3>1, <3>3, <3>4, <3>5, GoneStep DEF Retiring
  <2> QED
    BY <2>3, <2>4
<1>2. ASSUME NEW ts \in SUBSET Tasks, Ends(ts) PROVE GoneSound'
  <2> SUFFICES ASSUME Smooth', NEW x \in Regens, Retiring(x)' PROVE Gone(x)'
    BY DEF GoneSound, Retiring
  <2>1. End(ts) /\ (cache' = cache \/ cache' = Nobody)
    BY <1>2 DEF Ends
  <2>2. /\ row' = row /\ bundles' = bundles /\ list' = list /\ revived' = revived /\ old' = old
        /\ overlapped' = overlapped /\ cut' = cut \cup ts
    BY <2>1, Ended
  <2>3. ASSUME NEW u \in Tasks
        PROVE  /\ u \in ts => place'[u] = "done"
               /\ u \notin ts => /\ place'[u] = place[u] /\ mem'[u] = mem[u]
                              /\ seen'[u] = seen[u] /\ ids'[u] = ids[u]
    BY <2>1, Ended
  <2>4. x \notin ts /\ Retiring(x) /\ Smooth
    BY <2>2, <2>3 DEF Retiring, Smooth
  <2>5. Gone(x) /\ old[x] # 0
    BY <2>4 DEF GoneSound, Retiring
  <2> QED
    BY <2>1, <2>2, <2>3, <2>4, <2>5 DEF Gone, Nobody, Holding, Minting
<1>3. CASE UNCHANGED identityVars
  BY <1>3 DEF identityVars, GoneSound, Smooth, Gone
<1> QED
  BY <1>1, <1>2, <1>3, Cases

\* The inductive invariant.
IdentityInv == IdentityTypeOK /\ Placed /\ Minted /\ Listing /\ Alone /\ SignedSound /\ GoneSound

\* What the theorems about the identity are read off: it holds through any failures and restarts.
THEOREM IdentityInductive == IdentitySpec => []IdentityInv
<1>1. IdentityInit => IdentityInv
  <2> SUFFICES ASSUME IdentityInit PROVE IdentityInv
    OBVIOUS
  <2>1. PICK me \in {0, 1}, pq \in {0, 1} :
          /\ me = 0 => pq = 0
          /\ row = [dev |-> me, pq |-> pq] /\ secret = me /\ pqSecret = pq
          /\ signers = IF me = 0 THEN {} ELSE {me}
          /\ list = IF me = 0 THEN Others ELSE Others \cup {me}
          /\ bundles = [d \in Numbers |-> IF d = me /\ me # 0
                                            THEN [key |-> me, pq |-> pq, signers |-> {me}]
                                            ELSE NoBundle]
          /\ minted = me
    <3>1. PICK start \in Starts :
            LET m == IF start = "fresh" THEN 0 ELSE 1
                p == IF start = "full" THEN 1 ELSE 0
            IN /\ row = [dev |-> m, pq |-> p]
               /\ secret = m /\ pqSecret = p
               /\ signers = IF m = 0 THEN {} ELSE {m}
               /\ list = IF m = 0 THEN Others ELSE Others \cup {m}
               /\ bundles = [d \in Numbers |-> IF d = m /\ m # 0
                                                 THEN [key |-> m, pq |-> p, signers |-> {m}]
                                                 ELSE NoBundle]
               /\ minted = m
      BY DEF IdentityInit
    <3>2. CASE start = "fresh"
      BY <3>1, <3>2
    <3>3. CASE start = "full"
      BY <3>1, <3>3
    <3>4. CASE start \notin {"fresh", "full"}
      BY <3>1, <3>4
    <3> QED
      BY <3>2, <3>3, <3>4
  <2>2. /\ cache = Nobody /\ fails = 0 /\ overlapped = FALSE /\ clobbered = {} /\ revived = {} /\ cut = {}
        /\ place = [t \in Tasks |-> "idle"] /\ mem = [t \in Tasks |-> Nobody] /\ seen = [t \in Tasks |-> 0]
        /\ ids = [t \in Tasks |-> {}] /\ old = [t \in Tasks |-> 0]
    BY DEF IdentityInit
  <2>3. me \in Numbers /\ pq \in Numbers /\ 0 \in 0..MaxFails
    BY IdentityAssumption DEF Numbers
  <2>4. IdentityTypeOK
    <3>1. row \in [dev : Numbers, pq : Numbers] /\ (row.dev = 0 => row.pq = 0)
      BY <2>1, <2>3
    <3>2. bundles \in [Numbers -> Bundle]
      BY <2>1, <2>3, IdentityConstants DEF Bundle
    <3>3. signers \subseteq Numbers /\ list \subseteq Numbers \cup Others
      BY <2>1, <2>3
    <3> QED
      BY <2>1, <2>2, <2>3, <3>1, <3>2, <3>3, IdentityConstants DEF IdentityTypeOK, Steps
  <2>5. Placed
    BY <2>2, Kinds DEF Placed, LoadSteps, RetireSteps
  <2>6. Minted
    BY <2>1, <2>2 DEF Minted, Nobody
  <2>7. Listing
    BY <2>1, <2>2, Kinds DEF Listing, AnnouncedIsListed, Holding, Minting
  <2>8. Alone
    BY <2>2, Kinds DEF Alone, Exclusive, Wiped
  <2>9. SignedSound
    <3>1. \A t \in Own : ReadsHold(t)
      BY <2>2, Kinds DEF ReadsHold, Wiped, Minting
    <3>2. \A d \in Numbers : bundles[d].signers \subseteq {bundles[d].key}
      BY <2>1 DEF NoBundle
    <3> QED
      BY <2>1, <2>2, <3>1, <3>2 DEF SignedSound
  <2>10. GoneSound
    BY <2>2, Kinds DEF GoneSound
  <2> QED
    BY <2>4, <2>5, <2>6, <2>7, <2>8, <2>9, <2>10 DEF IdentityInv
<1>2. IdentityInv /\ [IdentityNext]_identityVars => IdentityInv'
  BY IdentityTyped, PlacedKept, MintedKept, ListingKept, AloneKept, SignedKept, GoneKept DEF
     IdentityInv
<1> QED
  BY <1>1, <1>2, PTL DEF IdentitySpec

\* Every reachable state of the identity's stores, of its tasks and of what is published is well typed.
THEOREM IdentityTypes == IdentitySpec => []IdentityTypeOK
<1>1. IdentityInv => IdentityTypeOK
  BY DEF IdentityInv
<1> QED
  BY <1>1, IdentityInductive, PTL

\* No bundle carries a prekey that another identity signed, unless tasks overlapped or a regeneration
\* was cut short: the prekeys go before the next identity is minted, and whoever signs or publishes
\* holds the key that is stored (regenerate_own_identity, maintain_and_republish).
THEOREM Signed == IdentitySpec => []BundlesSigned
<1>1. IdentityInv => BundlesSigned
  BY DEF IdentityInv, SignedSound, BundlesSigned
<1> QED
  BY <1>1, IdentityInductive, PTL

\* A device that a regeneration retired is not published again, neither its bundle nor its place on
\* the list: nobody holds its stores any more, and a list that names it is based on an older fetch
\* (regenerate_own_identity, publish_device_list_replacing).
THEOREM Retired == IdentitySpec => []RetiredIsGone
<1>1. IdentityInv => RetiredIsGone
  BY DEF IdentityInv, GoneSound, Gone, RetiredIsGone, Wiped
<1> QED
  BY <1>1, IdentityInductive, PTL

\* A device that was announced is on the list as long as no publication dropped it or retired it, and
\* the account's other devices are (publish_device_list).
THEOREM Announced == IdentitySpec => []AnnouncedIsListed
<1>1. IdentityInv => AnnouncedIsListed
  BY DEF IdentityInv, Listing
<1> QED
  BY <1>1, IdentityInductive, PTL

-----------------------------------------------------------------------------
(* The send path.                                                            *)

\* Where the task of a message stands, as far as its row and the history must agree with it.
TaskAgrees(m) ==
  /\ m \in composer => pc[m] = "idle"
  /\ pc[m] = "send" => wasOnline[m]
  /\ pc[m] \in {"idle", "send"} => m \notin handed
  /\ pc[m] \in {"insert", "mark"} => (m \in handed <=> wasOnline[m])
  /\ pc[m] \in {"idle", "send", "insert"} => state[m] = "absent"
  /\ state[m] = "pending" => pc[m] = "done"
  /\ m \in retracted \cup retracting => state[m] # "absent"

\* A flush only has messages in hand whose send_message task is over.
FlushAgrees(f) ==
  /\ \A m \in todo[f] : pc[m] = "done"
  /\ fpc[f] = "mark" => cur[f] \in handed /\ pc[cur[f]] = "done"

TasksAgree == (\A m \in Msgs : TaskAgrees(m)) /\ (\A f \in Flushes : FlushAgrees(f))

\* What has left the core, or is about to, was handed over.
TrafficWasHanded ==
  /\ \A i \in 1..Len(outq) : outq[i].kind = "text" => outq[i].id \in handed
  /\ delivered \subseteq handed

\* The inductive invariant.
IInv ==
  /\ TypeOK
  /\ TasksAgree
  /\ TrafficWasHanded
  /\ ConfirmedWasHanded
  /\ AcceptedIsKept

USE OutboxAssumption

(* The two kinds of stanza the send path queues. *)
LEMMA StanzaTypes ==
  ASSUME NEW m \in Msgs
  PROVE  /\ Text(m) \in Stanzas /\ Text(m).kind = "text" /\ Text(m).id = m
         /\ Retraction(m) \in Stanzas /\ Retraction(m).kind # "text"
BY DEF Text, Retraction, Stanzas

(* The initial state satisfies the invariant. *)
LEMMA InitIInv == Init => IInv
<1> SUFFICES ASSUME Init PROVE IInv
  OBVIOUS
<1>1. TypeOK
  <2>1. /\ outq \in Seq(Stanzas)
        /\ pc \in [Msgs -> SendSteps]
        /\ state \in [Msgs -> States]
        /\ fpc \in [Flushes -> FlushSteps]
    BY DEF Init, SendSteps, States, FlushSteps
  <2> QED
    BY <2>1 DEF Init, TypeOK
<1>2. TasksAgree
  BY DEF Init, TasksAgree, TaskAgrees, FlushAgrees
<1>3. TrafficWasHanded
  BY DEF Init, TrafficWasHanded
<1>4. ConfirmedWasHanded /\ AcceptedIsKept
  BY DEF Init, ConfirmedWasHanded, AcceptedIsKept, Shown
<1> QED
  BY <1>1, <1>2, <1>3, <1>4 DEF IInv

(* The writer's queue after one more stanza, and after one less. *)
LEMMA QueueAppend ==
  ASSUME NEW S, NEW q \in Seq(S), NEW s \in S
  PROVE  /\ Append(q, s) \in Seq(S)
         /\ Len(Append(q, s)) = Len(q) + 1
         /\ \A i \in 1..Len(q) + 1 :
              Append(q, s)[i] = IF i = Len(q) + 1 THEN s ELSE q[i]
OBVIOUS

LEMMA QueueTail ==
  ASSUME NEW S, NEW q \in Seq(S), q # <<>>
  PROVE  /\ Tail(q) \in Seq(S)
         /\ Len(Tail(q)) = Len(q) - 1
         /\ \A i \in 1..Len(q) - 1 : Tail(q)[i] = q[i + 1]
         /\ Head(q) = q[1] /\ Len(q) \in Nat /\ Len(q) >= 1
OBVIOUS

(* Every step preserves the types. *)
LEMMA NextTypeOK ==
  ASSUME TypeOK, [Next]_vars
  PROVE  TypeOK'
<1> USE DEF TypeOK, conn, rows, sends, flushes, history
<1>1. CASE StreamOnline
  BY <1>1 DEF StreamOnline, FlushSteps
<1>2. CASE StreamDisconnected \/ StreamEnded \/ BackoffElapsed
  BY <1>2 DEF StreamDisconnected, StreamEnded, BackoffElapsed
<1>3. CASE DrainOutgoing
  <2>1. outq' \in Seq(Stanzas)
    BY <1>3, QueueTail DEF DrainOutgoing
  <2> QED
    BY <1>3, <2>1 DEF DrainOutgoing
<1>4. CASE CoreStops
  <2>1. pc' \in [Msgs -> SendSteps]
    BY <1>4 DEF CoreStops, SendSteps, Running
  <2>2. /\ fpc' \in [Flushes -> FlushSteps]
        /\ todo' \in [Flushes -> SUBSET Msgs]
        /\ cur' \in [Flushes -> Msgs \cup {NoMsg}]
        /\ copies' \in [Msgs -> Nat]
        /\ outq' \in Seq(Stanzas)
    BY <1>4 DEF CoreStops, FlushSteps
  <2>3. online' \in BOOLEAN /\ waiting' \in BOOLEAN
    BY <1>4 DEF CoreStops
  <2>5. retracting' \in SUBSET Msgs /\ stops' \in Nat
    BY <1>4 DEF CoreStops
  <2>4. UNCHANGED <<composer, wasOnline, state, retracted, rowid, nextRow, handed, delivered>>
    BY <1>4 DEF CoreStops
  <2> QED
    BY <2>1, <2>2, <2>3, <2>4, <2>5
<1>5. ASSUME NEW m \in Msgs, Submit(m) \/ LiveSendFails(m) \/ ReportFailure(m)
      PROVE  TypeOK'
  <2>1. CASE Submit(m)
    BY <2>1 DEF Submit, SendSteps
  <2>2. CASE LiveSendFails(m)
    BY <2>2 DEF LiveSendFails, SendSteps
  <2>3. CASE ReportFailure(m)
    BY <2>3 DEF ReportFailure, SendSteps
  <2> QED
    BY <1>5, <2>1, <2>2, <2>3
<1>6. ASSUME NEW m \in Msgs, InsertRow(m) \/ MarkRow(m)
      PROVE  TypeOK'
  <2>1. CASE InsertRow(m)
    BY <2>1 DEF InsertRow, SendSteps, States
  <2>2. CASE MarkRow(m)
    BY <2>2 DEF MarkRow, SendSteps, States, Shown
  <2> QED
    BY <1>6, <2>1, <2>2
<1>7. ASSUME NEW m \in Msgs, Receipt(m) \/ RetractStore(m)
      PROVE  TypeOK'
  BY <1>7 DEF Receipt, RetractStore, States, Shown
<1>8. ASSUME NEW m \in Msgs, LiveSend(m)
      PROVE  TypeOK'
  <2>1. outq' \in Seq(Stanzas)
    BY <1>8, QueueAppend, StanzaTypes DEF LiveSend, HandOver
  <2> QED
    BY <1>8, <2>1 DEF LiveSend, HandOver, SendSteps
<1>9. ASSUME NEW m \in Msgs, RetractSend(m)
      PROVE  TypeOK'
  <2>1. outq' \in Seq(Stanzas)
    BY <1>9, QueueAppend, StanzaTypes DEF RetractSend
  <2> QED
    BY <1>9, <2>1 DEF RetractSend
<1>10. ASSUME NEW f \in Flushes, FlushQuery(f)
       PROVE  TypeOK'
  BY <1>10 DEF FlushQuery, PendingRows, FlushSteps
<1>11. ASSUME NEW f \in Flushes, FlushSend(f)
       PROVE  TypeOK'
  <2>1. PICK m \in todo[f] : /\ HandOver(m)
                             /\ cur' = [cur EXCEPT ![f] = m]
                             /\ todo' = [todo EXCEPT ![f] = @ \ {m}]
    BY <1>11 DEF FlushSend
  <2>2. m \in Msgs
    BY <1>11
  <2>3. outq' \in Seq(Stanzas)
    BY <2>1, <2>2, QueueAppend, StanzaTypes DEF HandOver
  <2> QED
    BY <1>11, <2>1, <2>2, <2>3 DEF FlushSend, HandOver, FlushSteps
<1>12. ASSUME NEW f \in Flushes, FlushSendFails(f)
       PROVE  TypeOK'
  BY <1>12 DEF FlushSendFails, FlushSteps
<1>13. ASSUME NEW f \in Flushes, FlushMark(f)
       PROVE  TypeOK'
  BY <1>13 DEF FlushMark, FlushSteps, States, Shown
<1>14. CASE UNCHANGED vars
  BY <1>14 DEF vars
<1> QED
  BY <1>1, <1>2, <1>3, <1>4, <1>5, <1>6, <1>7, <1>8, <1>9, <1>10, <1>11, <1>12, <1>13,
     <1>14 DEF Next

(* Every step keeps the tasks, the rows and the history in agreement. *)
LEMMA NextTasksAgree ==
  ASSUME IInv, [Next]_vars
  PROVE  TasksAgree'
<1> USE DEF IInv, TypeOK, TasksAgree, TaskAgrees, FlushAgrees, conn, rows, sends, flushes,
            history
<1>1. CASE StreamOnline
  BY <1>1 DEF StreamOnline
<1>2. CASE StreamDisconnected \/ StreamEnded \/ BackoffElapsed \/ DrainOutgoing
  BY <1>2 DEF StreamDisconnected, StreamEnded, BackoffElapsed, DrainOutgoing
<1>3. CASE CoreStops
  BY <1>3 DEF CoreStops, Running
<1>4. ASSUME NEW n \in Msgs, Submit(n)
      PROVE  TasksAgree'
  BY <1>4 DEF Submit
<1>5. ASSUME NEW n \in Msgs, LiveSend(n)
      PROVE  TasksAgree'
  BY <1>5 DEF LiveSend, HandOver
<1>6. ASSUME NEW n \in Msgs, LiveSendFails(n) \/ ReportFailure(n)
      PROVE  TasksAgree'
  BY <1>6 DEF LiveSendFails, ReportFailure
<1>7. ASSUME NEW n \in Msgs, InsertRow(n)
      PROVE  TasksAgree'
  BY <1>7 DEF InsertRow
<1>8. ASSUME NEW n \in Msgs, MarkRow(n)
      PROVE  TasksAgree'
  BY <1>8 DEF MarkRow
<1>9. ASSUME NEW n \in Msgs, Receipt(n)
      PROVE  TasksAgree'
  BY <1>9 DEF Receipt
<1>10. ASSUME NEW n \in Msgs, RetractSend(n) \/ RetractStore(n)
       PROVE  TasksAgree'
  BY <1>10 DEF RetractSend, RetractStore
<1>11. ASSUME NEW g \in Flushes, FlushQuery(g)
       PROVE  TasksAgree'
  BY <1>11 DEF FlushQuery, PendingRows
<1>12. ASSUME NEW g \in Flushes, FlushSend(g)
       PROVE  TasksAgree'
  BY <1>12 DEF FlushSend, HandOver
<1>13. ASSUME NEW g \in Flushes, FlushSendFails(g)
       PROVE  TasksAgree'
  BY <1>13 DEF FlushSendFails
<1>14. ASSUME NEW g \in Flushes, FlushMark(g)
       PROVE  TasksAgree'
  BY <1>14 DEF FlushMark
<1>15. CASE UNCHANGED vars
  BY <1>15 DEF vars
<1> QED
  BY <1>1, <1>2, <1>3, <1>4, <1>5, <1>6, <1>7, <1>8, <1>9, <1>10, <1>11, <1>12, <1>13,
     <1>14, <1>15 DEF Next

(* Every step keeps the queue and the peer to what was handed over. *)
LEMMA NextTrafficWasHanded ==
  ASSUME IInv, [Next]_vars
  PROVE  TrafficWasHanded'
<1> USE DEF IInv, TypeOK, TrafficWasHanded, conn, rows, sends, flushes, history
<1>1. CASE DrainOutgoing
  <2>1. /\ outq' = Tail(outq) /\ Len(outq') = Len(outq) - 1
        /\ \A i \in 1..Len(outq) - 1 : outq'[i] = outq[i + 1]
        /\ Head(outq) = outq[1] /\ Len(outq) \in Nat /\ Len(outq) >= 1
        /\ handed' = handed
    BY <1>1, QueueTail DEF DrainOutgoing
  <2>2. \A i \in 1..Len(outq') : outq'[i].kind = "text" => outq'[i].id \in handed'
    BY <2>1
  <2>3. ASSUME NEW m \in Msgs, Head(outq) = Text(m)
        PROVE  m \in handed
    <3>1. outq[1].kind = "text" /\ outq[1].id = m
      BY <2>1, <2>3, StanzaTypes
    <3>2. 1 \in 1..Len(outq)
      BY <2>1
    <3> QED
      BY <3>1, <3>2
  <2>4. delivered' \subseteq handed'
    BY <1>1, <2>1, <2>3 DEF DrainOutgoing
  <2> QED
    BY <2>2, <2>4
<1>2. CASE CoreStops
  BY <1>2 DEF CoreStops
<1>3. ASSUME NEW n \in Msgs, HandOver(n), UNCHANGED delivered
      PROVE  TrafficWasHanded'
  <2>1. /\ outq' = Append(outq, Text(n)) /\ Len(outq') = Len(outq) + 1
        /\ \A i \in 1..Len(outq) + 1 :
             outq'[i] = IF i = Len(outq) + 1 THEN Text(n) ELSE outq[i]
        /\ handed' = handed \cup {n} /\ Len(outq) \in Nat
    BY <1>3, QueueAppend, StanzaTypes DEF HandOver
  <2>2. ASSUME NEW i \in 1..Len(outq'), outq'[i].kind = "text" PROVE outq'[i].id \in handed'
    <3>1. CASE i = Len(outq) + 1
      <4>1. outq'[i] = Text(n)
        BY <2>1, <3>1
      <4> QED
        BY <2>1, <4>1, StanzaTypes
    <3>2. CASE i # Len(outq) + 1
      <4>1. i \in 1..Len(outq) /\ outq'[i] = outq[i]
        BY <2>1, <3>2
      <4> QED
        BY <2>1, <2>2, <4>1
    <3> QED
      BY <3>1, <3>2
  <2> QED
    BY <1>3, <2>1, <2>2
<1>4. ASSUME NEW n \in Msgs, RetractSend(n)
      PROVE  TrafficWasHanded'
  <2>1. outq' = Append(outq, Retraction(n)) /\ handed' = handed /\ delivered' = delivered
    BY <1>4 DEF RetractSend
  <2>2. /\ Len(outq') = Len(outq) + 1 /\ Len(outq) \in Nat
        /\ \A i \in 1..Len(outq) + 1 :
             outq'[i] = IF i = Len(outq) + 1 THEN Retraction(n) ELSE outq[i]
    BY <2>1, QueueAppend, StanzaTypes
  <2>3. ASSUME NEW i \in 1..Len(outq'), outq'[i].kind = "text" PROVE outq'[i].id \in handed'
    <3>1. i # Len(outq) + 1
      BY <2>2, <2>3, StanzaTypes
    <3>2. i \in 1..Len(outq) /\ outq'[i] = outq[i]
      BY <2>2, <3>1
    <3> QED
      BY <2>1, <2>3, <3>2
  <2> QED
    BY <2>1, <2>3
<1>5. ASSUME NEW f \in Flushes, FlushSend(f)
      PROVE  TrafficWasHanded'
  BY <1>5, <1>3 DEF FlushSend
<1>6. ASSUME UNCHANGED <<outq, handed, delivered>>
      PROVE  TrafficWasHanded'
  BY <1>6
<1> QED
  BY <1>1, <1>2, <1>3, <1>4, <1>5, <1>6
  DEF Next, vars, StreamOnline, StreamDisconnected, StreamEnded, BackoffElapsed, Submit,
      LiveSend, LiveSendFails, ReportFailure, InsertRow, MarkRow, Receipt, RetractStore,
      FlushQuery, FlushSendFails, FlushMark

(* Every step preserves ConfirmedWasHanded and AcceptedIsKept. *)
LEMMA NextConfirmed ==
  ASSUME IInv, [Next]_vars
  PROVE  ConfirmedWasHanded' /\ AcceptedIsKept'
<1> USE DEF IInv, TypeOK, ConfirmedWasHanded, AcceptedIsKept, Shown, conn, rows, sends, flushes,
            history
<1>1. CASE StreamOnline \/ StreamDisconnected \/ StreamEnded \/ BackoffElapsed \/ DrainOutgoing
  BY <1>1 DEF StreamOnline, StreamDisconnected, StreamEnded, BackoffElapsed, DrainOutgoing
<1>2. CASE CoreStops
  BY <1>2 DEF CoreStops
<1>3. ASSUME NEW n \in Msgs, Submit(n) \/ LiveSendFails(n) \/ ReportFailure(n)
      PROVE  ConfirmedWasHanded' /\ AcceptedIsKept'
  BY <1>3 DEF Submit, LiveSendFails, ReportFailure
<1>4. ASSUME NEW n \in Msgs, LiveSend(n)
      PROVE  ConfirmedWasHanded' /\ AcceptedIsKept'
  BY <1>4 DEF LiveSend, HandOver
<1>5. ASSUME NEW n \in Msgs, InsertRow(n)
      PROVE  ConfirmedWasHanded' /\ AcceptedIsKept'
  BY <1>5 DEF InsertRow
<1>6. ASSUME NEW n \in Msgs, MarkRow(n)
      PROVE  ConfirmedWasHanded' /\ AcceptedIsKept'
  BY <1>6 DEF MarkRow, TasksAgree, TaskAgrees
<1>7. ASSUME NEW n \in Msgs, Receipt(n)
      PROVE  ConfirmedWasHanded' /\ AcceptedIsKept'
  BY <1>7 DEF Receipt, TrafficWasHanded
<1>8. ASSUME NEW n \in Msgs, RetractSend(n) \/ RetractStore(n)
      PROVE  ConfirmedWasHanded' /\ AcceptedIsKept'
  BY <1>8 DEF RetractSend, RetractStore
<1>9. ASSUME NEW f \in Flushes, FlushQuery(f) \/ FlushSendFails(f)
      PROVE  ConfirmedWasHanded' /\ AcceptedIsKept'
  BY <1>9 DEF FlushQuery, FlushSendFails
<1>10. ASSUME NEW f \in Flushes, FlushSend(f)
       PROVE  ConfirmedWasHanded' /\ AcceptedIsKept'
  BY <1>10 DEF FlushSend, HandOver
<1>11. ASSUME NEW f \in Flushes, FlushMark(f)
       PROVE  ConfirmedWasHanded' /\ AcceptedIsKept'
  BY <1>11 DEF FlushMark, TasksAgree, FlushAgrees
<1>12. CASE UNCHANGED vars
  BY <1>12 DEF vars
<1> QED
  BY <1>1, <1>2, <1>3, <1>4, <1>5, <1>6, <1>7, <1>8, <1>9, <1>10, <1>11, <1>12 DEF Next

(* The invariant is inductive. *)
LEMMA NextIInv == IInv /\ [Next]_vars => IInv'
<1> SUFFICES ASSUME IInv, [Next]_vars PROVE IInv'
  OBVIOUS
<1>1. TypeOK'
  BY NextTypeOK DEF IInv
<1> QED
  BY <1>1, NextTasksAgree, NextTrafficWasHanded, NextConfirmed DEF IInv

LEMMA SpecIInv == Spec => []IInv
BY InitIInv, NextIInv, PTL DEF Spec

(* Type correctness of the send path, for every set of messages and of flush tasks. *)
THEOREM TypeCorrect == Spec => []TypeOK
<1>1. IInv => TypeOK
  BY DEF IInv
<1> QED
  BY <1>1, SpecIInv, PTL

(* No message is ever shown as sent, delivered or read that the core did not queue. *)
THEOREM TicksAreHonest == Spec => []ConfirmedWasHanded
<1>1. IInv => ConfirmedWasHanded
  BY DEF IInv
<1> QED
  BY <1>1, SpecIInv, PTL

(* A message whose send_message task ended well was queued or waits for the outbox. *)
THEOREM AcceptedMessagesKept == Spec => []AcceptedIsKept
<1>1. IInv => AcceptedIsKept
  BY DEF IInv
<1> QED
  BY <1>1, SpecIInv, PTL

(* A settled message stays settled and is not queued, whatever step is taken. *)
LEMMA SettledStep ==
  ASSUME IInv, [Next]_vars, NEW m \in Msgs, Settled(m)
  PROVE  Settled(m)' /\ copies'[m] <= copies[m]
<1> USE DEF IInv, TypeOK, TasksAgree, TaskAgrees, Settled, Planned, Shown, conn, rows, sends,
            flushes, history
<1>0. copies[m] \in Nat
  OBVIOUS
<1>1. CASE StreamOnline \/ StreamDisconnected \/ StreamEnded \/ BackoffElapsed \/ DrainOutgoing
  BY <1>0, <1>1 DEF StreamOnline, StreamDisconnected, StreamEnded, BackoffElapsed, DrainOutgoing
<1>2. CASE CoreStops
  BY <1>0, <1>2 DEF CoreStops, Running
<1>3. ASSUME NEW n \in Msgs, Submit(n) \/ LiveSendFails(n) \/ ReportFailure(n)
      PROVE  Settled(m)' /\ copies'[m] <= copies[m]
  BY <1>0, <1>3 DEF Submit, LiveSendFails, ReportFailure
<1>4. ASSUME NEW n \in Msgs, LiveSend(n)
      PROVE  Settled(m)' /\ copies'[m] <= copies[m]
  BY <1>0, <1>4 DEF LiveSend, HandOver
<1>5. ASSUME NEW n \in Msgs, InsertRow(n)
      PROVE  Settled(m)' /\ copies'[m] <= copies[m]
  BY <1>0, <1>5 DEF InsertRow
<1>6. ASSUME NEW n \in Msgs, MarkRow(n)
      PROVE  Settled(m)' /\ copies'[m] <= copies[m]
  BY <1>0, <1>6 DEF MarkRow, ConfirmedWasHanded
<1>7. ASSUME NEW n \in Msgs, Receipt(n)
      PROVE  Settled(m)' /\ copies'[m] <= copies[m]
  BY <1>0, <1>7 DEF Receipt
<1>8. ASSUME NEW n \in Msgs, RetractSend(n) \/ RetractStore(n)
      PROVE  Settled(m)' /\ copies'[m] <= copies[m]
  BY <1>0, <1>8 DEF RetractSend, RetractStore
<1>9. ASSUME NEW f \in Flushes, FlushQuery(f) \/ FlushSendFails(f)
      PROVE  Settled(m)' /\ copies'[m] <= copies[m]
  <2>1. CASE FlushQuery(f)
    BY <1>0, <2>1 DEF FlushQuery, PendingRows
  <2>2. CASE FlushSendFails(f)
    BY <1>0, <2>2 DEF FlushSendFails
  <2> QED
    BY <1>9, <2>1, <2>2
<1>10. ASSUME NEW f \in Flushes, FlushSend(f)
       PROVE  Settled(m)' /\ copies'[m] <= copies[m]
  BY <1>0, <1>10 DEF FlushSend, HandOver
<1>11. ASSUME NEW f \in Flushes, FlushMark(f)
       PROVE  Settled(m)' /\ copies'[m] <= copies[m]
  BY <1>0, <1>11 DEF FlushMark
<1>12. CASE UNCHANGED vars
  BY <1>0, <1>12 DEF vars
<1> QED
  BY <1>1, <1>2, <1>3, <1>4, <1>5, <1>6, <1>7, <1>8, <1>9, <1>10, <1>11, <1>12 DEF Next

(* A message that is shown as sent and in no task's hands is never sent again. *)
THEOREM SettledForGood == Spec => SettledNeverResent
<1>1. IInv /\ [Next]_vars
      => [\A m \in Msgs : Settled(m) => Settled(m)' /\ copies'[m] <= copies[m]]_vars
  BY SettledStep
<1> QED
  BY <1>1, SpecIInv, PTL DEF Spec, SettledNeverResent

(* A message taken back before any task had it in hand stays unsent, whatever step is taken. *)
LEMMA WithdrawnStep ==
  ASSUME IInv, [Next]_vars, NEW m \in Msgs, Withdrawn(m)
  PROVE  Withdrawn(m)' /\ copies'[m] <= copies[m]
<1> USE DEF IInv, TypeOK, TasksAgree, TaskAgrees, Withdrawn, Planned, conn, rows, sends,
            flushes, history
<1>0. copies[m] \in Nat
  OBVIOUS
<1>1. CASE StreamOnline \/ StreamDisconnected \/ StreamEnded \/ BackoffElapsed \/ DrainOutgoing
  BY <1>0, <1>1 DEF StreamOnline, StreamDisconnected, StreamEnded, BackoffElapsed, DrainOutgoing
<1>2. CASE CoreStops
  BY <1>0, <1>2 DEF CoreStops, Running
<1>3. ASSUME NEW n \in Msgs, Submit(n) \/ LiveSendFails(n) \/ ReportFailure(n)
      PROVE  Withdrawn(m)' /\ copies'[m] <= copies[m]
  BY <1>0, <1>3 DEF Submit, LiveSendFails, ReportFailure
<1>4. ASSUME NEW n \in Msgs, LiveSend(n)
      PROVE  Withdrawn(m)' /\ copies'[m] <= copies[m]
  BY <1>0, <1>4 DEF LiveSend, HandOver
<1>5. ASSUME NEW n \in Msgs, InsertRow(n) \/ MarkRow(n)
      PROVE  Withdrawn(m)' /\ copies'[m] <= copies[m]
  BY <1>0, <1>5 DEF InsertRow, MarkRow
<1>6. ASSUME NEW n \in Msgs, Receipt(n) \/ RetractSend(n) \/ RetractStore(n)
      PROVE  Withdrawn(m)' /\ copies'[m] <= copies[m]
  BY <1>0, <1>6 DEF Receipt, RetractSend, RetractStore
<1>7. ASSUME NEW f \in Flushes, FlushQuery(f)
      PROVE  Withdrawn(m)' /\ copies'[m] <= copies[m]
  BY <1>0, <1>7 DEF FlushQuery, PendingRows
<1>8. ASSUME NEW f \in Flushes, FlushSendFails(f)
      PROVE  Withdrawn(m)' /\ copies'[m] <= copies[m]
  BY <1>0, <1>8 DEF FlushSendFails
<1>9. ASSUME NEW f \in Flushes, FlushSend(f)
      PROVE  Withdrawn(m)' /\ copies'[m] <= copies[m]
  BY <1>0, <1>9 DEF FlushSend, HandOver
<1>10. ASSUME NEW f \in Flushes, FlushMark(f)
       PROVE  Withdrawn(m)' /\ copies'[m] <= copies[m]
  BY <1>0, <1>10 DEF FlushMark
<1>11. CASE UNCHANGED vars
  BY <1>0, <1>11 DEF vars
<1> QED
  BY <1>1, <1>2, <1>3, <1>4, <1>5, <1>6, <1>7, <1>8, <1>9, <1>10, <1>11 DEF Next

(* A message taken back in time never leaves this machine. *)
THEOREM WithdrawnForGood == Spec => WithdrawnNeverSent
<1>1. IInv /\ [Next]_vars
      => [\A m \in Msgs : Withdrawn(m) => Withdrawn(m)' /\ copies'[m] <= copies[m]]_vars
  BY WithdrawnStep
<1> QED
  BY <1>1, SpecIInv, PTL DEF Spec, WithdrawnNeverSent

-----------------------------------------------------------------------------
(* Refinement.                                                               *)

Kept == {m \in Msgs : state[m] = "pending" /\ m \notin retracted}
Confirmed == {m \in Msgs : state[m] \in Shown}

LEMMA RefinesInit == Init => Promise!PromiseInit
BY DEF Init, Promise!PromiseInit, Shown

(* Every step of the send path is a step of the promise or leaves it alone. *)
LEMMA RefinesStep ==
  ASSUME IInv, [Next]_vars
  PROVE  [Promise!PromiseNext]_<<Kept, handed, Confirmed>>
<1> USE DEF IInv, TypeOK, TasksAgree, TaskAgrees, Kept, Confirmed, Shown, conn, rows, sends,
            flushes, history
<1> DEFINE Stutter == UNCHANGED <<Kept, handed, Confirmed>>
<1>1. CASE StreamOnline \/ StreamDisconnected \/ StreamEnded \/ BackoffElapsed \/ DrainOutgoing
           \/ CoreStops
  <2>1. Stutter
    BY <1>1 DEF StreamOnline, StreamDisconnected, StreamEnded, BackoffElapsed, DrainOutgoing,
                CoreStops
  <2> QED
    BY <2>1
<1>2. ASSUME NEW n \in Msgs,
             Submit(n) \/ LiveSendFails(n) \/ ReportFailure(n) \/ RetractSend(n)
      PROVE  Stutter
  BY <1>2 DEF Submit, LiveSendFails, ReportFailure, RetractSend
<1>3. ASSUME NEW n \in Msgs, LiveSend(n)
      PROVE  Promise!Hand(n)
  BY <1>3 DEF LiveSend, HandOver, Promise!Hand
<1>4. ASSUME NEW n \in Msgs, InsertRow(n)
      PROVE  Stutter
  BY <1>4 DEF InsertRow
<1>5. ASSUME NEW n \in Msgs, MarkRow(n), wasOnline[n]
      PROVE  Promise!Confirm(n)
  BY <1>5 DEF MarkRow, Promise!Confirm
<1>6. ASSUME NEW n \in Msgs, MarkRow(n), ~wasOnline[n]
      PROVE  Promise!Keep(n) \/ Stutter
  BY <1>6 DEF MarkRow, Promise!Keep, ConfirmedWasHanded
<1>7. ASSUME NEW n \in Msgs, Receipt(n)
      PROVE  Promise!Confirm(n)
  BY <1>7 DEF Receipt, Promise!Confirm, TrafficWasHanded
<1>8. ASSUME NEW n \in Msgs, RetractStore(n)
      PROVE  Promise!Withdraw(n) \/ Stutter
  BY <1>8 DEF RetractStore, Promise!Withdraw
<1>9. ASSUME NEW f \in Flushes, FlushQuery(f) \/ FlushSendFails(f)
      PROVE  Stutter
  BY <1>9 DEF FlushQuery, FlushSendFails
<1>10. ASSUME NEW f \in Flushes, FlushSend(f)
       PROVE  \E n \in Msgs : Promise!Hand(n)
  BY <1>10 DEF FlushSend, HandOver, Promise!Hand
<1>11. ASSUME NEW f \in Flushes, FlushMark(f)
       PROVE  \E n \in Msgs : Promise!Confirm(n)
  <2>1. cur[f] \in handed /\ cur[f] \in Msgs
    BY <1>11 DEF FlushMark, FlushAgrees
  <2>2. PICK n \in Msgs : n = cur[f]
    BY <2>1
  <2>3. Promise!Confirm(n)
    BY <1>11, <2>1, <2>2 DEF FlushMark, Promise!Confirm
  <2> QED
    BY <2>3
<1>12. CASE UNCHANGED vars
  BY <1>12 DEF vars
<1> QED
  BY <1>1, <1>2, <1>3, <1>4, <1>5, <1>6, <1>7, <1>8, <1>9, <1>10, <1>11, <1>12
  DEF Next, Promise!PromiseNext

(* The send path implements DeliveryPromise, for every set of messages and flushes. *)
THEOREM OutboxKeepsPromise == Spec => KeepsPromise
<1>1. IInv /\ [Next]_vars => [Promise!PromiseNext]_(Promise!promise)
  BY RefinesStep DEF Promise!promise, Kept, Confirmed
<1> QED
  BY <1>1, RefinesInit, SpecIInv, PTL DEF Spec, KeepsPromise, Promise!PromiseSpec
=============================================================================
