------------------------------ MODULE Identity ------------------------------
(***************************************************************************)
(* This device's OMEMO identity, the bundle and the device list that       *)
(* announce it (mxc-proto, omemo.rs; mxc-store, omemo.rs and secrets.rs).  *)
(* The identity is kept in four places: the row omemo_own_identity, two    *)
(* secrets of the keyring, the prekey tables that it signs, and a cache in *)
(* memory.  Tasks create, read and replace it with an await between any    *)
(* two accesses and no lock.  The device list is one item that every       *)
(* device of the account fetches, changes and publishes as a whole.        *)
(*                                                                         *)
(* Every minted identity is a number; its device id, its classical and its *)
(* post-quantum key are that number too, so that a mixture shows.          *)
(***************************************************************************)
EXTENDS Naturals, FiniteSets

CONSTANTS
  Uses,     \* tasks that only need the stores: own_device_id, decrypt_message (bound)
  Inits,    \* runs of ensure_initialized: bootstraps, resets of peer state (bound)
  Regens,   \* runs of regenerate_own_identity (bound)
  Others,   \* the account's other devices, each a device id
  MaxMint,  \* identities that may be minted (bound)
  MaxFails, \* requests that fail and restarts of the program, together (bound)
  AtOnce,   \* tasks of ours at work at once (bound)
  Starts    \* where a run may start: "fresh"; "classical" (no post-quantum half yet); "full"

Own == Uses \cup Inits \cup Regens
Tasks == Own \cup Others

ASSUME IdentityAssumption ==
  /\ Uses \cap (Inits \cup Regens) = {} /\ Inits \cap Regens = {} /\ Own \cap Others = {}
  /\ MaxMint \in Nat \ {0}
  /\ MaxFails \in Nat
  /\ AtOnce \in Nat \ {0}
  /\ Others \subseteq Nat /\ \A d \in Others : d > MaxMint
  /\ Starts \subseteq {"fresh", "classical", "full"}

VARIABLES
  row,       \* omemo_own_identity: [dev, pq], 0 where there is none
  secret,    \* kinds::OMEMO_IDENTITY
  pqSecret,  \* kinds::OMEMO_PQ_IDENTITY
  signers,   \* the identities whose signatures are on the prekeys in the store
  cache,     \* the OmemoStores in memory
  bundles,   \* the bundle items of our PEP node, by device id
  list,      \* the device list item
  minted,
  fails,
  place, mem, seen, ids, old, \* each task's place, stores, row read, list fetched, retired device
  overlapped, \* a task was at work while another one minted or retired an identity (history)
  clobbered,  \* devices a publication based on an older or failed fetch dropped (history)
  revived,    \* devices a publication based on an older fetch brought back (history)
  cut         \* tasks that failed or were killed (history)

disk == <<row, secret, pqSecret, signers>>
server == <<bundles, list>>
local == <<mem, seen, ids, old>>
identityVars == <<row, secret, pqSecret, signers, cache, bundles, list, minted, fails, place, mem, seen,
                  ids, old, overlapped, clobbered, revived, cut>>

Numbers == 0..MaxMint
Stores == [dev : Numbers, key : Numbers, pq : Numbers]
Nobody == [dev |-> 0, key |-> 0, pq |-> 0]
Bundle == [key : Numbers, pq : Numbers, signers : SUBSET Numbers]
NoBundle == [key |-> 0, pq |-> 0, signers |-> {}]

LoadSteps == {"cached", "row", "secret", "pqSecret", "newPq", "pqRow", "mint", "storePq",
              "storeRow", "storePqRow", "fill"}
RetireSteps == {"capture", "wipe", "wipeKeys", "dropSecret", "dropPq", "forget", "retract"}
PublishSteps == {"maintain", "bundle", "fetch", "publish"}
Steps == {"idle", "done"} \cup LoadSteps \cup RetireSteps \cup PublishSteps

IdentityTypeOK ==
  /\ row \in [dev : Numbers, pq : Numbers] /\ (row.dev = 0 => row.pq = 0)
  /\ secret \in Numbers /\ pqSecret \in Numbers
  /\ signers \subseteq Numbers
  /\ cache \in Stores
  /\ bundles \in [Numbers -> Bundle]
  /\ list \subseteq Numbers \cup Others
  /\ minted \in Numbers
  /\ fails \in 0..MaxFails
  /\ place \in [Tasks -> Steps]
  /\ mem \in [Tasks -> Stores]
  /\ seen \in [Tasks -> Numbers]
  /\ ids \in [Tasks -> SUBSET (Numbers \cup Others)]
  /\ old \in [Tasks -> Numbers]
  /\ overlapped \in BOOLEAN
  /\ clobbered \subseteq Numbers \cup Others
  /\ revived \subseteq Numbers \cup Others
  /\ cut \subseteq Tasks

IdentityInit ==
  /\ \E start \in Starts :
       LET me == IF start = "fresh" THEN 0 ELSE 1
           pq == IF start = "full" THEN 1 ELSE 0
       IN /\ row = [dev |-> me, pq |-> pq]
          /\ secret = me /\ pqSecret = pq
          /\ signers = IF me = 0 THEN {} ELSE {me}
          /\ list = IF me = 0 THEN Others ELSE Others \cup {me}
          /\ bundles = [d \in Numbers |-> IF d = me /\ me # 0
                                            THEN [key |-> me, pq |-> pq, signers |-> {me}]
                                            ELSE NoBundle]
          /\ minted = me
  /\ cache = Nobody
  /\ fails = 0
  /\ place = [t \in Tasks |-> "idle"]
  /\ mem = [t \in Tasks |-> Nobody]
  /\ seen = [t \in Tasks |-> 0]
  /\ ids = [t \in Tasks |-> {}]
  /\ old = [t \in Tasks |-> 0]
  /\ overlapped = FALSE /\ clobbered = {} /\ revived = {} /\ cut = {}

-----------------------------------------------------------------------------
(* Steps of a task.                                                          *)

Working(t) == place[t] \notin {"idle", "done"}
\* From the first look at the disk on, a task relies on the identity it finds there.
Relies(t) == t \in Own /\ Working(t) /\ place[t] # "cached"
Changing(t) == place[t] \in {"mint", "storePq", "storeRow", "storePqRow", "fill", "newPq", "pqRow"}
                          \cup RetireSteps
Overlaps(t) ==
  overlapped' =
    (overlapped \/ \E u \in Own \ {t} : Relies(u) /\ (Changing(u) \/ Changing(t)))

At(t, step) == place[t] = step /\ Overlaps(t)
Go(t, step) == place' = [place EXCEPT ![t] = step]

Start(t) ==
  /\ At(t, "idle")
  /\ t \in Own => Cardinality({u \in Own : Working(u)}) < AtOnce
  /\ Go(t, CASE t \in Regens -> "capture" [] t \in Others -> "fetch" [] OTHER -> "cached")
  /\ UNCHANGED <<disk, cache, server, minted, fails, local, clobbered, revived, cut>>

\* The tasks in ts end where they are.
End(ts) ==
  /\ fails < MaxFails
  /\ fails' = fails + 1
  /\ place' = [t \in Tasks |-> IF t \in ts THEN "done" ELSE place[t]]
  /\ mem' = [t \in Tasks |-> IF t \in ts THEN Nobody ELSE mem[t]]
  /\ seen' = [t \in Tasks |-> IF t \in ts THEN 0 ELSE seen[t]]
  /\ ids' = [t \in Tasks |-> IF t \in ts THEN {} ELSE ids[t]]
  /\ cut' = cut \cup ts
  /\ UNCHANGED <<disk, server, minted, old, overlapped, clobbered, revived>>

\* A request or an access to the keyring fails: callers log it, and the task is over.
Fails(t) ==
  /\ place[t] \in {"mint", "storePq", "bundle", "publish"}
  /\ End({t})
  /\ UNCHANGED cache

\* The program ends between any two steps, and is started again.
Restart ==
  /\ End({t \in Own : Working(t)})
  /\ cache' = Nobody

-----------------------------------------------------------------------------
(* load_or_create.                                                           *)

\* A task holds its stores.
Holds(t, stores) ==
  /\ mem' = [mem EXCEPT ![t] = IF t \in Uses THEN Nobody ELSE stores]
  /\ Go(t, IF t \in Uses THEN "done" ELSE "maintain")

Cached(t) ==
  /\ At(t, "cached")
  /\ IF cache = Nobody
       THEN Go(t, "row") /\ UNCHANGED mem
       ELSE Holds(t, cache)
  /\ UNCHANGED <<disk, cache, server, minted, fails, seen, ids, old, clobbered, revived, cut>>

ReadRow(t) ==
  /\ At(t, "row")
  /\ seen' = [seen EXCEPT ![t] = row.dev]
  /\ Go(t, "secret")
  /\ UNCHANGED <<disk, cache, server, minted, fails, mem, ids, old, clobbered, revived, cut>>

ReadSecret(t) ==
  /\ At(t, "secret")
  /\ mem' = [mem EXCEPT ![t] = [dev |-> seen[t], key |-> secret, pq |-> 0]]
  /\ Go(t, "pqSecret")
  /\ UNCHANGED <<disk, cache, server, minted, fails, seen, ids, old, clobbered, revived, cut>>

\* An identity is there when both its row and its secret are; otherwise one is minted.
ReadPq(t) ==
  /\ At(t, "pqSecret")
  /\ IF mem[t].dev # 0 /\ mem[t].key # 0
       THEN /\ mem' = [mem EXCEPT ![t].pq = pqSecret]
            /\ Go(t, IF pqSecret = 0 THEN "newPq" ELSE "pqRow")
            /\ UNCHANGED minted
       ELSE /\ minted < MaxMint
            /\ minted' = minted + 1
            /\ mem' = [mem EXCEPT ![t] = [dev |-> minted', key |-> minted', pq |-> minted']]
            /\ Go(t, "mint")
  /\ seen' = [seen EXCEPT ![t] = 0]
  /\ UNCHANGED <<disk, cache, server, fails, ids, old, clobbered, revived, cut>>

\* An install from before the hybrid identity gets its post-quantum half.
NewPq(t) ==
  /\ At(t, "newPq")
  /\ minted < MaxMint
  /\ minted' = minted + 1
  /\ pqSecret' = minted'
  /\ mem' = [mem EXCEPT ![t].pq = minted']
  /\ Go(t, "pqRow")
  /\ UNCHANGED <<row, secret, signers, cache, server, fails, seen, ids, old, clobbered, revived, cut>>

StoreSecret(t) ==
  /\ At(t, "mint")
  /\ secret' = mem[t].key
  /\ Go(t, "storePq")
  /\ UNCHANGED <<row, pqSecret, signers, cache, server, minted, fails, local, clobbered, revived, cut>>

StorePq(t) ==
  /\ At(t, "storePq")
  /\ pqSecret' = mem[t].pq
  /\ Go(t, "storeRow")
  /\ UNCHANGED <<row, secret, signers, cache, server, minted, fails, local, clobbered, revived, cut>>

StoreRow(t) ==
  /\ At(t, "storeRow")
  /\ row' = [row EXCEPT !.dev = mem[t].dev]
  /\ Go(t, "storePqRow")
  /\ UNCHANGED <<secret, pqSecret, signers, cache, server, minted, fails, local, clobbered, revived, cut>>

\* An UPDATE: without the row it changes nothing.
StorePqRow(t) ==
  /\ place[t] \in {"pqRow", "storePqRow"}
  /\ At(t, place[t])
  /\ row' = IF row.dev = 0 THEN row ELSE [row EXCEPT !.pq = mem[t].pq]
  /\ Go(t, "fill")
  /\ UNCHANGED <<secret, pqSecret, signers, cache, server, minted, fails, local, clobbered, revived, cut>>

Fill(t) ==
  /\ At(t, "fill")
  /\ cache' = mem[t]
  /\ Holds(t, mem[t])
  /\ UNCHANGED <<disk, server, minted, fails, seen, ids, old, clobbered, revived, cut>>

Load(t) ==
  \/ Cached(t) \/ ReadRow(t) \/ ReadSecret(t) \/ ReadPq(t) \/ NewPq(t)
  \/ StoreSecret(t) \/ StorePq(t) \/ StoreRow(t) \/ StorePqRow(t) \/ Fill(t)

-----------------------------------------------------------------------------
(* regenerate_own_identity, up to the load of the new identity.              *)

Capture(t) ==
  /\ At(t, "capture")
  /\ old' = [old EXCEPT ![t] = row.dev]
  /\ Go(t, "wipe")
  /\ UNCHANGED <<disk, cache, server, minted, fails, mem, seen, ids, clobbered, revived, cut>>

WipeRow(t) ==
  /\ At(t, "wipe")
  /\ row' = [dev |-> 0, pq |-> 0]
  /\ Go(t, "wipeKeys")
  /\ UNCHANGED <<secret, pqSecret, signers, cache, server, minted, fails, local, clobbered, revived, cut>>

\* Mutant of WipeKeys: the prekey tables are left alone.
WipeKeysNot(t) ==
  /\ At(t, "wipeKeys")
  /\ Go(t, "dropSecret")
  /\ UNCHANGED <<disk, cache, server, minted, fails, local, clobbered, revived, cut>>

WipeKeys(t) ==
  /\ At(t, "wipeKeys")
  /\ signers' = {}
  /\ Go(t, "dropSecret")
  /\ UNCHANGED <<row, secret, pqSecret, cache, server, minted, fails, local, clobbered, revived, cut>>

DropSecret(t) ==
  /\ At(t, "dropSecret")
  /\ secret' = 0
  /\ Go(t, "dropPq")
  /\ UNCHANGED <<row, pqSecret, signers, cache, server, minted, fails, local, clobbered, revived, cut>>

DropPq(t) ==
  /\ At(t, "dropPq")
  /\ pqSecret' = 0
  /\ Go(t, "forget")
  /\ UNCHANGED <<row, secret, signers, cache, server, minted, fails, local, clobbered, revived, cut>>

Forget(t) ==
  /\ At(t, "forget")
  /\ cache' = Nobody
  /\ Go(t, IF old[t] = 0 THEN "cached" ELSE "retract")
  /\ UNCHANGED <<disk, server, minted, fails, local, clobbered, revived, cut>>

\* Best effort: the retraction may be lost.
Retract(t) ==
  /\ At(t, "retract")
  /\ \/ /\ bundles' = [bundles EXCEPT ![old[t]] = NoBundle]
        /\ UNCHANGED <<fails, cut>>
     \/ /\ fails < MaxFails
        /\ fails' = fails + 1
        /\ cut' = cut \cup {t}
        /\ UNCHANGED bundles
  /\ Go(t, "cached")
  /\ UNCHANGED <<disk, cache, list, minted, local, clobbered, revived>>

Retire(t) ==
  \/ Capture(t) \/ WipeRow(t) \/ WipeKeys(t) \/ DropSecret(t) \/ DropPq(t)
  \/ Forget(t) \/ Retract(t)

-----------------------------------------------------------------------------
(* maintain_and_republish and publish_device_list_replacing.                 *)

\* maintain_bundle: module Prekeys.  New prekeys are signed by the identity in hand.
Maintain(t) ==
  /\ At(t, "maintain")
  /\ \/ signers' = signers \cup {mem[t].key}
     \/ signers # {} /\ UNCHANGED signers
  /\ Go(t, "bundle")
  /\ UNCHANGED <<row, secret, pqSecret, cache, server, minted, fails, local, clobbered, revived, cut>>

\* The keys of the bundle are listed and published under the device id in hand.
PublishBundle(t) ==
  /\ At(t, "bundle")
  /\ bundles' = [bundles EXCEPT ![mem[t].dev] =
                   [key |-> mem[t].key, pq |-> mem[t].pq, signers |-> signers]]
  /\ Go(t, "fetch")
  /\ UNCHANGED <<disk, cache, list, minted, fails, local, clobbered, revived, cut>>

MyDevice(t) == IF t \in Others THEN t ELSE mem[t].dev
\* Mutants of WithUs: the retired device stays; this device is not added.
WithRetired(t, fetched) == fetched \cup {MyDevice(t)}
WithoutUs(t, fetched) == fetched \ (IF old[t] = 0 THEN {} ELSE {old[t]})

WithUs(t, fetched) == (fetched \ (IF old[t] = 0 THEN {} ELSE {old[t]})) \cup {MyDevice(t)}

\* A failed fetch counts as an empty list (unwrap_or_default).
FetchList(t) ==
  /\ At(t, "fetch")
  /\ \/ ids' = [ids EXCEPT ![t] = WithUs(t, list)] /\ UNCHANGED fails
     \/ /\ fails < MaxFails
        /\ fails' = fails + 1
        /\ ids' = [ids EXCEPT ![t] = WithUs(t, {})]
  /\ Go(t, "publish")
  /\ UNCHANGED <<disk, cache, server, minted, mem, seen, old, clobbered, revived, cut>>

PublishList(t) ==
  /\ At(t, "publish")
  /\ list' = ids[t]
  /\ ids' = [ids EXCEPT ![t] = {}]
  /\ clobbered' = (clobbered \cup (list \ (ids[t] \cup {old[t]}))) \ {MyDevice(t)}
  /\ revived' = revived \cup (ids[t] \ (list \cup {MyDevice(t)}))
  /\ Go(t, "done")
  /\ UNCHANGED <<disk, cache, bundles, minted, fails, mem, seen, old, cut>>

Announce(t) == Maintain(t) \/ PublishBundle(t) \/ FetchList(t) \/ PublishList(t)

IdentityNext ==
  \/ \E t \in Tasks : Start(t) \/ Fails(t) \/ Announce(t)
  \/ \E t \in Own : Load(t)
  \/ \E t \in Regens : Retire(t)
  \/ Restart

IdentitySpec == IdentityInit /\ [][IdentityNext]_identityVars

-----------------------------------------------------------------------------
Smooth == ~overlapped

\* The prekeys of a published bundle are signed by its identity key, unless a regeneration
\* was cut short (between its deletions).
BundlesSigned ==
  Smooth /\ cut \cap Regens = {} => \A d \in Numbers : bundles[d].signers \subseteq {bundles[d].key}

\* Once a regeneration has ended, the retired device has neither a bundle nor a place on the
\* list, unless tasks overlapped or the regeneration was cut short.
RetiredIsGone ==
  \A t \in Regens :
    Smooth /\ place[t] = "done" /\ t \notin cut /\ old[t] # 0 =>
      bundles[old[t]] = NoBundle /\ old[t] \notin list \ revived

\* A device that has been announced is on the list, unless another device's publication
\* dropped it.
AnnouncedIsListed ==
  /\ \A t \in Inits \cup Regens :
       place[t] = "done" /\ t \notin cut =>
         mem[t].dev \in list \cup clobbered \/ \E r \in Regens : old[r] = mem[t].dev
  /\ \A t \in Others : t \in list \cup clobbered

=============================================================================
