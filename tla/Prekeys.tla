------------------------------ MODULE Prekeys ------------------------------
(***************************************************************************)
(* The prekeys of this device and the bundle it publishes about them:      *)
(* maintain_bundle (mxc-omemo, session.rs), its store (mxc-store,          *)
(* omemo.rs) and its callers.  A pass runs in a task of its own, at every  *)
(* bootstrap and after every key exchange that was opened, and gives up    *)
(* the thread at each access to the store, so passes and key exchanges     *)
(* interleave.  No lock covers them.                                       *)
(*                                                                         *)
(* A key exchange cites one EC prekey, one signed prekey and one KEM       *)
(* prekey of a bundle the peer fetched at some time before; the peer is    *)
(* this program too.  A key is a number that is never given twice; its id  *)
(* may be.  One unit of time is the month after which keys rotate.         *)
(***************************************************************************)
EXTENDS Naturals, FiniteSets, FiniteSetsExt

CONSTANTS
  Boots,     \* the passes that bootstraps and resets start (bound: each runs once)
  Kex,       \* the key exchanges of peers (bound)
  Copies,    \* <<k, v>> : key exchange k reaches us by way v (live, archive)
  Starts,    \* where a run may start: "fresh"; "legacy" (Round-3 KEM keys); "drained" (one
             \* pass listed no KEM key while they were used up, the next is about to list)
  Target,    \* one-time keys to have (PREKEY_COUNT)
  LowWater,  \* replenish below this many (PREKEY_LOW_WATER)
  RotateAge, \* KEM_SPK_ROTATION_MS and SIGNED_PREKEY_ROTATION_MS
  KeepAge,   \* KEM_PREKEY_MAX_AGE_MS
  MaxClock,  \* (bound)
  AtOnce     \* how many passes may be at work at once (bound)

ASSUME PrekeysAssumption ==
  /\ Target \in Nat \ {0}
  /\ LowWater \in 1..Target
  /\ RotateAge \in Nat
  /\ KeepAge \in Nat
  /\ MaxClock \in Nat
  /\ AtOnce \in Nat \ {0}
  /\ Starts \subseteq {"fresh", "drained", "legacy"}
  /\ Boots # {} /\ Boots \cap Copies = {}
  /\ \A c \in Copies : c[1] \in Kex

VARIABLES
  clock,
  made,       \* how many keys have been generated
  ec,         \* omemo_prekeys
  kem,        \* omemo_kyber_prekeys
  spk,        \* omemo_signed_prekeys
  opened,     \* the copies of key exchanges that were opened and stored a session
  published,  \* the bundle item of our PEP node
  cites,      \* what each key exchange cites, NoCite before its peer has fetched the bundle
  pc,         \* the task of each bootstrap and each copy
  next,       \* the id that task writes next
  todo,       \* how many keys it still has to write
  draft,      \* the bundle it has listed
  before,     \* the tasks that had a bundle to publish when it listed (history)
  outrun,     \* the tasks a later listing was published before (history)
  raced,      \* copies that read their prekeys while another copy with one of them had (history)
  crowded,    \* two passes have been at work at once (history)
  unpublished, \* passes that ended without their bundle on the server (history)
  overtaken,  \* a bundle was published after one that was listed later (history)
  spent,       \* keys that key exchanges have consumed (history)
  overwritten, \* keys whose id was given to another key (history)
  lost        \* why copies of key exchanges could not be opened (history)

store == <<made, ec, kem, spk>>
tasks == <<pc, next, todo, draft>>
order == <<before, outrun>>
history == <<before, outrun, raced, crowded, unpublished, overtaken, spent, overwritten, lost>>
vars == <<clock, made, ec, kem, spk, opened, published, cites, pc, next, todo, draft,
          before, outrun, raced, crowded, unpublished, overtaken, spent, overwritten, lost>>

Tasks == Boots \cup Copies
PassSteps == {"check", "generate", "purge", "countEc", "storeEc", "countKem", "storeKem",
              "rotate", "storeLast", "signed", "storeSigned", "prune", "list", "publish"}
Steps == {"idle", "commit", "done"} \cup PassSteps

Key == [id : Nat, key : Nat]
EcKey == [id : Nat, key : Nat]
SignedKey == [id : Nat, key : Nat, born : Nat]
KemKey == [id : Nat, key : Nat, born : Nat, last : BOOLEAN, used : BOOLEAN, round3 : BOOLEAN]
\* born (of the last-resort key) is for the histories; round3 is the tag of last.
Bundle == [ec : SUBSET Key, kem : SUBSET Key, last : Key, signed : Key, round3 : BOOLEAN,
           born : Nat]
NoKey == [id |-> 0, key |-> 0]
NoBundle == [ec |-> {}, kem |-> {}, last |-> NoKey, signed |-> NoKey, round3 |-> FALSE,
             born |-> 0]
NoCite == [ec |-> NoKey, kem |-> NoKey, signed |-> NoKey, last |-> FALSE, born |-> 0]

TypeOK ==
  /\ clock \in 0..MaxClock
  /\ made \in Nat
  /\ ec \subseteq EcKey
  /\ kem \subseteq KemKey
  /\ spk \subseteq SignedKey
  /\ opened \subseteq Copies
  /\ published \in Bundle
  /\ cites \in [Kex -> [ec : Key, kem : Key, signed : Key, last : BOOLEAN, born : Nat]]
  /\ pc \in [Tasks -> Steps]
  /\ next \in [Tasks -> Nat]
  /\ todo \in [Tasks -> Nat]
  /\ draft \in [Tasks -> Bundle]
  /\ before \in [Tasks -> SUBSET Tasks]
  /\ outrun \subseteq Tasks
  /\ raced \subseteq Copies
  /\ crowded \in BOOLEAN
  /\ unpublished \subseteq Tasks
  /\ overtaken \in BOOLEAN
  /\ spent \subseteq Nat
  /\ overwritten \subseteq Nat
  /\ lost \subseteq [of : {"ec", "kem", "last", "signed"}, key : Nat, age : Nat]

-----------------------------------------------------------------------------
(* Tables.                                                                   *)

\* INSERT .. ON CONFLICT DO UPDATE: the row of that id is replaced.
Put(table, row) == {r \in table : r.id # row.id} \cup {row}
Public(row) == [id |-> row.id, key |-> row.key]
Displaced(table, ids) == {r.key : r \in {x \in table : x.id \in ids}}
HighestId(table) == Max({r.id : r \in table} \cup {0})
Newest(table) == CHOOSE r \in table : \A s \in table : s.id <= r.id
Available == {r \in kem : ~r.used /\ ~r.last}
LastResorts == {r \in kem : r.last}

FreshKem(id, key, last) ==
  [id |-> id, key |-> key, born |-> clock, last |-> last, used |-> FALSE, round3 |-> FALSE]

\* The store and bundle of an account that has been in use, with OldKeys keys made so far.
OldKeys == 3 * Target + 2
OldKey(id, start) ==
  [id |-> id, key |-> Target + id, born |-> 0, last |-> id = 1,
   used |-> start = "drained" /\ id \in 2..Target + 1, round3 |-> start = "legacy"]
OldKem(start) ==
  {OldKey(i, start) : i \in 1..IF start = "drained" THEN 2 * Target + 1 ELSE Target + 1}
OldEc == {[id |-> i, key |-> i] : i \in 1..Target}
OldSigned == {[id |-> 1, key |-> OldKeys, born |-> 0]}
OldBundle(start) ==
  [NoBundle EXCEPT !.ec = OldEc,
                   !.kem = IF start = "drained" THEN {}
                           ELSE {Public(r) : r \in {k \in OldKem(start) : ~k.last}},
                   !.last = [id |-> 1, key |-> Target + 1],
                   !.signed = [id |-> 1, key |-> OldKeys],
                   !.round3 = start = "legacy"]

Init ==
  /\ clock = 0
  /\ \E start \in Starts, first \in Boots :
       /\ IF start = "fresh"
            THEN made = 0 /\ ec = {} /\ kem = {} /\ spk = {} /\ published = NoBundle
            ELSE /\ made = OldKeys /\ ec = OldEc /\ kem = OldKem(start) /\ spk = OldSigned
                 /\ published = OldBundle(start)
       /\ pc = [t \in Tasks |-> IF t = first /\ start = "drained" THEN "list" ELSE "idle"]
       /\ next = [t \in Tasks |-> IF t = first /\ start = "drained" THEN 1 ELSE 0]
  /\ opened = {}
  /\ cites = [k \in Kex |-> NoCite]
  /\ todo = [t \in Tasks |-> 0]
  /\ draft = [t \in Tasks |-> NoBundle]
  /\ before = [t \in Tasks |-> {}]
  /\ outrun = {}
  /\ raced = {}
  /\ crowded = FALSE
  /\ unpublished = {}
  /\ overtaken = FALSE
  /\ spent = {}
  /\ overwritten = {}
  /\ lost = {}

Quiet == \A t \in Tasks : pc[t] \in {"idle", "done"}
Step(t, step) == pc' = [pc EXCEPT ![t] = step]
Passing(t) == pc[t] \in PassSteps
\* A pass begins.
Begins(t) ==
  /\ Cardinality({u \in Tasks : Passing(u)}) < AtOnce
  /\ Step(t, "check")
  /\ crowded' = (crowded \/ \E u \in Tasks : Passing(u))

\* A month passes.  (Bound: not within a pass or a key exchange, which take seconds.)
Tick ==
  /\ Quiet
  /\ clock < MaxClock
  /\ clock' = clock + 1
  /\ UNCHANGED <<store, opened, published, cites, tasks, history>>

-----------------------------------------------------------------------------
(* One pass of maintain_bundle.                                              *)

\* ensure_initialized at a bootstrap, or after a reset of the peers' state.
StartPass(b) ==
  /\ pc[b] = "idle"
  /\ Begins(b)
  /\ UNCHANGED <<clock, store, opened, published, cites, next, todo, draft,
                 order, raced, unpublished, overtaken, spent, overwritten, lost>>

\* The first use is told by the first signed prekey.
Check(t) ==
  /\ pc[t] = "check"
  /\ Step(t, IF \E r \in spk : r.id = 1 THEN "purge" ELSE "generate")
  /\ UNCHANGED <<clock, store, opened, published, cites, next, todo, draft, history>>

\* The bundle in draft is what the store holds now.
Lists(t) ==
  /\ Step(t, "publish")
  /\ before' = [before EXCEPT ![t] = {u \in Tasks : pc[u] = "publish"}]
  /\ UNCHANGED outrun

\* generate_and_store_prekeys: the keys get the first ids, and the bundle is built from
\* the keys in hand.
Generate(t) ==
  /\ pc[t] = "generate"
  /\ LET newEc == {[id |-> i, key |-> made + i] : i \in 1..Target}
         signed == [id |-> 1, key |-> made + Target + 1, born |-> clock]
         newKem == {FreshKem(i, made + Target + 1 + i, i = 1) : i \in 1..Target + 1}
     IN /\ ec' = {r \in ec : \A n \in newEc : n.id # r.id} \cup newEc
        /\ spk' = Put(spk, signed)
        /\ kem' = {r \in kem : \A n \in newKem : n.id # r.id} \cup newKem
        /\ made' = made + 2 * Target + 2
        /\ draft' = [draft EXCEPT ![t] =
             [ec |-> newEc, kem |-> {Public(r) : r \in {n \in newKem : ~n.last}},
              last |-> [id |-> 1, key |-> made + Target + 2], signed |-> Public(signed),
              round3 |-> FALSE, born |-> clock]]
        /\ overwritten' = overwritten \cup Displaced(ec, 1..Target) \cup Displaced(spk, {1})
                                      \cup Displaced(kem, 1..Target + 1)
  /\ Lists(t)
  /\ UNCHANGED <<clock, opened, published, cites, next, todo, raced, crowded, unpublished,
                 overtaken, spent, lost>>

\* purge_non_ml_kem_prekeys.
Purge(t) ==
  /\ pc[t] = "purge"
  /\ kem' = {r \in kem : ~r.round3}
  /\ Step(t, "countEc")
  /\ UNCHANGED <<clock, made, ec, spk, opened, published, cites, next, todo, draft, history>>

\* replenish: count and highest id are read before the first key is written.
Count(t, at, count, highest, write, skip) ==
  /\ pc[t] = at
  /\ IF count < LowWater
       THEN /\ next' = [next EXCEPT ![t] = highest + 1]
            /\ todo' = [todo EXCEPT ![t] = Target - count]
            /\ Step(t, write)
       ELSE UNCHANGED <<next, todo>> /\ Step(t, skip)
  /\ UNCHANGED <<clock, store, opened, published, cites, draft, history>>

CountEc(t) == Count(t, "countEc", Cardinality(ec), HighestId(ec), "storeEc", "countKem")
CountKem(t) == Count(t, "countKem", Cardinality(Available), HighestId(kem), "storeKem", "rotate")

\* One round of a loop that writes todo keys from id next on.
Written(t, at, after, table) ==
  /\ pc[t] = at
  /\ overwritten' = overwritten \cup Displaced(table, {next[t]})
  /\ made' = made + 1
  /\ next' = [next EXCEPT ![t] = @ + 1]
  /\ todo' = [todo EXCEPT ![t] = @ - 1]
  /\ Step(t, IF todo[t] = 1 THEN after ELSE at)
  /\ UNCHANGED <<clock, spk, opened, published, cites, draft, order, raced, crowded,
                 unpublished, overtaken, spent, lost>>

StoreEc(t) ==
  /\ Written(t, "storeEc", "countKem", ec)
  /\ ec' = Put(ec, [id |-> next[t], key |-> made + 1])
  /\ UNCHANGED kem

StoreKem(t) ==
  /\ Written(t, "storeKem", "rotate", kem)
  /\ kem' = Put(kem, FreshKem(next[t], made + 1, FALSE))
  /\ UNCHANGED ec

\* rotate_last_resort_if_due: nothing to do without a last-resort key, or with a young one.
Rotate(t) ==
  /\ pc[t] = "rotate"
  /\ IF LastResorts # {} /\ clock - Newest(LastResorts).born > RotateAge
       THEN next' = [next EXCEPT ![t] = HighestId(kem) + 1] /\ Step(t, "storeLast")
       ELSE UNCHANGED next /\ Step(t, "signed")
  /\ UNCHANGED <<clock, store, opened, published, cites, todo, draft, history>>

StoreLast(t) ==
  /\ pc[t] = "storeLast"
  /\ made' = made + 1
  /\ kem' = Put(kem, FreshKem(next[t], made + 1, TRUE))
  /\ overwritten' = overwritten \cup Displaced(kem, {next[t]})
  /\ Step(t, "signed")
  /\ UNCHANGED <<clock, ec, spk, opened, published, cites, next, todo, draft, order, raced,
                 crowded, unpublished, overtaken, spent, lost>>

\* rotate_signed_prekey_if_due: next is then the id to publish.
Signed(t) ==
  /\ pc[t] = "signed"
  /\ LET due == clock - Newest(spk).born > RotateAge
     IN /\ next' = [next EXCEPT ![t] = IF due THEN Newest(spk).id + 1 ELSE Newest(spk).id]
        /\ Step(t, IF due THEN "storeSigned" ELSE "prune")
  /\ UNCHANGED <<clock, store, opened, published, cites, todo, draft, history>>

StoreSigned(t) ==
  /\ pc[t] = "storeSigned"
  /\ made' = made + 1
  /\ spk' = Put(spk, [id |-> next[t], key |-> made + 1, born |-> clock])
  /\ overwritten' = overwritten \cup Displaced(spk, {next[t]})
  /\ Step(t, "prune")
  /\ UNCHANGED <<clock, ec, kem, opened, published, cites, next, todo, draft, order, raced,
                 crowded, unpublished, overtaken, spent, lost>>

\* Mutant of Stale: one-time keys that were never used age out too.
StaleOrUnused(r) ==
  /\ ~(r.last /\ r = Newest(LastResorts))
  /\ clock - r.born > KeepAge

\* prune_stale_kyber_prekeys: the current last-resort key and the keys on offer stay.
Stale(r) ==
  /\ r.used \/ r.last
  /\ ~(r.last /\ r = Newest(LastResorts))
  /\ clock - r.born > KeepAge

Prune(t) ==
  /\ pc[t] = "prune"
  /\ kem' = {r \in kem : ~Stale(r)}
  /\ Step(t, "list")
  /\ UNCHANGED <<clock, made, ec, spk, opened, published, cites, next, todo, draft, history>>

\* rebuild_bundle: without a last-resort key there is no bundle, and the pass fails.
List(t) ==
  /\ pc[t] = "list"
  /\ IF LastResorts = {}
       THEN /\ Step(t, "done")
            /\ unpublished' = unpublished \cup {t}
            /\ UNCHANGED <<draft, order>>
       ELSE /\ draft' = [draft EXCEPT ![t] =
                 [ec |-> ec, kem |-> {Public(r) : r \in Available},
                  last |-> Public(Newest(LastResorts)),
                  signed |-> Public(CHOOSE r \in spk : r.id = next[t]),
                  round3 |-> Newest(LastResorts).round3, born |-> Newest(LastResorts).born]]
            /\ Lists(t)
            /\ UNCHANGED unpublished
  /\ UNCHANGED <<clock, store, opened, published, cites, next, todo, raced, crowded, overtaken,
                 spent, overwritten, lost>>

\* The bundle replaces the item on the server, or the request never gets there.
Publish(t) ==
  /\ pc[t] = "publish"
  /\ \/ /\ published' = draft[t]
        /\ overtaken' = (overtaken \/ t \in outrun)
        /\ outrun' = (outrun \cup before[t]) \ {t}
        /\ UNCHANGED unpublished
     \/ /\ unpublished' = unpublished \cup {t}
        /\ outrun' = outrun \ {t}
        /\ UNCHANGED <<published, overtaken>>
  /\ Step(t, "done")
  /\ draft' = [draft EXCEPT ![t] = NoBundle]
  /\ next' = [next EXCEPT ![t] = 0]
  /\ before' = [u \in Tasks |-> IF u = t THEN {} ELSE before[u] \ {t}]
  /\ UNCHANGED <<clock, store, opened, cites, todo, raced, crowded, spent, overwritten, lost>>

-----------------------------------------------------------------------------
(* Key exchanges.                                                            *)

First(keys) == CHOOSE r \in keys : \A s \in keys : r.id <= s.id

\* A peer fetches our bundle and starts a session with it (establish_session): it refuses
\* Round-3 keys and a bundle without EC prekeys, and takes the first prekey of each list.
Cite(k) ==
  /\ cites[k] = NoCite
  /\ ~published.round3
  /\ published.ec # {}
  /\ LET one == published.kem # {}
     IN cites' = [cites EXCEPT ![k] =
          [ec |-> First(published.ec),
           kem |-> IF one THEN First(published.kem) ELSE published.last,
           signed |-> published.signed, last |-> ~one, born |-> published.born]]
  /\ UNCHANGED <<clock, store, opened, published, tasks, history>>

Sharing(c) ==
  {d \in Copies \ {c} : /\ pc[d] = "commit"
                        /\ \/ cites[d[1]].ec = cites[c[1]].ec
                           \/ cites[d[1]].kem = cites[c[1]].kem}
SessionFrom(k) == \E d \in opened : d[1] = k
Holds(table, cited) == \E r \in table : Public(r) = cited

\* The prekeys k cites that cannot be read.  A consumed one-time KEM key is refused, a
\* last-resort key never is.
Unreadable(k) ==
  LET c == cites[k]
      missing(of, table, cited) ==
        IF Holds(table, cited) THEN {}
        ELSE {[of |-> of, key |-> cited.key, age |-> clock - c.born]}
  IN missing("ec", ec, c.ec) \cup missing("signed", spk, c.signed)
     \cup missing(IF c.last THEN "last" ELSE "kem", {r \in kem : r.last \/ ~r.used}, c.kem)

\* A copy of a key exchange arrives: decrypt reads the prekeys it cites.
Arrive(c) ==
  /\ pc[c] = "idle"
  /\ cites[c[1]] # NoCite
  /\ IF ~SessionFrom(c[1]) /\ Unreadable(c[1]) = {}
       THEN /\ Step(c, "commit")
            /\ raced' = raced \cup Sharing(c) \cup (IF Sharing(c) # {} THEN {c} ELSE {})
            /\ UNCHANGED lost
       ELSE /\ Step(c, "done")
            /\ lost' = IF SessionFrom(c[1]) THEN lost ELSE lost \cup Unreadable(c[1])
            /\ UNCHANGED raced
  /\ UNCHANGED <<clock, store, opened, published, cites, next, todo, draft, order,
                 crowded, unpublished, overtaken, spent, overwritten>>

\* Mutants of Commit: the EC prekey stays; no pass follows.
CommitKeepsEc(c) ==
  /\ pc[c] = "commit"
  /\ kem' = {IF ~r.last /\ r.id = cites[c[1]].kem.id THEN [r EXCEPT !.used = TRUE] ELSE r :
               r \in kem}
  /\ opened' = opened \cup {c}
  /\ Begins(c)
  /\ UNCHANGED <<clock, made, ec, spk, published, cites, next, todo, draft, order, raced,
                 unpublished, overtaken, spent, overwritten, lost>>
CommitOnly(c) ==
  /\ pc[c] = "commit"
  /\ kem' = {IF ~r.last /\ r.id = cites[c[1]].kem.id THEN [r EXCEPT !.used = TRUE] ELSE r :
               r \in kem}
  /\ ec' = {r \in ec : r.id # cites[c[1]].ec.id}
  /\ opened' = opened \cup {c}
  /\ Step(c, "done")
  /\ UNCHANGED <<clock, made, spk, published, cites, next, todo, draft, history>>

\* The message was opened: mark_kyber_pre_key_used (which refuses an initiation it has seen
\* for a last-resort key), remove_pre_key, store_session; then the pass of process_payload.
Commit(c) ==
  /\ pc[c] = "commit"
  /\ LET k == c[1]
         replayed == cites[k].last /\ SessionFrom(k)
     IN IF replayed
          THEN /\ Step(c, "done")
               /\ UNCHANGED <<store, opened, crowded, spent>>
          ELSE /\ kem' = {IF ~r.last /\ r.id = cites[k].kem.id THEN [r EXCEPT !.used = TRUE] ELSE r :
                            r \in kem}
               /\ ec' = {r \in ec : r.id # cites[k].ec.id}
               /\ spent' = spent \cup Displaced(ec, {cites[k].ec.id})
                                 \cup Displaced(Available, {cites[k].kem.id})
               /\ opened' = opened \cup {c}
               /\ Begins(c)
               /\ UNCHANGED <<made, spk>>
  /\ UNCHANGED <<clock, published, cites, next, todo, draft, order, raced, unpublished,
                 overtaken, overwritten, lost>>

-----------------------------------------------------------------------------
Pass(t) ==
  \/ Check(t) \/ Generate(t) \/ Purge(t)
  \/ CountEc(t) \/ StoreEc(t) \/ CountKem(t) \/ StoreKem(t)
  \/ Rotate(t) \/ StoreLast(t) \/ Signed(t) \/ StoreSigned(t)
  \/ Prune(t) \/ List(t) \/ Publish(t)

Next ==
  \/ Tick
  \/ \E b \in Boots : StartPass(b)
  \/ \E t \in Tasks : Pass(t)
  \/ \E k \in Kex : Cite(k)
  \/ \E c \in Copies : Arrive(c) \/ Commit(c)

Spec == Init /\ [][Next]_vars

-----------------------------------------------------------------------------
\* A prekey opens one key exchange only, and a key exchange opens one session only, unless
\* the prekeys were read by both before either was stored (no lock covers decrypt).
OpenedOnce ==
  \A c, d \in opened :
    c # d /\ (cites[c[1]].ec = cites[d[1]].ec \/ (cites[c[1]].kem = cites[d[1]].kem
                                                   /\ ~cites[c[1]].last))
      => c \in raced /\ d \in raced

CitedKeys == UNION {{cites[d[1]].ec.key, cites[d[1]].kem.key} : d \in opened}

\* The keys of every bundle we publish stay readable for those who fetched it: a key exchange
\* fails only when another one has used up a one-time key it cites, when two passes at once
\* gave one id twice, or when it cites a last-resort key older than the grace period.
CitedKeysResolve ==
  /\ \A l \in lost :
       \/ l.of \in {"ec", "kem"} /\ l.key \in spent
       \/ l.key \in overwritten
       \/ l.of = "last" /\ l.age > KeepAge
  /\ ~(spent \subseteq CitedKeys) => overwritten # {} \/ raced # {}
  /\ overwritten # {} => crowded

\* No pass is at work and a bootstrap has made one.
Settled == Quiet /\ \E b \in Boots : pc[b] = "done"

Usable(b) ==
  /\ \A x \in b.ec : Holds(ec, x)
  /\ \A x \in b.kem : Holds(Available, x)
  /\ Holds(LastResorts, b.last)
  /\ Holds(spk, b.signed)

\* "so we never advertise a consumed pre-key": once every pass has ended, each key of the
\* published bundle can be used, unless a bundle did not reach the server or reached it
\* after a later one.
AdvertisedUsable ==
  Settled /\ unpublished = {} /\ ~overtaken => Usable(published)

=============================================================================
