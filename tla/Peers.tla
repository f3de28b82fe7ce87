-------------------------------- MODULE Peers --------------------------------
(***************************************************************************)
(* Sessions with the devices of one peer: encrypt_for_recipients and       *)
(* sessions_for, decrypt_message, heal_session, reconcile_pq_pin_if_missing *)
(* (mxc-proto, omemo.rs), establish_session and encrypt (mxc-omemo,        *)
(* session.rs), and the tables of identities, trust, pins and sessions     *)
(* (mxc-store, omemo.rs).  Every send, every received message and every    *)
(* reset is a task of its own; a task gives up the thread at each access   *)
(* to the store or the network, and no lock covers a session.              *)
(*                                                                         *)
(* A key is a number; a device that is set up anew has the next one.  A    *)
(* session is [key, id, n]: the identity it was built with, a number that  *)
(* no other session has, and the messages it has encrypted.                *)
(***************************************************************************)
EXTENDS Naturals, FiniteSets

CONSTANTS
  Devices,   \* the peer's devices
  NoDevice,  \* none of them
  Sends,     \* calls of encrypt_for_recipients (bound)
  Receives,  \* messages of the peer (bound)
  Resets,    \* runs of "reset OMEMO2 identities" (bound)
  MaxKeys,   \* identity keys and post-quantum keys of a device (bound)
  MaxBuilt,  \* sessions built (bound)
  MaxTurns,  \* failed requests, changes of the peer, verdicts and expiries together (bound)
  AtOnce,    \* tasks at work at once (bound)
  AutoTrust, \* auto_trust_new_keys
  Starts     \* where a run may start: "fresh"; "trusted" (a session with every device)

Tasks == Sends \cup Receives \cup Resets

ASSUME PeersAssumption ==
  /\ MaxKeys \in Nat \ {0} /\ MaxBuilt \in Nat \ {0} /\ MaxTurns \in Nat
  /\ AtOnce \in Nat \ {0} /\ AutoTrust \in BOOLEAN /\ NoDevice \notin Devices
  /\ Starts \subseteq {"fresh", "trusted"}
  /\ Sends \cap Receives = {} /\ Resets \cap (Sends \cup Receives) = {}

VARIABLES
  bundle,    \* what each device publishes: [key, pq]
  peerList,  \* the device list of the peer
  ident,     \* omemo_identities: [key, trust], key 0 without a row
  pins,      \* omemo_pq_identities: the pq key pinned for a device's key, 0 without
  session,   \* omemo_sessions: [key, id, n], id 0 without
  failures,  \* establish_failures: devices that are skipped
  seenList,  \* device_list_seen
  healed,    \* heal_attempts within the cooldown
  asked,     \* pq_pin_reconcile_attempts
  shown,     \* the key the user sees for a device
  built, turns,
  task,      \* of each task: place, device, devices to come, devices to write to, bundle, session
  sent,      \* the wraps that went out: [dev, key, id, n, by] (history)
  approved,  \* the keys that the user or blind trust accepted, by device (history)
  crossed,   \* devices whose session was stored over a newer one (history)
  swapped,   \* devices whose row was replaced under a task that had checked or saved it (history)
  misplaced, \* devices whose row got a verdict on another key (history)
  racing,    \* devices whose pin or verdict changed under a task that had checked it, or whose
             \* verified row that task replaced itself (history)
  torn       \* devices with a session on the way while their rows were deleted (history)

peer == <<bundle, peerList>>
tables == <<ident, pins, session>>
caches == <<failures, seenList, healed, asked>>
marks == <<approved, swapped>>
vars == <<bundle, peerList, ident, pins, session, failures, seenList, healed, asked, shown,
          built, turns, task, sent, approved, crossed, swapped, misplaced, racing, torn>>

Keys == 0..MaxKeys
Bundle == [key : Keys, pq : Keys]
Session == [key : Keys, id : 0..MaxBuilt, n : Nat]
NoBundle == [key |-> 0, pq |-> 0]
NoSession == [key |-> 0, id |-> 0, n |-> 0]
Unseen == {NoDevice}
Blank == [at |-> "idle", dev |-> NoDevice, rest |-> {}, addrs |-> {}, got |-> NoBundle,
          ses |-> NoSession]

Establish == {"bundle", "pinned", "identity", "store", "pin"}
Steps == {"idle", "done", "list", "pick", "trust", "load", "wrap", "open", "accept", "record",
          "known", "fill", "refill", "rows", "pins", "forget"} \cup Establish

TypeOK ==
  /\ bundle \in [Devices -> Bundle] /\ peerList \subseteq Devices
  /\ ident \in [Devices -> [key : Keys, trust : 0..3]]
  /\ pins \in [Devices -> [1..MaxKeys -> Keys]]
  /\ session \in [Devices -> Session]
  /\ failures \subseteq Devices /\ seenList \subseteq Devices \cup Unseen
  /\ healed \subseteq Devices /\ asked \subseteq Devices
  /\ shown \in [Devices -> Keys]
  /\ built \in 0..MaxBuilt /\ turns \in 0..MaxTurns
  /\ task \in [Tasks -> [at : Steps, dev : Devices \cup {NoDevice}, rest : SUBSET Devices,
                         addrs : SUBSET Devices, got : Bundle, ses : Session]]
  /\ sent \subseteq [dev : Devices, key : Keys, id : 0..MaxBuilt, n : Nat, by : Tasks]
  /\ approved \in [Devices -> SUBSET Keys]
  /\ crossed \subseteq Devices /\ swapped \subseteq Devices /\ misplaced \subseteq Devices
  /\ racing \subseteq Devices /\ torn \subseteq Devices

Init ==
  /\ bundle = [d \in Devices |-> [key |-> 1, pq |-> 1]]
  /\ peerList = Devices
  /\ \E start \in Starts :
       LET n == IF start = "fresh" THEN 0 ELSE 1
       IN /\ ident = [d \in Devices |-> [key |-> n, trust |-> n]]
          /\ pins = [d \in Devices |-> [k \in 1..MaxKeys |-> IF k = 1 THEN n ELSE 0]]
          /\ session = [d \in Devices |-> [key |-> n, id |-> n, n |-> 0]]
          /\ shown = [d \in Devices |-> n]
          /\ built = n
          /\ approved = [d \in Devices |-> IF n = 0 THEN {} ELSE {1}]
  /\ failures = {} /\ seenList = Unseen /\ healed = {} /\ asked = {}
  /\ turns = 0
  /\ task = [t \in Tasks |-> Blank]
  /\ sent = {} /\ crossed = {} /\ swapped = {} /\ misplaced = {} /\ racing = {} /\ torn = {}

-----------------------------------------------------------------------------
At(t, step) == task[t].at = step
Dev(t) == task[t].dev
Starting(t) ==
  /\ At(t, "idle")
  /\ Cardinality({u \in Tasks : task[u].at \notin {"idle", "done"}}) < AtOnce
Go(t, step) == task' = [task EXCEPT ![t].at = step]
\* A task that is over keeps nothing.
Over(t) == task' = [task EXCEPT ![t] = [Blank EXCEPT !.at = "done"]]
\* Where a task goes when its device cannot be used, or has been.
Skip(t) == IF t \in Sends THEN Go(t, "pick") ELSE Over(t)
Turn == turns < MaxTurns /\ turns' = turns + 1

Trusted(d) == ident[d].trust \in {1, 3}
\* Another task is at one of the steps with the device.
Busy(t, d, steps) == \E u \in Tasks \ {t} : Dev(u) = d /\ task[u].at \in steps

(* The peer, the clock and the user.                                         *)

\* The device is set up anew, or its post-quantum key alone is made anew.
Rekey(d) ==
  /\ Turn
  /\ bundle[d].pq < MaxKeys
  /\ \/ bundle' = [bundle EXCEPT ![d].pq = @ + 1, ![d].key = @ + 1]
     \/ bundle' = [bundle EXCEPT ![d].pq = @ + 1]
  /\ UNCHANGED <<peerList, tables, caches, shown, built, task, sent, marks, crossed,
                 misplaced, racing, torn>>

ChangeList(d) ==
  /\ Turn
  /\ peerList' = IF d \in peerList THEN peerList \ {d} ELSE peerList \cup {d}
  /\ UNCHANGED <<bundle, tables, caches, shown, built, task, sent, marks, crossed,
                 misplaced, racing, torn>>

\* The back-off of a device, or the cooldown of its healing, is over.
Expire(d) ==
  /\ Turn
  /\ \/ d \in failures /\ failures' = failures \ {d} /\ UNCHANGED healed
     \/ d \in healed /\ healed' = healed \ {d} /\ UNCHANGED failures
  /\ UNCHANGED <<peer, tables, seenList, asked, shown, built, task, sent, marks, crossed,
                 misplaced, racing, torn>>

\* The keys screen is filled with the rows of the moment.
Show(d) ==
  /\ shown[d] # ident[d].key
  /\ shown' = [shown EXCEPT ![d] = ident[d].key]
  /\ UNCHANGED <<peer, tables, caches, built, turns, task, sent, marks, crossed, misplaced,
                 racing, torn>>

\* The user decides on the key on the screen; set_omemo_trust updates the row of the device.
SetTrust(d, trust) ==
  /\ Turn
  /\ shown[d] # 0 /\ ident[d].key # 0 /\ ident[d].trust # trust
  /\ ident' = [ident EXCEPT ![d].trust = trust]
  /\ racing' = IF \E t \in Tasks : Dev(t) = d /\ task[t].at \in {"identity", "store", "pin"}
                 THEN racing \cup {d} ELSE racing
  /\ IF trust = 2
       THEN UNCHANGED <<approved, misplaced>>
       ELSE /\ approved' = [approved EXCEPT ![d] = @ \cup {shown[d]}]
            /\ misplaced' = IF shown[d] = ident[d].key THEN misplaced ELSE misplaced \cup {d}
  /\ UNCHANGED <<peer, pins, session, caches, shown, built, task, sent, crossed, swapped,
                 torn>>

-----------------------------------------------------------------------------
(* establish_session, for a send (sessions_for) or for heal_session.         *)

\* fetch_bundle.
FetchBundle(t) ==
  /\ At(t, "bundle")
  /\ \/ /\ task' = [task EXCEPT ![t].got = bundle[Dev(t)], ![t].at = "pinned"]
        /\ UNCHANGED <<failures, turns>>
     \/ Turn /\ failures' = failures \cup {Dev(t)} /\ Skip(t)
  /\ UNCHANGED <<peer, tables, seenList, healed, asked, shown, built, sent, marks, crossed,
                 misplaced, racing, torn>>

\* Mutant of CheckPin: a changed pq key is taken as it comes.
CheckPinNot(t) ==
  /\ At(t, "pinned")
  /\ Go(t, "identity")
  /\ UNCHANGED <<peer, tables, caches, shown, built, turns, sent, marks, crossed,
                 misplaced, racing, torn>>

\* A changed pq key is refused unless the device's key was verified.
CheckPin(t) ==
  /\ At(t, "pinned")
  /\ LET d == Dev(t) got == task[t].got
     IN IF pins[d][got.key] \in {0, got.pq} \/ ident[d].trust = 3
          THEN Go(t, "identity") /\ UNCHANGED failures
          ELSE Skip(t) /\ failures' = failures \cup {d}
  /\ UNCHANGED <<peer, tables, seenList, healed, asked, shown, built, turns, sent, marks, crossed,
                 misplaced, racing, torn>>

\* Mutant of NewIdent: trust stays with the device.
NewIdentKeeps(old, key) ==
  IF old.key = 0 THEN [key |-> key, trust |-> IF AutoTrust THEN 1 ELSE 0]
                 ELSE [old EXCEPT !.key = key]

\* save_omemo_identity: a new row takes the trust of new keys, a replaced key none.
NewIdent(old, key) ==
  CASE old.key = key -> old
    [] old.key = 0 -> [key |-> key, trust |-> IF AutoTrust THEN 1 ELSE 0]
    [] OTHER -> [key |-> key, trust |-> 0]

SaveIdentity(t, d, key) ==
  /\ ident' = [ident EXCEPT ![d] = NewIdent(@, key)]
  /\ approved' = IF ident[d].key = 0 /\ AutoTrust
                   THEN [approved EXCEPT ![d] = @ \cup {key}] ELSE approved
  /\ swapped' = IF /\ ident[d].key # key
                   /\ Busy(t, d, {"store", "record"}) \/ \E u \in Tasks : d \in task[u].addrs
                  THEN swapped \cup {d} ELSE swapped
  /\ racing' = IF /\ ident[d].trust = 3 /\ ident[d].key # key
                  /\ At(t, "identity") \/ Busy(t, d, {"identity", "store", "pin"})
                 THEN racing \cup {d} ELSE racing

\* is_trusted_identity: a key marked untrusted is refused, a new or replaced one is not.
Refused(d, key) == ident[d] = [key |-> key, trust |-> 2]

\* process_prekey_bundle saves the identity ...
SaveBundleIdentity(t) ==
  /\ At(t, "identity")
  /\ IF Refused(Dev(t), task[t].got.key)
       THEN Skip(t) /\ failures' = failures \cup {Dev(t)} /\ UNCHANGED <<ident, marks, racing>>
       ELSE Go(t, "store") /\ SaveIdentity(t, Dev(t), task[t].got.key) /\ UNCHANGED failures
  /\ UNCHANGED <<peer, pins, session, seenList, healed, asked, shown, built, turns, sent, crossed,
                 misplaced, torn>>

\* ... and stores the session.
NewSession(t) ==
  /\ built < MaxBuilt
  /\ built' = built + 1
  /\ session' = [session EXCEPT ![Dev(t)] = [key |-> task[t].got.key, id |-> built', n |-> 0]]

StoreSession(t) ==
  /\ At(t, "store")
  /\ NewSession(t)
  /\ Go(t, "pin")
  /\ UNCHANGED <<peer, ident, pins, caches, shown, turns, sent, marks, crossed, misplaced, racing,
                 torn>>

\* pin_omemo2_pq_identity overwrites.
Pin(t) ==
  LET d == Dev(t) got == task[t].got
  IN /\ pins' = [pins EXCEPT ![d][got.key] = got.pq]
     /\ racing' = IF Busy(t, d, {"identity", "store", "pin", "refill"})
                    THEN racing \cup {d} ELSE racing

PinBundle(t) ==
  /\ At(t, "pin")
  /\ Pin(t)
  /\ failures' = IF t \in Sends THEN failures \ {Dev(t)} ELSE failures
  /\ Go(t, "trust")
  /\ UNCHANGED <<peer, ident, session, seenList, healed, asked, shown, built, turns, sent, marks,
                 crossed, misplaced, torn>>

EstablishSession(t) ==
  FetchBundle(t) \/ CheckPin(t) \/ SaveBundleIdentity(t) \/ StoreSession(t) \/ PinBundle(t)

-----------------------------------------------------------------------------
(* A send: encrypt_for_recipients.                                           *)

StartSend(t) ==
  /\ Starting(t)
  /\ Go(t, "list")
  /\ UNCHANGED <<peer, tables, caches, shown, built, turns, sent, marks, crossed, misplaced,
                 racing, torn>>

\* A failed fetch counts as an empty list; a list that changed clears the failures.
FetchList(t) ==
  /\ At(t, "list")
  /\ \E list \in {peerList, {}} :
       /\ IF list = peerList THEN UNCHANGED turns ELSE Turn
       /\ task' = [task EXCEPT ![t].rest = list, ![t].at = "pick"]
       /\ failures' = IF list = seenList THEN failures ELSE {}
       /\ seenList' = list
  /\ UNCHANGED <<peer, tables, healed, asked, shown, built, sent, marks, crossed, misplaced,
                 racing, torn>>

\* The next device of the list: one with a session needs no bundle, one that failed is skipped.
\* A send without a device to write to is refused.
Pick(t) ==
  /\ At(t, "pick")
  /\ IF task[t].rest = {}
       THEN IF task[t].addrs = {} THEN Over(t) ELSE Go(t, "load")
       ELSE \E d \in task[t].rest :
              task' = [task EXCEPT ![t].rest = @ \ {d}, ![t].dev = d,
                         ![t].at = CASE session[d].id # 0 -> "trust"
                                     [] session[d].id = 0 /\ d \in failures -> "pick"
                                     [] OTHER -> "bundle"]
  /\ UNCHANGED <<peer, tables, caches, shown, built, turns, sent, marks, crossed, misplaced,
                 racing, torn>>

\* Mutant of CheckTrust: a device whose session was made is written to.
CheckTrustNot(t) ==
  /\ t \in Sends /\ At(t, "trust")
  /\ task' = [task EXCEPT ![t].at = "pick", ![t].addrs = @ \cup {Dev(t)}]
  /\ UNCHANGED <<peer, tables, caches, shown, built, turns, sent, marks, crossed, misplaced,
                 racing, torn>>

\* Only a device that is trusted is written to.
CheckTrust(t) ==
  /\ t \in Sends /\ At(t, "trust")
  /\ task' = [task EXCEPT ![t].at = "pick",
                ![t].addrs = IF Trusted(Dev(t)) THEN @ \cup {Dev(t)} ELSE @]
  /\ UNCHANGED <<peer, tables, caches, shown, built, turns, sent, marks, crossed, misplaced,
                 racing, torn>>

\* message_encrypt loads the session.  Without one, or with a key marked untrusted since, the
\* whole send turns.
LoadSession(t) ==
  /\ At(t, "load")
  /\ \E d \in task[t].addrs :
       IF session[d].id = 0 \/ Refused(d, session[d].key)
         THEN Over(t)
         ELSE task' = [task EXCEPT ![t].at = "wrap", ![t].dev = d, ![t].ses = session[d]]
  /\ UNCHANGED <<peer, tables, caches, shown, built, turns, sent, marks, crossed, misplaced,
                 racing, torn>>

\* Mutant of Advance: the record goes back as it was loaded.
AdvanceNot(s) == s
Advance(s) == [s EXCEPT !.n = @ + 1]

\* The identity is saved and the record put back.
StoreBack(t, record) ==
  /\ SaveIdentity(t, Dev(t), record.key)
  /\ session' = [session EXCEPT ![Dev(t)] = record]
  /\ crossed' = IF session[Dev(t)] = task[t].ses THEN crossed ELSE crossed \cup {Dev(t)}

Wrap(t) ==
  /\ At(t, "wrap")
  /\ LET d == Dev(t) ses == task[t].ses left == task[t].addrs \ {d}
     IN /\ StoreBack(t, Advance(ses))
        /\ sent' = sent \cup {[dev |-> d, key |-> ses.key, id |-> ses.id, n |-> ses.n, by |-> t]}
        /\ IF left = {}
             THEN Over(t)
             ELSE task' = [task EXCEPT ![t].addrs = left, ![t].at = "load", ![t].ses = NoSession]
  /\ UNCHANGED <<peer, pins, caches, shown, built, turns, misplaced, torn>>

Send(t) ==
  StartSend(t) \/ FetchList(t) \/ Pick(t) \/ CheckTrust(t) \/ LoadSession(t) \/ Wrap(t)

-----------------------------------------------------------------------------
(* A message of the peer: decrypt_message and what its handler does next.    *)

\* A key exchange made by the device's current identity, or a message of a session made by
\* one of its identities.
StartReceive(t, d, key) ==
  /\ Starting(t)
  /\ \E step \in {"accept", "open"} :
       /\ step = "accept" => key = bundle[d].key
       /\ task' = [task EXCEPT ![t].at = step, ![t].dev = d, ![t].got.key = key,
                     ![t].ses = IF step = "open" THEN session[d] ELSE NoSession]
  /\ UNCHANGED <<peer, tables, caches, shown, built, turns, sent, marks, crossed, misplaced,
                 racing, torn>>

\* The session that was loaded opens it, and goes back to the store; or heal_session is tried.
Open(t) ==
  /\ At(t, "open")
  /\ LET d == Dev(t) ses == task[t].ses
     IN IF ses.key = task[t].got.key /\ ~Refused(d, ses.key)
          THEN /\ StoreBack(t, ses)
               /\ task' = [task EXCEPT ![t].at = "known", ![t].ses = NoSession]
               /\ UNCHANGED <<failures, healed>>
          ELSE /\ failures' = {}
               /\ healed' = healed \cup {d}
               /\ IF d \in healed
                    THEN Over(t)
                    ELSE task' = [task EXCEPT ![t].at = "bundle", ![t].ses = NoSession]
               /\ UNCHANGED <<ident, session, marks, crossed, racing>>
  /\ UNCHANGED <<peer, pins, seenList, asked, shown, built, turns, sent, misplaced, torn>>

\* A key exchange saves the identity and then the session it makes.
Accept(t) ==
  /\ At(t, "accept")
  /\ IF Refused(Dev(t), task[t].got.key)
       THEN Over(t) /\ UNCHANGED <<ident, marks, racing>>
       ELSE Go(t, "record") /\ SaveIdentity(t, Dev(t), task[t].got.key)
  /\ UNCHANGED <<peer, pins, session, caches, shown, built, turns, sent, crossed, misplaced,
                 torn>>

Record(t) ==
  /\ At(t, "record")
  /\ NewSession(t)
  /\ Go(t, "known")
  /\ UNCHANGED <<peer, ident, pins, caches, shown, turns, sent, marks, crossed, misplaced, racing,
                 torn>>

\* heal_session: the empty message goes to a trusted device only.
Heal(t) ==
  /\ t \in Receives /\ At(t, "trust")
  /\ IF Trusted(Dev(t))
       THEN task' = [task EXCEPT ![t].addrs = {Dev(t)}, ![t].at = "load"]
       ELSE Over(t)
  /\ UNCHANGED <<peer, tables, caches, shown, built, turns, sent, marks, crossed, misplaced,
                 racing, torn>>

\* reconcile_pq_pin_if_missing: once per device and run, the identity and its pin are read ...
Reconcile(t) ==
  /\ At(t, "known")
  /\ LET d == Dev(t) key == ident[d].key
     IN /\ asked' = asked \cup {d}
        /\ IF d \in asked \/ key = 0 \/ (key # 0 /\ pins[d][key] # 0)
             THEN Over(t)
             ELSE task' = [task EXCEPT ![t].at = "fill", ![t].got = [NoBundle EXCEPT !.key = key]]
  /\ UNCHANGED <<peer, tables, failures, seenList, healed, shown, built, turns, sent, marks,
                 crossed, misplaced, racing, torn>>

\* ... the bundle fetched, which must be of that identity, and the pin read again ...
Refill(t) ==
  /\ At(t, "fill")
  /\ LET d == Dev(t)
     IN \/ /\ IF bundle[d].key = task[t].got.key /\ pins[d][bundle[d].key] = 0
                THEN task' = [task EXCEPT ![t].at = "refill", ![t].got = bundle[d]]
                ELSE Over(t)
           /\ UNCHANGED turns
        \/ Turn /\ Over(t)
  /\ UNCHANGED <<peer, tables, caches, shown, built, sent, marks, crossed, misplaced, racing, torn>>

\* ... and written.
Fill(t) ==
  /\ At(t, "refill")
  /\ Pin(t)
  /\ Over(t)
  /\ UNCHANGED <<peer, ident, session, caches, shown, built, turns, sent, marks, crossed,
                 misplaced, torn>>

Receive(t) ==
  \/ \E d \in Devices, key \in 1..MaxKeys : key <= bundle[d].key /\ StartReceive(t, d, key)
  \/ Open(t) \/ Accept(t) \/ Record(t) \/ Heal(t)
  \/ LoadSession(t) \/ Wrap(t) \/ Reconcile(t) \/ Refill(t) \/ Fill(t)

-----------------------------------------------------------------------------
(* ResetOmemo2Identities: reset_omemo2_peer_state, then forget_caches.       *)

DropSessions(t) ==
  /\ Starting(t)
  /\ session' = [d \in Devices |-> NoSession]
  /\ Go(t, "rows")
  /\ UNCHANGED <<peer, ident, pins, caches, shown, built, turns, sent, marks, crossed,
                 misplaced, racing, torn>>

DropIdentities(t) ==
  /\ At(t, "rows")
  /\ ident' = [d \in Devices |-> [key |-> 0, trust |-> 0]]
  /\ torn' = torn \cup {d \in Devices : session[d].id # 0 /\ \E u \in Tasks \ {t} : ~At(u, "idle")}
                  \cup {d \in Devices : Busy(t, d, {"store", "record"})}
  /\ racing' = racing \cup {d \in Devices : Busy(t, d, {"identity", "store", "pin"})}
  /\ Go(t, "pins")
  /\ UNCHANGED <<peer, pins, session, caches, shown, built, turns, sent, marks, crossed,
                 misplaced>>

DropPins(t) ==
  /\ At(t, "pins")
  /\ pins' = [d \in Devices |-> [k \in 1..MaxKeys |-> 0]]
  /\ Go(t, "forget")
  /\ UNCHANGED <<peer, ident, session, caches, shown, built, turns, sent, marks, crossed,
                 misplaced, racing, torn>>

ForgetCaches(t) ==
  /\ At(t, "forget")
  /\ failures' = {} /\ seenList' = Unseen
  /\ Over(t)
  /\ UNCHANGED <<peer, tables, healed, asked, shown, built, turns, sent, marks, crossed,
                 misplaced, racing, torn>>

Reset(t) == DropSessions(t) \/ DropIdentities(t) \/ DropPins(t) \/ ForgetCaches(t)

Next ==
  \/ \E d \in Devices : Rekey(d) \/ ChangeList(d) \/ Expire(d) \/ Show(d)
  \/ \E d \in Devices, trust \in {1, 2, 3} : SetTrust(d, trust)
  \/ \E t \in Sends \cup Receives : EstablishSession(t)
  \/ \E t \in Sends : Send(t)
  \/ \E t \in Receives : Receive(t)
  \/ \E t \in Resets : Reset(t)

Spec == Init /\ [][Next]_vars

-----------------------------------------------------------------------------
\* The peer drops a message whose number it has seen: no number of a session serves two
\* messages, unless a session was stored over a newer one (message_encrypt and decrypt load
\* and store it without a lock).
NumbersUsedOnce ==
  \A a, b \in sent :
    a.dev = b.dev /\ a.id = b.id /\ a.n = b.n => a.by = b.by \/ a.dev \in crossed

\* "only trust 1 or 3 is ever encrypted to": every message was wrapped for a key that was
\* accepted, whatever keys the device published, unless its row was replaced under a task that
\* had checked or saved it, or got a verdict on another key.
WrappedWereTrusted ==
  \A w \in sent : w.key \in approved[w.dev] \/ w.dev \in swapped \cup misplaced

\* A trusted row holds a key that was accepted, and a session has a row that can be trusted
\* (without one its device is skipped for good), unless a verdict on one key was written to the
\* row of another, or a session was on the way while a reset deleted the rows.
RowsAreSound ==
  \A d \in Devices :
    /\ Trusted(d) => ident[d].key \in approved[d] \/ d \in misplaced
    /\ session[d].id # 0 /\ ident[d].key = 0 => d \in torn

\* The pq key that is pinned for a key never changes but for a verified device, unless the pin
\* or the verdict changed under a task that had checked it, or the verdict was on another key of
\* the device, whose row the task has replaced (establish_session asks for the row's trust,
\* whatever key it holds).
PinsKept ==
  [][\A d \in Devices, k \in 1..MaxKeys :
       pins[d][k] # 0 /\ pins'[d][k] \notin {0, pins[d][k]} =>
         ident[d].trust = 3 \/ d \in racing']_pins
=============================================================================
