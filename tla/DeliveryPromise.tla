--------------------------- MODULE DeliveryPromise ---------------------------
(***************************************************************************)
(* What the send path of the core promises about one account's messages,   *)
(* with no mention of tasks, queues or connections.  A message that is     *)
(* kept waits in the local store to be sent; a handed one has been given   *)
(* to the stream at least once; a confirmed one is shown as sent,          *)
(* delivered or read.  Outbox implements this specification.               *)
(***************************************************************************)
CONSTANT Msgs

VARIABLES kept, handed, confirmed

promise == <<kept, handed, confirmed>>

PromiseInit == kept = {} /\ handed = {} /\ confirmed = {}

\* A message composed while the connection is down is stored for later.
Keep(m) ==
  /\ m \notin kept \cup confirmed
  /\ kept' = kept \cup {m}
  /\ UNCHANGED <<handed, confirmed>>

\* A copy is given to the stream; a second copy of the same message changes nothing.
Hand(m) ==
  /\ handed' = handed \cup {m}
  /\ UNCHANGED <<kept, confirmed>>

\* Only what was handed over may be shown as sent, and it no longer waits.
Confirm(m) ==
  /\ m \in handed
  /\ confirmed' = confirmed \cup {m}
  /\ kept' = kept \ {m}
  /\ UNCHANGED handed

\* The user takes a waiting message back: the only other way out of the store.
Withdraw(m) ==
  /\ m \in kept
  /\ kept' = kept \ {m}
  /\ UNCHANGED <<handed, confirmed>>

PromiseNext == \E m \in Msgs : Keep(m) \/ Hand(m) \/ Confirm(m) \/ Withdraw(m)

PromiseSpec == PromiseInit /\ [][PromiseNext]_promise
=============================================================================
