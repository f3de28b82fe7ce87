---------------------------- MODULE MediaProofs ----------------------------
(***************************************************************************)
(* Proofs about the negotiation of media.  First, the upgrade of a call to *)
(* video: an offer and the answer to it are at one place at a time, so at  *)
(* rest both ends and their screens agree.  Then group calls: who owns an  *)
(* engine, that one leg is negotiated at a time, what the room is told.    *)
(***************************************************************************)
EXTENDS Muji, Upgrade, FiniteSetTheorems, SequenceTheorems, TLAPS

-----------------------------------------------------------------------------
(* The upgrade of a call.  Queues first: what one holds, and of it last.     *)

\* What a queue holds: one of S, at most one of S, and x as its last of S.
Has(s, S) == \E i \in DOMAIN s : s[i] \in S
Once(s, S) == \A i, j \in DOMAIN s : s[i] \in S /\ s[j] \in S => i = j
Latest(s, S, x) ==
  \A i \in DOMAIN s : s[i] \in S /\ (\A j \in DOMAIN s : j > i => s[j] \notin S) => s[i] = x

\* As far as S goes, the queue t says what s said.
Same(s, t, S) ==
  /\ (Has(t, S) <=> Has(s, S))
  /\ Once(s, S) => Once(t, S)
  /\ \A x : Latest(s, S, x) => Latest(t, S, x)

\* The queue t is s with x of S appended; without its first, x of S.
News(s, t, S, x) ==
  /\ Has(t, S) /\ Latest(t, S, x)
  /\ ~Has(s, S) => Once(t, S)
Taken(s, t, S, x) ==
  /\ Has(s, S)
  /\ Once(s, S) => Once(t, S) /\ ~Has(t, S)
  /\ \A y : Latest(s, S, y) => Latest(t, S, y) /\ (~Has(t, S) => y = x)

Cameras == {"camera on", "camera off"}
Shares == {"share on", "share off"}
Answers == {"accept", "decline"}

Offered(e) == "offered" \in past[e]

\* Without a video branch an end is in an audio call, and shows one.
Branched ==
  \A e \in Ends : sent[e] = "none" =>
    /\ ~began /\ ~Offered(e) /\ ~call[e].video /\ ~sharing[e]
    /\ ~ui[e].video /\ ~Has(events[e], {"active video"})
    /\ ui[e].camera /\ ~Has(cmds[e], Cameras)

\* The way of e's offer to the other end's user.
Making(e) == Has(ops[e], {"create offer"})
Made(e) == Has(chan[e], {"offer"})
Away(e) == "content-add" \in wire[Other(e)]
Arrived(e) == Has(events[Other(e)], {"request"})
Prompting(e) == ui[Other(e)].request
Decided(e) == Has(cmds[Other(e)], Answers)

\* Nothing comes of an offer that was not asked for.
Silent ==
  \A e \in Ends : ~Offered(e) =>
    /\ ~Making(e) /\ ~Made(e) /\ ~Away(e) /\ ~Arrived(e) /\ ~Prompting(e) /\ ~Decided(e)
    /\ ~Has(ops[e], {"local offer", "remote answer"}) /\ sig[e] # "have-local-offer"
    /\ ~call[Other(e)].pending /\ sig[Other(e)] # "have-remote-offer"
    /\ ~Has(ops[Other(e)], {"remote offer", "create answer", "local answer"})
    /\ ~Has(chan[Other(e)], {"answer"}) /\ "content-accept" \notin wire[e]

\* An offer is at one place at a time.
Trail ==
  \A e \in Ends :
    /\ Once(ops[e], {"create offer"}) /\ Once(chan[e], {"offer"})
    /\ Once(events[e], {"request"}) /\ Once(cmds[e], Answers)
    /\ Making(e) => ~Made(e) /\ ~Away(e) /\ ~Arrived(e) /\ ~Prompting(e) /\ ~Decided(e)
    /\ Made(e) => ~Away(e) /\ ~Arrived(e) /\ ~Prompting(e) /\ ~Decided(e)
    /\ Away(e) => ~Arrived(e) /\ ~Prompting(e) /\ ~Decided(e)
    /\ Arrived(e) => ~Prompting(e) /\ ~Decided(e)
    /\ Prompting(e) => ~Decided(e)

\* A prompt that is raised or about to be has an offer to answer, and the other way round.
Prompted ==
  \A e \in Ends :
    /\ Making(e) \/ Made(e) \/ Away(e) => ~call[Other(e)].pending
    /\ Arrived(e) \/ Prompting(e) => call[Other(e)].pending
    /\ call[Other(e)].pending => Arrived(e) \/ Prompting(e) \/ Decided(e) \/ call[Other(e)].video

\* The screen shows the kind of the call, or will.
KindSound ==
  \A e \in Ends : "retold" \notin past[e] =>
    /\ ~Has(events[e], {"active audio"})
    /\ call[e].video <=> ui[e].video \/ Has(events[e], {"active video"})

\* The last press of the camera button decides.
CameraSound ==
  \A e \in Ends :
    IF Has(cmds[e], Cameras)
    THEN Latest(cmds[e], Cameras, IF ui[e].camera THEN "camera on" ELSE "camera off")
    ELSE ~ui[e].camera /\ "exposed" \notin past[e] => sent[e] # "camera"

\* With no share command or picker under way the last event tells whether a screen is shared.
ShareSound ==
  \A e \in Ends :
    /\ ~Has(cmds[e], Shares) /\ pickers[e] = 0 /\ "unsaid" \notin past[e] =>
         IF Has(events[e], Shares)
         THEN Latest(events[e], Shares, IF sharing[e] THEN "share on" ELSE "share off")
         ELSE ui[e].sharing = sharing[e]
    /\ sharing[e] /\ "covered" \notin past[e] => sent[e] = "screen"

\* Before any offer the call is of the kind that it began with.
Unchanged ==
  (\A e \in Ends : ~Offered(e)) => \A e \in Ends : call[e].video = began /\ agreed[e] = began

\* The stations of the end that made the only offer, and of the end that answers it.
Offerer(e) ==
  \/ /\ \/ ops[e] = <<"create offer">> /\ sig[e] = "stable"
        \/ ops[e] = <<"local offer">> /\ sig[e] = "stable"
        \/ ops[e] = <<>> /\ sig[e] = "have-local-offer"
     /\ ~agreed[e] /\ ~call[e].video
  \/ /\ \/ ops[e] = <<"local offer", "remote answer">> /\ sig[e] = "stable"
        \/ ops[e] = <<"remote answer">> /\ sig[e] = "have-local-offer"
     /\ ~agreed[e] /\ call[e].video
  \/ ops[e] = <<>> /\ sig[e] = "stable" /\ agreed[e] /\ call[e].video

Answerer(e) ==
  \/ ops[e] = <<>> /\ sig[e] = "stable" /\ ~agreed[e] /\ ~call[e].video
  \/ /\ \/ ops[e] = <<"remote offer", "create answer">> /\ sig[e] = "stable"
        \/ ops[e] = <<"create answer">> /\ sig[e] = "have-remote-offer"
        \/ ops[e] = <<"local answer">> /\ sig[e] = "have-remote-offer"
     /\ ~agreed[e] /\ call[e].video
  \/ ops[e] = <<>> /\ sig[e] = "stable" /\ agreed[e] /\ call[e].video

\* The answer that e gave is at one place: with its engine, on the wire, or handled.
Answered(e) == ops[e] = <<"local answer">> \/ agreed[e]
Returned(e) ==
  /\ Once(chan[e], {"answer"})
  /\ Answered(e) <=> \/ Has(chan[e], {"answer"})
                     \/ "content-accept" \in wire[Other(e)]
                     \/ call[Other(e)].video
  /\ Has(chan[e], {"answer"}) => "content-accept" \notin wire[Other(e)] /\ ~call[Other(e)].video
  /\ "content-accept" \in wire[Other(e)] => ~call[Other(e)].video

\* One offer is negotiated in step.
OneOffer ==
  \A e \in Ends : Offered(e) /\ ~Offered(Other(e)) =>
    /\ Offerer(e) /\ Answerer(Other(e)) /\ Returned(Other(e))
    /\ call[Other(e)].video => ~Making(e)

UInv ==
  /\ UTypeOK /\ Branched /\ Silent /\ Trail /\ Prompted /\ KindSound /\ CameraSound /\ ShareSound
  /\ Unchanged /\ OneOffer
-----------------------------------------------------------------------------
(* The two ends, and queues.                                                 *)

LEMMA Two ==
  ASSUME NEW e \in Ends
  PROVE  /\ Other(e) \in Ends /\ Other(e) # e /\ Other(Other(e)) = e
         /\ \A f \in Ends : f = e \/ f = Other(e)
BY DEF Ends, Other

LEMMA PutIs ==
  ASSUME NEW T, NEW s \in Seq(T), NEW x \in T
  PROVE  /\ Append(s, x) \in Seq(T)
         /\ \A S : Has(Append(s, x), S) <=> Has(s, S) \/ x \in S
         /\ \A S : Once(s, S) /\ (x \in S => ~Has(s, S)) => Once(Append(s, x), S)
         /\ \A S : x \in S => Latest(Append(s, x), S, x)
         /\ \A S, y : x \notin S /\ Latest(s, S, y) => Latest(Append(s, x), S, y)
<1> DEFINE t == Append(s, x)
           n == Len(s)
<1>1. /\ n \in Nat /\ t \in Seq(T) /\ DOMAIN s = 1..n /\ DOMAIN t = 1..n + 1
      /\ t[n + 1] = x /\ \A i \in 1..n : t[i] = s[i]
  OBVIOUS
<1> HIDE DEF t, n
<1>2. \A i : i \in DOMAIN t <=> i \in DOMAIN s \/ i = n + 1
  BY <1>1
<1>3. n + 1 \in DOMAIN t /\ n + 1 \notin DOMAIN s /\ \A i \in DOMAIN s : t[i] = s[i]
  BY <1>1
<1>4. \A i \in DOMAIN s : n + 1 > i /\ ~(i > n + 1)
  BY <1>1
<1>5. ~(n + 1 > n + 1)
  BY <1>1
<1>6. ASSUME NEW S PROVE Has(t, S) <=> Has(s, S) \/ x \in S
  BY <1>1, <1>2, <1>3 DEF Has
<1>7. ASSUME NEW S, Once(s, S), x \in S => ~Has(s, S) PROVE Once(t, S)
  BY <1>1, <1>2, <1>3, <1>7 DEF Once, Has
<1>8. ASSUME NEW S, x \in S PROVE Latest(t, S, x)
  BY <1>1, <1>2, <1>3, <1>4, <1>8 DEF Latest
<1>9. ASSUME NEW S, NEW y, x \notin S, Latest(s, S, y) PROVE Latest(t, S, y)
  BY <1>1, <1>2, <1>3, <1>4, <1>5, <1>9 DEF Latest
<1> QED
  BY <1>1, <1>6, <1>7, <1>8, <1>9 DEF t

LEMMA TakeIs ==
  ASSUME NEW T, NEW s \in Seq(T), s # <<>>
  PROVE  /\ Tail(s) \in Seq(T) /\ Head(s) \in T
         /\ \A S : Has(s, S) <=> Head(s) \in S \/ Has(Tail(s), S)
         /\ \A S : Once(s, S) => Once(Tail(s), S) /\ (Head(s) \in S => ~Has(Tail(s), S))
         /\ \A S, x : Latest(s, S, x) => Latest(Tail(s), S, x)
         /\ \A S, x : Latest(s, S, x) /\ Head(s) \in S /\ ~Has(Tail(s), S) => Head(s) = x
<1> DEFINE t == Tail(s)
           h == Head(s)
           n == Len(s)
<1>1. /\ n \in Nat \ {0} /\ t \in Seq(T) /\ h \in T /\ DOMAIN s = 1..n /\ DOMAIN t = 1..n - 1
      /\ s[1] = h /\ \A i \in 1..n - 1 : t[i] = s[i + 1]
  OBVIOUS
<1> HIDE DEF t, h, n
<1>2. /\ 1 \in DOMAIN s
      /\ \A i \in DOMAIN s : i = 1 \/ (i - 1 \in DOMAIN t /\ s[i] = t[i - 1])
      /\ \A i \in DOMAIN t : i + 1 \in DOMAIN s /\ s[i + 1] = t[i] /\ i + 1 # 1
  BY <1>1
<1>3. /\ \A i, j \in DOMAIN t : i + 1 = j + 1 => i = j
      /\ \A i \in DOMAIN t, j \in DOMAIN s : j > i + 1 => j - 1 > i /\ j - 1 \in DOMAIN t /\ s[j] = t[j - 1]
      /\ \A j \in DOMAIN s : j > 1 => j - 1 \in DOMAIN t /\ s[j] = t[j - 1]
  BY <1>1
<1>4. ASSUME NEW S PROVE Has(s, S) <=> h \in S \/ Has(t, S)
  BY <1>1, <1>2 DEF Has
<1>5. ASSUME NEW S, Once(s, S) PROVE Once(t, S)
  <2> SUFFICES ASSUME NEW i \in DOMAIN t, NEW j \in DOMAIN t, t[i] \in S, t[j] \in S PROVE i = j
    BY DEF Once
  <2>1. i + 1 = j + 1
    BY <1>2, <1>5 DEF Once
  <2> QED
    BY <2>1, <1>3
<1>6. ASSUME NEW S, Once(s, S), h \in S PROVE ~Has(t, S)
  BY <1>1, <1>2, <1>6 DEF Once, Has
<1>7. ASSUME NEW S, NEW x, Latest(s, S, x) PROVE Latest(t, S, x)
  <2> SUFFICES ASSUME NEW i \in DOMAIN t, t[i] \in S, \A j \in DOMAIN t : j > i => t[j] \notin S
               PROVE  t[i] = x
    BY DEF Latest
  <2>1. i + 1 \in DOMAIN s /\ s[i + 1] = t[i]
    BY <1>2
  <2>2. \A j \in DOMAIN s : j > i + 1 => s[j] \notin S
    BY <1>3
  <2> QED
    BY <2>1, <2>2, <1>7 DEF Latest
<1>8. ASSUME NEW S, NEW x, Latest(s, S, x), h \in S, ~Has(t, S) PROVE h = x
  <2>1. \A j \in DOMAIN s : j > 1 => s[j] \notin S
    BY <1>3, <1>8 DEF Has
  <2> QED
    BY <2>1, <1>1, <1>2, <1>8 DEF Latest
<1> QED
  BY <1>1, <1>4, <1>5, <1>6, <1>7, <1>8 DEF t, h

LEMMA PutSame ==
  ASSUME NEW T, NEW s \in Seq(T), NEW x \in T, NEW S, x \notin S
  PROVE  Same(s, Append(s, x), S)
BY PutIs DEF Same

LEMMA TakeSame ==
  ASSUME NEW T, NEW s \in Seq(T), s # <<>>, NEW S, Head(s) \notin S
  PROVE  Same(s, Tail(s), S)
BY TakeIs DEF Same

LEMMA PutNews ==
  ASSUME NEW T, NEW s \in Seq(T), NEW x \in T, NEW S, x \in S
  PROVE  News(s, Append(s, x), S, x)
<1>1. ~Has(s, S) => Once(s, S)
  BY DEF Has, Once
<1>2. /\ Has(Append(s, x), S) /\ Latest(Append(s, x), S, x)
      /\ Once(s, S) /\ (x \in S => ~Has(s, S)) => Once(Append(s, x), S)
  BY PutIs
<1> QED
  BY <1>1, <1>2 DEF News

LEMMA TakeTaken ==
  ASSUME NEW T, NEW s \in Seq(T), s # <<>>, NEW S, Head(s) \in S
  PROVE  Taken(s, Tail(s), S, Head(s))
BY TakeIs DEF Taken

LEMMA EmptyIs ==
  /\ \A S : ~Has(<<>>, S) /\ Once(<<>>, S)
  /\ \A S, x : Latest(<<>>, S, x)
BY DEF Has, Once, Latest

\* A queue that has nothing is empty.
LEMMA NothingIs ==
  ASSUME NEW T, NEW s \in Seq(T), ~Has(s, T)
  PROVE  s = <<>>
BY DEF Has

\* A queue of each end: one end appends to its own, or takes from it.
Appended(T, q, r, e, x) ==
  /\ r \in [Ends -> Seq(T)]
  /\ \A f \in Ends : f # e => r[f] = q[f]
  /\ \A S : x \notin S => \A f \in Ends : Same(q[f], r[f], S)
  /\ \A S : x \in S => News(q[e], r[e], S, x)
Shortened(T, q, r, e) ==
  /\ r \in [Ends -> Seq(T)]
  /\ \A f \in Ends : f # e => r[f] = q[f]
  /\ \A S : Head(q[e]) \notin S => \A f \in Ends : Same(q[f], r[f], S)
  /\ \A S : Head(q[e]) \in S => Taken(q[e], r[e], S, Head(q[e]))

LEMMA PutQueue ==
  ASSUME NEW T, NEW q \in [Ends -> Seq(T)], NEW e \in Ends, NEW x \in T, NEW r,
         r = [q EXCEPT ![e] = Append(@, x)]
  PROVE  Appended(T, q, r, e, x)
<1>1. q[e] \in Seq(T) /\ r[e] = Append(q[e], x) /\ \A f \in Ends : f # e => r[f] = q[f]
  OBVIOUS
<1>2. Append(q[e], x) \in Seq(T)
  BY <1>1
<1>3. r \in [Ends -> Seq(T)]
  BY <1>2
<1>4. ASSUME NEW S, x \notin S, NEW f \in Ends PROVE Same(q[f], r[f], S)
  <2>1. CASE f = e
    BY <1>1, <1>4, <2>1, PutSame
  <2>2. CASE f # e
    BY <1>1, <2>2 DEF Same
  <2> QED
    BY <2>1, <2>2
<1>5. ASSUME NEW S, x \in S PROVE News(q[e], r[e], S, x)
  BY <1>1, <1>5, PutNews
<1> QED
  BY <1>1, <1>3, <1>4, <1>5 DEF Appended

LEMMA TakeQueue ==
  ASSUME NEW T, NEW q \in [Ends -> Seq(T)], NEW e \in Ends, q[e] # <<>>, NEW r,
         r = [q EXCEPT ![e] = Tail(@)]
  PROVE  Shortened(T, q, r, e)
<1>1. q[e] \in Seq(T) /\ r[e] = Tail(q[e]) /\ \A f \in Ends : f # e => r[f] = q[f]
  OBVIOUS
<1>2. Tail(q[e]) \in Seq(T)
  BY <1>1
<1>3. r \in [Ends -> Seq(T)]
  BY <1>2
<1>4. ASSUME NEW S, Head(q[e]) \notin S, NEW f \in Ends PROVE Same(q[f], r[f], S)
  <2>1. CASE f = e
    BY <1>1, <1>4, <2>1, TakeSame
  <2>2. CASE f # e
    BY <1>1, <2>2 DEF Same
  <2> QED
    BY <2>1, <2>2
<1>5. ASSUME NEW S, Head(q[e]) \in S PROVE Taken(q[e], r[e], S, Head(q[e]))
  BY <1>1, <1>5, TakeTaken
<1> QED
  BY <1>1, <1>3, <1>4, <1>5 DEF Shortened

LEMMA TwoInARow ==
  ASSUME NEW x \in Operations, NEW y \in Operations
  PROVE  Append(<<x>>, y) = <<x, y>>
<1> DEFINE s == <<x>>
           t == Append(s, y)
           u == <<x, y>>
<1>1. s \in Seq(Operations) /\ Len(s) = 1 /\ s[1] = x
  OBVIOUS
<1> HIDE DEF s
<1> HIDE DEF t
<1>2. /\ t \in Seq(Operations) /\ Len(t) = Len(s) + 1
      /\ t[Len(s) + 1] = y /\ \A i \in 1..Len(s) : t[i] = s[i]
  <2>1. s \in Seq(Operations)
    BY <1>1
  <2> QED
    BY <2>1, AppendProperties DEF t
<1>3. t \in Seq(Operations) /\ Len(t) = 2 /\ t[1] = x /\ t[2] = y
  BY <1>1, <1>2
<1>4. u \in Seq(Operations) /\ Len(u) = 2 /\ u[1] = x /\ u[2] = y
  OBVIOUS
<1> HIDE DEF u
<1>5. \A i \in 1..2 : t[i] = u[i]
  BY <1>3, <1>4
<1>6. t = u
  BY <1>3, <1>4, <1>5, SeqEqual
<1> QED
  BY <1>6 DEF t, u, s

LEMMA TuplesAre ==
  ASSUME NEW x \in Operations, NEW y \in Operations
  PROVE  /\ <<x>> # <<>> /\ <<x, y>> # <<>> /\ <<x, y>> # <<x>> /\ <<x, y>> # <<y>>
         /\ Append(<<>>, x) = <<x>> /\ Append(<<x>>, y) = <<x, y>>
         /\ Head(<<x>>) = x /\ Head(<<x, y>>) = x
         /\ Tail(<<x>>) = <<>> /\ Tail(<<x, y>>) = <<y>>
<1>1. /\ Len(<<>>) = 0 /\ Len(<<x>>) = 1 /\ Len(<<y>>) = 1 /\ Len(<<x, y>>) = 2
  OBVIOUS
<1>2. <<x>> # <<>> /\ <<x, y>> # <<>> /\ <<x, y>> # <<x>> /\ <<x, y>> # <<y>>
  BY <1>1
<1>3. Append(<<>>, x) = <<x>>
  OBVIOUS
<1>4. Append(<<x>>, y) = <<x, y>>
  BY TwoInARow
<1>5. Head(<<x>>) = x /\ Head(<<x, y>>) = x
  OBVIOUS
<1>6. Tail(<<x>>) = <<>>
  OBVIOUS
<1>7. Tail(<<x, y>>) = <<y>>
  OBVIOUS
<1> QED
  BY <1>2, <1>3, <1>4, <1>5, <1>6, <1>7

LEMMA WordsAre ==
  /\ Cameras \cup Shares \cup Answers \cup {"upgrade"} = Commands
  /\ "active video" \in Events /\ "active audio" \in Events /\ "request" \in Events
  /\ "share on" \in Events /\ "share off" \in Events
  /\ "accept" \in Answers /\ "decline" \in Answers
  /\ "share on" \in Shares /\ "share off" \in Shares
  /\ "camera on" \in Cameras /\ "camera off" \in Cameras
  /\ \A c \in {"camera on", "camera off", "share on", "share off", "upgrade"} :
       c \in Commands /\ c \notin Answers
  /\ \A c \in {"accept", "decline", "share on", "share off", "upgrade"} :
       c \in Commands /\ c \notin Cameras
  /\ \A c \in {"accept", "decline", "camera on", "camera off", "upgrade"} :
       c \in Commands /\ c \notin Shares
  /\ "request" \notin Shares /\ "active video" \notin Shares /\ "active audio" \notin Shares
BY DEF Cameras, Shares, Answers, Commands, Events

-----------------------------------------------------------------------------
(* Steps that leave a part of the invariant alone.                           *)

\* The way of an offer, and of the answer to it, is not taken.
SameTalk ==
  /\ UNCHANGED <<began, call, sig, agreed, ops, wire>>
  /\ \A f \in Ends :
       /\ "offered" \in past'[f] <=> "offered" \in past[f]
       /\ Same(cmds[f], cmds'[f], Answers) /\ Same(events[f], events'[f], {"request"})
       /\ Same(chan[f], chan'[f], {"offer"}) /\ Same(chan[f], chan'[f], {"answer"})
       /\ ui'[f].request <=> ui[f].request

LEMMA TalkKept ==
  ASSUME UInv, SameTalk
  PROVE  Silent' /\ Trail' /\ Prompted' /\ Unchanged' /\ OneOffer'
<1> USE DEF SameTalk, Same, Offered, Making, Made, Away, Arrived, Prompting, Decided
<1>1. Silent'
  BY Two DEF UInv, Silent
<1>2. Trail'
  BY Two DEF UInv, Trail
<1>3. Prompted'
  BY Two DEF UInv, Prompted
<1>4. Unchanged'
  BY DEF UInv, Unchanged
<1>5. OneOffer'
  BY Two DEF UInv, OneOffer, Offerer, Answerer, Returned, Answered
<1> QED
  BY <1>1, <1>2, <1>3, <1>4, <1>5

\* Camera, share and what is shown of them are left alone.
SameButtons ==
  /\ UNCHANGED <<sent, sharing, pickers>>
  /\ \A f \in Ends :
       /\ \A mark \in {"exposed", "covered", "unsaid"} : mark \in past'[f] <=> mark \in past[f]
       /\ Same(cmds[f], cmds'[f], Cameras) /\ Same(cmds[f], cmds'[f], Shares)
       /\ Same(events[f], events'[f], Shares)
       /\ ui'[f].camera = ui[f].camera /\ ui'[f].sharing = ui[f].sharing

LEMMA ButtonsKept ==
  ASSUME UInv, SameButtons
  PROVE  CameraSound' /\ ShareSound'
<1>1. CameraSound'
  BY DEF UInv, CameraSound, SameButtons, Same
<1>2. ShareSound'
  BY DEF UInv, ShareSound, SameButtons, Same
<1> QED
  BY <1>1, <1>2

\* Nothing is said of the kind of call.
SameKind ==
  \A f \in Ends :
    /\ "retold" \in past'[f] <=> "retold" \in past[f]
    /\ Same(events[f], events'[f], {"active audio"}) /\ Same(events[f], events'[f], {"active video"})
    /\ call'[f].video = call[f].video /\ ui'[f].video = ui[f].video

LEMMA KindKept ==
  ASSUME UInv, SameKind
  PROVE  KindSound'
BY DEF UInv, KindSound, SameKind, Same

\* No end gets to video or to a branch.
SameBranch ==
  /\ began' = began
  /\ \A f \in Ends :
       /\ sent'[f] = "none" => sent[f] = "none" /\ sharing'[f] = sharing[f]
       /\ "offered" \in past'[f] <=> "offered" \in past[f]
       /\ Same(cmds[f], cmds'[f], Cameras) /\ Same(events[f], events'[f], {"active video"})
       /\ call'[f].video = call[f].video
       /\ ui'[f].video = ui[f].video /\ ui'[f].camera = ui[f].camera

LEMMA BranchKept ==
  ASSUME UInv, SameBranch
  PROVE  Branched'
BY DEF UInv, Branched, SameBranch, Same, Offered

LEMMA SameSelf ==
  \A s, S : Same(s, s, S)
BY DEF Same

\* What is negotiated, and the way of an answer, is left alone.
SameDeal ==
  /\ UNCHANGED <<began, sig, agreed, ops, chan>>
  /\ \A f \in Ends : /\ call'[f].video = call[f].video
                     /\ "offered" \in past'[f] <=> "offered" \in past[f]
                     /\ "content-accept" \in wire'[f] <=> "content-accept" \in wire[f]

LEMMA DealKept ==
  ASSUME UInv, SameDeal
  PROVE  Unchanged' /\ OneOffer'
<1>1. Unchanged'
  BY DEF UInv, Unchanged, SameDeal, Offered
<1>2. ASSUME NEW f \in Ends, Offered(f)', ~Offered(Other(f))'
      PROVE  /\ Offerer(f)' /\ Answerer(Other(f))' /\ Returned(Other(f))'
             /\ call'[Other(f)].video => ~Making(f)'
  <2>1. Other(f) \in Ends /\ Other(Other(f)) = f
    BY Two
  <2>2. Offered(f) /\ ~Offered(Other(f))
    BY <1>2, <2>1 DEF SameDeal, Offered
  <2>3. Offerer(f) /\ Answerer(Other(f)) /\ Returned(Other(f)) /\ (call[Other(f)].video => ~Making(f))
    BY <2>2 DEF UInv, OneOffer
  <2>4. Offerer(f)'
    BY <2>3 DEF SameDeal, Offerer
  <2>5. Answerer(Other(f))'
    BY <2>1, <2>3 DEF SameDeal, Answerer
  <2>6. Returned(Other(f))' /\ (call'[Other(f)].video => ~Making(f)')
    BY <2>1, <2>3 DEF SameDeal, Returned, Answered, Making
  <2> QED
    BY <2>4, <2>5, <2>6
<1>3. OneOffer'
  BY <1>2 DEF OneOffer
<1> QED
  BY <1>1, <1>3

\* An offer of the other end is held, or is not any more.
LEMMA PendingIs ==
  ASSUME call \in [Ends -> [video : BOOLEAN, pending : BOOLEAN]], NEW e \in Ends, NEW held \in BOOLEAN,
         call' = [call EXCEPT ![e].pending = held]
  PROVE  /\ call' \in [Ends -> [video : BOOLEAN, pending : BOOLEAN]]
         /\ call'[e].pending = held
         /\ \A f \in Ends : call'[f].video = call[f].video
         /\ \A f \in Ends : f # e => call'[f].pending = call[f].pending
OBVIOUS

-----------------------------------------------------------------------------
(* The call screen.                                                          *)

Screens == [video : BOOLEAN, request : BOOLEAN, camera : BOOLEAN, sharing : BOOLEAN]

LEMMA Pressed ==
  ASSUME UInv, NEW e \in Ends, NEW cmd \in Commands, NEW shown \in Screens, Press(e, cmd, shown),
         presses' \in 0..MaxPresses
  PROVE  /\ UTypeOK'
         /\ UNCHANGED <<began, call, sig, agreed, ops, chan, sent, sharing, wire, pickers, events, past>>
         /\ ui' = [ui EXCEPT ![e] = shown] /\ ui'[e] = shown
         /\ \A f \in Ends : f # e => ui'[f] = ui[f] /\ cmds'[f] = cmds[f]
         /\ \A S : cmd \notin S => \A f \in Ends : Same(cmds[f], cmds'[f], S)
         /\ \A S : cmd \in S => News(cmds[e], cmds'[e], S, cmd)
<1>0. UTypeOK /\ cmds \in [Ends -> Seq(Commands)] /\ ui \in [Ends -> Screens]
  BY DEF UInv, UTypeOK, Screens
<1>1. /\ UNCHANGED <<began, call, sig, agreed, ops, chan, sent, sharing, wire, pickers, events, past, retold>>
      /\ ui' = [ui EXCEPT ![e] = shown] /\ cmds' = [cmds EXCEPT ![e] = Append(@, cmd)]
  BY DEF Press, engines, video
<1>2. /\ cmds' \in [Ends -> Seq(Commands)]
      /\ \A f \in Ends : f # e => cmds'[f] = cmds[f]
      /\ \A S : cmd \notin S => \A f \in Ends : Same(cmds[f], cmds'[f], S)
      /\ \A S : cmd \in S => News(cmds[e], cmds'[e], S, cmd)
  <2>1. Appended(Commands, cmds, cmds', e, cmd)
    BY <1>0, <1>1, PutQueue
  <2> QED
    BY <2>1 DEF Appended
<1>3. ui' \in [Ends -> Screens] /\ ui'[e] = shown /\ \A f \in Ends : f # e => ui'[f] = ui[f]
  BY <1>0, <1>1
<1>4. UTypeOK'
  BY <1>0, <1>1, <1>2, <1>3 DEF UTypeOK, Screens
<1> QED
  BY <1>1, <1>2, <1>3, <1>4

LEMMA PressCounted ==
  ASSUME UInv, NEW e \in Ends, NEW cmd, NEW shown, CountedPress(e, cmd, shown)
  PROVE  presses' \in 0..MaxPresses /\ Press(e, cmd, shown)
BY UpgradeAssumption DEF UInv, UTypeOK, CountedPress

LEMMA UpgradePressed ==
  ASSUME UInv, NEW e \in Ends, PressUpgrade(e)
  PROVE  UInv'
<1>0. ui[e] \in Screens /\ ui \in [Ends -> Screens] /\ "upgrade" \in Commands
  BY WordsAre DEF UInv, UTypeOK, Screens
<1>1. presses' \in 0..MaxPresses /\ Press(e, "upgrade", ui[e])
  BY PressCounted DEF PressUpgrade
<1>2. /\ UTypeOK' /\ ui' = [ui EXCEPT ![e] = ui[e]]
      /\ UNCHANGED <<began, call, sig, agreed, ops, chan, sent, sharing, wire, pickers, events, past>>
      /\ \A S : "upgrade" \notin S => \A f \in Ends : Same(cmds[f], cmds'[f], S)
  BY <1>0, <1>1, Pressed
<1>3. UNCHANGED ui
  BY <1>0, <1>2
<1>4. \A f \in Ends : /\ Same(cmds[f], cmds'[f], Cameras) /\ Same(cmds[f], cmds'[f], Shares)
                      /\ Same(cmds[f], cmds'[f], Answers)
  BY <1>2, WordsAre
<1>5. SameTalk /\ SameButtons /\ SameKind /\ SameBranch
  BY <1>2, <1>3, <1>4, SameSelf DEF SameTalk, SameButtons, SameKind, SameBranch
<1> QED
  BY <1>2, <1>5, TalkKept, ButtonsKept, KindKept, BranchKept DEF UInv

LEMMA CameraPressed ==
  ASSUME UInv, NEW e \in Ends, PressCamera(e)
  PROVE  UInv'
<1> DEFINE cmd == IF ui[e].camera THEN "camera off" ELSE "camera on"
           shown == [ui[e] EXCEPT !.camera = ~@]
<1>0. /\ ui[e] \in Screens /\ ui \in [Ends -> Screens]
      /\ cmd \in Commands /\ cmd \in Cameras /\ cmd \notin Shares /\ cmd \notin Answers
  BY WordsAre DEF UInv, UTypeOK, Screens
<1>s. /\ shown \in Screens /\ shown.camera = ~ui[e].camera
      /\ shown.video = ui[e].video /\ shown.request = ui[e].request /\ shown.sharing = ui[e].sharing
  BY <1>0 DEF Screens
<1>c. cmd = IF shown.camera THEN "camera on" ELSE "camera off"
  BY <1>0, <1>s DEF Screens
<1>1. presses' \in 0..MaxPresses /\ Press(e, cmd, shown) /\ ui[e].video
  BY PressCounted DEF PressCamera
<1> HIDE DEF cmd, shown
<1>2. /\ UTypeOK' /\ ui'[e] = shown
      /\ \A f \in Ends : f # e => ui'[f] = ui[f] /\ cmds'[f] = cmds[f]
      /\ UNCHANGED <<began, call, sig, agreed, ops, chan, sent, sharing, wire, pickers, events, past>>
      /\ \A S : cmd \notin S => \A f \in Ends : Same(cmds[f], cmds'[f], S)
      /\ \A S : cmd \in S => News(cmds[e], cmds'[e], S, cmd)
  BY <1>0, <1>s, <1>1, Pressed
<1>3. \A f \in Ends : /\ ui'[f].video = ui[f].video /\ ui'[f].request = ui[f].request
                      /\ ui'[f].sharing = ui[f].sharing
  BY <1>2, <1>s
<1>4. \A f \in Ends : Same(cmds[f], cmds'[f], Shares) /\ Same(cmds[f], cmds'[f], Answers)
  BY <1>0, <1>2
<1>5. SameTalk /\ SameKind
  BY <1>2, <1>3, <1>4, SameSelf DEF SameTalk, SameKind
<1>6. News(cmds[e], cmds'[e], Cameras, cmd)
  BY <1>0, <1>2
<1>7. Branched'
  BY <1>1, <1>2, <1>3 DEF UInv, Branched, Offered
<1>8. CameraSound'
  BY <1>2, <1>6, <1>c DEF UInv, CameraSound, News
<1>9. ShareSound'
  BY <1>2, <1>3, <1>4 DEF UInv, ShareSound, Same
<1> QED
  BY <1>2, <1>5, <1>7, <1>8, <1>9, TalkKept, KindKept DEF UInv

LEMMA SharePressed ==
  ASSUME UInv, NEW e \in Ends, PressShare(e)
  PROVE  UInv'
<1> DEFINE cmd == IF ui[e].sharing THEN "share off" ELSE "share on"
           shown == [ui[e] EXCEPT !.sharing = ~@]
<1>0. /\ ui[e] \in Screens /\ ui \in [Ends -> Screens]
      /\ cmd \in Commands /\ cmd \in Shares /\ cmd \notin Cameras /\ cmd \notin Answers
  BY WordsAre DEF UInv, UTypeOK, Screens
<1>s. /\ shown \in Screens
      /\ shown.video = ui[e].video /\ shown.request = ui[e].request /\ shown.camera = ui[e].camera
  BY <1>0 DEF Screens
<1>1. presses' \in 0..MaxPresses /\ Press(e, cmd, shown)
  BY PressCounted DEF PressShare
<1> HIDE DEF cmd, shown
<1>2. /\ UTypeOK' /\ ui'[e] = shown
      /\ \A f \in Ends : f # e => ui'[f] = ui[f] /\ cmds'[f] = cmds[f]
      /\ UNCHANGED <<began, call, sig, agreed, ops, chan, sent, sharing, wire, pickers, events, past>>
      /\ \A S : cmd \notin S => \A f \in Ends : Same(cmds[f], cmds'[f], S)
      /\ \A S : cmd \in S => News(cmds[e], cmds'[e], S, cmd)
  BY <1>0, <1>s, <1>1, Pressed
<1>3. \A f \in Ends : /\ ui'[f].video = ui[f].video /\ ui'[f].request = ui[f].request
                      /\ ui'[f].camera = ui[f].camera
  BY <1>2, <1>s
<1>4. \A f \in Ends : Same(cmds[f], cmds'[f], Cameras) /\ Same(cmds[f], cmds'[f], Answers)
  BY <1>0, <1>2
<1>5. SameTalk /\ SameKind /\ SameBranch
  BY <1>2, <1>3, <1>4, SameSelf DEF SameTalk, SameKind, SameBranch
<1>6. News(cmds[e], cmds'[e], Shares, cmd)
  BY <1>0, <1>2
<1>7. CameraSound'
  BY <1>2, <1>3, <1>4 DEF UInv, CameraSound, Same
<1>8. ShareSound'
  BY <1>2, <1>6 DEF UInv, ShareSound, News
<1> QED
  BY <1>2, <1>5, <1>7, <1>8, TalkKept, KindKept, BranchKept DEF UInv

LEMMA AnswerPressed ==
  ASSUME UInv, NEW e \in Ends, PressAccept(e) \/ PressDecline(e)
  PROVE  UInv'
<1> DEFINE shown == [ui[e] EXCEPT !.request = FALSE]
<1>0. ui[e] \in Screens /\ ui \in [Ends -> Screens] /\ presses \in 0..MaxPresses
  BY DEF UInv, UTypeOK, Screens
<1>s. /\ shown \in Screens /\ ~shown.request
      /\ shown.video = ui[e].video /\ shown.sharing = ui[e].sharing /\ shown.camera = ui[e].camera
  BY <1>0 DEF Screens
<1>1. PICK cmd \in Answers : Press(e, cmd, shown) /\ ui[e].request /\ presses' = presses
  BY WordsAre DEF PressAccept, PressDecline
<1>c. cmd \in Commands /\ cmd \notin Cameras /\ cmd \notin Shares
  BY WordsAre DEF Answers
<1> HIDE DEF shown
<1>2. /\ UTypeOK' /\ ui'[e] = shown
      /\ \A f \in Ends : f # e => ui'[f] = ui[f] /\ cmds'[f] = cmds[f]
      /\ UNCHANGED <<began, call, sig, agreed, ops, chan, sent, sharing, wire, pickers, events, past>>
      /\ \A S : cmd \notin S => \A f \in Ends : Same(cmds[f], cmds'[f], S)
      /\ \A S : cmd \in S => News(cmds[e], cmds'[e], S, cmd)
  BY <1>0, <1>s, <1>1, <1>c, Pressed
<1>3. \A f \in Ends : /\ ui'[f].video = ui[f].video /\ ui'[f].sharing = ui[f].sharing
                      /\ ui'[f].camera = ui[f].camera
  BY <1>2, <1>s
<1>4. \A f \in Ends : Same(cmds[f], cmds'[f], Cameras) /\ Same(cmds[f], cmds'[f], Shares)
  BY <1>c, <1>2
<1>5. SameButtons /\ SameKind /\ SameBranch
  BY <1>2, <1>3, <1>4, SameSelf DEF SameButtons, SameKind, SameBranch
<1>6. /\ Has(cmds'[e], Answers) /\ ~ui'[e].request
      /\ ~Has(cmds[e], Answers) => Once(cmds'[e], Answers)
  BY <1>2, <1>1, <1>s DEF News
<1> USE DEF Offered, Making, Made, Away, Arrived, Prompting, Decided
<1>7. Silent'
  BY <1>1, <1>2, Two DEF UInv, Silent
<1>8. Trail'
  BY <1>1, <1>2, <1>6, Two DEF UInv, Trail
<1>9. Prompted'
  BY <1>1, <1>2, <1>6, Two DEF UInv, Prompted
<1>10. Unchanged' /\ OneOffer'
  BY <1>2, DealKept DEF SameDeal
<1> QED
  BY <1>2, <1>5, <1>7, <1>8, <1>9, <1>10, ButtonsKept, KindKept, BranchKept DEF UInv

LEMMA Showing ==
  ASSUME UInv, NEW e \in Ends, Show(e)
  PROVE  /\ UTypeOK' /\ Head(events[e]) \in Events /\ Shown(e, Head(events[e])) \in Screens
         /\ UNCHANGED <<began, call, sig, agreed, ops, chan, sent, sharing, wire, pickers, cmds, past>>
         /\ ui'[e] = Shown(e, Head(events[e]))
         /\ \A f \in Ends : f # e => ui'[f] = ui[f]
         /\ Shortened(Events, events, events', e)
<1>0. /\ UTypeOK /\ events \in [Ends -> Seq(Events)] /\ ui \in [Ends -> Screens] /\ ui[e] \in Screens
      /\ events[e] \in Seq(Events)
  BY DEF UInv, UTypeOK, Screens
<1>1. /\ UNCHANGED <<began, call, sig, agreed, ops, chan, sent, sharing, wire, pickers, cmds, past, presses, retold>>
      /\ events[e] # <<>>
      /\ ui' = [ui EXCEPT ![e] = Shown(e, Head(events[e]))] /\ events' = [events EXCEPT ![e] = Tail(@)]
  BY DEF Show, engines, video, counts
<1>2. Shortened(Events, events, events', e)
  BY <1>0, <1>1, TakeQueue
<1>3. Head(events[e]) \in Events
  BY <1>0, <1>1
<1>4. Shown(e, Head(events[e])) \in Screens
  BY <1>0, <1>3 DEF Shown, Events, Screens
<1>5. events' \in [Ends -> Seq(Events)]
  BY <1>2 DEF Shortened
<1>6. ui' \in [Ends -> Screens] /\ ui'[e] = Shown(e, Head(events[e])) /\ \A f \in Ends : f # e => ui'[f] = ui[f]
  BY <1>0, <1>1, <1>4
<1>7. UTypeOK'
  BY <1>0, <1>1, <1>5, <1>6 DEF UTypeOK, Screens
<1> QED
  BY <1>1, <1>2, <1>3, <1>4, <1>6, <1>7

LEMMA ShowKeeps ==
  ASSUME UInv, NEW e \in Ends, Show(e)
  PROVE  UInv'
<1> DEFINE h == Head(events[e])
<1>0. ui[e] \in Screens /\ sharing[e] \in BOOLEAN
  BY DEF UInv, UTypeOK, Screens
<1>1. /\ UTypeOK' /\ h \in Events
      /\ UNCHANGED <<began, call, sig, agreed, ops, chan, sent, sharing, wire, pickers, cmds, past>>
      /\ ui'[e] = Shown(e, h) /\ \A f \in Ends : f # e => ui'[f] = ui[f]
      /\ Shortened(Events, events, events', e)
  BY Showing
<1> HIDE DEF h
<1>2. /\ \A f \in Ends : f # e => events'[f] = events[f]
      /\ \A S : h \notin S => \A f \in Ends : Same(events[f], events'[f], S)
      /\ \A S : h \in S => Taken(events[e], events'[e], S, h)
  BY <1>1 DEF Shortened, h
<1>3. CASE h \in {"active video", "active audio"}
  <2>1. \A f \in Ends : Same(events[f], events'[f], {"request"}) /\ Same(events[f], events'[f], Shares)
    BY <1>2, <1>3, WordsAre
  <2>2. /\ ui'[e].request = ui[e].request /\ ui'[e].camera = ui[e].camera /\ ui'[e].sharing = ui[e].sharing
        /\ ui'[e].video <=> h = "active video"
    BY <1>0, <1>1, <1>3 DEF Shown, Screens
  <2>3. \A f \in Ends : /\ ui'[f].request = ui[f].request /\ ui'[f].camera = ui[f].camera
                        /\ ui'[f].sharing = ui[f].sharing
    BY <1>1, <2>2
  <2>4. SameTalk /\ SameButtons
    BY <1>1, <2>1, <2>3, SameSelf DEF SameTalk, SameButtons
  <2>5. CASE h = "active video"
    <3>1. /\ Has(events[e], {"active video"}) /\ ui'[e].video
          /\ \A f \in Ends : Same(events[f], events'[f], {"active audio"})
      BY <1>2, <2>2, <2>5 DEF Taken
    <3>2. Branched' /\ KindSound'
      BY <1>1, <1>2, <2>3, <3>1 DEF UInv, Branched, Offered, KindSound, Same
    <3> QED
      BY <1>1, <2>4, <3>2, TalkKept, ButtonsKept DEF UInv
  <2>6. CASE h = "active audio"
    <3>1. /\ Has(events[e], {"active audio"}) /\ ~ui'[e].video
          /\ \A f \in Ends : Same(events[f], events'[f], {"active video"})
      BY <1>2, <2>2, <2>6 DEF Taken
    <3>2. Branched' /\ KindSound'
      BY <1>1, <1>2, <2>3, <3>1 DEF UInv, Branched, Offered, KindSound, Same
    <3> QED
      BY <1>1, <2>4, <3>2, TalkKept, ButtonsKept DEF UInv
  <2> QED
    BY <1>3, <2>5, <2>6
<1>4. CASE h = "request"
  <2>1. \A f \in Ends : /\ Same(events[f], events'[f], {"active video"})
                        /\ Same(events[f], events'[f], {"active audio"})
                        /\ Same(events[f], events'[f], Shares)
    BY <1>2, <1>4, WordsAre
  <2>2. /\ ui'[e].video = ui[e].video /\ ui'[e].camera = ui[e].camera /\ ui'[e].sharing = ui[e].sharing
        /\ ui'[e].request
    BY <1>0, <1>1, <1>4 DEF Shown, Screens
  <2>3. \A f \in Ends : /\ ui'[f].video = ui[f].video /\ ui'[f].camera = ui[f].camera
                        /\ ui'[f].sharing = ui[f].sharing
    BY <1>1, <2>2
  <2>4. SameKind /\ SameButtons /\ SameBranch
    BY <1>1, <2>1, <2>3, SameSelf DEF SameKind, SameButtons, SameBranch
  <2>5. /\ Has(events[e], {"request"})
        /\ Once(events[e], {"request"}) => Once(events'[e], {"request"}) /\ ~Has(events'[e], {"request"})
    BY <1>2, <1>4 DEF Taken
  <2> USE DEF Offered, Making, Made, Away, Arrived, Prompting, Decided
  <2>6. Silent'
    BY <1>1, <1>2, <2>2, <2>5, Two DEF UInv, Silent
  <2>7. Trail'
    BY <1>1, <1>2, <2>2, <2>5, Two DEF UInv, Trail
  <2>8. Prompted'
    BY <1>1, <1>2, <2>2, <2>5, Two DEF UInv, Trail, Prompted
  <2>9. Unchanged' /\ OneOffer'
    BY <1>1, DealKept DEF SameDeal
  <2> QED
    BY <1>1, <2>4, <2>6, <2>7, <2>8, <2>9, KindKept, ButtonsKept, BranchKept DEF UInv
<1>5. CASE h \in Shares
  <2>1. \A f \in Ends : /\ Same(events[f], events'[f], {"active video"})
                        /\ Same(events[f], events'[f], {"active audio"})
                        /\ Same(events[f], events'[f], {"request"})
    BY <1>2, <1>5 DEF Shares
  <2>2. /\ ui'[e].video = ui[e].video /\ ui'[e].camera = ui[e].camera /\ ui'[e].request = ui[e].request
        /\ ui'[e].sharing <=> h = "share on"
    BY <1>0, <1>1, <1>5 DEF Shown, Screens, Shares
  <2>3. \A f \in Ends : /\ ui'[f].video = ui[f].video /\ ui'[f].camera = ui[f].camera
                        /\ ui'[f].request = ui[f].request
    BY <1>1, <2>2
  <2>4. SameKind /\ SameTalk /\ SameBranch
    BY <1>1, <2>1, <2>3, SameSelf DEF SameKind, SameTalk, SameBranch
  <2>5. CameraSound'
    BY <1>1, <2>3 DEF UInv, CameraSound
  <2>6. /\ Has(events[e], Shares)
        /\ \A y : Latest(events[e], Shares, y) =>
             Latest(events'[e], Shares, y) /\ (~Has(events'[e], Shares) => y = h)
    BY <1>2, <1>5 DEF Taken
  <2>7. ui'[e].sharing \in BOOLEAN
    BY <1>1 DEF UTypeOK
  <2>8. ShareSound'
    <3> DEFINE last == IF sharing[e] THEN "share on" ELSE "share off"
    <3>0. last = "share on" <=> sharing[e]
      OBVIOUS
    <3> HIDE DEF last
    <3>1. CASE ~Has(cmds[e], Shares) /\ pickers[e] = 0 /\ "unsaid" \notin past[e]
      <4>1. Latest(events[e], Shares, last)
        BY <3>1, <2>6 DEF UInv, ShareSound, last
      <4>2. Latest(events'[e], Shares, last) /\ (~Has(events'[e], Shares) => last = h)
        BY <4>1, <2>6
      <4>3. ~Has(events'[e], Shares) => ui'[e].sharing = sharing[e]
        BY <4>2, <2>2, <2>7, <1>0, <3>0
      <4> QED
        BY <1>1, <1>2, <4>2, <4>3 DEF UInv, ShareSound, last
    <3>2. CASE ~(~Has(cmds[e], Shares) /\ pickers[e] = 0 /\ "unsaid" \notin past[e])
      BY <1>1, <1>2, <3>2 DEF UInv, ShareSound
    <3> QED
      BY <3>1, <3>2
  <2> QED
    BY <1>1, <2>4, <2>5, <2>8, KindKept, TalkKept, BranchKept DEF UInv
<1> QED
  BY <1>1, <1>3, <1>4, <1>5 DEF Events, Shares

-----------------------------------------------------------------------------
(* Commands.                                                                 *)

LEMMA Commanded ==
  ASSUME UInv, NEW e \in Ends, NEW cmd, Command(e, cmd)
  PROVE  /\ Head(cmds[e]) = cmd /\ cmd \in Commands
         /\ Shortened(Commands, cmds, cmds', e) /\ cmds' \in [Ends -> Seq(Commands)]
         /\ \A f \in Ends : f # e => cmds'[f] = cmds[f]
         /\ \A S : cmd \notin S => \A f \in Ends : Same(cmds[f], cmds'[f], S)
         /\ \A S : cmd \in S => Taken(cmds[e], cmds'[e], S, cmd)
         /\ UNCHANGED <<began, ui, presses, retold>>
<1>0. cmds \in [Ends -> Seq(Commands)] /\ cmds[e] \in Seq(Commands)
  BY DEF UInv, UTypeOK
<1>1. cmds[e] # <<>> /\ cmds' = [cmds EXCEPT ![e] = Tail(@)]
  BY DEF Command
<1>2. Shortened(Commands, cmds, cmds', e)
  BY <1>0, <1>1, TakeQueue
<1>3. Head(cmds[e]) \in Commands
  BY <1>0, <1>1
<1>4. Head(cmds[e]) = cmd /\ UNCHANGED <<began, ui, presses, retold>>
  BY DEF Command, counts
<1> QED
  BY <1>2, <1>3, <1>4 DEF Shortened

LEMMA JoinIs ==
  ASSUME NEW T, NEW s \in Seq(T), NEW x \in T
  PROVE  /\ s \o <<x>> = Append(s, x)
         /\ \A y \in T : s \o <<x, y>> = Append(Append(s, x), y)
OBVIOUS

LEMMA AskOne ==
  ASSUME NEW e \in Ends, NEW x \in Operations, ops \in [Ends -> Seq(Operations)], Ask(e, <<x>>)
  PROVE  Appended(Operations, ops, ops', e, x) /\ ops'[e] = Append(ops[e], x)
<1>1. ops[e] \in Seq(Operations)
  OBVIOUS
<1>2. ops' = [ops EXCEPT ![e] = Append(@, x)]
  BY <1>1, JoinIs DEF Ask
<1> QED
  BY <1>1, <1>2, PutQueue

\* An end without a branch asks for an offer.
LEMMA OfferBegins ==
  ASSUME UInv, UTypeOK', NEW e \in Ends, sent[e] = "none", Ask(e, <<"create offer">>),
         "offered" \in past'[e], "offered" \in past'[Other(e)] <=> "offered" \in past[Other(e)],
         UNCHANGED <<began, call, sig, agreed, chan, wire, ui>>,
         \A f \in Ends : Same(cmds[f], cmds'[f], Answers) /\ Same(events[f], events'[f], {"request"})
  PROVE  Silent' /\ Trail' /\ Prompted' /\ Unchanged' /\ OneOffer'
<1> DEFINE o == Other(e)
<1>0. /\ UTypeOK /\ o \in Ends /\ o # e /\ Other(o) = e /\ \A f \in Ends : f = e \/ f = o
      /\ ops \in [Ends -> Seq(Operations)] /\ "create offer" \in Operations
  BY Two DEF UInv, UTypeOK, Operations
<1>1. /\ Appended(Operations, ops, ops', e, "create offer") /\ ops'[e] = Append(ops[e], "create offer")
      /\ ops'[o] = ops[o]
  BY <1>0, AskOne DEF Appended
<1>2. /\ \A S : "create offer" \notin S => Same(ops[e], ops'[e], S)
      /\ Has(ops'[e], {"create offer"})
      /\ ~Has(ops[e], {"create offer"}) => Once(ops'[e], {"create offer"})
  BY <1>1 DEF Appended, News
<1>3. ~Offered(e) /\ ~began
  BY DEF UInv, Branched
<1> USE DEF Offered, Making, Made, Away, Arrived, Prompting, Decided
<1>4. /\ ~Making(e) /\ ~Made(e) /\ ~Away(e) /\ ~Arrived(e) /\ ~Prompting(e) /\ ~Decided(e)
      /\ ~Has(ops[e], {"local offer", "remote answer"}) /\ sig[e] # "have-local-offer"
      /\ ~call[o].pending /\ sig[o] # "have-remote-offer"
      /\ ~Has(ops[o], {"remote offer", "create answer", "local answer"})
      /\ ~Has(chan[o], {"answer"}) /\ "content-accept" \notin wire[e]
  BY <1>3 DEF UInv, Silent
<1> HIDE DEF o
<1>5. Silent'
  <2>1. Same(ops[e], ops'[e], {"remote offer", "create answer", "local answer"})
    BY <1>2
  <2> QED
    BY <1>0, <1>1, <2>1 DEF UInv, Silent, Same, o
<1>6. Trail'
  BY <1>0, <1>1, <1>2, <1>4 DEF UInv, Trail, Same, o
<1>7. Prompted'
  BY <1>0, <1>1, <1>2, <1>4 DEF UInv, Prompted, Same, o
<1>8. Unchanged'
  BY <1>0 DEF Unchanged
<1>9. OneOffer'
  <2>1. CASE Offered(o)
    BY <1>0, <2>1 DEF OneOffer, o
  <2>2. CASE ~Offered(o)
    <3>1. /\ ~Has(ops[o], {"create offer"}) /\ ~Has(ops[o], {"local offer", "remote answer"})
          /\ sig[o] # "have-local-offer" /\ sig[e] # "have-remote-offer"
          /\ ~Has(ops[e], {"remote offer", "create answer", "local answer"})
      BY <1>0, <2>2 DEF UInv, Silent
    <3>2. ~Has(ops[e], Operations) /\ ~Has(ops[o], Operations)
      BY <1>4, <3>1 DEF Has, Operations
    <3>3. ops[e] = <<>> /\ ops[o] = <<>>
      BY <1>0, <3>2, NothingIs
    <3>4. ops'[e] = <<"create offer">> /\ ops'[o] = <<>>
      BY <1>0, <1>1, <3>3, TuplesAre
    <3>5. sig[e] = "stable" /\ sig[o] = "stable"
      BY <1>0, <1>4, <3>1 DEF UTypeOK
    <3>6. \A f \in Ends : ~call[f].video /\ ~agreed[f]
      BY <1>0, <1>3, <2>2 DEF UInv, Unchanged, UTypeOK
    <3>7. Offerer(e)' /\ Answerer(o)'
      BY <1>0, <3>4, <3>5, <3>6 DEF Offerer, Answerer
    <3>8. Once(chan[o], {"answer"})
      BY <1>4 DEF Has, Once
    <3>9. Returned(o)'
      <4>1. <<>> # <<"local answer">>
        OBVIOUS
      <4> QED
        BY <1>0, <1>4, <3>4, <3>6, <3>8, <4>1 DEF Returned, Answered
    <3> QED
      BY <1>0, <2>2, <3>6, <3>7, <3>9 DEF OneOffer, o
  <2> QED
    BY <2>1, <2>2
<1> QED
  BY <1>5, <1>6, <1>7, <1>8, <1>9

LEMMA UpgradeKeeps ==
  ASSUME UInv, NEW e \in Ends, UpgradeToVideo(e)
  PROVE  UInv'
<1>0. UTypeOK
  BY DEF UInv
<1>1. /\ cmds' \in [Ends -> Seq(Commands)] /\ UNCHANGED <<began, ui, presses, retold>>
      /\ \A S : "upgrade" \notin S => \A f \in Ends : Same(cmds[f], cmds'[f], S)
  BY Commanded DEF UpgradeToVideo
<1>2. UNCHANGED <<call, sig, agreed, chan, sharing, wire, pickers, events>>
  BY DEF UpgradeToVideo
<1>3. \A f \in Ends : /\ Same(cmds[f], cmds'[f], Cameras) /\ Same(cmds[f], cmds'[f], Shares)
                      /\ Same(cmds[f], cmds'[f], Answers)
  BY <1>1, WordsAre
<1>4. CASE UNCHANGED <<sent, ops, past>>
  <2>1. UTypeOK'
    BY <1>0, <1>1, <1>2, <1>4 DEF UTypeOK
  <2>2. SameTalk /\ SameButtons /\ SameKind /\ SameBranch
    BY <1>1, <1>2, <1>3, <1>4, SameSelf DEF SameTalk, SameButtons, SameKind, SameBranch
  <2> QED
    BY <2>1, <2>2, TalkKept, ButtonsKept, KindKept, BranchKept DEF UInv
<1>5. CASE /\ sent[e] = "none" /\ sent' = [sent EXCEPT ![e] = AddBranch(e)]
           /\ Ask(e, <<"create offer">>) /\ Note(e, {"offered"})
  <2>1. /\ sent'[e] = "camera" /\ \A f \in Ends : f # e => sent'[f] = sent[f]
        /\ sent' \in [Ends -> {"none", "camera", "black", "screen"}]
    BY <1>0, <1>5 DEF UTypeOK, AddBranch
  <2>2. /\ past' \in [Ends -> SUBSET Marks]
        /\ past'[e] = past[e] \cup {"offered"} /\ \A f \in Ends : f # e => past'[f] = past[f]
    BY <1>0, <1>5 DEF UTypeOK, Note, Marks
  <2>m. \A f \in Ends : "retold" \in past'[f] <=> "retold" \in past[f]
    BY <2>2
  <2>3. ops' \in [Ends -> Seq(Operations)]
    BY <1>0, <1>5, AskOne DEF UTypeOK, Operations, Appended
  <2>4. UTypeOK'
    BY <1>0, <1>1, <1>2, <2>1, <2>2, <2>3 DEF UTypeOK
  <2>5. Silent' /\ Trail' /\ Prompted' /\ Unchanged' /\ OneOffer'
    <3>1. "offered" \in past'[e] /\ ("offered" \in past'[Other(e)] <=> "offered" \in past[Other(e)])
      BY <2>2, Two
    <3> QED
      BY <1>1, <1>2, <1>3, <1>5, <2>4, <3>1, OfferBegins, SameSelf
  <2>6. SameKind
    BY <1>1, <1>2, <2>m, SameSelf DEF SameKind
  <2>7. Branched'
    BY <1>1, <1>2, <1>3, <2>1, <2>2 DEF UInv, Branched, Offered, Same
  <2>8. CameraSound'
    BY <1>1, <1>2, <1>3, <1>5, <2>1, <2>2 DEF UInv, Branched, CameraSound, Same
  <2>9. ShareSound'
    BY <1>1, <1>2, <1>3, <1>5, <2>1, <2>2 DEF UInv, Branched, ShareSound, Same
  <2> QED
    BY <2>4, <2>5, <2>6, <2>7, <2>8, <2>9, KindKept DEF UInv
<1>6. CASE \E left \in {"none", "camera"} :
             /\ BranchFails(e, left) /\ sent' = [sent EXCEPT ![e] = left]
             /\ Note(e, {"failed"}) /\ UNCHANGED ops
  <2>1. /\ sent[e] = "none" /\ \A f \in Ends : f # e => sent'[f] = sent[f]
        /\ sent' \in [Ends -> {"none", "camera", "black", "screen"}]
    BY <1>0, <1>6 DEF UTypeOK, BranchFails
  <2>2. /\ past' \in [Ends -> SUBSET Marks]
        /\ past'[e] = past[e] \cup {"failed"} /\ \A f \in Ends : f # e => past'[f] = past[f]
    BY <1>0, <1>6 DEF UTypeOK, Note, Marks
  <2>m. \A f \in Ends : /\ "retold" \in past'[f] <=> "retold" \in past[f]
                        /\ "offered" \in past'[f] <=> "offered" \in past[f]
    BY <2>2
  <2>3. UTypeOK'
    BY <1>0, <1>1, <1>2, <1>6, <2>1, <2>2 DEF UTypeOK
  <2>4. SameTalk /\ SameKind
    BY <1>1, <1>2, <1>3, <1>6, <2>m, SameSelf DEF SameTalk, SameKind
  <2>5. SameBranch
    BY <1>1, <1>2, <1>3, <2>1, <2>m, SameSelf DEF SameBranch
  <2>6. CameraSound'
    BY <1>1, <1>2, <1>3, <2>1, <2>2 DEF UInv, Branched, CameraSound, Same
  <2>7. ShareSound'
    BY <1>1, <1>2, <1>3, <2>1, <2>2 DEF UInv, Branched, ShareSound, Same
  <2> QED
    BY <2>3, <2>4, <2>5, <2>6, <2>7, TalkKept, KindKept, BranchKept DEF UInv
<1> QED
  BY <1>4, <1>5, <1>6 DEF UpgradeToVideo

LEMMA DeclineKeeps ==
  ASSUME UInv, NEW e \in Ends, DeclineVideoUpgrade(e)
  PROVE  UInv'
<1>0. UTypeOK
  BY DEF UInv
<1>1. /\ cmds' \in [Ends -> Seq(Commands)] /\ UNCHANGED <<began, ui, presses, retold>>
      /\ \A f \in Ends : f # e => cmds'[f] = cmds[f]
      /\ \A S : "decline" \notin S => \A f \in Ends : Same(cmds[f], cmds'[f], S)
      /\ \A S : "decline" \in S => Taken(cmds[e], cmds'[e], S, "decline")
  BY Commanded DEF DeclineVideoUpgrade
<1>2. UNCHANGED <<sig, agreed, ops, chan, sent, sharing, pickers, events, past>>
  BY DEF DeclineVideoUpgrade, engines, video
<1>3. /\ call' = [call EXCEPT ![e].pending = FALSE]
      /\ wire' = IF call[e].pending THEN [wire EXCEPT ![Other(e)] = @ \cup {"content-reject"}] ELSE wire
  BY DEF DeclineVideoUpgrade
<1>p. /\ call' \in [Ends -> [video : BOOLEAN, pending : BOOLEAN]]
      /\ call'[e].pending = FALSE
      /\ \A f \in Ends : call'[f].video = call[f].video
      /\ \A f \in Ends : f # e => call'[f].pending = call[f].pending
  BY <1>0, <1>3, PendingIs DEF UTypeOK
<1>w. \A f \in Ends : \A w \in {"content-add", "content-accept"} : w \in wire'[f] <=> w \in wire[f]
  BY <1>0, <1>3, Two DEF UTypeOK
<1>4. /\ \A f \in Ends : call'[f].video = call[f].video
      /\ \A f \in Ends : f # e => call'[f].pending = call[f].pending
      /\ ~call'[e].pending
      /\ \A f \in Ends : \A w \in {"content-add", "content-accept"} : w \in wire'[f] <=> w \in wire[f]
  BY <1>p, <1>w
<1>5. UTypeOK'
  <2>1. call' \in [Ends -> [video : BOOLEAN, pending : BOOLEAN]]
    BY <1>p
  <2>2. wire' \in [Ends -> SUBSET Stanzas]
    BY <1>0, <1>3, Two DEF UTypeOK, Stanzas
  <2> QED
    BY <1>0, <1>1, <1>2, <2>1, <2>2 DEF UTypeOK
<1>6. \A f \in Ends : Same(cmds[f], cmds'[f], Cameras) /\ Same(cmds[f], cmds'[f], Shares)
  BY <1>1, WordsAre
<1>7. /\ Has(cmds[e], Answers)
      /\ Once(cmds[e], Answers) => Once(cmds'[e], Answers) /\ ~Has(cmds'[e], Answers)
  BY <1>1, WordsAre DEF Taken
<1>8. SameButtons /\ SameKind /\ SameBranch
  BY <1>1, <1>2, <1>4, <1>6, SameSelf DEF SameButtons, SameKind, SameBranch
<1> USE DEF Offered, Making, Made, Away, Arrived, Prompting, Decided
<1>9. Silent'
  BY <1>1, <1>2, <1>4, <1>7, Two DEF UInv, Silent
<1>10. Trail'
  BY <1>1, <1>2, <1>4, <1>7, Two DEF UInv, Trail
<1>11. Prompted'
  BY <1>1, <1>2, <1>4, <1>7, Two DEF UInv, Trail, Prompted
<1>12. Unchanged' /\ OneOffer'
  BY <1>1, <1>2, <1>4, DealKept DEF SameDeal
<1> QED
  BY <1>5, <1>8, <1>9, <1>10, <1>11, <1>12, ButtonsKept, KindKept, BranchKept DEF UInv

LEMMA CameraKeeps ==
  ASSUME UInv, NEW e \in Ends, SetCamera(e)
  PROVE  UInv'
<1>0. UTypeOK
  BY DEF UInv
<1> PICK on \in BOOLEAN :
      /\ Command(e, IF on THEN "camera on" ELSE "camera off")
      /\ IF sent[e] = "none" THEN UNCHANGED <<sent, past>>
         ELSE /\ sent' = [sent EXCEPT ![e] = IF on THEN "camera" ELSE "black"]
              /\ past' = [past EXCEPT ![e] = (IF on THEN @ ELSE @ \ {"exposed"})
                                             \cup (IF sharing[e] THEN {"covered"} ELSE {})]
      /\ UNCHANGED <<call, sig, agreed, ops, chan, sharing, pickers, wire, events>>
  BY DEF SetCamera, engines
<1> DEFINE cmd == IF on THEN "camera on" ELSE "camera off"
<1>a. cmd \in Cameras /\ cmd \notin Shares /\ cmd \notin Answers /\ (cmd = "camera on" <=> on)
  BY WordsAre
<1>b. Command(e, cmd)
  OBVIOUS
<1> HIDE DEF cmd
<1>1. /\ cmds' \in [Ends -> Seq(Commands)] /\ UNCHANGED <<began, ui, presses, retold>>
      /\ \A f \in Ends : f # e => cmds'[f] = cmds[f]
      /\ \A S : cmd \notin S => \A f \in Ends : Same(cmds[f], cmds'[f], S)
      /\ \A S : cmd \in S => Taken(cmds[e], cmds'[e], S, cmd)
  BY <1>b, Commanded
<1>2. \A f \in Ends : Same(cmds[f], cmds'[f], Shares) /\ Same(cmds[f], cmds'[f], Answers)
  BY <1>a, <1>1
<1>3. /\ Has(cmds[e], Cameras)
      /\ \A y : Latest(cmds[e], Cameras, y) =>
           Latest(cmds'[e], Cameras, y) /\ (~Has(cmds'[e], Cameras) => y = cmd)
  BY <1>a, <1>1 DEF Taken
<1>4. sent[e] # "none"
  BY <1>3 DEF UInv, Branched
<1>5. /\ sent'[e] = (IF on THEN "camera" ELSE "black") /\ \A f \in Ends : f # e => sent'[f] = sent[f]
      /\ sent' \in [Ends -> {"none", "camera", "black", "screen"}]
  BY <1>0, <1>4 DEF UTypeOK
<1>6. /\ past' \in [Ends -> SUBSET Marks]
      /\ \A f \in Ends : f # e => past'[f] = past[f]
      /\ \A m \in {"offered", "retold", "unsaid"} : m \in past'[e] <=> m \in past[e]
      /\ sharing[e] => "covered" \in past'[e]
  <2> DEFINE new == (IF on THEN past[e] ELSE past[e] \ {"exposed"})
                    \cup (IF sharing[e] THEN {"covered"} ELSE {})
  <2>1. past' = [past EXCEPT ![e] = new]
    BY <1>4
  <2>2. past \in [Ends -> SUBSET Marks] /\ past[e] \subseteq Marks /\ "covered" \in Marks
    BY <1>0 DEF UTypeOK, Marks
  <2>3. new \in SUBSET Marks
    BY <2>2
  <2>4. \A m \in {"offered", "retold", "unsaid"} : m \in new <=> m \in past[e]
    OBVIOUS
  <2>5. sharing[e] => "covered" \in new
    OBVIOUS
  <2> HIDE DEF new
  <2>6. past'[e] = new /\ past' \in [Ends -> SUBSET Marks] /\ \A f \in Ends : f # e => past'[f] = past[f]
    BY <2>1, <2>2, <2>3
  <2> QED
    BY <2>4, <2>5, <2>6
<1>7. UTypeOK'
  BY <1>0, <1>1, <1>5, <1>6 DEF UTypeOK
<1>8. SameTalk /\ SameKind
  BY <1>1, <1>2, <1>6, SameSelf DEF SameTalk, SameKind
<1>9. Branched'
  BY <1>0, <1>1, <1>5, <1>6 DEF UInv, Branched, Offered
<1>10. CameraSound'
  <2> DEFINE last == IF ui[e].camera THEN "camera on" ELSE "camera off"
  <2>1. Latest(cmds[e], Cameras, last) /\ (last = "camera on" <=> ui[e].camera)
    BY <1>3 DEF UInv, CameraSound
  <2> HIDE DEF last
  <2>2. Latest(cmds'[e], Cameras, last) /\ (~Has(cmds'[e], Cameras) => last = cmd)
    BY <1>3, <2>1
  <2>3. ~Has(cmds'[e], Cameras) /\ ~ui[e].camera => sent'[e] # "camera"
    BY <1>a, <1>5, <2>1, <2>2
  <2> QED
    BY <1>1, <1>5, <1>6, <2>2, <2>3 DEF UInv, CameraSound, last
<1>11. ShareSound'
  BY <1>1, <1>2, <1>5, <1>6 DEF UInv, ShareSound, Same
<1> QED
  BY <1>7, <1>8, <1>9, <1>10, <1>11, TalkKept, KindKept DEF UInv

LEMMA PickerKeeps ==
  ASSUME UInv, NEW e \in Ends, OpenPicker(e)
  PROVE  UInv'
<1>0. UTypeOK
  BY DEF UInv
<1>1. /\ cmds' \in [Ends -> Seq(Commands)] /\ UNCHANGED <<began, ui, presses, retold>>
      /\ \A f \in Ends : f # e => cmds'[f] = cmds[f]
      /\ \A S : "share on" \notin S => \A f \in Ends : Same(cmds[f], cmds'[f], S)
  BY Commanded DEF OpenPicker
<1>2. /\ UNCHANGED <<call, sig, agreed, ops, chan, sent, sharing, wire, events, past>>
      /\ pickers' = [pickers EXCEPT ![e] = @ + 1]
  BY DEF OpenPicker, engines
<1>3. /\ pickers' \in [Ends -> Nat] /\ pickers'[e] # 0
      /\ \A f \in Ends : f # e => pickers'[f] = pickers[f]
  BY <1>0, <1>2 DEF UTypeOK
<1>4. UTypeOK'
  BY <1>0, <1>1, <1>2, <1>3 DEF UTypeOK
<1>5. \A f \in Ends : Same(cmds[f], cmds'[f], Cameras) /\ Same(cmds[f], cmds'[f], Answers)
  BY <1>1, WordsAre
<1>6. SameTalk /\ SameKind /\ SameBranch
  BY <1>1, <1>2, <1>5, SameSelf DEF SameTalk, SameKind, SameBranch
<1>7. CameraSound'
  BY <1>1, <1>2, <1>5 DEF UInv, CameraSound, Same
<1>8. ShareSound'
  BY <1>1, <1>2, <1>3 DEF UInv, ShareSound
<1> QED
  BY <1>4, <1>6, <1>7, <1>8, TalkKept, KindKept, BranchKept DEF UInv

LEMMA Emitted ==
  ASSUME UInv, NEW e \in Ends, NEW event \in Events, Emit(e, event)
  PROVE  /\ events' \in [Ends -> Seq(Events)]
         /\ \A f \in Ends : f # e => events'[f] = events[f]
         /\ \A S : event \notin S => \A f \in Ends : Same(events[f], events'[f], S)
         /\ \A S : event \in S => News(events[e], events'[e], S, event)
<1>1. Appended(Events, events, events', e, event)
  BY PutQueue DEF UInv, UTypeOK, Emit
<1> QED
  BY <1>1 DEF Appended

LEMMA CancelKeeps ==
  ASSUME UInv, NEW e \in Ends, PickerCancelled(e)
  PROVE  UInv'
<1>0. UTypeOK
  BY DEF UInv
<1>1. /\ UNCHANGED <<began, call, sig, agreed, ops, chan, sent, sharing, wire, cmds, ui, presses, retold>>
      /\ pickers[e] > 0 /\ pickers' = [pickers EXCEPT ![e] = @ - 1]
  BY DEF PickerCancelled, engines, counts
<1>2. /\ events' \in [Ends -> Seq(Events)]
      /\ \A f \in Ends : f # e => events'[f] = events[f]
      /\ \A S : "share off" \notin S => \A f \in Ends : Same(events[f], events'[f], S)
      /\ \A S : "share off" \in S => News(events[e], events'[e], S, "share off")
  BY Emitted, WordsAre DEF PickerCancelled
<1>3. /\ past' \in [Ends -> SUBSET Marks]
      /\ \A f \in Ends : f # e => past'[f] = past[f]
      /\ \A m \in {"offered", "retold", "exposed", "covered"} : m \in past'[e] <=> m \in past[e]
      /\ sharing[e] => "unsaid" \in past'[e]
      /\ "unsaid" \in past[e] => "unsaid" \in past'[e]
  <2> DEFINE new == past[e] \cup (IF sharing[e] THEN {"unsaid"} ELSE {})
  <2>1. past' = [past EXCEPT ![e] = new]
    BY DEF PickerCancelled, Note
  <2>2. past \in [Ends -> SUBSET Marks] /\ past[e] \subseteq Marks /\ "unsaid" \in Marks
    BY <1>0 DEF UTypeOK, Marks
  <2>3. new \in SUBSET Marks
    BY <2>2
  <2>4. /\ \A m \in {"offered", "retold", "exposed", "covered"} : m \in new <=> m \in past[e]
        /\ sharing[e] => "unsaid" \in new
        /\ "unsaid" \in past[e] => "unsaid" \in new
    OBVIOUS
  <2> HIDE DEF new
  <2>5. past'[e] = new /\ past' \in [Ends -> SUBSET Marks] /\ \A f \in Ends : f # e => past'[f] = past[f]
    BY <2>1, <2>2, <2>3
  <2> QED
    BY <2>4, <2>5
<1>m. \A f \in Ends : /\ "retold" \in past'[f] <=> "retold" \in past[f]
                      /\ "offered" \in past'[f] <=> "offered" \in past[f]
  BY <1>3
<1>4. pickers' \in [Ends -> Nat] /\ \A f \in Ends : f # e => pickers'[f] = pickers[f]
  BY <1>0, <1>1 DEF UTypeOK
<1>5. UTypeOK'
  BY <1>0, <1>1, <1>2, <1>3, <1>4 DEF UTypeOK
<1>6. \A f \in Ends : /\ Same(events[f], events'[f], {"active video"})
                      /\ Same(events[f], events'[f], {"active audio"})
                      /\ Same(events[f], events'[f], {"request"})
  BY <1>2
<1>7. SameTalk /\ SameKind /\ SameBranch
  BY <1>1, <1>m, <1>6, SameSelf DEF SameTalk, SameKind, SameBranch
<1>8. CameraSound'
  BY <1>1, <1>3 DEF UInv, CameraSound
<1>9. ShareSound'
  <2>1. Has(events'[e], Shares) /\ Latest(events'[e], Shares, "share off")
    BY <1>2, WordsAre DEF News
  <2>2. CASE sharing[e]
    BY <1>1, <1>2, <1>3, <1>4, <2>2 DEF UInv, ShareSound
  <2>3. CASE ~sharing[e]
    BY <1>1, <1>2, <1>3, <1>4, <2>1, <2>3 DEF UInv, ShareSound
  <2> QED
    BY <2>2, <2>3
<1> QED
  BY <1>5, <1>7, <1>8, <1>9, TalkKept, KindKept, BranchKept DEF UInv

LEMMA StopKeeps ==
  ASSUME UInv, NEW e \in Ends, StopScreenShare(e)
  PROVE  UInv'
<1>0. UTypeOK
  BY DEF UInv
<1>1. /\ cmds' \in [Ends -> Seq(Commands)] /\ UNCHANGED <<began, ui, presses, retold>>
      /\ \A f \in Ends : f # e => cmds'[f] = cmds[f]
      /\ \A S : "share off" \notin S => \A f \in Ends : Same(cmds[f], cmds'[f], S)
  BY Commanded DEF StopScreenShare
<1>2. /\ events' \in [Ends -> Seq(Events)]
      /\ \A f \in Ends : f # e => events'[f] = events[f]
      /\ \A S : "share off" \notin S => \A f \in Ends : Same(events[f], events'[f], S)
      /\ \A S : "share off" \in S => News(events[e], events'[e], S, "share off")
  BY Emitted, WordsAre DEF StopScreenShare
<1>3. /\ UNCHANGED <<call, sig, agreed, ops, chan, wire, pickers>>
      /\ sharing' = [sharing EXCEPT ![e] = FALSE]
      /\ sent' = IF sharing[e] THEN [sent EXCEPT ![e] = "camera"] ELSE sent
  BY DEF StopScreenShare, engines
<1>4. /\ past' \in [Ends -> SUBSET Marks]
      /\ \A f \in Ends : f # e => past'[f] = past[f]
      /\ \A m \in {"offered", "retold"} : m \in past'[e] <=> m \in past[e]
      /\ sharing[e] \/ "exposed" \in past[e] => "exposed" \in past'[e]
  <2> DEFINE new == (IF sharing[e] THEN past[e] \cup {"exposed"} ELSE past[e]) \ {"covered", "unsaid"}
  <2>1. past' = [past EXCEPT ![e] = new]
    BY DEF StopScreenShare
  <2>2. past \in [Ends -> SUBSET Marks] /\ past[e] \subseteq Marks /\ "exposed" \in Marks
    BY <1>0 DEF UTypeOK, Marks
  <2>3. new \in SUBSET Marks
    BY <2>2
  <2>4. /\ \A m \in {"offered", "retold"} : m \in new <=> m \in past[e]
        /\ sharing[e] \/ "exposed" \in past[e] => "exposed" \in new
    OBVIOUS
  <2> HIDE DEF new
  <2>5. past'[e] = new /\ past' \in [Ends -> SUBSET Marks] /\ \A f \in Ends : f # e => past'[f] = past[f]
    BY <2>1, <2>2, <2>3
  <2> QED
    BY <2>4, <2>5
<1>m. \A f \in Ends : /\ "retold" \in past'[f] <=> "retold" \in past[f]
                      /\ "offered" \in past'[f] <=> "offered" \in past[f]
  BY <1>4
<1>5. /\ sharing' \in [Ends -> BOOLEAN] /\ ~sharing'[e] /\ \A f \in Ends : f # e => sharing'[f] = sharing[f]
      /\ sent' \in [Ends -> {"none", "camera", "black", "screen"}]
      /\ \A f \in Ends : f # e => sent'[f] = sent[f]
      /\ IF sharing[e] THEN sent'[e] = "camera" ELSE sent'[e] = sent[e]
  BY <1>0, <1>3 DEF UTypeOK
<1>6. UTypeOK'
  BY <1>0, <1>1, <1>2, <1>3, <1>4, <1>5 DEF UTypeOK
<1>7. \A f \in Ends : /\ Same(events[f], events'[f], {"active video"})
                      /\ Same(events[f], events'[f], {"active audio"})
                      /\ Same(events[f], events'[f], {"request"})
                      /\ Same(cmds[f], cmds'[f], Cameras) /\ Same(cmds[f], cmds'[f], Answers)
  BY <1>1, <1>2, WordsAre
<1>8. SameTalk /\ SameKind
  BY <1>1, <1>3, <1>m, <1>7, SameSelf DEF SameTalk, SameKind
<1>9. Branched'
  BY <1>1, <1>3, <1>m, <1>5, <1>7 DEF UInv, Branched, Offered, Same
<1>10. CameraSound'
  BY <1>1, <1>4, <1>5, <1>7 DEF UInv, CameraSound, Same
<1>11. ShareSound'
  <2>1. Has(events'[e], Shares) /\ Latest(events'[e], Shares, "share off")
    BY <1>2, WordsAre DEF News
  <2> QED
    BY <1>1, <1>2, <1>3, <1>4, <1>5, <2>1 DEF UInv, ShareSound
<1> QED
  BY <1>6, <1>8, <1>9, <1>10, <1>11, TalkKept, KindKept DEF UInv

LEMMA StartKeeps ==
  ASSUME UInv, NEW e \in Ends, StartScreenShare(e)
  PROVE  UInv'
<1>0. UTypeOK
  BY DEF UInv
<1>1. /\ UNCHANGED <<began, call, sig, agreed, chan, wire, cmds, ui, presses, retold>>
      /\ pickers[e] > 0 /\ pickers' = [pickers EXCEPT ![e] = @ - 1]
      /\ sent' = [sent EXCEPT ![e] = "screen"] /\ sharing' = [sharing EXCEPT ![e] = TRUE]
      /\ IF sent[e] = "none" THEN Ask(e, <<"create offer">>) ELSE UNCHANGED ops
  BY DEF StartScreenShare, counts
<1>2. /\ events' \in [Ends -> Seq(Events)]
      /\ \A f \in Ends : f # e => events'[f] = events[f]
      /\ \A S : "share on" \notin S => \A f \in Ends : Same(events[f], events'[f], S)
      /\ \A S : "share on" \in S => News(events[e], events'[e], S, "share on")
  BY Emitted, WordsAre DEF StartScreenShare
<1>3. /\ past' \in [Ends -> SUBSET Marks]
      /\ \A f \in Ends : f # e => past'[f] = past[f]
      /\ "retold" \in past'[e] <=> "retold" \in past[e]
      /\ "offered" \in past'[e] <=> sent[e] = "none" \/ "offered" \in past[e]
  <2> DEFINE new == (IF sent[e] = "none" THEN past[e] \cup {"offered"} ELSE past[e]) \ {"covered", "unsaid"}
  <2>1. past' = [past EXCEPT ![e] = new]
    BY DEF StartScreenShare
  <2>2. past \in [Ends -> SUBSET Marks] /\ past[e] \subseteq Marks /\ "offered" \in Marks
    BY <1>0 DEF UTypeOK, Marks
  <2>3. new \in SUBSET Marks
    BY <2>2
  <2>4. /\ "retold" \in new <=> "retold" \in past[e]
        /\ "offered" \in new <=> sent[e] = "none" \/ "offered" \in past[e]
    OBVIOUS
  <2> HIDE DEF new
  <2>5. past'[e] = new /\ past' \in [Ends -> SUBSET Marks] /\ \A f \in Ends : f # e => past'[f] = past[f]
    BY <2>1, <2>2, <2>3
  <2> QED
    BY <2>4, <2>5
<1>m. \A f \in Ends : "retold" \in past'[f] <=> "retold" \in past[f]
  BY <1>3
<1>4. /\ sharing' \in [Ends -> BOOLEAN] /\ sharing'[e] /\ \A f \in Ends : f # e => sharing'[f] = sharing[f]
      /\ sent' \in [Ends -> {"none", "camera", "black", "screen"}]
      /\ sent'[e] = "screen" /\ \A f \in Ends : f # e => sent'[f] = sent[f]
      /\ pickers' \in [Ends -> Nat] /\ \A f \in Ends : f # e => pickers'[f] = pickers[f]
  <2>0. /\ pickers \in [Ends -> Nat] /\ pickers[e] > 0 /\ pickers' = [pickers EXCEPT ![e] = @ - 1]
        /\ sent \in [Ends -> {"none", "camera", "black", "screen"}] /\ sent' = [sent EXCEPT ![e] = "screen"]
        /\ sharing \in [Ends -> BOOLEAN] /\ sharing' = [sharing EXCEPT ![e] = TRUE]
    BY <1>0, <1>1 DEF UTypeOK
  <2>1. pickers' \in [Ends -> Nat] /\ \A f \in Ends : f # e => pickers'[f] = pickers[f]
    <3>1. pickers[e] - 1 \in Nat
      BY <2>0
    <3> QED
      BY <2>0, <3>1
  <2>2. sharing' \in [Ends -> BOOLEAN] /\ sharing'[e] /\ \A f \in Ends : f # e => sharing'[f] = sharing[f]
    BY <2>0
  <2>3. /\ sent' \in [Ends -> {"none", "camera", "black", "screen"}]
        /\ sent'[e] = "screen" /\ \A f \in Ends : f # e => sent'[f] = sent[f]
    BY <2>0
  <2> QED
    BY <2>1, <2>2, <2>3
<1>5. ops' \in [Ends -> Seq(Operations)]
  BY <1>0, <1>1, AskOne DEF UTypeOK, Operations, Appended
<1>6. UTypeOK'
  BY <1>0, <1>1, <1>2, <1>3, <1>4, <1>5 DEF UTypeOK
<1>7. \A f \in Ends : /\ Same(events[f], events'[f], {"active video"})
                      /\ Same(events[f], events'[f], {"active audio"})
                      /\ Same(events[f], events'[f], {"request"})
  BY <1>2
<1>8. Silent' /\ Trail' /\ Prompted' /\ Unchanged' /\ OneOffer'
  <2>1. CASE sent[e] = "none"
    <3>1. "offered" \in past'[e] /\ ("offered" \in past'[Other(e)] <=> "offered" \in past[Other(e)])
      BY <1>3, <2>1, Two
    <3> QED
      BY <1>1, <1>6, <1>7, <2>1, <3>1, OfferBegins, SameSelf
  <2>2. CASE sent[e] # "none"
    <3>1. \A f \in Ends : "offered" \in past'[f] <=> "offered" \in past[f]
      BY <1>3, <2>2
    <3>2. SameTalk
      BY <1>1, <1>7, <2>2, <3>1, SameSelf DEF SameTalk
    <3> QED
      BY <3>2, TalkKept
  <2> QED
    BY <2>1, <2>2
<1>9. SameKind
  BY <1>1, <1>m, <1>7 DEF SameKind
<1>10. Branched'
  BY <1>1, <1>3, <1>4, <1>7 DEF UInv, Branched, Offered, Same
<1>11. CameraSound'
  BY <1>1, <1>3, <1>4 DEF UInv, CameraSound
<1>12. ShareSound'
  <2>1. Has(events'[e], Shares) /\ Latest(events'[e], Shares, "share on")
    BY <1>2, WordsAre DEF News
  <2> QED
    BY <1>1, <1>2, <1>3, <1>4, <2>1 DEF UInv, ShareSound
<1> QED
  BY <1>6, <1>8, <1>9, <1>10, <1>11, <1>12, KindKept DEF UInv

LEMMA AskTwo ==
  ASSUME NEW e \in Ends, ops \in [Ends -> Seq(Operations)], Ask(e, ApplyOffer)
  PROVE  /\ ops' \in [Ends -> Seq(Operations)]
         /\ \A f \in Ends : f # e => ops'[f] = ops[f]
         /\ \A f \in Ends : Same(ops[f], ops'[f], {"create offer"})
         /\ \A f \in Ends : Same(ops[f], ops'[f], {"local offer", "remote answer"})
         /\ ops[e] = <<>> => ops'[e] = <<"remote offer", "create answer">>
<1> DEFINE x == "remote offer"
           y == "create answer"
           mid == [ops EXCEPT ![e] = Append(@, x)]
<1>0. x \in Operations /\ y \in Operations /\ ops[e] \in Seq(Operations)
  BY DEF Operations
<1>1. ops'[e] = Append(Append(ops[e], x), y) /\ ops' = [ops EXCEPT ![e] = Append(Append(ops[e], x), y)]
  BY <1>0, JoinIs DEF Ask, ApplyOffer
<1>2. mid[e] = Append(ops[e], x) /\ \A f \in Ends : f # e => mid[f] = ops[f]
  OBVIOUS
<1>3. Appended(Operations, ops, mid, e, x)
  BY <1>0, PutQueue
<1>4. mid \in [Ends -> Seq(Operations)]
  BY <1>3 DEF Appended
<1>5. ops' = [mid EXCEPT ![e] = Append(@, y)]
  BY <1>1, <1>2
<1>6. Appended(Operations, mid, ops', e, y)
  BY <1>0, <1>4, <1>5, PutQueue
<1>7. ASSUME NEW S, x \notin S, y \notin S, NEW f \in Ends PROVE Same(ops[f], ops'[f], S)
  <2>1. Same(ops[f], mid[f], S) /\ Same(mid[f], ops'[f], S)
    BY <1>3, <1>6, <1>7 DEF Appended
  <2> QED
    BY <2>1 DEF Same
<1>8. ASSUME ops[e] = <<>> PROVE ops'[e] = <<x, y>>
  <2>1. Append(<<>>, x) = <<x>> /\ Append(<<x>>, y) = <<x, y>>
    BY <1>0, TuplesAre
  <2>2. ops'[e] = Append(Append(<<>>, x), y)
    BY <1>1, <1>8
  <2> HIDE DEF x, y
  <2> QED
    BY <2>1, <2>2
<1>9. ops' \in [Ends -> Seq(Operations)] /\ \A f \in Ends : f # e => ops'[f] = ops[f]
  BY <1>2, <1>6 DEF Appended
<1> QED
  BY <1>7, <1>8, <1>9

LEMMA AcceptFails ==
  ASSUME UInv, NEW e \in Ends, Command(e, "accept"), NEW left \in {"none", "camera"}, BranchFails(e, left),
         call' = [call EXCEPT ![e].pending = FALSE], sent' = [sent EXCEPT ![e] = left], Note(e, {"failed"}),
         UNCHANGED <<sig, agreed, ops, chan, sharing, wire, pickers, events>>
  PROVE  UInv'
<1>0. UTypeOK
  BY DEF UInv
<1>1. /\ cmds' \in [Ends -> Seq(Commands)] /\ UNCHANGED <<began, ui, presses, retold>>
      /\ \A f \in Ends : f # e => cmds'[f] = cmds[f]
      /\ \A S : "accept" \notin S => \A f \in Ends : Same(cmds[f], cmds'[f], S)
      /\ \A S : "accept" \in S => Taken(cmds[e], cmds'[e], S, "accept")
  BY Commanded
<1>2. /\ call' \in [Ends -> [video : BOOLEAN, pending : BOOLEAN]]
      /\ ~call'[e].pending
      /\ \A f \in Ends : call'[f].video = call[f].video
      /\ \A f \in Ends : f # e => call'[f].pending = call[f].pending
  <2>1. call \in [Ends -> [video : BOOLEAN, pending : BOOLEAN]]
    BY <1>0 DEF UTypeOK
  <2> QED
    BY <2>1, PendingIs
<1>3. /\ past' \in [Ends -> SUBSET Marks]
      /\ past'[e] = past[e] \cup {"failed"} /\ \A f \in Ends : f # e => past'[f] = past[f]
  BY <1>0 DEF UTypeOK, Note, Marks
<1>m. \A f \in Ends : /\ "retold" \in past'[f] <=> "retold" \in past[f]
                      /\ "offered" \in past'[f] <=> "offered" \in past[f]
  BY <1>3
<1>4. /\ sent[e] = "none" /\ \A f \in Ends : f # e => sent'[f] = sent[f]
      /\ sent' \in [Ends -> {"none", "camera", "black", "screen"}]
  BY <1>0 DEF UTypeOK, BranchFails
<1>5. UTypeOK'
  BY <1>0, <1>1, <1>2, <1>3, <1>4 DEF UTypeOK
<1>6. \A f \in Ends : Same(cmds[f], cmds'[f], Cameras) /\ Same(cmds[f], cmds'[f], Shares)
  BY <1>1, WordsAre
<1>7. /\ Has(cmds[e], Answers)
      /\ Once(cmds[e], Answers) => Once(cmds'[e], Answers) /\ ~Has(cmds'[e], Answers)
  BY <1>1, WordsAre DEF Taken
<1>8. SameKind
  BY <1>1, <1>2, <1>m, SameSelf DEF SameKind
<1>b. SameBranch
  BY <1>1, <1>2, <1>4, <1>6, <1>m, SameSelf DEF SameBranch
<1>9. CameraSound'
  BY <1>1, <1>3, <1>4, <1>6 DEF UInv, Branched, CameraSound, Same
<1>10. ShareSound'
  BY <1>1, <1>3, <1>4, <1>6 DEF UInv, Branched, ShareSound, Same
<1> USE DEF Offered, Making, Made, Away, Arrived, Prompting, Decided
<1>11. Silent'
  BY <1>1, <1>2, <1>m, <1>7, Two DEF UInv, Silent
<1>12. Trail'
  BY <1>1, <1>7, Two DEF UInv, Trail
<1>13. Prompted'
  BY <1>1, <1>2, <1>7, Two DEF UInv, Trail, Prompted
<1>14. Unchanged' /\ OneOffer'
  BY <1>1, <1>2, <1>m, DealKept DEF SameDeal
<1> QED
  BY <1>5, <1>8, <1>b, <1>9, <1>10, <1>11, <1>12, <1>13, <1>14, KindKept, BranchKept DEF UInv

LEMMA AcceptIgnored ==
  ASSUME UInv, NEW e \in Ends, Command(e, "accept"), call[e].video \/ ~call[e].pending,
         UNCHANGED <<call, sig, agreed, ops, chan, sent, sharing, wire, pickers, events, past>>
  PROVE  UInv'
<1>0. UTypeOK
  BY DEF UInv
<1>1. /\ cmds' \in [Ends -> Seq(Commands)] /\ UNCHANGED <<began, ui, presses, retold>>
      /\ \A f \in Ends : f # e => cmds'[f] = cmds[f]
      /\ \A S : "accept" \notin S => \A f \in Ends : Same(cmds[f], cmds'[f], S)
      /\ \A S : "accept" \in S => Taken(cmds[e], cmds'[e], S, "accept")
  BY Commanded
<1>2. UTypeOK'
  BY <1>0, <1>1 DEF UTypeOK
<1>3. \A f \in Ends : Same(cmds[f], cmds'[f], Cameras) /\ Same(cmds[f], cmds'[f], Shares)
  BY <1>1, WordsAre
<1>4. /\ Has(cmds[e], Answers)
      /\ Once(cmds[e], Answers) => Once(cmds'[e], Answers) /\ ~Has(cmds'[e], Answers)
  BY <1>1, WordsAre DEF Taken
<1>5. SameButtons /\ SameKind /\ SameBranch
  BY <1>1, <1>3, SameSelf DEF SameButtons, SameKind, SameBranch
<1> USE DEF Offered, Making, Made, Away, Arrived, Prompting, Decided
<1>6. Silent'
  BY <1>1, <1>4, Two DEF UInv, Silent
<1>7. Trail'
  BY <1>1, <1>4, Two DEF UInv, Trail
<1>8. Prompted'
  BY <1>1, <1>4, Two DEF UInv, Prompted
<1>9. Unchanged' /\ OneOffer'
  BY <1>1, DealKept DEF SameDeal
<1> QED
  BY <1>2, <1>5, <1>6, <1>7, <1>8, <1>9, ButtonsKept, KindKept, BranchKept DEF UInv

LEMMA AcceptTaken ==
  ASSUME UInv, NEW e \in Ends, Command(e, "accept"), ~call[e].video, call[e].pending,
         call' = [call EXCEPT ![e] = [video |-> TRUE, pending |-> FALSE]],
         sent' = [sent EXCEPT ![e] = AddBranch(e)], Ask(e, ApplyOffer), Emit(e, "active video"),
         Note(e, {"accepted"}), UNCHANGED <<sig, agreed, chan, sharing, wire, pickers>>
  PROVE  UInv'
<1> DEFINE o == Other(e)
<1>0. UTypeOK /\ o \in Ends /\ o # e /\ Other(o) = e /\ \A f \in Ends : f = e \/ f = o
  BY Two DEF UInv
<1>1. /\ cmds' \in [Ends -> Seq(Commands)] /\ UNCHANGED <<began, ui, presses, retold>>
      /\ \A f \in Ends : f # e => cmds'[f] = cmds[f]
      /\ \A S : "accept" \notin S => \A f \in Ends : Same(cmds[f], cmds'[f], S)
      /\ \A S : "accept" \in S => Taken(cmds[e], cmds'[e], S, "accept")
  BY Commanded
<1>2. /\ call' \in [Ends -> [video : BOOLEAN, pending : BOOLEAN]]
      /\ ~call'[e].pending /\ call'[e].video
      /\ \A f \in Ends : f # e => call'[f].pending = call[f].pending /\ call'[f].video = call[f].video
  BY <1>0 DEF UTypeOK
<1>3. /\ past' \in [Ends -> SUBSET Marks]
      /\ past'[e] = past[e] \cup {"accepted"} /\ \A f \in Ends : f # e => past'[f] = past[f]
  BY <1>0 DEF UTypeOK, Note, Marks
<1>m. \A f \in Ends : \A m \in {"offered", "retold", "exposed", "covered", "unsaid"} : m \in past'[f] <=> m \in past[f]
  BY <1>3
<1>4. /\ sent'[e] # "none" /\ (sent[e] # "none" => sent'[e] = sent[e])
      /\ \A f \in Ends : f # e => sent'[f] = sent[f]
      /\ sent' \in [Ends -> {"none", "camera", "black", "screen"}]
  BY <1>0 DEF UTypeOK, AddBranch
<1>5. /\ ops' \in [Ends -> Seq(Operations)]
      /\ \A f \in Ends : f # e => ops'[f] = ops[f]
      /\ \A f \in Ends : Same(ops[f], ops'[f], {"create offer"})
      /\ \A f \in Ends : Same(ops[f], ops'[f], {"local offer", "remote answer"})
      /\ ops[e] = <<>> => ops'[e] = <<"remote offer", "create answer">>
  BY <1>0, AskTwo DEF UTypeOK
<1>6. /\ events' \in [Ends -> Seq(Events)]
      /\ \A f \in Ends : f # e => events'[f] = events[f]
      /\ \A S : "active video" \notin S => \A f \in Ends : Same(events[f], events'[f], S)
      /\ \A S : "active video" \in S => News(events[e], events'[e], S, "active video")
  BY Emitted, WordsAre
<1>7. UTypeOK'
  BY <1>0, <1>1, <1>2, <1>3, <1>4, <1>5, <1>6 DEF UTypeOK
<1>8. /\ \A f \in Ends : Same(cmds[f], cmds'[f], Cameras) /\ Same(cmds[f], cmds'[f], Shares)
      /\ \A f \in Ends : /\ Same(events[f], events'[f], Shares) /\ Same(events[f], events'[f], {"request"})
                         /\ Same(events[f], events'[f], {"active audio"})
  BY <1>1, <1>6, WordsAre
<1>9. /\ Has(cmds[e], Answers)
      /\ Once(cmds[e], Answers) => Once(cmds'[e], Answers) /\ ~Has(cmds'[e], Answers)
      /\ Has(events'[e], {"active video"})
  BY <1>1, <1>6, WordsAre DEF Taken, News
<1>10. Branched'
  BY <1>1, <1>2, <1>m, <1>4, <1>6, <1>8 DEF UInv, Branched, Offered, Same
<1>11. KindSound'
  BY <1>1, <1>2, <1>m, <1>6, <1>8, <1>9 DEF UInv, KindSound, Same
<1>12. CameraSound'
  BY <1>1, <1>m, <1>4, <1>8 DEF UInv, Branched, CameraSound, Same
<1>13. ShareSound'
  BY <1>1, <1>m, <1>4, <1>8 DEF UInv, Branched, ShareSound, Same
<1> USE DEF Offered, Making, Made, Away, Arrived, Prompting, Decided
<1>14. Offered(o)
  BY <1>0 DEF UInv, Silent
<1>15. Silent'
  BY <1>0, <1>1, <1>2, <1>m, <1>5, <1>8, <1>9, <1>14 DEF UInv, Silent, Same
<1>16. Trail'
  BY <1>0, <1>1, <1>5, <1>8, <1>9 DEF UInv, Trail, Same
<1>17. Prompted'
  BY <1>0, <1>1, <1>2, <1>5, <1>8, <1>9 DEF UInv, Trail, Prompted, Same
<1>18. Unchanged'
  BY <1>0, <1>m, <1>14 DEF Unchanged
<1>19. OneOffer'
  <2>1. CASE Offered(e)
    BY <1>0, <1>m, <1>14, <2>1 DEF OneOffer
  <2>2. CASE ~Offered(e)
    <3>1. Offerer(o) /\ Answerer(e) /\ Returned(e) /\ ~Making(o)
      BY <1>0, <1>9, <1>14, <2>2 DEF UInv, OneOffer, Trail
    <3>2. ops[e] = <<>> /\ sig[e] = "stable" /\ ~agreed[e]
      BY <3>1 DEF Answerer
    <3>3. ops'[e] = <<"remote offer", "create answer">>
      BY <1>5, <3>2
    <3>4. Answerer(e)'
      BY <1>2, <3>2, <3>3 DEF Answerer
    <3>5. Offerer(o)' /\ ~Making(o)'
      BY <1>0, <1>2, <1>5, <3>1 DEF Offerer
    <3>6. ~Answered(e) /\ ~Answered(e)'
      <4>1. <<>> # <<"local answer">> /\ <<"remote offer", "create answer">> # <<"local answer">>
        BY TuplesAre DEF Operations
      <4> QED
        BY <3>2, <3>3, <4>1 DEF Answered
    <3>7. Returned(e)'
      BY <1>0, <1>2, <3>1, <3>6 DEF Returned
    <3> QED
      BY <1>0, <1>m, <2>2, <3>4, <3>5, <3>7 DEF OneOffer
  <2> QED
    BY <2>1, <2>2
<1> QED
  BY <1>7, <1>10, <1>11, <1>12, <1>13, <1>15, <1>16, <1>17, <1>18, <1>19 DEF UInv

LEMMA AcceptKeeps ==
  ASSUME UInv, NEW e \in Ends, AcceptVideoUpgrade(e)
  PROVE  UInv'
BY AcceptFails, AcceptIgnored, AcceptTaken DEF AcceptVideoUpgrade

-----------------------------------------------------------------------------
(* The engine.                                                               *)

LEMMA Worked ==
  ASSUME NEW e \in Ends, NEW op, Operation(e, op)
  PROVE  /\ UNCHANGED <<began, call, sent, sharing, pickers, wire, cmds, events, ui, presses, retold, past>>
         /\ ops[e] # <<>> /\ Head(ops[e]) = op
BY DEF Operation, video, callScreen, counts

\* Only webrtcbin and the engine's channel have moved.
LEMMA EngineKept ==
  ASSUME UInv, UTypeOK', UNCHANGED <<began, call, sent, sharing, pickers, wire, cmds, events, ui, past>>,
         Silent', Trail', Prompted', Unchanged', OneOffer'
  PROVE  UInv'
<1>1. SameButtons /\ SameKind /\ SameBranch
  BY SameSelf DEF SameButtons, SameKind, SameBranch
<1> QED
  BY <1>1, ButtonsKept, KindKept, BranchKept DEF UInv

\* Where the operations of the only offer stand.
LEMMA OffererAt ==
  ASSUME NEW e \in Ends, Offerer(e), ops[e] # <<>>
  PROVE  \/ /\ Head(ops[e]) = "create offer" /\ Tail(ops[e]) = <<>>
            /\ sig[e] = "stable" /\ ~agreed[e] /\ ~call[e].video
         \/ /\ Head(ops[e]) = "local offer" /\ Tail(ops[e]) = <<>>
            /\ sig[e] = "stable" /\ ~agreed[e] /\ ~call[e].video
         \/ /\ Head(ops[e]) = "local offer" /\ Tail(ops[e]) = <<"remote answer">>
            /\ sig[e] = "stable" /\ ~agreed[e] /\ call[e].video
         \/ /\ Head(ops[e]) = "remote answer" /\ Tail(ops[e]) = <<>>
            /\ sig[e] = "have-local-offer" /\ ~agreed[e] /\ call[e].video
<1>1. "create offer" \in Operations /\ "local offer" \in Operations /\ "remote answer" \in Operations
  BY DEF Operations
<1>2. /\ Head(<<"create offer">>) = "create offer" /\ Tail(<<"create offer">>) = <<>>
      /\ Head(<<"local offer">>) = "local offer" /\ Tail(<<"local offer">>) = <<>>
      /\ Head(<<"remote answer">>) = "remote answer" /\ Tail(<<"remote answer">>) = <<>>
      /\ Head(<<"local offer", "remote answer">>) = "local offer"
      /\ Tail(<<"local offer", "remote answer">>) = <<"remote answer">>
  BY <1>1, TuplesAre
<1> QED
  BY <1>2 DEF Offerer

LEMMA AnswererAt ==
  ASSUME NEW e \in Ends, Answerer(e), ops[e] # <<>>
  PROVE  /\ ~agreed[e] /\ call[e].video
         /\ \/ /\ Head(ops[e]) = "remote offer" /\ Tail(ops[e]) = <<"create answer">>
               /\ sig[e] = "stable"
            \/ Head(ops[e]) = "create answer" /\ Tail(ops[e]) = <<>> /\ sig[e] = "have-remote-offer"
            \/ Head(ops[e]) = "local answer" /\ Tail(ops[e]) = <<>> /\ sig[e] = "have-remote-offer"
         /\ Head(ops[e]) = "local answer" <=> ops[e] = <<"local answer">>
<1>1. "create answer" \in Operations /\ "local answer" \in Operations /\ "remote offer" \in Operations
  BY DEF Operations
<1>2. /\ Head(<<"create answer">>) = "create answer" /\ Tail(<<"create answer">>) = <<>>
      /\ Head(<<"local answer">>) = "local answer" /\ Tail(<<"local answer">>) = <<>>
      /\ Head(<<"remote offer", "create answer">>) = "remote offer"
      /\ Tail(<<"remote offer", "create answer">>) = <<"create answer">>
  BY <1>1, TuplesAre
<1> QED
  BY <1>2 DEF Answerer

\* The operations that an end runs say who has made an offer.
LEMMA WhoOffered ==
  ASSUME UInv, NEW e \in Ends, ops[e] # <<>>
  PROVE  /\ ops[e] \in Seq(Operations)
         /\ Head(ops[e]) \in {"create offer", "local offer", "remote answer"} => Offered(e)
         /\ Head(ops[e]) \in {"remote offer", "create answer", "local answer"} => Offered(Other(e))
<1>0. ops[e] \in Seq(Operations)
  BY DEF UInv, UTypeOK
<1>1. \A S : Head(ops[e]) \in S => Has(ops[e], S)
  BY <1>0, TakeIs
<1>2. CASE Head(ops[e]) = "create offer"
  <2>1. Making(e)
    BY <1>1, <1>2 DEF Making
  <2> QED
    BY <1>0, <1>2, <2>1 DEF UInv, Silent
<1>3. CASE Head(ops[e]) \in {"local offer", "remote answer"}
  <2>1. Has(ops[e], {"local offer", "remote answer"})
    BY <1>1, <1>3
  <2> QED
    BY <1>0, <1>3, <2>1 DEF UInv, Silent
<1>4. CASE Head(ops[e]) \in {"remote offer", "create answer", "local answer"}
  <2>1. Has(ops[e], {"remote offer", "create answer", "local answer"})
    BY <1>1, <1>4
  <2> QED
    BY <1>0, <1>4, <2>1, Two DEF UInv, Silent
<1> QED
  BY <1>0, <1>2, <1>3, <1>4

\* An operation is done, and the signalling state follows.
LEMMA Done ==
  ASSUME UInv, NEW e \in Ends, ops[e] # <<>>, Head(ops[e]) # "create offer",
         ops' = [ops EXCEPT ![e] = Rest(e)],
         UNCHANGED <<began, call, chan, sent, sharing, pickers, wire, cmds, events, ui, presses, retold, past>>,
         UTypeOK', \A f \in Ends : f # e => sig'[f] = sig[f] /\ agreed'[f] = agreed[f],
         \/ sig'[e] = sig[e] \/ sig'[e] = "stable"
         \/ sig'[e] = "have-local-offer" /\ Offered(e)
         \/ sig'[e] = "have-remote-offer" /\ Offered(Other(e))
  PROVE  /\ Silent' /\ Trail' /\ Prompted' /\ Unchanged'
         /\ ops'[e] = Tail(ops[e])
         /\ \A f \in Ends : f # e => ops'[f] = ops[f]
         /\ Making(e)' <=> Making(e)
<1> DEFINE h == Head(ops[e])
<1>0. UTypeOK /\ ops \in [Ends -> Seq(Operations)] /\ ops[e] \in Seq(Operations)
  BY DEF UInv, UTypeOK
<1>1. ops' = [ops EXCEPT ![e] = Tail(@)]
  BY DEF Rest
<1>2. /\ ops'[e] = Tail(ops[e]) /\ \A f \in Ends : f # e => ops'[f] = ops[f]
  BY <1>0, <1>1
<1>3. /\ \A f \in Ends : \A S : Has(ops'[f], S) => Has(ops[f], S)
      /\ \A f \in Ends : Same(ops[f], ops'[f], {"create offer"})
  <2>1. /\ Same(ops[e], Tail(ops[e]), {"create offer"})
        /\ \A S : Has(Tail(ops[e]), S) => Has(ops[e], S)
    BY <1>0, TakeIs, TakeSame
  <2> QED
    BY <1>2, <2>1, SameSelf
<1>4. Offered(e) \/ Offered(Other(e))
  <2>1. h \in Operations
    BY <1>0, TakeIs
  <2> QED
    BY <2>1, WhoOffered DEF Operations
<1> USE DEF Offered, Making, Made, Away, Arrived, Prompting, Decided
<1>5. Silent'
  <2> SUFFICES ASSUME NEW f \in Ends, ~Offered(f)
               PROVE  /\ ~Making(f)' /\ ~Made(f) /\ ~Away(f) /\ ~Arrived(f) /\ ~Prompting(f) /\ ~Decided(f)
                      /\ ~Has(ops'[f], {"local offer", "remote answer"}) /\ sig'[f] # "have-local-offer"
                      /\ ~call[Other(f)].pending /\ sig'[Other(f)] # "have-remote-offer"
                      /\ ~Has(ops'[Other(f)], {"remote offer", "create answer", "local answer"})
                      /\ ~Has(chan[Other(f)], {"answer"}) /\ "content-accept" \notin wire[f]
    BY DEF Silent
  <2>0. Other(f) \in Ends /\ Other(f) # f /\ Other(Other(f)) = f /\ (e = f \/ e = Other(f))
    BY Two
  <2>1. /\ ~Making(f) /\ ~Made(f) /\ ~Away(f) /\ ~Arrived(f) /\ ~Prompting(f) /\ ~Decided(f)
        /\ ~Has(ops[f], {"local offer", "remote answer"}) /\ sig[f] # "have-local-offer"
        /\ ~call[Other(f)].pending /\ sig[Other(f)] # "have-remote-offer"
        /\ ~Has(ops[Other(f)], {"remote offer", "create answer", "local answer"})
        /\ ~Has(chan[Other(f)], {"answer"}) /\ "content-accept" \notin wire[f]
    BY DEF UInv, Silent
  <2>2. sig'[f] # "have-local-offer" /\ sig'[Other(f)] # "have-remote-offer"
    BY <2>0, <2>1
  <2> QED
    BY <1>3, <2>0, <2>1, <2>2
<1>6. Trail'
  BY <1>3 DEF UInv, Trail, Same
<1>7. Prompted'
  BY <1>3 DEF UInv, Prompted, Same
<1>8. Unchanged'
  BY <1>4, Two DEF Unchanged
<1>9. Making(e)' <=> Making(e)
  BY <1>3 DEF Same
<1> QED
  BY <1>2, <1>5, <1>6, <1>7, <1>8, <1>9

LEMMA DescribedKeeps ==
  ASSUME UInv, NEW e \in Ends,
         \/ LocalOffer(e) \/ RemoteOffer(e) \/ LocalAnswer(e) \/ RemoteAnswer(e)
  PROVE  UInv'
<1> DEFINE o == Other(e)
<1>0. UTypeOK /\ o \in Ends /\ o # e /\ Other(o) = e /\ \A f \in Ends : f = e \/ f = o
  BY Two DEF UInv
<1>1. PICK op \in Operations, from \in {"stable", "have-local-offer", "have-remote-offer"},
           to \in {"stable", "have-local-offer", "have-remote-offer"} :
        /\ Describes(e, op, from, to)
        /\ \/ op = "local offer" /\ from = "stable" /\ to = "have-local-offer"
           \/ op = "remote offer" /\ from = "stable" /\ to = "have-remote-offer"
           \/ op = "local answer" /\ from = "have-remote-offer" /\ to = "stable"
           \/ op = "remote answer" /\ from = "have-local-offer" /\ to = "stable"
  BY DEF LocalOffer, RemoteOffer, LocalAnswer, RemoteAnswer, Operations
<1>2. /\ ops[e] # <<>> /\ Head(ops[e]) = op
      /\ ops' = [ops EXCEPT ![e] = Rest(e)]
      /\ UNCHANGED <<began, call, chan, sent, sharing, pickers, wire, cmds, events, ui, presses, retold, past>>
  BY <1>1, Worked DEF Describes
<1>3. IF sig[e] = from
      THEN sig' = [sig EXCEPT ![e] = to] /\ agreed' = [agreed EXCEPT ![e] = @ \/ to = "stable"]
      ELSE UNCHANGED <<sig, agreed>>
  BY <1>1 DEF Describes
<1>4. /\ sig' \in [Ends -> {"stable", "have-local-offer", "have-remote-offer"}]
      /\ agreed' \in [Ends -> BOOLEAN]
      /\ \A f \in Ends : f # e => sig'[f] = sig[f] /\ agreed'[f] = agreed[f]
      /\ sig[e] = from => sig'[e] = to /\ (agreed'[e] <=> agreed[e] \/ to = "stable")
      /\ sig[e] # from => sig'[e] = sig[e] /\ agreed'[e] = agreed[e]
  <2>0. sig \in [Ends -> {"stable", "have-local-offer", "have-remote-offer"}] /\ agreed \in [Ends -> BOOLEAN]
    BY <1>0 DEF UTypeOK
  <2>1. CASE sig[e] = from
    <3>1. sig' = [sig EXCEPT ![e] = to] /\ agreed' = [agreed EXCEPT ![e] = (agreed[e] \/ to = "stable")]
      BY <1>3, <2>1
    <3>2. (agreed[e] \/ to = "stable") \in BOOLEAN
      OBVIOUS
    <3> QED
      BY <2>0, <2>1, <3>1, <3>2
  <2>2. CASE sig[e] # from
    BY <1>3, <2>0, <2>2
  <2> QED
    BY <2>1, <2>2
<1>5. ops' \in [Ends -> Seq(Operations)]
  <2>1. ops \in [Ends -> Seq(Operations)] /\ ops[e] \in Seq(Operations) /\ Rest(e) = Tail(ops[e])
    BY <1>0 DEF UTypeOK, Rest
  <2>2. Rest(e) \in Seq(Operations)
    BY <1>2, <2>1, TakeIs
  <2> QED
    BY <1>2, <2>1, <2>2
<1>6. UTypeOK'
  BY <1>0, <1>2, <1>4, <1>5 DEF UTypeOK
<1>7. /\ Offered(e) \/ Offered(o)
      /\ op \in {"local offer", "remote answer"} => Offered(e)
      /\ op \in {"remote offer", "local answer"} => Offered(o)
  BY <1>1, <1>2, WhoOffered
<1>8. /\ Silent' /\ Trail' /\ Prompted' /\ Unchanged'
      /\ ops'[e] = Tail(ops[e])
      /\ \A f \in Ends : f # e => ops'[f] = ops[f]
      /\ Making(e)' <=> Making(e)
  <2>1. \/ sig'[e] = sig[e] \/ sig'[e] = "stable"
        \/ sig'[e] = "have-local-offer" /\ Offered(e)
        \/ sig'[e] = "have-remote-offer" /\ Offered(Other(e))
    BY <1>1, <1>4, <1>7
  <2>2. op # "create offer"
    BY <1>1
  <2> QED
    BY <1>2, <1>4, <1>6, <2>1, <2>2, Done
<1> HIDE DEF o
<1>9. OneOffer'
  <2>1. CASE Offered(e) /\ Offered(o)
    BY <1>0, <1>2, <2>1 DEF OneOffer, Offered, o
  <2>2. CASE Offered(e) /\ ~Offered(o)
    <3>1. Offerer(e) /\ Answerer(o) /\ Returned(o) /\ (call[o].video => ~Making(e))
      BY <1>0, <2>2 DEF UInv, OneOffer, o
    <3>2. op \in {"local offer", "remote answer"}
      BY <1>1, <1>7, <2>2
    <3>3. Offerer(e)'
      BY <1>1, <1>2, <1>4, <1>8, <3>1, <3>2, OffererAt DEF Offerer
    <3>4. Answerer(o)' /\ Returned(o)'
      BY <1>0, <1>2, <1>4, <1>8, <3>1 DEF Answerer, Returned, Answered
    <3> QED
      BY <1>0, <1>2, <1>8, <2>2, <3>1, <3>3, <3>4 DEF OneOffer, Offered, o
  <2>3. CASE ~Offered(e) /\ Offered(o)
    <3>1. Offerer(o) /\ Answerer(e) /\ Returned(e) /\ (call[e].video => ~Making(o))
      BY <1>0, <2>3 DEF UInv, OneOffer, o
    <3>2. op \in {"remote offer", "local answer"}
      BY <1>1, <1>7, <2>3
    <3>3. /\ \/ /\ ops'[e] = <<"create answer">> /\ sig'[e] = "have-remote-offer"
                /\ ops[e] # <<"local answer">> /\ ~agreed'[e]
             \/ ops'[e] = <<>> /\ sig'[e] = "stable" /\ ops[e] = <<"local answer">> /\ agreed'[e]
          /\ call[e].video /\ ~agreed[e]
      BY <1>1, <1>2, <1>4, <1>8, <3>1, <3>2, AnswererAt
    <3>4. Answerer(e)'
      BY <1>2, <3>3 DEF Answerer
    <3>5. <<"create answer">> # <<"local answer">> /\ <<>> # <<"local answer">>
      BY ("create answer" # "local answer")
    <3>6. Answered(e)' <=> Answered(e)
      BY <3>3, <3>5 DEF Answered
    <3>7. Returned(e)'
      BY <1>0, <1>2, <3>1, <3>6 DEF Returned, o
    <3>8. Offerer(o)' /\ (Making(o)' <=> Making(o))
      BY <1>0, <1>2, <1>4, <1>8, <3>1 DEF Offerer, Making
    <3> QED
      BY <1>0, <1>2, <1>8, <2>3, <3>1, <3>4, <3>7, <3>8 DEF OneOffer, Offered, o
  <2> QED
    BY <1>7, <2>1, <2>2, <2>3
<1> QED
  BY <1>2, <1>6, <1>8, <1>9, EngineKept

LEMMA Replaced ==
  ASSUME UInv, NEW e \in Ends, ops[e] # <<>>, NEW y \in Operations,
         ops' = [ops EXCEPT ![e] = Append(Rest(e), y)]
  PROVE  /\ ops' \in [Ends -> Seq(Operations)]
         /\ \A f \in Ends : f # e => ops'[f] = ops[f]
         /\ \A S : y \notin S /\ Has(ops'[e], S) => Has(ops[e], S)
         /\ \A S : y \notin S /\ Head(ops[e]) \notin S => Same(ops[e], ops'[e], S)
         /\ \A S : y \notin S /\ Head(ops[e]) \in S => Taken(ops[e], ops'[e], S, Head(ops[e]))
         /\ Tail(ops[e]) = <<>> => ops'[e] = <<y>>
<1> DEFINE t == Tail(ops[e])
           h == Head(ops[e])
<1>0. ops \in [Ends -> Seq(Operations)] /\ ops[e] \in Seq(Operations)
  BY DEF UInv, UTypeOK
<1>1. t \in Seq(Operations)
  BY <1>0, TakeIs
<1>2. Append(t, y) \in Seq(Operations)
  BY <1>1, PutIs
<1>3. /\ ops'[e] = Append(t, y) /\ \A f \in Ends : f # e => ops'[f] = ops[f]
      /\ ops' \in [Ends -> Seq(Operations)]
  BY <1>0, <1>2 DEF Rest
<1>4. t = <<>> => ops'[e] = <<y>>
  <2>1. Append(<<>>, y) = <<y>>
    BY TuplesAre
  <2> QED
    BY <1>3, <2>1
<1>5. \A S : y \notin S => Same(t, ops'[e], S)
  BY <1>1, <1>3, PutSame
<1>6. \A S : h \notin S => Same(ops[e], t, S)
  BY <1>0, TakeSame
<1>7. \A S : h \in S => Taken(ops[e], t, S, h)
  BY <1>0, TakeTaken
<1>8. \A S : Has(t, S) => Has(ops[e], S)
  BY <1>0, TakeIs
<1> HIDE DEF t, h
<1>9. \A S : y \notin S /\ Has(ops'[e], S) => Has(ops[e], S)
  BY <1>5, <1>8 DEF Same
<1>10. \A S : y \notin S /\ h \notin S => Same(ops[e], ops'[e], S)
  BY <1>5, <1>6 DEF Same
<1>11. ASSUME NEW S, y \notin S, h \in S PROVE Taken(ops[e], ops'[e], S, h)
  <2>1. Same(t, ops'[e], S) /\ Taken(ops[e], t, S, h)
    BY <1>5, <1>7, <1>11
  <2> QED
    BY <2>1 DEF Same, Taken
<1> QED
  BY <1>3, <1>4, <1>9, <1>10, <1>11 DEF t, h

LEMMA DescriptionTold ==
  ASSUME UInv, NEW e \in Ends, NEW kind \in {"offer", "answer"}, Describe(e, kind)
  PROVE  /\ chan' \in [Ends -> Seq({"offer", "answer", "connected"})]
         /\ \A f \in Ends : f # e => chan'[f] = chan[f]
         /\ \A S : kind \notin S => \A f \in Ends : Same(chan[f], chan'[f], S)
         /\ \A S : kind \in S => News(chan[e], chan'[e], S, kind)
         /\ UNCHANGED <<sig, agreed>>
         /\ ops' = [ops EXCEPT ![e] = Append(Rest(e), IF kind = "offer" THEN "local offer" ELSE "local answer")]
<1>0. chan \in [Ends -> Seq({"offer", "answer", "connected"})]
  BY DEF UInv, UTypeOK
<1>1. chan' = [chan EXCEPT ![e] = Append(@, kind)]
  BY DEF Describe
<1>2. Appended({"offer", "answer", "connected"}, chan, chan', e, kind)
  BY <1>0, <1>1, PutQueue
<1>3. /\ UNCHANGED <<sig, agreed>>
      /\ ops' = [ops EXCEPT ![e] = Append(Rest(e), IF kind = "offer" THEN "local offer" ELSE "local answer")]
  BY DEF Describe
<1> QED
  BY <1>2, <1>3 DEF Appended

LEMMA CreateOfferKeeps ==
  ASSUME UInv, NEW e \in Ends, CreateOffer(e)
  PROVE  UInv'
<1> DEFINE o == Other(e)
           y == "local offer"
<1>0. UTypeOK /\ o \in Ends /\ o # e /\ Other(o) = e /\ \A f \in Ends : f = e \/ f = o
  BY Two DEF UInv
<1>1. /\ ops[e] # <<>> /\ Head(ops[e]) = "create offer"
      /\ UNCHANGED <<began, call, sent, sharing, pickers, wire, cmds, events, ui, presses, retold, past>>
  BY Worked DEF CreateOffer
<1>2. /\ chan' \in [Ends -> Seq({"offer", "answer", "connected"})]
      /\ \A f \in Ends : f # e => chan'[f] = chan[f]
      /\ \A S : "offer" \notin S => \A f \in Ends : Same(chan[f], chan'[f], S)
      /\ \A S : "offer" \in S => News(chan[e], chan'[e], S, "offer")
      /\ UNCHANGED <<sig, agreed>>
      /\ ops' = [ops EXCEPT ![e] = Append(Rest(e), y)]
  BY DescriptionTold DEF CreateOffer
<1>y. y \in Operations
  BY DEF Operations
<1>3. /\ ops' \in [Ends -> Seq(Operations)]
      /\ \A f \in Ends : f # e => ops'[f] = ops[f]
      /\ \A S : y \notin S /\ Has(ops'[e], S) => Has(ops[e], S)
      /\ \A S : y \notin S /\ "create offer" \in S => Taken(ops[e], ops'[e], S, "create offer")
      /\ Tail(ops[e]) = <<>> => ops'[e] = <<y>>
  <2>1. ops[e] # <<>> /\ Head(ops[e]) = "create offer"
    BY <1>1
  <2>2. ops' = [ops EXCEPT ![e] = Append(Rest(e), y)]
    BY <1>2
  <2> HIDE DEF y
  <2>3. /\ ops' \in [Ends -> Seq(Operations)]
        /\ \A f \in Ends : f # e => ops'[f] = ops[f]
        /\ \A S : y \notin S /\ Has(ops'[e], S) => Has(ops[e], S)
        /\ \A S : y \notin S /\ Head(ops[e]) \in S => Taken(ops[e], ops'[e], S, Head(ops[e]))
        /\ Tail(ops[e]) = <<>> => ops'[e] = <<y>>
    BY <2>1, <2>2, <1>y, Replaced
  <2> QED
    BY <2>1, <2>3
<1>4. UTypeOK'
  BY <1>0, <1>1, <1>2, <1>3 DEF UTypeOK
<1>5. Offered(e)
  BY <1>1, WhoOffered
<1>6. /\ Has(ops[e], {"create offer"})
      /\ Once(ops[e], {"create offer"}) => Once(ops'[e], {"create offer"}) /\ ~Has(ops'[e], {"create offer"})
  <2>1. Taken(ops[e], ops'[e], {"create offer"}, "create offer")
    BY <1>3
  <2> QED
    BY <2>1 DEF Taken
<1>7. /\ Has(chan'[e], {"offer"})
      /\ ~Has(chan[e], {"offer"}) => Once(chan'[e], {"offer"})
  BY <1>2 DEF News
<1>8. \A f \in Ends : Same(chan[f], chan'[f], {"answer"})
  BY <1>2
<1> USE DEF Offered, Making, Made, Away, Arrived, Prompting, Decided
<1> HIDE DEF o
<1>9. Silent'
  <2>1. ~Has(ops[e], {"remote offer", "create answer", "local answer"}) =>
          ~Has(ops'[e], {"remote offer", "create answer", "local answer"})
    BY <1>3
  <2> QED
    BY <1>0, <1>1, <1>2, <1>3, <1>5, <1>8, <2>1 DEF UInv, Silent, Same, o
<1>10. Trail'
  BY <1>0, <1>1, <1>2, <1>3, <1>6, <1>7 DEF UInv, Trail, o
<1>11. Prompted'
  BY <1>0, <1>1, <1>2, <1>3, <1>6, <1>7 DEF UInv, Prompted, o
<1>12. Unchanged'
  BY <1>1, <1>5 DEF Unchanged
<1>13. OneOffer'
  <2>1. CASE Offered(o)
    BY <1>0, <1>1, <1>5, <2>1 DEF OneOffer, o
  <2>2. CASE ~Offered(o)
    <3>1. Offerer(e) /\ Answerer(o) /\ Returned(o) /\ ~call[o].video
      BY <1>0, <1>5, <1>6, <2>2 DEF UInv, OneOffer, o
    <3>2. ops'[e] = <<y>> /\ sig[e] = "stable" /\ ~agreed[e] /\ ~call[e].video
      BY <1>1, <1>3, <3>1, OffererAt
    <3>3. Offerer(e)'
      BY <1>1, <1>2, <3>2 DEF Offerer
    <3>4. Answerer(o)' /\ Returned(o)'
      BY <1>0, <1>1, <1>2, <1>3, <3>1 DEF Answerer, Returned, Answered
    <3> QED
      BY <1>0, <1>1, <2>2, <3>1, <3>3, <3>4 DEF OneOffer, o
  <2> QED
    BY <2>1, <2>2
<1> QED
  BY <1>1, <1>4, <1>9, <1>10, <1>11, <1>12, <1>13, EngineKept

\* webrtcbin drops the wish for an answer without a remote offer.
LEMMA AnswerDropped ==
  ASSUME UInv, NEW e \in Ends, CreateAnswer(e), sig[e] # "have-remote-offer"
  PROVE  UInv'
<1> DEFINE o == Other(e)
<1>0. UTypeOK /\ o \in Ends /\ o # e /\ Other(o) = e /\ \A f \in Ends : f = e \/ f = o
  BY Two DEF UInv
<1>1. /\ ops[e] # <<>> /\ Head(ops[e]) = "create answer"
      /\ ops' = [ops EXCEPT ![e] = Rest(e)] /\ UNCHANGED <<sig, agreed, chan>>
      /\ UNCHANGED <<began, call, sent, sharing, pickers, wire, cmds, events, ui, presses, retold, past>>
  BY Worked DEF CreateAnswer
<1>2. ops' \in [Ends -> Seq(Operations)]
  <2>1. ops \in [Ends -> Seq(Operations)] /\ ops[e] \in Seq(Operations) /\ Rest(e) = Tail(ops[e])
    BY <1>0 DEF UTypeOK, Rest
  <2>2. Tail(ops[e]) \in Seq(Operations)
    <3>1. ops[e] # <<>>
      BY <1>1
    <3> QED
      BY <2>1, <3>1, TakeIs
  <2> QED
    BY <1>1, <2>1, <2>2
<1>3. UTypeOK'
  BY <1>0, <1>1, <1>2 DEF UTypeOK
<1>4. Offered(o)
  BY <1>1, WhoOffered
<1>5. Silent' /\ Trail' /\ Prompted' /\ Unchanged'
  BY <1>1, <1>3, Done
<1>6. Offered(e)
  <2> SUFFICES ASSUME ~Offered(e) PROVE FALSE
    OBVIOUS
  <2>1. Answerer(e)
    BY <1>0, <1>4 DEF UInv, OneOffer
  <2> QED
    BY <1>1, <2>1, AnswererAt
<1>7. OneOffer'
  BY <1>0, <1>1, <1>4, <1>6 DEF OneOffer, Offered
<1> QED
  BY <1>1, <1>3, <1>5, <1>7, EngineKept

LEMMA AnswerMade ==
  ASSUME UInv, NEW e \in Ends, CreateAnswer(e), sig[e] = "have-remote-offer"
  PROVE  UInv'
<1> DEFINE o == Other(e)
           y == "local answer"
<1>0. UTypeOK /\ o \in Ends /\ o # e /\ Other(o) = e /\ \A f \in Ends : f = e \/ f = o
  BY Two DEF UInv
<1>1. /\ ops[e] # <<>> /\ Head(ops[e]) = "create answer"
      /\ UNCHANGED <<began, call, sent, sharing, pickers, wire, cmds, events, ui, presses, retold, past>>
  BY Worked DEF CreateAnswer
<1>2. /\ chan' \in [Ends -> Seq({"offer", "answer", "connected"})]
      /\ \A f \in Ends : f # e => chan'[f] = chan[f]
      /\ \A S : "answer" \notin S => \A f \in Ends : Same(chan[f], chan'[f], S)
      /\ \A S : "answer" \in S => News(chan[e], chan'[e], S, "answer")
      /\ UNCHANGED <<sig, agreed>>
      /\ ops' = [ops EXCEPT ![e] = Append(Rest(e), y)]
  <2>1. Describe(e, "answer")
    BY DEF CreateAnswer
  <2> QED
    BY <2>1, DescriptionTold
<1>y. y \in Operations
  BY DEF Operations
<1>3. /\ ops' \in [Ends -> Seq(Operations)]
      /\ \A f \in Ends : f # e => ops'[f] = ops[f]
      /\ \A S : y \notin S /\ Has(ops'[e], S) => Has(ops[e], S)
      /\ \A S : y \notin S /\ "create answer" \notin S => Same(ops[e], ops'[e], S)
      /\ Tail(ops[e]) = <<>> => ops'[e] = <<y>>
  BY <1>1, <1>2, <1>y, Replaced
<1>4. UTypeOK'
  BY <1>0, <1>1, <1>2, <1>3 DEF UTypeOK
<1>5. Offered(o)
  BY <1>1, WhoOffered
<1>6. \A f \in Ends : Same(ops[f], ops'[f], {"create offer"})
  BY <1>0, <1>3, SameSelf
<1>7. \A f \in Ends : Same(chan[f], chan'[f], {"offer"})
  BY <1>2
<1>8. /\ Has(chan'[e], {"answer"})
      /\ ~Has(chan[e], {"answer"}) => Once(chan'[e], {"answer"})
  BY <1>2 DEF News
<1> USE DEF Offered, Making, Made, Away, Arrived, Prompting, Decided
<1> HIDE DEF o
<1>9. Silent'
  <2>1. ~Has(ops[e], {"local offer", "remote answer"}) => ~Has(ops'[e], {"local offer", "remote answer"})
    BY <1>3
  <2> QED
    BY <1>0, <1>1, <1>2, <1>3, <1>5, <1>6, <1>7, <2>1 DEF UInv, Silent, Same, o
<1>10. Trail'
  BY <1>0, <1>1, <1>6, <1>7 DEF UInv, Trail, Same, o
<1>11. Prompted'
  BY <1>0, <1>1, <1>6, <1>7 DEF UInv, Prompted, Same, o
<1>12. Unchanged'
  BY <1>0, <1>1, <1>5 DEF Unchanged
<1>13. OneOffer'
  <2>1. CASE Offered(e)
    BY <1>0, <1>1, <1>5, <2>1 DEF OneOffer, o
  <2>2. CASE ~Offered(e)
    <3>1. Offerer(o) /\ Answerer(e) /\ Returned(e) /\ (call[e].video => ~Making(o))
      BY <1>0, <1>5, <2>2 DEF UInv, OneOffer, o
    <3>2. /\ Tail(ops[e]) = <<>> /\ ops[e] # <<"local answer">> /\ ~agreed[e] /\ call[e].video
      BY <1>1, <3>1, AnswererAt
    <3>3. ops'[e] = <<"local answer">>
      BY <1>3, <3>2
    <3>4. Answerer(e)'
      BY <1>1, <1>2, <3>2, <3>3 DEF Answerer
    <3>5. ~Answered(e) /\ Answered(e)'
      BY <1>2, <3>2, <3>3 DEF Answered
    <3>6. Returned(e)'
      BY <1>0, <1>1, <1>8, <3>1, <3>5 DEF Returned, o
    <3>7. Offerer(o)' /\ ~Making(o)'
      BY <1>0, <1>1, <1>2, <1>3, <3>1, <3>2 DEF Offerer
    <3> QED
      BY <1>0, <1>1, <2>2, <3>4, <3>6, <3>7 DEF OneOffer, o
  <2> QED
    BY <2>1, <2>2
<1> QED
  BY <1>1, <1>4, <1>9, <1>10, <1>11, <1>12, <1>13, EngineKept

LEMMA EngineKeeps ==
  ASSUME UInv, NEW e \in Ends, Engine(e)
  PROVE  UInv'
BY CreateOfferKeeps, AnswerDropped, AnswerMade, DescribedKeeps DEF Engine

\* Connected again: the invariant has no eye for it in the channel.
LEMMA ReportKeeps ==
  ASSUME UInv, NEW e \in Ends, ReportConnected(e)
  PROVE  UInv'
<1> DEFINE Kinds == {"offer", "answer", "connected"}
<1>0. UTypeOK /\ chan \in [Ends -> Seq(Kinds)]
  BY DEF UInv, UTypeOK
<1>1. /\ UNCHANGED <<began, call, sig, agreed, ops, sent, sharing, pickers, wire, cmds, events, ui, presses, past>>
      /\ chan' = [chan EXCEPT ![e] = Append(@, "connected")]
  BY DEF ReportConnected, video, callScreen
<1>2. retold' \in 0..MaxRetold
  BY <1>0, UpgradeAssumption DEF UTypeOK, ReportConnected
<1>3. Appended(Kinds, chan, chan', e, "connected")
  BY <1>0, <1>1, PutQueue
<1>4. /\ chan' \in [Ends -> Seq(Kinds)]
      /\ \A f \in Ends : Same(chan[f], chan'[f], {"offer"}) /\ Same(chan[f], chan'[f], {"answer"})
  BY <1>3 DEF Appended
<1>5. UTypeOK'
  BY <1>0, <1>1, <1>2, <1>4 DEF UTypeOK
<1>6. SameTalk /\ SameButtons /\ SameKind /\ SameBranch
  BY <1>1, <1>4, SameSelf DEF SameTalk, SameButtons, SameKind, SameBranch
<1> QED
  BY <1>5, <1>6, TalkKept, ButtonsKept, KindKept, BranchKept DEF UInv

LEMMA PumpedIs ==
  ASSUME UInv, NEW e \in Ends, NEW ev, Pumped(e, ev)
  PROVE  /\ chan' \in [Ends -> Seq({"offer", "answer", "connected"})]
         /\ \A f \in Ends : f # e => chan'[f] = chan[f]
         /\ \A S : ev \notin S => \A f \in Ends : Same(chan[f], chan'[f], S)
         /\ \A S : ev \in S => Taken(chan[e], chan'[e], S, ev)
         /\ UNCHANGED <<began, call, sig, agreed, ops, sent, sharing, pickers, cmds, ui, presses, retold>>
<1>0. chan \in [Ends -> Seq({"offer", "answer", "connected"})]
  BY DEF UInv, UTypeOK
<1>1. /\ chan[e] # <<>> /\ Head(chan[e]) = ev /\ chan' = [chan EXCEPT ![e] = Tail(@)]
  BY DEF Pumped
<1>2. Shortened({"offer", "answer", "connected"}, chan, chan', e)
  BY <1>0, <1>1, TakeQueue
<1>3. UNCHANGED <<began, call, sig, agreed, ops, sent, sharing, pickers, cmds, ui, presses, retold>>
  BY DEF Pumped, video, counts
<1> QED
  BY <1>1, <1>2, <1>3 DEF Shortened

\* Only the wire and the engine's channel have moved.
LEMMA WireKept ==
  ASSUME UInv, UTypeOK', UNCHANGED <<began, call, sig, agreed, ops, sent, sharing, pickers, cmds, events, ui, past>>,
         Silent', Trail', Prompted', OneOffer'
  PROVE  UInv'
<1>1. SameButtons /\ SameKind /\ SameBranch
  BY SameSelf DEF SameButtons, SameKind, SameBranch
<1>2. Unchanged'
  BY DEF UInv, Unchanged, Offered
<1> QED
  BY <1>1, <1>2, ButtonsKept, KindKept, BranchKept DEF UInv

LEMMA OfferSent ==
  ASSUME UInv, NEW e \in Ends, Pumped(e, "offer"),
         wire' = [wire EXCEPT ![Other(e)] = @ \cup {"content-add"}], UNCHANGED <<events, past>>
  PROVE  UInv'
<1> DEFINE o == Other(e)
<1>0. UTypeOK /\ o \in Ends /\ o # e /\ Other(o) = e /\ \A f \in Ends : f = e \/ f = o
  BY Two DEF UInv
<1>1. /\ chan' \in [Ends -> Seq({"offer", "answer", "connected"})]
      /\ \A f \in Ends : f # e => chan'[f] = chan[f]
      /\ \A S : "offer" \notin S => \A f \in Ends : Same(chan[f], chan'[f], S)
      /\ \A S : "offer" \in S => Taken(chan[e], chan'[e], S, "offer")
      /\ UNCHANGED <<began, call, sig, agreed, ops, sent, sharing, pickers, cmds, ui, presses, retold>>
  BY PumpedIs
<1>2. /\ wire' \in [Ends -> SUBSET Stanzas]
      /\ "content-add" \in wire'[o] /\ ("content-accept" \in wire'[o] <=> "content-accept" \in wire[o])
      /\ \A f \in Ends : f # o => wire'[f] = wire[f]
  BY <1>0 DEF UTypeOK, Stanzas
<1>3. UTypeOK'
  BY <1>0, <1>1, <1>2 DEF UTypeOK
<1>4. /\ Has(chan[e], {"offer"})
      /\ Once(chan[e], {"offer"}) => Once(chan'[e], {"offer"}) /\ ~Has(chan'[e], {"offer"})
  BY <1>1 DEF Taken
<1>5. \A f \in Ends : Same(chan[f], chan'[f], {"answer"})
  BY <1>1
<1> USE DEF Offered, Making, Made, Away, Arrived, Prompting, Decided
<1>6. Offered(e)
  BY <1>4 DEF UInv, Silent
<1> HIDE DEF o
<1>s. UNCHANGED <<call, sig, ops, cmds, ui, events, past>>
  BY <1>1
<1>w. /\ Offered(e)' /\ wire'[e] = wire[e] /\ chan'[o] = chan[o]
      /\ Has(chan'[e], {"answer"}) <=> Has(chan[e], {"answer"})
      /\ "content-add" \in wire'[o] /\ ("content-accept" \in wire'[o] <=> "content-accept" \in wire[o])
      /\ Has(chan[e], {"offer"}) /\ e \in Ends
  BY <1>0, <1>1, <1>2, <1>4, <1>5, <1>6 DEF Same
<1>7. Silent'
  BY <1>0, <1>s, <1>w DEF UInv, Silent, o
<1>8. Trail'
  BY <1>0, <1>1, <1>2, <1>4 DEF UInv, Trail, o
<1>9. Prompted'
  <2>1. \A f \in Ends : Making(f)' \/ Made(f)' \/ Away(f)' => Making(f) \/ Made(f) \/ Away(f)
    BY <1>0, <1>s, <1>w DEF o
  <2> QED
    BY <1>s, <2>1 DEF UInv, Prompted
<1>10. OneOffer'
  <2>1. CASE Offered(o)
    BY <1>0, <1>6, <2>1 DEF OneOffer, o
  <2>2. CASE ~Offered(o)
    <3>1. Offerer(e) /\ Answerer(o) /\ Returned(o) /\ (call[o].video => ~Making(e))
      BY <1>0, <1>6, <2>2 DEF UInv, OneOffer, o
    <3>2. Offerer(e)' /\ Answerer(o)' /\ Returned(o)'
      BY <1>0, <1>1, <1>2, <3>1 DEF Offerer, Answerer, Returned, Answered
    <3> QED
      BY <1>0, <1>1, <2>2, <3>1, <3>2 DEF OneOffer, o
  <2> QED
    BY <2>1, <2>2
<1> QED
  BY <1>1, <1>3, <1>7, <1>8, <1>9, <1>10, WireKept

LEMMA AnswerSent ==
  ASSUME UInv, NEW e \in Ends, Pumped(e, "answer"),
         wire' = [wire EXCEPT ![Other(e)] = @ \cup {"content-accept"}], UNCHANGED <<events, past>>
  PROVE  UInv'
<1> DEFINE o == Other(e)
<1>0. UTypeOK /\ o \in Ends /\ o # e /\ Other(o) = e /\ \A f \in Ends : f = e \/ f = o
  BY Two DEF UInv
<1>1. /\ chan' \in [Ends -> Seq({"offer", "answer", "connected"})]
      /\ \A f \in Ends : f # e => chan'[f] = chan[f]
      /\ \A S : "answer" \notin S => \A f \in Ends : Same(chan[f], chan'[f], S)
      /\ \A S : "answer" \in S => Taken(chan[e], chan'[e], S, "answer")
      /\ UNCHANGED <<began, call, sig, agreed, ops, sent, sharing, pickers, cmds, ui, presses, retold>>
  BY PumpedIs
<1>2. /\ wire' \in [Ends -> SUBSET Stanzas]
      /\ "content-accept" \in wire'[o] /\ ("content-add" \in wire'[o] <=> "content-add" \in wire[o])
      /\ \A f \in Ends : f # o => wire'[f] = wire[f]
  BY <1>0 DEF UTypeOK, Stanzas
<1>3. UTypeOK'
  BY <1>0, <1>1, <1>2 DEF UTypeOK
<1>4. /\ Has(chan[e], {"answer"})
      /\ Once(chan[e], {"answer"}) => Once(chan'[e], {"answer"}) /\ ~Has(chan'[e], {"answer"})
  BY <1>1 DEF Taken
<1>5. \A f \in Ends : Same(chan[f], chan'[f], {"offer"})
  BY <1>1
<1> USE DEF Offered, Making, Made, Away, Arrived, Prompting, Decided
<1>6. Offered(o)
  BY <1>0, <1>4 DEF UInv, Silent
<1> HIDE DEF o
<1>7. Silent'
  BY <1>0, <1>1, <1>2, <1>5, <1>6 DEF UInv, Silent, Same, o
<1>8. Trail'
  BY <1>0, <1>1, <1>2, <1>5 DEF UInv, Trail, Same, o
<1>9. Prompted'
  BY <1>0, <1>1, <1>2, <1>5 DEF UInv, Prompted, Same, o
<1>10. OneOffer'
  <2>1. CASE Offered(e)
    BY <1>0, <1>6, <2>1 DEF OneOffer, o
  <2>2. CASE ~Offered(e)
    <3>1. Offerer(o) /\ Answerer(e) /\ Returned(e) /\ (call[e].video => ~Making(o))
      BY <1>0, <1>6, <2>2 DEF UInv, OneOffer, o
    <3>2. Offerer(o)' /\ Answerer(e)'
      BY <1>0, <1>1, <3>1 DEF Offerer, Answerer
    <3>3. Returned(e)'
      BY <1>0, <1>1, <1>2, <1>4, <3>1 DEF Returned, Answered, o
    <3> QED
      BY <1>0, <1>1, <2>2, <3>1, <3>2, <3>3 DEF OneOffer, o
  <2> QED
    BY <2>1, <2>2
<1> QED
  BY <1>1, <1>3, <1>7, <1>8, <1>9, <1>10, WireKept

LEMMA DescriptionKeeps ==
  ASSUME UInv, NEW e \in Ends, PumpDescription(e)
  PROVE  UInv'
BY OfferSent, AnswerSent DEF PumpDescription

LEMMA RetoldKeeps ==
  ASSUME UInv, NEW e \in Ends, PumpRetold(e)
  PROVE  UInv'
<1> DEFINE event == IF began THEN "active video" ELSE "active audio"
<1>0. UTypeOK /\ event \in Events /\ event \notin Shares /\ event # "request"
  BY WordsAre DEF UInv
<1>1. /\ chan' \in [Ends -> Seq({"offer", "answer", "connected"})]
      /\ \A S : "connected" \notin S => \A f \in Ends : Same(chan[f], chan'[f], S)
      /\ UNCHANGED <<began, call, sig, agreed, ops, sent, sharing, pickers, cmds, ui, presses, retold>>
      /\ UNCHANGED wire
  BY PumpedIs DEF PumpRetold
<1>2. Emit(e, event) /\ past' = [past EXCEPT ![e] = @ \cup {"retold"}]
  BY DEF PumpRetold, Note
<1> HIDE DEF event
<1>3. /\ events' \in [Ends -> Seq(Events)]
      /\ \A f \in Ends : f # e => events'[f] = events[f]
      /\ \A S : event \notin S => \A f \in Ends : Same(events[f], events'[f], S)
  BY <1>0, <1>2, Emitted
<1>4. /\ past' \in [Ends -> SUBSET Marks]
      /\ past'[e] = past[e] \cup {"retold"} /\ \A f \in Ends : f # e => past'[f] = past[f]
  BY <1>0, <1>2 DEF UTypeOK, Marks
<1>m. \A f \in Ends : \A m \in {"offered", "exposed", "covered", "unsaid"} : m \in past'[f] <=> m \in past[f]
  BY <1>4
<1>5. UTypeOK'
  BY <1>0, <1>1, <1>3, <1>4 DEF UTypeOK
<1>6. \A f \in Ends : /\ Same(chan[f], chan'[f], {"offer"}) /\ Same(chan[f], chan'[f], {"answer"})
                      /\ Same(events[f], events'[f], Shares) /\ Same(events[f], events'[f], {"request"})
  BY <1>0, <1>1, <1>3
<1>7. SameTalk /\ SameButtons
  BY <1>1, <1>m, <1>6, SameSelf DEF SameTalk, SameButtons
<1>8. Branched'
  <2>1. CASE began
    BY <1>1, <2>1 DEF UInv, Branched
  <2>2. CASE ~began
    <3>1. \A f \in Ends : Same(events[f], events'[f], {"active video"})
      BY <1>3, <2>2 DEF event
    <3> QED
      BY <1>1, <1>m, <3>1 DEF UInv, Branched, Offered, Same
  <2> QED
    BY <2>1, <2>2
<1>9. KindSound'
  BY <1>1, <1>3, <1>4 DEF UInv, KindSound
<1> QED
  BY <1>5, <1>7, <1>8, <1>9, TalkKept, ButtonsKept DEF UInv

-----------------------------------------------------------------------------
(* The other end's stanzas.                                                  *)

LEMMA Handled ==
  ASSUME UInv, NEW e \in Ends, NEW stanza, Handle(e, stanza)
  PROVE  /\ stanza \in wire[e] /\ wire' \in [Ends -> SUBSET Stanzas]
         /\ \A w : w \in wire'[e] <=> w \in wire[e] /\ w # stanza
         /\ \A f \in Ends : f # e => wire'[f] = wire[f]
         /\ UNCHANGED <<began, sig, agreed, chan, sent, sharing, pickers, cmds, ui, presses, retold, past>>
<1>0. wire \in [Ends -> SUBSET Stanzas]
  BY DEF UInv, UTypeOK
<1>1. stanza \in wire[e] /\ wire' = [wire EXCEPT ![e] = @ \ {stanza}]
  BY DEF Handle
<1>2. UNCHANGED <<began, sig, agreed, chan, sent, sharing, pickers, cmds, ui, presses, retold, past>>
  BY DEF Handle, video, counts
<1>3. /\ wire'[e] = wire[e] \ {stanza} /\ \A f \in Ends : f # e => wire'[f] = wire[f]
      /\ wire' \in [Ends -> SUBSET Stanzas]
  BY <1>0, <1>1
<1> QED
  BY <1>1, <1>2, <1>3

LEMMA RejectKeeps ==
  ASSUME UInv, NEW e \in Ends, ContentReject(e)
  PROVE  UInv'
<1>1. /\ wire' \in [Ends -> SUBSET Stanzas]
      /\ \A w : w \in wire'[e] <=> w \in wire[e] /\ w # "content-reject"
      /\ \A f \in Ends : f # e => wire'[f] = wire[f]
      /\ UNCHANGED <<began, sig, agreed, chan, sent, sharing, pickers, cmds, ui, presses, retold, past>>
      /\ UNCHANGED <<call, ops, events>>
  BY Handled DEF ContentReject
<1>2. UTypeOK'
  BY <1>1 DEF UInv, UTypeOK
<1>3. \A f \in Ends : \A w \in {"content-add", "content-accept"} : w \in wire'[f] <=> w \in wire[f]
  BY <1>1
<1> USE DEF Offered, Making, Made, Away, Arrived, Prompting, Decided
<1>4. Silent'
  BY <1>1, <1>3, Two DEF UInv, Silent
<1>5. Trail'
  BY <1>1, <1>3, Two DEF UInv, Trail
<1>6. Prompted'
  BY <1>1, <1>3, Two DEF UInv, Prompted
<1>7. OneOffer'
  BY <1>1, <1>3, DealKept DEF SameDeal
<1> QED
  BY <1>1, <1>2, <1>4, <1>5, <1>6, <1>7, WireKept

\* In a video call the other's offer is dropped.
LEMMA AddDropped ==
  ASSUME UInv, NEW e \in Ends, Handle(e, "content-add"), UNCHANGED <<call, events, ops>>
  PROVE  UInv'
<1>1. /\ wire' \in [Ends -> SUBSET Stanzas]
      /\ \A w : w \in wire'[e] <=> w \in wire[e] /\ w # "content-add"
      /\ \A f \in Ends : f # e => wire'[f] = wire[f]
      /\ UNCHANGED <<began, sig, agreed, chan, sent, sharing, pickers, cmds, ui, presses, retold, past>>
  BY Handled
<1>2. UTypeOK'
  BY <1>1 DEF UInv, UTypeOK
<1>3. \A f \in Ends : /\ "content-accept" \in wire'[f] <=> "content-accept" \in wire[f]
                      /\ "content-add" \in wire'[f] => "content-add" \in wire[f]
  BY <1>1
<1> USE DEF Offered, Making, Made, Away, Arrived, Prompting, Decided
<1>4. Silent'
  BY <1>1, <1>3, Two DEF UInv, Silent
<1>5. Trail'
  BY <1>1, <1>3, Two DEF UInv, Trail
<1>6. Prompted'
  BY <1>1, <1>3, Two DEF UInv, Prompted
<1>7. OneOffer'
  BY <1>1, <1>3, DealKept DEF SameDeal
<1> QED
  BY <1>1, <1>2, <1>4, <1>5, <1>6, <1>7, WireKept

LEMMA AddTaken ==
  ASSUME UInv, NEW e \in Ends, Handle(e, "content-add"), call' = [call EXCEPT ![e].pending = TRUE],
         Emit(e, "request"), UNCHANGED ops
  PROVE  UInv'
<1> DEFINE o == Other(e)
<1>0. UTypeOK /\ o \in Ends /\ o # e /\ Other(o) = e /\ \A f \in Ends : f = e \/ f = o
  BY Two DEF UInv
<1>1. /\ wire' \in [Ends -> SUBSET Stanzas] /\ "content-add" \in wire[e]
      /\ \A w : w \in wire'[e] <=> w \in wire[e] /\ w # "content-add"
      /\ \A f \in Ends : f # e => wire'[f] = wire[f]
      /\ UNCHANGED <<began, sig, agreed, chan, sent, sharing, pickers, cmds, ui, presses, retold, past>>
  BY Handled
<1>2. /\ call' \in [Ends -> [video : BOOLEAN, pending : BOOLEAN]]
      /\ call'[e].pending
      /\ \A f \in Ends : call'[f].video = call[f].video
      /\ \A f \in Ends : f # e => call'[f].pending = call[f].pending
  <2>1. call \in [Ends -> [video : BOOLEAN, pending : BOOLEAN]]
    BY <1>0 DEF UTypeOK
  <2> QED
    BY <2>1, PendingIs
<1>3. /\ events' \in [Ends -> Seq(Events)]
      /\ \A f \in Ends : f # e => events'[f] = events[f]
      /\ \A S : "request" \notin S => \A f \in Ends : Same(events[f], events'[f], S)
      /\ \A S : "request" \in S => News(events[e], events'[e], S, "request")
  BY Emitted, WordsAre
<1>4. UTypeOK'
  BY <1>0, <1>1, <1>2, <1>3 DEF UTypeOK
<1>5. \A f \in Ends : /\ Same(events[f], events'[f], {"active video"}) /\ Same(events[f], events'[f], Shares)
                      /\ Same(events[f], events'[f], {"active audio"})
  BY <1>3, WordsAre
<1>6. SameButtons /\ SameKind /\ SameBranch
  BY <1>1, <1>2, <1>5, SameSelf DEF SameButtons, SameKind, SameBranch
<1>7. /\ Has(events'[e], {"request"})
      /\ ~Has(events[e], {"request"}) => Once(events'[e], {"request"})
  BY <1>3 DEF News
<1> USE DEF Offered, Making, Made, Away, Arrived, Prompting, Decided
<1>8. Offered(o) /\ Away(o)
  BY <1>0, <1>1 DEF UInv, Silent
<1> HIDE DEF o
<1>9. "content-add" \notin wire'[e] /\ \A f \in Ends : "content-accept" \in wire'[f] <=> "content-accept" \in wire[f]
  BY <1>1
<1>s. UNCHANGED <<sig, agreed, ops, chan, cmds, ui, past>>
  BY <1>1
<1>t. /\ wire'[o] = wire[o] /\ events'[o] = events[o] /\ call'[o].pending = call[o].pending
      /\ call'[e].pending /\ e \in Ends
  BY <1>0, <1>1, <1>2, <1>3
<1>10. Silent'
  BY <1>0, <1>s, <1>t, <1>8, <1>9 DEF UInv, Silent, o
<1>11. Trail'
  BY <1>0, <1>s, <1>t, <1>7, <1>8, <1>9 DEF UInv, Trail, o
<1>12. Prompted'
  BY <1>0, <1>s, <1>t, <1>2, <1>7, <1>8, <1>9 DEF UInv, Trail, Prompted, o
<1>13. Unchanged'
  BY <1>0, <1>s, <1>8 DEF Unchanged
<1>14. OneOffer'
  <2>1. CASE Offered(e)
    BY <1>0, <1>s, <1>8, <2>1 DEF OneOffer, o
  <2>2. CASE ~Offered(e)
    <3>1. Offerer(o) /\ Answerer(e) /\ Returned(e) /\ (call[e].video => ~Making(o))
      BY <1>0, <1>8, <2>2 DEF UInv, OneOffer, o
    <3>2. Offerer(o)' /\ Answerer(e)' /\ Returned(e)'
      BY <1>0, <1>s, <1>2, <1>9, <3>1 DEF Offerer, Answerer, Returned, Answered, o
    <3>3. call'[e].video => ~Making(o)'
      BY <1>0, <1>s, <1>2, <3>1
    <3>4. \A f \in Ends : Offered(f)' /\ ~Offered(Other(f))' => f = o /\ Other(f) = e
      BY <1>0, <1>s, <2>2 DEF o
    <3> QED
      BY <1>0, <3>2, <3>3, <3>4 DEF OneOffer
  <2> QED
    BY <2>1, <2>2
<1> QED
  BY <1>4, <1>6, <1>10, <1>11, <1>12, <1>13, <1>14, ButtonsKept, KindKept, BranchKept DEF UInv

LEMMA AddKeeps ==
  ASSUME UInv, NEW e \in Ends, ContentAdd(e)
  PROVE  UInv'
BY AddDropped, AddTaken DEF ContentAdd

LEMMA AcceptedKeeps ==
  ASSUME UInv, NEW e \in Ends, ContentAccept(e)
  PROVE  UInv'
<1> DEFINE o == Other(e)
           x == "remote answer"
<1>0. UTypeOK /\ o \in Ends /\ o # e /\ Other(o) = e /\ \A f \in Ends : f = e \/ f = o
  BY Two DEF UInv
<1>1. /\ wire' \in [Ends -> SUBSET Stanzas] /\ "content-accept" \in wire[e]
      /\ \A w : w \in wire'[e] <=> w \in wire[e] /\ w # "content-accept"
      /\ \A f \in Ends : f # e => wire'[f] = wire[f]
      /\ UNCHANGED <<began, sig, agreed, chan, sent, sharing, pickers, cmds, ui, presses, retold, past>>
  BY Handled DEF ContentAccept
<1>c. call' = [call EXCEPT ![e].video = TRUE]
  BY DEF ContentAccept
<1>2. /\ call' \in [Ends -> [video : BOOLEAN, pending : BOOLEAN]]
      /\ call'[e].video
      /\ \A f \in Ends : call'[f].pending = call[f].pending
      /\ \A f \in Ends : f # e => call'[f].video = call[f].video
  BY <1>0, <1>c DEF UTypeOK
<1>3. /\ events' \in [Ends -> Seq(Events)]
      /\ \A f \in Ends : f # e => events'[f] = events[f]
      /\ \A S : "active video" \notin S => \A f \in Ends : Same(events[f], events'[f], S)
      /\ \A S : "active video" \in S => News(events[e], events'[e], S, "active video")
  BY Emitted, WordsAre DEF ContentAccept
<1>4. /\ Appended(Operations, ops, ops', e, x) /\ ops'[e] = Append(ops[e], x)
      /\ ops' \in [Ends -> Seq(Operations)]
      /\ \A f \in Ends : f # e => ops'[f] = ops[f]
      /\ \A S : x \notin S => \A f \in Ends : Same(ops[f], ops'[f], S)
  <2>1. ops \in [Ends -> Seq(Operations)] /\ x \in Operations
    BY <1>0 DEF UTypeOK, Operations
  <2>2. Ask(e, <<x>>)
    BY DEF ContentAccept
  <2>3. Appended(Operations, ops, ops', e, x) /\ ops'[e] = Append(ops[e], x)
    BY <2>1, <2>2, AskOne
  <2> QED
    BY <2>3 DEF Appended
<1>5. UTypeOK'
  BY <1>0, <1>1, <1>2, <1>3, <1>4 DEF UTypeOK
<1>6. \A f \in Ends : /\ Same(events[f], events'[f], {"request"}) /\ Same(events[f], events'[f], Shares)
                      /\ Same(events[f], events'[f], {"active audio"})
  BY <1>3, WordsAre
<1>7. SameButtons
  BY <1>1, <1>6, SameSelf DEF SameButtons
<1>8. Has(events'[e], {"active video"})
  BY <1>3 DEF News
<1>9. /\ \A f \in Ends : Same(ops[f], ops'[f], {"create offer"})
      /\ \A f \in Ends : Same(ops[f], ops'[f], {"remote offer", "create answer", "local answer"})
  BY <1>4
<1> USE DEF Offered, Making, Made, Away, Arrived, Prompting, Decided
<1>10. Offered(e)
  BY <1>1 DEF UInv, Silent
<1> HIDE DEF o
<1>s. UNCHANGED <<began, sig, agreed, chan, cmds, ui, past, sent, sharing>> /\ e \in Ends
  BY <1>1
<1>t. /\ wire'[o] = wire[o] /\ "content-accept" \notin wire'[e]
      /\ "content-add" \in wire'[e] <=> "content-add" \in wire[e]
  BY <1>0, <1>1
<1>11. Branched'
  BY <1>s, <1>0, <1>2, <1>3, <1>10 DEF UInv, Branched
<1>12. KindSound'
  BY <1>s, <1>2, <1>3, <1>6, <1>8 DEF UInv, KindSound, Same
<1>13. Silent'
  <2> SUFFICES ASSUME ~Offered(o)
               PROVE  /\ ~Making(o)' /\ ~Made(o)' /\ ~Away(o)' /\ ~Arrived(o)' /\ ~Prompting(o)' /\ ~Decided(o)'
                      /\ ~Has(ops'[o], {"local offer", "remote answer"}) /\ sig[o] # "have-local-offer"
                      /\ ~call'[e].pending /\ sig[e] # "have-remote-offer"
                      /\ ~Has(ops'[e], {"remote offer", "create answer", "local answer"})
                      /\ ~Has(chan[e], {"answer"}) /\ "content-accept" \notin wire'[o]
    <3>1. \A f \in Ends : ~Offered(f)' => f = o /\ Other(f) = e /\ ~Offered(o)
      BY <1>0, <1>s, <1>10
    <3> QED
      BY <1>0, <1>s, <3>1 DEF Silent
  <2>1. /\ ~Making(o) /\ ~Made(o) /\ ~Away(o) /\ ~Arrived(o) /\ ~Prompting(o) /\ ~Decided(o)
        /\ ~Has(ops[o], {"local offer", "remote answer"}) /\ sig[o] # "have-local-offer"
        /\ ~call[e].pending /\ sig[e] # "have-remote-offer"
        /\ ~Has(ops[e], {"remote offer", "create answer", "local answer"})
        /\ ~Has(chan[e], {"answer"}) /\ "content-accept" \notin wire[o]
    BY <1>0 DEF UInv, Silent
  <2>2. ~Has(ops'[e], {"remote offer", "create answer", "local answer"}) /\ ~Arrived(o)'
    BY <1>0, <1>6, <1>9, <2>1 DEF Same
  <2> QED
    BY <1>0, <1>s, <1>t, <1>2, <1>4, <2>1, <2>2
<1>14. Trail'
  <2>1. \A f \in Ends : Away(f)' <=> Away(f)
    BY <1>0, <1>t DEF o
  <2>2. \A f \in Ends : /\ Making(f)' <=> Making(f)
                        /\ Once(ops[f], {"create offer"}) => Once(ops'[f], {"create offer"})
    BY <1>9 DEF Same
  <2>3. \A f \in Ends : /\ Arrived(f)' <=> Arrived(f)
                        /\ Once(events[f], {"request"}) => Once(events'[f], {"request"})
    BY <1>6, Two DEF Same
  <2> QED
    BY <1>s, <2>1, <2>2, <2>3 DEF UInv, Trail
<1>15. Prompted'
  <2>1. \A f \in Ends : Away(f)' <=> Away(f)
    BY <1>0, <1>t DEF o
  <2>2. \A f \in Ends : call[f].video => call'[f].video
    BY <1>2
  <2> QED
    BY <1>0, <1>s, <1>2, <2>1, <2>2, <1>6, <1>9, Two DEF UInv, Prompted, Same
<1>16. Unchanged'
  BY <1>s, <1>10 DEF Unchanged
<1>17. OneOffer'
  <2>1. CASE Offered(o)
    BY <1>0, <1>s, <1>10, <2>1 DEF OneOffer, o
  <2>2. CASE ~Offered(o)
    <3>1. Offerer(e) /\ Answerer(o) /\ Returned(o) /\ (call[o].video => ~Making(e))
      BY <1>0, <1>10, <2>2 DEF UInv, OneOffer, o
    <3>2. /\ Answered(o) /\ ~call[e].video
          /\ ~Has(chan[o], {"answer"})
      BY <1>0, <1>1, <3>1 DEF Returned
    <3>3. call[o].video
      <4>1. <<"remote offer", "create answer">> # <<"local answer">> /\ <<"create answer">> # <<"local answer">>
            /\ <<>> # <<"local answer">>
        BY TuplesAre, ("create answer" # "local answer") DEF Operations
      <4> QED
        BY <3>1, <3>2, <4>1 DEF Answerer, Answered
    <3>4. ops[e] # <<"create offer">>
      <4>1. Has(<<"create offer">>, {"create offer"})
        <5>1. 1 \in DOMAIN <<"create offer">> /\ <<"create offer">>[1] = "create offer"
          OBVIOUS
        <5> QED
          BY <5>1 DEF Has
      <4> QED
        BY <3>1, <3>3, <4>1
    <3>5. /\ ~agreed[e]
          /\ \/ ops[e] = <<"local offer">> /\ sig[e] = "stable"
             \/ ops[e] = <<>> /\ sig[e] = "have-local-offer"
      BY <3>1, <3>2, <3>4 DEF Offerer
    <3>6. Append(<<>>, x) = <<x>> /\ Append(<<"local offer">>, x) = <<"local offer", x>>
      BY TuplesAre DEF Operations
    <3>7. Offerer(e)'
      BY <1>s, <1>2, <1>4, <3>5, <3>6 DEF Offerer
    <3>8. Answerer(o)' /\ (Answered(o)' <=> Answered(o))
      BY <1>0, <1>s, <1>2, <1>4, <3>1 DEF Answerer, Answered
    <3>9. Returned(o)'
      BY <1>0, <1>s, <1>t, <1>2, <3>1, <3>2, <3>8 DEF Returned
    <3>10. call'[o].video => ~Making(e)'
      BY <1>9, <3>1, <3>3 DEF Same
    <3> QED
      BY <1>0, <1>s, <2>2, <3>7, <3>8, <3>9, <3>10 DEF OneOffer, o
  <2> QED
    BY <2>1, <2>2
<1> QED
  BY <1>5, <1>7, <1>11, <1>12, <1>13, <1>14, <1>15, <1>16, <1>17, ButtonsKept DEF UInv

-----------------------------------------------------------------------------
(* The theorems.                                                             *)

LEMMA UpgradeStart ==
  ASSUME UInit
  PROVE  UInv
<1> USE DEF UInit
<1>1. UTypeOK
  BY UpgradeAssumption DEF UTypeOK
<1>2. /\ \A e \in Ends : ops[e] = <<>> /\ chan[e] = <<>> /\ cmds[e] = <<>> /\ events[e] = <<>>
      /\ \A e \in Ends : past[e] = {} /\ wire[e] = {} /\ ~ui[e].request /\ ~call[e].pending
      /\ \A e \in Ends : sig[e] = "stable" /\ ~sharing[e] /\ ui[e].camera /\ ~ui[e].sharing
      /\ \A e \in Ends : call[e].video = began /\ ui[e].video = began /\ agreed[e] = began
      /\ \A e \in Ends : sent[e] = "none" <=> ~began
  BY DEF UInit
<1> USE DEF Offered, Making, Made, Away, Arrived, Prompting, Decided
<1>3. Branched
  BY <1>2, EmptyIs DEF Branched
<1>4. Silent
  BY <1>2, EmptyIs, Two DEF Silent
<1>5. Trail
  BY <1>2, EmptyIs, Two DEF Trail
<1>6. Prompted
  BY <1>2, EmptyIs, Two DEF Prompted
<1>7. KindSound /\ CameraSound /\ ShareSound
  BY <1>2, EmptyIs DEF KindSound, CameraSound, ShareSound
<1>8. Unchanged /\ OneOffer
  BY <1>2 DEF Unchanged, OneOffer
<1> QED
  BY <1>1, <1>3, <1>4, <1>5, <1>6, <1>7, <1>8 DEF UInv

LEMMA UpgradeStep ==
  ASSUME UInv, [UNext]_upgradeVars
  PROVE  UInv'
<1>1. CASE UNCHANGED upgradeVars
  <2>1. UNCHANGED <<began, call, sig, agreed, ops, chan, sent, sharing, wire, pickers>>
    BY <1>1 DEF upgradeVars
  <2>2. UNCHANGED <<cmds, events, ui, presses, retold, past>>
    BY <1>1 DEF upgradeVars
  <2>3. UTypeOK'
    BY <2>1, <2>2 DEF UInv, UTypeOK
  <2>4. SameTalk /\ SameButtons /\ SameKind /\ SameBranch
    BY <2>1, <2>2, SameSelf DEF SameTalk, SameButtons, SameKind, SameBranch
  <2> QED
    BY <2>3, <2>4, TalkKept, ButtonsKept, KindKept, BranchKept DEF UInv
<1>2. CASE UNext
  <2> PICK e \in Ends : User(e) \/ Show(e) \/ Engine(e) \/ ReportConnected(e) \/ Core(e)
    BY <1>2 DEF UNext
  <2>1. CASE User(e)
    BY <2>1, UpgradePressed, AnswerPressed, CameraPressed, SharePressed, StartKeeps, CancelKeeps DEF User
  <2>2. CASE Show(e)
    BY <2>2, ShowKeeps
  <2>3. CASE Engine(e)
    BY <2>3, EngineKeeps
  <2>4. CASE ReportConnected(e)
    BY <2>4, ReportKeeps
  <2>5. CASE Core(e)
    BY <2>5, UpgradeKeeps, AcceptKeeps, DeclineKeeps, CameraKeeps, PickerKeeps, StopKeeps,
       DescriptionKeeps, RetoldKeeps, AddKeeps, AcceptedKeeps, RejectKeeps DEF Core
  <2> QED
    BY <2>1, <2>2, <2>3, <2>4, <2>5
<1> QED
  BY <1>1, <1>2

\* The inductive invariant of a call's upgrade.
THEOREM UpgradeInductive == USpec => []UInv
<1>1. UInit => UInv
  BY UpgradeStart
<1>2. UInv /\ [UNext]_upgradeVars => UInv'
  BY UpgradeStep
<1> QED
  BY <1>1, <1>2, PTL DEF USpec

\* The queues, the engines' states and the screens stay in their types.
THEOREM UpgradeTypes == USpec => []UTypeOK
<1>1. UInv => UTypeOK
  BY DEF UInv
<1> QED
  BY <1>1, UpgradeInductive, PTL

\* Nothing of an offer is left at rest, so an end that answers is done or was never asked.
LEMMA AgreedAtRest ==
  ASSUME UInv
  PROVE  VideoAgrees
<1> SUFFICES ASSUME Quiet, ~Glare
             PROVE  /\ \A e \in Ends : call[e].video = call[Other(e)].video
                    /\ \A e \in Ends : call[e].video => agreed[e] /\ sig[e] = "stable"
  BY DEF VideoAgrees
<1>1. CASE \A e \in Ends : ~Offered(e)
  <2>1. \A e \in Ends : call[e].video = began /\ agreed[e] = began
    BY <1>1 DEF UInv, Unchanged
  <2>2. \A e \in Ends : sig[e] # "have-local-offer" /\ sig[Other(e)] # "have-remote-offer"
    BY <1>1 DEF UInv, Silent
  <2>3. \A e \in Ends : sig[e] = "stable"
    <3>1. \A e \in Ends : sig[e] \in {"stable", "have-local-offer", "have-remote-offer"}
      BY DEF UInv, UTypeOK
    <3>2. \A e \in Ends : sig[e] # "have-remote-offer"
      BY <2>2, Two
    <3> QED
      BY <2>2, <3>1, <3>2
  <2> QED
    BY <2>1, <2>3, Two DEF UInv, UTypeOK
<1>2. ASSUME NEW e \in Ends, Offered(e)
      PROVE  /\ \A f \in Ends : call[f].video = call[Other(f)].video
             /\ \A f \in Ends : call[f].video => agreed[f] /\ sig[f] = "stable"
  <2> DEFINE o == Other(e)
  <2>0. o \in Ends /\ o # e /\ Other(o) = e /\ \A f \in Ends : f = e \/ f = o
    BY Two
  <2>1. ~Offered(o)
    BY <1>2, <2>0 DEF Glare, Offered
  <2>2. Offerer(e) /\ Answerer(o) /\ Returned(o)
    BY <1>2, <2>0, <2>1 DEF UInv, OneOffer
  <2>3. /\ ops[e] = <<>> /\ ops[o] = <<>> /\ wire[e] = {} /\ ~Has(chan[o], {"answer"})
    BY <2>0, EmptyIs DEF Quiet
  <2>4. \A x, y \in Operations : <<>> # <<x>> /\ <<>> # <<x, y>>
    BY TuplesAre
  <2>5. /\ <<>> # <<"create offer">> /\ <<>> # <<"local offer">> /\ <<>> # <<"remote answer">>
        /\ <<>> # <<"local offer", "remote answer">> /\ <<>> # <<"remote offer", "create answer">>
        /\ <<>> # <<"create answer">> /\ <<>> # <<"local answer">>
    BY <2>4 DEF Operations
  <2>6. \/ sig[o] = "stable" /\ agreed[o] /\ call[o].video
        \/ sig[o] = "stable" /\ ~agreed[o] /\ ~call[o].video
    BY <2>2, <2>3, <2>5 DEF Answerer
  <2>7. \/ ~call[e].video /\ ~agreed[e]
        \/ sig[e] = "stable" /\ agreed[e] /\ call[e].video
    BY <2>2, <2>3, <2>5 DEF Offerer
  <2>8. agreed[o] <=> call[e].video
    BY <2>0, <2>2, <2>3, <2>5 DEF Returned, Answered
  <2>9. /\ call[o].video \in BOOLEAN /\ call[e].video \in BOOLEAN
    BY <2>0 DEF UInv, UTypeOK
  <2> HIDE DEF o
  <2>10. call[e].video = call[o].video
    BY <2>6, <2>7, <2>8, <2>9
  <2> QED
    BY <2>0, <2>6, <2>7, <2>10 DEF o
<1> QED
  BY <1>1, <1>2

\* With one offer made, both ends hold the call for the same kind at rest and have negotiated it.
THEOREM UpgradeAgreed == USpec => []VideoAgrees
<1>1. UInv => VideoAgrees
  BY AgreedAtRest
<1> QED
  BY <1>1, UpgradeInductive, PTL

LEMMA ShownAtRest ==
  ASSUME UInv
  PROVE  ScreenKnowsCall /\ SentAsShown
<1>0. /\ \A e \in Ends : ui[e].video \in BOOLEAN /\ call[e].video \in BOOLEAN
      /\ \A e \in Ends : ui[e].sharing \in BOOLEAN /\ sharing[e] \in BOOLEAN
  BY DEF UInv, UTypeOK
<1>1. ASSUME Quiet, NEW e \in Ends
      PROVE  /\ \A S : ~Has(cmds[e], S) /\ ~Has(events[e], S)
             /\ pickers[e] = 0
  BY <1>1, EmptyIs DEF Quiet
<1>2. ASSUME Quiet, NEW e \in Ends
      PROVE  /\ "retold" \in past[e] \/ ui[e].video = call[e].video
             /\ ui[e].request => call[e].pending
             /\ call[e].pending => ui[e].request \/ call[e].video
  <2>1. "retold" \in past[e] \/ ui[e].video = call[e].video
    BY <1>0, <1>1, <1>2 DEF UInv, KindSound
  <2>2. Other(e) \in Ends /\ Other(Other(e)) = e
    BY Two
  <2>3. ~Arrived(Other(e)) /\ ~Decided(Other(e)) /\ (Prompting(Other(e)) <=> ui[e].request)
    BY <1>1, <1>2, <2>2 DEF Arrived, Decided, Prompting
  <2> QED
    BY <2>1, <2>2, <2>3 DEF UInv, Prompted
<1>3. ASSUME Quiet, NEW e \in Ends
      PROVE  /\ ~ui[e].camera /\ "exposed" \notin past[e] => sent[e] # "camera"
             /\ "unsaid" \notin past[e] => ui[e].sharing = sharing[e]
             /\ sharing[e] /\ "covered" \notin past[e] => sent[e] = "screen"
  BY <1>1, <1>3 DEF UInv, CameraSound, ShareSound
<1> QED
  BY <1>2, <1>3 DEF ScreenKnowsCall, SentAsShown

\* At rest the screen shows the kind of the call, and a prompt that has an offer to answer.
THEOREM UpgradeShown == USpec => []ScreenKnowsCall
<1>1. UInv => ScreenKnowsCall
  BY ShownAtRest
<1> QED
  BY <1>1, UpgradeInductive, PTL

\* At rest what is sent is what the buttons show.
THEOREM UpgradeSends == USpec => []SentAsShown
<1>1. UInv => SentAsShown
  BY ShownAtRest
<1> QED
  BY <1>1, UpgradeInductive, PTL

-----------------------------------------------------------------------------
(* Group calls.                                                              *)

Live(e, s) == e[s].state # "none" /\ ~e[s].orphan

\* Engines e and members ms belong together while the conference's mute is m.
Sound(ms, e, m) ==
  /\ ms \in [Peers -> Members]
  /\ e \in [Legs -> Engines]
  /\ \A s \in Legs : Live(e, s) =>
       /\ ms[s[1]].sid = s[2]
       /\ e[s].silent <=> m
       /\ e[s].state = "negotiating" => ms[s[1]].state = "connecting"
  /\ \A p, q \in Mine :
       ms[p].sid # 0 /\ ms[p].state = "connecting" /\ ms[q].sid # 0 /\ ms[q].state = "connecting" => p = q

\* What the room was told, and what a join at work is about to tell it.
ToldSound ==
  /\ inside \in Nat
  /\ inside > 0 /\ ~hurried => inConf
  /\ RoomKnows

IInv == TypeOK /\ Sound(members, engine, muted) /\ ToldSound

USE MujiAssumption

LEMMA LegIs ==
  ASSUME NEW s \in Legs
  PROVE  s[1] \in Peers /\ s[2] \in Sids /\ s[2] # 0 /\ s = <<s[1], s[2]>>
BY DEF Legs

LEMMA RecordTypes ==
  /\ Absent \in Members /\ Absent.sid = 0 /\ Absent.state # "connecting"
  /\ \A n \in Sids \cup {0} : /\ Pending(n) \in Members
                              /\ Pending(n).sid = n /\ Pending(n).state = "connecting"
  /\ NoEngine \in Engines /\ NoEngine.state = "none"
  /\ Nobody \in [Peers -> Members]
BY DEF Absent, Pending, Members, NoEngine, Engines, Nobody

(* Fresh engines are of the conference's mute. *)
LEMMA FreshType ==
  ASSUME muted \in BOOLEAN
  PROVE  Fresh \in Engines /\ (Fresh.silent <=> muted) /\ Fresh.state = "negotiating"
BY DEF Fresh, Engines

LEMMA InLegs ==
  ASSUME NEW ms \in [Peers -> Members], NEW s \in Legs
  PROVE  s \in LegsOf(ms) <=> ms[s[1]].sid = s[2]
BY LegIs DEF LegsOf

(* Tearing legs down leaves the other engines as they are. *)
LEMMA EndedIs ==
  ASSUME engine \in [Legs -> Engines], NEW gone
  PROVE  /\ Ended(gone) \in [Legs -> Engines]
         /\ \A s \in Legs : Ended(gone)[s] = IF s \in gone THEN NoEngine ELSE engine[s]
BY RecordTypes DEF Ended

LEMMA OrphansIs ==
  ASSUME engine \in [Legs -> Engines], NEW gone
  PROVE  /\ Orphans(gone) \in [Legs -> Engines]
         /\ \A s \in Legs : Live(Orphans(gone), s) => s \notin gone /\ Live(engine, s)
                                                      /\ Orphans(gone)[s] = engine[s]
<1>1. \A s \in Legs : engine[s] \in Engines
  OBVIOUS
<1>2. \A s \in Legs : [engine[s] EXCEPT !.orphan = TRUE] \in Engines /\ [engine[s] EXCEPT !.orphan = TRUE].orphan
  BY <1>1 DEF Engines
<1> QED
  BY <1>1, <1>2 DEF Orphans, Live, Alive

(* A leg that starts, for a participant without a session, while nobody we call negotiates. *)
LEMMA StartSound ==
  ASSUME NEW ms, NEW e, muted \in BOOLEAN, Sound(ms, e, muted),
         NEW p \in Peers, NEW n \in Sids, StartLeg(ms, e, p, n),
         \A s \in Legs : s[1] = p => ~Live(e, s),
         p \in Mine => \A q \in Mine : ~(ms[q].sid # 0 /\ ms[q].state = "connecting")
  PROVE  Sound(members', engine', muted)
<1>1. <<p, n>> \in Legs /\ Fresh \in Engines /\ Pending(n) \in Members
  BY FreshType, RecordTypes DEF Legs
<1>2. /\ members' \in [Peers -> Members]
      /\ \A q \in Peers : members'[q] = IF q = p THEN Pending(n) ELSE ms[q]
  BY <1>1 DEF StartLeg, Sound
<1>3. /\ engine' \in [Legs -> Engines]
      /\ \A s \in Legs : engine'[s] = IF s = <<p, n>> THEN Fresh ELSE e[s]
  BY <1>1 DEF StartLeg, Sound
<1>4. ASSUME NEW s \in Legs, Live(engine', s)
      PROVE  /\ members'[s[1]].sid = s[2]
             /\ engine'[s].silent <=> muted
             /\ engine'[s].state = "negotiating" => members'[s[1]].state = "connecting"
  <2>1. CASE s = <<p, n>>
    BY <1>2, <1>3, <2>1, FreshType, RecordTypes
  <2>2. CASE s # <<p, n>>
    <3>1. Live(e, s) /\ engine'[s] = e[s]
      BY <1>3, <1>4, <2>2 DEF Live
    <3>2. s[1] # p /\ s[1] \in Peers
      BY <3>1, LegIs
    <3> QED
      BY <1>2, <3>1, <3>2 DEF Sound
  <2> QED
    BY <2>1, <2>2
<1>5. ASSUME NEW q \in Mine, NEW r \in Mine,
             members'[q].sid # 0, members'[q].state = "connecting",
             members'[r].sid # 0, members'[r].state = "connecting"
      PROVE  q = r
  <2>1. q \in Peers /\ r \in Peers
    BY DEF Peers
  <2> QED
    BY <1>2, <1>5, <2>1 DEF Sound
<1> QED
  BY <1>2, <1>3, <1>4, <1>5 DEF Sound

(* maybe_initiate keeps engines and members together. *)
LEMMA MeshSound ==
  ASSUME NEW ms, NEW e, muted \in BOOLEAN, Sound(ms, e, muted), NEW ps, Mesh(ms, e, ps)
  PROVE  Sound(members', engine', muted)
<1> DEFINE l == Listed(ms, ps)
<1>1. /\ l \in [Peers -> Members]
      /\ \A p \in Peers : l[p].sid = ms[p].sid
      /\ \A p \in Peers : ms[p].sid # 0 => l[p] = ms[p]
  BY RecordTypes DEF Listed, Sound
<1>2. Sound(l, e, muted)
  <2>1. \A s \in Legs : Live(e, s) => ms[s[1]].sid # 0 /\ l[s[1]] = ms[s[1]]
    BY <1>1, LegIs DEF Sound
  <2>2. \A p \in Mine : p \in Peers
    BY DEF Peers
  <2> HIDE DEF l
  <2>3. \A s \in Legs : Live(e, s) =>
          /\ l[s[1]].sid = s[2]
          /\ e[s].silent <=> muted
          /\ e[s].state = "negotiating" => l[s[1]].state = "connecting"
    BY <2>1 DEF Sound
  <2>4. \A p, q \in Mine :
          l[p].sid # 0 /\ l[p].state = "connecting" /\ l[q].sid # 0 /\ l[q].state = "connecting" => p = q
    <3>1. \A p \in Mine : l[p].sid # 0 => ms[p].sid # 0 /\ l[p] = ms[p]
      BY <1>1, <2>2
    <3>2. \A p, q \in Mine :
            ms[p].sid # 0 /\ ms[p].state = "connecting" /\ ms[q].sid # 0 /\ ms[q].state = "connecting" => p = q
      BY DEF Sound
    <3> QED
      BY <3>1, <3>2
  <2> QED
    BY <1>1, <2>3, <2>4 DEF Sound
<1>3. CASE members' = l /\ engine' = e
  BY <1>2, <1>3
<1>4. ASSUME ~Busy(ms), NEW p \in Uncalled(ms, ps), NEW n \in Sids, StartLeg(l, e, p, n)
      PROVE  Sound(members', engine', muted)
  <2>1. p \in Peers /\ ms[p].sid = 0
    BY <1>4 DEF Uncalled, Peers
  <2>2. \A s \in Legs : s[1] = p => ~Live(e, s)
    BY <2>1, LegIs DEF Sound
  <2>3. \A q \in Mine : ~(l[q].sid # 0 /\ l[q].state = "connecting")
    BY <1>1, <1>4 DEF Busy, Peers
  <2> HIDE DEF l
  <2> QED
    BY <1>2, <1>4, <2>1, <2>2, <2>3, StartSound
<1> QED
  BY <1>3, <1>4 DEF Mesh

(* Members that are gone or change while nobody starts negotiating: the engines that lose their
   member are ended too. *)
LEMMA ChangeSound ==
  ASSUME NEW ms \in [Peers -> Members], NEW e \in [Legs -> Engines], NEW m \in BOOLEAN,
         Sound(members, engine, muted),
         \A s \in Legs : Live(e, s) =>
           /\ Live(engine, s)
           /\ ms[s[1]].sid = members[s[1]].sid
           /\ e[s].silent <=> m
           /\ e[s].state = "negotiating" => /\ engine[s].state = "negotiating"
                                            /\ ms[s[1]].state = members[s[1]].state,
         \A p \in Mine : ms[p].sid # 0 /\ ms[p].state = "connecting" =>
           members[p].sid # 0 /\ members[p].state = "connecting"
  PROVE  Sound(ms, e, m)
BY DEF Sound

(* set_member_state. *)
LEMMA SetStateIs ==
  ASSUME members \in [Peers -> Members], NEW s \in Legs, NEW st \in {"active", "ended"}
  PROVE  /\ SetState(s, st) \in [Peers -> Members] /\ Connected(s) \in [Peers -> Members]
         /\ \A p \in Peers :
              /\ SetState(s, st)[p].sid = members[p].sid
              /\ SetState(s, st)[p].state = "connecting" => members[p].state = "connecting"
              /\ s # <<p, members[p].sid>> => SetState(s, st)[p] = members[p]
              /\ Connected(s)[p].sid = members[p].sid
              /\ Connected(s)[p].state = "connecting" => members[p].state = "connecting"
              /\ s # <<p, members[p].sid>> => Connected(s)[p] = members[p]
<1>1. /\ s[1] \in Peers
      /\ \A q \in Peers : members[q] \in Members
      /\ members[s[1]].sid \in Sids \cup {0}
  BY LegIs DEF Members
<1>2. CASE s \notin LegsOf(members)
  BY <1>1, <1>2 DEF SetState, Connected
<1>3. CASE s \in LegsOf(members)
  <2>1. s = <<s[1], members[s[1]].sid>>
    BY <1>3, InLegs, LegIs
  <2>2. LET r == [members[s[1]] EXCEPT !.state = st]
        IN r \in Members /\ r.sid = members[s[1]].sid /\ r.state = st
    BY <1>1 DEF Members
  <2>3. LET r == [members[s[1]] EXCEPT !.state = "active", !.late = @ \/ ~Alive(s)]
        IN r \in Members /\ r.sid = members[s[1]].sid /\ r.state = "active"
    BY <1>1 DEF Members
  <2>4. SetState(s, st) = [members EXCEPT ![s[1]] = [members[s[1]] EXCEPT !.state = st]]
    BY <1>3 DEF SetState
  <2>5. Connected(s) = [members EXCEPT ![s[1]] = [members[s[1]] EXCEPT !.state = "active", !.late = @ \/ ~Alive(s)]]
    BY <1>1, <1>3 DEF Connected
  <2> QED
    BY <1>1, <2>1, <2>2, <2>3, <2>4, <2>5
<1> QED
  BY <1>2, <1>3

(* A leg that is over takes its engine with it. *)
LEMMA GoneSound ==
  ASSUME members \in [Peers -> Members], engine \in [Legs -> Engines], muted \in BOOLEAN,
         Sound(members, engine, muted), NEW s \in Legs, \A q \in Mine : q \in Peers
  PROVE  Sound(SetState(s, "ended"), Ended({s}), muted)
<1> DEFINE ms == SetState(s, "ended")
           e == Ended({s})
<1>1. /\ ms \in [Peers -> Members]
      /\ \A q \in Peers : /\ ms[q].sid = members[q].sid
                          /\ ms[q].state = "connecting" => members[q].state = "connecting"
                          /\ s # <<q, members[q].sid>> => ms[q] = members[q]
  BY SetStateIs
<1>2. /\ e \in [Legs -> Engines]
      /\ \A q \in Legs : Live(e, q) => q # s /\ Live(engine, q) /\ e[q] = engine[q]
  BY EndedIs, RecordTypes DEF Live
<1> HIDE DEF ms, e
<1>3. \A q \in Legs : Live(e, q) => q[1] \in Peers /\ q = <<q[1], members[q[1]].sid>>
  BY <1>2, LegIs DEF Sound
<1>4. \A q \in Legs : Live(e, q) =>
        /\ Live(engine, q)
        /\ ms[q[1]].sid = members[q[1]].sid
        /\ e[q].silent <=> muted
        /\ e[q].state = "negotiating" => /\ engine[q].state = "negotiating"
                                         /\ ms[q[1]].state = members[q[1]].state
  BY <1>1, <1>2, <1>3 DEF Sound
<1>5. \A p \in Mine : ms[p].sid # 0 /\ ms[p].state = "connecting" =>
        members[p].sid # 0 /\ members[p].state = "connecting"
  BY <1>1
<1>6. Sound(ms, e, muted)
  BY <1>1, <1>2, <1>4, <1>5, ChangeSound
<1> QED
  BY <1>6 DEF ms, e

(* The initial state satisfies the invariant. *)
LEMMA InitIInv == Init => IInv
<1> SUFFICES ASSUME Init PROVE IInv
  OBVIOUS
<1>1. Sound(members, engine, muted)
  BY RecordTypes DEF Init, Sound, Live, Nobody, Peers
<1>2. TypeOK
  <2>1. seen \in [Peers -> {"none", "preparing", "ready"}] /\ invited \in BOOLEAN
    BY DEF Init
  <2>2. /\ loops \in 0..MaxLoops /\ joins \in 0..MaxJoins /\ inside \in 0..joins /\ turns \in 0..MaxTurns
    BY DEF Init
  <2> QED
    BY <1>1, <2>1, <2>2 DEF Init, TypeOK, Sound
<1>3. ToldSound
  BY DEF Init, ToldSound, RoomKnows
<1> QED
  BY <1>1, <1>2, <1>3 DEF IInv

(* Every step keeps engines and members together. *)
LEMMA NextSound ==
  ASSUME TypeOK, Sound(members, engine, muted), [Next]_vars
  PROVE  Sound(members', engine', muted')
<1> USE DEF room, conference
<1>0. /\ members \in [Peers -> Members] /\ engine \in [Legs -> Engines]
      /\ muted \in BOOLEAN /\ \A q \in Mine : q \in Peers
      /\ \A s \in Legs : s \in LegsOf(members) <=> members[s[1]].sid = s[2]
  BY InLegs DEF TypeOK, Peers
<1>1. CASE Insert
  <2>1. members' = Nobody /\ muted' = FALSE /\ engine' = Orphans(LegsOf(members))
    BY <1>1 DEF Insert
  <2>2. \A s \in Legs : ~Live(engine', s)
    BY <1>0, <2>1, OrphansIs DEF Sound
  <2>3. engine' \in [Legs -> Engines]
    BY <1>0, <2>1, OrphansIs
  <2> QED
    BY <1>0, <2>1, <2>2, <2>3, RecordTypes DEF Sound, Nobody
<1>2. CASE Announce
  BY <1>0, <1>2, MeshSound DEF Announce
<1>3. CASE Leave
  <2>1. members' = Nobody /\ muted' = FALSE /\ engine' = Ended(LegsOf(members))
    BY <1>3 DEF Leave
  <2>2. \A s \in Legs : ~Live(engine', s)
    BY <1>0, <2>1, EndedIs, RecordTypes DEF Sound, Live
  <2>3. engine' \in [Legs -> Engines]
    BY <1>0, <2>1, EndedIs
  <2> QED
    BY <1>0, <2>1, <2>2, <2>3, RecordTypes DEF Sound, Nobody
<1>4. CASE Mute
  <2> DEFINE e == [s \in Legs |-> IF s \in LegsOf(members) /\ Alive(s)
                                    THEN [engine[s] EXCEPT !.silent = ~muted] ELSE engine[s]]
  <2>1. members' = members /\ muted' = ~muted /\ engine' = e
    BY <1>4 DEF Mute
  <2>2. \A s \in Legs : LET r == [engine[s] EXCEPT !.silent = ~muted]
                        IN r \in Engines /\ (r.silent <=> ~muted)
                           /\ r.state = engine[s].state /\ (r.orphan <=> engine[s].orphan)
    BY <1>0 DEF Engines
  <2>3. e \in [Legs -> Engines]
    BY <1>0, <2>2
  <2>4. \A s \in Legs : Live(e, s) => Live(engine, s) /\ (e[s].silent <=> ~muted)
                                      /\ e[s].state = engine[s].state
    BY <1>0, <2>2 DEF Live, Alive, Sound
  <2> HIDE DEF e
  <2>5. (~muted) \in BOOLEAN
    BY <1>0
  <2> QED
    BY <1>0, <2>1, <2>3, <2>4, <2>5, ChangeSound
<1>5. ASSUME NEW p \in Peers, NEW s \in {"none", "preparing", "ready"}, Observe(p, s)
      PROVE  Sound(members', engine', muted')
  <2>0. muted' = muted
    BY <1>5 DEF Observe
  <2>1. CASE ~inConf
    <3>1. members' = members /\ engine' = engine
      BY <1>5, <2>1 DEF Observe
    <3> QED
      BY <2>0, <3>1
  <2>2. CASE inConf /\ s = "ready"
    <3>1. Mesh(members, engine, {p})
      BY <1>5, <2>2 DEF Observe
    <3> QED
      BY <1>0, <2>0, <3>1, MeshSound
  <2>3. CASE inConf /\ s = "preparing"
    <3> DEFINE ms == IF members[p] = Absent THEN [members EXCEPT ![p] = Pending(0)] ELSE members
    <3>1. members' = ms /\ engine' = engine
      BY <1>5, <2>3 DEF Observe
    <3>2. /\ ms \in [Peers -> Members]
          /\ \A q \in Peers : ms[q].sid = members[q].sid /\ (members[q].sid # 0 => ms[q] = members[q])
      BY <1>0, RecordTypes
    <3> HIDE DEF ms
    <3>3. \A q \in Legs : Live(engine, q) => members[q[1]].sid # 0 /\ q[1] \in Peers
      BY LegIs DEF Sound
    <3>4. \A q \in Legs : Live(engine, q) =>
            /\ ms[q[1]].sid = members[q[1]].sid
            /\ ms[q[1]].state = members[q[1]].state
            /\ engine[q].silent <=> muted
      BY <3>2, <3>3 DEF Sound
    <3> QED
      BY <1>0, <2>0, <3>1, <3>2, <3>4, ChangeSound
  <2>4. CASE inConf /\ s = "none"
    <3> DEFINE ms == [members EXCEPT ![p] = Absent]
               e == Ended({<<p, members[p].sid>>})
    <3>1. members' = ms /\ engine' = e
      BY <1>5, <2>4 DEF Observe
    <3>2. /\ ms \in [Peers -> Members]
          /\ \A q \in Peers : ms[q] = IF q = p THEN Absent ELSE members[q]
      BY <1>0, RecordTypes
    <3>3. /\ e \in [Legs -> Engines]
          /\ \A q \in Legs : Live(e, q) => q # <<p, members[p].sid>> /\ Live(engine, q) /\ e[q] = engine[q]
      BY <1>0, EndedIs, RecordTypes DEF Live
    <3> HIDE DEF ms, e
    <3>4. \A q \in Legs : Live(e, q) => q[1] # p /\ q[1] \in Peers
      BY <3>3, LegIs DEF Sound
    <3>5. \A q \in Legs : Live(e, q) =>
            /\ Live(engine, q)
            /\ ms[q[1]].sid = members[q[1]].sid
            /\ e[q].silent <=> muted
            /\ e[q].state = "negotiating" => /\ engine[q].state = "negotiating"
                                             /\ ms[q[1]].state = members[q[1]].state
      <4>1. \A q \in Legs : Live(e, q) => ms[q[1]] = members[q[1]] /\ e[q] = engine[q] /\ Live(engine, q)
        BY <3>2, <3>3, <3>4
      <4>2. \A q \in Legs : Live(engine, q) => (engine[q].silent <=> muted)
        BY DEF Sound
      <4> QED
        BY <4>1, <4>2
    <3>6. \A q \in Mine : ms[q].sid # 0 /\ ms[q].state = "connecting" =>
            members[q].sid # 0 /\ members[q].state = "connecting"
      BY <1>0, <3>2, RecordTypes
    <3>7. Sound(ms, e, muted)
      BY <1>0, <3>2, <3>3, <3>5, <3>6, ChangeSound
    <3> QED
      BY <2>0, <3>1, <3>7
  <2> QED
    BY <2>1, <2>2, <2>3, <2>4
<1>6. ASSUME NEW p \in Theirs, Offer(p)
      PROVE  Sound(members', engine', muted')
  <2> DEFINE e == Orphans({<<p, members[p].sid>>})
  <2>1. PICK n \in Sids : StartLeg(members, e, p, n)
    BY <1>6 DEF Offer
  <2>2. muted' = muted /\ p \in Peers /\ p \notin Mine
    BY <1>6 DEF Offer, Peers
  <2>3. /\ e \in [Legs -> Engines]
        /\ \A s \in Legs : Live(e, s) => s # <<p, members[p].sid>> /\ Live(engine, s) /\ e[s] = engine[s]
    BY <1>0, OrphansIs
  <2> HIDE DEF e
  <2>4. Sound(members, e, muted)
    BY <1>0, <2>3 DEF Sound
  <2>5. \A s \in Legs : s[1] = p => ~Live(e, s)
    BY <2>3, LegIs DEF Sound
  <2> QED
    BY <1>0, <2>1, <2>2, <2>4, <2>5, StartSound
<1>7. ASSUME NEW s \in Legs, Terminate(s)
      PROVE  Sound(members', engine', muted')
  <2>1. members' = SetState(s, "ended") /\ engine' = Ended({s}) /\ muted' = muted
    BY <1>7 DEF Terminate
  <2> QED
    BY <1>0, <2>1, GoneSound
<1>8. ASSUME NEW s \in Legs, PumpConnected(s)
      PROVE  Sound(members', engine', muted')
  <2> DEFINE ms == Connected(s)
             e == IF Alive(s) THEN [engine EXCEPT ![s].state = "connected"] ELSE engine
  <2>1. Mesh(ms, e, IF inConf THEN Ready \cap Mine ELSE {}) /\ muted' = muted
    BY <1>8 DEF PumpConnected
  <2>2. /\ e \in [Legs -> Engines]
        /\ \A q \in Legs : Live(e, q) => Live(engine, q) /\ (e[q].silent <=> engine[q].silent)
        /\ \A q \in Legs : Live(e, q) /\ e[q].state = "negotiating" =>
             q # s /\ engine[q].state = "negotiating"
    <3>1. LET r == [engine[s] EXCEPT !.state = "connected"]
          IN r \in Engines /\ (r.silent <=> engine[s].silent) /\ (r.orphan <=> engine[s].orphan)
             /\ r.state = "connected"
      BY <1>0 DEF Engines
    <3> QED
      BY <1>0, <3>1 DEF Live, Alive
  <2>3. /\ ms \in [Peers -> Members]
        /\ \A q \in Peers : /\ ms[q].sid = members[q].sid
                            /\ ms[q].state = "connecting" => members[q].state = "connecting"
                            /\ s # <<q, members[q].sid>> => ms[q] = members[q]
    BY <1>0, SetStateIs
  <2> HIDE DEF ms, e
  <2>4. \A q \in Legs : Live(e, q) => q[1] \in Peers /\ q = <<q[1], members[q[1]].sid>>
    BY <2>2, LegIs DEF Sound
  <2>5. \A q \in Legs : Live(e, q) =>
          /\ Live(engine, q)
          /\ ms[q[1]].sid = members[q[1]].sid
          /\ e[q].silent <=> muted
          /\ e[q].state = "negotiating" => /\ engine[q].state = "negotiating"
                                           /\ ms[q[1]].state = members[q[1]].state
    BY <2>2, <2>3, <2>4 DEF Sound
  <2>6. \A q \in Mine : ms[q].sid # 0 /\ ms[q].state = "connecting" =>
          members[q].sid # 0 /\ members[q].state = "connecting"
    BY <1>0, <2>3
  <2>7. Sound(ms, e, muted)
    BY <1>0, <2>2, <2>3, <2>5, <2>6, ChangeSound
  <2> QED
    BY <1>0, <2>1, <2>7, MeshSound
<1>9. ASSUME NEW s \in Legs, PumpFailed(s)
      PROVE  Sound(members', engine', muted')
  BY <1>0, <1>9, GoneSound, MeshSound DEF PumpFailed
<1>10. ASSUME NEW stuck \in SUBSET Connecting, Remesh(stuck)
       PROVE  Sound(members', engine', muted')
  <2> DEFINE drop == Dead \cup stuck
             gone == {s \in LegsOf(members) : s[1] \in drop}
             ms == [p \in Peers |-> IF p \in drop THEN Absent ELSE members[p]]
             e == Ended(gone)
  <2>1. Mesh(ms, e, Ready) /\ muted' = muted
    BY <1>10 DEF Remesh
  <2>2. ms \in [Peers -> Members] /\ \A q \in Peers : ms[q] = IF q \in drop THEN Absent ELSE members[q]
    BY <1>0, RecordTypes
  <2>3. /\ e \in [Legs -> Engines]
        /\ \A q \in Legs : Live(e, q) => q \notin gone /\ Live(engine, q) /\ e[q] = engine[q]
    BY <1>0, EndedIs, RecordTypes DEF Live
  <2>4. \A q \in Legs : Live(e, q) => q[1] \notin drop /\ q[1] \in Peers
    BY <1>0, <2>3, LegIs DEF Sound
  <2> HIDE DEF ms, e, gone, drop
  <2>5. \A q \in Legs : Live(e, q) =>
          /\ Live(engine, q)
          /\ ms[q[1]].sid = members[q[1]].sid
          /\ e[q].silent <=> muted
          /\ e[q].state = "negotiating" => /\ engine[q].state = "negotiating"
                                           /\ ms[q[1]].state = members[q[1]].state
    BY <2>2, <2>3, <2>4 DEF Sound
  <2>6. \A p \in Mine : ms[p].sid # 0 /\ ms[p].state = "connecting" =>
          members[p].sid # 0 /\ members[p].state = "connecting"
    BY <1>0, <2>2, RecordTypes
  <2>7. Sound(ms, e, muted)
    BY <1>0, <2>2, <2>3, <2>5, <2>6, ChangeSound
  <2> QED
    BY <1>0, <2>1, <2>7, MeshSound
<1>11. ASSUME \/ LoopEnds \/ UNCHANGED vars
              \/ \E p \in Theirs : Restart(p)
              \/ \E s \in Legs : Settle(s) \/ Break(s)
       PROVE  Sound(members', engine', muted')
  <2>1. UNCHANGED <<members, engine, muted>>
    BY <1>11 DEF LoopEnds, vars, Restart, Settle, Break
  <2> QED
    BY <2>1
<1> QED
  BY <1>1, <1>2, <1>3, <1>4, <1>5, <1>6, <1>7, <1>8, <1>9, <1>10, <1>11 DEF Next

(* Telling the other ends leaves each with a leg of the pool or none. *)
LEMMA ToldType ==
  ASSUME remote \in [Theirs -> Sids \cup {0}], NEW gone
  PROVE  Told(gone) \in [Theirs -> Sids \cup {0}]
BY DEF Told

(* Every step preserves the types. *)
LEMMA NextTypeOK ==
  ASSUME TypeOK, Sound(members', engine', muted'), [Next]_vars
  PROVE  TypeOK'
<1> USE DEF room, conference
<1>0. members' \in [Peers -> Members] /\ engine' \in [Legs -> Engines]
  BY DEF Sound
<1>1. CASE Insert \/ Announce
  <2>1. /\ loops' \in 0..MaxLoops /\ joins' \in 0..MaxJoins /\ inside' \in 0..joins'
    BY <1>1 DEF Insert, Announce, TypeOK
  <2>2. /\ inConf' \in BOOLEAN /\ muted' \in BOOLEAN /\ invited' \in BOOLEAN /\ announced' \in BOOLEAN
        /\ screen' \in BOOLEAN /\ UNCHANGED <<seen, reports, remote, turns, hurried>>
    BY <1>1 DEF Insert, Announce, TypeOK
  <2> QED
    BY <1>0, <2>1, <2>2 DEF TypeOK
<1>2. CASE Leave \/ Mute
  <2>1. /\ turns' \in 0..MaxTurns /\ hurried' \in BOOLEAN /\ remote' \in [Theirs -> Sids \cup {0}]
    BY <1>2, ToldType DEF Leave, Mute, Turn, TypeOK
  <2>2. /\ inConf' \in BOOLEAN /\ muted' \in BOOLEAN /\ announced' \in BOOLEAN
        /\ screen' \in BOOLEAN /\ UNCHANGED <<seen, invited, reports, loops, joins, inside>>
    BY <1>2 DEF Leave, Mute, TypeOK
  <2> QED
    BY <1>0, <2>1, <2>2 DEF TypeOK
<1>3. ASSUME NEW p \in Peers, NEW s \in {"none", "preparing", "ready"}, Observe(p, s)
      PROVE  TypeOK'
  <2>1. seen' \in [Peers -> {"none", "preparing", "ready"}] /\ turns' \in 0..MaxTurns
    BY <1>3 DEF Observe, Turn, TypeOK
  <2>2. remote' \in [Theirs -> Sids \cup {0}] /\ invited' \in BOOLEAN
    <3>1. \/ remote' = remote \/ remote' = [q \in Theirs |-> IF q = p THEN 0 ELSE remote[q]]
      BY <1>3 DEF Observe
    <3>2. \/ invited' = invited \/ invited' = (\E q \in Peers : seen'[q] # "none")
      BY <1>3 DEF Observe
    <3> QED
      BY <3>1, <3>2 DEF TypeOK
  <2>3. screen' \in BOOLEAN /\ UNCHANGED <<inConf, muted, announced, reports, loops, joins, inside, hurried>>
    BY <1>3 DEF Observe, TypeOK
  <2> QED
    BY <1>0, <2>1, <2>2, <2>3 DEF TypeOK
<1>4. ASSUME NEW p \in Theirs, Offer(p) \/ Restart(p)
      PROVE  TypeOK'
  <2>1. remote' \in [Theirs -> Sids \cup {0}] /\ turns' \in 0..MaxTurns
    BY <1>4 DEF Offer, Restart, Turn, TypeOK
  <2>2. UNCHANGED <<inConf, muted, room, reports, loops, joins, inside, hurried>>
    BY <1>4 DEF Offer, Restart
  <2> QED
    BY <1>0, <2>1, <2>2 DEF TypeOK
<1>5. ASSUME NEW s \in Legs, Terminate(s)
      PROVE  TypeOK'
  <2>1. remote' \in [Theirs -> Sids \cup {0}] /\ turns' \in 0..MaxTurns
    BY <1>5, ToldType DEF Terminate, Turn, TypeOK
  <2>2. UNCHANGED <<inConf, muted, seen, invited, announced, reports, loops, joins, inside, hurried>>
        /\ screen' \in BOOLEAN
    BY <1>5 DEF Terminate, TypeOK
  <2> QED
    BY <1>0, <2>1, <2>2 DEF TypeOK
<1>6. ASSUME NEW s \in Legs, Settle(s) \/ Break(s)
      PROVE  TypeOK'
  <2>1. reports' \subseteq Legs \X {"connected", "failed"} /\ turns' \in 0..MaxTurns
    BY <1>6 DEF Settle, Break, Turn, TypeOK
  <2>2. UNCHANGED <<conference, room, remote, loops, joins, inside, hurried>>
    BY <1>6 DEF Settle, Break
  <2> QED
    BY <1>0, <2>1, <2>2 DEF TypeOK
<1>7. ASSUME NEW s \in Legs, PumpConnected(s) \/ PumpFailed(s)
      PROVE  TypeOK'
  <2>1. reports' \subseteq Legs \X {"connected", "failed"} /\ screen' \in BOOLEAN
    BY <1>7 DEF PumpConnected, PumpFailed, TypeOK
  <2>2. UNCHANGED <<inConf, muted, seen, invited, announced, remote, loops, joins, inside, turns, hurried>>
    BY <1>7 DEF PumpConnected, PumpFailed
  <2> QED
    BY <1>0, <2>1, <2>2 DEF TypeOK
<1>8. CASE LoopEnds \/ UNCHANGED vars
  <2>1. loops' \in 0..MaxLoops
    BY <1>8 DEF LoopEnds, vars, TypeOK
  <2>2. UNCHANGED <<conference, room, reports, remote, joins, inside, turns, hurried>>
    BY <1>8 DEF LoopEnds, vars
  <2> QED
    BY <1>0, <2>1, <2>2 DEF TypeOK
<1>9. ASSUME NEW stuck \in SUBSET Connecting, Remesh(stuck)
      PROVE  TypeOK'
  <2>1. remote' \in [Theirs -> Sids \cup {0}] /\ screen' \in BOOLEAN
    BY <1>9, ToldType DEF Remesh, TypeOK
  <2>2. UNCHANGED <<inConf, muted, seen, invited, announced, reports, loops, joins, inside, turns, hurried>>
    BY <1>9 DEF Remesh
  <2> QED
    BY <1>0, <2>1, <2>2 DEF TypeOK
<1> QED
  BY <1>1, <1>2, <1>3, <1>4, <1>5, <1>6, <1>7, <1>8, <1>9 DEF Next

(* Every step keeps what the room knows, or a join is at work that will tell it. *)
LEMMA NextTold ==
  ASSUME TypeOK, ToldSound, [Next]_vars
  PROVE  ToldSound'
<1> USE DEF ToldSound, RoomKnows
<1>0. inside \in Nat /\ inConf \in BOOLEAN /\ announced \in BOOLEAN /\ hurried \in BOOLEAN
  BY DEF TypeOK
<1>1. CASE Insert
  <2>1. inside' = inside + 1 /\ inConf' = TRUE
    BY <1>1 DEF Insert
  <2> QED
    BY <1>0, <2>1
<1>2. CASE Announce
  <2>1. inside' = inside - 1 /\ inside > 0 /\ announced' = TRUE /\ UNCHANGED <<inConf, hurried>>
    BY <1>2 DEF Announce
  <2> QED
    BY <1>0, <2>1
<1>3. CASE Leave
  <2>1. inside' = inside /\ inConf' = FALSE /\ announced' = FALSE /\ hurried' = (hurried \/ inside > 0)
    BY <1>3 DEF Leave
  <2> QED
    BY <1>0, <2>1
<1>4. ASSUME \/ Mute \/ LoopEnds \/ UNCHANGED vars
             \/ \E p \in Peers, s \in {"none", "preparing", "ready"} : Observe(p, s)
             \/ \E p \in Theirs : Offer(p) \/ Restart(p)
             \/ \E s \in Legs : Terminate(s) \/ Settle(s) \/ Break(s) \/ PumpConnected(s) \/ PumpFailed(s)
             \/ \E stuck \in SUBSET Connecting : Remesh(stuck)
      PROVE  UNCHANGED <<inside, inConf, announced, hurried>>
  BY <1>4 DEF Mute, LoopEnds, vars, Observe, Offer, Restart, Terminate, Settle, Break, PumpConnected,
              PumpFailed, Remesh, room, conference
<1> QED
  BY <1>0, <1>1, <1>2, <1>3, <1>4 DEF Next

LEMMA NextIInv == IInv /\ [Next]_vars => IInv'
<1> SUFFICES ASSUME IInv, [Next]_vars PROVE IInv'
  OBVIOUS
<1>1. Sound(members, engine, muted)'
  BY NextSound DEF IInv
<1>2. TypeOK'
  BY <1>1, NextTypeOK DEF IInv
<1>3. ToldSound'
  BY NextTold DEF IInv
<1> QED
  BY <1>1, <1>2, <1>3 DEF IInv

LEMMA Invariant == Spec => []IInv
BY InitIInv, NextIInv, PTL DEF Spec

(* The variables keep their types. *)
THEOREM TypeCorrect == Spec => []TypeOK
<1>1. IInv => TypeOK
  BY DEF IInv
<1> QED
  BY <1>1, Invariant, PTL

(* Hanging up and muting reach every engine, but for orphans (leave_group_call, set_group_mute). *)
THEOREM Owned == Spec => []EnginesOwned
<1>1. IInv => EnginesOwned
  <2> SUFFICES ASSUME IInv, NEW s \in Legs, Alive(s), ~engine[s].orphan
               PROVE  s \in LegsOf(members) /\ (engine[s].silent <=> muted)
    BY DEF EnginesOwned
  <2>1. Live(engine, s) /\ Sound(members, engine, muted)
    BY DEF Live, Alive, IInv
  <2> QED
    BY <2>1, InLegs DEF Sound
<1> QED
  BY <1>1, Invariant, PTL

(* Of the legs that we start at most one negotiates, but for orphans (maybe_initiate). *)
THEOREM OneNegotiates == Spec => []OneAtATime
<1>1. IInv => OneAtATime
  <2> SUFFICES ASSUME IInv PROVE OneAtATime
    OBVIOUS
  <2> DEFINE N == {s \in Legs : s[1] \in Mine /\ engine[s].state = "negotiating" /\ ~engine[s].orphan}
  <2>1. ASSUME NEW s \in N, NEW t \in N
        PROVE  s = t
    <3>1. /\ s \in Legs /\ t \in Legs /\ s[1] \in Mine /\ t[1] \in Mine
          /\ Live(engine, s) /\ Live(engine, t) /\ Sound(members, engine, muted)
      BY DEF Live, IInv
    <3>2. s[1] = t[1] /\ s[2] = members[s[1]].sid /\ t[2] = members[t[1]].sid
      BY <3>1, LegIs DEF Sound
    <3> QED
      BY <3>1, <3>2, LegIs
  <2>2. CASE N = {}
    BY <2>2, FS_EmptySet DEF OneAtATime
  <2>3. CASE N # {}
    <3> PICK s \in N : TRUE
      BY <2>3
    <3>1. N = {s}
      BY <2>1
    <3>2. Cardinality(N) = 1
      BY <3>1, FS_Singleton
    <3> QED
      BY <3>2 DEF OneAtATime
  <2> QED
    BY <2>2, <2>3
<1> QED
  BY <1>1, Invariant, PTL

(* The room is told that we are in the call exactly while we are (place_group_call,
   leave_group_call). *)
THEOREM RoomIsTold == Spec => []RoomKnows
<1>1. IInv => RoomKnows
  BY DEF IInv, ToldSound
<1> QED
  BY <1>1, Invariant, PTL

=============================================================================
