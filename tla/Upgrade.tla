------------------------------ MODULE Upgrade ------------------------------
(***************************************************************************)
(* Turning a connected audio call into a video call: two ends that both    *)
(* run this code (upgrade_to_video, accept_ and decline_video_upgrade,     *)
(* content-add, content-accept and content-reject of jingle.rs), the media *)
(* engine under each (mxc-media), and the call screen above (session.rs).  *)
(*                                                                         *)
(* webrtcbin runs the operations asked of it in order, on a thread of its  *)
(* own, and drops one that does not fit its signalling state; the engine   *)
(* asks without looking at the outcome.  Stanzas are delivered in order    *)
(* but each is handled by a task that decrypts first, so the handlers run  *)
(* in any order: stanzas to handle are a set.  Every end sends at most one *)
(* content-add and one answer to the other's.                              *)
(*                                                                         *)
(* UInit, UNext and the like: MediaProofs extends this module and Muji.    *)
(***************************************************************************)
EXTENDS Naturals, Sequences

CONSTANTS
  MaxPresses, \* buttons pressed at the two ends, answers to a prompt aside (bound)
  MaxRetold   \* times that an engine reports connected again (bound)

ASSUME UpgradeAssumption == MaxPresses \in Nat /\ MaxRetold \in Nat

Ends == {"caller", "callee"}
Other(e) == IF e = "caller" THEN "callee" ELSE "caller"

VARIABLES
  began,   \* the call was started as a video call
  call,    \* ActiveCall: [video, pending] of each end
  sig,     \* webrtcbin's signalling state
  agreed,  \* a video description was negotiated in full
  ops,     \* the operations asked of webrtcbin, in order
  chan,    \* the engine's unread events
  sent,    \* what feeds our video track: the vidsel selector, "none" without a video branch
  sharing, \* the engine holds a screen capture
  wire,    \* stanzas on their way to an end or being decrypted there
  cmds,    \* unread commands
  pickers, \* open portal pickers
  events,  \* unread events
  ui,      \* the call screen: [video, request, camera, sharing]
  presses, retold,
  past     \* history of each end

engines == <<sig, agreed, ops, chan>>
video == <<sent, sharing, pickers>>
callScreen == <<cmds, events, ui>>
counts == <<presses, retold>>
upgradeVars == <<began, call, sig, agreed, ops, chan, sent, sharing, wire, cmds, pickers, events, ui,
                 presses, retold, past>>

Operations == {"create offer", "create answer", "local offer", "local answer", "remote offer",
               "remote answer"}
Stanzas == {"content-add", "content-accept", "content-reject"}
Commands == {"upgrade", "accept", "decline", "camera on", "camera off", "share on", "share off"}
Events == {"active video", "active audio", "request", "share on", "share off"}

\* offered: asked for an offer; accepted: the user accepted the other's; failed: the camera failed;
\* retold: connected was reported again; exposed: the camera took over from a screen;
\* covered: the camera button changed what is sent during a share; unsaid: a picker was cancelled
\* during a share.
Marks == {"offered", "accepted", "failed", "retold", "exposed", "covered", "unsaid"}

UTypeOK ==
  /\ began \in BOOLEAN
  /\ call \in [Ends -> [video : BOOLEAN, pending : BOOLEAN]]
  /\ sig \in [Ends -> {"stable", "have-local-offer", "have-remote-offer"}]
  /\ agreed \in [Ends -> BOOLEAN]
  /\ ops \in [Ends -> Seq(Operations)]
  /\ chan \in [Ends -> Seq({"offer", "answer", "connected"})]
  /\ sent \in [Ends -> {"none", "camera", "black", "screen"}]
  /\ sharing \in [Ends -> BOOLEAN]
  /\ wire \in [Ends -> SUBSET Stanzas]
  /\ cmds \in [Ends -> Seq(Commands)]
  /\ pickers \in [Ends -> Nat]
  /\ events \in [Ends -> Seq(Events)]
  /\ ui \in [Ends -> [video : BOOLEAN, request : BOOLEAN, camera : BOOLEAN, sharing : BOOLEAN]]
  /\ presses \in 0..MaxPresses
  /\ retold \in 0..MaxRetold
  /\ past \in [Ends -> SUBSET Marks]

\* A connected call.
UInit ==
  /\ began \in BOOLEAN
  /\ call = [e \in Ends |-> [video |-> began, pending |-> FALSE]]
  /\ sig = [e \in Ends |-> "stable"] /\ agreed = [e \in Ends |-> began]
  /\ ops = [e \in Ends |-> <<>>] /\ chan = [e \in Ends |-> <<>>]
  /\ sent = [e \in Ends |-> IF began THEN "camera" ELSE "none"] /\ sharing = [e \in Ends |-> FALSE]
  /\ wire = [e \in Ends |-> {}]
  /\ cmds = [e \in Ends |-> <<>>] /\ pickers = [e \in Ends |-> 0] /\ events = [e \in Ends |-> <<>>]
  /\ ui = [e \in Ends |-> [video |-> began, request |-> FALSE, camera |-> TRUE, sharing |-> FALSE]]
  /\ presses = 0 /\ retold = 0
  /\ past = [e \in Ends |-> {}]

-----------------------------------------------------------------------------
(* The call screen: its buttons send commands; its properties follow events. *)

Press(e, cmd, shown) ==
  /\ cmds' = [cmds EXCEPT ![e] = Append(@, cmd)]
  /\ ui' = [ui EXCEPT ![e] = shown]
  /\ UNCHANGED <<began, call, engines, video, wire, events, retold, past>>

\* The prompt is taken down before the command is sent.
PressAccept(e) ==
  /\ ui[e].request
  /\ Press(e, "accept", [ui[e] EXCEPT !.request = FALSE])
  /\ UNCHANGED presses

PressDecline(e) ==
  /\ ui[e].request
  /\ Press(e, "decline", [ui[e] EXCEPT !.request = FALSE])
  /\ UNCHANGED presses

CountedPress(e, cmd, shown) ==
  presses < MaxPresses /\ presses' = presses + 1 /\ Press(e, cmd, shown)

PressUpgrade(e) == ~ui[e].video /\ CountedPress(e, "upgrade", ui[e])

PressCamera(e) ==
  /\ ui[e].video
  /\ CountedPress(e, IF ui[e].camera THEN "camera off" ELSE "camera on", [ui[e] EXCEPT !.camera = ~@])

PressShare(e) ==
  CountedPress(e, IF ui[e].sharing THEN "share off" ELSE "share on", [ui[e] EXCEPT !.sharing = ~@])

\* CallUpdate and CallScreenShare replace the property, CallVideoUpgradeRequest raises the prompt.
Shown(e, event) ==
  CASE event = "active video" -> [ui[e] EXCEPT !.video = TRUE]
    [] event = "active audio" -> [ui[e] EXCEPT !.video = FALSE]
    [] event = "request"      -> [ui[e] EXCEPT !.request = TRUE]
    [] event = "share on"     -> [ui[e] EXCEPT !.sharing = TRUE]
    [] event = "share off"    -> [ui[e] EXCEPT !.sharing = FALSE]

Show(e) ==
  /\ events[e] # <<>>
  /\ ui' = [ui EXCEPT ![e] = Shown(e, Head(events[e]))]
  /\ events' = [events EXCEPT ![e] = Tail(@)]
  /\ UNCHANGED <<began, call, engines, video, wire, cmds, counts, past>>

-----------------------------------------------------------------------------
(* Commands: none of them awaits before it acts, except for the picker.      *)

Emit(e, event) == events' = [events EXCEPT ![e] = Append(@, event)]

Ask(e, operations) == ops' = [ops EXCEPT ![e] = @ \o operations]

Note(e, marks) == past' = [past EXCEPT ![e] = @ \cup marks]

Forget(e, marks) == past' = [past EXCEPT ![e] = @ \ marks]

\* Mutant: a branch that is there is set to the camera again.
AddBranchAgain(e) == "camera"

\* add_video_send_branch: nothing with a branch; else the camera is selected.  An element that
\* fails may leave the branch half built, and the branch is then taken for there.
AddBranch(e) == IF sent[e] = "none" THEN "camera" ELSE sent[e]

BranchFails(e, left) == sent[e] = "none" /\ left \in {"none", "camera"}

Command(e, cmd) ==
  /\ cmds[e] # <<>> /\ Head(cmds[e]) = cmd
  /\ cmds' = [cmds EXCEPT ![e] = Tail(@)]
  /\ UNCHANGED <<began, ui, counts>>

\* Nothing for a video call or with a branch; else the branch is added and an offer is asked for.
UpgradeToVideo(e) ==
  /\ Command(e, "upgrade")
  /\ IF call[e].video \/ sent[e] # "none"
     THEN UNCHANGED <<sent, ops, past>>
     ELSE \/ /\ sent' = [sent EXCEPT ![e] = AddBranch(e)]
             /\ Ask(e, <<"create offer">>)
             /\ Note(e, {"offered"})
          \/ \E left \in {"none", "camera"} :
               /\ BranchFails(e, left)
               /\ sent' = [sent EXCEPT ![e] = left]
               /\ Note(e, {"failed"})
               /\ UNCHANGED ops
  /\ UNCHANGED <<call, sig, agreed, chan, sharing, wire, pickers, events>>

\* Mutant: the answer is asked for before the offer is set.
AnswerFirst == <<"create answer", "remote offer">>

\* apply_video_offer
ApplyOffer == <<"remote offer", "create answer">>

\* The pending contents are taken first.  The other's offer is applied and an answer asked for, and
\* the call is a video call from here on, whatever webrtcbin makes of the two; if the branch fails
\* nobody is told.
AcceptVideoUpgrade(e) ==
  /\ Command(e, "accept")
  /\ IF call[e].video \/ ~call[e].pending
     THEN UNCHANGED <<call, sent, ops, events, past>>
     ELSE \/ /\ call' = [call EXCEPT ![e] = [video |-> TRUE, pending |-> FALSE]]
             /\ sent' = [sent EXCEPT ![e] = AddBranch(e)]
             /\ Ask(e, ApplyOffer)
             /\ Emit(e, "active video")
             /\ Note(e, {"accepted"})
          \/ \E left \in {"none", "camera"} :
               /\ BranchFails(e, left)
               /\ call' = [call EXCEPT ![e].pending = FALSE]
               /\ sent' = [sent EXCEPT ![e] = left]
               /\ Note(e, {"failed"})
               /\ UNCHANGED <<ops, events>>
  /\ UNCHANGED <<sig, agreed, chan, sharing, wire, pickers>>

DeclineVideoUpgrade(e) ==
  /\ Command(e, "decline")
  /\ call' = [call EXCEPT ![e].pending = FALSE]
  /\ wire' = IF call[e].pending THEN [wire EXCEPT ![Other(e)] = @ \cup {"content-reject"}] ELSE wire
  /\ UNCHANGED <<engines, video, events, past>>

\* set_video_enabled: selects the camera or the black source, a shared screen or not.
SetCamera(e) ==
  \E on \in BOOLEAN :
    /\ Command(e, IF on THEN "camera on" ELSE "camera off")
    /\ IF sent[e] = "none" THEN UNCHANGED <<sent, past>>
       ELSE /\ sent' = [sent EXCEPT ![e] = IF on THEN "camera" ELSE "black"]
            /\ past' = [past EXCEPT ![e] = (IF on THEN @ ELSE @ \ {"exposed"})
                                           \cup (IF sharing[e] THEN {"covered"} ELSE {})]
    /\ UNCHANGED <<call, engines, sharing, pickers, wire, events>>

OpenPicker(e) ==
  /\ Command(e, "share on")
  /\ pickers' = [pickers EXCEPT ![e] = @ + 1]
  /\ UNCHANGED <<call, engines, sent, sharing, wire, events, past>>

\* The first share of an audio call adds the branch and asks for an offer, as an upgrade does.
StartScreenShare(e) ==
  /\ pickers[e] > 0
  /\ pickers' = [pickers EXCEPT ![e] = @ - 1]
  /\ sent' = [sent EXCEPT ![e] = "screen"]
  /\ sharing' = [sharing EXCEPT ![e] = TRUE]
  /\ IF sent[e] = "none" THEN Ask(e, <<"create offer">>) ELSE UNCHANGED ops
  /\ past' = [past EXCEPT ![e] = (IF sent[e] = "none" THEN @ \cup {"offered"} ELSE @)
                                 \ {"covered", "unsaid"}]
  /\ Emit(e, "share on")
  /\ UNCHANGED <<began, call, sig, agreed, chan, wire, cmds, ui, counts>>

PickerCancelled(e) ==
  /\ pickers[e] > 0
  /\ pickers' = [pickers EXCEPT ![e] = @ - 1]
  /\ Emit(e, "share off")
  /\ Note(e, IF sharing[e] THEN {"unsaid"} ELSE {})
  /\ UNCHANGED <<began, call, engines, sent, sharing, wire, cmds, ui, counts>>

\* Back to the camera, whether or not the user had turned it off.
StopScreenShare(e) ==
  /\ Command(e, "share off")
  /\ Emit(e, "share off")
  /\ sharing' = [sharing EXCEPT ![e] = FALSE]
  /\ sent' = IF sharing[e] THEN [sent EXCEPT ![e] = "camera"] ELSE sent
  /\ past' = [past EXCEPT ![e] = (IF sharing[e] THEN @ \cup {"exposed"} ELSE @)
                                 \ {"covered", "unsaid"}]
  /\ UNCHANGED <<call, engines, wire, pickers>>

-----------------------------------------------------------------------------
(* webrtcbin (external): one operation at a time.  A description that it     *)
(* makes is set as the local one by a further operation, and is sent to the  *)
(* engine's channel at once.                                                 *)

Rest(e) == Tail(ops[e])

Operation(e, op) ==
  /\ ops[e] # <<>> /\ Head(ops[e]) = op
  /\ UNCHANGED <<began, call, video, wire, callScreen, counts, past>>

Describe(e, kind) ==
  /\ ops' = [ops EXCEPT ![e] = Append(Rest(e), IF kind = "offer" THEN "local offer" ELSE "local answer")]
  /\ chan' = [chan EXCEPT ![e] = Append(@, kind)]
  /\ UNCHANGED <<sig, agreed>>

CreateOffer(e) == Operation(e, "create offer") /\ Describe(e, "offer")

\* An answer is only made of a remote offer.
CreateAnswer(e) ==
  /\ Operation(e, "create answer")
  /\ IF sig[e] = "have-remote-offer" THEN Describe(e, "answer")
     ELSE ops' = [ops EXCEPT ![e] = Rest(e)] /\ UNCHANGED <<sig, agreed, chan>>

\* A description that does not fit the signalling state is dropped.
Describes(e, op, from, to) ==
  /\ Operation(e, op)
  /\ ops' = [ops EXCEPT ![e] = Rest(e)]
  /\ IF sig[e] = from
     THEN sig' = [sig EXCEPT ![e] = to] /\ agreed' = [agreed EXCEPT ![e] = @ \/ to = "stable"]
     ELSE UNCHANGED <<sig, agreed>>
  /\ UNCHANGED chan

LocalOffer(e) == Describes(e, "local offer", "stable", "have-local-offer")
RemoteOffer(e) == Describes(e, "remote offer", "stable", "have-remote-offer")
LocalAnswer(e) == Describes(e, "local answer", "have-remote-offer", "stable")
RemoteAnswer(e) == Describes(e, "remote answer", "have-local-offer", "stable")

\* Connected and Completed are both reported as connected, and again when the state comes back.
ReportConnected(e) ==
  /\ retold < MaxRetold /\ retold' = retold + 1
  /\ chan' = [chan EXCEPT ![e] = Append(@, "connected")]
  /\ UNCHANGED <<began, call, sig, agreed, ops, video, wire, callScreen, presses, past>>

-----------------------------------------------------------------------------
(* The engine's pump, and the handlers of the other end's stanzas.           *)

Pumped(e, ev) ==
  /\ chan[e] # <<>> /\ Head(chan[e]) = ev
  /\ chan' = [chan EXCEPT ![e] = Tail(@)]
  /\ UNCHANGED <<began, call, sig, agreed, ops, video, cmds, ui, counts>>

PumpDescription(e) ==
  \E kind \in {"offer", "answer"} :
    /\ Pumped(e, kind)
    /\ wire' = [wire EXCEPT ![Other(e)] =
                  @ \cup {IF kind = "offer" THEN "content-add" ELSE "content-accept"}]
    /\ UNCHANGED <<events, past>>

\* The kind of call told is the one that start_call was given.
PumpRetold(e) ==
  /\ Pumped(e, "connected")
  /\ Emit(e, IF began THEN "active video" ELSE "active audio")
  /\ Note(e, {"retold"})
  /\ UNCHANGED wire

Handle(e, stanza) ==
  /\ stanza \in wire[e]
  /\ wire' = [wire EXCEPT ![e] = @ \ {stanza}]
  /\ UNCHANGED <<began, sig, agreed, chan, video, cmds, ui, counts, past>>

ContentAdd(e) ==
  /\ Handle(e, "content-add")
  /\ IF call[e].video THEN UNCHANGED <<call, events>>
     ELSE call' = [call EXCEPT ![e].pending = TRUE] /\ Emit(e, "request")
  /\ UNCHANGED ops

\* Mutant: the call screen is not told.
ContentAcceptQuiet(e) ==
  /\ Handle(e, "content-accept")
  /\ call' = [call EXCEPT ![e].video = TRUE]
  /\ Ask(e, <<"remote answer">>)
  /\ UNCHANGED events

\* Mutant: the answer is applied as an offer.
ContentAcceptAsOffer(e) ==
  /\ Handle(e, "content-accept")
  /\ call' = [call EXCEPT ![e].video = TRUE]
  /\ Ask(e, <<"remote offer">>)
  /\ Emit(e, "active video")

ContentAccept(e) ==
  /\ Handle(e, "content-accept")
  /\ call' = [call EXCEPT ![e].video = TRUE]
  /\ Ask(e, <<"remote answer">>)
  /\ Emit(e, "active video")

\* Only logged: the engine keeps its offer.
ContentReject(e) == Handle(e, "content-reject") /\ UNCHANGED <<call, ops, events>>

-----------------------------------------------------------------------------
User(e) ==
  \/ PressUpgrade(e) \/ PressAccept(e) \/ PressDecline(e) \/ PressCamera(e) \/ PressShare(e)
  \/ StartScreenShare(e) \/ PickerCancelled(e)

Engine(e) ==
  \/ CreateOffer(e) \/ CreateAnswer(e)
  \/ LocalOffer(e) \/ RemoteOffer(e) \/ LocalAnswer(e) \/ RemoteAnswer(e)

Core(e) ==
  \/ UpgradeToVideo(e) \/ AcceptVideoUpgrade(e) \/ DeclineVideoUpgrade(e)
  \/ SetCamera(e) \/ OpenPicker(e) \/ StopScreenShare(e)
  \/ PumpDescription(e) \/ PumpRetold(e)
  \/ ContentAdd(e) \/ ContentAccept(e) \/ ContentReject(e)

UNext == \E e \in Ends : User(e) \/ Show(e) \/ Engine(e) \/ ReportConnected(e) \/ Core(e)

\* The work of a pressed button is finite, so fairness of an end's tasks as a whole is enough.
USpec ==
  /\ UInit /\ [][UNext]_upgradeVars
  /\ \A e \in Ends : WF_upgradeVars(Show(e) \/ Engine(e) \/ Core(e))

-----------------------------------------------------------------------------
(* Properties.                                                               *)

Quiet ==
  \A e \in Ends : /\ ops[e] = <<>> /\ chan[e] = <<>> /\ wire[e] = {}
                  /\ cmds[e] = <<>> /\ events[e] = <<>> /\ pickers[e] = 0

Glare == \A e \in Ends : "offered" \in past[e]

\* Both ends hold the call for the same kind once everything said is handled (jingle.rs:1013, 1142),
\* and a call held for video has negotiated it: unless both ends made an offer, which webrtcbin
\* refuses without the code looking (lib.rs:240).
VideoAgrees ==
  Quiet /\ ~Glare => /\ \A e \in Ends : call[e].video = call[Other(e)].video
                     /\ \A e \in Ends : call[e].video => agreed[e] /\ sig[e] = "stable"

\* At rest the call screen shows the kind that the core holds, unless the engine of an audio call
\* reported connected again, which tells the kind the call began with; the prompt that is up has an
\* offer to accept or decline, and an offer that waits for an answer has its prompt unless the call
\* is a video call by now (session.rs:1475, jingle.rs:711, 1017, 1140).
ScreenKnowsCall ==
  Quiet => \A e \in Ends : /\ "retold" \in past[e] \/ ui[e].video = call[e].video
                           /\ ui[e].request => call[e].pending
                           /\ call[e].pending => ui[e].request \/ call[e].video

\* At rest a camera shown as off sends nothing and a screen shown as shared is what is sent, except
\* that the end of a share turns the camera on, the camera button replaces a shared screen and the
\* cancel of a second picker takes a running share off the button (lib.rs:389, 290; client.rs:866).
SentAsShown ==
  Quiet => \A e \in Ends :
             /\ ~ui[e].camera /\ "exposed" \notin past[e] => sent[e] # "camera"
             /\ "unsaid" \notin past[e] => ui[e].sharing = sharing[e]
             /\ sharing[e] /\ "covered" \notin past[e] => sent[e] = "screen"

\* An accepted upgrade comes to a video call at both ends, unless both ends made an offer.
AcceptedIsAgreed ==
  \A e \in Ends : "accepted" \in past[e] ~> (Glare \/ \A f \in Ends : agreed[f] /\ call[f].video)
=============================================================================
