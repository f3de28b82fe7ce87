-------------------------------- MODULE Muji --------------------------------
(***************************************************************************)
(* Group calls of one room: the mesh of per-pair legs of mxc-proto's       *)
(* jingle.rs (place_group_call, leave_group_call, observe_muji_presence,   *)
(* maybe_initiate, remesh, the engine pump) and muji.rs.  Everything runs  *)
(* on one thread; place_group_call alone awaits between its two halves.    *)
(* Engines report from threads of their own into channels, so a report may *)
(* be handled after the leg is gone.                                       *)
(*                                                                         *)
(* A leg is a participant and a number of a pool; a number is free again   *)
(* when no engine, member, unread report or other client knows it.         *)
(***************************************************************************)
EXTENDS Naturals, FiniteSets

CONSTANTS
  Mine,      \* other participants that we call: our occupant JID is the greater one
  Theirs,    \* other participants that call us; the map is walked in the order of the numbers
  Sids,      \* the pool of session ids with a participant
  MaxJoins,  \* PlaceGroupCall commands (bound)
  MaxReports,\* unread reports at once (bound)
  MaxTurns,  \* presences, restarts, failures and leaves (bound)
  MaxLoops   \* re-mesh loops (bound)

Peers == Mine \cup Theirs
Legs == Peers \X Sids

ASSUME MujiAssumption ==
  /\ Sids \subseteq Nat \ {0} /\ Peers \subseteq Nat \ {0}
  /\ Mine \cap Theirs = {}
  /\ MaxJoins \in Nat /\ MaxReports \in Nat /\ MaxTurns \in Nat /\ MaxLoops \in Nat \ {0}

VARIABLES
  inConf,    \* the conference is in Calls::conferences
  muted,     \* Conference::muted
  members,   \* Conference::members: [sid, state, late]; sid 0 without a session
  seen,      \* muji_seen: the last presence of each participant
  invited,   \* an invite to the room's call is shown
  announced, \* the last presence that we sent has a ready <muji>
  screen,    \* CURRENT_CONFERENCE: the call is on screen
  engine,    \* Calls::active: [state, silent, orphan] of each leg's engine
  reports,   \* unread reports of engines: <<leg, "connected" or "failed">>
  remote,    \* the leg that a participant which calls us holds with us, 0 without
  loops,     \* re-mesh loops that are asleep
  joins,     \* PlaceGroupCall commands so far
  inside,    \* those that are between their two halves
  turns,
  hurried    \* left while a join was between its halves (history)

conference == <<inConf, muted, members>>
room == <<seen, invited, announced, screen>>
vars == <<inConf, muted, members, seen, invited, announced, screen, engine, reports, remote, loops,
          joins, inside, turns, hurried>>

\* late: the leg was reported connected after it had been torn down (history).
Members == [sid : Sids \cup {0}, late : BOOLEAN,
            state : {"absent", "connecting", "active", "ended"}]
Absent == [sid |-> 0, state |-> "absent", late |-> FALSE]
Pending(n) == [sid |-> n, state |-> "connecting", late |-> FALSE]
Nobody == [p \in Peers |-> Absent]

\* orphan: the leg's member was overwritten by another leg or another join (history).
Engines == [state : {"none", "negotiating", "connected"}, silent : BOOLEAN, orphan : BOOLEAN]
NoEngine == [state |-> "none", silent |-> FALSE, orphan |-> FALSE]

TypeOK ==
  /\ inConf \in BOOLEAN /\ muted \in BOOLEAN
  /\ members \in [Peers -> Members]
  /\ seen \in [Peers -> {"none", "preparing", "ready"}]
  /\ invited \in BOOLEAN /\ announced \in BOOLEAN /\ screen \in BOOLEAN
  /\ engine \in [Legs -> Engines]
  /\ reports \subseteq Legs \X {"connected", "failed"}
  /\ remote \in [Theirs -> Sids \cup {0}]
  /\ loops \in 0..MaxLoops
  /\ joins \in 0..MaxJoins /\ inside \in 0..joins
  /\ turns \in 0..MaxTurns
  /\ hurried \in BOOLEAN

\* The others are already in the call, or not.
Init ==
  /\ inConf = FALSE /\ muted = FALSE /\ members = Nobody
  /\ \E s \in {"none", "ready"} : seen = [p \in Peers |-> s] /\ invited = (s = "ready")
  /\ announced = FALSE /\ screen = FALSE
  /\ engine = [s \in Legs |-> NoEngine] /\ reports = {}
  /\ remote = [p \in Theirs |-> 0]
  /\ loops = 0
  /\ joins = 0 /\ inside = 0
  /\ turns = 0
  /\ hurried = FALSE

-----------------------------------------------------------------------------
Turn == turns < MaxTurns /\ turns' = turns + 1
Alive(s) == engine[s].state # "none"
LegsOf(ms) == {<<p, ms[p].sid>> : p \in {q \in Peers : ms[q].sid # 0}}
Reported(s) == \E what \in {"connected", "failed"} : <<s, what>> \in reports
Free(p, n) ==
  ~Alive(<<p, n>>) /\ ~Reported(<<p, n>>) /\ members[p].sid # n /\ ~(p \in Theirs /\ remote[p] = n)
IsNext(p, n) == Free(p, n) /\ \A m \in Sids : Free(p, m) => n <= m

Ready == {p \in Peers : seen[p] = "ready"}
\* set_member_state.
SetState(s, state) ==
  IF s \in LegsOf(members) THEN [members EXCEPT ![s[1]].state = state] ELSE members

\* Mutant of Ended: the engines of the legs are left alone.
EndedNot(gone) == engine
\* Engines after the legs in gone are torn down, and participants after they are told.
Ended(gone) == [s \in Legs |-> IF s \in gone THEN NoEngine ELSE engine[s]]
Told(gone) == [p \in Theirs |-> IF <<p, remote[p]>> \in gone THEN 0 ELSE remote[p]]
Orphans(gone) == [s \in Legs |-> IF s \in gone /\ Alive(s) THEN [engine[s] EXCEPT !.orphan = TRUE]
                                                         ELSE engine[s]]

\* Mutant of Busy: a leg that we wait for does not count.
BusyNot(ms) == FALSE
\* has_connecting_leg.
Busy(ms) == \E p \in Peers : ms[p].sid # 0 /\ ms[p].state = "connecting"

\* The engine of start_call after apply_conf_state_to_leg.
Fresh == [state |-> "negotiating", silent |-> muted, orphan |-> FALSE]

\* start_call and register_member_session for the leg n with p.
StartLeg(ms, e, p, n) ==
  /\ engine' = [e EXCEPT ![<<p, n>>] = Fresh]
  /\ members' = [ms EXCEPT ![p] = Pending(n)]

\* maybe_initiate for each participant in ps, in the order of the map: those that call us are
\* listed, and the first that we call and have no session with gets a leg, unless one is
\* negotiating.
Listed(ms, ps) == [p \in Peers |-> IF p \in ps \cap Theirs /\ ms[p] = Absent THEN Pending(0) ELSE ms[p]]
Uncalled(ms, ps) == {p \in ps \cap Mine : ms[p].sid = 0}
Mesh(ms, e, ps) ==
  IF Uncalled(ms, ps) = {} \/ Busy(ms)
    THEN members' = Listed(ms, ps) /\ engine' = e
    ELSE \E p \in Uncalled(ms, ps), n \in Sids :
           /\ \A q \in Uncalled(ms, ps) : p <= q
           /\ IsNext(p, n)
           /\ StartLeg(Listed(ms, ps), e, p, n)

-----------------------------------------------------------------------------
(* Joining and leaving.                                                      *)

\* place_group_call up to the await of the device id: a fresh conference.
Insert ==
  /\ joins < MaxJoins
  /\ joins' = joins + 1 /\ inside' = inside + 1
  /\ inConf' = TRUE /\ muted' = FALSE /\ members' = Nobody
  /\ invited' = FALSE
  /\ engine' = Orphans(LegsOf(members))
  /\ UNCHANGED <<seen, announced, screen, reports, remote, loops, turns, hurried>>

\* The rest, without asking again: presence, mesh, update and the re-mesh loop.
Announce ==
  /\ inside > 0
  /\ loops < MaxLoops
  /\ inside' = inside - 1
  /\ announced' = TRUE
  /\ loops' = loops + 1
  /\ screen' = inConf
  /\ Mesh(members, engine, IF inConf THEN Ready ELSE {})
  /\ UNCHANGED <<inConf, muted, seen, invited, reports, remote, joins, turns, hurried>>

\* Mutant of Leave: the room is not told.
LeaveQuiet ==
  /\ screen /\ inConf
  /\ Turn
  /\ inConf' = FALSE /\ muted' = FALSE /\ members' = Nobody
  /\ screen' = FALSE
  /\ engine' = Ended(LegsOf(members))
  /\ remote' = Told({s \in LegsOf(members) : Alive(s)})
  /\ hurried' = (hurried \/ inside > 0)
  /\ UNCHANGED <<seen, invited, announced, reports, loops, joins, inside>>

\* leave_group_call: plain presence, then every member's session; muji_seen stays.  The user
\* needs the call on the screen for it.
Leave ==
  /\ screen /\ inConf
  /\ Turn
  /\ inConf' = FALSE /\ muted' = FALSE /\ members' = Nobody
  /\ announced' = FALSE /\ screen' = FALSE
  /\ engine' = Ended(LegsOf(members))
  /\ remote' = Told({s \in LegsOf(members) : Alive(s)})
  /\ hurried' = (hurried \/ inside > 0)
  /\ UNCHANGED <<seen, invited, reports, loops, joins, inside>>

\* set_group_mute.
Mute ==
  /\ screen /\ inConf
  /\ Turn
  /\ muted' = ~muted
  /\ engine' = [s \in Legs |-> IF s \in LegsOf(members) /\ Alive(s)
                                 THEN [engine[s] EXCEPT !.silent = ~muted] ELSE engine[s]]
  /\ UNCHANGED <<inConf, members, room, reports, remote, loops, joins, inside, hurried>>

-----------------------------------------------------------------------------
(* observe_muji_presence.                                                    *)

Observe(p, s) ==
  /\ Turn
  /\ seen' = [seen EXCEPT ![p] = s]
  /\ CASE ~inConf ->
            /\ invited' = (\E q \in Peers : seen'[q] # "none")
            /\ UNCHANGED <<members, engine, remote>>
       [] inConf /\ s = "ready" ->
            Mesh(members, engine, {p}) /\ UNCHANGED <<invited, remote>>
       [] inConf /\ s = "preparing" ->
            /\ members' = IF members[p] = Absent THEN [members EXCEPT ![p] = Pending(0)] ELSE members
            /\ UNCHANGED <<invited, engine, remote>>
       [] inConf /\ s = "none" ->
            /\ members' = [members EXCEPT ![p] = Absent]
            /\ engine' = Ended({<<p, members[p].sid>>})
            /\ remote' = [q \in Theirs |-> IF q = p THEN 0 ELSE remote[q]]
            /\ UNCHANGED invited
  /\ screen' = (inConf /\ (screen \/ members' # members \/ s # "ready"))
  /\ UNCHANGED <<inConf, muted, announced, reports, loops, joins, inside, hurried>>

-----------------------------------------------------------------------------
(* The other side.                                                           *)

\* session-initiate, from a participant that saw us ready and has no leg with us.
Offer(p) ==
  /\ p \in Theirs /\ remote[p] = 0 /\ announced /\ inConf /\ seen[p] # "none"
  /\ \E n \in Sids :
       /\ IsNext(p, n)
       /\ StartLeg(members, Orphans({<<p, members[p].sid>>}), p, n)
       /\ remote' = [remote EXCEPT ![p] = n]
  /\ UNCHANGED <<inConf, muted, room, reports, loops, joins, inside, turns, hurried>>

\* The other end of a leg has it.
Held(s) == s[1] \in Theirs => remote[s[1]] = s[2]

\* session-terminate for a leg that is alive.
Terminate(s) ==
  /\ Alive(s) /\ Held(s) /\ Turn
  /\ remote' = Told({s})
  /\ engine' = Ended({s})
  /\ members' = SetState(s, "ended")
  /\ screen' = inConf
  /\ UNCHANGED <<inConf, muted, seen, invited, announced, reports, loops, joins, inside, hurried>>

\* A participant's client restarts in its place: it knows nothing of the leg.
Restart(p) ==
  /\ remote[p] # 0 /\ Turn
  /\ remote' = [remote EXCEPT ![p] = 0]
  /\ UNCHANGED <<conference, room, engine, reports, loops, joins, inside, hurried>>

-----------------------------------------------------------------------------
(* Engines, their pumps, and the re-mesh loop.                               *)

\* ICE comes up, when both ends hold the leg.
Settle(s) ==
  /\ engine[s].state = "negotiating" /\ ~Reported(s) /\ Cardinality(reports) < MaxReports
  /\ Held(s)
  /\ reports' = reports \cup {<<s, "connected">>}
  /\ UNCHANGED <<conference, room, engine, remote, loops, joins, inside, turns, hurried>>

Break(s) ==
  /\ Alive(s) /\ ~Reported(s) /\ Cardinality(reports) < MaxReports /\ Turn
  /\ reports' = reports \cup {<<s, "failed">>}
  /\ UNCHANGED <<conference, room, engine, remote, loops, joins, inside, hurried>>

\* set_member_state for a connected leg.
Connected(s) ==
  IF s \in LegsOf(members)
    THEN [members EXCEPT ![s[1]].state = "active", ![s[1]].late = @ \/ ~Alive(s)]
    ELSE members

\* The pump: Connected or Failed, then initiate_next_pending.
PumpConnected(s) ==
  /\ <<s, "connected">> \in reports
  /\ reports' = reports \ {<<s, "connected">>}
  /\ Mesh(Connected(s),
          IF Alive(s) THEN [engine EXCEPT ![s].state = "connected"] ELSE engine,
          IF inConf THEN Ready \cap Mine ELSE {})
  /\ screen' = inConf
  /\ UNCHANGED <<inConf, muted, seen, invited, announced, remote, loops, joins, inside, turns, hurried>>

PumpFailed(s) ==
  /\ <<s, "failed">> \in reports
  /\ reports' = reports \ {<<s, "failed">>}
  /\ Mesh(SetState(s, "ended"), Ended({s}), IF inConf THEN Ready \cap Mine ELSE {})
  /\ screen' = inConf
  /\ UNCHANGED <<inConf, muted, seen, invited, announced, remote, loops, joins, inside, turns, hurried>>

\* A loop wakes up: it ends when the conference is gone, and otherwise remesh drops the members
\* whose leg is dead, and those that have been connecting for twelve seconds, and calls whoever
\* has no leg.
LoopEnds ==
  /\ loops > 0 /\ ~inConf
  /\ loops' = loops - 1
  /\ UNCHANGED <<conference, room, engine, reports, remote, joins, inside, turns, hurried>>

\* Mutant of Dead: the member of a dead leg is kept.
DeadNot == {}
Dead == {p \in Peers : members[p].state = "ended"}
Connecting == {p \in Peers : members[p].state = "connecting"}
Remesh(stuck) ==
  /\ loops > 0 /\ inConf
  /\ LET drop == Dead \cup stuck
         gone == {s \in LegsOf(members) : s[1] \in drop}
     IN /\ Mesh([p \in Peers |-> IF p \in drop THEN Absent ELSE members[p]], Ended(gone), Ready)
        /\ remote' = Told({s \in gone : Alive(s)})
  /\ screen' = (screen \/ members' # members)
  /\ UNCHANGED <<inConf, muted, seen, invited, announced, reports, loops, joins, inside, turns, hurried>>

-----------------------------------------------------------------------------
Next ==
  \/ Insert \/ Announce
  \/ Leave \/ Mute
  \/ \E p \in Peers, s \in {"none", "preparing", "ready"} : Observe(p, s)
  \/ \E p \in Theirs : Offer(p) \/ Restart(p)
  \/ \E s \in Legs : Terminate(s) \/ Settle(s) \/ Break(s) \/ PumpConnected(s) \/ PumpFailed(s)
  \/ LoopEnds \/ \E stuck \in SUBSET Connecting : Remesh(stuck)

Spec == Init /\ [][Next]_vars

\* Tasks run, timers fire and reports are handled; and a participant that is called again and
\* again answers, and is seen to in time, once.
Fairness ==
  /\ WF_vars(Announce) /\ WF_vars(LoopEnds) /\ WF_vars(Remesh(Connecting))
  /\ WF_vars(\E s \in Legs : PumpConnected(s) \/ PumpFailed(s))
  /\ \A p \in Peers :
       /\ SF_vars(\E n \in Sids : Settle(<<p, n>>))
       /\ SF_vars(\E n \in Sids : Alive(<<p, n>>) /\ PumpConnected(<<p, n>>))
LiveSpec == Spec /\ Fairness

-----------------------------------------------------------------------------
(* Properties.                                                               *)

\* Hanging up and muting reach every engine that is alive: it is the session of a member, but for
\* those whose member got another leg, or whose conference was placed again, while they lived; and
\* it is silent exactly while the conference is muted.
EnginesOwned ==
  \A s \in Legs : Alive(s) =>
    \/ engine[s].orphan
    \/ s \in LegsOf(members) /\ (engine[s].silent <=> muted)

\* One at a time (the comment of maybe_initiate: libnice crashes otherwise): of the legs that we
\* start, at most one is negotiating, but for orphaned ones.  Legs of the others' are not counted.
OneAtATime ==
  Cardinality({s \in Legs : s[1] \in Mine /\ engine[s].state = "negotiating" /\ ~engine[s].orphan}) <= 1

\* Outside a join at work, the room is told that we are in the call exactly while we are, unless
\* the call was left while it was being joined.
RoomKnows == inside = 0 /\ ~hurried => (announced <=> inConf)

\* The mesh heals: a ready participant that we are to call gets a connected leg, again and again,
\* as long as the call lasts and its report does not come late.
MeshHeals ==
  \A p \in Mine : []<>(\/ ~inConf \/ seen[p] # "ready" \/ members[p].late
                      \/ (members[p].sid # 0 /\ engine[<<p, members[p].sid>>].state = "connected"))
=============================================================================
