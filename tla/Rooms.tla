-------------------------------- MODULE Rooms --------------------------------
(***************************************************************************)
(* One private room: joined and left by commands and by the bootstrap      *)
(* (muc.rs, client.rs, bootstrap.rs), remembered as a bookmark on the      *)
(* server (bookmarks.rs) and as a conversation in the store, its occupants *)
(* and members tracked from presence and from affiliation lists            *)
(* (presence.rs, muc.rs configure_room).  Whoever is in that table with an *)
(* affiliation is who a group message is encrypted to.                     *)
(*                                                                         *)
(* The room is members-only and not anonymous, so its occupants are        *)
(* members and their JIDs are known.  The room, the server and the other   *)
(* devices are external.                                                   *)
(***************************************************************************)
EXTENDS Naturals, FiniteSets, Sequences, SequencesExt

CONSTANTS
  People,     \* the others
  MaxEvents,  \* what people, devices, sessions and the user do, in all (bound)
  MaxTasks    \* presences in hand at once (bound)

Me == "me"

ASSUME RoomsAssumption ==
  /\ IsFiniteSet(People) /\ Me \notin People
  /\ MaxEvents \in Nat /\ MaxTasks \in Nat

VARIABLES
  member,    \* the room's members
  present,   \* its occupants, without us
  inside,    \* we are an occupant
  bookmark,  \* the room's bookmark: "none", "plain" or "auto" (autojoin)
  up,        \* a session is established
  out,       \* presence that we have sent and the room has not taken
  wire,      \* presence on its way to us: <<who, here>>
  handlers,  \* presence in hand: <<who, here, step>>, in the order in which it came
  conv,      \* the conversation: "none", "idle" or "auto" (muc_autojoin)
  nicks,     \* rows of muc_occupants that presence made
  jids,      \* those that an affiliation list made
  shown,     \* occupants in the session's PRESENCE map
  join,      \* the join that a command or the bootstrap runs: its step, the members that the
             \* server listed for it and whether the conversation it looked up is gone
  leave,     \* the leave command: "off", "bookmark" or "delete"
  boot,      \* the bootstrap: "off", "fetch", "upsert", "list" or "join"
  fetched,   \* the bookmark that the bootstrap was told
  wish,      \* what the user last asked for (history)
  listed,    \* members that a list has put into the table (history)
  crossed,   \* a task of the room ran while the user asked for the opposite (history)
  failed,    \* a change of the bookmark failed (history)
  late,      \* presence came after the conversation was deleted (history)
  elsewhere, \* another device changed the bookmark (history)
  overtaken, \* people of whom a later presence was handled before an earlier one (history)
  missed,    \* people whose leaving was never told to us (history)
  events

room == <<member, present, inside>>
stream == <<up, out, wire>>
table == <<nicks, jids>>
tasks == <<join, leave, boot, fetched>>
history == <<wish, listed, crossed, failed, late, elsewhere, overtaken, missed>>
vars == <<room, bookmark, stream, handlers, conv, table, shown, tasks, history, events>>

Starters == {"user", "boot"}
NoJoin == [step |-> "off", list |-> {}, old |-> FALSE]

TypeOK ==
  /\ member \subseteq People /\ present \subseteq member /\ inside \in BOOLEAN
  /\ bookmark \in {"none", "plain", "auto"} /\ up \in BOOLEAN
  /\ out \in Seq({"join", "leave"})
  /\ wire \in Seq((People \cup {Me}) \X BOOLEAN)
  /\ handlers \in Seq((People \cup {Me}) \X BOOLEAN \X {"photo", "row", "show"})
  /\ conv \in {"none", "idle", "auto"}
  /\ nicks \subseteq People /\ jids \subseteq People /\ shown \subseteq People
  /\ join \in [Starters -> [step : {"off", "send", "configure", "ask", "listed", "last"},
                            list : SUBSET People, old : BOOLEAN]]
  /\ leave \in {"off", "bookmark", "delete"}
  /\ boot \in {"off", "fetch", "upsert", "list", "join"}
  /\ fetched \in {"none", "plain", "auto"}
  /\ wish \in {"none", "in", "out"} /\ listed \subseteq People
  /\ crossed \in BOOLEAN /\ failed \in BOOLEAN /\ late \in BOOLEAN /\ elsewhere \in BOOLEAN
  /\ overtaken \subseteq People /\ missed \subseteq People
  /\ events \in 0..MaxEvents

\* The room is new to us, or was joined before.
Init ==
  /\ member \in SUBSET People /\ present \in SUBSET member
  /\ up = TRUE /\ out = <<>> /\ wire = <<>> /\ handlers = <<>>
  /\ \/ /\ inside = FALSE /\ bookmark = "none" /\ conv = "none" /\ wish = "none"
        /\ nicks = {} /\ jids = {} /\ shown = {} /\ listed = {}
     \/ /\ inside = TRUE /\ bookmark = "auto" /\ conv = "auto" /\ wish = "in"
        /\ nicks = present /\ jids = member /\ shown = present /\ listed = member
  /\ join = [s \in Starters |-> NoJoin] /\ leave = "off" /\ boot = "off" /\ fetched = "none"
  /\ crossed = FALSE /\ failed = FALSE /\ late = FALSE /\ elsewhere = FALSE
  /\ overtaken = {} /\ missed = {}
  /\ events = 0

Event == events < MaxEvents /\ events' = events + 1
Joining == \E s \in Starters : join[s].step # "off"
Targets == nicks \cup jids

-----------------------------------------------------------------------------
(* The room, the server and the other devices.                               *)

Tell(presence) == wire' = IF inside THEN Append(wire, presence) ELSE wire

Enters(p) ==
  /\ p \in member \ present
  /\ Event
  /\ present' = present \cup {p}
  /\ Tell(<<p, TRUE>>)
  /\ UNCHANGED <<member, inside, bookmark, up, out, handlers, conv, table, shown, tasks, history>>

\* An occupant leaves, or is thrown out of the members.
Leaves(p) ==
  /\ p \in present
  /\ Event
  /\ present' = present \ {p}
  /\ member' \in {member, member \ {p}}
  /\ Tell(<<p, FALSE>>)
  /\ missed' = IF inside THEN missed ELSE missed \cup {p}
  /\ UNCHANGED <<inside, bookmark, up, out, handlers, conv, table, shown, tasks,
                 wish, listed, crossed, failed, late, elsewhere, overtaken>>

\* Nobody is told of who becomes or is no longer a member while away.
Changes(p) ==
  /\ p \notin present
  /\ Event
  /\ member' = IF p \in member THEN member \ {p} ELSE member \cup {p}
  /\ UNCHANGED <<present, inside, bookmark, stream, handlers, conv, table, shown, tasks, history>>

\* The room takes our presence; a join is answered with everyone who is there.
RoomTakes ==
  /\ up /\ out # <<>>
  /\ out' = Tail(out)
  /\ inside' = (Head(out) = "join")
  /\ wire' = wire \o (IF Head(out) = "join" THEN SetToSeq({<<p, TRUE>> : p \in present}) \o <<<<Me, TRUE>>>>
                      ELSE IF inside THEN <<<<Me, FALSE>>>> ELSE <<>>)
  /\ UNCHANGED <<member, present, bookmark, up, handlers, conv, table, shown, tasks, history, events>>

OtherDevice(b) ==
  /\ b # bookmark
  /\ Event
  /\ bookmark' = b
  /\ elsewhere' = TRUE
  /\ UNCHANGED <<room, stream, handlers, conv, table, shown, tasks,
                 wish, listed, crossed, failed, late, overtaken, missed>>

\* What is on its way is lost and the room sees us go; what is not yet sent stays queued.
SessionDown ==
  /\ up
  /\ Event
  /\ up' = FALSE /\ inside' = FALSE /\ wire' = <<>>
  /\ missed' = missed \cup {p \in People : Contains(wire, <<p, FALSE>>)}
  /\ UNCHANGED <<member, present, bookmark, out, handlers, conv, table, shown, tasks,
                 wish, listed, crossed, failed, late, elsewhere, overtaken>>

\* A fresh session starts the bootstrap.  (Bound: not while another is at work.)
SessionUp ==
  /\ ~up /\ boot = "off"
  /\ up' = TRUE
  /\ boot' = "fetch"
  /\ crossed' = (crossed \/ leave # "off")
  /\ UNCHANGED <<room, bookmark, out, wire, handlers, conv, table, shown, join, leave, fetched,
                 wish, listed, failed, late, elsewhere, overtaken, missed, events>>

-----------------------------------------------------------------------------
(* presence.rs handle_incoming: one task for each stanza.                    *)

\* A presence with a new avatar's hash waits for the picture first.
Deliver ==
  /\ wire # <<>> /\ Len(handlers) < MaxTasks
  /\ wire' = Tail(wire)
  /\ \E step \in IF Head(wire)[2] /\ Head(wire)[1] # Me THEN {"photo", "row"} ELSE {"row"} :
       handlers' = Append(handlers, Append(Head(wire), step))
  /\ UNCHANGED <<room, bookmark, up, out, conv, table, shown, tasks, history, events>>

\* Mutant: a presence that brought a picture leaves no row.
PhotoOnly(i) ==
  /\ handlers[i][3] = "photo"
  /\ handlers' = [handlers EXCEPT ![i][3] = "show"]
  /\ UNCHANGED <<room, bookmark, stream, conv, table, shown, tasks, history, events>>

Photo(i) ==
  /\ handlers[i][3] = "photo"
  /\ handlers' = [handlers EXCEPT ![i][3] = "row"]
  /\ UNCHANGED <<room, bookmark, stream, conv, table, shown, tasks, history, events>>

\* Earlier presence of the same person that has not come as far.
Earlier(i, steps) ==
  \E j \in 1..i - 1 : handlers[j][1] = handlers[i][1] /\ handlers[j][3] \in steps

Overtakes(i, steps) ==
  overtaken' = IF Earlier(i, steps) THEN overtaken \cup ({handlers[i][1]} \ {Me}) ELSE overtaken

\* Mutant: everything that was known of who leaves goes.
RowStepForgets(i) ==
  LET who == handlers[i][1] IN
  /\ handlers[i][3] = "row"
  /\ handlers' = [handlers EXCEPT ![i][3] = "show"]
  /\ conv' = IF conv = "none" THEN "idle" ELSE conv
  /\ late' = (late \/ conv = "none")
  /\ nicks' = IF who = Me THEN nicks ELSE IF handlers[i][2] THEN nicks \cup {who} ELSE nicks \ {who}
  /\ jids' = IF handlers[i][2] THEN jids ELSE jids \ {who}
  /\ Overtakes(i, {"photo", "row"})
  /\ UNCHANGED <<room, bookmark, stream, shown, tasks, wish, listed, crossed, failed, elsewhere, missed, events>>

\* conversation_id makes the conversation if there is none; then the occupant's row.
RowStep(i) ==
  LET who == handlers[i][1] IN
  /\ handlers[i][3] = "row"
  /\ handlers' = [handlers EXCEPT ![i][3] = "show"]
  /\ conv' = IF conv = "none" THEN "idle" ELSE conv
  /\ late' = (late \/ conv = "none")
  /\ nicks' = IF who = Me THEN nicks ELSE IF handlers[i][2] THEN nicks \cup {who} ELSE nicks \ {who}
  /\ Overtakes(i, {"photo", "row"})
  /\ UNCHANGED <<room, bookmark, stream, jids, shown, tasks,
                 wish, listed, crossed, failed, elsewhere, missed, events>>

\* set_presence or clear_presence and the event: the session's map follows.
Show(i) ==
  /\ handlers[i][3] = "show"
  /\ handlers' = RemoveAt(handlers, i)
  /\ shown' = IF handlers[i][2] THEN shown \cup ({handlers[i][1]} \ {Me}) ELSE shown \ {handlers[i][1]}
  /\ Overtakes(i, {"photo", "row", "show"})
  /\ UNCHANGED <<room, bookmark, stream, conv, table, tasks,
                 wish, listed, crossed, failed, late, elsewhere, missed, events>>

-----------------------------------------------------------------------------
(* Joining: muc::join, configure_room, then the bookmark or the catch-up.    *)

JoinTo(s, step) == join' = [join EXCEPT ![s].step = step]

UserJoins ==
  /\ join["user"].step = "off"
  /\ Event
  /\ JoinTo("user", "send")
  /\ wish' = "in"
  /\ crossed' = (leave # "off" \/ boot # "off")
  /\ UNCHANGED <<room, bookmark, stream, handlers, conv, table, shown, leave, boot, fetched,
                 listed, failed, late, elsewhere, overtaken, missed>>

\* Mutant: a room that is known already keeps its mark.
JoinSendKeeps(s) ==
  /\ join[s].step = "send"
  /\ conv' = IF conv = "none" THEN "auto" ELSE conv
  /\ out' = Append(out, "join")
  /\ JoinTo(s, "configure")
  /\ UNCHANGED <<room, bookmark, up, wire, handlers, table, shown, leave, boot, fetched, history, events>>

JoinSend(s) ==
  /\ join[s].step = "send"
  /\ conv' = "auto"
  /\ out' = Append(out, "join")
  /\ JoinTo(s, "configure")
  /\ UNCHANGED <<room, bookmark, up, wire, handlers, table, shown, leave, boot, fetched, history, events>>

JoinConfigure(s) ==
  /\ join[s].step = "configure"
  /\ conv' = IF conv = "none" THEN "idle" ELSE conv
  /\ JoinTo(s, "ask")
  /\ UNCHANGED <<room, bookmark, stream, handlers, table, shown, leave, boot, fetched, history, events>>

\* The features and then the lists, which the room knows as they are now; or a request fails.
JoinAsk(s) ==
  /\ join[s].step = "ask"
  /\ \/ up /\ join' = [join EXCEPT ![s].step = "listed", ![s].list = member]
     \/ JoinTo(s, "last")
  /\ UNCHANGED <<room, bookmark, stream, handlers, conv, table, shown, leave, boot, fetched, history, events>>

\* Rows for a conversation that was deleted in between find none to belong to.
JoinListed(s) ==
  LET found == IF join[s].old THEN {} ELSE join[s].list IN
  /\ join[s].step = "listed"
  /\ jids' = jids \cup found /\ listed' = listed \cup found
  /\ JoinTo(s, "last")
  /\ UNCHANGED <<room, bookmark, stream, handlers, conv, nicks, shown, leave, boot, fetched,
                 wish, crossed, failed, late, elsewhere, overtaken, missed, events>>

\* A command saves the bookmark, the bootstrap reads the archive (Timeline has that) and ends.
JoinLast(s) ==
  /\ join[s].step = "last"
  /\ join' = [join EXCEPT ![s] = NoJoin]
  /\ IF s = "boot" THEN boot' = "off" /\ UNCHANGED <<bookmark, failed>>
     ELSE /\ UNCHANGED boot
          /\ \/ up /\ bookmark' = "auto" /\ UNCHANGED failed
             \/ failed' = TRUE /\ UNCHANGED bookmark
  /\ UNCHANGED <<room, stream, handlers, conv, table, shown, leave, fetched,
                 wish, listed, crossed, late, elsewhere, overtaken, missed, events>>

-----------------------------------------------------------------------------
(* Leaving: presence, bookmark, conversation.                                *)

UserLeaves ==
  /\ leave = "off" /\ conv # "none"
  /\ Event
  /\ leave' = "bookmark"
  /\ out' = Append(out, "leave")
  /\ wish' = "out"
  /\ crossed' = (Joining \/ boot # "off")
  /\ UNCHANGED <<room, bookmark, up, wire, handlers, conv, table, shown, join, boot, fetched,
                 listed, failed, late, elsewhere, overtaken, missed>>

\* Mutant: the bookmark is kept and not joined on its own any more.
LeaveBookmarkPlain ==
  /\ leave = "bookmark"
  /\ leave' = "delete"
  /\ \/ up /\ bookmark' = (IF bookmark = "none" THEN bookmark ELSE "plain") /\ UNCHANGED failed
     \/ failed' = TRUE /\ UNCHANGED bookmark
  /\ UNCHANGED <<room, stream, handlers, conv, table, shown, join, boot, fetched,
                 wish, listed, crossed, late, elsewhere, overtaken, missed, events>>

LeaveBookmark ==
  /\ leave = "bookmark"
  /\ leave' = "delete"
  /\ \/ up /\ bookmark' = "none" /\ UNCHANGED failed
     \/ failed' = TRUE /\ UNCHANGED bookmark
  /\ UNCHANGED <<room, stream, handlers, conv, table, shown, join, boot, fetched,
                 wish, listed, crossed, late, elsewhere, overtaken, missed, events>>

\* The conversation goes with its occupants; who has looked it up holds an id of nothing.
LeaveDelete ==
  /\ leave = "delete"
  /\ leave' = "off"
  /\ conv' = "none" /\ nicks' = {} /\ jids' = {} /\ listed' = {}
  /\ join' = [s \in Starters |-> [join[s] EXCEPT !.old = @ \/ join[s].step \in {"ask", "listed"}]]
  /\ UNCHANGED <<room, bookmark, stream, handlers, shown, boot, fetched,
                 wish, crossed, failed, late, elsewhere, overtaken, missed, events>>

-----------------------------------------------------------------------------
(* The bootstrap's part: bookmarks::fetch and the rooms to join.             *)

BootFetch ==
  /\ boot = "fetch"
  /\ \/ up /\ boot' = "upsert" /\ fetched' = bookmark
     \/ boot' = "list" /\ UNCHANGED fetched
  /\ UNCHANGED <<room, bookmark, stream, handlers, conv, table, shown, join, leave, history, events>>

\* upsert_muc of what is there: a room that has no bookmark keeps its mark.
BootUpsert ==
  /\ boot = "upsert"
  /\ boot' = "list" /\ fetched' = "none"
  /\ conv' = CASE fetched = "auto" -> "auto" [] fetched = "plain" -> "idle" [] OTHER -> conv
  /\ UNCHANGED <<room, bookmark, stream, handlers, table, shown, join, leave, history, events>>

\* autojoin_mucs; the rooms before this one may keep the bootstrap for long.
BootList ==
  /\ boot = "list"
  /\ IF conv = "auto" THEN boot' = "join" /\ JoinTo("boot", "send") ELSE boot' = "off" /\ UNCHANGED join
  /\ UNCHANGED <<room, bookmark, stream, handlers, conv, table, shown, leave, fetched, history, events>>

-----------------------------------------------------------------------------
Settled ==
  /\ up /\ out = <<>> /\ wire = <<>> /\ handlers = <<>>
  /\ ~Joining /\ leave = "off" /\ boot = "off"

Next ==
  \/ \E p \in People : Enters(p) \/ Leaves(p) \/ Changes(p)
  \/ RoomTakes \/ SessionDown \/ SessionUp
  \/ \E b \in {"none", "plain", "auto"} : OtherDevice(b)
  \/ Deliver
  \/ \E i \in DOMAIN handlers : Photo(i) \/ RowStep(i) \/ Show(i)
  \/ UserJoins \/ UserLeaves \/ LeaveBookmark \/ LeaveDelete
  \/ \E s \in Starters : JoinSend(s) \/ JoinConfigure(s) \/ JoinAsk(s) \/ JoinListed(s) \/ JoinLast(s)
  \/ BootFetch \/ BootUpsert \/ BootList

Spec == Init /\ [][Next]_vars

-----------------------------------------------------------------------------
\* Whoever is in the room gets the keys of what is said there, unless the room was left and joined
\* at once, and is in the occupants' list, which shows nobody else but those who left while no
\* session told us; all unless his presences were handled out of order (presence.rs, session.rs
\* PRESENCE, muc_member_jids).
OccupantsKnown ==
  Settled /\ inside =>
    /\ ~crossed /\ ~late => present \ overtaken \subseteq Targets
    /\ present \ overtaken \subseteq shown
    /\ shown \subseteq present \cup overtaken \cup missed

\* A member whom an affiliation list named gets them too, also after he came and went
\* (configure_room, remove_muc_occupant).
AwayAreTargets == Settled => (listed \cap member) \subseteq Targets

\* A room that the user left stays left, here and on the server, through new sessions, unless a
\* join of it was under way, the bookmark could not be removed or another device put it back; a
\* presence that comes late brings back an empty conversation, and no more (LeaveMuc, bootstrap).
LeftStaysLeft ==
  Settled /\ wish = "out" /\ ~crossed /\ ~failed /\ ~elsewhere =>
    /\ ~inside /\ bookmark = "none" /\ conv # "auto"
    /\ late \/ conv = "none"

\* A room that the user joined is joined again by each session, unless it was being left or
\* another device turned that off (JoinMuc, upsert_muc, bootstrap).
JoinedStaysJoined ==
  Settled /\ wish = "in" /\ ~crossed /\ ~elsewhere =>
    /\ inside /\ conv = "auto"
    /\ failed \/ bookmark = "auto"

=============================================================================
