------------------------------- MODULE Mirror -------------------------------
(***************************************************************************)
(* What the Mac shows of the phone's moment: its notifications, what it    *)
(* plays and its Do Not Disturb switch. The three stores are in memory     *)
(* only. The socket's read loop gates every frame with the settings it     *)
(* reads first and applies it later; the calls of the Mac's panes switch   *)
(* things off, clear, dismiss and set in between; dismissals wait in a     *)
(* bounded queue that several goroutines flush, and go back into it when   *)
(* the socket has gone; the phone sends what changed, remembers what it    *)
(* has sent and does not send it again.                                    *)
(*                                                                         *)
(* A notification is its id and the number of the event that posted it     *)
(* last; every id is an app of its own for the filter. The settings are    *)
(* those SettingsSync keeps in step, taken here as one value for both      *)
(* sides. Titles, texts, icons, banners and progress posts are left out.   *)
(***************************************************************************)
EXTENDS Naturals, Sequences, FiniteSets

CONSTANTS
  Ids,          \* notification ids
  Settings,     \* the settings a run switches between
  Callers,      \* goroutines that run calls of the Mac's panes
  Reader,       \* the goroutine that serves the socket
  MaxItems,     \* maxNotifs
  MaxQueue,     \* maxPendingDismiss
  Horizon,      \* stalePostMaxAgeSec
  MaxTime,      \* bound on the clock
  MaxEvents,    \* bound on the phone's events
  MaxCalls,     \* bound on the Mac's calls
  MaxFaults     \* bound on drops, restarts and refusals

ASSUME ProcsAssumption == Reader \notin Callers

AllSettings ==
  [on : BOOLEAN, filter : {"all_except_muted", "only_allowed"}, list : SUBSET Ids,
   play : {"both", "android_to_mac", "mac_to_android", "disabled"}]

ASSUME SettingsAssumption == Settings \subseteq AllSettings

ASSUME BoundsAssumption ==
  /\ MaxItems \in Nat \ {0} /\ MaxQueue \in Nat \ {0} /\ Horizon \in Nat
  /\ MaxTime \in Nat \ {0} /\ MaxEvents \in Nat /\ MaxCalls \in Nat /\ MaxFaults \in Nat

VARIABLES
  now, events, calls, faults,
  st,           \* the settings in force
  offBy,        \* which side switched the notifications off last (history)
  proc,         \* where each Mac goroutine is
  items,        \* NotifStore.items, newest first
  unseen,       \* NotifStore.unseen
  queue,        \* NotifStore.pendingDismiss
  owed,         \* dismissals of the user that the phone has not had (history)
  playback,     \* stamp of the state PlaybackStore shows, 0: none
  dnd,          \* DNDStore.cur: its switch and its stamp
  ws,           \* the socket is up
  toMac,        \* frames of the phone; without a socket, its outbox
  toPhone,      \* frames of the Mac
  shade,        \* the phone's notifications: the event that posted each, 0: none
  track,        \* what the phone plays (the event), and what it sent last
  pdnd,         \* the phone's switch, the state being sent, the one sent last
  causes        \* why the Mac may show something else (history)

boundVars  == <<now, events, calls, faults>>
notifVars  == <<items, unseen, queue, owed>>
phoneVars  == <<shade, track, pdnd>>
wireVars   == <<ws, toMac, toPhone>>
vars == <<boundVars, st, offBy, proc, notifVars, playback, dnd, wireVars, phoneVars, causes>>

Procs == Callers \cup {Reader}
OnOff == {"on", "off"}
Idle == [pc |-> "idle", arg |-> <<>>]
At(p, pc) == proc[p].pc = pc
Goto(p, pc, arg) == proc' = [proc EXCEPT ![p] = [pc |-> pc, arg |-> arg]]
Finish(p) == proc' = [proc EXCEPT ![p] = Idle]

ShouldMirrorNotif(s, id) ==
  IF s.filter = "only_allowed" THEN id \in s.list ELSE id \notin s.list

PlaybackModeAllowsState(mode) == mode \in {"both", "android_to_mac"}

PlaybackModeAllowsCommand(mode) == mode \in {"both", "mac_to_android"}

\* First-launch settings.
DefaultAppSettings ==
  [on |-> TRUE, filter |-> "all_except_muted", list |-> {}, play |-> "both"]

\* s without what has this id; the rows of the mirror and the posts in the
\* phone's outbox have an id at most once.
Without(s, id) ==
  LET i == CHOOSE i \in DOMAIN s : s[i].id = id IN
  IF \E j \in DOMAIN s : s[j].id = id
  THEN SubSeq(s, 1, i - 1) \o SubSeq(s, i + 1, Len(s)) ELSE s

\* Both apps have run, the switch is off and the Mac was told; the phone is
\* away.
Init ==
  /\ now = 1 /\ events = 0 /\ calls = 0 /\ faults = 0
  /\ st = DefaultAppSettings
  /\ offBy = "mac"
  /\ proc = [p \in Procs |-> Idle]
  /\ items = <<>> /\ unseen = 0 /\ queue = <<>> /\ owed = {}
  /\ playback = 0
  /\ dnd = [on |-> "off", at |-> 0]
  /\ ws = FALSE /\ toMac = <<>> /\ toPhone = <<>>
  /\ shade = [id \in Ids |-> 0]
  /\ track = [cur |-> 0, sent |-> 0]
  /\ pdnd = [on |-> "off", sending |-> "none", sent |-> "off"]
  /\ causes = {}

Tick ==
  /\ now < MaxTime
  /\ now' = now + 1
  /\ UNCHANGED <<events, calls, faults, st, offBy, proc, notifVars, playback, dnd,
                 wireVars, phoneVars, causes>>

-----------------------------------------------------------------------------
(* The read loop *)

Frame(type) == ws /\ At(Reader, "idle") /\ toMac # <<>> /\ Head(toMac).type = type

\* ingestNotifBody: the filter and the master switch, read now ...
IngestPost ==
  LET m == Head(toMac) IN
  /\ Frame("post")
  /\ toMac' = Tail(toMac)
  /\ IF ShouldMirrorNotif(st, m.id) /\ st.on
     THEN Goto(Reader, "post", <<m>>)
     ELSE UNCHANGED proc
  /\ UNCHANGED <<boundVars, st, offBy, notifVars, playback, dnd, ws, toPhone, phoneVars, causes>>

\* ... and the store, later: a stale post is dropped, a known id moves to the
\* front and counts only when its content changed, a new one counts and may
\* push out the oldest.
Post ==
  LET m    == proc[Reader].arg[1]
      row  == [id |-> m.id, ver |-> m.ver]
      same == \E i \in DOMAIN items : items[i] = row
      next == <<row>> \o Without(items, m.id)
  IN
  /\ At(Reader, "post")
  /\ Finish(Reader)
  /\ IF now - m.at > Horizon
     THEN UNCHANGED <<items, unseen>>
     ELSE /\ items' = SubSeq(next, 1, IF Len(next) > MaxItems THEN MaxItems ELSE Len(next))
          /\ unseen' = IF same THEN unseen ELSE unseen + 1
  /\ UNCHANGED <<boundVars, st, offBy, queue, owed, playback, dnd, wireVars, phoneVars, causes>>

\* ApplyRemoteDismiss.
IngestDismiss ==
  /\ Frame("dismiss")
  /\ toMac' = Tail(toMac)
  /\ items' = Without(items, Head(toMac).id)
  /\ UNCHANGED <<boundVars, st, offBy, proc, unseen, queue, owed, playback, dnd, ws, toPhone,
                 phoneVars, causes>>

\* ingestPlaybackBody: the mode, read now ...
IngestPlayback ==
  /\ Frame("play")
  /\ toMac' = Tail(toMac)
  /\ IF PlaybackModeAllowsState(st.play)
     THEN Goto(Reader, "play", <<Head(toMac)>>) /\ UNCHANGED causes
     ELSE causes' = causes \cup {"mode"} /\ UNCHANGED proc
  /\ UNCHANGED <<boundVars, st, offBy, notifVars, playback, dnd, ws, toPhone, phoneVars>>

\* Mutant: a tie or an older state wins nothing, and neither does a newer one
\* once something is shown.
ApplyPlaybackOnce ==
  /\ At(Reader, "play")
  /\ Finish(Reader)
  /\ playback' = IF playback = 0 THEN proc[Reader].arg[1].ver ELSE playback
  /\ UNCHANGED <<boundVars, st, offBy, notifVars, dnd, wireVars, phoneVars, causes>>

\* ... and PlaybackStore.ApplyRemote, later: the newer stamp wins.
ApplyPlayback ==
  LET v == proc[Reader].arg[1].ver IN
  /\ At(Reader, "play")
  /\ Finish(Reader)
  /\ playback' = IF v > playback THEN v ELSE playback
  /\ UNCHANGED <<boundVars, st, offBy, notifVars, dnd, wireVars, phoneVars, causes>>

\* DNDStore.ApplyRemote: anything not older than what is shown.
IngestDND ==
  LET m == Head(toMac) IN
  /\ Frame("dnd")
  /\ toMac' = Tail(toMac)
  /\ dnd' = IF m.at < dnd.at THEN dnd ELSE [on |-> m.on, at |-> m.at]
  /\ UNCHANGED <<boundVars, st, offBy, proc, notifVars, playback, ws, toPhone, phoneVars, causes>>

-----------------------------------------------------------------------------
(* The calls of the Mac's panes *)

Call(c) == c \in Callers /\ At(c, "idle") /\ calls < MaxCalls /\ calls' = calls + 1

\* Mutant: switching off leaves the rows.
ChangeSettingsKeepsRows(c, s) ==
  /\ Call(c)
  /\ s # st
  /\ st' = s
  /\ offBy' = IF st.on /\ ~s.on THEN "mac" ELSE offBy
  /\ IF s.play = "disabled" /\ st.play # "disabled" THEN Goto(c, "clearplay", <<>>)
     ELSE Goto(c, "flush", <<>>)
  /\ UNCHANGED <<now, events, faults, notifVars, playback, dnd, wireVars, phoneVars, causes>>

\* SetNotificationsEnabled clears the mirror when it switches off, and
\* SetPlaybackMode the player, after the store took the setting; the filter's
\* setters clear nothing. All flush.
ChangeSettings(c, s) ==
  /\ Call(c)
  /\ s # st
  /\ st' = s
  /\ offBy' = IF st.on /\ ~s.on THEN "mac" ELSE offBy
  /\ IF st.on /\ ~s.on THEN Goto(c, "clear", <<>>)
     ELSE IF s.play = "disabled" /\ st.play # "disabled" THEN Goto(c, "clearplay", <<>>)
     ELSE Goto(c, "flush", <<>>)
  /\ UNCHANGED <<now, events, faults, notifVars, playback, dnd, wireVars, phoneVars, causes>>

\* NotifStore.Clear.
Clear(c) ==
  /\ At(c, "clear")
  /\ items' = <<>> /\ unseen' = 0
  /\ Goto(c, "flush", <<>>)
  /\ UNCHANGED <<boundVars, st, offBy, queue, owed, playback, dnd, wireVars, phoneVars, causes>>

\* PlaybackStore.Clear, which forgets the stamp too.
ClearPlayback(c) ==
  /\ At(c, "clearplay")
  /\ playback' = 0
  /\ causes' = causes \cup {"cleared"}
  /\ Goto(c, "flush", <<>>)
  /\ UNCHANGED <<boundVars, st, offBy, notifVars, dnd, wireVars, phoneVars>>

\* The phone's settings are adopted; nothing is cleared. A phone that begins
\* to show its player sends what it plays behind them.
AdoptSettings(s) ==
  LET anchor == s.play # st.play /\ PlaybackModeAllowsState(s.play) /\ track.cur # track.sent IN
  /\ ws /\ At(Reader, "idle")
  /\ events < MaxEvents
  /\ events' = events + 1
  /\ s # st
  /\ st' = s
  /\ offBy' = IF st.on /\ ~s.on THEN "android" ELSE offBy
  /\ toMac' = IF anchor THEN Append(toMac, [type |-> "play", ver |-> track.cur]) ELSE toMac
  /\ track' = IF anchor THEN [track EXCEPT !.sent = track.cur] ELSE track
  /\ UNCHANGED <<now, calls, faults, proc, notifVars, playback, dnd, ws, toPhone, shade, pdnd, causes>>

\* ClearNotifications.
ClearNotifications(c) ==
  /\ Call(c)
  /\ items' = <<>> /\ unseen' = 0
  /\ UNCHANGED <<now, events, faults, st, offBy, proc, queue, owed, playback, dnd, wireVars,
                 phoneVars, causes>>

\* MarkNotificationsSeen, when the pane is opened.
MarkSeen(c) ==
  /\ Call(c)
  /\ unseen' = 0
  /\ UNCHANGED <<now, events, faults, st, offBy, proc, items, queue, owed, playback, dnd, wireVars,
                 phoneVars, causes>>

\* The queue with one more id; the oldest falls out when it is full.
Queued(id) ==
  LET q == Append(queue, id) IN IF Len(q) > MaxQueue THEN Tail(q) ELSE q

\* The dismissal that falls out when id is queued is forgotten by design.
Dropped(id) ==
  IF Len(queue) >= MaxQueue THEN {queue[1]} ELSE {}

\* DismissNotification of a row on show: the row goes, the id is queued, the
\* badge stays.
Dismiss(c, id) ==
  /\ Call(c)
  /\ Without(items, id) # items
  /\ items' = Without(items, id)
  /\ queue' = Queued(id)
  /\ owed' = (owed \ Dropped(id)) \cup {id}
  /\ Goto(c, "flush", <<>>)
  /\ UNCHANGED <<now, events, faults, st, offBy, unseen, playback, dnd, wireVars, phoneVars, causes>>

\* flushPendingToPhone, its last part: nothing without a phone ...
FlushNothing(p) ==
  /\ At(p, "flush")
  /\ ~ws \/ queue = <<>>
  /\ Finish(p)
  /\ UNCHANGED <<boundVars, st, offBy, notifVars, playback, dnd, wireVars, phoneVars, causes>>

\* ... otherwise TakePendingDismissals empties the queue, and each id is sent
\* or, when the socket has gone, dismissed again.
TakePendingDismissals(p) ==
  /\ At(p, "flush")
  /\ queue # <<>>
  /\ queue' = <<>>
  /\ Goto(p, "dismissing", queue)
  /\ UNCHANGED <<boundVars, st, offBy, items, unseen, owed, playback, dnd, wireVars, phoneVars, causes>>

\* Mutant: the first failure ends the loop.
SendDismissalStops(p) ==
  LET id == Head(proc[p].arg) IN
  /\ At(p, "dismissing")
  /\ IF ws
     THEN /\ toPhone' = Append(toPhone, [type |-> "dismiss", id |-> id])
          /\ IF Len(proc[p].arg) = 1 THEN Finish(p) ELSE Goto(p, "dismissing", Tail(proc[p].arg))
          /\ UNCHANGED <<items, queue, owed>>
     ELSE /\ items' = Without(items, id)
          /\ queue' = Queued(id)
          /\ owed' = owed \ (Dropped(id) \ {id})
          /\ Finish(p)
          /\ UNCHANGED toPhone
  /\ UNCHANGED <<boundVars, st, offBy, unseen, playback, dnd, ws, toMac, phoneVars, causes>>

SendDismissal(p) ==
  LET id == Head(proc[p].arg) IN
  /\ At(p, "dismissing")
  /\ IF ws
     THEN toPhone' = Append(toPhone, [type |-> "dismiss", id |-> id]) /\ UNCHANGED <<items, queue, owed>>
     ELSE /\ items' = Without(items, id)
          /\ queue' = Queued(id)
          /\ owed' = owed \ (Dropped(id) \ {id})
          /\ UNCHANGED toPhone
  /\ IF Len(proc[p].arg) = 1 THEN Finish(p) ELSE Goto(p, "dismissing", Tail(proc[p].arg))
  /\ UNCHANGED <<boundVars, st, offBy, unseen, playback, dnd, ws, toMac, phoneVars, causes>>

\* SendPlaybackCmd widens a phone-to-Mac mode to both, saves and flushes it,
\* and sends the command if the mode allows one; the player's answer is an
\* event of its own.
SendPlaybackCmd(c) ==
  LET mode == IF st.play = "android_to_mac" THEN "both" ELSE st.play IN
  /\ Call(c)
  /\ st' = [st EXCEPT !.play = mode]
  /\ toPhone' = IF PlaybackModeAllowsCommand(mode) /\ ws
                THEN Append(toPhone, [type |-> "cmd"]) ELSE toPhone
  /\ UNCHANGED <<now, events, faults, offBy, proc, notifVars, playback, dnd, ws, toMac,
                 phoneVars, causes>>

\* SetDND shows the wish at once ...
SetDND(c, on) ==
  /\ Call(c)
  /\ ws
  /\ dnd' = [dnd EXCEPT !.on = on]
  /\ Goto(c, "dnd", <<on>>)
  /\ UNCHANGED <<now, events, faults, st, offBy, notifVars, playback, wireVars, phoneVars, causes>>

\* ... and sends it; a failed send is reported and the wish stays on show.
SendDND(c) ==
  /\ At(c, "dnd")
  /\ Finish(c)
  /\ toPhone' = IF ws THEN Append(toPhone, [type |-> "dnd", on |-> proc[c].arg[1]]) ELSE toPhone
  /\ causes' = IF ws THEN causes ELSE causes \cup {"failed"}
  /\ UNCHANGED <<boundVars, st, offBy, notifVars, playback, dnd, ws, toMac, phoneVars>>

-----------------------------------------------------------------------------
(* The phone, modelled as far as the Mac sees it *)

Event == events < MaxEvents /\ events' = events + 1

\* A notification is posted or changed: it goes out, or waits in the outbox,
\* where a later post of the same id replaces it.
PhonePost(id) ==
  LET waiting == IF ws THEN toMac ELSE Without(toMac, id) IN
  /\ Event
  /\ shade' = [shade EXCEPT ![id] = events + 1]
  /\ toMac' = IF st.on /\ ShouldMirrorNotif(st, id)
              THEN Append(waiting, [type |-> "post", id |-> id, ver |-> events + 1, at |-> now])
              ELSE toMac
  /\ UNCHANGED <<now, calls, faults, st, offBy, proc, notifVars, playback, dnd, ws, toPhone,
                 track, pdnd, causes>>

\* The player changes; only a connected phone sends it, a change is always new.
PhonePlays ==
  LET sends == ws /\ PlaybackModeAllowsState(st.play) IN
  /\ Event
  /\ track' = IF sends THEN [cur |-> events + 1, sent |-> events + 1]
              ELSE [track EXCEPT !.cur = events + 1]
  /\ toMac' = IF sends THEN Append(toMac, [type |-> "play", ver |-> events + 1]) ELSE toMac
  /\ causes' = causes \cup IF PlaybackModeAllowsState(st.play) THEN {} ELSE {"mode"}
  /\ UNCHANGED <<now, calls, faults, st, offBy, proc, notifVars, playback, dnd, ws, toPhone,
                 shade, pdnd>>

\* _sendDndState: not when it equals the last state whose send was answered.
DndSends(on) == ws /\ pdnd.sent # on

Switch(on) ==
  /\ IF DndSends(on) /\ pdnd.sending = "none"
     THEN /\ pdnd' = [pdnd EXCEPT !.on = on, !.sending = on]
          /\ toMac' = Append(toMac, [type |-> "dnd", on |-> on, at |-> now])
          /\ UNCHANGED causes
     ELSE /\ pdnd' = [pdnd EXCEPT !.on = on]
          /\ causes' = causes \cup IF pdnd.sending # "none" THEN {"quick"} ELSE {}
          /\ UNCHANGED toMac

\* The switch is turned on the phone.
PhoneDND(on) ==
  /\ Event
  /\ on # pdnd.on
  /\ Switch(on)
  /\ UNCHANGED <<now, calls, faults, st, offBy, proc, notifVars, playback, dnd, ws, toPhone,
                 shade, track>>

\* The send of a state is answered.
DndSent ==
  /\ pdnd.sending # "none"
  /\ pdnd' = [pdnd EXCEPT !.sent = pdnd.sending, !.sending = "none"]
  /\ UNCHANGED <<boundVars, st, offBy, proc, notifVars, playback, dnd, wireVars, shade, track, causes>>

PhoneFrame(type) == ws /\ toPhone # <<>> /\ Head(toPhone).type = type

\* notif-dismiss: the notification goes, and its removal is told to the Mac.
PhoneDismisses ==
  LET id == Head(toPhone).id IN
  /\ PhoneFrame("dismiss")
  /\ toPhone' = Tail(toPhone)
  /\ owed' = owed \ {id}
  /\ shade' = [shade EXCEPT ![id] = 0]
  /\ toMac' = IF shade[id] # 0 THEN Append(toMac, [type |-> "dismiss", id |-> id]) ELSE toMac
  /\ UNCHANGED <<boundVars, st, offBy, proc, items, unseen, queue, playback, dnd, ws, track, pdnd, causes>>

\* playback-cmd: the player may act on it, which is PhonePlays.
PhoneCommand ==
  /\ PhoneFrame("cmd")
  /\ toPhone' = Tail(toPhone)
  /\ UNCHANGED <<boundVars, st, offBy, proc, notifVars, playback, dnd, ws, toMac, phoneVars, causes>>

\* dnd-set: the switch is turned if it differs.
PhoneSetDND ==
  LET on == Head(toPhone).on IN
  /\ PhoneFrame("dnd")
  /\ toPhone' = Tail(toPhone)
  /\ IF on # pdnd.on THEN Switch(on) ELSE UNCHANGED <<pdnd, toMac, causes>>
  /\ UNCHANGED <<boundVars, st, offBy, proc, notifVars, playback, dnd, ws, shade, track>>

\* dnd-set without the permission: refused, and nobody is told.
PhoneRefusesDND ==
  /\ PhoneFrame("dnd")
  /\ faults < MaxFaults
  /\ faults' = faults + 1
  /\ toPhone' = Tail(toPhone)
  /\ causes' = causes \cup {"refused"}
  /\ UNCHANGED <<now, events, calls, st, offBy, proc, notifVars, playback, dnd, ws, toMac, phoneVars>>

-----------------------------------------------------------------------------
(* Connections and restarts *)

\* The phone's outbox without its stale posts, which come first.
Live ==
  LET stale == {i \in DOMAIN toMac : now - toMac[i].at > Horizon} IN
  SubSeq(toMac, Cardinality(stale) + 1, Len(toMac))

\* A player the mode does not show when the phone connects stays unsent.
Hidden ==
  IF track.cur # track.sent /\ ~PlaybackModeAllowsState(st.play) THEN {"mode"} ELSE {}

\* Mutant: a new socket brings no state of the switch.
ConnectWithoutState ==
  LET play == IF track.cur # track.sent /\ PlaybackModeAllowsState(st.play)
              THEN <<[type |-> "play", ver |-> track.cur]>> ELSE <<>>
  IN
  /\ ~ws /\ At(Reader, "idle")
  /\ ws' = TRUE
  /\ Goto(Reader, "flush", <<>>)
  /\ toMac' = Live \o play
  /\ track' = IF play # <<>> THEN [track EXCEPT !.sent = track.cur] ELSE track
  /\ causes' = causes \cup Hidden
  /\ UNCHANGED <<boundVars, st, offBy, notifVars, playback, dnd, toPhone, shade, pdnd>>

\* The phone connects: OnWSConnect flushes; the phone's outbox goes out, stale
\* posts left behind, with the latest state of the player and of the switch
\* where they differ from what was sent last.
Connect ==
  LET play == IF track.cur # track.sent /\ PlaybackModeAllowsState(st.play)
              THEN <<[type |-> "play", ver |-> track.cur]>> ELSE <<>>
      tell == IF pdnd.sent # pdnd.on /\ pdnd.sending = "none"
              THEN <<[type |-> "dnd", on |-> pdnd.on, at |-> now]>> ELSE <<>>
  IN
  /\ ~ws /\ At(Reader, "idle")
  /\ ws' = TRUE
  /\ Goto(Reader, "flush", <<>>)
  /\ toMac' = Live \o play \o tell
  /\ track' = IF play # <<>> THEN [track EXCEPT !.sent = track.cur] ELSE track
  /\ pdnd' = IF tell # <<>> THEN [pdnd EXCEPT !.sending = pdnd.on] ELSE pdnd
  /\ causes' = causes \cup Hidden
  /\ UNCHANGED <<boundVars, st, offBy, notifVars, playback, dnd, toPhone, shade>>

\* What was in the socket is lost; lost dismissals are no longer owed.
Lost ==
  /\ toMac' = <<>> /\ toPhone' = <<>>
  /\ owed' = owed \ {m.id : m \in {toPhone[i] : i \in DOMAIN toPhone} \cap [type : {"dismiss"}, id : Ids]}
  /\ causes' = causes \cup IF toMac \o toPhone # <<>> THEN {"loss"} ELSE {}

Disconnect ==
  /\ ws
  /\ faults < MaxFaults
  /\ faults' = faults + 1
  /\ ws' = FALSE
  /\ Lost
  /\ UNCHANGED <<now, events, calls, st, offBy, proc, items, unseen, queue, playback, dnd, phoneVars>>

\* The Mac app starts again: all three stores are empty.
MacRestarts ==
  /\ faults < MaxFaults
  /\ faults' = faults + 1
  /\ ws' = FALSE
  /\ toMac' = IF ws THEN <<>> ELSE toMac
  /\ toPhone' = <<>>
  /\ proc' = [p \in Procs |-> Idle]
  /\ items' = <<>> /\ unseen' = 0 /\ queue' = <<>> /\ owed' = {}
  /\ playback' = 0
  /\ dnd' = [on |-> "off", at |-> 0]
  /\ causes' = causes \cup {"restart"}
  /\ UNCHANGED <<now, events, calls, st, offBy, phoneVars>>

Next ==
  \/ Tick
  \/ IngestPost \/ Post \/ IngestDismiss \/ IngestPlayback \/ ApplyPlayback \/ IngestDND
  \/ \E c \in Callers :
       \/ \E s \in Settings : ChangeSettings(c, s)
       \/ Clear(c) \/ ClearPlayback(c) \/ ClearNotifications(c) \/ MarkSeen(c)
       \/ \E id \in Ids : Dismiss(c, id)
       \/ SendPlaybackCmd(c)
       \/ \E on \in OnOff : SetDND(c, on)
       \/ SendDND(c)
  \/ \E s \in Settings : AdoptSettings(s)
  \/ \E p \in Procs : FlushNothing(p) \/ TakePendingDismissals(p) \/ SendDismissal(p)
  \/ \E id \in Ids : PhonePost(id)
  \/ PhonePlays
  \/ \E on \in OnOff : PhoneDND(on)
  \/ DndSent \/ PhoneDismisses \/ PhoneCommand \/ PhoneSetDND \/ PhoneRefusesDND
  \/ Connect \/ Disconnect \/ MacRestarts

Spec == Init /\ [][Next]_vars

-----------------------------------------------------------------------------
Rows == [id : Ids, ver : 1..MaxEvents]

Posts == [type : {"post"}, id : Ids, ver : 1..MaxEvents, at : 1..MaxTime]

Plays == [type : {"play"}, ver : 1..MaxEvents]

FromPhone ==
  Posts \cup Plays \cup [type : {"dismiss"}, id : Ids]
  \cup [type : {"dnd"}, on : OnOff, at : 1..MaxTime]

FromMac ==
  [type : {"dismiss"}, id : Ids] \cup [type : {"cmd"}] \cup [type : {"dnd"}, on : OnOff]

\* What waits for a socket are posts, the oldest first, one per notification.
OutboxOK ==
  /\ \A i \in DOMAIN toMac : toMac[i] \in Posts
  /\ \A i, j \in DOMAIN toMac :
       i < j => toMac[i].at <= toMac[j].at /\ toMac[i].id # toMac[j].id

\* Types; the mirror holds one row per id and keeps to its bound, the queue to
\* its own, and a goroutine sends dismissals only while it has some.
TypeOK ==
  /\ now \in 1..MaxTime /\ events \in 0..MaxEvents /\ calls \in 0..MaxCalls /\ faults \in 0..MaxFaults
  /\ st \in AllSettings /\ offBy \in {"mac", "android"}
  /\ items \in Seq(Rows) /\ Len(items) <= MaxItems
  /\ \A i, j \in DOMAIN items : items[i].id = items[j].id => i = j
  /\ unseen \in Nat
  /\ queue \in Seq(Ids) /\ Len(queue) <= MaxQueue
  /\ owed \subseteq Ids
  /\ \A p \in Procs : At(p, "dismissing") => proc[p].arg \in Seq(Ids) \ {<<>>}
  /\ playback \in 0..MaxEvents
  /\ dnd \in [on : OnOff, at : 0..MaxTime]
  /\ ws \in BOOLEAN
  /\ toMac \in Seq(FromPhone) /\ toPhone \in Seq(FromMac)
  /\ ~ws => toPhone = <<>> /\ OutboxOK
  /\ shade \in [Ids -> 0..MaxEvents]

\* A dismissal the user made on the Mac is in the queue, in the hands of a
\* flush or in the socket until the phone has had it: neither a socket that
\* goes between taking the queue and sending it nor two flushes at once lose
\* one. The queue's bound, a dying socket and a restart are the exceptions.
NoDismissForgotten ==
  \A id \in owed :
    \/ \E i \in DOMAIN queue : queue[i] = id
    \/ \E p \in Procs : At(p, "dismissing") /\ \E i \in DOMAIN proc[p].arg : proc[p].arg[i] = id
    \/ \E i \in DOMAIN toPhone : toPhone[i].type = "dismiss" /\ toPhone[i].id = id

\* With the notifications switched off on the Mac and the call done, the pane
\* shows at most the one notification that was past its gates by then.
OffShowsNothing ==
  (~st.on /\ offBy = "mac" /\ \A c \in Callers : ~At(c, "clear")) => Len(items) <= 1

Settled ==
  /\ ws /\ toMac = <<>> /\ toPhone = <<>> /\ pdnd.sending = "none"
  /\ \A p \in Procs : At(p, "idle")

\* When nothing is on its way the Mac shows the phone's own Do Not Disturb
\* switch, unless a frame or the Mac's memory was lost, the phone refused or
\* never got the wish, or the switch was turned again while a state was being
\* sent: in each case nothing is sent until the switch turns again.
DndFollows ==
  Settled => \/ dnd.on = pdnd.on
             \/ causes \cap {"loss", "restart", "refused", "failed", "quick"} # {}

\* When nothing is on its way and the mode shows the phone's player, the Mac
\* shows what it plays, unless a frame or the Mac's memory was lost, the player
\* was cleared, or a state met a mode that does not show it (a mode changed on
\* the Mac sends nothing of the player when it is shown again).
PlaybackFollows ==
  Settled /\ PlaybackModeAllowsState(st.play) =>
    \/ playback = track.cur
    \/ causes \cap {"loss", "restart", "cleared", "mode"} # {}

=============================================================================
