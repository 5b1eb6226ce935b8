----------------------------- MODULE Clipboard ------------------------------
(***************************************************************************)
(* The clipboard that the Mac and the phone keep in step: the watcher that *)
(* looks at the Mac's pasteboard and debounces what it finds, the store    *)
(* with its hybrid logical clock and its one-slot outbox, the Send buttons *)
(* of the Clipboard pane, the handlers that adopt the phone's copies and   *)
(* write them to the pasteboard, and the phone's clipboard state with its  *)
(* debounce, its sends and its awaited writes.  The socket drops with      *)
(* frames in it, a pasteboard write fails, the Mac app crashes, the user   *)
(* switches the direction of the sync on either device.                    *)
(*                                                                         *)
(* A clip is abstracted to a member of Contents; equal members have equal  *)
(* hashes.  An image keeps its format, so its bytes stay the same (the     *)
(* conversions are left out).  Nonces never repeat here, so the nonce      *)
(* cache is left out, and images too large for one message are the subject *)
(* of ClipChunks.  The mode is one variable: while a switch is on its way  *)
(* to the other device a copy may be dropped by the mode of one side only, *)
(* which "mode" stands for as well.                                        *)
(***************************************************************************)
EXTENDS Naturals, Sequences

CONSTANTS
  Contents,     \* what can be copied
  Images,       \* the contents that are images; the others are text
  Concealed,    \* the contents marked secret, which the watcher skips
  Empty,        \* the empty text
  MacCopies, PhoneCopies, Typed,
                \* what is copied on the Mac and on the phone, and what is
                \* typed or dropped into the Clipboard pane
  Trim,         \* a text without the spaces and line ends around it
  Key,          \* what the Mac's watcher compares: of an image its type and
                \* its first 64 characters
  Tickers,      \* goroutines that run ClipboardWatcher.tick
  Users,        \* goroutines that run calls of the Clipboard pane
  Timer,        \* the goroutine of the debounce timer
  Reader,       \* the goroutine that serves the socket
  Http,         \* the goroutine that serves POST /clip
  None,         \* nothing
  Modes,        \* the clipboard modes the user switches between
  MaxTime,      \* bound on the clock, in seconds
  MaxAt,        \* bound on the second of a stamp when two copies chase each other
  MaxEvents     \* bound on copies, uses of the Send buttons, mode switches,
                \* seconds, drops, failed writes and posts, and crashes, together

ASSUME ContentsAssumption ==
  /\ Images \subseteq Contents /\ Concealed \subseteq Contents
  /\ None \notin Contents
  /\ Empty \in Contents \ Images
  /\ MacCopies \subseteq Contents \ {Empty} /\ PhoneCopies \subseteq Contents \ {Empty}
  /\ Typed \subseteq Contents
  /\ Trim \in [Contents -> Contents] /\ Trim[Empty] = Empty
  /\ \A x \in Contents : /\ Trim[Trim[x]] = Trim[x]
                         /\ Trim[x] \in Images <=> x \in Images
                         /\ x \in Images => Trim[x] = x
  /\ Key \in [Contents -> Contents]
  /\ \A x \in Contents : IF x \in Images THEN Key[x] \in Images ELSE Key[x] = x
  /\ None \notin [what : Contents, at : Nat, c : Nat, origin : {"mac", "android"}, hashed : BOOLEAN]

ASSUME ProcsAssumption ==
  /\ Timer \notin Users \cup {Reader, Http}
  /\ Reader \notin Users \cup {Http}
  /\ Http \notin Users

ASSUME BoundsAssumption ==
  /\ Modes \subseteq {"both", "mac_to_android", "android_to_mac", "disabled"}
  /\ MaxTime \in Nat /\ MaxAt \in Nat /\ MaxEvents \in Nat

VARIABLES
  now,          \* the clock of both devices, in seconds
  events,       \* number of copies, sends, switches, seconds and faults so far
  mode,         \* clipboard_mode, the same on both sides (see SettingsSync)
  board,        \* the Mac's pasteboard: its content, and whether its
                \* changeCount differs from the watcher's lastChangeCount
  watch,        \* ClipboardWatcher: lastText, lastImage, the debounced slot
  tick,         \* what each pass of the watcher has read, if under way
  clip,         \* ClipStore
  hlc,          \* ClipStore.hlc
  proc,         \* where each other goroutine of the Mac is
  up,           \* a socket is connected
  toPhone,      \* frames on the socket, to the phone
  toMac,        \* frames on the socket, to the Mac
  post,         \* the POST /clip the phone awaits
  pboard,       \* the phone's clipboard
  pdraft,       \* the copy the phone's debounce timer holds
  pclip,        \* ClipState
  psends,       \* pushes whose send over the socket the phone awaits
  pwrites,      \* contents whose write the phone awaits
  causes        \* why the two sides may differ (history)

watchVars == <<board, watch, tick>>
storeVars == <<clip, hlc>>
wireVars  == <<up, toPhone, toMac, post>>
phoneVars == <<pboard, pdraft, pclip, psends, pwrites>>
vars == <<now, events, mode, watchVars, storeVars, proc, wireVars, phoneVars, causes>>

Procs == Users \cup {Timer, Reader, Http}

\* What Converge, BoardsMatch and NoBounce name as their exceptions.
Causes == {"tie", "same", "loss", "restart", "mode", "cleared", "resend", "requeue",
           "held", "crossed", "repeat", "write", "unread", "typed"}

Larger(m, n) == IF m > n THEN m ELSE n

-----------------------------------------------------------------------------
(* Stamps: CompareClipStamps orders them, ClipStampNext and                *)
(* ClipStampOnReceive move a clock on.                                     *)

StampOf(x) == [at |-> x.at, c |-> x.c]

CompareClipStamps(a, b) ==
  CASE a.at < b.at \/ (a.at = b.at /\ a.c < b.c) -> "less"
    [] a.at = b.at /\ a.c = b.c -> "equal"
    [] OTHER -> "greater"

Later(a, b) == CompareClipStamps(a, b) = "greater"

\* A remote stamp wins when it is greater; a zero stamp never wins.
RemoteClipWinsEx(local, remote) == remote.at > 0 /\ Later(remote, local)

ClipStampNext(stored, wall) ==
  IF wall > stored.at THEN [at |-> wall, c |-> 0]
                      ELSE [at |-> stored.at, c |-> stored.c + 1]

ClipStampOnReceive(local, remote) ==
  LET l == Larger(local.at, remote.at) IN
  [at |-> l,
   c  |-> 1 + CASE local.at = remote.at -> Larger(local.c, remote.c)
                [] l = local.at /\ l # remote.at -> local.c
                [] OTHER -> remote.c]

\* Mutant: the next stamp is the wall clock's second.
NextStampWall(wall) == [at |-> wall, c |-> 0]

\* nextStampLocked: past the store's clock and past the stored value.
NextStamp(wall) ==
  ClipStampNext(IF clip.what # None /\ Later(clip, hlc) THEN StampOf(clip) ELSE hlc,
                Larger(wall, clip.at))

-----------------------------------------------------------------------------
AllowsSend(origin) ==
  CASE mode = "disabled" -> FALSE
    [] mode = "mac_to_android" -> origin = "mac"
    [] mode = "android_to_mac" -> origin = "android"
    [] OTHER -> TRUE

AllowsReceive(origin) == AllowsSend(origin)

NoClip == [what |-> None, at |-> 0, c |-> 0, origin |-> "", pending |-> FALSE]

Push(x, hashed) ==
  [what |-> x.what, at |-> x.at, c |-> x.c, origin |-> x.origin, hashed |-> hashed]

Idle == [pc |-> "idle", what |-> None, wall |-> 0, push |-> None]

At(p, pc) == proc[p].pc = pc

Goto(p, pc) == proc' = [proc EXCEPT ![p].pc = pc]

Finish(p) == proc' = [proc EXCEPT ![p] = Idle]

\* A local copy read from the pasteboard and not yet in the store.
LocalBusy == \/ \E t \in Tickers : tick[t] # None
             \/ \E p \in Procs : At(p, "set")

\* A copy of the phone's in the store and not yet on the pasteboard.
RemoteBusy == \E p \in Procs : proc[p].pc \in {"note", "write"}

\* The watcher keeps the last text as it is, of the last image its key.
LastOf(x) == IF x \in Images THEN watch.image ELSE watch.text

\* To the watcher x looks like the last of its kind, or like one it has in hand.
Handled(x) == \/ LastOf(x) = Key[x]
              \/ \E y \in {watch.slot, proc[Timer].what} \cup {tick[t] : t \in Tickers} :
                   y # None /\ Key[y] = Key[x]

\* Content x, on its way to the store, is no longer the one on the pasteboard,
\* and the watcher has seen the one that is, or will not look at it again.
Overtaken(x) == board.what # x /\ (~board.fresh \/ Handled(board.what))

If(b, cause) == IF b THEN {cause} ELSE {}

Init ==
  /\ now = 1
  /\ events = 0
  /\ mode = "both"
  /\ board = [what |-> None, fresh |-> FALSE]
  /\ watch = [text |-> None, image |-> None, slot |-> None]
  /\ tick = [t \in Tickers |-> None]
  /\ clip = NoClip
  /\ hlc = [at |-> 0, c |-> 0]
  /\ proc = [p \in Procs |-> Idle]
  /\ up = FALSE
  /\ toPhone = <<>> /\ toMac = <<>>
  /\ post = [pc |-> "none", push |-> None]
  /\ pboard = None /\ pdraft = None
  /\ pclip = NoClip
  /\ psends = <<>> /\ pwrites = <<>>
  /\ causes = {}

Tick ==
  /\ now < MaxTime /\ events < MaxEvents
  /\ now' = now + 1
  /\ events' = events + 1
  /\ UNCHANGED <<mode, watchVars, storeVars, proc, wireVars, phoneVars, causes>>

\* The user copies something on the Mac; the watcher will pass over it if it
\* looks like what it handled last, whatever was copied in between.
MacCopy(x) ==
  /\ x \in MacCopies
  /\ events < MaxEvents
  /\ events' = events + 1
  /\ board' = [what |-> x, fresh |-> TRUE]
  /\ causes' = causes \cup If(x # board.what /\ Handled(x), "repeat")
  /\ UNCHANGED <<now, mode, watch, tick, storeVars, proc, wireVars, phoneVars>>

-----------------------------------------------------------------------------
(* The watcher *)

\* tick up to the read of the content: paired (a peer whose socket has gone
\* counts for a while: no guard on up), a mode that lets the Mac send, nothing
\* concealed on the pasteboard, and a change since the last look.  The content
\* is read by shell commands, an image first, else text; a copy made between
\* the guard and the read only makes the watcher look twice.
TickRead(t) ==
  /\ tick[t] = None
  /\ AllowsSend("mac")
  /\ board.what \notin Concealed
  /\ board.fresh
  /\ board' = [board EXCEPT !.fresh = FALSE]
  /\ tick' = [tick EXCEPT ![t] = board.what]
  /\ causes' = causes \cup If(RemoteBusy, "crossed")
  /\ UNCHANGED <<now, events, mode, watch, storeVars, proc, wireVars, phoneVars>>

\* The reader times out, fails, or finds more than the caps allow: it returns
\* nothing, and the change counts as seen.
TickReadFails(t) ==
  /\ tick[t] = None
  /\ AllowsSend("mac")
  /\ board.what \notin Concealed
  /\ board.fresh
  /\ events < MaxEvents
  /\ events' = events + 1
  /\ board' = [board EXCEPT !.fresh = FALSE]
  /\ causes' = causes \cup {"unread"}
  /\ UNCHANGED <<now, mode, watch, tick, storeVars, proc, wireVars, phoneVars>>

\* What looks like the last of its kind is passed over, whatever was copied in
\* between, and so is an empty text; anything else waits for the debounce timer,
\* in place of what waited for it, which may have been read later by another
\* pass.
TickStage(t) ==
  LET x == tick[t] IN
  /\ x # None
  /\ tick' = [tick EXCEPT ![t] = None]
  /\ IF x = Empty \/ LastOf(x) = Key[x]
     THEN UNCHANGED <<watch, causes>>
     ELSE /\ watch' = [watch EXCEPT !.slot = x]
          /\ causes' = causes \cup If(Overtaken(x), "crossed")
  /\ UNCHANGED <<now, events, mode, board, storeVars, proc, wireVars, phoneVars>>

\* flushDebounced takes the slot and a second past the stored one ...
TimerFires ==
  /\ At(Timer, "idle")
  /\ watch.slot # None
  /\ clip.at < MaxAt
  /\ watch' = [watch EXCEPT !.slot = None]
  /\ proc' = [proc EXCEPT ![Timer] =
       [Idle EXCEPT !.pc = "set", !.what = watch.slot,
                    !.wall = IF clip.what # None THEN Larger(now, clip.at + 1) ELSE now]]
  /\ causes' = causes \cup If(RemoteBusy, "crossed")
  /\ UNCHANGED <<now, events, mode, board, tick, storeVars, wireVars, phoneVars>>

\* SetLocal: the same content again changes nothing, other content is stamped
\* and queued.
SetLocal(x, wall) ==
  IF clip.what = x
  THEN UNCHANGED storeVars
  ELSE /\ hlc' = NextStamp(wall)
       /\ clip' = [what |-> x, at |-> hlc'.at, c |-> hlc'.c, origin |-> "mac", pending |-> TRUE]

\* ... stages it, remembers it as handled and, in a mode that lets the Mac
\* send, flushes.
TimerSets ==
  LET x == proc[Timer].what IN
  /\ At(Timer, "set")
  /\ SetLocal(x, proc[Timer].wall)
  /\ watch' = IF x \in Images THEN [watch EXCEPT !.image = Key[x]] ELSE [watch EXCEPT !.text = x]
  /\ proc' = [proc EXCEPT ![Timer] = IF AllowsSend("mac") THEN [Idle EXCEPT !.pc = "flush"]
                                     ELSE Idle]
  /\ causes' = causes \cup If(RemoteBusy, "crossed")
  /\ UNCHANGED <<now, events, mode, board, tick, wireVars, phoneVars>>

\* ... or drops an image that cannot be converted or is refused by the store.
TimerDrops ==
  /\ At(Timer, "set")
  /\ proc[Timer].what \in Images
  /\ events < MaxEvents
  /\ events' = events + 1
  /\ Finish(Timer)
  /\ causes' = causes \cup {"unread"}
  /\ UNCHANGED <<now, mode, watchVars, storeVars, wireVars, phoneVars>>

-----------------------------------------------------------------------------
(* flushPendingToPhone, its clipboard part, and the Send buttons *)

FlushNothing(p) ==
  /\ At(p, "flush")
  /\ ~up \/ ~clip.pending
  /\ Finish(p)
  /\ UNCHANGED <<now, events, mode, watchVars, storeVars, wireVars, phoneVars, causes>>

TakePending(p) ==
  /\ At(p, "flush")
  /\ clip.pending
  /\ clip' = [clip EXCEPT !.pending = FALSE]
  /\ proc' = [proc EXCEPT ![p] = [Idle EXCEPT !.pc = "send", !.push = Push(clip, TRUE)]]
  /\ UNCHANGED <<now, events, mode, watchVars, hlc, wireVars, phoneVars, causes>>

\* sendFeatureToPhone writes to the socket or fails.
Send(p) ==
  /\ At(p, "send")
  /\ IF up
     THEN toPhone' = Append(toPhone, proc[p].push) /\ Finish(p)
     ELSE toPhone' = toPhone /\ Goto(p, "requeue")
  /\ UNCHANGED <<now, events, mode, watchVars, storeVars, up, toMac, post, phoneVars, causes>>

\* requeueClip queues whatever the store holds by now.
Requeue(p) ==
  /\ At(p, "requeue")
  /\ clip' = IF clip.what # None THEN [clip EXCEPT !.pending = TRUE] ELSE clip
  /\ Finish(p)
  /\ causes' = causes \cup If(up \/ clip.origin = "android", "requeue")
  /\ UNCHANGED <<now, events, mode, watchVars, hlc, wireVars, phoneVars>>

\* The pane hands over content of its own; with an empty text, or without a
\* phone, the call stops with the clip queued.  With a phone nothing flushes the
\* empty clip before the next connect.
PushGiven(u, x) ==
  /\ u \in Users /\ At(u, "idle")
  /\ x \in Typed
  /\ events < MaxEvents
  /\ events' = events + 1
  /\ SetLocal(x, now)
  /\ \/ /\ x # Empty
        /\ proc' = [proc EXCEPT ![u] = [Idle EXCEPT !.pc = "take", !.what = x, !.wall = now]]
     \/ (x = Empty \/ ~up) /\ UNCHANGED proc
  /\ causes' = causes \cup {"typed"} \cup If(RemoteBusy, "crossed")
                      \cup If(x = Empty /\ up /\ clip'.pending, "held")
  /\ UNCHANGED <<now, mode, watchVars, wireVars, phoneVars>>

PushClipboard(u, x) == x \notin Images /\ PushGiven(u, x)

PushClipboardImage(u, x) == x \in Images /\ PushGiven(u, x)

\* PushClipboardCurrent reads the pasteboard ...
PushClipboardCurrent(u) ==
  /\ u \in Users /\ At(u, "idle")
  /\ events < MaxEvents
  /\ board.what \notin {None, Empty}
  /\ events' = events + 1
  /\ proc' = [proc EXCEPT ![u] = [Idle EXCEPT !.pc = "set", !.what = board.what]]
  /\ causes' = causes \cup If(RemoteBusy, "crossed")
  /\ UNCHANGED <<now, mode, watchVars, storeVars, wireVars, phoneVars>>

\* ... and stages what it read, whatever the mode and even if concealed.
PushSets(u) ==
  /\ u \in Users /\ At(u, "set")
  /\ SetLocal(proc[u].what, now)
  /\ proc' = [proc EXCEPT ![u].pc = "take", ![u].wall = now]
  /\ causes' = causes \cup If(RemoteBusy \/ Overtaken(proc[u].what), "crossed")
  /\ UNCHANGED <<now, events, mode, watchVars, wireVars, phoneVars>>

\* All send what is queued; if nothing is (the content was there already, or
\* another goroutine took it), a push with this second for its stamp and no
\* hash, which the store knows nothing of.
PushTakes(u) ==
  /\ At(u, "take")
  /\ clip' = [clip EXCEPT !.pending = FALSE]
  /\ proc' = [proc EXCEPT ![u] = [Idle EXCEPT !.pc = "send",
       !.push = IF clip.pending THEN Push(clip, TRUE)
                ELSE [what |-> proc[u].what, at |-> proc[u].wall, c |-> 0,
                      origin |-> "mac", hashed |-> FALSE]]]
  /\ causes' = causes \cup If(~clip.pending, "resend")
  /\ UNCHANGED <<now, events, mode, watchVars, hlc, wireVars, phoneVars>>

\* SetClipboardMode: the new mode, then a flush (the save is in SettingsSync).
SetClipboardMode(u, m) ==
  /\ u \in Users /\ At(u, "idle")
  /\ events < MaxEvents
  /\ m # mode
  /\ events' = events + 1
  /\ mode' = m
  /\ Goto(u, "flush")
  /\ UNCHANGED <<now, watchVars, storeVars, wireVars, phoneVars, causes>>

\* The phone's switch arrives with the settings (see SettingsSync) and flushes
\* nothing on the Mac: what the old mode left in the outbox stays there.
PhoneSetsMode(m) ==
  /\ events < MaxEvents
  /\ m # mode
  /\ events' = events + 1
  /\ mode' = m
  /\ causes' = causes \cup If(up /\ clip.pending, "held")
  /\ UNCHANGED <<now, watchVars, storeVars, proc, wireVars, phoneVars>>

-----------------------------------------------------------------------------
(* The Mac adopts the phone's copies *)

\* What a push the receiver holds with clip x does not win against costs.
DropCauses(x, push) ==
  If(push.what # x.what /\ CompareClipStamps(push, x) = "equal" /\ push.origin # x.origin, "tie")

\* Mutant: an adopted copy keeps the pending flag of the copy it replaces.
ApplyRemoteKeepsPending(p, push) ==
  IF /\ RemoteClipWinsEx(clip, push)
     /\ push.origin # "mac"
     /\ ~(push.hashed /\ push.what = clip.what)
  THEN /\ clip' = [what |-> push.what, at |-> push.at, c |-> push.c,
                   origin |-> push.origin, pending |-> clip.pending]
       /\ hlc' = ClipStampOnReceive(hlc, StampOf(push))
       /\ proc' = [proc EXCEPT ![p] = [Idle EXCEPT !.pc = "note", !.what = push.what]]
       /\ causes' = causes \cup If(LocalBusy \/ RemoteBusy, "crossed")
  ELSE /\ UNCHANGED <<storeVars, proc>>
       /\ causes' = causes \cup DropCauses(clip, push)

\* ApplyRemote: a later stamp, not the Mac's own copy, not the content that is
\* there already (whose stamp is then not absorbed either).
ApplyRemote(p, push) ==
  IF /\ RemoteClipWinsEx(clip, push)
     /\ push.origin # "mac"
     /\ ~(push.hashed /\ push.what = clip.what)
  THEN /\ clip' = [what |-> push.what, at |-> push.at, c |-> push.c,
                   origin |-> push.origin, pending |-> FALSE]
       /\ hlc' = ClipStampOnReceive(hlc, StampOf(push))
       /\ proc' = [proc EXCEPT ![p] = [Idle EXCEPT !.pc = "note", !.what = push.what]]
       /\ causes' = causes \cup If(LocalBusy \/ RemoteBusy, "crossed")
  ELSE /\ UNCHANGED <<storeVars, proc>>
       /\ causes' = causes \cup DropCauses(clip, push)
                           \cup If(RemoteClipWinsEx(clip, push) /\ push.what = clip.what, "same")

\* ingestClipBody: a mode that does not let the Mac receive drops the push.
IngestClip(p, push) ==
  IF AllowsReceive(push.origin)
  THEN ApplyRemote(p, push)
  ELSE UNCHANGED <<storeVars, proc>> /\ causes' = causes \cup {"mode"}

\* The read loop takes the frames one after the other ...
WsIngest ==
  /\ up
  /\ At(Reader, "idle")
  /\ toMac # <<>>
  /\ toMac' = Tail(toMac)
  /\ IngestClip(Reader, Head(toMac))
  /\ UNCHANGED <<now, events, mode, watchVars, up, toPhone, post, phoneVars>>

\* ... while POST /clip has a goroutine of its own.
PostIngest ==
  /\ post.pc = "sent"
  /\ At(Http, "idle")
  /\ post' = [post EXCEPT !.pc = "handled"]
  /\ IngestClip(Http, post.push)
  /\ UNCHANGED <<now, events, mode, watchVars, up, toPhone, toMac, phoneVars>>

\* Mutant: the debounce slot survives a copy of the phone's.
NoteRemoteKeepsSlot(p) ==
  LET x == proc[p].what IN
  /\ At(p, "note")
  /\ watch' = IF x \in Images THEN [watch EXCEPT !.image = Key[x]] ELSE [watch EXCEPT !.text = x]
  /\ board' = [board EXCEPT !.fresh = FALSE]
  /\ Goto(p, "write")
  /\ UNCHANGED <<now, events, mode, tick, storeVars, wireVars, phoneVars, causes>>

\* applyRemoteToPasteboard arms the watcher first: the content counts as
\* handled, the changes so far as seen, and the debounce slot is emptied ...
NoteRemote(p) ==
  LET x == proc[p].what IN
  /\ At(p, "note")
  /\ watch' = IF x \in Images THEN [watch EXCEPT !.image = Key[x], !.slot = None]
                              ELSE [watch EXCEPT !.text = x, !.slot = None]
  /\ board' = [board EXCEPT !.fresh = FALSE]
  /\ Goto(p, "write")
  /\ UNCHANGED <<now, events, mode, tick, storeVars, wireVars, phoneVars, causes>>

\* ... then the content is written ...
WritePasteboard(p) ==
  /\ At(p, "write")
  /\ board' = [what |-> proc[p].what, fresh |-> TRUE]
  /\ Finish(p)
  /\ UNCHANGED <<now, events, mode, watch, tick, storeVars, wireVars, phoneVars, causes>>

\* ... or is not: ClearSuppress ends the window of time, and nothing else.
WriteFails(p) ==
  /\ At(p, "write")
  /\ events < MaxEvents
  /\ events' = events + 1
  /\ Finish(p)
  /\ causes' = causes \cup {"write"}
  /\ UNCHANGED <<now, mode, watchVars, storeVars, wireVars, phoneVars>>

-----------------------------------------------------------------------------
(* The socket, and the Mac app's end *)

\* Mutant: a connect does not flush.
ConnectOnly ==
  /\ ~up
  /\ At(Reader, "idle")
  /\ up' = TRUE
  /\ UNCHANGED <<now, events, mode, watchVars, storeVars, proc, toPhone, toMac, post, phoneVars, causes>>

\* OnWSConnect flushes before the read loop starts.
Connect ==
  /\ ~up
  /\ At(Reader, "idle")
  /\ up' = TRUE
  /\ Goto(Reader, "flush")
  /\ UNCHANGED <<now, events, mode, watchVars, storeVars, toPhone, toMac, post, phoneVars, causes>>

\* The socket dies: what was written to it and not read is lost.
Disconnect ==
  /\ up
  /\ events < MaxEvents
  /\ events' = events + 1
  /\ up' = FALSE
  /\ toPhone' = <<>> /\ toMac' = <<>>
  /\ causes' = causes \cup If(toPhone \o toMac # <<>>, "loss")
  /\ UNCHANGED <<now, mode, watchVars, storeVars, proc, post, phoneVars>>

\* The Mac app dies and starts again: the store is in memory only.
MacRestarts ==
  /\ events < MaxEvents
  /\ events' = events + 1
  /\ board' = [board EXCEPT !.fresh = TRUE]
  /\ watch' = [text |-> None, image |-> None, slot |-> None]
  /\ tick' = [t \in Tickers |-> None]
  /\ clip' = NoClip
  /\ hlc' = [at |-> 0, c |-> 0]
  /\ proc' = [p \in Procs |-> Idle]
  /\ up' = FALSE
  /\ toPhone' = <<>> /\ toMac' = <<>>
  /\ causes' = causes \cup {"restart"}
  /\ UNCHANGED <<now, mode, post, phoneVars>>

-----------------------------------------------------------------------------
(* The phone *)

\* The watcher of the phone takes x: it goes, a text without the spaces around
\* it, to the debounce timer, in place of what waited there.
Draft(x) == Trim[x] # Empty /\ pdraft' = Trim[x]

\* The user copies something on the phone.  In a mode that lets the phone send,
\* the watcher's event starts the debounce, unless the content is blank, too
\* large, an invalid image or a secret, or the app is in the background and gets
\* no event.
PhoneCopy(x) ==
  /\ x \in PhoneCopies
  /\ events < MaxEvents
  /\ events' = events + 1
  /\ pboard' = x
  /\ \/ /\ AllowsSend("android")
        /\ Draft(x)
        /\ causes' = causes \cup If(pwrites # <<>>, "crossed")
     \/ /\ AllowsSend("android")
        /\ UNCHANGED pdraft
        /\ causes' = causes \cup {"unread"}
     \/ /\ ~AllowsSend("android")
        /\ UNCHANGED pdraft
        /\ causes' = causes \cup {"mode"}
  /\ UNCHANGED <<now, mode, watchVars, storeVars, proc, wireVars, pclip, psends, pwrites>>

\* _refreshClipboardOnce, on a resume, a connect and the phone's switch of the
\* mode: the text on the clipboard goes the way of a copy.  No flag says here
\* that it is a secret.
PhoneRefresh ==
  /\ AllowsSend("android")
  /\ events < MaxEvents
  /\ pboard \notin Images \cup {None}
  /\ events' = events + 1
  /\ Draft(pboard)
  /\ causes' = causes \cup If(pwrites # <<>>, "crossed")
  /\ UNCHANGED <<now, mode, watchVars, storeVars, proc, wireVars, pboard, pclip, psends, pwrites>>

\* A push goes over the socket, else by POST; either way the phone awaits it.
PhonePush(push) ==
  \/ /\ up
     /\ toMac' = Append(toMac, push)
     /\ psends' = Append(psends, push)
     /\ UNCHANGED post
  \/ /\ ~up
     /\ post.pc = "none"
     /\ post' = [pc |-> "sent", push |-> push]
     /\ UNCHANGED <<toMac, psends>>

AsPush(x) == [Push(x, TRUE) EXCEPT !.origin = "android"]

\* _flushClipboardAuto: the draft is stamped past the clip's second and queued;
\* the phone sends it now or, offline, later.
PhoneFlushAuto ==
  LET next == [what |-> pdraft, origin |-> "android", pending |-> TRUE, c |-> 0,
               at |-> IF pclip.what # None THEN Larger(now, pclip.at + 1) ELSE now] IN
  /\ pdraft # None
  /\ pclip.at < MaxAt
  /\ pdraft' = None
  /\ IF ~AllowsSend("android")
     THEN UNCHANGED <<pclip, psends, toMac, post>> /\ causes' = causes \cup {"mode"}
     ELSE IF pclip.what = pdraft
     THEN UNCHANGED <<pclip, psends, toMac, post, causes>>
     ELSE /\ pclip' = next
          /\ \/ PhonePush(AsPush(next))
             \/ ~up /\ UNCHANGED <<psends, toMac, post>>
          /\ causes' = causes \cup If(pwrites # <<>>, "crossed")
  /\ UNCHANGED <<now, events, mode, watchVars, storeVars, proc, up, toPhone, pboard, pwrites>>

\* _flushClipboardAuto drops a secret if the user has ruled secrets out since.
PhoneDropsDraft ==
  /\ pdraft # None
  /\ events < MaxEvents
  /\ events' = events + 1
  /\ pdraft' = None
  /\ causes' = causes \cup {"unread"}
  /\ UNCHANGED <<now, mode, watchVars, storeVars, proc, wireVars, pboard, pclip, psends, pwrites>>

\* _flushClip, on a connect: what is queued, in a mode that lets the phone send.
PhoneFlushClip ==
  /\ up
  /\ pclip.pending
  /\ psends = <<>>
  /\ IF AllowsSend("android")
     THEN PhonePush(AsPush(pclip)) /\ UNCHANGED <<pclip, causes>>
     ELSE /\ pclip' = [pclip EXCEPT !.pending = FALSE]
          /\ causes' = causes \cup {"mode"}
          /\ UNCHANGED <<psends, toMac, post>>
  /\ UNCHANGED <<now, events, mode, watchVars, storeVars, proc, up, toPhone, pboard, pdraft, pwrites>>

\* The phone awaits the send of this push.
Awaited(push) ==
  (post.pc # "none" /\ post.push = push) \/ \E i \in 1..Len(psends) : psends[i] = push

\* A send is done, the oldest on the socket or the post that was answered: the
\* clip counts as sent, whichever clip is there now.
PhoneSent ==
  /\ \/ psends # <<>> /\ psends' = Tail(psends) /\ UNCHANGED post
     \/ post.pc = "handled" /\ post' = [pc |-> "none", push |-> None] /\ UNCHANGED psends
  /\ pclip' = [pclip EXCEPT !.pending = FALSE]
  /\ causes' = causes \cup If(pclip.pending /\ ~Awaited(AsPush(pclip)), "cleared")
  /\ UNCHANGED <<now, events, mode, watchVars, storeVars, proc, up, toPhone, toMac,
                 pboard, pdraft, pwrites>>

\* The post is lost, or its answer is: the clip is queued again.
PostFails ==
  /\ post.pc \in {"sent", "handled"}
  /\ events < MaxEvents
  /\ events' = events + 1
  /\ post' = [pc |-> "none", push |-> None]
  /\ pclip' = [pclip EXCEPT !.pending = TRUE]
  /\ UNCHANGED <<now, mode, watchVars, storeVars, proc, up, toPhone, toMac,
                 pboard, pdraft, psends, pwrites, causes>>

\* A clip-push frame: applyRemote and, when it adopts, a write that is awaited
\* while the listener goes on to the next frame.
PhoneReceive ==
  LET push == Head(toPhone)
      wins == /\ RemoteClipWinsEx(pclip, push)
              /\ push.origin # "android"
              /\ ~(push.hashed /\ push.what = pclip.what)
  IN
  /\ up
  /\ toPhone # <<>>
  /\ toPhone' = Tail(toPhone)
  /\ IF ~AllowsReceive(push.origin)
     THEN UNCHANGED <<pclip, pwrites>> /\ causes' = causes \cup {"mode"}
     ELSE IF wins
     THEN /\ pclip' = [what |-> push.what, at |-> push.at, c |-> push.c,
                       origin |-> push.origin, pending |-> FALSE]
          /\ pwrites' = Append(pwrites, push.what)
          /\ causes' = causes \cup If(pdraft # None \/ pwrites # <<>>, "crossed")
     ELSE /\ UNCHANGED <<pclip, pwrites>>
          /\ causes' = causes \cup DropCauses(pclip, push)
                         \cup If(RemoteClipWinsEx(pclip, push) /\ push.what = pclip.what, "same")
  /\ UNCHANGED <<now, events, mode, watchVars, storeVars, proc, up, toMac, post,
                 pboard, pdraft, psends>>

\* The oldest write is done.  The watcher, if it is told, takes it for a copy of
\* the user's unless, without the spaces around it, it is what the phone's clip
\* holds: a text of the Mac's with a line end comes back as another one.
PhoneWrites ==
  /\ pwrites # <<>>
  /\ pwrites' = Tail(pwrites)
  /\ pboard' = Head(pwrites)
  /\ \/ /\ AllowsSend("android")
        /\ Trim[Head(pwrites)] # pclip.what
        /\ Draft(Head(pwrites))
     \/ UNCHANGED pdraft
  /\ UNCHANGED <<now, events, mode, watchVars, storeVars, proc, wireVars, pclip, psends, causes>>

\* The oldest write fails, and nothing is told.
PhoneWriteFails ==
  /\ pwrites # <<>>
  /\ events < MaxEvents
  /\ events' = events + 1
  /\ pwrites' = Tail(pwrites)
  /\ causes' = causes \cup {"write"}
  /\ UNCHANGED <<now, mode, watchVars, storeVars, proc, wireVars, pboard, pdraft, pclip, psends>>

-----------------------------------------------------------------------------
Next ==
  \/ Tick
  \/ \E x \in Contents : MacCopy(x) \/ PhoneCopy(x)
  \/ \E t \in Tickers : TickRead(t) \/ TickReadFails(t) \/ TickStage(t)
  \/ TimerFires \/ TimerSets \/ TimerDrops
  \/ \E p \in Procs :
       \/ FlushNothing(p) \/ TakePending(p) \/ Send(p) \/ Requeue(p)
       \/ PushClipboardCurrent(p) \/ PushSets(p) \/ PushTakes(p)
       \/ NoteRemote(p) \/ WritePasteboard(p) \/ WriteFails(p)
       \/ \E x \in Contents : PushClipboard(p, x) \/ PushClipboardImage(p, x)
       \/ \E m \in Modes : SetClipboardMode(p, m)
  \/ \E m \in Modes : PhoneSetsMode(m)
  \/ WsIngest \/ PostIngest \/ Connect \/ Disconnect \/ MacRestarts
  \/ PhoneRefresh \/ PhoneFlushAuto \/ PhoneDropsDraft \/ PhoneFlushClip
  \/ PhoneSent \/ PostFails \/ PhoneReceive \/ PhoneWrites \/ PhoneWriteFails

Spec == Init /\ [][Next]_vars

-----------------------------------------------------------------------------
Clips == [what : Contents \cup {None}, at : Nat, c : Nat,
          origin : {"", "mac", "android"}, pending : BOOLEAN]

Pushes == [what : Contents, at : Nat, c : Nat, origin : {"mac", "android"}, hashed : BOOLEAN]

\* Types, and what each place of a goroutine says about the state around it.
TypeOK ==
  /\ now \in 1..(MaxTime + 1)
  /\ events \in 0..MaxEvents
  /\ mode \in Modes \cup {"both"}
  /\ board \in [what : Contents \cup {None}, fresh : BOOLEAN]
  /\ watch.text \in (Contents \ Images) \cup {None} /\ watch.image \in Images \cup {None}
  /\ watch.slot \in Contents \cup {None}
  /\ tick \in [Tickers -> Contents \cup {None}]
  /\ clip \in Clips /\ pclip \in Clips
  /\ clip.pending => clip.what # None
  /\ hlc \in [at : Nat, c : Nat]
  /\ \A p \in Procs :
       /\ proc[p].pc \in {"idle", "set", "take", "flush", "send", "requeue", "note", "write"}
       /\ proc[p].what # None <=> proc[p].pc \in {"set", "take", "note", "write"}
       /\ proc[p].push # None <=> proc[p].pc \in {"send", "requeue"}
       /\ proc[p].push # None => proc[p].push \in Pushes
  /\ up \in BOOLEAN
  /\ toPhone \in Seq(Pushes) /\ toMac \in Seq(Pushes) /\ psends \in Seq(Pushes)
  /\ post.pc # "none" => post.push \in Pushes
  /\ pwrites \in Seq(Contents)
  /\ causes \subseteq Causes

\* Nothing is on its way between a copy and the other side's clipboard.
Quiet ==
  /\ up
  /\ \A t \in Tickers : tick[t] = None
  /\ \A p \in Procs : At(p, "idle")
  /\ ~board.fresh \/ board.what \in Concealed
  /\ watch.slot = None
  /\ toPhone = <<>> /\ toMac = <<>> /\ post.pc = "none"
  /\ pdraft = None /\ psends = <<>> /\ pwrites = <<>> /\ ~pclip.pending

\* The Mac's clip and the clock behind it only move to later stamps, and other
\* content always comes with a later stamp: nextStampLocked, ApplyRemote.  A
\* restart starts again from nothing.
StampsRise ==
  [][\/ clip'.what = None
     \/ /\ clip'.what # clip.what => Later(clip', clip)
        /\ StampOf(clip') = StampOf(clip) \/ Later(clip', clip)
        /\ hlc' = hlc \/ Later(hlc', hlc)]_vars

\* When nothing is under way both sides hold the same clip (docs/clipboard.md,
\* "Copy on one device, paste on the other"): no copy is forgotten in the
\* outbox, none overtaken by an older one.  The exceptions: two copies with
\* equal stamps, content the receiver had already (its stamp is not absorbed),
\* frames lost with a socket, a restart, a mode that forbids, a push of the
\* Send button the store has no stamp of, a failed send queued again after the
\* connect that should have sent it, a clip the phone's switch of the mode or an
\* empty text in the pane left in the outbox, a copy of the phone's cleared as
\* sent.
Converge ==
  Quiet /\ mode = "both"
  /\ causes \cap {"tie", "same", "loss", "restart", "mode", "resend", "requeue",
                  "held", "cleared"} = {}
  /\ board.what \notin Concealed
  => clip.what = pclip.what

AsDrafted(x) == IF x = None THEN None ELSE Trim[x]

\* When nothing is under way each side's clipboard holds that side's clip, on
\* the phone but for the spaces around a text: a paste gives what the other side
\* was told.  The exceptions: a failed write, a copy that a watcher could not
\* read or refused, copies that crossed, a copy that looks like an earlier one
\* (text again after an image, or two images alike), a mode that forbids, and
\* content typed into the pane.
BoardsMatch ==
  Quiet /\ mode = "both"
  /\ causes \cap {"write", "unread", "crossed", "repeat", "mode", "typed"} = {}
  /\ board.what \notin Concealed
  => board.what = clip.what /\ AsDrafted(pboard) = AsDrafted(pclip.what)

\* The Mac never sends the phone's own copy back to it: ApplyRemote takes the
\* clip out of the outbox.  The exception: a failed send queued again after the
\* phone's copy was adopted.
NoBounce ==
  "requeue" \notin causes =>
    \A i \in 1..Len(toPhone) : toPhone[i].origin = "mac"

=============================================================================
