---------------------------- MODULE SettingsSync ----------------------------
(***************************************************************************)
(* The settings blob that the Mac and the phone keep in step by last       *)
(* writer wins: the setters of the Mac's Settings pane, each a goroutine   *)
(* that stamps the blob, saves it and flushes it; the one-slot outbox with *)
(* its requeue; the socket's read loop and the HTTP handler that adopt the *)
(* phone's blobs; the phone's edits, adoptions and flush, which all wait   *)
(* for storage or for the network half-way; and the failures between them: *)
(* a socket that drops with frames in it, a save that fails, a crash of    *)
(* either app.                                                             *)
(*                                                                         *)
(* A blob is abstracted to the number of the edit that made it (0: the     *)
(* defaults), the second it was stamped in and the side that stamped it.   *)
(***************************************************************************)
EXTENDS Naturals, Sequences

CONSTANTS
  Callers,      \* goroutines that run calls of the Mac's Settings pane
  Readers,      \* goroutines that serve a socket (connect, then read loop)
  Http,         \* the goroutine that serves POST /settings
  None,         \* no blob, no socket
  MaxTime,      \* bound on the clock, in seconds
  MaxEdits,     \* bound on the number of edits, of both sides together
  MaxFaults     \* bound on drops, failed saves and crashes

ASSUME ProcsAssumption ==
  /\ Http \notin Callers \cup Readers
  /\ Callers \cap Readers = {}
  /\ None \notin Callers \cup Readers \cup {Http}

ASSUME BoundsAssumption ==
  /\ MaxTime \in Nat /\ MaxEdits \in Nat /\ MaxFaults \in Nat
  /\ None \notin [n : 0..MaxEdits, at : 0..MaxTime, by : {"mac", "android"}]

VARIABLES
  now,          \* the clock of both devices, in seconds
  edits,        \* number of edits made so far
  faults,       \* number of faults so far
  cur,          \* SettingsStore.cur
  pending,      \* SettingsStore.pending
  file,         \* settings.json
  proc,         \* where each Mac goroutine is
  ws,           \* the reader of the active socket, or None
  toPhone,      \* frames written to the socket by the Mac
  toMac,        \* frames written to the socket by the phone
  phone,        \* the phone's blob, its dirty flag and its stored blob
  saving,       \* blobs whose save the phone awaits, oldest first
  flush,        \* the blob the phone's _flushSettings is sending, or None
  post,         \* the POST /settings under way
  causes        \* why the two sides may differ (history)

macVars   == <<cur, pending, file, proc>>
wireVars  == <<ws, toPhone, toMac, post>>
phoneVars == <<phone, saving, flush>>
vars == <<now, edits, faults, macVars, wireVars, phoneVars, causes>>

Procs == Callers \cup Readers \cup {Http}

Blobs == [n : 0..MaxEdits, at : 0..MaxTime, by : {"mac", "android"}]

\* What Agree, FileKeepsChoice and NothingStuck name as their exceptions.
Causes == {"order", "loss", "late", "restart", "overlap", "save", "noflush", "requeue"}

Stamp(n, by) == [n |-> n, at |-> now, by |-> by]

DefaultAppSettings == Stamp(0, "mac")

\* Two blobs with the second where they were stamped and the side.
RemoteSettingsWins(local, remote) ==
  IF remote.at # local.at
  THEN remote.at > local.at
  ELSE remote.by = "mac" /\ local.by # "mac"

Idle == [pc |-> "idle", blob |-> None, flushes |-> FALSE]

At(p, pc) == proc[p].pc = pc

Goto(p, pc) == proc' = [proc EXCEPT ![p].pc = pc]

Finish(p) == proc' = [proc EXCEPT ![p] = Idle]

\* The step replaces one side's blob old by new: a replacement that does not
\* win over what it replaces is one the other side will not accept either.
Note(old, new) ==
  IF RemoteSettingsWins(old, new) THEN {} ELSE {"order"}

Init ==
  /\ now = 0 /\ edits = 0 /\ faults = 0
  /\ cur = [n |-> 0, at |-> 0, by |-> "mac"]
  /\ pending = FALSE
  /\ file = cur
  /\ proc = [p \in Procs |-> Idle]
  /\ ws = None
  /\ toPhone = <<>> /\ toMac = <<>>
  /\ phone = [cur |-> [n |-> 0, at |-> 0, by |-> "android"], dirty |-> FALSE,
              store |-> [n |-> 0, at |-> 0, by |-> "android"]]
  /\ saving = <<>>
  /\ flush = None
  /\ post = [blob |-> None, pc |-> "none"]
  /\ causes = {}

Tick ==
  /\ now < MaxTime
  /\ now' = now + 1
  /\ UNCHANGED <<edits, faults, macVars, wireVars, phoneVars, causes>>

-----------------------------------------------------------------------------
(* The Mac's setters *)

\* The store's part of every setter: one field, the stamp, the pending flag.
Set(c, flushes) ==
  LET b == Stamp(edits + 1, "mac") IN
  /\ At(c, "idle")
  /\ edits < MaxEdits
  /\ edits' = edits + 1
  /\ cur' = b
  /\ pending' = TRUE
  /\ proc' = [proc EXCEPT ![c] = [pc |-> "read", blob |-> None, flushes |-> flushes]]
  /\ causes' = causes \cup Note(cur, b) \cup IF flushes THEN {} ELSE {"noflush"}
  /\ UNCHANGED <<now, faults, file, wireVars, phoneVars>>

\* The setters that go on to save and flush. What SetNotificationsEnabled and
\* SetPlaybackMode do to the mirrors besides is in Mirror.
SetNotificationsEnabled(c) == c \in Callers /\ Set(c, TRUE)

\* SetClipboardMode also has the clipboard watcher look once.
SetClipboardMode(c) == c \in Callers /\ Set(c, TRUE)

\* SetNotifMode, SetPlaybackMode, SetPlaybackOutput.
SetModeOrOutput(c) == c \in Callers /\ Set(c, TRUE)

\* SetAppMuted and SetAppAllowed; an unknown package or a full list is refused
\* without a trace.
SetAppFilter(c) == c \in Callers /\ Set(c, TRUE)

\* SetClipboardAllowSensitive sets and saves but does not flush.
SetClipboardAllowSensitive(c) == c \in Callers /\ Set(c, FALSE)

\* persistSnapshot reads the store again, under a lock of its own ...
PersistRead(p) ==
  /\ At(p, "read")
  /\ proc' = [proc EXCEPT ![p].pc = "write", ![p].blob = cur]
  /\ UNCHANGED <<now, edits, faults, cur, pending, file, wireVars, phoneVars, causes>>

\* Every setter but one goes on to flushPendingToPhone.
AfterSave(p) ==
  IF proc[p].flushes
  THEN proc' = [proc EXCEPT ![p].pc = "flush", ![p].blob = None]
  ELSE Finish(p)

\* ... and StoreAppSettings writes what it read, whatever was written since.
PersistWrite(p) ==
  /\ At(p, "write")
  /\ file' = proc[p].blob
  /\ causes' = causes \cup IF file # proc[p].blob /\ ~RemoteSettingsWins(file, proc[p].blob)
                           THEN {"overlap"} ELSE {}
  /\ AfterSave(p)
  /\ UNCHANGED <<now, edits, faults, cur, pending, wireVars, phoneVars>>

\* A failed save is logged and changes nothing else.
PersistFails(p) ==
  /\ At(p, "write")
  /\ faults < MaxFaults
  /\ faults' = faults + 1
  /\ causes' = causes \cup {"save"}
  /\ AfterSave(p)
  /\ UNCHANGED <<now, edits, cur, pending, file, wireVars, phoneVars>>

-----------------------------------------------------------------------------
(* flushPendingToPhone, its settings part *)

\* The phone is not there (IsPaired), or nothing is queued.
FlushNothing(p) ==
  /\ At(p, "flush")
  /\ ws = None \/ ~pending
  /\ Finish(p)
  /\ UNCHANGED <<now, edits, faults, cur, pending, file, wireVars, phoneVars, causes>>

\* A peer whose socket has just gone still counts as paired: no guard on ws.
TakePending(p) ==
  /\ At(p, "flush")
  /\ pending
  /\ pending' = FALSE
  /\ proc' = [proc EXCEPT ![p].pc = "send", ![p].blob = cur]
  /\ UNCHANGED <<now, edits, faults, cur, file, wireVars, phoneVars, causes>>

\* sendFeatureToPhone writes to the active socket or fails.
Send(p) ==
  /\ At(p, "send")
  /\ IF ws # None
     THEN toPhone' = Append(toPhone, proc[p].blob) /\ Finish(p)
     ELSE toPhone' = toPhone /\ Goto(p, "requeue")
  /\ UNCHANGED <<now, edits, faults, cur, pending, file, ws, toMac, post, phoneVars, causes>>

\* Mutant: a failed send forgets the blob.
RequeueForgets(p) ==
  /\ At(p, "requeue")
  /\ Finish(p)
  /\ UNCHANGED <<now, edits, faults, cur, pending, file, wireVars, phoneVars, causes>>

\* requeueSettings raises the flag again, without restamping.
Requeue(p) ==
  /\ At(p, "requeue")
  /\ pending' = TRUE
  /\ Finish(p)
  /\ causes' = causes \cup IF ws # None THEN {"requeue"} ELSE {}
  /\ UNCHANGED <<now, edits, faults, cur, file, wireVars, phoneVars>>

-----------------------------------------------------------------------------
(* The Mac adopts what the phone sends *)

\* Mutant: an adopted blob is kept in memory only.
IngestUnsaved(p, b) ==
  IF RemoteSettingsWins(cur, b)
  THEN /\ cur' = b
       /\ pending' = FALSE
       /\ UNCHANGED proc
  ELSE UNCHANGED <<cur, pending, proc>>

\* ingestSettingsBody: ApplyRemote, and a save when it adopted.
Ingest(p, b) ==
  IF RemoteSettingsWins(cur, b)
  THEN /\ cur' = b
       /\ pending' = FALSE
       /\ proc' = [proc EXCEPT ![p] = [Idle EXCEPT !.pc = "read"]]
  ELSE UNCHANGED <<cur, pending, proc>>

\* Mutant: a connect does not flush.
ConnectOnly(r) ==
  /\ r \in Readers
  /\ ws = None
  /\ At(r, "idle")
  /\ ws' = r
  /\ UNCHANGED <<now, edits, faults, macVars, toPhone, toMac, post, phoneVars, causes>>

\* OnWSConnect flushes before the read loop starts.
Connect(r) ==
  /\ r \in Readers
  /\ ws = None
  /\ At(r, "idle")
  /\ ws' = r
  /\ Goto(r, "flush")
  /\ UNCHANGED <<now, edits, faults, cur, pending, file, toPhone, toMac, post, phoneVars, causes>>

\* The read loop takes the frames one after the other.
WsIngest ==
  /\ ws # None
  /\ At(ws, "idle")
  /\ toMac # <<>>
  /\ toMac' = Tail(toMac)
  /\ Ingest(ws, Head(toMac))
  /\ UNCHANGED <<now, edits, faults, file, ws, toPhone, post, phoneVars, causes>>

\* POST /settings reaches the Mac.
PostIngest ==
  /\ post.pc = "sent"
  /\ At(Http, "idle")
  /\ Ingest(Http, post.blob)
  /\ post' = [post EXCEPT !.pc = "handled"]
  /\ UNCHANGED <<now, edits, faults, file, ws, toPhone, toMac, phoneVars, causes>>

\* The socket dies: what was written to it and not read is lost.
Disconnect ==
  /\ ws # None
  /\ faults < MaxFaults
  /\ faults' = faults + 1
  /\ ws' = None
  /\ toPhone' = <<>> /\ toMac' = <<>>
  /\ causes' = causes \cup IF toPhone \o toMac # <<>> THEN {"loss"} ELSE {}
  /\ UNCHANGED <<now, edits, macVars, post, phoneVars>>

\* The Mac app dies and starts again: the pending flag is gone, the blob is
\* the file's, or the defaults of this second when the file was being written.
MacRestarts ==
  LET busy == \E p \in Procs : ~At(p, "idle") IN
  /\ faults < MaxFaults
  /\ faults' = faults + 1
  /\ \/ cur' = file
     \/ (\E p \in Procs : At(p, "write")) /\ cur' = DefaultAppSettings
  /\ file' = cur'
  /\ pending' = FALSE
  /\ proc' = [p \in Procs |-> Idle]
  /\ ws' = None
  /\ toPhone' = <<>> /\ toMac' = <<>>
  /\ causes' = causes \cup (IF toPhone \o toMac # <<>> THEN {"loss"} ELSE {})
                      \cup (IF pending \/ busy \/ file # cur THEN {"restart"} ELSE {})
  /\ UNCHANGED <<now, edits, post, phoneVars>>

-----------------------------------------------------------------------------
(* The phone *)

\* A handler of the phone's Settings page builds and stamps the next blob and
\* awaits its save.
PhoneEdit ==
  /\ edits < MaxEdits
  /\ edits' = edits + 1
  /\ saving' = Append(saving, [blob |-> Stamp(edits + 1, "android"), dirty |-> TRUE])
  /\ UNCHANGED <<now, faults, macVars, wireVars, phone, flush, causes>>

\* A settings-sync frame: it is compared with the blob of this moment, and the
\* listener goes on to the next frame while the save is awaited.
PhoneReceive ==
  /\ ws # None
  /\ toPhone # <<>>
  /\ toPhone' = Tail(toPhone)
  /\ saving' = IF RemoteSettingsWins(phone.cur, Head(toPhone))
               THEN Append(saving, [blob |-> Head(toPhone), dirty |-> FALSE])
               ELSE saving
  /\ UNCHANGED <<now, edits, faults, macVars, ws, toMac, post, phone, flush, causes>>

\* The oldest save is done: its blob becomes the phone's, dirty for an edit,
\* clean for an adopted one.
PhoneSaved ==
  /\ saving # <<>>
  /\ saving' = Tail(saving)
  /\ phone' = [cur |-> Head(saving).blob, dirty |-> Head(saving).dirty,
               store |-> Head(saving).blob]
  /\ causes' = causes \cup Note(phone.cur, Head(saving).blob)
  /\ UNCHANGED <<now, edits, faults, macVars, wireVars, flush>>

\* _flushSettings sends a dirty blob over the socket or, without one, posts it.
PhoneFlush ==
  /\ phone.dirty
  /\ flush = None
  /\ flush' = phone.cur
  /\ IF ws # None
     THEN toMac' = Append(toMac, phone.cur) /\ UNCHANGED post
     ELSE /\ UNCHANGED toMac
          /\ post.pc = "none"
          /\ post' = [blob |-> phone.cur, pc |-> "sent"]
  /\ UNCHANGED <<now, edits, faults, macVars, ws, toPhone, phone, saving, causes>>

\* The send is answered: the blob counts as sent, whichever blob is there now.
PhoneSent ==
  /\ flush # None
  /\ post.pc \in {"none", "handled"}
  /\ post' = [blob |-> None, pc |-> "none"]
  /\ phone' = [phone EXCEPT !.dirty = FALSE]
  /\ flush' = None
  /\ causes' = causes \cup IF phone.dirty /\ phone.cur # flush THEN {"late"} ELSE {}
  /\ UNCHANGED <<now, edits, faults, macVars, ws, toPhone, toMac, saving>>

\* The post is lost, or its answer is: the blob stays dirty.
PostFails ==
  /\ post.pc \in {"sent", "handled"}
  /\ faults < MaxFaults
  /\ faults' = faults + 1
  /\ post' = [blob |-> None, pc |-> "none"]
  /\ flush' = None
  /\ UNCHANGED <<now, edits, macVars, ws, toPhone, toMac, phone, saving, causes>>

\* The phone app dies and starts again with the stored blob, not dirty.
PhoneRestarts ==
  /\ faults < MaxFaults
  /\ faults' = faults + 1
  /\ phone' = [phone EXCEPT !.cur = phone.store, !.dirty = FALSE]
  /\ saving' = <<>>
  /\ flush' = None
  /\ post' = [blob |-> None, pc |-> "none"]
  /\ ws' = None
  /\ toPhone' = <<>> /\ toMac' = <<>>
  /\ causes' = causes \cup (IF toPhone \o toMac # <<>> THEN {"loss"} ELSE {})
                      \cup (IF phone.dirty \/ saving # <<>> THEN {"restart"} ELSE {})
  /\ UNCHANGED <<now, edits, macVars>>

-----------------------------------------------------------------------------
Next ==
  \/ Tick
  \/ \E p \in Procs :
       \/ SetNotificationsEnabled(p) \/ SetClipboardMode(p) \/ SetModeOrOutput(p)
       \/ SetAppFilter(p) \/ SetClipboardAllowSensitive(p)
       \/ PersistRead(p) \/ PersistWrite(p) \/ PersistFails(p)
       \/ FlushNothing(p) \/ TakePending(p) \/ Send(p) \/ Requeue(p)
       \/ Connect(p)
  \/ WsIngest \/ PostIngest \/ Disconnect \/ MacRestarts
  \/ PhoneEdit \/ PhoneReceive \/ PhoneSaved \/ PhoneFlush \/ PhoneSent
  \/ PostFails \/ PhoneRestarts

Spec == Init /\ [][Next]_vars

-----------------------------------------------------------------------------
\* Types, and what each place of a goroutine says about the state around it.
TypeOK ==
  /\ now \in 0..MaxTime /\ edits \in 0..MaxEdits /\ faults \in 0..MaxFaults
  /\ cur \in Blobs /\ pending \in BOOLEAN /\ file \in Blobs
  /\ proc \in [Procs -> [pc : {"idle", "read", "write", "flush", "send", "requeue"},
                         blob : Blobs \cup {None}, flushes : BOOLEAN]]
  /\ \A p \in Procs : proc[p].blob # None <=> proc[p].pc \in {"write", "send", "requeue"}
  /\ ws \in Readers \cup {None}
  /\ toPhone \in Seq(Blobs) /\ toMac \in Seq(Blobs)
  /\ phone \in [cur : Blobs, dirty : BOOLEAN, store : Blobs]
  /\ saving \in Seq([blob : Blobs, dirty : BOOLEAN])
  /\ flush \in Blobs \cup {None}
  /\ post \in [blob : Blobs \cup {None}, pc : {"none", "sent", "handled"}]
  /\ causes \subseteq Causes

AllIdle == \A p \in Procs : At(p, "idle")

\* Nothing is on its way between the two sides and nothing waits to be sent.
Quiet ==
  /\ AllIdle /\ ~pending /\ ~phone.dirty
  /\ toPhone = <<>> /\ toMac = <<>> /\ saving = <<>> /\ flush = None
  /\ post.pc = "none"

\* The two sides hold the same settings whenever nothing is on its way, unless
\* one of five things happened: a blob replaced one it does not win over (two
\* edits in a second, an answer checked before an await and applied after it),
\* the socket died with a frame in it, an edit arrived while the phone awaited
\* an older one, or an app died with an unsent or unsaved edit.
Agree ==
  Quiet => \/ cur.n = phone.cur.n
           \/ causes \cap {"order", "loss", "late", "restart"} # {}

\* With no call under way settings.json holds the blob in memory, so that a
\* restart keeps the last choice, unless two saves overlapped or one failed.
FileKeepsChoice ==
  AllIdle => \/ file = cur
             \/ causes \cap {"overlap", "save"} # {}

\* A queued blob waits only for the phone: with a socket up and no goroutine
\* under way nothing is left in the outbox, unless the setter that never
\* flushes was called, or a send failed and its blob was put back only after
\* the next socket had flushed.
NothingStuck ==
  AllIdle /\ ws # None => \/ ~pending
                         \/ causes \cap {"noflush", "requeue"} # {}

=============================================================================
