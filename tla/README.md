# FuseItAll: TLA+ models and proofs

FuseItAll links one Mac and one Android phone over the local network. The Mac
runs a TLS server (`packages/core`) wrapped by a Wails service
(`apps/mac/backend`); the phone runs the same core through a Go bridge plus a
Dart application (`apps/android/lib`). The two talk over one WebSocket when it
is up and over HTTP requests in both directions when it is not.

## Inventory

| Part | State | Operations | Hard because |
| --- | --- | --- | --- |
| Pairing session (`service.go`, `service_ws.go`, `pairing_rotation.go`, `persist.go`) | pair token in four places (pair.json, server, database key, QR), live peer (host, port, freshness), remembered phone, registered socket, device.json | inbound pings, socket connect/read/disconnect, unpair, outbound ping, reconnect, forget and rotate, restart | every handler is a goroutine, files are written after the lock is released, forget is six separate steps |
| Messages and contacts (`messages.go`, `contacts.go`, `sync_reliability.go`, `db.go`) | caches in memory, an encrypted database, generations, tables of waiting requests, a set of recently seen pushes | list, page, send, mark read, delete, push, invalidate | requests and answers are separate messages; pushes, invalidations and disconnects happen between them |
| Settings, clipboard, playback, do-not-disturb (`settings.go`, `clipboard*.go`, `playback.go`, `dnd.go`, `service_features.go`) | last-writer-wins registers with a pending flag or queue | local edit, remote apply, take pending, requeue, flush on connect | two writers, second granularity, sends without acknowledgement |
| Files and photos (`files*.go`, `photos*.go`) | transfer table, chunk counters, temporary parts, resume records | upload, download, acknowledge, resume, cancel, batch | chunks over an unreliable link with retries and parallel windows |
| Notifications (`notifications.go`, `notif_apps.go`) | ring of mirrored notifications, app inventory | post, update, dismiss (either side), mute | dismiss and update race across the link |
| Version gate, discovery, crypto (`version.go`, `discovery.go`, `crypto.go`) | none or a candidate list | pure functions | order of checks, boundaries |
| Phone link (`phone_websocket.dart`, `phone_transport.dart`) | socket, epoch, reconnect timers | connect race over candidate hosts, keepalive, fallback | late winners of an old race |

Which module models which part:

| Module | Part | Runs |
| --- | --- | --- |
| `PairSession`, `PairSessionProofs` | pairing session, core pair server | `calls`, `sockets` |
| `SmsSync`, `SmsSyncProofs` | messages, with their tables of the cache database | `pages`, `saved` |
| `Contacts`, `ContactsProofs` | contacts, with their table | `contacts` |
| `FileUpload`, refining `FileDelivery`, `FileUploadProofs` | one file to the phone | `upload` |
| `UploadBatch`, with proofs in `FileUploadProofs` | a drop of files and folders | `drop` |
| `FileDownload`, `FileDownloadProofs` | one file from the phone, listings | `fetch` |
| `SettingsSync`, `SettingsSyncProofs` | settings and the outbox behind all features | `settings` |
| `Mirror`, `MirrorProofs` | notifications, playback, do-not-disturb | `mirror` |
| `Clipboard`, `ClipboardProofs` | clipboard store, watcher, pasteboard | `clip` |
| `ClipChunks`, with proofs in `ClipboardProofs` | large clipboard images | `chunks` |

An `MC` module of the same name adds what a run needs: symmetry sets, initial
states and constants that a configuration cannot write.

`PROJECT.json` lists every component with its status, the hazards at their
lines, and which definition models which lines.

### How the parts interact

* **Requests and sockets into the session.** `packages/core` verifies the pair
  token (`server.go`, `server_ws.go`) and calls the Service back: `WrapHandler`
  for HTTP, `OnWSConnect`, `OnWSEnvelope`, `OnWSPing` and `OnWSDisconnect` for a
  socket. Each call runs on its own goroutine; `Service.mu` protects the peer.
* **Session into the files.** `pair.json` (token, certificate) and
  `device.json` (the remembered phone) are written after the lock is released.
* **Session into the features.** The end of a socket fails every waiting
  request of messages, contacts, photos and the notification inventory; a new
  socket invalidates the message and contact caches and flushes the settings,
  clipboard and dismissal queues.
* **Features onto the link.** The Mac sends over the registered socket only
  (`sendFeatureToPhone`); the phone falls back from the socket to HTTP, host by
  host (`sendFeatureWithFallback`), so what it sends may arrive twice or out of
  order.
* **Front end.** Wails calls every exported method of `Service` on a goroutine
  of its own, so calls of one kind overlap. The one exception the models use is
  ForgetLastDevice: the button's handler returns while a call is under way
  (`App.svelte`, `forgetting`).

### What makes each part correct

* Session: the copies of the token agree; a forgotten phone cannot come back
  without scanning again; no socket runs unregistered; a broken socket is
  noticed.
* Messages: the cache shows nothing the phone has deleted once the Mac knows; no
  row twice; a push counts once; no call hangs on a phone that is gone.
* Contacts: as messages, and the Mac takes a contact for deleted only when the
  phone has deleted it.
* Settings, clipboard: both devices converge on the later write; nothing pending
  is lost by a failed send; no echo loops.
* Files: what is reported done is a whole file of one version on the other
  side; a resumed transfer skips no chunk; a folder is made before what is in
  it; a drop ends; no part file is left open.
* Notifications: a dismissal reaches the phone; switched off shows nothing.
* Playback and do-not-disturb: the Mac shows what the phone does.
* Version gate: one total order of checks, the same on both sides.
* Phone link: at most one live socket, that of the newest epoch.

## PairSession: tokens, sockets and the remembered phone

`PairSession.tla` models `service.go`, `service_ws.go`, `pairing_rotation.go`,
`persist.go`, the ping path of `auto_sync.go` and `peer_caps.go`, and the
authentication and socket loop of `packages/core`.

**Granularity.** Each goroutine is a thread with a program counter: a socket's
read loop (`Socks`), an HTTP request (`Reqs`), a call of the front end (`Outs`).
One action is one critical section of `Service.mu`, one file write, or one
update of the server's token. The model therefore interleaves exactly where
the code does.

| Variable | Code |
| --- | --- |
| `held[p]` | the token in phone p's storage, 0 if none |
| `disk`, `srv`, `dbk`, `svc` | token in pair.json, in the core server, behind the database key, in the Service and its QR |
| `peerHost`, `peerPort` | the live return path, by the phone that owns each |
| `last`, `dev` | the remembered phone in memory and in device.json |
| `activeWS`, `open`, `oldWS` | registered socket, sockets whose read loop still reads, the socket an OnWSConnect has yet to close |
| `th[t]`, `fg`, `drop` | where each handler, ForgetLastDevice, and a failed write or network-down push stand |

**Actions.** `Upgrade`, `OnWSConnect`, `CloseOld`, `ReadEnvelope`, `LoseSocket`,
`Disconnect` are a socket's life; `Accept` an authenticated HTTP request;
`Learn`, `Capture`, `MergeFacts`, `IngestUnpair`, `SaveSnapshot`,
`DeleteSnapshot` the handlers both share; `SendPingToPhone`,
`ReconnectToLastDevice`, `NextTarget`, the four outcomes of a dial and
`ClearLostPeer` the outbound path; `SetCustomName` the rename; `ForgetClear` to
`PublishQR` the six steps of ForgetLastDevice; `SnapshotWS`, `DropSocket`,
`DropPeer` a failed socket write and NotifyLocalNetworkDown; `Restart` the end
of the process at any moment and NewService.

**Abstractions.** An address stands for the phone that owns it. Device facts
are a flag: did this contact change any, because a change is what writes
device.json. The presence timeout of IsPaired is left out (it changes no
state). `NextTarget` tries any phone of the candidate hosts. One slot holds
the failed write or network-down push. A file write happens in one step or
fails as `Faults` allows. A ping carries the token read when it starts.

| Run | Instance | Checks |
| --- | --- | --- |
| `calls` | 1 phone, 1 socket, 1 request, 1 call, 2 tokens, failing writes | TokenAgreement, GoneStaysGone |
| `sockets` | 2 sockets, 1 token, fair | TypeOK, NoStraySocket, BrokenSocketDeregisters |

One rotation (two tokens) is enough for "old" and "new" to differ; two sockets
for one to replace the other; one thread of each kind for each pair of
handlers to interleave. `sockets` has no rotation, which keeps the liveness
check small; `calls` has one, with one socket. NoStraySocket across a rotation,
several phones and every other bound are left to the theorems below.

**Fairness.** `sockets` assumes weak fairness of `Serve(c)`: the steps a
connection's goroutine takes without waiting for anybody (OnWSConnect, the
close of the old socket, handling a message, leaving the read loop once the
connection is broken). The Go scheduler runs a runnable goroutine. The phone,
the user and the network get no fairness.

## SmsSync: one conversation mirrored

`SmsSync.tla` models `messages.go`, the SMS half of `sync_reliability.go`, the
threads and messages tables of `db.go`, `DedupCache`, the phone's
`sms_sync.dart` and `SmsHandler.kt`, and the parts of OnWSConnect,
OnWSDisconnect and ForgetLastDevice that touch them.

**Granularity.** One action is one critical section of `messagesMu`, one
database transaction, or one step of the phone. A goroutine that is about to
write the database is an element of `saves`, so saves run in any order and
late.

| Variable | Code |
| --- | --- |
| `store`, `unread`, `sent`, `minted` | the phone's SMS provider |
| `dirty`, `stale` | a change notice the ContentObserver owes; one that was lost |
| `net` | messages under way to the Mac: a set, so unordered |
| `ws`, `fresh`, `owed` | a registered socket; OnWSConnect before its resync; ended sockets whose OnWSDisconnect has yet to fail the waiters |
| `gen`, `map`, `rows`, `row` | smsGen, messagesCache and its transcript of the conversation, the conversation in threadsCache |
| `brought` | history: the rows of the transcript that the database or a send put there since the last first page |
| `seen` | smsPushDedup |
| `dbRows`, `dbRow`, `saves` | the two tables, and the goroutines about to write them |
| `fg` | where ForgetLastDevice stands |
| `call[k]` | a front-end call: its step, cursor and generation (smsPageMeta), whether its waiter is registered, its channel, whether its request is still under way |

**Actions.** `Arrive`, `PhoneDelete`, `Observe` and the five answers are the
phone; `ThreadsResp`, `MessagesResp`, `SendResp`, `Push`, `SMSChanged` the
cases of ingestMessagesBody (`SendResp` covers the mark-read answer, which has
the same code); `ListSMSThreads`, `ListSMSMessages`, `SendSMS`,
`MarkThreadRead` start the calls, which go on through `Register`,
`SendRequest`, `Wake` or `Timeout`, and `Leave`, the deferred delete of the
waiter; `LoadAllThreads` and `LoadMessagesForThread` are list calls answered by
the database; `SaveMessages`, `CopyThreads`, `SaveThreads`,
`MarkThreadReadInDB`, `ClearAll` the transactions; `Connect`, `Resync`,
`Disconnect`, `failPendingSMSRequests` the link; `Lose`, `LoseRequest` and the
`again` parameter what the network and the phone's retries do.

**Abstractions.** One conversation, and `OpenOther` for the effect of another
one on the map. An SMS is its number in order of arrival; its push and its
provider row have different ids, numbered so that ids sort like dates. The
transcript counts rows and drops their order, bodies, contact names and read
flags. A push whose thread does not resolve (`thread_id` 0) changes no cache
and is modelled as not pushed. A cursor is a provider row. Failing database
writes and a restart of the Mac are not modelled.

| Run | Instance | Checks |
| --- | --- | --- |
| `pages` | thread and transcript lists, 2 SMS, pages of 1 row, repeated messages, no database | TypeOK, PushesCountedOnce, CacheFollowsPhone, NoDuplicateRows |
| `saved` | sends, mark-read and forget, 1 SMS, database, broken sockets and lost messages | CacheIsSaved, NoForgottenWaiter |

`CacheFollowsPhone` needs one SMS to delete and two generations to confuse;
`NoDuplicateRows` two SMS, so that a page has a predecessor. A row that the
phone has deleted may be shown when it is one of `brought`; `pages` has neither
database nor sends, so `brought` is empty there and the property has no
exception but a notice that is outstanding. The theorem covers the database and
the sends. The deduplication
cache has room for one SMS; `MaxUnread` is above what PushesCountedOnce allows
for it, so a second count would be seen. A request id is used again only when
nothing of the call before it is left, as fresh ids would behave. The database
multiplies the states of a page by every order of the goroutines that save it;
page saves are therefore modelled but not in a run, and `saved` has the rows
that pushes and sends save. No fairness is assumed in these runs:
NoForgottenWaiter says as a state predicate that a waiting call still has
somebody to wake it.

## Contacts: the directory of the phone

`Contacts.tla` models `contacts.go`, the contacts half of
`sync_reliability.go`, the contacts table of `db.go`, `contact_sync.dart` and
the parts of OnWSConnect and OnWSDisconnect that touch them. One action is one
critical section of `contactsMu`, one transaction or one step of the phone.

| Variable | Code |
| --- | --- |
| `book`, `unborn`, `edits`, `dirty` | the phone's contacts provider, and the notice its observer owes |
| `asks`, `net`, `missed` | requests and messages under way, unordered; a notice that was lost |
| `ws`, `fresh`, `owed`, `faults` | the socket; OnWSConnect before its invalidation; an ended socket whose goroutine has yet to fail the calls |
| `gen`, `cache`, `db`, `saves` | contactsGen, contactsCache, the table, snapshots about to be saved |
| `call[k]`, `reqs` | a call of the pane with its waiter, channel, cursor and generation |
| `cut`, `deleted`, `late` | history the properties need |

`PhoneEdit`, `PhoneRemove`, `Notify`, `AnswerList`, `AnswerDelete` are the
phone; `ListContacts`, `FollowCursor`, `StopFollowing` a listing of all or of a
query, page by page; `DeleteContact` to `DbDeleteContact` a deletion, whose two
effects (`Prune` of the cache, `DbDeleteContact`) are two steps; `SendRequest`,
`Wake`, `Timeout` any request; `ListResp`, `DeleteResp`, `ContactsChanged` the
cases of the ingest function, each possibly of a message that comes again;
`SaveContacts` one goroutine; `Connect`, `Resync`, `Disconnect`,
`failPendingContacts`, `Restart` link and process. In `ListResp` the goroutine
of an ended socket may get to the waiter's channel first: the page is adopted
and the call fails all the same.

Left out: avatars, the search and lookup of a number, and a listing the fast
path answers from the cache (it changes nothing).

**Names.** A contact is its place in the listing, and two constants give its
name there: `Fold` without its case, 0 for none, and `Name` as spelt. They
matter where a page ends. The phone asks for what comes after the last row by
`name COLLATE NOCASE > ? OR (name = ? AND _ID > ?)` (`ContactsHandler.kt:235`),
and the second `=` tells case apart. `Beyond` says exactly that: a page passes
over a contact whose name differs from the cursor's in case only, and starts the
book again behind a contact without a name. A contact that is renamed is another
contact. The order of the rows in the directory is not claimed.

The phone hands out a cursor with every full page (`queryContacts` of
`ContactsHandler.kt`), so a listing may end with an empty one. `Pick` filters a
sequence by places: it says what SelectSeq does without recursion.

Run `contacts`: two calls and pages of two rows; of five contacts two have no
name, two have names that differ in case and one has another, and the second,
or the second and the fourth, are missing at first (`MCInit`); one edit, two
requests, one fault. So a page may end before the twin of its last row or with a
contact without a name, a listing in two requests can be followed to its end,
added to, repeated or wiped under, and a deletion can cross it. A third request
with both calls and a fault is beyond five minutes. It checks

* `NoDuplicateRows` and `RowsAreCurrent`;
* `CacheIsWhole`: a listing that was followed to its end lacks nothing but the
  contacts that a boundary passed over (`PassedOver`: one with the same name but
  for case comes before it in the directory). A listing that was not is `cut`;
* `DirectoryIsSaved`, but for a row a late save wrote over (`late`);
* `DeletedOnPhone`: the Mac prunes a contact, or removes it from the database,
  only when the phone has deleted it, although answers come late, twice, for
  other requests, and in the last moments of a socket;
* `NoForgottenCall`.

## FileUpload and FileDelivery: one file to the phone

`FileDelivery.tla` says what sending promises the user: a transfer is running,
done, failed or cancelled, its file arrives whole or not at all, and only an
arrived file is reported done. `FileUpload.tla` models how: the two native
loops (`files.go`, `files_parallel.go`), the acknowledgement
(`files_ack.go`), retry and resume (`files_resume.go`), the slices of the
browser tab (`files_conflict.go`), cancelling, and `file_sync.dart`.

| Variable | Code |
| --- | --- |
| `status`, `resumable`, `source` | the transfer's record |
| `session`, `slice` | uploadSessions, browserUploads |
| `waiter`, `statWaiter` | transferWaiters, statWaiters |
| `call[c]` | a sending goroutine: its loop, chunk, digest, channel |
| `batch`, `fresh`, `local` | the drop, ids not drawn, the version of the file on the Mac |
| `up`, `toMac` | the socket, answers under way |
| `chain`, `stage`, `ledger`, `settled`, `file` | the phone: accepted chunks, part file, received chunks, finished transfers, committed file |

A frame to the phone is there once it is written, because the socket is first
in, first out; it may be lost with the socket. Answers fall back to HTTP and
take their time, overtake, repeat or vanish. Content is a version number per
piece; the digest of pieces of one version is that version, of anything else
`Bad`, and that of a tab's slices fed in another order than the file's
`Misfed`, which is no version. Versions past the second have another size (`Resized`), which is what a
resume looks at. A file is edited only while no call reads it (`Edit`): the
native loops hash what they read as they read it, so a file edited in the middle
of a loop without changing its size would arrive as a mixture whose digest
agrees. `NoSplice` does not cover that case.

Run `upload`: one file of two pieces in three versions, all three ways of
sending it, one fault, one retry. Two pieces make a half-staged file, three
versions an edit that keeps the size and one that does not. It checks

* `ImplementsDelivery`: the specification refines `FileDelivery`, with
  `report <- status` and the committed version as `arrived`;
* `DoneIsDelivered` and `NoSplice`;
* `UploadSettles`: a native upload leaves the running state. Fairness is that of
  `CallStep` (a goroutine of the Mac whose waits all have timers) and of
  `PhoneStep` (the chunk chain of the phone's event loop). The network, the user
  and the browser tab get none, so a tab upload may stand still.

## UploadBatch: a drop of files and folders

`UploadBatch.tla` models the walker, the task channel, the runner and the
senders of `files_parallel.go`, and the batch record of `files_batch.go`. What
a sender does to one file is FileUpload; here it is what the drop notices:
gate, first chunk, sent, confirmed or not, error.

| Variable | Code |
| --- | --- |
| `mode`, `size`, `dirs`, `parent`, `bad` | the drop: a tree in walking order, entries with invalid paths |
| `at`, `walker`, `mkdirs`, `gates`, `walkErr` | the walk, mkdir frames, mkdirGate |
| `queue`, `runner`, `task` | taskCh and its reader |
| `sender`, `slots`, `begun` | the goroutines, the semaphore, first chunks written |
| `transfer`, `dropStatus`, `stamped`, `firstErr` | records, status of the batch, and the error the drop reports |

Run `drop`: every drop of up to three entries, two senders, a channel of one
task. Three entries are a folder in a folder with a file, or more files than
senders and channel hold together. It checks `MkdirFirst`, `NothingLeftOut` and
`DropEnds` under weak fairness of walker, runner and each sender: goroutines
that wait for each other and for timers, never for the user.

## FileDownload: one file from the phone

`FileDownload.tla` models RequestPhoneFile, DownloadFileToExactPath, the chunk
handler with its incremental digest, cancelling and ListPhoneFiles of
`files.go`, and the pull loop of `file_sync.dart`.

| Variable | Code |
| --- | --- |
| `status`, `handle`, `fed`, `dirty` | the record: open part file, dlFed, dlDirty |
| `away` | the record's path is no longer the one asked for |
| `part` | the part file, as the set of its pieces |
| `holder`, `target` | whose file is at the path asked for, and its pieces |
| `aside` | the files a download left under another name |
| `call`, `box` | the drag to Finder and its channel |
| `handler[h]` | a chunk handler between its critical sections |
| `toMac`, `pull`, `next`, `aborted`, `there` | chunks under way and the phone's pulls |
| `list`, `answers`, `shown` | the listing call, listings under way, lastList |
| `cut` | history: cancelled or timed out |

`promote` is the end of a download that went well: the part file is renamed to
the path asked for, or, when a file that is not empty is there, to a name with
the transfer's id in it; both answer the waiting call with nil. A rename that
fails after the name was changed leaves the part file behind
(`RenameFails`).

Run `fetch`: two downloads to one path, which may be taken at first, of two
pieces each; one handler, one fault (a chunk lost or repeated, a request, read,
write or rename that fails, or a listing). It checks

* `WholeUnlessCut`: what is committed, at the path or beside it, is whole;
* `NilMeansFile`: a drag to Finder that reports success left the file of that
  very transfer at the path, or beside it because another file has the path, and
  no later download takes it away;
* `OpenIsRunning`: no cancel, failure, timeout or commit leaves a part file open
  that nothing will close.

One handler is the socket's case; with two (a chunk over HTTP while another is
written) a hole can be committed, see below. No fairness is assumed: the
five-minute timer ends DownloadFileToExactPath whatever happens, and a plain
download whose pull the phone gave up stays running for ever.

**Abstractions.** The two places a part file can be in (beside the path, or in
the staging folder) are one. A name with an id in it is always free. Programs of
the user that write to the path between the look and the rename are left out, as
are pulls without a digest (older phones).

## SettingsSync: the settings blob and the outbox

`SettingsSync.tla` models `settings.go`, the settings half of
`service_features.go` with the outbox that all features share
(flushPendingToPhone, take, send, requeue), and the phone's settings in
`ping_page.dart`.

| Variable | Code |
| --- | --- |
| `cur`, `pending`, `file` | SettingsStore and settings.json |
| `proc[p]` | a setter, a socket's goroutine or the HTTP handler between its steps |
| `ws`, `toPhone`, `toMac`, `post` | the socket and its frames, a POST under way |
| `phone`, `saving`, `flush` | the phone's blob, awaited saves, awaited send |
| `now`, `causes` | the clock in seconds; history of what excuses a difference |

A blob is the number of the edit that made it, its second and its side. Both
devices share one clock: skew is left out. The setters differ in what they do
after the save (clear the mirrors, flush or not) and are five actions.

Run `settings`: two setters, two sockets, two edits, two seconds, two faults
(dropped sockets, failed saves, crashes). Two edits are what
last-writer-wins is about; two seconds make them ordered or tied. `Agree`,
`FileKeepsChoice` and `NothingStuck` each name the causes that excuse them, and
a cause is recorded only by the step that has it: with one of the causes taken
out of a property, the run fails with the behaviour described below.

## Mirror: notifications, playback, do-not-disturb

`Mirror.tla` models `notifications.go`, `playback.go`, `dnd.go`, their ingest
and flush functions in `service_features.go`, and the phone's `ping_page.dart`
around them.

| Variable | Code |
| --- | --- |
| `items`, `unseen`, `queue` | NotifStore: rows, badge, pendingDismiss |
| `playback`, `dnd` | PlaybackStore and DNDStore, by stamp |
| `proc[p]` | a call or the reader between the check of the settings and its effect, or inside a flush |
| `shade`, `track`, `pdnd` | the phone: its notifications, what it plays and sent last, its switch |
| `ws`, `toMac`, `toPhone` | the socket and its frames; without one, the phone's outbox |
| `st`, `offBy`, `owed`, `causes` | settings in force, and history |

A notification is its id and the event that posted it; each id is an app of its
own. The settings are one value for both sides, as SettingsSync leaves them.
Titles, icons, banners, progress posts and the app inventory are left out.

Run `mirror`: two ids, two events of the phone, two calls of the Mac, one fault;
room for two rows and two dismissals. "mode" is a cause where a mode hides the
player, also when it does so as the phone connects, since the phone does not send
its player again when the mode changes back. It checks `NoDismissForgotten`,
`OffShowsNothing`, `DndFollows` and `PlaybackFollows`. Two ids are needed for a
flush to be cut between two dismissals.

## Clipboard: two clipboards in step

`Clipboard.tla` models `clipboard.go`, `clipboard_sync.go`'s order of stamps,
`clipboard_watcher.go`, the clipboard half of `service_features.go` and the
phone's clipboard state.

| Variable | Code |
| --- | --- |
| `board`, `watch`, `tick` | the pasteboard, the watcher's memory and debounce, what each pass has read and not yet staged |
| `clip`, `hlc` | ClipStore and its hybrid logical clock |
| `proc[p]` | the timer, the reader, the HTTP handler, the Send buttons |
| `up`, `toPhone`, `toMac`, `post` | the link |
| `pboard`, `pdraft`, `pclip`, `psends`, `pwrites` | the phone: clipboard, debounce, state, awaited sends and writes |
| `now`, `mode`, `causes` | clock, direction, history |

Two passes of the watcher can run at once: its ticker's and one that TriggerNow
starts on each connect (`service_ws.go:51`, `service_features.go:73`).
`psends` are the pushes whose send over the socket the phone awaits, `post` the
one it awaits over HTTP. Two runs of the debounce timer do not overlap in the
model; one that lasts over 450 ms could be overtaken by the next.

**What the comparisons compare.** `Trim` is a text without the spaces around it:
the phone's watcher trims what it finds (`ping_page.dart:909`), so a Mac text with
a line end is another one to it. `Key` is what the Mac's watcher compares of an
image, its type and the first 64 characters of its base64
(`clipboard_watcher.go:347`), so two images can look alike. Both are constants;
the theorems hold for any that `ContentsAssumption` admits.

**Gates and failures.** The phone may refuse a copy (blank, too large, invalid,
secret: the second disjunct of `PhoneCopy`), drop it at the end of the debounce
(`PhoneDropsDraft`), look at its clipboard again on resume, connect and switch
(`PhoneRefresh`) and fail to write (`PhoneWriteFails`). The Mac's watcher may
fail to read (`TickReadFails`), to convert or to stage an image (`TimerDrops`),
and to write (`WriteFails`). The pane may be given an empty text, which is
stored and not sent (`PushGiven`). The user switches the direction on the Mac,
which flushes (`SetClipboardMode`), or on the phone, which does not
(`PhoneSetsMode`).

Run `clip`: two interchangeable passes of the watcher; on the Mac a text with a
line end and an image are copied, on the phone another image that looks like it,
into the pane goes that image or an empty text; three events among copies, sends,
mode switches, faults and a tick of the clock. Texts reach the phone's own sends
by the trimmed echo and the refresh. Three events are two copies that cross and
a fault or a second between them. `MaxAt` (2, as `MaxTime`) bounds two copies that
chase each other. It checks `Converge`, `BoardsMatch` and `NoBounce`, each but
for the causes it names, and the action property `StampsRise`. No cause is idle:
with one taken out the run fails ("resend" needs a fourth event), as in `mirror`.
"held" is recorded where a clip waits in the outbox of a connected Mac with
nobody to flush it: after the phone's switch, or with an empty text.

Left out: nonces, a restart of the phone, the phone's own send button
(`_sendClipboardNow`, `ping_page.dart:2081`), the conversions of images (a format
that differs has other bytes, and is another image). The check of a secret and
the read it belongs to are one step, on both sides; so are the phone's read and
the use of it in a refresh. The mode is one variable (see the module's head).

## ClipChunks: large images

`ClipChunks.tla` models the chunk lane: `clipboard_chunk.go`,
`clipboard_transfer.go`, the sizes and checks of `clipboard_sync.go` and the
phone's hub. Sizes are small numbers in the order the code's caps have
(`CapsAssumption`).

| Variable | Code |
| --- | --- |
| `send[c]` | a sender: device, size, next frame |
| `wire[d]` | frames on the socket to device d |
| `hub[d]` | ClipChunkHub of device d, in eviction order |
| `got`, `applied` | images put together, images that became the clip |
| `online`, `direction`, `mishaps`, `why` | link, mode, bound, history |

Run `chunks`: three transfers of sizes around the caps (just chunkable, a
multiple of the chunk, one too large), a hub of one session, one fault. Three
transfers overfill a hub that may hold two for a moment. It checks
`SentIsWhole` and `HubBounded`. The Mac's own check of each chunk is left out:
it never refuses one (`FramesPass`).

## What the code does not keep

The models let the code do what it does, and so show where it disagrees with a
sentence of the repository. None of these is a property of a run: the
properties are stated with the condition under which they hold, and each
condition is one of these behaviours.

**Pairing.** A socket accepted with the old token, while ForgetLastDevice is
between its first step and SetToken, stays registered after the rotation
(`pairing_rotation.go:83`: "Old-token peers get 403 from here on"). A snapshot
of the remembered phone taken before ForgetLastDevice is written after its
delete (`service.go:618`, `service.go:934`). `RotatePairFileToken` with a chmod
that fails after pair.json was replaced leaves disk and server with two tokens;
`TokensAgree` assumes it away. `ClearLostPeer` clears the peer of a socket that
connected after pingPhone's check (`service.go:735`).

**Messages.** The optimistic append of a sent SMS repeats a row a page already
brought (`messages.go:480`, against the comment at `messages.go:62`), so
NoDuplicateRows is checked where nothing is sent. After a change notice the
database fast path restores an SMS the phone deleted (`messages.go:258`, against
`docs/messages.md:52`), and it stays until a first page is asked of the phone;
CacheFollowsPhone leaves the rows the database brought (`brought`) aside. A
pushed SMS and its provider row have two ids and stay in the transcript together
(`SmsHandler.kt:853`). A late save writes rows of the forgotten phone into the
cleared database (`docs/messages.md:115`: "Unpairing ... cleans the database").
A `SaveThreads` of a push that runs after `MarkThreadReadInDB` writes the old
unread count back.

**Contacts.** Paging skips case variants: the boundary of a page ignores case for
names that come later and not for equal ones (`ContactsHandler.kt:235`, against
the comment above it, "paging never skips case-variant rows"), so a contact whose
name differs from the last one of a page in case only is passed over
(`CacheIsWhole` leaves it aside). A last contact without a name has no boundary
and the next page is the first again (234-242); the pane then never reaches the
end. SaveContacts only inserts and updates: a contact deleted on the
phone stays in the database for ever. A save that was started before a deletion
writes the row again, and a page of before the deletion may bring it back to the
directory until the change notice comes. The fast path serves a directory whose listing was not
followed to its end as the whole one (`contacts.go:141`). A later page asked for
after a wipe leaves a directory without its first page. An answer of an older
generation is dropped with its waiter, whose call then sits out its eight
seconds. ForgetLastDevice empties the contacts without a new generation.

**Files to the phone.** A native upload cancelled while its last chunk fails is
retained for a retry after all (`files_resume.go:118`: "Cancelled transfers are
user intent and never retained"). A batch without a running member is stamped
complete as soon as it is listed (`files_batch.go:130`) and pruned a minute
later, while its drop runs. A batch cancelled between a sender's check and its
registration lets that file through. On the phone, `_runChunkChain` removes the
tail of a chain another chunk has joined, so two chunks of one transfer may run
at once (`file_sync.dart:157`: "strictly FIFO"); the phone marks a chunk as
received before it is written, and commits again when a repeated last chunk
waits behind the commit. A file edited while a loop reads it, without a change of
its size, arrives as a mixture: the digest is of what was read.

**Files from the phone.** A cancel or timeout between two critical sections of a
chunk handler deletes the part file; the handler sets the status back to
running, later chunks start a new part and the digest, fed in memory, still
agrees (`files.go:1415`, against `docs/files.md:37`): a torn file is committed.
WholeUnlessCut leaves such transfers aside. Two handlers at once (HTTP and
socket) can commit a hole. A download whose path is taken is
committed under another name and the drag to Finder is told it went well
(`files.go:1383`, where the caller asked for an exact path); a rename that fails
after that leaves its part file on the disk. GetLastFileList keeps failed
listings too.

**Settings.** "Both devices always agree" (`docs/settings.md:3`) has exceptions:
two edits in one second, a frame lost after its write, an edit during the
phone's awaited flush, a restart with an unsent edit. Two saves that overlap
leave the older blob in settings.json (`settings.go:19`). A requeue after the
flush of the next connect waits for the next edit. SetClipboardAllowSensitive
flushes nothing (`service_features.go:90`). Switching notifications or playback
off on the phone does not clear the Mac's mirror, as switching it off on the
Mac does.

**Notifications, playback, do-not-disturb.** The badge counts dismissed rows
(`notifications.go:14`: "only live (non-dismissed) rows") and counts within the
cooldown too (`docs/notifications.md:61`). The phone does not repeat a
do-not-disturb state it has sent, also after the Mac has restarted
(`dnd.go:20`: "refreshed on connect/push"); a refused wish is never reported;
a switch turned back during a send is not sent. A mode adopted from the Mac does
not make the phone send its player again.

**Clipboard.** Stamps that tie leave each side its own clip
(`clipboard_sync.go:152`). Content the receiver has already does not bring its
stamp along (`clipboard.go:257`). A failed send is queued again although the
phone's clip has replaced its content, and is then sent back. The watcher may
read before and check after a remote write, and the debounce timer may fire
between ApplyRemote and NoteRemote; two copies can then chase each other, each
with a later stamp, without end. Text copied again after an image is skipped
(`clipboard_watcher.go:378`), and so is an image
that begins like the last one (347-352); a read that fails has used up its change
(318). Of two passes of the watcher the one that read
first may stage last. ClearSuppress resets one of the two fields that suppress an echo
(269: "the next tick re-reads instead of swallowing"). The hybrid clock is in
memory only (`clipboard.go:71`: "restarts ... never hand out lower stamps"). The
Send button may send what the store has no stamp of (`service_features.go:554`).
The phone clears its pending clip after an await (`ping_page.dart:1819`). The
Mac flushes a pending clip in any mode; the phone looks at the mode first. The
phone's switch of the direction flushes nothing on the Mac
(`service_features.go:711`), and an empty text given to the pane is queued and
not sent (482), both until the next connect. A Mac text with a line end comes
back from the phone trimmed, under a later stamp, and replaces the Mac's. The
phone swallows a failed write (`ping_page.dart:1154`); a refresh then sends what
the clipboard still holds as a new copy. A refresh does not ask whether the text
is a secret.

**Large images.** The reassembled image goes through the check of small images
(`clipboard_transfer.go:265`), which refuses every image of this lane, so none
is ever applied (`clipboard_transfer.go:238`: "flows through the same ... path
as inline pushes"); `applied` stays empty in the run. The phone's HTTP fallback
posts chunks where they are refused. Sessions expire after five minutes only
when another manifest arrives (`clipboard_chunk.go:27`).

## Proofs

Each proof holds for every value of the constants that the named assumption of
the module admits: any sets of goroutines, any number of pieces, entries, rows,
edits and faults. All follow one pattern. `TypeInv`, in `...Proofs`, is `TypeOK`
strengthened by what the next step of a goroutine relies on, and inductive by
itself; each safety property has an invariant that is inductive together with
it. Most actions touch few of the variables an invariant reads: a frame lemma
per invariant covers all those at once, and only the others have steps of their
own. What a goroutine does to its own record is stated once, in a lemma per kind
of move (`Moves`, `ThreadStep`), and cited by all proofs of the module.

### The pairing session

`PairSessionProofs.tla` proves for any sets of phones, sockets, requests and
calls, any number of tokens and any faults, from `ConstantsAssumption` alone
(the sets are disjoint, `None` is not a phone or a socket):

| Theorem | Statement |
| --- | --- |
| `TypeCorrect` | `Spec => []TypeOK` |
| `TokensInOrder` | `Spec => []TokenOrder`: pair.json, server, database key and QR lag only in the order of the rotation, even if a chmod fails |
| `TokensAgree` | `Spec => []TokenAgreement`, if no chmod fails after a write |
| `NoSocketAstray` | `Spec => []NoStraySocket` |
| `NoResurrection` | `Spec => GoneStaysGone` |

*Types.* A thread's record must suit its program counter, or the next step has
nothing to work on: `Suits` says so for any kind of thread, `ThreadStep` that
replacing one record by one that suits keeps all of them, and `HelpersSuit`
that what the handlers write suits. Each action is then one small step.

*Tokens.* `TokenOrder` is not inductive without TypeOK, because
`RotatePairFileToken` mints `disk + 1` and needs the guard ForgetClear took
(`fg \in {"delete", "rotate"} => disk < MaxToken`). `TokenAgreement` adds which
copies agree at which step; a restart reads all of them from disk.

*Sockets.* `NoStraySocket` is inductive together with TypeOK: TypeOK supplies
that `oldWS` is empty outside `closeOld`, and `Unreferenced` that a slot is
reused only when nobody refers to it.

*Gone phones.* `Gone` is stated so that it is preserved step by step: it
includes the handlers and unwritten snapshots that could still bring the phone
back. The proof uses TokenOrder (a new token is one no unpaired phone holds)
and a frame lemma, `LeavesAloneKeeps`: a step that writes only phones that were
in flight before leaves a gone phone gone.

### Messages

`SmsSyncProofs.tla`, from `ConstantsAssumption`:

| Theorem | Statement | Further assumption |
| --- | --- | --- |
| `TypeCorrect` | `Spec => []TypeOK` | |
| `WaitersAreFailed` | `Spec => []NoForgottenWaiter` | |
| `ShownIsSaved` | `Spec => []CacheIsSaved` | |
| `RowsOnce` | `Spec => []NoDuplicateRows` | nothing is sent |
| `DeletedStaysDeleted` | `Spec => []CacheFollowsPhone` | |
| `PushesOnce` | `Spec => []PushesCountedOnce` | |

The assumption of RowsOnce is the condition of its run: without it the code does
not keep the property ("What the code does not keep", Messages). DeletedStaysDeleted
holds with a database and with sends, which no run of it has: what they put
into the transcript is `brought`, and the theorem is about every other row.
PushesCountedOnce carries its condition: a push that leaves the deduplication cache before its
repeat arrives is counted twice.

*Waiters.* Inductive with TypeInv: a call that waits, or is about to, has its
waiter registered or its result, so the goroutine of an ended socket finds it.

*Saves.* `SaveInv` says of every row shown that it is in the table or in a save
under way (`Safe`). Rows come with the save that names them or from the table;
the one step that empties the table follows the one that empties the caches,
which `SaveInv` leaves out (`fg = "caches"`). The proof covers the page saves
that no run reaches.

*Deleted rows.* `FollowInv` adds to CacheFollowsPhone that an answer some live
waiter of this generation would accept (`Usable`) names only what is in the
store, or a notice is outstanding (`PageInv`); and that a call which has not asked
has no answer under way (`UnaskedInv`), or an old answer could become usable
through a request id used again. A row that is shown and not `brought` (`Paged`)
came with such an answer or a push; the database can only take rows out of
that, and a first page starts it anew.

*Counts.* `CountInv` bounds the unread count by the SMS there were plus the
pushes seen, wherever a count is: in the cache, the table, a save, a message.
The pushes seen are different SMS (`SeenInv`), so there are no more of them than
SMS (`DifferentLength`), as long as none has been evicted.

### Files to the phone

`FileUploadProofs.tla` extends `FileUpload` and `UploadBatch`, which share no
state: the last three theorems are about drops. From `ConstantsAssumption` and
`DropAssumption`:

| Theorem | Statement | Further assumption |
| --- | --- | --- |
| `TypeCorrect` | `Spec => []TypeOK` | |
| `NeverSpliced` | `Spec => []NoSplice` | |
| `DoneMeansDelivered` | `Spec => []DoneIsDelivered` | (stated for a phone that acknowledges) |
| `Refines` | `Spec => ImplementsDelivery` | `AckPeer` |
| `DropTypeCorrect` | `DropSpec => []DropTypeOK` | |
| `FoldersFirst` | `DropSpec => []MkdirFirst` | |
| `ReturnsWhole` | `DropSpec => []NothingLeftOut` | |

*No splice.* `FileStep`: the one step that writes a file of the phone is a
commit whose digest agreed, and a digest that agrees is that of one version.

*Refinement.* A transfer is reported done only after a confirmation. `EarnedOK`
follows confirmations backwards: an acknowledgement under way and a result in a
call's channel both stand for a committed file. It is inductive because files
are replaced and never removed and because a waiter's channel belongs to the
call of its transfer (`WaitsOK`). A step of FileUpload then is a step of
`FileDelivery` or changes neither report nor arrived version, action by action.
A phone that does not acknowledge makes the Mac report done once all is written
(older versions), which does not refine the promise: hence `AckPeer`.

*Folders first.* `DropTypeInv` has: an open gate is a folder whose mkdir was written,
and the walk has written those of all folders behind it (`WalkOK`).

*Nothing left out.* `SentInv` says where each file the walk has passed can be: in
the channel, in the runner's hand or with a sender, unless an error is recorded
(`NoneLost`), and what the ends of walker and runner imply (`EndsOK`). None
falls between them, for drops of any size.

### Files from the phone

`FileDownloadProofs.tla`, from `DownloadAssumption`:

| Theorem | Statement | Further assumption |
| --- | --- | --- |
| `TypeCorrect` | `Spec => []TypeOK` | |
| `NilNeedsFile` | `Spec => []NilMeansFile` | |
| `NoneLeftOpen` | `Spec => []OpenIsRunning` | |
| `WholeFiles` | `Spec => []WholeUnlessCut` | `OneByOne` |

`OneByOne` is that chunks are handled one after the other, as those of a socket
are; with a chunk over HTTP at the same time the property fails. `NilNeedsFile` and
`NoneLeftOpen` need no such assumption.

*Nil.* A call is told nil by the step that puts its file in place. The file at the
path is replaced by no later download, since each looks before it renames, and
what is beside it has a name of its own. Inductive with the channel: what waits
in `box` counts as told.

*None open.* A handle is opened by a handler and closed by whoever ends the
download. GetTransfers closes none, so the proof needs that a handler at work
keeps the record: `Prune` takes the five seconds a record stays for longer than a
handler needs.

*Whole files.* The digest is fed before the piece is written, so a digest that
agrees says nothing of the part file by itself. `WholeInv` ties them: while the
digest counts, every piece it has seen is in the part file or about to be
written by the handler that fed it (`DigestOK`), and a handler works on a
download that goes on (`WorkOK`). Downloads that were cut are left aside.

### Contacts

`ContactsProofs.tla`, from `ConstantsAssumption` and `NamesAssumption` (the listing
is in the order of the names without case, and equal names are equal without
case), for any number of calls, contacts, rows per page, edits, requests and
faults, and any names:

| Theorem | Statement |
| --- | --- |
| `TypeCorrect` | `Spec => []TypeOK` |
| `CallsAreFailed` | `Spec => []NoForgottenCall` |
| `DirectoryIsCurrent` | `Spec => []RowsAreCurrent` |
| `RowsOnce` | `Spec => []NoDuplicateRows` |
| `DirectoryReachesDb` | `Spec => []DirectoryIsSaved` |
| `DeletionsAreTrue` | `Spec => []DeletedOnPhone` |
| `DirectoryIsWhole` | `Spec => []CacheIsWhole` |

None needs a further assumption. Every property the run checks is proved.

*Sequences.* `Places` says that the places `Pick` takes come one after the other;
from it follow what a filtered sequence holds and that it stays in order
(`Picked`, `PickedRows`), what a page holds (`PageRows`) and what
mergeContactEntries gives (`MergedRows`).

*Requests.* `ReqInv` ties what is under way to the call that asked: a request id
names one request, one answer and one live call, and an answer that comes twice
is the one the channel holds. It is inductive with TypeInv. Most steps are
*quiet* (`QuietStep`): they ask nothing new and leave each call or rest it.

*Current.* `FreshInv`: once the Mac is up to date, an answer that a call of this
generation would accept is the page of the book as it is. A step either leaves
the Mac behind, or leaves the book alone, or starts a generation with an empty
directory (`HeardSteps`).

*Saved.* A saved row stays saved, step by step, until a restart (`StaysSaved`);
a restart reads the rows from the database. Saves must have no row twice
(`RowsInv`), or the one that is written would not be determined.

*Gone.* `DeadInv`: an answer that a deletion went well, the call that took it
and the pane's memory name only contacts that are gone from the phone for good.

*Whole.* `WholeInv`: a directory that is up to date, not cut and not empty has no
gap, and is either whole or about to be brought on by a call on its way through a
listing (`OnTheWay`). A contact is `Accounted` for when the directory has it or a
boundary has passed over it; no gap (`Gapless`) means that below each row every
contact of the phone is accounted for. A page keeps that (`PageAccounts`): it
follows on its cursor's row, what it leaves out between the two is a twin of that
row but for case, and where the cursor has no name it starts the book again,
which leaves no gap either. The cursor of a call is the one in its channel, if
there is a good page in it, else the one it asked with (`Ahead`). A call on its
way that gives up cuts the listing (`ListingSteps`). In the end nobody is on
the way, and nothing is left to come.

### Settings and clipboard

`SettingsSyncProofs.tla` and `ClipboardProofs.tla`, from the assumptions of the
modules they extend; the latter extends `Clipboard` and `ClipChunks`, which
share no state, and its last three theorems are about large images:

| Theorem | Statement |
| --- | --- |
| `SettingsSyncProofs!TypeCorrect` | `Spec => []TypeOK` |
| `OutboxDrains` | `Spec => []NothingStuck` |
| `FileIsKept` | `Spec => []FileKeepsChoice` |
| `SidesAgree` | `Spec => []Agree` |
| `ClipboardProofs!TypeCorrect` | `Spec => []TypeOK` |
| `StampsOnlyRise` | `Spec => StampsRise` |
| `NeverBounces` | `Spec => []NoBounce` |
| `ClipboardsHoldClips` | `Spec => []BoardsMatch` |
| `ClipsConverge` | `Spec => []Converge` |
| `LargeTypesHold` | `ChunkSpec => []ChunkTypeOK` |
| `LargeImagesArrive` | `ChunkSpec => []SentIsWhole` |
| `SessionsAreFew` | `ChunkSpec => []HubBounded` |

*Outbox.* `StuckInv`: a change that waits while there is a socket has a
goroutine that will flush it (`Eager`), or one of the causes has occurred.

*File.* `FileInv`: settings.json lags behind only while a goroutine is about to
write the blob of the moment (`WillSave`), and nobody is about to write a blob
that would win over it. The second part needs `StampsOK`: no stamp, wherever it
is, is ahead of the clock, so a new edit wins over everything older.

*Agreement.* `AgreeInv`, while none of the causes has occurred, has three parts.
`BoundsOK`: no blob, wherever it is, wins over what the side that stamped it
holds. `FlushedOK`: what the phone flushes is on its way or the Mac has looked at
it. `DifferOK`: if the sides differ, the blob that wins is on its way to the
other (`ToPhoneOn`, `ToMacOn`: outbox, goroutine, frame, awaited save). When
nothing is on its way the sides must be the same. `Bound` is what makes the
third part inductive: a blob that arrives and loses was not the one awaited.

*Stamps.* `StoreStep`: an action leaves clip and clock alone, starts again after
a restart, or moves both to a later stamp; NextStamp is past the clock and the
clip whatever the wall clock says.

*Bounces.* `BounceInv` extends NoBounce backwards to the outbox and to the push a
goroutine holds: whatever is about to be sent is the Mac's own copy.

*Clipboards and clips.* `BoardInv`, while none of the causes has occurred: what
is on the pasteboard is new and not handled before, or a pass has it in hand, or
it waits for the timer, or it is the clip (`MacBoard`); or else it is about to be
replaced, by the one goroutine that writes what the phone sent, and then
nothing local is under way (`Fetched`, `Coming`). The watcher knows an image by
its `Key` only, so "it is the clip" must not rest on the watcher's memory: the
copy of an image that looks like another is the cause "repeat", and what is in
hand otherwise is what was copied (`Alike`). The phone's half is the same with
its draft, which is trimmed, and its awaited writes. An empty text on the way would break it, as
neither watcher takes one; `NoEmpty` says that none is anywhere unless one was
typed into the pane.

*Both sides alike.* `ConvergeInv` is the argument of Agree for two clips with a
hybrid clock (`Agreeing`): a push, wherever it is, is the clip of its side or
older than it; a clip the other side does not have yet is queued, in a
goroutine's hand or on its way (`MacHeading`, `PhoneHeading`); a push the phone
awaits and that is no longer on its way has reached a Mac that is not behind it
(`Answered`). `Flushing` adds that a queued clip of a connected Mac has a
goroutine that will take it, if the mode lets the Mac send; the phone's switch and the empty text, which leave
one without, are the cause "held". When nothing is under way neither side can be
behind.

The first attempts at these two proofs failed for good reasons: the exceptions
the properties name were complete only within the run's bounds. A second pass
of the watcher, a Send button that read before a later copy, and a copy cleared
by the answer to an older one belong to them.

*Large images.* First the sizes (`Covers`, `TotalOK`, `SliceOK`, `FramesPass`,
`WholeVerifies`): for any chunk size and caps in the order of `CapsAssumption`,
the announced number of chunks covers the image, none is empty, no Sanitize
function refuses what a sender makes, and the slices one after the other have
the image's size. Then the hub, as a map in a sequence: what `Begin` and `Add` do
to the session they are for, and that they leave the others alone (`BeginOK`,
`AddOK`). `LaneInv` says of a transfer that nothing has befallen how far its
receiver is (`AtFrame`): for some k the session holds the slices of the first k
frames and the frames from k on are on the socket. It needs that a
transfer's frames are in order on its queue (`OrderOK`), so the frame at the
head is number k (`HeadIsNext`), and that whatever leaves a hub or the socket
otherwise is noted. `MaxSessions >= 1` is used: with none the phone would drop
a session as it opens.

### Notifications, playback, do-not-disturb

`MirrorProofs.tla`, from `SettingsAssumption` and `BoundsAssumption`:

| Theorem | Statement |
| --- | --- |
| `TypeCorrect` | `Spec => []TypeOK` |
| `DismissalsKept` | `Spec => []NoDismissForgotten` |
| `OffIsQuiet` | `Spec => []OffShowsNothing` |
| `PlaybackKeepsUp` | `Spec => []PlaybackFollows` |
| `SwitchKeepsUp` | `Spec => []DndFollows` |

Every property the run checks is proved.

*Types.* A row is in the mirror once, and so is a post in the phone's outbox
(`OutboxOK`, part of TypeOK): `Without` removes the one place (`TakenOut`,
`LeftOver`), and the stale posts of an outbox come first, since posts are queued
in the order of their times.

*Dismissals.* `OwedKept`: an owed dismissal is in the queue, in the list some
flush still has to send, or in the socket. NoDismissForgotten alone is not
inductive: it says nothing of a list that is in a goroutine's hands.

*Off.* `OffInv` adds the reader: a post that is past its gates when the switch
goes off may still come in, but only into an empty mirror.

*The player.* `PlayInv`, while none of the causes has occurred: a connected phone
has sent what it plays; what it sent last is shown, in the
reader's hand or on its way; and nothing there is newer. Without the last part a
stale frame could arrive after a fresh one.

*The switch.* `DndInv` orders the states on their way (`FramesOK`): none is older
than what is shown, none overtakes an older one, and the last is what the phone
has told. If none is on its way the Mac shows what was told, or a wish of its
own that the phone has yet to take (`Wished`).

### Only model-checked

The liveness properties BrokenSocketDeregisters, UploadSettles and DropEnds: the
prover does no fairness. Every invariant and every other action
property of the runs is proved.

## Not modelled

* Photos (`photos*.go`): thumbnails and downloads over the same chunk handler as
  FileDownload; listing and caches as in Contacts.
* Avatars, the notification app inventory, upload preferences, the folder size
  limits: request and answer without interplay with the rest.
* The browser-policy upload that never waits for an acknowledgement
  (UploadBrowserFileWithPolicy) and the older sequential folder loop
  (uploadOneFolder).
* Discovery and the dial race of the phone, the watchdog's clock: time and
  addresses. A timeout may happen whenever its call waits.
* Encryption and certificates, image conversion, pasteboard and content-provider
  calls: library or operating system code without state of their own. A secret
  that appears on the pasteboard between the check and the read is one of these.
* Demo mode returns early from every operation. The front end renders. Payload
  shape checks are stateless field validation: the models start where a message
  has passed them. Of the version gate PairSession has the outcome only
  (`PingOutdated`).
* A crash inside a write of pair.json or device.json (a write is one step; that
  of settings.json may be torn, see MacRestarts of SettingsSync). Clocks that
  differ.

## Plan

Every safety property of the runs is proved for all values of the constants.
Next would be a module for photos in the manner of FileDownload and Contacts,
the older upload loops beside FileUpload and UploadBatch, and an abstract
specification of the download that FileDownload implements, as FileDelivery is
one of the upload.
