---------------------------- MODULE FileUpload ----------------------------
(***************************************************************************)
(* Sending files to the phone: the upload loops of files.go and            *)
(* files_parallel.go, the delivery acknowledgement of files_ack.go, retry  *)
(* and resume of files_resume.go, the sliced uploads of the browser tab in *)
(* files_conflict.go, cancelling, and the phone's end in file_sync.dart.   *)
(*                                                                         *)
(* One action is one critical section of fileMu, one socket write or one   *)
(* step of the phone.  A frame to the phone is there once it is written:   *)
(* the socket is first in, first out, so whatever the phone does before it *)
(* takes the frame might as well have happened before the Mac wrote it.    *)
(* A frame may be lost with the socket.  What the phone sends back falls   *)
(* back to HTTP: it takes its time, overtakes, gets lost or comes twice.   *)
(*                                                                         *)
(* A file is cut into Chunks pieces.  Its content is the number of its     *)
(* version, the sha256 of a file whose pieces are all of version v is v.   *)
(* Nobody edits a file while a call reads it.                              *)
(***************************************************************************)
EXTENDS Naturals, Sequences, FiniteSets

CONSTANTS
    Transfers,   \* transfer ids, each drawn for one file
    Calls,       \* goroutines that may send at the same time
    Kinds,       \* how a file may be sent: "block" and "pipe" are the two
                 \* native loops, "tab" the slices of the browser tab
    Chunks,      \* pieces per file
    AckPeer,     \* whether the phone confirms deliveries (files-ack)
    None,        \* no call, no content
    MaxVersion,  \* bound: versions of a local file
    MaxFaults,   \* bound: what may go wrong on the link and on the phone
    MaxRetries,  \* bound: how often the user presses Retry
    MaxQueue     \* bound: chunks the phone has yet to write

ASSUME ConstantsAssumption ==
    /\ Kinds \subseteq {"block", "pipe", "tab"}
    /\ Chunks \in Nat \ {0}
    /\ AckPeer \in BOOLEAN
    /\ MaxVersion \in Nat \ {0}
    /\ MaxFaults \in Nat
    /\ MaxRetries \in Nat
    /\ MaxQueue \in Nat \ {0}
    /\ None \notin Nat \cup Calls \cup {"ok", "fail"}
    /\ None \notin [0..(Chunks - 1) -> 1..MaxVersion]

Index    == 0..(Chunks - 1)
Last     == Chunks - 1
Versions == 1..MaxVersion
Bad      == 0                \* the digest of a part that is not one version
Misfed   == MaxVersion + 1   \* the digest of slices fed out of order, which is
                             \* that of no part
NoStage  == [i \in Index |-> None]

VARIABLES
    status,     \* status[t]: Status of the transfer, "none" without a record
    resumable,  \* resumable[t]: the record offers Retry
    source,     \* source[t]: "local" or "browser", once t is drawn
    session,    \* uploadSessions: the transfers retained for a retry
    slice,      \* browserUploads: [next, fed, from], or None
    waiter,     \* transferWaiters: whose channel is registered, or None
    statWaiter, \* statWaiters: likewise
    call,       \* call[c]: where goroutine c stands
    fresh,      \* transfer ids that have not been drawn
    batch,      \* the drop all files belong to: "running" or "cancelled"
    local,      \* local[t]: version of the file on the Mac
    up,         \* the socket is there
    toMac,      \* answers under way to the Mac
    chain,      \* chain[t]: chunks the phone has accepted, the first in work
    stage,      \* stage[t]: the part file
    ledger,     \* _progress: chunks received, or None
    settled,    \* _doneUploads
    file,       \* file[t]: the pieces of the committed file, or None
    faults, retries

records == <<status, resumable, source, session, slice>>
waits   == <<waiter, statWaiter>>
user    == <<fresh, batch, local, retries>>
link    == <<up, toMac>>
phone   == <<chain, stage, ledger, settled, file>>
vars    == <<records, waits, call, user, link, phone, faults>>

Idle == [pc |-> "idle", t |-> None, kind |-> "none", idx |-> 0, sha |-> None,
         box |-> None]

\* A chunk the phone has accepted: whether its epoch is still the current
\* one, and whether it is being written.
Chunk(i, v, d) == [idx |-> i, ver |-> v, sha |-> d, live |-> TRUE, busy |-> FALSE]

\* The answers of the phone.
Ack(t, ok)     == [type |-> "ack", t |-> t, val |-> IF ok THEN 1 ELSE 0]
StatResp(t, n) == [type |-> "statresp", t |-> t, val |-> n]

Pcs == {"idle", "task", "poll", "reg", "send", "wait", "failed", "fin", "stat",
        "begin"}

Status == {"none", "running", "done", "error", "cancelled"}

Init ==
    /\ status = [t \in Transfers |-> "none"]
    /\ resumable = [t \in Transfers |-> FALSE]
    /\ source = [t \in Transfers |-> "none"]
    /\ session = {}
    /\ slice = [t \in Transfers |-> None]
    /\ waiter = [t \in Transfers |-> None]
    /\ statWaiter = [t \in Transfers |-> None]
    /\ call = [c \in Calls |-> Idle]
    /\ fresh = Transfers
    /\ batch = "running"
    /\ local = [t \in Transfers |-> 1]
    /\ up = TRUE
    /\ toMac = {}
    /\ chain = [t \in Transfers |-> <<>>]
    /\ stage = [t \in Transfers |-> NoStage]
    /\ ledger = [t \in Transfers |-> None]
    /\ settled = {}
    /\ file = [t \in Transfers |-> None]
    /\ faults = 0
    /\ retries = 0

(***************************************************************************)
(* The phone takes a frame off the socket.                                 *)
(***************************************************************************)

\* _handleChunk: a chunk of a committed upload is dropped, any other joins
\* the chain of its transfer.
handleChunk(t, k) ==
    /\ Len(chain[t]) < MaxQueue
    /\ chain' = IF t \in settled THEN chain
                ELSE [chain EXCEPT ![t] = Append(@, k)]

\* _handleCancel: what was accepted before belongs to an older epoch, the
\* ledger and the part file go.  Without a socket the phone learns nothing.
handleCancel(T) ==
    IF up
    THEN /\ chain' = [t \in Transfers |->
                        IF t \notin T THEN chain[t]
                        ELSE [n \in DOMAIN chain[t] |->
                                [chain[t][n] EXCEPT !.live = FALSE]]]
         /\ ledger' = [t \in Transfers |-> IF t \in T THEN None ELSE ledger[t]]
         /\ stage' = [t \in Transfers |-> IF t \in T THEN NoStage ELSE stage[t]]
         /\ UNCHANGED <<settled, file>>
    ELSE UNCHANGED phone

\* The first piece missing from the ledger of t.
nextMissing(t) ==
    IF ledger[t] = None THEN IF t \in settled THEN Chunks ELSE 0
    ELSE CHOOSE i \in 0..Chunks : /\ i \notin ledger[t]
                                  /\ \A j \in 0..Chunks : j < i => j \in ledger[t]

\* _handleStat.
handleStat(t) == toMac' = toMac \cup {StatResp(t, nextMissing(t))}

(***************************************************************************)
(* The channels of the waiting calls.                                      *)
(***************************************************************************)

\* A non-blocking send of v into the channel of call w, which holds one.
Post(cs, w, v) ==
    IF w = None \/ cs[w].box # None THEN cs ELSE [cs EXCEPT ![w].box = v]

\* Call c returns.  A channel it leaves registered has no reader any more.
Leave(c) ==
    /\ waiter' = [t \in Transfers |-> IF waiter[t] = c THEN None ELSE waiter[t]]
    /\ UNCHANGED statWaiter

\* failTransfer, whatever the status was, by call c that then returns; the
\* channel registered for t, its own or another call's, is told.
failTransfer(c, t) ==
    /\ status' = [status EXCEPT ![t] = IF @ = "none" THEN @ ELSE "error"]
    /\ call' = [Post(call, waiter[t], "fail") EXCEPT ![c] = Idle]
    /\ Leave(c)

\* saveNativeSession: t is retained for a retry.
saveNativeSession(t) ==
    /\ session' = session \cup {t}
    /\ resumable' = [resumable EXCEPT ![t] = @ \/ status[t] # "none"]

\* What a failed send or a failed confirmation leaves behind: a native
\* upload is retained, a resumed one still is, the tab's record offers Retry.
retain(k, t) ==
    CASE k \in {"block", "pipe"} -> saveNativeSession(t)
      [] k = "resume"            -> UNCHANGED <<session, resumable>>
      [] k = "tab" -> /\ resumable' = [resumable EXCEPT ![t] = @ \/ status[t] # "none"]
                      /\ UNCHANGED session

(***************************************************************************)
(* Native uploads: the loops of streamLocalFileInBatch and                 *)
(* sendUploadChunks, which differ in what they do once cancelled.          *)
(***************************************************************************)

\* A worker takes the next file of the drop, unless the drop is cancelled.
Dispatch(c, t, k) ==
    /\ call[c] = Idle
    /\ t \in fresh
    /\ k \in Kinds \ {"tab"}
    /\ up
    /\ batch = "running"
    /\ fresh' = fresh \ {t}
    /\ call' = [call EXCEPT ![c] = [Idle EXCEPT !.pc = "task", !.t = t, !.kind = k]]
    /\ UNCHANGED <<records, waits, batch, local, retries, link, phone,
                   faults>>

\* The transfer is registered.
Register(c) ==
    LET t == call[c].t IN
    /\ call[c].pc = "task"
    /\ status' = [status EXCEPT ![t] = "running"]
    /\ source' = [source EXCEPT ![t] = "local"]
    /\ call' = [call EXCEPT ![c].pc = "poll"]
    /\ UNCHANGED <<resumable, session, slice, waits, user, link, phone, faults>>

\* Where the loop goes for piece i: the last one first registers the channel
\* for the confirmation.
ready(i) == IF i = Last /\ AckPeer THEN "reg" ELSE "send"

\* Before each piece the loop asks whether the transfer was cancelled.
Poll(c) ==
    LET t == call[c].t IN
    /\ call[c].pc = "poll"
    /\ IF status[t] # "cancelled"
       THEN /\ call' = [call EXCEPT ![c].pc = ready(call[c].idx)]
            /\ UNCHANGED <<status, waits>>
       ELSE IF call[c].kind = "pipe"
       THEN failTransfer(c, t)
       ELSE /\ call' = [call EXCEPT ![c] = Idle]
            /\ Leave(c)
            /\ UNCHANGED status
    /\ UNCHANGED <<resumable, source, session, slice, user, link, phone, faults>>

\* registerAckWaiter: a new channel takes the place of any other.
registerAckWaiter(c) ==
    /\ call[c].pc = "reg"
    /\ waiter' = [waiter EXCEPT ![call[c].t] = c]
    /\ call' = [call EXCEPT ![c].pc = "send", ![c].box = None]
    /\ UNCHANGED <<records, statWaiter, user, link, phone, faults>>

\* The piece call c is about to send.  The digest rides on the last one.
piece(c) ==
    LET t == call[c].t
        i == call[c].idx
    IN  Chunk(i, local[t],
              IF i # Last THEN None
              ELSE IF call[c].kind = "tab" THEN call[c].sha ELSE local[t])

\* A piece of the tab is out: the session moves on, and ends with the last.
advance(t, i) ==
    IF slice[t] = None THEN slice
    ELSE IF i = Last THEN [slice EXCEPT ![t] = None]
    ELSE [slice EXCEPT ![t].next = @ + 1]

\* Where a call is after piece i: the next piece, the confirmation, the end.
sent(c) ==
    LET i == call[c].idx IN
    IF i = Last THEN [call EXCEPT ![c].pc = IF AckPeer THEN "wait" ELSE "fin"]
    ELSE IF call[c].kind = "tab" THEN [call EXCEPT ![c] = Idle]
    ELSE [call EXCEPT ![c].pc = "poll", ![c].idx = i + 1]

\* sendFileChunkWithRetry succeeds; the frame is lost if the socket breaks
\* right behind it.
SendChunk(c) ==
    LET t == call[c].t IN
    /\ call[c].pc = "send"
    /\ up
    /\ \/ /\ handleChunk(t, piece(c))
          /\ UNCHANGED <<up, faults>>
       \/ /\ faults < MaxFaults
          /\ faults' = faults + 1
          /\ up' = FALSE
          /\ UNCHANGED chain
    /\ call' = sent(c)
    /\ slice' = IF call[c].kind = "tab" THEN advance(t, call[c].idx) ELSE slice
    /\ UNCHANGED <<status, resumable, source, session, waits, user, toMac, stage,
                   ledger, settled, file>>

\* An attempt is reported as failed although the frame is out: the next one
\* sends it again.
SendAgain(c) ==
    /\ call[c].pc = "send"
    /\ up
    /\ faults < MaxFaults
    /\ faults' = faults + 1
    /\ handleChunk(call[c].t, piece(c))
    /\ UNCHANGED <<records, waits, call, user, link, stage, ledger, settled, file>>

\* All its attempts fail, the frame may have come through nevertheless.
SendFails(c) ==
    LET t == call[c].t IN
    /\ call[c].pc = "send"
    /\ \/ /\ ~up
          /\ UNCHANGED <<chain, faults>>
       \/ /\ up
          /\ faults < MaxFaults
          /\ faults' = faults + 1
          /\ UNCHANGED chain \/ handleChunk(t, piece(c))
    /\ failTransfer(c, t)
    /\ retain(call[c].kind, t)
    /\ UNCHANGED <<source, slice, user, link, stage, ledger, settled, file>>

\* The wait ends with the confirmation.  Whatever channel is registered for
\* the transfer by now is removed.
WaitOk(c) ==
    /\ call[c].pc = "wait"
    /\ call[c].box = "ok"
    /\ waiter' = [waiter EXCEPT ![call[c].t] = None]
    /\ call' = [call EXCEPT ![c].pc = "fin"]
    /\ UNCHANGED <<records, statWaiter, user, link, phone, faults>>

\* Mutant: a timeout passes for a confirmation.
WaitPasses(c) ==
    /\ call[c].pc = "wait"
    /\ waiter' = [waiter EXCEPT ![call[c].t] = None]
    /\ call' = [call EXCEPT ![c].pc = "fin"]
    /\ UNCHANGED <<records, statWaiter, user, link, phone, faults>>

\* Mutant: the wait has no timer.
WaitFailsIfTold(c) ==
    /\ call[c].pc = "wait"
    /\ call[c].box = "fail"
    /\ waiter' = [waiter EXCEPT ![call[c].t] = None]
    /\ call' = [call EXCEPT ![c].pc = "failed"]
    /\ UNCHANGED <<records, statWaiter, user, link, phone, faults>>

\* It ends with a rejection, with a cancel, or after fileAckTimeout.
WaitFails(c) ==
    /\ call[c].pc = "wait"
    /\ waiter' = [waiter EXCEPT ![call[c].t] = None]
    /\ call' = [call EXCEPT ![c].pc = "failed"]
    /\ UNCHANGED <<records, statWaiter, user, link, phone, faults>>

\* The delivery was not confirmed.
Unconfirmed(c) ==
    LET t == call[c].t IN
    /\ call[c].pc = "failed"
    /\ failTransfer(c, t)
    /\ retain(call[c].kind, t)
    /\ UNCHANGED <<source, slice, user, link, phone, faults>>

\* The upload is complete.  The tab's record was settled by the
\* confirmation; a resumed upload gives up its session.
Complete(c) ==
    LET t == call[c].t
        k == call[c].kind
    IN
    /\ call[c].pc = "fin"
    /\ status' = [status EXCEPT ![t] = IF @ = "running" /\ ~(k = "tab" /\ AckPeer)
                                       THEN "done" ELSE @]
    /\ session' = IF k = "resume" THEN session \ {t} ELSE session
    /\ resumable' = IF k \in {"resume", "tab"} THEN [resumable EXCEPT ![t] = FALSE]
                    ELSE resumable
    /\ call' = [call EXCEPT ![c] = Idle]
    /\ Leave(c)
    /\ UNCHANGED <<source, slice, user, link, phone, faults>>

(***************************************************************************)
(* Retry.                                                                  *)
(***************************************************************************)

\* The versions of a file that differ from the others in size.
Resized == {v \in Versions : v > 2}

\* queryUploadStat: call c asks the phone which piece it misses first.  It
\* starts over when the question cannot be sent.
queryUploadStat(c, t, k) ==
    /\ call[c] = Idle
    /\ retries < MaxRetries
    /\ up
    /\ retries' = retries + 1
    /\ \/ /\ handleStat(t)
          /\ statWaiter' = [statWaiter EXCEPT ![t] = c]
          /\ call' = [call EXCEPT ![c] = [Idle EXCEPT !.pc = "stat", !.t = t, !.kind = k]]
          /\ UNCHANGED faults
       \/ /\ faults < MaxFaults
          /\ faults' = faults + 1
          /\ call' = [call EXCEPT ![c] = [Idle EXCEPT !.pc = "begin", !.t = t, !.kind = k]]
          /\ UNCHANGED <<toMac, statWaiter>>
    /\ UNCHANGED <<records, waiter, fresh, batch, local, up, phone>>

\* ResumeUpload, unless the file has another size than before.
ResumeUpload(c, t) ==
    /\ t \in session
    /\ local[t] \notin Resized
    /\ queryUploadStat(c, t, "resume")

\* dropNativeSession: a retry that finds the file changed gives it up.
ResumeChanged(t) ==
    /\ t \in session
    /\ local[t] \in Resized
    /\ session' = session \ {t}
    /\ resumable' = [resumable EXCEPT ![t] = FALSE]
    /\ UNCHANGED <<status, source, slice, waits, call, user, link, phone, faults>>

\* ResumeBrowserUpload, behind the Retry button of a failed record.
ResumeBrowserUpload(c, t) ==
    /\ slice[t] # None
    /\ status[t] = "error"
    /\ resumable[t]
    /\ queryUploadStat(c, t, "tab")

\* The phone misses nothing: the native session is given up, the status
\* stays what it was.
AlreadyThere(c) ==
    LET t == call[c].t IN
    /\ call[c].pc = "stat"
    /\ call[c].box = "ok"
    /\ call[c].idx = Chunks
    /\ statWaiter' = [statWaiter EXCEPT ![t] = None]
    /\ IF call[c].kind = "resume"
       THEN /\ session' = session \ {t}
            /\ resumable' = [resumable EXCEPT ![t] = FALSE]
       ELSE UNCHANGED <<session, resumable>>
    /\ call' = [call EXCEPT ![c] = Idle]
    /\ UNCHANGED <<status, source, slice, waiter, user, link, phone, faults>>

\* It names the first missing piece, or fileStatTimeout passes and the
\* upload starts over.
StatEnds(c) ==
    /\ call[c].pc = "stat"
    /\ \/ /\ call[c].box = "ok"
          /\ call[c].idx < Chunks
          /\ call' = [call EXCEPT ![c].pc = "begin", ![c].box = None]
       \/ /\ call' = [call EXCEPT ![c].pc = "begin", ![c].box = None, ![c].idx = 0]
    /\ statWaiter' = [statWaiter EXCEPT ![call[c].t] = None]
    /\ UNCHANGED <<records, waiter, user, link, phone, faults>>

\* The record runs again, a pruned one is made anew.  The native loop goes
\* on with the missing piece; the tab replays its slices from the start, up
\* to that piece only into the digest.
Restart(c) ==
    LET t == call[c].t
        n == call[c].idx
    IN
    /\ call[c].pc = "begin"
    /\ IF call[c].kind = "resume"
       THEN /\ status' = [status EXCEPT ![t] = "running"]
            /\ resumable' = [resumable EXCEPT ![t] = @ \/ status[t] = "none"]
            /\ call' = [call EXCEPT ![c].pc = "poll"]
            /\ UNCHANGED slice
       ELSE /\ status' = [status EXCEPT ![t] = IF @ = "none" THEN @ ELSE "running"]
            /\ resumable' = [resumable EXCEPT ![t] = @ \/ status[t] # "none"]
            /\ slice' = IF slice[t] = None THEN slice
                        ELSE [slice EXCEPT ![t] = [next |-> 0, fed |-> <<>>, from |-> n]]
            /\ call' = [call EXCEPT ![c] = Idle]
    /\ UNCHANGED <<source, session, waits, user, link, phone, faults>>

(***************************************************************************)
(* The slices of the browser tab.                                          *)
(***************************************************************************)

\* No call of the tab for t is under way: the tab awaits each one.
tabIsIdle(t) == \A c \in Calls : call[c].t # t

\* beginBrowserSessionInBatch.
BeginBrowserUpload(t) ==
    /\ "tab" \in Kinds
    /\ t \in fresh
    /\ up
    /\ fresh' = fresh \ {t}
    /\ status' = [status EXCEPT ![t] = "running"]
    /\ source' = [source EXCEPT ![t] = "browser"]
    /\ slice' = [slice EXCEPT ![t] = [next |-> 0, fed |-> <<>>, from |-> 0]]
    /\ UNCHANGED <<resumable, session, waits, call, batch, local,
                   retries, link, phone, faults>>

\* The digest of the pieces fed so far, in the order they were fed.
digest(fed, v) == IF fed = [i \in 1..Chunks |-> i - 1] THEN v ELSE Misfed

\* SendBrowserChunk takes the next slice into the digest and goes on to send
\* it.
SendBrowserChunk(c, t) ==
    LET fed == Append(slice[t].fed, slice[t].next) IN
    /\ call[c] = Idle
    /\ tabIsIdle(t)
    /\ slice[t] # None
    /\ status[t] = "running"
    /\ slice[t].next >= slice[t].from
    /\ slice' = [slice EXCEPT ![t].fed = fed]
    /\ call' = [call EXCEPT ![c] =
                  [Idle EXCEPT !.pc = ready(slice[t].next), !.t = t, !.kind = "tab",
                               !.idx = slice[t].next, !.sha = digest(fed, local[t])]]
    /\ UNCHANGED <<status, resumable, source, session, waits, user, link, phone,
                   faults>>

\* RehashBrowserChunk: a piece the phone has goes into the digest only.
RehashBrowserChunk(t) ==
    /\ tabIsIdle(t)
    /\ slice[t] # None
    /\ status[t] = "running"
    /\ slice[t].next < slice[t].from
    /\ slice' = [slice EXCEPT ![t].next = @ + 1, ![t].fed = Append(@, slice[t].next)]
    /\ UNCHANGED <<status, resumable, source, session, waits, call, user, link,
                   phone, faults>>

\* AbortBrowserUpload, which the tab calls when a slice could not be read or
\* sent.
AbortBrowserUpload(t) ==
    /\ source[t] = "browser"
    /\ status[t] \in {"running", "error"}
    /\ tabIsIdle(t)
    /\ slice[t] # None \/ resumable[t]
    /\ status' = [status EXCEPT ![t] = IF @ = "running" THEN "cancelled" ELSE @]
    /\ resumable' = [resumable EXCEPT ![t] = FALSE]
    /\ slice' = [slice EXCEPT ![t] = None]
    /\ handleCancel({t})
    /\ UNCHANGED <<source, session, waits, call, user, link, faults>>

(***************************************************************************)
(* Cancelling, sweeping and pruning.                                       *)
(***************************************************************************)

\* The running transfers in T are cancelled: their retry state goes, their
\* waiting calls are told, and so is the phone.
cancel(T) ==
    /\ status' = [t \in Transfers |-> IF t \in T THEN "cancelled" ELSE status[t]]
    /\ resumable' = [t \in Transfers |-> t \notin T /\ resumable[t]]
    /\ session' = session \ T
    /\ slice' = [t \in Transfers |-> IF t \in T THEN None ELSE slice[t]]
    /\ call' = [c \in Calls |->
                  IF \E t \in T : waiter[t] = c
                  THEN Post(call, c, "fail")[c] ELSE call[c]]
    /\ handleCancel(T)
    /\ UNCHANGED <<source, waits, fresh, local, retries, link, faults>>

\* Mutant: a transfer that is over can be cancelled.
CancelAnyTransfer(t) ==
    /\ status[t] # "none"
    /\ cancel({t})
    /\ UNCHANGED batch

\* CancelTransfer.
CancelTransfer(t) ==
    /\ status[t] = "running"
    /\ cancel({t})
    /\ UNCHANGED batch

\* CancelUploadBatch cancels what is running of a drop that is not over.
CancelUploadBatch ==
    /\ batch = "running"
    /\ fresh # {} \/ \E t \in Transfers : status[t] = "running"
    /\ batch' = "cancelled"
    /\ cancel({t \in Transfers : status[t] = "running"})

\* sweepUploadSessions: a retained upload outlives uploadResumeWindow.
SweepSession(t) ==
    /\ t \in session
    /\ session' = session \ {t}
    /\ resumable' = [resumable EXCEPT ![t] = FALSE]
    /\ handleCancel({t})
    /\ UNCHANGED <<status, source, slice, waits, call, user, link, faults>>

\* sweepBrowserUploads: the tab has been silent for browserUploadIdleTimeout.
SweepSlice(t) ==
    /\ slice[t] # None
    /\ tabIsIdle(t)
    /\ slice' = [slice EXCEPT ![t] = None]
    /\ status' = [status EXCEPT ![t] = IF @ = "running" THEN "error" ELSE @]
    /\ resumable' = [resumable EXCEPT ![t] = status[t] # "running" /\ @]
    /\ handleCancel({t})
    /\ UNCHANGED <<source, session, waits, call, user, link, faults>>

\* GetTransfers drops the record of a transfer that is over.
Prune(t) ==
    /\ status[t] \in {"done", "error", "cancelled"}
    /\ status' = [status EXCEPT ![t] = "none"]
    /\ resumable' = [resumable EXCEPT ![t] = FALSE]
    /\ UNCHANGED <<source, session, slice, waits, call, user, link, phone, faults>>

\* The user edits the file on the Mac between two attempts.
Edit(t) ==
    /\ t \in session
    /\ \A c \in Calls : call[c].t # t
    /\ \E v \in Versions : local[t] < v /\ local' = [local EXCEPT ![t] = v]
    /\ UNCHANGED <<records, waits, call, fresh, batch, retries, link,
                   phone, faults>>

(***************************************************************************)
(* Answers of the phone.                                                   *)
(***************************************************************************)

\* An answer is consumed, or comes a second time later on.
consume(m) ==
    \/ /\ toMac' = toMac \ {m}
       /\ UNCHANGED faults
    \/ /\ faults < MaxFaults
       /\ faults' = faults + 1
       /\ UNCHANGED toMac

\* ingestFileAckBody: the waiting call is told and a running record settled.
ingestFileAck(m) ==
    /\ m.type = "ack"
    /\ call' = Post(call, waiter[m.t], IF m.val = 1 THEN "ok" ELSE "fail")
    /\ status' = [status EXCEPT ![m.t] =
                    IF @ # "running" THEN @
                    ELSE IF m.val = 1 THEN "done" ELSE "error"]
    /\ consume(m)
    /\ UNCHANGED <<resumable, source, session, slice, waits, user, up, phone>>

\* ingestFileStatRespBody: nobody but a waiting call takes the answer.
ingestFileStatResp(m) ==
    LET w == statWaiter[m.t] IN
    /\ m.type = "statresp"
    /\ call' = IF w = None \/ call[w].box # None THEN call
               ELSE [call EXCEPT ![w].box = "ok", ![w].idx = m.val]
    /\ consume(m)
    /\ UNCHANGED <<records, waits, user, up, phone>>

\* An answer is lost.
LoseAnswer(m) ==
    /\ faults < MaxFaults
    /\ faults' = faults + 1
    /\ toMac' = toMac \ {m}
    /\ UNCHANGED <<records, waits, call, user, up, phone>>

(***************************************************************************)
(* The phone.                                                              *)
(***************************************************************************)

\* _commitChunk up to the write: a chunk of an older epoch is dropped, any
\* other noted in the ledger.
CommitBegin(t) ==
    LET k == Head(chain[t]) IN
    /\ chain[t] # <<>>
    /\ ~k.busy
    /\ IF k.live
       THEN /\ chain' = [chain EXCEPT ![t][1].busy = TRUE]
            /\ ledger' = [ledger EXCEPT ![t] =
                            (IF @ = None THEN {} ELSE @) \cup {k.idx}]
       ELSE /\ chain' = [chain EXCEPT ![t] = Tail(@)]
            /\ UNCHANGED ledger
    /\ UNCHANGED <<records, waits, call, user, link, stage, settled, file, faults>>

\* The digest of a part file.
staged(s) == IF \E v \in Versions : \A i \in Index : s[i] = v
             THEN s[0] ELSE Bad

\* Mutant: a part without holes passes.
verifySize(part, sha) == \A i \in Index : part[i] # None

\* The part file has the digest its sender computed.
verify(part, sha) == staged(part) = sha

\* The write and what follows it.  The last piece verifies the digest and
\* commits the file; a commit the sender has abandoned meanwhile stays
\* silent, and a part that does not verify is thrown away.
CommitEnd(t) ==
    LET k     == Head(chain[t])
        part  == [stage[t] EXCEPT ![k.idx] = k.ver]
        last  == k.idx = Last
        whole == verify(part, k.sha)
    IN
    /\ chain[t] # <<>>
    /\ k.busy
    /\ chain' = [chain EXCEPT ![t] = Tail(@)]
    /\ IF ~last
       THEN /\ stage' = [stage EXCEPT ![t] = IF k.live THEN part ELSE NoStage]
            /\ ledger' = [ledger EXCEPT ![t] = IF k.live THEN @ ELSE None]
            /\ UNCHANGED <<file, settled, toMac>>
       ELSE /\ stage' = [stage EXCEPT ![t] = NoStage]
            /\ ledger' = [ledger EXCEPT ![t] = None]
            /\ file' = IF whole THEN [file EXCEPT ![t] = part] ELSE file
            /\ settled' = IF whole /\ k.live THEN settled \cup {t} ELSE settled
            /\ toMac' = IF k.live \/ ~whole THEN toMac \cup {Ack(t, whole)} ELSE toMac
    /\ UNCHANGED <<records, waits, call, user, up, faults>>

\* The write fails: the ledger forgets the transfer, the part file stays,
\* and only the last piece is answered.
CommitFails(t) ==
    LET k == Head(chain[t]) IN
    /\ chain[t] # <<>>
    /\ k.busy
    /\ faults < MaxFaults
    /\ faults' = faults + 1
    /\ chain' = [chain EXCEPT ![t] = Tail(@)]
    /\ ledger' = [ledger EXCEPT ![t] = None]
    /\ toMac' = IF k.idx = Last THEN toMac \cup {Ack(t, FALSE)} ELSE toMac
    /\ UNCHANGED <<records, waits, call, user, up, stage, settled, file>>

\* The app on the phone dies and starts again: its part files are all it
\* keeps.
PhoneRestart ==
    /\ faults < MaxFaults
    /\ faults' = faults + 1
    /\ up' = FALSE
    /\ chain' = [t \in Transfers |-> <<>>]
    /\ ledger' = [t \in Transfers |-> None]
    /\ settled' = {}
    /\ UNCHANGED <<records, waits, call, user, toMac, stage, file>>

\* The socket breaks and comes back.
LinkDown ==
    /\ up
    /\ faults < MaxFaults
    /\ faults' = faults + 1
    /\ up' = FALSE
    /\ UNCHANGED <<records, waits, call, user, toMac, phone>>

LinkUp ==
    /\ ~up
    /\ up' = TRUE
    /\ UNCHANGED <<records, waits, call, user, toMac, phone, faults>>

CallStep(c) ==
    \/ Register(c)
    \/ Poll(c)
    \/ registerAckWaiter(c)
    \/ SendChunk(c)
    \/ SendAgain(c)
    \/ SendFails(c)
    \/ WaitOk(c)
    \/ WaitFails(c)
    \/ Unconfirmed(c)
    \/ Complete(c)
    \/ AlreadyThere(c)
    \/ StatEnds(c)
    \/ Restart(c)

PhoneStep ==
    \E t \in Transfers : CommitBegin(t) \/ CommitEnd(t)

Next ==
    \/ \E c \in Calls : CallStep(c)
    \/ \E c \in Calls, t \in Transfers :
         \/ \E k \in Kinds : Dispatch(c, t, k)
         \/ ResumeUpload(c, t)
         \/ ResumeBrowserUpload(c, t)
         \/ SendBrowserChunk(c, t)
    \/ \E t \in Transfers :
         \/ ResumeChanged(t)
         \/ BeginBrowserUpload(t)
         \/ RehashBrowserChunk(t)
         \/ AbortBrowserUpload(t)
         \/ CancelTransfer(t)
         \/ SweepSession(t)
         \/ SweepSlice(t)
         \/ Prune(t)
         \/ Edit(t)
         \/ CommitFails(t)
    \/ CancelUploadBatch
    \/ \E m \in toMac : ingestFileAck(m) \/ ingestFileStatResp(m) \/ LoseAnswer(m)
    \/ PhoneStep
    \/ PhoneRestart
    \/ LinkDown
    \/ LinkUp

Spec == Init /\ [][Next]_vars

\* A goroutine that can go on does, its timers fire, and the phone works off
\* what reaches it.
Fairness ==
    /\ \A c \in Calls : WF_vars(CallStep(c))
    /\ WF_vars(PhoneStep)

FairSpec == Spec /\ Fairness

(***************************************************************************)
(* Properties.                                                             *)
(***************************************************************************)

\* Every variable has its type, and a registered channel belongs to a call for
\* that transfer.
TypeOK ==
    /\ status \in [Transfers -> Status]
    /\ resumable \in [Transfers -> BOOLEAN]
    /\ source \in [Transfers -> {"none", "local", "browser"}]
    /\ session \subseteq Transfers
    /\ \A t \in Transfers : slice[t] # None =>
         slice[t] \in [next : Index, from : Index, fed : Seq(Index)]
    /\ call \in [Calls -> [pc : Pcs, t : Transfers \cup {None},
                           kind : {"none", "block", "pipe", "tab", "resume"},
                           idx : 0..Chunks, sha : Versions \cup {Misfed, None},
                           box : {None, "ok", "fail"}]]
    /\ waiter \in [Transfers -> Calls \cup {None}]
    /\ statWaiter \in [Transfers -> Calls \cup {None}]
    /\ \A t \in Transfers : waiter[t] # None => call[waiter[t]].t = t
    /\ fresh \subseteq Transfers
    /\ batch \in {"running", "cancelled"}
    /\ local \in [Transfers -> Versions]
    /\ up \in BOOLEAN
    /\ toMac \subseteq [type : {"ack", "statresp"}, t : Transfers, val : 0..Chunks]
    /\ \A t \in Transfers : \A n \in 1..Len(chain[t]) :
         chain[t][n] \in [idx : Index, ver : Versions, live : BOOLEAN,
                          sha : Versions \cup {Misfed, None}, busy : BOOLEAN]
    /\ stage \in [Transfers -> [Index -> Versions \cup {None}]]
    /\ ledger \in [Transfers -> (SUBSET Index) \cup {None}]
    /\ settled \subseteq Transfers
    /\ file \in [Transfers -> [Index -> Versions] \cup {None}]
    /\ faults \in 0..MaxFaults
    /\ retries \in 0..MaxRetries

\* A transfer the Mac reports as done is a whole file on the phone: no lost,
\* late or repeated answer, no timeout and no retry makes it claim a delivery
\* that has not happened (ingestFileAckBody, completeUploadSend).
DoneIsDelivered ==
    AckPeer => \A t \in Transfers : status[t] = "done" => file[t] # None

\* A committed file is one version of the local file from end to end, also
\* when it was edited between two attempts and the phone still had pieces of
\* the old one (resumeNativeChunks, "retry can never splice two different
\* files together").
NoSplice ==
    \A t \in Transfers : file[t] # None => staged(file[t]) # Bad

\* A native upload does not run for ever.
UploadSettles ==
    \A t \in Transfers :
        status[t] = "running" /\ source[t] = "local" ~> status[t] # "running"

\* What the user is promised: FileDelivery, with the records as its reports
\* and the committed files as what has arrived.
Delivery == INSTANCE FileDelivery
    WITH report <- status,
         arrived <- [t \in Transfers |-> IF file[t] = None THEN Bad
                                         ELSE staged(file[t])]

\* An upload is a delivery: whole files arrive, only an arrived file is
\* reported done, and a report changes as FileDelivery lets it.
ImplementsDelivery == Delivery!Spec

=============================================================================
