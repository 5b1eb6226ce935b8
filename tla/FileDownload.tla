---------------------------- MODULE FileDownload ----------------------------
(***************************************************************************)
(* Fetching files from the phone: the pull request and its two callers,    *)
(* the handler of an incoming chunk with its incremental digest and its    *)
(* commit, cancelling, and the directory listing of files.go; the pull     *)
(* loop of file_sync.dart.                                                 *)
(*                                                                         *)
(* One action is one critical section of fileMu, one write to disk or one  *)
(* step of the phone.  What the Mac sends is on the phone once it is       *)
(* written, as in FileUpload.  A chunk goes over the socket, whose frames  *)
(* the Mac handles one after the other, or over HTTP: it may be late, come *)
(* twice, get lost, and be handled while another one is.                   *)
(*                                                                         *)
(* A file has Chunks pieces, the last of which carries the digest.  A part *)
(* file is the set of pieces written to it; what was not written below the *)
(* last piece are zeros and counts in its size.  All downloads are asked   *)
(* for the same path, where they meet each other and what was there        *)
(* before; the names a taken path is evaded with are always free.          *)
(***************************************************************************)
EXTENDS Naturals, FiniteSets

CONSTANTS
    Transfers,   \* transfer ids, each drawn for one file of the phone
    Handlers,    \* chunk handlers that may run at the same time
    Chunks,      \* pieces per file
    Dirs,        \* directories of the phone
    None,
    MaxFaults    \* bound: chunks lost, repeated, not read or not written, and
                 \* listings asked for in between

ASSUME DownloadAssumption ==
    /\ Chunks \in Nat \ {0}
    /\ MaxFaults \in Nat
    /\ None \notin Nat \cup Transfers \cup {"nil", "err", "user"}
    /\ None \notin Dirs
    /\ "user" \notin Transfers
    /\ \A S \in SUBSET (0..(Chunks - 1)) : S # None

Index == 0..(Chunks - 1)
Last  == Chunks - 1

VARIABLES
    status,    \* status[t] of the record, "none" without one
    handle,    \* tr.file: the part file is open
    fed,       \* tr.dlFed: pieces the incremental digest has seen
    dirty,     \* tr.dlDirty: the digest does not describe the part file
    away,      \* tr.tmpPath is no longer the path asked for
    part,      \* the part file: the pieces written, or None
    holder,    \* whose non-empty file is at the path: None, "user" or t
    target,    \* the pieces in it, if it is that of a download
    aside,     \* aside[t]: files of t committed under another name
    call,      \* call[t]: "none", "wait", "nil" or "err", the exact-path call
    box,       \* its channel: None, "nil" or "err"
    handler,   \* handler[h]: the chunk it works on
    fresh,     \* ids not yet drawn
    toMac,     \* chunks under way
    pull,      \* the pulls under way, one in the queue is merely slow
    next,      \* next[t]: the piece the pull reads next
    aborted,   \* _cancelledPulls
    there,     \* there[t]: the phone has the file
    list,      \* the listing call: [pc, dir, req, box]
    answers,   \* listings under way: [req, dir]
    shown,     \* lastList: the directory it shows, None before the first
    cut,       \* history: downloads cancelled or timed out
    faults

record == <<status, handle, fed, dirty, away>>
place  == <<holder, target, aside>>
disk   == <<part, place>>
waits  == <<call, box>>
phone  == <<pull, next, aborted, there>>
lists  == <<list, answers, shown>>
vars   == <<record, disk, waits, handler, fresh, toMac, phone, lists, faults, cut>>

Idle    == [pc |-> "idle", t |-> None, idx |-> 0, fh |-> FALSE]
Listing == [pc |-> "idle", dir |-> None, req |-> 0, box |-> None]
Piece(t, i) == [t |-> t, idx |-> i]

Init ==
    /\ status = [t \in Transfers |-> "none"]
    /\ handle = [t \in Transfers |-> FALSE]
    /\ fed = [t \in Transfers |-> 0]
    /\ dirty = [t \in Transfers |-> FALSE]
    /\ away = [t \in Transfers |-> FALSE]
    /\ part = [t \in Transfers |-> None]
    /\ holder \in {None, "user"}
    /\ target = {}
    /\ aside = [t \in Transfers |-> {}]
    /\ call = [t \in Transfers |-> "none"]
    /\ box = [t \in Transfers |-> None]
    /\ handler = [h \in Handlers |-> Idle]
    /\ fresh = Transfers
    /\ toMac = {}
    /\ pull = {}
    /\ next = [t \in Transfers |-> 0]
    /\ aborted = {}
    /\ there = [t \in Transfers |-> TRUE]
    /\ list = Listing
    /\ answers = {}
    /\ shown = None
    /\ faults = 0
    /\ cut = {}

fault == faults < MaxFaults /\ faults' = faults + 1

\* A non-blocking send of v into the channel of the call that waits for t.
tell(t, v) ==
    box' = [box EXCEPT ![t] = IF call[t] = "wait" /\ @ = None THEN v ELSE @]

\* tr.file is closed: whoever still holds it can write no more.
closeFile(t) ==
    [h \in Handlers |-> IF handler[h].t = t THEN [handler[h] EXCEPT !.fh = FALSE]
                        ELSE handler[h]]

\* failTransfer, whatever the status was.
failTransfer(t) ==
    /\ status' = [status EXCEPT ![t] = IF @ = "none" THEN @ ELSE "error"]
    /\ handle' = [handle EXCEPT ![t] = FALSE]
    /\ part' = [part EXCEPT ![t] = None]
    /\ tell(t, "err")

(***************************************************************************)
(* The requests of the Mac.                                                *)
(***************************************************************************)

\* RequestPhoneFile, or DownloadFileToExactPath with its channel, reaches
\* the phone.
RequestPhoneFile(t, exact) ==
    /\ t \in fresh
    /\ fresh' = fresh \ {t}
    /\ status' = [status EXCEPT ![t] = "running"]
    /\ call' = [call EXCEPT ![t] = IF exact THEN "wait" ELSE "none"]
    /\ pull' = pull \cup {t}
    /\ UNCHANGED <<handle, fed, dirty, away, disk, box, handler, toMac, next,
                   aborted, there, lists, faults, cut>>

\* The request cannot be sent: the record fails and the call returns.
RequestFails(t, exact) ==
    /\ t \in fresh
    /\ fault
    /\ fresh' = fresh \ {t}
    /\ status' = [status EXCEPT ![t] = "error"]
    /\ call' = [call EXCEPT ![t] = IF exact THEN "err" ELSE "none"]
    /\ UNCHANGED <<handle, fed, dirty, away, disk, box, handler, toMac, phone,
                   lists, cut>>

\* The call of DownloadFileToExactPath gets its answer.
CallReturns(t) ==
    /\ call[t] = "wait"
    /\ box[t] # None
    /\ call' = [call EXCEPT ![t] = box[t]]
    /\ UNCHANGED <<record, disk, box, handler, fresh, toMac, phone, lists, faults,
                   cut>>

\* Five minutes pass.
CallTimesOut(t) ==
    /\ call[t] = "wait"
    /\ call' = [call EXCEPT ![t] = "err"]
    /\ failTransfer(t)
    /\ handler' = closeFile(t)
    /\ cut' = cut \cup {t}
    /\ UNCHANGED <<fed, dirty, away, place, fresh, toMac, phone, lists, faults>>

\* Mutant: the part file stays open.
CancelUnclosed(t) ==
    /\ status[t] = "running"
    /\ cut' = cut \cup {t}
    /\ status' = [status EXCEPT ![t] = "cancelled"]
    /\ part' = [part EXCEPT ![t] = None]
    /\ tell(t, "err")
    /\ aborted' = aborted \cup {t}
    /\ UNCHANGED <<handle, handler, fed, dirty, away, place, call, fresh, toMac, pull,
                   next, there, lists, faults>>

\* CancelTransfer, which also stops the pull on the phone.
CancelTransfer(t) ==
    /\ status[t] = "running"
    /\ cut' = cut \cup {t}
    /\ status' = [status EXCEPT ![t] = "cancelled"]
    /\ handle' = [handle EXCEPT ![t] = FALSE]
    /\ handler' = closeFile(t)
    /\ part' = [part EXCEPT ![t] = None]
    /\ tell(t, "err")
    /\ aborted' = aborted \cup {t}
    /\ UNCHANGED <<fed, dirty, away, place, call, fresh, toMac, pull, next, there,
                   lists, faults>>

\* GetTransfers drops the record of a download that is over for five
\* seconds, and does not close its part file; a handler takes less.
Prune(t) ==
    /\ status[t] \in {"done", "error", "cancelled"}
    /\ \A h \in Handlers : handler[h].t # t
    /\ status' = [status EXCEPT ![t] = "none"]
    /\ fed' = [fed EXCEPT ![t] = 0]
    /\ dirty' = [dirty EXCEPT ![t] = FALSE]
    /\ part' = [part EXCEPT ![t] = None]
    /\ UNCHANGED <<handle, away, place, waits, handler, fresh, toMac, phone, lists,
                   faults, cut>>

(***************************************************************************)
(* ingestFileChunkBody.                                                    *)
(***************************************************************************)

\* A chunk arrives.  Without a record one is made, whose file goes to the
\* staging folder; a download that failed or was cancelled takes no more
\* chunks.  A copy may come later.
TakeChunk(h, m) ==
    /\ handler[h] = Idle
    /\ \/ toMac' = toMac \ {m} /\ UNCHANGED faults
       \/ fault /\ UNCHANGED toMac
    /\ status' = [status EXCEPT ![m.t] = IF @ = "none" THEN "running" ELSE @]
    /\ away' = [away EXCEPT ![m.t] = @ \/ status[m.t] = "none"]
    /\ handler' = IF status[m.t] \in {"cancelled", "error"} THEN handler
                  ELSE [handler EXCEPT ![h] =
                          [pc |-> "open", t |-> m.t, idx |-> m.idx, fh |-> FALSE]]
    /\ UNCHANGED <<handle, fed, dirty, disk, waits, fresh, phone, lists, cut>>

\* The part file is opened unless it is open, and the piece goes into the
\* digest when it is the next one; any other makes the digest useless.
OpenPart(h) ==
    LET t == handler[h].t
        i == handler[h].idx
    IN
    /\ handler[h].pc = "open"
    /\ handle' = [handle EXCEPT ![t] = TRUE]
    /\ part' = [part EXCEPT ![t] = IF @ = None THEN {} ELSE @]
    /\ dirty' = [dirty EXCEPT ![t] = @ \/ i # fed[t]]
    /\ fed' = [fed EXCEPT ![t] = IF ~dirty[t] /\ i = @ THEN @ + 1 ELSE @]
    /\ handler' = [handler EXCEPT ![h].pc = "write", ![h].fh = TRUE]
    /\ UNCHANGED <<status, away, place, waits, fresh, toMac, phone, lists, faults,
                   cut>>

\* The piece is written.
WriteChunk(h) ==
    LET t == handler[h].t IN
    /\ handler[h].pc = "write"
    /\ handler[h].fh
    /\ part' = [part EXCEPT ![t] = (IF @ = None THEN {} ELSE @) \cup {handler[h].idx}]
    /\ handler' = [handler EXCEPT ![h].pc = "finish"]
    /\ UNCHANGED <<record, place, waits, fresh, toMac, phone, lists, faults, cut>>

\* The disk is full, or the file was closed in between.
WriteFails(h) ==
    LET t == handler[h].t IN
    /\ handler[h].pc \in {"open", "write"}
    /\ IF handler[h].pc = "write" /\ ~handler[h].fh THEN UNCHANGED faults ELSE fault
    /\ failTransfer(t)
    /\ handler' = [closeFile(t) EXCEPT ![h] = Idle]
    /\ UNCHANGED <<fed, dirty, away, place, call, fresh, toMac, phone, lists, cut>>

\* Any piece but the last leaves the download running.
Finish(h) ==
    /\ handler[h].pc = "finish"
    /\ handler[h].idx # Last
    /\ status' = [status EXCEPT ![handler[h].t] = "running"]
    /\ handler' = [handler EXCEPT ![h] = Idle]
    /\ UNCHANGED <<handle, fed, dirty, away, disk, waits, fresh, toMac, phone,
                   lists, faults, cut>>

\* Mutant: the waiting call is told that all went well.
settleTellsNil(h, ok) ==
    LET t == handler[h].t IN
    /\ status' = [status EXCEPT ![t] = IF ok THEN "done" ELSE "error"]
    /\ handle' = [handle EXCEPT ![t] = FALSE]
    /\ handler' = [closeFile(t) EXCEPT ![h] = Idle]
    /\ tell(t, "nil")
    /\ UNCHANGED <<fed, dirty, call, fresh, toMac, phone, lists, cut>>

\* The last piece ends the download: the outcome is ok or not, the handle is
\* closed, and the waiting call told.
settle(h, ok) ==
    LET t == handler[h].t IN
    /\ status' = [status EXCEPT ![t] = IF ok THEN "done" ELSE "error"]
    /\ handle' = [handle EXCEPT ![t] = FALSE]
    /\ handler' = [closeFile(t) EXCEPT ![h] = Idle]
    /\ tell(t, IF ok THEN "nil" ELSE "err")
    /\ UNCHANGED <<fed, dirty, call, fresh, toMac, phone, lists, cut>>

\* The part file is renamed to the path asked for, unless a file that is not
\* empty is there: then the name gets the id as a suffix, for good.
promote(t) ==
    /\ part' = [part EXCEPT ![t] = None]
    /\ IF away[t] \/ holder # None
       THEN /\ away' = [away EXCEPT ![t] = TRUE]
            /\ aside' = [aside EXCEPT ![t] = @ \cup {part[t]}]
            /\ UNCHANGED <<holder, target>>
       ELSE /\ holder' = t
            /\ target' = part[t]
            /\ UNCHANGED <<away, aside>>

\* The download ends well, or its part file stays where it is.
conclude(h, ok) ==
    /\ settle(h, ok)
    /\ IF ok THEN promote(handler[h].t) ELSE UNCHANGED <<away, disk>>

\* The part file has the size the phone announced and can be renamed.
promotable(t) == part[t] # None /\ Last \in part[t]

\* Mutant: the incremental digest is trusted with gaps.
CommitDirty(h) ==
    LET t == handler[h].t IN
    /\ handler[h].pc = "finish"
    /\ handler[h].idx = Last
    /\ conclude(h, promotable(t))
    /\ UNCHANGED faults

\* The digest has seen every piece in order: it is compared instead of the
\* bytes in the part file.
Commit(h) ==
    LET t == handler[h].t IN
    /\ handler[h].pc = "finish"
    /\ handler[h].idx = Last
    /\ ~dirty[t]
    /\ conclude(h, fed[t] = Chunks /\ promotable(t))
    /\ UNCHANGED faults

\* Otherwise the part file is read again, without the lock.
VerifyPart(h) ==
    LET t == handler[h].t IN
    /\ handler[h].pc = "finish"
    /\ handler[h].idx = Last
    /\ dirty[t]
    /\ handler' = [handler EXCEPT ![h].pc = IF part[t] = Index THEN "good" ELSE "bad"]
    /\ UNCHANGED <<record, disk, waits, fresh, toMac, phone, lists, faults, cut>>

\* And the download ends with the lock taken once more.
CommitVerified(h) ==
    /\ handler[h].pc \in {"good", "bad"}
    /\ conclude(h, handler[h].pc = "good" /\ promotable(handler[h].t))
    /\ UNCHANGED faults

\* The rename fails.  If the name was changed for it, the record has the new
\* name, and the part file under the old one is forgotten.
RenameFails(h) ==
    LET t == handler[h].t IN
    /\ \/ handler[h].pc = "finish" /\ handler[h].idx = Last /\ ~dirty[t]
       \/ handler[h].pc = "good"
    /\ fault
    /\ settle(h, FALSE)
    /\ \E taken \in BOOLEAN :
         /\ ~away[t] => taken = (holder # None)
         /\ away' = [away EXCEPT ![t] = @ \/ taken]
         /\ part' = [part EXCEPT ![t] = IF taken THEN None ELSE @]
    /\ UNCHANGED place

\* A chunk is lost.
LoseChunk(m) ==
    /\ fault
    /\ toMac' = toMac \ {m}
    /\ UNCHANGED <<record, disk, waits, handler, fresh, phone, lists, cut>>

(***************************************************************************)
(* The phone.                                                              *)
(***************************************************************************)

\* _runPull's end.
endPull(t) ==
    /\ aborted' = aborted \ {t}
    /\ next' = [next EXCEPT ![t] = 0]
    /\ pull' = pull \ {t}

\* _handlePull sends the next piece.
SendPiece(t) ==
    /\ t \in pull
    /\ t \notin aborted
    /\ there[t]
    /\ toMac' = toMac \cup {Piece(t, next[t])}
    /\ IF next[t] = Last THEN endPull(t)
       ELSE /\ next' = [next EXCEPT ![t] = @ + 1]
            /\ UNCHANGED <<pull, aborted>>
    /\ UNCHANGED <<record, disk, waits, handler, fresh, there, lists, faults, cut>>

\* It stops when it was cancelled or cannot read the file, and says nothing.
StopPull(t) ==
    /\ t \in pull
    /\ t \in aborted \/ ~there[t]
    /\ endPull(t)
    /\ UNCHANGED <<record, disk, waits, handler, fresh, toMac, there, lists, faults,
                   cut>>

\* DeletePhone or RenamePhone: the file is no longer there.
DeletePhone(t) ==
    /\ there[t]
    /\ fault
    /\ there' = [there EXCEPT ![t] = FALSE]
    /\ UNCHANGED <<record, disk, waits, handler, fresh, toMac, pull, next, aborted,
                   lists, cut>>

(***************************************************************************)
(* The listing.                                                            *)
(***************************************************************************)

\* ListPhoneFiles asks for a directory under a new request id.
ListPhoneFiles(d) ==
    /\ list.pc = "idle"
    /\ list.req < 2
    /\ fault
    /\ list' = [pc |-> "wait", dir |-> d, req |-> list.req + 1, box |-> None]
    /\ answers' = answers \cup {[req |-> list.req + 1, dir |-> d]}
    /\ UNCHANGED <<record, disk, waits, handler, fresh, toMac, phone, shown, cut>>

\* ingestFileListRespBody: the call that asked gets the listing; without one
\* it is stored.
ListResp(m) ==
    /\ answers' = answers \ {m}
    /\ IF list.pc = "wait" /\ list.req = m.req
       THEN /\ list' = [list EXCEPT !.box = IF @ = None THEN m.dir ELSE @]
            /\ UNCHANGED shown
       ELSE /\ shown' = m.dir
            /\ UNCHANGED list
    /\ UNCHANGED <<record, disk, waits, handler, fresh, toMac, phone, faults, cut>>

\* The call takes its listing, or gives up after eight seconds.
ListReturns ==
    /\ list.pc = "wait"
    /\ \/ list.box # None /\ shown' = list.box
       \/ list.box = None /\ UNCHANGED shown
    /\ list' = [Listing EXCEPT !.req = list.req]
    /\ UNCHANGED <<record, disk, waits, handler, fresh, toMac, phone, answers, faults,
                   cut>>

HandlerStep(h) ==
    \/ OpenPart(h)
    \/ WriteChunk(h)
    \/ WriteFails(h)
    \/ Finish(h)
    \/ Commit(h)
    \/ VerifyPart(h)
    \/ CommitVerified(h)
    \/ RenameFails(h)

Next ==
    \/ \E t \in Transfers :
         \/ \E exact \in BOOLEAN : RequestPhoneFile(t, exact) \/ RequestFails(t, exact)
         \/ CallReturns(t)
         \/ CallTimesOut(t)
         \/ CancelTransfer(t)
         \/ Prune(t)
         \/ SendPiece(t)
         \/ StopPull(t)
         \/ DeletePhone(t)
    \/ \E h \in Handlers : HandlerStep(h) \/ \E m \in toMac : TakeChunk(h, m)
    \/ \E m \in toMac : LoseChunk(m)
    \/ \E d \in Dirs : ListPhoneFiles(d)
    \/ \E m \in answers : ListResp(m)
    \/ ListReturns

Spec == Init /\ [][Next]_vars

(***************************************************************************)
(* Properties.                                                             *)
(***************************************************************************)

\* Every variable has its type, and only an open part file is written to.
TypeOK ==
    /\ status \in [Transfers -> {"none", "running", "done", "error", "cancelled"}]
    /\ handle \in [Transfers -> BOOLEAN]
    /\ fed \in [Transfers -> 0..Chunks]
    /\ dirty \in [Transfers -> BOOLEAN]
    /\ away \in [Transfers -> BOOLEAN]
    /\ part \in [Transfers -> (SUBSET Index) \cup {None}]
    /\ holder \in Transfers \cup {None, "user"}
    /\ target \in SUBSET Index
    /\ aside \in [Transfers -> SUBSET SUBSET Index]
    /\ call \in [Transfers -> {"none", "wait", "nil", "err"}]
    /\ box \in [Transfers -> {None, "nil", "err"}]
    /\ handler \in [Handlers -> [pc : {"idle", "open", "write", "finish", "good", "bad"},
                                 t : Transfers \cup {None}, idx : Index, fh : BOOLEAN]]
    /\ \A h \in Handlers : handler[h].fh => handle[handler[h].t]
    /\ fresh \subseteq Transfers
    /\ toMac \subseteq [t : Transfers, idx : Index]
    /\ pull \subseteq Transfers
    /\ next \in [Transfers -> Index]
    /\ aborted \subseteq Transfers
    /\ there \in [Transfers -> BOOLEAN]
    /\ list \in [pc : {"idle", "wait"}, dir : Dirs \cup {None}, req : 0..2,
                 box : Dirs \cup {None}]
    /\ answers \subseteq [req : 1..2, dir : Dirs]
    /\ shown \in Dirs \cup {None}
    /\ faults \in 0..MaxFaults
    /\ cut \subseteq Transfers

\* A committed download has every piece of the file, whatever was lost, came
\* twice or in another order (ingestFileChunkBody), if it was not cut short:
\* as long as chunks are handled one by one and the part file stays, the
\* digest that stands in for its bytes is right about them.
WholeUnlessCut ==
    \A t \in Transfers \ cut : /\ holder = t => target = Index
                               /\ aside[t] \subseteq {Index}

\* DownloadFileToExactPath returns without an error only when the file of that
\* very download stands at the path Finder asked for, or beside it because
\* another file has the path (ingestFileChunkBody changes the name and still
\* answers nil); no download committed later takes it away.
NilMeansFile ==
    \A t \in Transfers : call[t] = "nil" =>
        holder = t \/ (holder # None /\ aside[t] # {})

\* A part file is open only for a download that runs or on which a handler
\* works: cancel, failure, timeout and commit in any order leave none open,
\* and GetTransfers, which drops records without closing their part file,
\* forgets no open one.
OpenIsRunning ==
    \A t \in Transfers : handle[t] =>
        status[t] = "running" \/ \E h \in Handlers : handler[h].t = t

=============================================================================
