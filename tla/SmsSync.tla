------------------------------ MODULE SmsSync ------------------------------
(***************************************************************************)
(* How the Mac mirrors one SMS conversation of the phone: the request      *)
(* calls of apps/mac/backend/messages.go with their waiters and            *)
(* generations, the two caches they fill (the transcript and the row of    *)
(* the conversation in the thread list), the encrypted database behind     *)
(* the caches, and the pushes, change notices and disconnects that happen  *)
(* in between.                                                             *)
(*                                                                         *)
(* One action is one critical section of messagesMu, one database          *)
(* transaction or one step of the phone.  Messages in flight are           *)
(* unordered, may be lost and may be delivered again: the phone falls      *)
(* back from the socket to HTTP and retries host after host.               *)
(*                                                                         *)
(* An SMS is its number in the order of arrival.  The phone's provider     *)
(* gives it one row id, a push carries another one made from the clock;    *)
(* rows are numbered so that they sort as their dates do.  Bodies,         *)
(* addresses and contact names are left out.                               *)
(***************************************************************************)
EXTENDS Naturals, FiniteSets, Sequences

CONSTANTS
    Calls,      \* calls of the front end that may be under way together
    Kinds,      \* what they may be: "threads" and "messages" list, "send",
                \* "read" marks the conversation read, "forget" the phone
    HasDB,      \* whether the cache database could be opened
    Faults,     \* what may go wrong on the link: "retry", the phone sends a
                \* message again; "loss", one gets lost; "break", a socket
                \* ends or is replaced
    None,       \* "no row", "no result"
    Limit,      \* rows per page
    DedupCap,   \* capacity of the set of pushes seen
    MaxSms,     \* bound: SMS that ever exist
    MaxGen,     \* bound: how often the caches are invalidated
    MaxOwed,    \* bound: ended sockets not yet reported
    MaxUnread   \* bound: unread count of a thread row

ASSUME ConstantsAssumption ==
    /\ Kinds \subseteq {"threads", "messages", "send", "read", "forget"}
    /\ HasDB \in BOOLEAN
    /\ Faults \subseteq {"retry", "loss", "break"}
    /\ Limit \in Nat \ {0}
    /\ DedupCap \in Nat \ {0}
    /\ MaxSms \in Nat \ {0}
    /\ MaxGen \in Nat
    /\ MaxOwed \in Nat \ {0}
    /\ MaxUnread \in Nat
    /\ None \notin Nat \cup Calls
    /\ None \notin [ok : BOOLEAN, page : SUBSET (1..MaxSms)]

Sms  == 1..MaxSms
Rows == 1..(2 * MaxSms)

\* The row a push of SMS s makes, and the provider's own row of s.
Pushed(s) == 2 * s - 1
Stored(s) == 2 * s

VARIABLES
    store,     \* the SMS in the phone's provider
    unread,    \* those of them the phone has not marked read
    sent,      \* the SMS the phone sent rather than received
    minted,    \* how many SMS there ever were
    dirty,     \* the ContentObserver owes a change notice
    net,       \* messages under way from the phone to the Mac
    stale,     \* a change notice was lost and no reconnect has made up for it
    ws,        \* a socket is registered
    fresh,     \* OnWSConnect has registered a socket and not yet invalidated
    owed,      \* ended sockets that have yet to fail the pending calls
    gen,       \* smsGen
    map,       \* messagesCache: "nil", or the conversation "absent", "present"
    rows,      \* rows[r]: how often row r is in the cached transcript
    brought,   \* those of its rows the database or a send put there, and no
               \* page of the phone has replaced since (history)
    row,       \* unread count of the conversation in threadsCache, or None
    seen,      \* smsPushDedup, oldest first
    dbRows,    \* transcript rows in the database
    dbRow,     \* unread count of the thread row in the database, or None
    fg,        \* where ForgetLastDevice stands; "done" until the next socket
    saves,     \* goroutines that are about to write the database
    call       \* call[k]: where call k stands

phone == <<store, unread, sent, minted, dirty>>
link  == <<ws, fresh, owed, fg>>
cache == <<gen, map, rows, brought, row>>
db    == <<dbRows, dbRow>>
vars  == <<phone, net, stale, link, cache, seen, db, saves, call>>

Empty == [r \in Rows |-> 0]

IdleCall == [pc |-> "idle", kind |-> "none", cursor |-> 0, gen |-> 0,
             waiter |-> FALSE, ch |-> None, asked |-> FALSE]

\* What a call receives on its channel: an error, or an answer and the SMS
\* it names.
Error == [ok |-> FALSE, page |-> {}]

\* A message from the phone.
Message(type, req, ok, page, count) ==
    [type |-> type, req |-> req, ok |-> ok, page |-> page, count |-> count]

Changed == Message("changed", None, TRUE, {}, None)

\* The n newest of a set of rows or of SMS.
Newest(S, n) == {x \in S : Cardinality({y \in S : y > x}) < n}

\* A page older than the cursor; cursor 0 asks for the first one.
Before(S, cursor) == {r \in S : cursor = 0 \/ r < cursor}

(***************************************************************************)
(* The phone.                                                              *)
(***************************************************************************)

\* An SMS arrives.  The receiver pushes it, if its event sink is there and
\* the sender's thread resolves; the observer notices the new row.
Arrive(pushed) ==
    /\ minted < MaxSms
    /\ minted' = minted + 1
    /\ store' = store \cup {minted'}
    /\ unread' = unread \cup {minted'}
    /\ dirty' = TRUE
    /\ net' = IF pushed
              THEN net \cup {Message("push", None, TRUE, {minted'}, None)}
              ELSE net
    /\ UNCHANGED <<sent, stale, link, cache, seen, db, saves, call>>

\* The user deletes an SMS on the phone.
PhoneDelete(s) ==
    /\ s \in store
    /\ store' = store \ {s}
    /\ unread' = unread \ {s}
    /\ dirty' = TRUE
    /\ UNCHANGED <<sent, minted, net, stale, link, cache, seen, db, saves,
                   call>>

\* The observer sends its notice; edits of a burst share one.
Observe ==
    /\ dirty
    /\ dirty' = FALSE
    /\ net' = net \cup {Changed}
    /\ UNCHANGED <<store, unread, sent, minted, stale, link, cache, seen, db,
                   saves, call>>

\* Call k without its request: over altogether when it no longer waits.
Unasked(k) == IF call[k].pc = "idle" THEN IdleCall
              ELSE [call[k] EXCEPT !.asked = FALSE]

\* The phone's reply to call k leaves; the request is used up.
Reply(k, ok, page, count) ==
    /\ net' = net \cup {Message(call[k].kind, k, ok, page, count)}
    /\ call' = [call EXCEPT ![k] = Unasked(k)]

\* The phone answers call k from its provider, as it is at this moment.
AnswerThreads(k) ==
    /\ call[k].asked /\ call[k].kind = "threads"
    /\ Reply(k, TRUE, {}, IF store = {} THEN None ELSE Cardinality(unread))
    /\ UNCHANGED <<phone, stale, link, cache, seen, db, saves>>

AnswerMessages(k) ==
    /\ call[k].asked /\ call[k].kind = "messages"
    /\ Reply(k, TRUE,
             Newest({s \in store : call[k].cursor = 0
                                     \/ Stored(s) < call[k].cursor}, Limit),
             None)
    /\ UNCHANGED <<phone, stale, link, cache, seen, db, saves>>

\* The radio takes the SMS; the reply names the newest sent row the provider
\* shows by then: the new one, an earlier one, or none.
AnswerSend(k, page) ==
    /\ call[k].asked /\ call[k].kind = "send"
    /\ minted < MaxSms
    /\ minted' = minted + 1
    /\ store' = store \cup {minted'}
    /\ sent' = sent \cup {minted'}
    /\ dirty' = TRUE
    /\ page \in {{}, {minted'}} \cup {{s} : s \in store \cap sent}
    /\ Reply(k, TRUE, page, None)
    /\ UNCHANGED <<unread, stale, link, cache, seen, db, saves>>

\* The provider lets only the default SMS application mark rows read.
AnswerRead(k, permitted) ==
    /\ call[k].asked /\ call[k].kind = "read"
    /\ unread' = IF permitted THEN {} ELSE unread
    /\ dirty' = (dirty \/ (permitted /\ unread # {}))
    /\ Reply(k, TRUE, {}, None)
    /\ UNCHANGED <<store, sent, minted, stale, link, cache, seen, db, saves>>

\* A permission was revoked, or the query failed.
AnswerError(k) ==
    /\ call[k].asked
    /\ Reply(k, FALSE, {}, None)
    /\ UNCHANGED <<phone, stale, link, cache, seen, db, saves>>

\* A message to or from the phone is lost with the connection it was on.
Lose(m) ==
    /\ "loss" \in Faults
    /\ m \in net
    /\ net' = net \ {m}
    /\ stale' = (stale \/ m = Changed)
    /\ UNCHANGED <<phone, link, cache, seen, db, saves, call>>

LoseRequest(k) ==
    /\ "loss" \in Faults
    /\ call[k].asked
    /\ call' = [call EXCEPT ![k] = Unasked(k)]
    /\ UNCHANGED <<phone, net, stale, link, cache, seen, db, saves>>

(***************************************************************************)
(* The Mac: what ingestMessagesBody does with each type of message.        *)
(***************************************************************************)

\* A message is handled, and gone unless the phone sends it again.
Received(m, again) ==
    /\ m \in net
    /\ again => "retry" \in Faults
    /\ net' = IF again THEN net ELSE net \ {m}

\* The result goes into the call's channel if it is empty.
Answered(k, res) == IF call[k].ch = None
                    THEN [call[k] EXCEPT !.ch = res]
                    ELSE call[k]

\* A call still waits for this answer, and the caches have not been
\* invalidated since it asked.
Wanted(m) == call[m.req].waiter /\ m.ok
Current(m) == call[m.req].gen = gen

\* What a goroutine is about to write: transcript rows, then the thread row,
\* which it may first read from the cache.
Save(written, count, reread) ==
    [rows |-> written, count |-> count, reread |-> reread]

\* A goroutine is started, if there is a database.
Spawn(save) == saves' = IF HasDB THEN saves \cup {save} ELSE saves

ThreadsResp(m, again) ==
    /\ m.type = "threads"
    /\ Received(m, again)
    /\ row' = IF Wanted(m) /\ Current(m)
              THEN IF call[m.req].cursor = 0 \/ row = None
                   THEN m.count ELSE row
              ELSE row
    /\ IF Wanted(m) /\ row' # None THEN Spawn(Save({}, row', FALSE))
                                   ELSE saves' = saves
    /\ call' = IF call[m.req].waiter /\ (m.ok => Current(m))
               THEN [call EXCEPT ![m.req] =
                       Answered(m.req, [ok |-> m.ok, page |-> {}])]
               ELSE call
    /\ UNCHANGED <<phone, stale, link, gen, map, rows, brought, seen, db>>

\* Mutant: a page is appended to what is there.
mergeAppends(page) ==
    [r \in Rows |-> IF r \in page THEN rows[r] + 1 ELSE rows[r]]

\* mergeSMSMessages: rows already there are kept once.
mergeSMSMessages(page) ==
    [r \in Rows |-> IF rows[r] = 0 /\ r \in page THEN 1 ELSE rows[r]]

\* Mutant: an answer is used whatever has happened since the call asked.
MessagesRespAnyGen(m, again) ==
    LET page == {Stored(s) : s \in m.page} IN
    /\ m.type = "messages"
    /\ Received(m, again)
    /\ IF Wanted(m)
       THEN /\ map' = "present"
            /\ rows' = IF call[m.req].cursor = 0
                       THEN [r \in Rows |-> IF r \in page THEN 1 ELSE 0]
                       ELSE mergeSMSMessages(page)
            /\ brought' = IF call[m.req].cursor = 0 THEN {} ELSE brought
            /\ IF page # {} THEN Spawn(Save(page, None, FALSE))
                            ELSE saves' = saves
       ELSE UNCHANGED <<map, rows, brought, saves>>
    /\ call' = IF call[m.req].waiter
               THEN [call EXCEPT ![m.req] =
                       Answered(m.req, [ok |-> m.ok, page |-> {}])]
               ELSE call
    /\ UNCHANGED <<phone, stale, link, gen, row, seen, db>>

\* The first page replaces the transcript, a later one is merged into it.
MessagesResp(m, again) ==
    LET page == {Stored(s) : s \in m.page} IN
    /\ m.type = "messages"
    /\ Received(m, again)
    /\ IF Wanted(m) /\ Current(m)
       THEN /\ map' = "present"
            /\ rows' = IF call[m.req].cursor = 0
                       THEN [r \in Rows |-> IF r \in page THEN 1 ELSE 0]
                       ELSE mergeSMSMessages(page)
            /\ brought' = IF call[m.req].cursor = 0 THEN {} ELSE brought
            /\ IF page # {} THEN Spawn(Save(page, None, FALSE))
                            ELSE saves' = saves
       ELSE UNCHANGED <<map, rows, brought, saves>>
    /\ call' = IF call[m.req].waiter /\ (m.ok => Current(m))
               THEN [call EXCEPT ![m.req] =
                       Answered(m.req, [ok |-> m.ok, page |-> {}])]
               ELSE call
    /\ UNCHANGED <<phone, stale, link, gen, row, seen, db>>

\* The answer to a send or to a mark-as-read only wakes its call.
SendResp(m, again) ==
    /\ m.type \in {"send", "read"}
    /\ Received(m, again)
    /\ call' = IF call[m.req].waiter
               THEN [call EXCEPT ![m.req] =
                       Answered(m.req, [ok |-> m.ok, page |-> m.page])]
               ELSE call
    /\ UNCHANGED <<phone, stale, link, cache, seen, db, saves>>

\* Mutant: the push is applied without being recorded.
MarkForgets(s) == seen

\* DedupCache.Mark on a key that is not there: the oldest key makes room.
Mark(s) == LET all == Append(seen, s)
           IN  IF Len(all) > DedupCap THEN Tail(all) ELSE all

Known(s) == \E i \in 1..Len(seen) : seen[i] = s

\* A push is applied once: to the transcript if it is loaded, and to the
\* thread row, which is made if it is missing.
PushApply(s) ==
    /\ seen' = Mark(s)
    /\ rows' = IF map = "present" /\ rows[Pushed(s)] = 0
               THEN [rows EXCEPT ![Pushed(s)] = 1] ELSE rows
    /\ row' = IF row = None THEN 1 ELSE row + 1
    /\ row' <= MaxUnread
    /\ Spawn(Save({Pushed(s)}, row', FALSE))

Push(m, again) ==
    /\ m.type = "push"
    /\ Received(m, again)
    /\ \E s \in m.page : IF Known(s) THEN UNCHANGED <<seen, rows, row, saves>>
                                     ELSE PushApply(s)
    /\ UNCHANGED <<phone, stale, link, gen, map, brought, db, call>>

\* The caches are dropped and answers under way are outdated.
InvalidateCaches ==
    /\ gen < MaxGen
    /\ gen' = gen + 1
    /\ map' = "nil"
    /\ rows' = Empty
    /\ brought' = {}
    /\ row' = None

SMSChanged(again) ==
    /\ Received(Changed, again)
    /\ InvalidateCaches
    /\ UNCHANGED <<phone, stale, link, seen, db, saves, call>>

(***************************************************************************)
(* The Mac: the calls of the front end.                                    *)
(***************************************************************************)

\* A list call that finds its cache empty takes the database's rows.
LoadAllThreads ==
    /\ row = None
    /\ dbRow # None
    /\ row' = dbRow
    /\ UNCHANGED <<phone, net, stale, link, gen, map, rows, brought, seen, db,
                   saves, call>>

LoadMessagesForThread ==
    /\ rows = Empty
    /\ dbRows # {}
    /\ map' = "present"
    /\ rows' = [r \in Rows |-> IF r \in Newest(dbRows, Limit) THEN 1 ELSE 0]
    /\ brought' = Newest(dbRows, Limit)
    /\ UNCHANGED <<phone, net, stale, link, gen, row, seen, db, saves, call>>

\* Another conversation is listed, which makes the map.
OpenOther ==
    /\ map = "nil"
    /\ map' = "absent"
    /\ UNCHANGED <<phone, net, stale, link, gen, rows, brought, row, seen, db,
                   saves, call>>

\* A call with a new request id.
Start(k, pc, kind, cursor) ==
    /\ kind \in Kinds
    /\ call[k] = IdleCall
    /\ \A m \in net : m.req # k
    /\ call' = [call EXCEPT ![k] = [IdleCall EXCEPT !.pc = pc, !.kind = kind,
                                                     !.cursor = cursor]]

\* Neither the cache nor the database can answer, or the user asked for a
\* refresh: the phone is asked.
ListSMSThreads(k, cursor, force) ==
    /\ force \/ cursor # 0 \/ (row = None /\ dbRow = None)
    /\ Start(k, "miss", "threads", cursor)
    /\ UNCHANGED <<phone, net, stale, link, cache, seen, db, saves>>

ListSMSMessages(k, cursor, force) ==
    /\ \/ force
       \/ cursor = 0 /\ rows = Empty /\ dbRows = {}
       \/ cursor # 0 /\ Before(dbRows, cursor) = {}
    /\ Start(k, "miss", "messages", cursor)
    /\ UNCHANGED <<phone, net, stale, link, cache, seen, db, saves>>

SendSMS(k) ==
    /\ Start(k, "miss", "send", 0)
    /\ UNCHANGED <<phone, net, stale, link, cache, seen, db, saves>>

\* MarkThreadRead: the cache first, then the database, then the phone.
MarkThreadRead(k) ==
    /\ Start(k, "marking", "read", 0)
    /\ row' = IF row = None THEN None ELSE 0
    /\ UNCHANGED <<phone, net, stale, link, gen, map, rows, brought, seen, db,
                   saves>>

MarkThreadReadInDB(k) ==
    /\ call[k].pc = "marking"
    /\ dbRow' = IF dbRow = None THEN None ELSE 0
    /\ call' = [call EXCEPT ![k].pc = "miss"]
    /\ UNCHANGED <<phone, net, stale, link, cache, seen, dbRows, saves>>

\* IsPaired says no.
Offline(k) ==
    /\ call[k].pc = "miss"
    /\ ~ws
    /\ call' = [call EXCEPT ![k] = IdleCall]
    /\ UNCHANGED <<phone, net, stale, link, cache, seen, db, saves>>

\* The waiter and what the answer will be checked against are registered.
Register(k) ==
    /\ call[k].pc = "miss"
    /\ call' = [call EXCEPT ![k].pc = "registered", ![k].waiter = TRUE,
                            ![k].gen = gen]
    /\ UNCHANGED <<phone, net, stale, link, cache, seen, db, saves>>

SendRequest(k) ==
    /\ call[k].pc = "registered"
    /\ call' = [call EXCEPT ![k].pc = IF ws THEN "waiting" ELSE "leaving",
                            ![k].asked = ws]
    /\ UNCHANGED <<phone, net, stale, link, cache, seen, db, saves>>

\* Mutant: the sent message is not saved.
WakeUnsaved(k) ==
    LET res == call[k].ch IN
    /\ call[k].pc = "waiting"
    /\ res # None
    /\ call' = [call EXCEPT ![k].pc = "leaving", ![k].ch = None]
    /\ \/ /\ call[k].kind = "send" => res.page = {}
          /\ UNCHANGED <<map, rows, brought, saves>>
       \/ \E s \in res.page :
             /\ call[k].kind = "send"
             /\ IF map = "nil" THEN UNCHANGED <<map, rows, brought>>
                ELSE /\ map' = "present"
                     /\ rows' = [rows EXCEPT ![Stored(s)] = @ + 1]
                     /\ brought' = brought \cup {Stored(s)}
             /\ saves' = saves
    /\ UNCHANGED <<phone, net, stale, link, gen, row, seen, db>>

\* The call receives its result.  A send that worked is put into the
\* transcript without waiting for the phone's own row.
Wake(k) ==
    LET res == call[k].ch IN
    /\ call[k].pc = "waiting"
    /\ res # None
    /\ call' = [call EXCEPT ![k].pc = "leaving", ![k].ch = None]
    /\ \/ /\ call[k].kind = "send" => res.page = {}
          /\ UNCHANGED <<map, rows, brought, saves>>
       \/ \E s \in res.page :
             /\ call[k].kind = "send"
             /\ IF map = "nil" THEN UNCHANGED <<map, rows, brought>>
                ELSE /\ map' = "present"
                     /\ rows' = [rows EXCEPT ![Stored(s)] = @ + 1]
                     /\ brought' = brought \cup {Stored(s)}
             /\ Spawn(Save({Stored(s)}, None, TRUE))
    /\ UNCHANGED <<phone, net, stale, link, gen, row, seen, db>>

Timeout(k) ==
    /\ call[k].pc = "waiting"
    /\ call' = [call EXCEPT ![k].pc = "leaving"]
    /\ UNCHANGED <<phone, net, stale, link, cache, seen, db, saves>>

\* Mutant: the waiter is not deleted.
LeaveKeepsWaiter(k) ==
    /\ call[k].pc = "leaving"
    /\ call' = [call EXCEPT ![k].pc = "idle"]
    /\ UNCHANGED <<phone, net, stale, link, cache, seen, db, saves>>

\* The deferred delete of the waiter.  The request may still be under way.
Leave(k) ==
    /\ call[k].pc = "leaving"
    /\ call' = [call EXCEPT ![k] =
                  IF call[k].asked
                  THEN [IdleCall EXCEPT !.kind = call[k].kind,
                                        !.cursor = call[k].cursor,
                                        !.asked = TRUE]
                  ELSE IdleCall]
    /\ UNCHANGED <<phone, net, stale, link, cache, seen, db, saves>>

(***************************************************************************)
(* The database goroutines: SaveMessages, then SaveThreads.                *)
(***************************************************************************)

\* What is left of a goroutine's work; an empty thread list is not written.
Remaining(w) == IF w.rows = {} /\ w.count = None /\ ~w.reread THEN {} ELSE {w}

SaveMessages(w) ==
    /\ w \in saves
    /\ w.rows # {}
    /\ dbRows' = dbRows \cup w.rows
    /\ saves' = (saves \ {w}) \cup Remaining([w EXCEPT !.rows = {}])
    /\ UNCHANGED <<phone, net, stale, link, cache, seen, dbRow, call>>

\* After a send the goroutine takes the thread row as it is by then.
CopyThreads(w) ==
    /\ w \in saves
    /\ w.rows = {} /\ w.reread
    /\ saves' = (saves \ {w}) \cup Remaining(Save({}, row, FALSE))
    /\ UNCHANGED <<phone, net, stale, link, cache, seen, db, call>>

SaveThreads(w) ==
    /\ w \in saves
    /\ w.rows = {} /\ ~w.reread
    /\ dbRow' = w.count
    /\ saves' = saves \ {w}
    /\ UNCHANGED <<phone, net, stale, link, cache, seen, dbRows, call>>

(***************************************************************************)
(* The link.                                                               *)
(***************************************************************************)

\* OnWSConnect registers a socket; the one it replaces is closed and will
\* report its end later.
Connect ==
    /\ ~fresh
    /\ ws => "break" \in Faults /\ owed < MaxOwed
    /\ ws' = TRUE
    /\ fresh' = TRUE
    /\ owed' = IF ws THEN owed + 1 ELSE owed
    /\ fg' = IF fg = "done" THEN "no" ELSE fg
    /\ UNCHANGED <<phone, net, stale, cache, seen, db, saves, call>>

\* OnWSConnect's resync: whatever was lost before is made up for.
Resync ==
    /\ fresh
    /\ InvalidateCaches
    /\ fresh' = FALSE
    /\ stale' = FALSE
    /\ UNCHANGED <<phone, net, ws, owed, fg, seen, db, saves, call>>

\* A socket ends: it is deregistered, and its pending calls are failed in a
\* later step.
Disconnect ==
    /\ "break" \in Faults
    /\ ws
    /\ owed < MaxOwed
    /\ ws' = FALSE
    /\ owed' = owed + 1
    /\ UNCHANGED <<phone, net, stale, fresh, fg, cache, seen, db, saves, call>>

\* Mutant: the calls that send are forgotten.
failSomeSMSRequests ==
    /\ owed > 0
    /\ owed' = owed - 1
    /\ call' = [k \in Calls |->
                  IF call[k].waiter /\ call[k].kind # "send"
                  THEN [Answered(k, Error) EXCEPT !.waiter = FALSE]
                  ELSE call[k]]
    /\ UNCHANGED <<phone, net, stale, ws, fresh, fg, cache, seen, db, saves>>

failPendingSMSRequests ==
    /\ owed > 0
    /\ owed' = owed - 1
    /\ call' = [k \in Calls |->
                  IF call[k].waiter
                  THEN [Answered(k, Error) EXCEPT !.waiter = FALSE]
                  ELSE call[k]]
    /\ UNCHANGED <<phone, net, stale, ws, fresh, fg, cache, seen, db, saves>>

(***************************************************************************)
(* ForgetLastDevice: the socket, the database, then the caches; the        *)
(* generation stays.                                                       *)
(***************************************************************************)

\* The socket is closed and deregistered; its read loop reports its end
\* later.  If device.json cannot be deleted, the call ends here.
ForgetLastDevice(ok) ==
    /\ "forget" \in Kinds
    /\ fg = "no"
    /\ ws => owed < MaxOwed
    /\ ws' = FALSE
    /\ owed' = IF ws THEN owed + 1 ELSE owed
    /\ fg' = IF ok THEN "clear" ELSE "no"
    /\ UNCHANGED <<phone, net, stale, fresh, cache, seen, db, saves, call>>

ClearAll ==
    /\ fg = "clear"
    /\ dbRows' = {}
    /\ dbRow' = None
    /\ fg' = "caches"
    /\ UNCHANGED <<phone, net, stale, ws, fresh, owed, cache, seen, saves,
                   call>>

ForgetCaches ==
    /\ fg = "caches"
    /\ map' = "nil"
    /\ rows' = Empty
    /\ brought' = {}
    /\ row' = None
    /\ fg' = "done"
    /\ UNCHANGED <<phone, net, stale, ws, fresh, owed, gen, seen, db, saves,
                   call>>

(***************************************************************************)
(* The specification.                                                      *)
(***************************************************************************)

Init ==
    /\ store = {} /\ unread = {} /\ sent = {} /\ minted = 0 /\ dirty = FALSE
    /\ net = {} /\ stale = FALSE
    /\ ws = FALSE /\ fresh = FALSE /\ owed = 0 /\ fg = "no"
    /\ gen = 0 /\ map = "nil" /\ rows = Empty /\ brought = {} /\ row = None
    /\ seen = <<>>
    /\ dbRows = {} /\ dbRow = None
    /\ saves = {}
    /\ call = [k \in Calls |-> IdleCall]

Phone ==
    \/ \E pushed \in BOOLEAN : Arrive(pushed)
    \/ \E s \in Sms : PhoneDelete(s)
    \/ Observe

Answer(k) ==
    \/ AnswerThreads(k)
    \/ AnswerMessages(k)
    \/ \E page \in {{}} \cup {{s} : s \in Sms} : AnswerSend(k, page)
    \/ \E permitted \in BOOLEAN : AnswerRead(k, permitted)
    \/ AnswerError(k)
    \/ LoseRequest(k)

Ingest(m, again) ==
    \/ ThreadsResp(m, again)
    \/ MessagesResp(m, again)
    \/ SendResp(m, again)
    \/ Push(m, again)

Call(k) ==
    \/ \E cursor \in {0, 1}, force \in BOOLEAN : ListSMSThreads(k, cursor, force)
    \/ \E cursor \in {0} \cup {Stored(s) : s \in Sms}, force \in BOOLEAN :
          ListSMSMessages(k, cursor, force)
    \/ SendSMS(k)
    \/ MarkThreadRead(k)
    \/ MarkThreadReadInDB(k)
    \/ Offline(k)
    \/ Register(k)
    \/ SendRequest(k)
    \/ Wake(k)
    \/ Timeout(k)
    \/ Leave(k)

Database ==
    \/ LoadAllThreads
    \/ LoadMessagesForThread
    \/ OpenOther
    \/ \E w \in saves : SaveMessages(w) \/ CopyThreads(w) \/ SaveThreads(w)

Link == Connect \/ Resync \/ Disconnect \/ failPendingSMSRequests

Forget ==
    \/ \E ok \in BOOLEAN : ForgetLastDevice(ok)
    \/ ClearAll
    \/ ForgetCaches

Next ==
    \/ Phone
    \/ \E k \in Calls : Answer(k) \/ Call(k)
    \/ \E m \in net, again \in BOOLEAN : Ingest(m, again)
    \/ \E m \in net : Lose(m)
    \/ \E again \in BOOLEAN : SMSChanged(again)
    \/ Database
    \/ Link
    \/ Forget

Spec == Init /\ [][Next]_vars

(***************************************************************************)
(* Properties.                                                             *)
(***************************************************************************)

\* Types, and how the parts fit: a call waits with its waiter registered or
\* its result in the channel, rows exist only where the map has the
\* conversation, and unread and sent SMS are SMS there were.
TypeOK ==
    /\ store \subseteq 1..minted /\ unread \subseteq store
    /\ sent \subseteq 1..minted /\ minted \in 0..MaxSms
    /\ dirty \in BOOLEAN /\ stale \in BOOLEAN
    /\ ws \in BOOLEAN /\ fresh \in BOOLEAN /\ owed \in 0..MaxOwed
    /\ fg \in {"no", "clear", "caches", "done"}
    /\ gen \in 0..MaxGen
    /\ map \in {"nil", "absent", "present"}
    /\ rows \in [Rows -> Nat]
    /\ brought \subseteq Rows
    /\ row \in Nat \cup {None}
    /\ seen \in Seq(Sms) /\ Len(seen) <= DedupCap
    /\ dbRows \subseteq Rows /\ dbRow \in Nat \cup {None}
    /\ \A w \in saves : /\ w.rows \subseteq Rows
                        /\ w.count \in Nat \cup {None}
                        /\ w.reread \in BOOLEAN
    /\ \A m \in net : /\ m.page \subseteq Sms
                      /\ m.count \in Nat \cup {None}
                      /\ m.req \in Calls \cup {None}
    /\ map # "present" => rows = Empty
    /\ \A k \in Calls :
          /\ call[k].pc \in {"idle", "marking", "miss", "registered",
                             "waiting", "leaving"}
          /\ call[k].waiter => call[k].pc \in {"registered", "waiting",
                                               "leaving"}
          /\ call[k].waiter => call[k].gen <= gen
          /\ call[k].pc = "waiting" => call[k].waiter \/ call[k].ch # None

\* However pages overlap, pushes are repeated and rows come back from the
\* database, the transcript has every row once (as long as nothing is sent
\* from the Mac): keyed each blocks of the pane throw on a second one.
NoDuplicateRows == \A r \in Rows : rows[r] <= 1

\* A change on the phone that the Mac has not heard of yet.
Notice == dirty \/ stale \/ Changed \in net

\* A page never brings back what the phone has deleted, and a first page
\* takes it away: if the transcript shows a provider row that is gone, the
\* notice of the deletion is still on its way or was lost with a connection,
\* or the row is one the database kept or a send put there and no first page
\* has come since.  Late answers, repeated ones and answers to calls that gave
\* up do not get past the waiter and generation.
CacheFollowsPhone ==
    \A s \in Sms : rows[Stored(s)] > 0 /\ s \notin store =>
       Notice \/ Stored(s) \in brought

\* However often a push is delivered it adds to the unread count once: an
\* SMS is counted at most twice, by a thread page of the phone and by its
\* push, also when the count went through the database and back, as long as
\* the set of pushes seen has room for all there were.
PushesCountedOnce == minted <= DedupCap /\ row # None => row <= 2 * minted

\* The database is behind the cache only by what a goroutine is about to
\* save: a restart loses no row the pane has shown.  (ForgetLastDevice, which
\* empties the database first, is left aside.)
CacheIsSaved ==
    HasDB /\ fg = "no" =>
       \A r \in Rows : rows[r] > 0 =>
          r \in dbRows \/ \E w \in saves : r \in w.rows

\* No call is left waiting for its timer when the phone is gone: a call that
\* waits without a result either has a registered socket to hear from, or a
\* socket that ended is yet to fail it.
NoForgottenWaiter ==
    \A k \in Calls :
       call[k].pc = "waiting" /\ call[k].ch = None /\ ~ws => owed > 0

=============================================================================
