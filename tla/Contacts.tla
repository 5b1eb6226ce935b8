------------------------------ MODULE Contacts ------------------------------
(***************************************************************************)
(* How the Mac mirrors the phone's contacts: the listings that the pane    *)
(* follows page by page, the deletions, the waiters and the generation     *)
(* behind both, the directory they fill, the database that goroutines save *)
(* it to, and the change notices, lost messages, disconnects and restarts  *)
(* that happen in between.                                                 *)
(*                                                                         *)
(* One action is one critical section of contactsMu, one database          *)
(* transaction or one step of the phone.  Messages in flight are unordered *)
(* and may be delivered again or lost, as the phone falls back from the    *)
(* socket to HTTP and retries host after host.                             *)
(*                                                                         *)
(* A contact is its place in the order of the listing, its content a       *)
(* version number.  Its name matters where a page ends, and stays: one     *)
(* that is renamed is another contact.  Avatars, the search and what it    *)
(* takes to match a number are left out.  A listing answered from the      *)
(* cache changes nothing and is left out too.                              *)
(***************************************************************************)
EXTENDS Naturals, Sequences, FiniteSets

CONSTANTS
  Calls,       \* calls of the pane that may be under way together
  MaxContact,  \* bound: contacts that ever exist
  Limit,       \* rows per page
  Fold,        \* a contact's name ignoring case, as its place; 0 without a name
  Name,        \* a contact's name as it is spelt
  None,        \* "nothing"
  MaxEdits,    \* bound: changes the user makes on the phone
  MaxReqs,     \* bound: requests
  MaxFaults    \* bound: sockets that end, messages lost or repeated, restarts

ASSUME ConstantsAssumption ==
  /\ MaxContact \in Nat \ {0} /\ Limit \in Nat \ {0}
  /\ MaxEdits \in Nat /\ MaxReqs \in Nat /\ MaxFaults \in Nat
  /\ None \notin [ok : BOOLEAN, next : Nat]

Ids == 1 .. MaxContact

\* The listing is in the order of the names, ignoring case, then of the ids.
ASSUME NamesAssumption ==
  /\ Fold \in [Ids -> Nat] /\ Name \in [Ids -> Nat]
  /\ \A c, d \in Ids : c <= d => Fold[c] <= Fold[d]
  /\ \A c, d \in Ids : Name[c] = Name[d] => Fold[c] = Fold[d]

VARIABLES
  book,     \* version of each contact on the phone, 0 if it is not there
  unborn,   \* contacts yet to be added; one deleted is not added again
  edits,    \* number of changes so far
  dirty,    \* the ContentObserver owes a change notice
  asks,     \* requests under way to the phone
  net,      \* messages under way to the Mac
  missed,   \* a change notice was lost and no reconnect has made up for it
  ws,       \* a socket is registered
  fresh,    \* OnWSConnect has registered a socket and not yet invalidated
  owed,     \* a socket that ended has yet to fail the pending calls
  faults,   \* number of faults so far
  gen,      \* contactsGen
  cache,    \* contactsCache, a sequence of rows
  db,       \* version of each contact in the database, 0 if it is not there
  saves,    \* snapshots (sequences of rows) that goroutines are about to save
  reqs,     \* number of requests so far
  call,     \* where each call is, with its waiter
  cut,      \* the listing in the cache was not followed to its end (history)
  deleted,  \* contacts whose deletion the pane was told of (history)
  late      \* contacts that a late save brought an older row of (history)

phoneVars == <<book, unborn, edits, dirty>>
linkVars  == <<missed, ws, fresh, owed, faults>>
history   == <<cut, deleted, late>>
vars == <<phoneVars, asks, net, linkVars, gen, cache, db, saves, reqs, call, history>>

-----------------------------------------------------------------------------
Row(c, v) == [id |-> c, ver |-> v]

RowsOf(s) == {s[i] : i \in 1 .. Len(s)}

IdsOf(s) == {r.id : r \in RowsOf(s)}

\* The elements of s at the places in I, in order.  (SelectSeq is recursive, and
\* a proof does not see into it.)
Pick(s, I) ==
  LET place(n) == CHOOSE i \in I : Cardinality({j \in I : j <= i}) = n
  IN [n \in 1 .. Cardinality(I) |-> s[place(n)]]

\* What a page asked for with a cursor may hold: a name behind the cursor's,
\* ignoring case, or the very same name and a greater id; without a cursor, or
\* with one that names nothing, everything.
Beyond(c, cursor) ==
  IF cursor = 0 THEN TRUE
  ELSE \/ Fold[cursor] = 0
       \/ Fold[c] > Fold[cursor]
       \/ Name[c] = Name[cursor] /\ c > cursor

\* The rows of f that a cursor leaves, in order.
Behind(f, cursor) ==
  Pick([c \in Ids |-> Row(c, f[c])], {c \in Ids : f[c] > 0 /\ Beyond(c, cursor)})

\* The rows of f, in order.
Listed(f) == Behind(f, 0)

Idle == [pc |-> "idle", kind |-> "list", req |-> 0, cursor |-> 0, all |-> TRUE,
         gen |-> 0, pending |-> FALSE, ch |-> None]

Message(type, req) == [type |-> type, req |-> req, rows |-> <<>>, next |-> 0, ok |-> TRUE]

Fault == faults < MaxFaults /\ faults' = faults + 1

\* A message is delivered, and again later if the phone sends it twice.
Deliver(m, again) ==
  /\ m \in net
  /\ net' = IF again THEN net ELSE net \ {m}
  /\ IF again THEN Fault ELSE UNCHANGED faults

Init ==
  /\ unborn \in SUBSET Ids
  /\ book = [c \in Ids |-> IF c \in unborn THEN 0 ELSE 1]
  /\ edits = 0 /\ dirty = FALSE
  /\ asks = {} /\ net = {}
  /\ missed = FALSE /\ ws = FALSE /\ fresh = FALSE /\ owed = FALSE /\ faults = 0
  /\ gen = 0
  /\ cache = <<>>
  /\ db = [c \in Ids |-> 0]
  /\ saves = {}
  /\ reqs = 0
  /\ call = [k \in Calls |-> Idle]
  /\ cut = FALSE /\ deleted = {} /\ late = {}

-----------------------------------------------------------------------------
(* The phone *)

\* A contact is added or changed; the observer will tell.
PhoneEdit(c) ==
  /\ edits < MaxEdits
  /\ book[c] > 0 \/ c \in unborn
  /\ edits' = edits + 1
  /\ book' = [book EXCEPT ![c] = @ + 1]
  /\ unborn' = unborn \ {c}
  /\ dirty' = TRUE
  /\ UNCHANGED <<asks, net, linkVars, gen, cache, db, saves, reqs, call, history>>

PhoneRemove(c) ==
  /\ edits < MaxEdits
  /\ book[c] > 0
  /\ edits' = edits + 1
  /\ book' = [book EXCEPT ![c] = 0]
  /\ dirty' = TRUE
  /\ UNCHANGED <<unborn, asks, net, linkVars, gen, cache, db, saves, reqs, call, history>>

\* The debounced notice goes out.
Notify ==
  /\ dirty
  /\ dirty' = FALSE
  /\ net' = net \cup {Message("changed", edits)}
  /\ UNCHANGED <<book, unborn, edits, asks, linkVars, gen, cache, db, saves, reqs, call, history>>

\* _handleList: the contacts behind the cursor, Limit at most, and a cursor if
\* the page is full, so there may be an empty one at the end; or an error, as
\* without the permission.
AnswerList(a) ==
  LET rest == Behind(book, a.cursor)
      page == SubSeq(rest, 1, IF Len(rest) < Limit THEN Len(rest) ELSE Limit)
      full == [Message("list", a.req) EXCEPT !.rows = page,
                 !.next = IF Len(rest) >= Limit THEN page[Limit].id ELSE 0]
  IN
  /\ a \in asks
  /\ a.kind = "list"
  /\ asks' = asks \ {a}
  /\ \/ net' = net \cup {full} /\ UNCHANGED faults
     \/ net' = net \cup {[Message("list", a.req) EXCEPT !.ok = FALSE]} /\ Fault
  /\ UNCHANGED <<phoneVars, missed, ws, fresh, owed, gen, cache, db, saves, reqs, call, history>>

\* _handleDelete: the contact goes, which the observer sees too; or an error,
\* always if it is not there.
AnswerDelete(a) ==
  /\ a \in asks
  /\ a.kind = "delete"
  /\ asks' = asks \ {a}
  /\ \/ /\ book[a.cursor] > 0
        /\ book' = [book EXCEPT ![a.cursor] = 0]
        /\ dirty' = TRUE
        /\ net' = net \cup {Message("delete", a.req)}
        /\ UNCHANGED faults
     \/ /\ UNCHANGED <<book, dirty>>
        /\ net' = net \cup {[Message("delete", a.req) EXCEPT !.ok = FALSE]}
        /\ IF book[a.cursor] > 0 THEN Fault ELSE UNCHANGED faults
  /\ UNCHANGED <<unborn, edits, missed, ws, fresh, owed, gen, cache, db, saves, reqs, call, history>>

-----------------------------------------------------------------------------
(* The calls *)

\* A call takes a request id and registers its waiter and, for a listing, the
\* generation; offline it does not come so far.
Register(k, kind, cursor, all) ==
  /\ reqs < MaxReqs
  /\ reqs' = reqs + 1
  /\ call' = [call EXCEPT ![k] =
       [pc |-> "request", kind |-> kind, req |-> reqs + 1, cursor |-> cursor, all |-> all,
        gen |-> gen, pending |-> TRUE, ch |-> None]]
  /\ UNCHANGED <<phoneVars, asks, net, linkVars, gen, cache, db, saves, history>>

\* ListContactsWithQuery, from the start: refreshed by force, or with nothing
\* cached to answer from, or with a query (all = FALSE).
ListContacts(k, all) ==
  call[k].pc = "idle" /\ ws /\ Register(k, "list", 0, all)

\* The pane follows the cursor ...
FollowCursor(k) ==
  call[k].pc = "more" /\ ws /\ Register(k, "list", call[k].cursor, call[k].all)

\* ... or does not: it was closed, twenty pages are enough, the phone is gone.
StopFollowing(k) ==
  /\ call[k].pc = "more"
  /\ call' = [call EXCEPT ![k] = Idle]
  /\ cut' = (cut \/ call[k].all)
  /\ UNCHANGED <<phoneVars, asks, net, linkVars, gen, cache, db, saves, reqs, deleted, late>>

\* DeleteContact, of a contact the pane shows.
DeleteContact(k, c) ==
  call[k].pc = "idle" /\ ws /\ c \in IdsOf(cache) /\ Register(k, "delete", c, FALSE)

\* sendFeatureToPhone, or its error, which ends the call and its waiter.
SendRequest(k) ==
  /\ call[k].pc = "request"
  /\ IF ws
     THEN /\ asks' = asks \cup {[kind |-> call[k].kind, req |-> call[k].req, cursor |-> call[k].cursor]}
          /\ call' = [call EXCEPT ![k].pc = "waiting"]
          /\ UNCHANGED cut
     ELSE /\ UNCHANGED asks
          /\ call' = [call EXCEPT ![k] = Idle]
          /\ cut' = (cut \/ (call[k].all /\ call[k].cursor > 0))
  /\ UNCHANGED <<phoneVars, net, linkVars, gen, cache, db, saves, reqs, deleted, late>>

\* The call takes what is in its channel: an error ends it, a page makes the
\* pane go on if there is more, a deletion still has its caches to see to.
Wake(k) ==
  LET x == call[k] IN
  /\ x.pc = "waiting"
  /\ x.ch # None
  /\ call' = [call EXCEPT ![k] =
       CASE x.kind = "list" /\ x.ch.ok /\ x.ch.next > 0 ->
              [Idle EXCEPT !.pc = "more", !.cursor = x.ch.next, !.all = x.all]
         [] x.kind = "delete" /\ x.ch.ok -> [x EXCEPT !.pc = "prune"]
         [] OTHER -> Idle]
  /\ cut' = (cut \/ (x.all /\ x.cursor > 0 /\ ~x.ch.ok))
  /\ UNCHANGED <<phoneVars, asks, net, linkVars, gen, cache, db, saves, reqs, deleted, late>>

\* Eight seconds without an answer.
Timeout(k) ==
  /\ call[k].pc = "waiting"
  /\ call[k].ch = None
  /\ call' = [call EXCEPT ![k] = Idle]
  /\ cut' = (cut \/ (call[k].all /\ call[k].cursor > 0))
  /\ UNCHANGED <<phoneVars, asks, net, linkVars, gen, cache, db, saves, reqs, deleted, late>>

\* A deletion that went well: the row leaves the cache ...
Prune(k) ==
  /\ call[k].pc = "prune"
  /\ cache' = Pick(cache, {i \in 1 .. Len(cache) : cache[i].id # call[k].cursor})
  /\ call' = [call EXCEPT ![k].pc = "dbdelete"]
  /\ UNCHANGED <<phoneVars, asks, net, linkVars, gen, db, saves, reqs, history>>

\* ... and the database, and the pane is told.
DbDeleteContact(k) ==
  /\ call[k].pc = "dbdelete"
  /\ db' = [db EXCEPT ![call[k].cursor] = 0]
  /\ call' = [call EXCEPT ![k] = Idle]
  /\ deleted' = deleted \cup {call[k].cursor}
  /\ UNCHANGED <<phoneVars, asks, net, linkVars, gen, cache, saves, reqs, cut, late>>

-----------------------------------------------------------------------------
(* ingestContactsBody *)

\* Mutant: an answer goes to every call that waits.
WaitersOfAny(req) == {k \in Calls : call[k].pending}

Waiters(req) == {k \in Calls : call[k].pending /\ call[k].req = req}

\* The waiter's channel holds one result; the first one stays.
Answered(k, m) == [call EXCEPT ![k].ch = IF @ = None THEN [ok |-> m.ok, next |-> m.next] ELSE @]

\* Mutant: rows already there come again.
mergeAppends(dst, src) == dst \o src

\* mergeContactEntries: rows not there yet are appended.
mergeContactEntries(dst, src) ==
  dst \o Pick(src, {i \in 1 .. Len(src) : src[i].id \notin IdsOf(dst)})

\* Mutant: a later page replaces the directory, too.
AdoptPageAlone(k, m) ==
  /\ cache' = m.rows
  /\ saves' = IF cache' = <<>> THEN saves ELSE saves \cup {cache'}

\* Mutant: only the first page is saved.
AdoptPageUnsaved(k, m) ==
  /\ cache' = IF call[k].cursor = 0 THEN m.rows ELSE mergeContactEntries(cache, m.rows)
  /\ saves' = IF cache' = <<>> \/ call[k].cursor > 0 THEN saves ELSE saves \cup {cache'}

\* The first page of a listing replaces the directory, a later one adds to it,
\* and a goroutine saves the outcome.
AdoptPage(k, m) ==
  /\ cache' = IF call[k].cursor = 0 THEN m.rows ELSE mergeContactEntries(cache, m.rows)
  /\ saves' = IF cache' = <<>> THEN saves ELSE saves \cup {cache'}

\* Mutant: the generation of the request is not compared.
WelcomeAlways(k, m) == TRUE

\* A change notice or a new socket since the request invalidates the page.
Welcome(k, m) == ~m.ok \/ call[k].gen = gen

\* A page: without a waiter it is dropped, as it is, waiter and all, when the
\* generation has moved on.  A page of a listing with a query goes to its
\* waiter only.  An ended socket's goroutine may get to the waiter's channel
\* first, between the critical section and the send: the page is then adopted
\* and its listing not followed.
ListResp(m, again) ==
  /\ m.type = "list"
  /\ Deliver(m, again)
  /\ \/ \E k \in Waiters(m.req), beaten \in {FALSE, owed} :
          /\ Welcome(k, m)
          /\ call' = IF beaten THEN call ELSE Answered(k, m)
          /\ IF m.ok /\ call[k].all
             THEN /\ AdoptPage(k, m)
                  /\ cut' = (beaten \/ (call[k].cursor > 0 /\ (cut \/ call[k].cursor \notin IdsOf(cache))))
             ELSE UNCHANGED <<cache, saves, cut>>
     \/ /\ \A k \in Waiters(m.req) : ~Welcome(k, m)
        /\ UNCHANGED <<call, cache, saves, cut>>
  /\ UNCHANGED <<phoneVars, asks, missed, ws, fresh, owed, gen, db, reqs, deleted, late>>

DeleteResp(m, again) ==
  /\ m.type = "delete"
  /\ Deliver(m, again)
  /\ \/ \E k \in Waiters(m.req) : call' = Answered(k, m)
     \/ Waiters(m.req) = {} /\ UNCHANGED call
  /\ UNCHANGED <<phoneVars, asks, missed, ws, fresh, owed, gen, cache, db, saves, reqs, history>>

\* A change notice: another generation, and nothing cached.
ContactsChanged(m, again) ==
  /\ m.type = "changed"
  /\ Deliver(m, again)
  /\ gen' = gen + 1
  /\ cache' = <<>>
  /\ UNCHANGED <<phoneVars, asks, missed, ws, fresh, owed, db, saves, reqs, call, history>>

\* A message is lost; while there is no socket that is nothing unusual.
Lose(m) ==
  /\ m \in net
  /\ IF ws THEN Fault ELSE UNCHANGED faults
  /\ net' = net \ {m}
  /\ missed' = (missed \/ m.type = "changed")
  /\ UNCHANGED <<phoneVars, asks, ws, fresh, owed, gen, cache, db, saves, reqs, call, history>>

-----------------------------------------------------------------------------
(* The database *)

\* SaveContacts: rows are inserted or overwritten, none is removed, in the
\* order in which the goroutines get to the database.
SaveContacts(w) ==
  /\ w \in saves
  /\ saves' = saves \ {w}
  /\ db' = [c \in Ids |-> IF c \in IdsOf(w)
                          THEN (CHOOSE r \in RowsOf(w) : r.id = c).ver ELSE db[c]]
  /\ late' = late \cup {c \in IdsOf(w) : db[c] > db'[c] \/ c \in deleted}
  /\ UNCHANGED <<phoneVars, asks, net, linkVars, gen, cache, reqs, call, cut, deleted>>

-----------------------------------------------------------------------------
(* The link *)

\* OnWSConnect registers the socket, perhaps in place of one that then ends ...
Connect ==
  /\ ~fresh /\ ~owed
  /\ IF ws THEN Fault ELSE UNCHANGED faults
  /\ ws' = TRUE /\ fresh' = TRUE
  /\ owed' = ws
  /\ UNCHANGED <<phoneVars, asks, net, missed, gen, cache, db, saves, reqs, call, history>>

\* ... and invalidates the directory.
Resync ==
  /\ fresh
  /\ fresh' = FALSE
  /\ missed' = FALSE
  /\ gen' = gen + 1
  /\ cache' = <<>>
  /\ UNCHANGED <<phoneVars, asks, net, ws, owed, faults, db, saves, reqs, call, history>>

\* The socket ends; requests in it may be lost.  (One ended socket at a time.)
Disconnect ==
  /\ ws /\ ~fresh /\ ~owed
  /\ Fault
  /\ ws' = FALSE /\ owed' = TRUE
  /\ asks' \in {asks, {}}
  /\ UNCHANGED <<phoneVars, net, missed, fresh, gen, cache, db, saves, reqs, call, history>>

\* Mutant: calls that delete are forgotten.
failListsOnly ==
  /\ owed
  /\ owed' = FALSE
  /\ call' = [k \in Calls |->
       IF call[k].pending /\ call[k].kind = "list"
       THEN [call[k] EXCEPT !.pending = FALSE,
               !.ch = IF @ = None THEN [ok |-> FALSE, next |-> 0] ELSE @]
       ELSE call[k]]
  /\ UNCHANGED <<phoneVars, asks, net, missed, ws, fresh, faults, gen, cache, db, saves, reqs, history>>

\* OnWSDisconnect fails every pending call.
failPendingContacts ==
  /\ owed
  /\ owed' = FALSE
  /\ call' = [k \in Calls |->
       IF call[k].pending
       THEN [call[k] EXCEPT !.pending = FALSE,
               !.ch = IF @ = None THEN [ok |-> FALSE, next |-> 0] ELSE @]
       ELSE call[k]]
  /\ UNCHANGED <<phoneVars, asks, net, missed, ws, fresh, faults, gen, cache, db, saves, reqs, history>>

\* The app starts again, from the rows in the database; what was not saved is
\* gone.
Restart ==
  /\ Fault
  /\ ws' = FALSE /\ fresh' = FALSE /\ owed' = FALSE
  /\ gen' = 0
  /\ cache' = Listed(db)
  /\ saves' = {}
  /\ call' = [k \in Calls |-> Idle]
  /\ cut' = TRUE
  /\ UNCHANGED <<phoneVars, asks, net, missed, db, reqs, deleted, late>>

Next ==
  \/ \E c \in Ids : PhoneEdit(c) \/ PhoneRemove(c)
  \/ Notify
  \/ \E a \in asks : AnswerList(a) \/ AnswerDelete(a)
  \/ \E k \in Calls :
       \/ \E all \in BOOLEAN : ListContacts(k, all)
       \/ \E c \in Ids : DeleteContact(k, c)
       \/ FollowCursor(k) \/ StopFollowing(k) \/ SendRequest(k)
       \/ Wake(k) \/ Timeout(k) \/ Prune(k) \/ DbDeleteContact(k)
  \/ \E m \in net : \/ \E again \in BOOLEAN : \/ ListResp(m, again) \/ DeleteResp(m, again)
                                              \/ ContactsChanged(m, again)
                    \/ Lose(m)
  \/ \E w \in saves : SaveContacts(w)
  \/ Connect \/ Resync \/ Disconnect \/ failPendingContacts \/ Restart

Spec == Init /\ [][Next]_vars

-----------------------------------------------------------------------------
Rows == [id : Ids, ver : Nat \ {0}]

\* Types, and how a call's place and its waiter fit.
TypeOK ==
  /\ book \in [Ids -> Nat] /\ unborn \subseteq {c \in Ids : book[c] = 0}
  /\ dirty \in BOOLEAN /\ missed \in BOOLEAN /\ ws \in BOOLEAN /\ fresh \in BOOLEAN
  /\ owed \in BOOLEAN /\ fresh => ws
  /\ edits \in 0 .. MaxEdits /\ reqs \in 0 .. MaxReqs /\ faults \in 0 .. MaxFaults
  /\ \A m \in net : RowsOf(m.rows) \subseteq Rows /\ Len(m.rows) <= Limit
  /\ \A w \in saves : w # <<>> /\ RowsOf(w) \subseteq Rows
  /\ db \in [Ids -> Nat] /\ gen \in Nat
  /\ RowsOf(cache) \subseteq Rows
  /\ \A k \in Calls :
       /\ call[k].pc \in {"idle", "request", "waiting", "more", "prune", "dbdelete"}
       /\ call[k].pc \in {"idle", "more"} => ~call[k].pending
       /\ call[k].pc = "waiting" /\ ~call[k].pending => call[k].ch # None

\* A change the Mac has yet to hear of.
Notice == dirty \/ missed \/ \E m \in net : m.type = "changed"

\* The Mac is connected and has heard of every change.
UpToDate == ws /\ ~fresh /\ ~Notice

\* A contact is in the directory once: mergeContactEntries ("Svelte keyed each
\* blocks throw on duplicate keys"), also where pages overlap because contacts
\* were added and deleted between them, or come twice.
NoDuplicateRows ==
  \A i, j \in 1 .. Len(cache) : cache[i].id = cache[j].id => i = j

\* Once the Mac is up to date the directory has no contact that was deleted and
\* none in an older version, whatever pages, deletions, reconnects and restarts
\* came before: the generation and the waiters keep late pages out.
RowsAreCurrent == UpToDate => \A r \in RowsOf(cache) : book[r.id] = r.ver

\* A contact that no page brings, as one with the same name, but for case, ends
\* a page before it: the boundary between pages ignores case for names that come
\* later, not for the same one.
PassedOver(c) ==
  \E d \in IdsOf(cache) : d < c /\ Fold[d] = Fold[c] /\ Name[d] # Name[c]

\* And it has all of them, but for those passed over, when the listing that
\* filled it was followed to its end: the pages fit together.  It may not be:
\* the pane stops, as it does at last when a page ends with a contact without a
\* name and the next one starts the book again, a page is refused, or a page is
\* asked for after its predecessors were wiped.
CacheIsWhole ==
  UpToDate /\ cache # <<>> /\ ~cut
  /\ (\A k \in Calls : call[k].pc = "idle" \/ ~call[k].all)
  => \A c \in Ids : book[c] > 0 => c \in IdsOf(cache) \/ PassedOver(c)

\* What the directory shows is in the database, in this version or a newer one,
\* or about to be, but for rows that an older snapshot, saved late, wrote over,
\* and for contacts deleted meanwhile.
DirectoryIsSaved ==
  \A r \in RowsOf(cache) :
    \/ db[r.id] >= r.ver
    \/ r.id \in late \cup deleted
    \/ \E k \in Calls : call[k].pc = "dbdelete" /\ call[k].cursor = r.id
    \/ \E w \in saves : r \in RowsOf(w)

\* The Mac takes a row for deleted, out of the directory and out of the database,
\* only when the phone has deleted the contact: no answer that comes late or
\* twice, of another request or in a socket's last moments, passes for it.
DeletedOnPhone ==
  /\ \A c \in deleted : book[c] = 0
  /\ \A k \in Calls : call[k].pc \in {"prune", "dbdelete"} => book[call[k].cursor] = 0

\* When the socket has ended and its goroutine is done, no call waits for an
\* answer that cannot come: failPendingSyncRequests has failed it.
NoForgottenCall ==
  ~ws /\ ~owed => \A k \in Calls : call[k].pc = "waiting" => call[k].ch # None

=============================================================================
