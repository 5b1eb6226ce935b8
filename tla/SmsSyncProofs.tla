---------------------------- MODULE SmsSyncProofs ----------------------------
(***************************************************************************)
(* Proofs about SmsSync, for any number of calls, SMS, pages, generations  *)
(* and sockets, any size of page and any mixture of the link's faults.     *)
(***************************************************************************)
EXTENDS SmsSync, FiniteSetTheorems, TLAPS

(***************************************************************************)
(* Types.                                                                  *)
(***************************************************************************)

\* What the phone is asked for, and what it sends.
Asking == {"threads", "messages", "send", "read"}
Types  == Asking \cup {"changed", "push"}

Count    == Nat \cup {None}
Result   == [ok : BOOLEAN, page : SUBSET Sms]
MsgType  == [type : Types, req : Calls \cup {None}, ok : BOOLEAN, page : SUBSET Sms,
             count : Count]
SaveType == [rows : SUBSET Rows, count : Count, reread : BOOLEAN]
CallType == [pc : {"idle", "marking", "miss", "registered", "waiting", "leaving"},
             kind : Kinds \cup {"none"}, cursor : Nat, gen : Nat, waiter : BOOLEAN,
             ch : Result \cup {None}, asked : BOOLEAN]

PhoneOK ==
    /\ store \subseteq 1..minted /\ unread \subseteq store
    /\ sent \subseteq 1..minted /\ minted \in 0..MaxSms
    /\ dirty \in BOOLEAN

\* Only answers name a call, and a push names the SMS it is about.
NetOK ==
    /\ net \subseteq MsgType
    /\ \A m \in net : m.type \in Asking => m.req \in Calls
    /\ stale \in BOOLEAN

LinkOK ==
    /\ ws \in BOOLEAN /\ fresh \in BOOLEAN /\ owed \in 0..MaxOwed
    /\ fg \in {"no", "clear", "caches", "done"}

CacheOK ==
    /\ gen \in 0..MaxGen
    /\ map \in {"nil", "absent", "present"}
    /\ rows \in [Rows -> Nat]
    /\ brought \subseteq Rows
    /\ map # "present" => rows = Empty
    /\ row \in Count

SeenOK == seen \in Seq(Sms) /\ Len(seen) <= DedupCap

SavedOK ==
    /\ dbRows \subseteq Rows /\ dbRow \in Count
    /\ saves \subseteq SaveType

\* A call that waits, or is about to, has a waiter or its result; what it asks
\* is something the phone answers.
CallOK ==
    /\ call \in [Calls -> CallType]
    /\ \A k \in Calls :
          /\ call[k].waiter => /\ call[k].pc \in {"registered", "waiting", "leaving"}
                               /\ call[k].gen <= gen
          /\ call[k].pc \in {"registered", "waiting"} =>
                call[k].waiter \/ call[k].ch # None
          /\ call[k].pc \in {"marking", "miss", "registered", "waiting", "leaving"} =>
                call[k].kind \in Asking
          /\ call[k].asked => call[k].kind \in Asking

TypeInv == PhoneOK /\ NetOK /\ LinkOK /\ CacheOK /\ SeenOK /\ SavedOK /\ CallOK

\* The types the proofs carry are no weaker than those the run checks.
LEMMA TypeInvTypeOK == TypeInv => TypeOK
  <1> SUFFICES ASSUME TypeInv PROVE TypeOK
    OBVIOUS
  <1>1. \A w \in saves : w.rows \subseteq Rows /\ w.count \in Nat \cup {None}
                         /\ w.reread \in BOOLEAN
    BY DEF TypeInv, SavedOK, SaveType, Count
  <1>2. \A m \in net : m.page \subseteq Sms /\ m.count \in Nat \cup {None}
                       /\ m.req \in Calls \cup {None}
    BY DEF TypeInv, NetOK, MsgType, Count
  <1>3. \A k \in Calls :
          /\ call[k].pc \in {"idle", "marking", "miss", "registered", "waiting", "leaving"}
          /\ call[k].waiter => call[k].pc \in {"registered", "waiting", "leaving"}
          /\ call[k].waiter => call[k].gen <= gen
          /\ call[k].pc = "waiting" => call[k].waiter \/ call[k].ch # None
    BY DEF TypeInv, CallOK, CallType
  <1> QED BY <1>1, <1>2, <1>3
          DEF TypeInv, TypeOK, PhoneOK, NetOK, LinkOK, CacheOK, SeenOK, SavedOK, Count

\* Before the phone connects nothing is cached, saved, asked or under way.
LEMMA InitTypeInv == Init => TypeInv
  <1> SUFFICES ASSUME Init PROVE TypeInv
    OBVIOUS
  <1>c. MaxSms \in Nat /\ MaxOwed \in Nat /\ MaxGen \in Nat /\ DedupCap \in Nat
    BY ConstantsAssumption
  <1>1. PhoneOK
    <2>1. store = {} /\ unread = {} /\ sent = {} /\ minted = 0 /\ dirty = FALSE
      BY DEF Init
    <2>2. dirty \in BOOLEAN
      BY <2>1
    <2>3. minted \in 0..MaxSms
      BY <1>c, <2>1
    <2> QED BY <2>1, <2>2, <2>3 DEF PhoneOK
  <1>2. NetOK
    BY DEF Init, NetOK
  <1>3. LinkOK
    <2>1. ws = FALSE /\ fresh = FALSE /\ owed = 0 /\ fg = "no"
      BY DEF Init
    <2>2. ws \in BOOLEAN /\ fresh \in BOOLEAN
      BY <2>1
    <2>3. owed \in 0..MaxOwed
      BY <1>c, <2>1
    <2> QED BY <2>1, <2>2, <2>3 DEF LinkOK
  <1>4. CacheOK
    BY <1>c DEF Init, CacheOK, Empty, Count
  <1>5. SeenOK
    BY <1>c DEF Init, SeenOK
  <1>6. SavedOK
    BY DEF Init, SavedOK, Count
  <1>7. CallOK
    BY DEF Init, CallOK, CallType, IdleCall
  <1> QED BY <1>1, <1>2, <1>3, <1>4, <1>5, <1>6, <1>7 DEF TypeInv

\* The rows of an SMS are rows, and a push's row is never a provider's.
LEMMA RowsOfSms ==
    \A s \in Sms : /\ Pushed(s) \in Rows /\ Stored(s) \in Rows
                   /\ \A t \in Sms : Pushed(s) # Stored(t)
  BY ConstantsAssumption DEF Sms, Rows, Pushed, Stored

\* There are never more unread SMS than there were SMS.
LEMMA UnreadCount ==
    ASSUME PhoneOK
    PROVE  Cardinality(unread) \in Nat /\ Cardinality(unread) <= minted
  <1>1. minted \in Nat /\ unread \in SUBSET (1..minted)
    BY ConstantsAssumption DEF PhoneOK
  <1>2. IsFiniteSet(1..minted) /\ Cardinality(1..minted) = minted
    BY <1>1, FS_Interval
  <1>3. IsFiniteSet(unread) /\ Cardinality(unread) <= minted
    BY <1>1, <1>2, FS_Subset
  <1> QED BY <1>1, <1>3, FS_CardinalityType

\* Answering, losing and leaving a request keep a call's type.
LEMMA CallKept ==
    ASSUME CallOK, NEW k \in Calls, call' = [call EXCEPT ![k] = Unasked(k)], gen' = gen
    PROVE  CallOK'
  <1>1. Unasked(k) \in CallType
    <2>1. IdleCall \in CallType
      BY DEF IdleCall, CallType
    <2>2. call[k] \in CallType
      BY DEF CallOK
    <2>3. [call[k] EXCEPT !.asked = FALSE] \in CallType
      BY <2>2 DEF CallType
    <2> QED BY <2>1, <2>3 DEF Unasked
  <1> QED BY <1>1 DEF CallOK, Unasked, IdleCall

\* The phone changes its own state and what is under way.
LEMMA PhoneTypeInv == TypeInv /\ Phone => TypeInv'
  <1> SUFFICES ASSUME TypeInv, Phone PROVE TypeInv'
    OBVIOUS
  <1> USE ConstantsAssumption
  <1>1. UNCHANGED <<stale, link, cache, seen, db, saves, call>>
    BY DEF Phone, Arrive, PhoneDelete, Observe
  <1>2. PhoneOK'
    <2>1. CASE \E pushed \in BOOLEAN : Arrive(pushed)
      BY <2>1 DEF TypeInv, PhoneOK, Arrive
    <2>2. CASE \E s \in Sms : PhoneDelete(s)
      BY <2>2 DEF TypeInv, PhoneOK, PhoneDelete
    <2>3. CASE Observe
      BY <2>3 DEF TypeInv, PhoneOK, Observe
    <2> QED BY <2>1, <2>2, <2>3 DEF Phone
  <1>3. NetOK'
    <2>1. Changed \in MsgType /\ Changed.type = "changed"
      BY DEF Changed, Message, MsgType, Types, Count
    <2>2. \A s \in Sms : LET m == Message("push", None, TRUE, {s}, None)
                         IN  m \in MsgType /\ m.type = "push"
      BY DEF Message, MsgType, Types, Count
    <2>3. minted < MaxSms => minted + 1 \in Sms
      BY DEF TypeInv, PhoneOK, Sms
    <2> QED BY <1>1, <2>1, <2>2, <2>3
            DEF Phone, Arrive, PhoneDelete, Observe, TypeInv, NetOK, Asking
  <1> QED BY <1>1, <1>2, <1>3 DEF TypeInv, LinkOK, CacheOK, SeenOK, SavedOK, CallOK, link,
                                   cache, db

\* A reply names the call it answers.
LEMMA ReplyTypes ==
    ASSUME TypeInv, NEW k \in Calls, NEW ok \in BOOLEAN, NEW page \in SUBSET Sms,
           NEW count \in Count, call[k].asked, Reply(k, ok, page, count), gen' = gen,
           stale' = stale
    PROVE  NetOK' /\ CallOK'
  <1>1. CallOK'
    BY CallKept DEF Reply, TypeInv
  <1>2. call[k].kind \in Asking
    BY DEF TypeInv, CallOK
  <1>3. LET m == Message(call[k].kind, k, ok, page, count)
        IN  m \in MsgType /\ m.req \in Calls
    BY <1>2 DEF Message, MsgType, Types
  <1>4. NetOK'
    BY <1>3 DEF Reply, TypeInv, NetOK
  <1> QED BY <1>1, <1>4

\* The phone's answers.
LEMMA AnswerTypeInv == \A k \in Calls : TypeInv /\ Answer(k) => TypeInv'
  <1> SUFFICES ASSUME NEW k \in Calls, TypeInv, Answer(k) PROVE TypeInv'
    OBVIOUS
  <1> USE ConstantsAssumption
  <1>1. UNCHANGED <<stale, link, cache, seen, db, saves>>
    BY DEF Answer, AnswerThreads, AnswerMessages, AnswerSend, AnswerRead, AnswerError,
           LoseRequest
  <1>2. PhoneOK'
    <2> USE DEF TypeInv, PhoneOK
    <2>1. CASE \E page \in {{}} \cup {{s} : s \in Sms} : AnswerSend(k, page)
      <3>1. /\ minted < MaxSms /\ minted' = minted + 1 /\ store' = store \cup {minted'}
            /\ sent' = sent \cup {minted'} /\ dirty' = TRUE /\ unread' = unread
        BY <2>1 DEF AnswerSend
      <3>2. minted' \in 0..MaxSms /\ 1..minted \subseteq 1..minted' /\ minted' \in 1..minted'
        BY <3>1
      <3>3. dirty' \in BOOLEAN
        BY <3>1
      <3> QED BY <3>1, <3>2, <3>3
    <2>2. CASE \E permitted \in BOOLEAN : AnswerRead(k, permitted)
      <3>1. UNCHANGED <<store, sent, minted>> /\ unread' \in {{}, unread}
        BY <2>2 DEF AnswerRead
      <3>2. dirty' \in BOOLEAN
        BY <2>2 DEF AnswerRead
      <3> QED BY <3>1, <3>2
    <2>3. CASE AnswerThreads(k) \/ AnswerMessages(k) \/ AnswerError(k) \/ LoseRequest(k)
      BY <2>3 DEF AnswerThreads, AnswerMessages, AnswerError, LoseRequest, phone
    <2> QED BY <2>1, <2>2, <2>3 DEF Answer
  <1>3. NetOK' /\ CallOK'
    <2>0. gen' = gen /\ stale' = stale
      BY <1>1 DEF cache
    <2>s. store \subseteq Sms
      BY DEF TypeInv, PhoneOK, Sms
    <2>1. CASE AnswerThreads(k)
      BY <2>0, <2>1, ReplyTypes, UnreadCount DEF AnswerThreads, TypeInv, Count
    <2>2. CASE AnswerMessages(k)
      <3> DEFINE page == Newest({s \in store : call[k].cursor = 0
                                                \/ Stored(s) < call[k].cursor}, Limit)
      <3>1. page \in SUBSET Sms
        BY <2>s DEF Newest
      <3>2. Reply(k, TRUE, page, None) /\ call[k].asked
        BY <2>2 DEF AnswerMessages
      <3> HIDE DEF page
      <3> QED BY <2>0, <3>1, <3>2, ReplyTypes DEF Count
    <2>3. CASE \E page \in {{}} \cup {{s} : s \in Sms} : AnswerSend(k, page)
      BY <2>0, <2>3, ReplyTypes DEF AnswerSend, Count
    <2>4. CASE \E permitted \in BOOLEAN : AnswerRead(k, permitted)
      BY <2>0, <2>4, ReplyTypes DEF AnswerRead, Count
    <2>5. CASE AnswerError(k)
      BY <2>0, <2>5, ReplyTypes DEF AnswerError, Count
    <2>6. CASE LoseRequest(k)
      BY <2>0, <2>6, CallKept DEF LoseRequest, TypeInv, NetOK
    <2> QED BY <2>1, <2>2, <2>3, <2>4, <2>5, <2>6 DEF Answer
  <1> QED BY <1>1, <1>2, <1>3 DEF TypeInv, LinkOK, CacheOK, SeenOK, SavedOK, link, cache, db

\* A result in the channel keeps a call's type.
LEMMA AnsweredKept ==
    ASSUME CallOK, NEW k \in Calls, NEW res \in Result, gen' = gen,
           call' = [call EXCEPT ![k] = Answered(k, res)] \/ call' = call
    PROVE  CallOK'
  <1>1. CASE call' = call
    BY <1>1 DEF CallOK
  <1>2. CASE call' = [call EXCEPT ![k] = Answered(k, res)]
    <2>1. call[k] \in CallType
      BY DEF CallOK
    <2>2. Answered(k, res) \in CallType
      BY <2>1 DEF Answered, CallType
    <2>3. Answered(k, res) = call[k] \/ Answered(k, res) = [call[k] EXCEPT !.ch = res]
      BY DEF Answered
    <2>4. res # None
      BY ConstantsAssumption DEF Result, Sms
    <2>5. LET c == Answered(k, res)
          IN  /\ c.pc = call[k].pc /\ c.kind = call[k].kind /\ c.gen = call[k].gen
              /\ c.waiter = call[k].waiter /\ c.asked = call[k].asked
              /\ call[k].ch # None => c.ch # None
      BY <2>1, <2>3, <2>4 DEF CallType
    <2> HIDE DEF Answered
    <2> QED BY <1>2, <2>2, <2>5 DEF CallOK
  <1> QED BY <1>1, <1>2

\* What the Mac does with the messages of the phone.
LEMMA IngestTypeInv ==
    \A m \in net, again \in BOOLEAN : TypeInv /\ Ingest(m, again) => TypeInv'
  <1> SUFFICES ASSUME NEW m \in net, NEW again \in BOOLEAN, TypeInv, Ingest(m, again)
               PROVE  TypeInv'
    OBVIOUS
  <1>1. /\ net' \subseteq net
        /\ UNCHANGED <<phone, stale, link, gen, db>>
    BY DEF Ingest, ThreadsResp, MessagesResp, SendResp, Push, Received, cache
  <1>2. PhoneOK' /\ NetOK' /\ LinkOK'
    BY <1>1 DEF TypeInv, PhoneOK, NetOK, LinkOK, phone, link
  <1>m. /\ m.type \in Types /\ m.page \in SUBSET Sms /\ m.ok \in BOOLEAN
        /\ m.count \in Count /\ (m.type \in Asking => m.req \in Calls)
    BY DEF TypeInv, NetOK, MsgType
  <1>w. \A save \in SaveType : Spawn(save) => saves' \subseteq SaveType
    BY DEF Spawn, TypeInv, SavedOK
  <1>3. CASE ThreadsResp(m, again)
    <2>1. CallOK'
      <3>1. [ok |-> m.ok, page |-> {}] \in Result /\ m.req \in Calls
        BY <1>3, <1>m DEF ThreadsResp, Result, Asking
      <3>2. \/ call' = call
            \/ call' = [call EXCEPT ![m.req] = Answered(m.req, [ok |-> m.ok, page |-> {}])]
        BY <1>3 DEF ThreadsResp
      <3> QED BY <1>1, <3>1, <3>2, AnsweredKept DEF TypeInv
    <2>2. row' \in Count
      BY <1>3, <1>m DEF ThreadsResp, TypeInv, CacheOK
    <2>3. saves' \subseteq SaveType
      <3>1. Save({}, row', FALSE) \in SaveType
        BY <2>2 DEF Save, SaveType
      <3> QED BY <1>3, <1>w, <3>1 DEF ThreadsResp, TypeInv, SavedOK
    <2> QED BY <1>1, <1>2, <1>3, <2>1, <2>2, <2>3
            DEF ThreadsResp, TypeInv, CacheOK, SeenOK, SavedOK, db
  <1>4. CASE MessagesResp(m, again)
    <2> DEFINE page == {Stored(s) : s \in m.page}
    <2>0. page \in SUBSET Rows
      BY <1>m, RowsOfSms
    <2>1. CallOK'
      <3>1. [ok |-> m.ok, page |-> {}] \in Result /\ m.req \in Calls
        BY <1>4, <1>m DEF MessagesResp, Result, Asking
      <3>2. \/ call' = call
            \/ call' = [call EXCEPT ![m.req] = Answered(m.req, [ok |-> m.ok, page |-> {}])]
        BY <1>4 DEF MessagesResp
      <3> QED BY <1>1, <3>1, <3>2, AnsweredKept DEF TypeInv
    <2>2. rows' \in [Rows -> Nat] /\ map' \in {map, "present"}
          /\ (map' # "present" => rows' = rows)
      <3>1. CASE Wanted(m) /\ Current(m)
        <4>1. /\ map' = "present"
              /\ \/ rows' = [r \in Rows |-> IF r \in page THEN 1 ELSE 0]
                 \/ rows' = mergeSMSMessages(page)
          BY <1>4, <3>1 DEF MessagesResp
        <4> QED BY <4>1 DEF mergeSMSMessages, TypeInv, CacheOK
      <3>2. CASE ~(Wanted(m) /\ Current(m))
        BY <1>4, <3>2 DEF MessagesResp, TypeInv, CacheOK
      <3> QED BY <3>1, <3>2
    <2>3. saves' \subseteq SaveType
      <3>1. Save(page, None, FALSE) \in SaveType
        BY <2>0 DEF Save, SaveType, Count
      <3> QED BY <1>4, <1>w, <3>1 DEF MessagesResp, TypeInv, SavedOK
    <2> QED BY <1>1, <1>2, <1>4, <2>1, <2>2, <2>3
            DEF MessagesResp, TypeInv, CacheOK, SeenOK, SavedOK, db
  <1>5. CASE SendResp(m, again)
    <2>1. CallOK'
      <3>1. [ok |-> m.ok, page |-> m.page] \in Result /\ m.req \in Calls
        BY <1>5, <1>m DEF SendResp, Result, Asking
      <3>2. \/ call' = call
            \/ call' = [call EXCEPT ![m.req] = Answered(m.req, [ok |-> m.ok, page |-> m.page])]
        BY <1>5 DEF SendResp
      <3> QED BY <1>1, <3>1, <3>2, AnsweredKept DEF TypeInv
    <2> QED BY <1>1, <1>2, <1>5, <2>1
            DEF SendResp, TypeInv, CacheOK, SeenOK, SavedOK, cache, db
  <1>6. CASE Push(m, again)
    <2>1. PICK s \in m.page : IF Known(s) THEN UNCHANGED <<seen, rows, row, saves>>
                                           ELSE PushApply(s)
      BY <1>6 DEF Push
    <2>2. s \in Sms
      BY <1>m
    <2>3. UNCHANGED <<map, brought, call>>
      BY <1>6 DEF Push
    <2>4. CASE UNCHANGED <<seen, rows, row, saves>>
      BY <1>1, <1>2, <2>3, <2>4 DEF TypeInv, CacheOK, SeenOK, SavedOK, CallOK, db
    <2>5. CASE PushApply(s)
      <3>1. seen' \in Seq(Sms) /\ Len(seen') <= DedupCap
        BY <2>2, <2>5, ConstantsAssumption DEF PushApply, Mark, TypeInv, SeenOK
      <3>2. rows' \in [Rows -> Nat] /\ (map # "present" => rows' = rows)
        BY <2>2, <2>5, RowsOfSms DEF PushApply, TypeInv, CacheOK
      <3>3. row' \in Nat
        BY <2>5 DEF PushApply, TypeInv, CacheOK, Count
      <3>4. saves' \subseteq SaveType
        <4>1. Save({Pushed(s)}, row', FALSE) \in SaveType
          BY <2>2, <3>3, RowsOfSms DEF Save, SaveType, Count
        <4> QED BY <1>w, <2>5, <4>1 DEF PushApply
      <3> QED BY <1>1, <1>2, <2>3, <3>1, <3>2, <3>3, <3>4
              DEF TypeInv, CacheOK, SeenOK, SavedOK, CallOK, Count, db
    <2> QED BY <2>1, <2>4, <2>5
  <1> QED BY <1>3, <1>4, <1>5, <1>6 DEF Ingest

\* Losing a message and hearing of a change.
LEMMA NoticeTypeInv ==
    TypeInv /\ ((\E m \in net : Lose(m)) \/ (\E again \in BOOLEAN : SMSChanged(again)))
       => TypeInv'
  <1> SUFFICES ASSUME TypeInv,
                      (\E m \in net : Lose(m)) \/ (\E again \in BOOLEAN : SMSChanged(again))
               PROVE  TypeInv'
    OBVIOUS
  <1>1. net' \subseteq net /\ UNCHANGED <<phone, link, seen, db, saves, call>>
    BY DEF Lose, SMSChanged, Received
  <1>2. stale' \in BOOLEAN
    BY DEF Lose, SMSChanged, TypeInv, NetOK
  <1>3. CacheOK' /\ (gen' = gen \/ gen' = gen + 1)
    BY ConstantsAssumption DEF Lose, SMSChanged, InvalidateCaches, TypeInv, CacheOK, cache,
                               Empty, Count
  <1>4. CallOK'
    <2>1. \A k \in Calls : call[k].gen \in Nat
      BY DEF TypeInv, CallOK, CallType
    <2>2. gen \in Nat
      BY ConstantsAssumption DEF TypeInv, CacheOK
    <2> QED BY <1>1, <1>3, <2>1, <2>2 DEF TypeInv, CallOK
  <1> QED BY <1>1, <1>2, <1>3, <1>4 DEF TypeInv, PhoneOK, NetOK, LinkOK, SeenOK, SavedOK,
                                        phone, link, db


\* The database fills empty caches, and its goroutines write what they hold.
LEMMA DatabaseTypeInv == TypeInv /\ Database => TypeInv'
  <1> SUFFICES ASSUME TypeInv, Database PROVE TypeInv'
    OBVIOUS
  <1>1. UNCHANGED <<phone, net, stale, link, gen, seen, call>>
    BY DEF Database, LoadAllThreads, LoadMessagesForThread, OpenOther, SaveMessages,
           CopyThreads, SaveThreads, cache
  <1>2. PhoneOK' /\ NetOK' /\ LinkOK' /\ SeenOK' /\ CallOK'
    BY <1>1 DEF TypeInv, PhoneOK, NetOK, LinkOK, SeenOK, CallOK, phone, link
  <1>3. CASE LoadAllThreads \/ LoadMessagesForThread \/ OpenOther
    <2>1. brought' \subseteq Rows
      BY <1>3 DEF LoadAllThreads, LoadMessagesForThread, OpenOther, Newest, TypeInv, CacheOK,
         SavedOK
    <2> QED BY <1>2, <1>3, <2>1 DEF LoadAllThreads, LoadMessagesForThread, OpenOther, TypeInv,
            CacheOK, SavedOK, db
  <1>4. ASSUME NEW w \in saves, SaveMessages(w) \/ CopyThreads(w) \/ SaveThreads(w)
        PROVE  TypeInv'
    <2>1. CacheOK'
      BY <1>4 DEF SaveMessages, CopyThreads, SaveThreads, TypeInv, CacheOK, cache
    <2>2. w \in SaveType
      BY DEF TypeInv, SavedOK
    <2>3. [w EXCEPT !.rows = {}] \in SaveType /\ Save({}, row, FALSE) \in SaveType
      BY <2>2 DEF SaveType, Save, TypeInv, CacheOK
    <2>4. SavedOK'
      BY <1>4, <2>2, <2>3 DEF SaveMessages, CopyThreads, SaveThreads, Remaining, TypeInv,
                              SavedOK, SaveType, db
    <2> QED BY <1>2, <2>1, <2>4 DEF TypeInv
  <1> QED BY <1>3, <1>4 DEF Database

\* The sockets.  A call that is failed has its error.
LEMMA LinkTypeInv == TypeInv /\ Link => TypeInv'
  <1> SUFFICES ASSUME TypeInv, Link PROVE TypeInv'
    OBVIOUS
  <1>c. MaxOwed \in Nat /\ MaxGen \in Nat
    BY ConstantsAssumption
  <1>1. UNCHANGED <<phone, net, seen, db, saves>>
    BY DEF Link, Connect, Resync, Disconnect, failPendingSMSRequests
  <1>2. PhoneOK' /\ SeenOK' /\ SavedOK'
    BY <1>1 DEF TypeInv, PhoneOK, SeenOK, SavedOK, phone, db
  <1>3. NetOK'
    BY <1>1 DEF Link, Connect, Resync, Disconnect, failPendingSMSRequests, TypeInv, NetOK
  <1>4. owed' \in 0..MaxOwed
    BY <1>c DEF Link, Connect, Resync, Disconnect, failPendingSMSRequests, TypeInv, LinkOK
  <1>5. /\ ws' \in BOOLEAN /\ fresh' \in BOOLEAN
        /\ fg' \in {"no", "clear", "caches", "done"}
    BY DEF Link, Connect, Resync, Disconnect, failPendingSMSRequests, TypeInv, LinkOK
  <1>6. CacheOK' /\ (gen' = gen \/ gen' = gen + 1)
    BY <1>c DEF Link, Connect, Resync, Disconnect, failPendingSMSRequests, InvalidateCaches,
                TypeInv, CacheOK, cache, Empty, Count
  <1>7. CallOK'
    <2>1. CASE call' = call
      <3>1. \A k \in Calls : call[k].gen \in Nat
        BY DEF TypeInv, CallOK, CallType
      <3>2. gen \in Nat
        BY <1>c DEF TypeInv, CacheOK
      <3> QED BY <1>6, <2>1, <3>1, <3>2 DEF TypeInv, CallOK
    <2>2. CASE failPendingSMSRequests
      <3> DEFINE Failed(k) == [Answered(k, Error) EXCEPT !.waiter = FALSE]
      <3>1. Error \in Result /\ Error # None
        <4>1. Error \in Result
          BY DEF Error, Result
        <4> QED BY <4>1, ConstantsAssumption DEF Result, Sms
      <3>2. ASSUME NEW k \in Calls
            PROVE  /\ Failed(k) \in CallType /\ ~Failed(k).waiter /\ Failed(k).ch # None
                   /\ Failed(k).kind = call[k].kind /\ Failed(k).asked = call[k].asked
                   /\ Failed(k).pc = call[k].pc
        <4>1. call[k] \in CallType
          BY DEF TypeInv, CallOK
        <4>2. Answered(k, Error) \in {call[k], [call[k] EXCEPT !.ch = Error]}
          BY DEF Answered
        <4>3. /\ Answered(k, Error) \in CallType /\ Answered(k, Error).ch # None
              /\ Answered(k, Error).kind = call[k].kind
              /\ Answered(k, Error).asked = call[k].asked
              /\ Answered(k, Error).pc = call[k].pc
          BY <3>1, <4>1 DEF Answered, CallType
        <4> HIDE DEF Answered
        <4> QED BY <4>3 DEF CallType
      <3>3. \A k \in Calls : call'[k] = IF call[k].waiter THEN Failed(k) ELSE call[k]
        BY <2>2 DEF failPendingSMSRequests
      <3>4. gen' = gen /\ call' = [k \in Calls |-> call'[k]]
        BY <2>2 DEF failPendingSMSRequests, cache
      <3> HIDE DEF Failed
      <3> QED BY <3>2, <3>3, <3>4 DEF TypeInv, CallOK
    <2> QED BY <2>1, <2>2 DEF Link, Connect, Resync, Disconnect
  <1> QED BY <1>2, <1>3, <1>4, <1>5, <1>6, <1>7 DEF TypeInv, LinkOK

\* Forgetting the phone empties the database and the caches.
LEMMA ForgetTypeInv == TypeInv /\ Forget => TypeInv'
  <1> SUFFICES ASSUME TypeInv, Forget PROVE TypeInv'
    OBVIOUS
  <1>c. MaxOwed \in Nat
    BY ConstantsAssumption
  <1>1. UNCHANGED <<phone, net, stale, fresh, gen, seen, saves, call>>
    BY DEF Forget, ForgetLastDevice, ClearAll, ForgetCaches, cache
  <1>2. PhoneOK' /\ NetOK' /\ SeenOK' /\ CallOK'
    BY <1>1 DEF TypeInv, PhoneOK, NetOK, SeenOK, CallOK, phone
  <1>3. CacheOK'
    BY DEF Forget, ForgetLastDevice, ClearAll, ForgetCaches, TypeInv, CacheOK, cache, Empty,
           Count
  <1>4. SavedOK'
    BY <1>1 DEF Forget, ForgetLastDevice, ClearAll, ForgetCaches, TypeInv, SavedOK, db, Count
  <1>5. owed' \in 0..MaxOwed
    BY <1>c DEF Forget, ForgetLastDevice, ClearAll, ForgetCaches, TypeInv, LinkOK
  <1>6. ws' \in BOOLEAN /\ fg' \in {"no", "clear", "caches", "done"}
    BY DEF Forget, ForgetLastDevice, ClearAll, ForgetCaches, TypeInv, LinkOK
  <1> QED BY <1>1, <1>2, <1>3, <1>4, <1>5, <1>6 DEF TypeInv, LinkOK

\* The calls of the front end.
LEMMA CallTypeInv == \A k \in Calls : TypeInv /\ Call(k) => TypeInv'
  <1> SUFFICES ASSUME NEW k \in Calls, TypeInv, Call(k) PROVE TypeInv'
    OBVIOUS
  <1>1. UNCHANGED <<phone, net, stale, link, gen, seen, dbRows>>
    BY DEF Call, ListSMSThreads, ListSMSMessages, SendSMS, MarkThreadRead,
           MarkThreadReadInDB, Offline, Register, SendRequest, Wake, Timeout, Leave, cache, db
  <1>2. PhoneOK' /\ NetOK' /\ LinkOK' /\ SeenOK'
    BY <1>1 DEF TypeInv, PhoneOK, NetOK, LinkOK, SeenOK, phone, link
  <1>c. call[k] \in CallType /\ call \in [Calls -> CallType]
    BY DEF TypeInv, CallOK
  <1>3. CallOK'
    <2>1. ASSUME NEW c \in CallType, call' = [call EXCEPT ![k] = c],
                 c.waiter => c.pc \in {"registered", "waiting", "leaving"} /\ c.gen <= gen,
                 c.pc \in {"registered", "waiting"} => c.waiter \/ c.ch # None,
                 c.pc \in {"marking", "miss", "registered", "waiting", "leaving"} =>
                    c.kind \in Asking,
                 c.asked => c.kind \in Asking
          PROVE  CallOK'
      BY <1>1, <2>1 DEF TypeInv, CallOK
    <2>2. ASSUME NEW pc \in {"miss", "marking"}, NEW kind \in Asking, NEW cursor \in Nat,
                 Start(k, pc, kind, cursor)
          PROVE  CallOK'
      <3> DEFINE c == [IdleCall EXCEPT !.pc = pc, !.kind = kind, !.cursor = cursor]
      <3>1. c \in CallType /\ c.pc = pc /\ c.kind = kind /\ ~c.waiter /\ ~c.asked
        BY <2>2 DEF Start, IdleCall, CallType
      <3>2. call' = [call EXCEPT ![k] = c]
        BY <2>2 DEF Start
      <3> HIDE DEF c
      <3> QED BY <2>1, <3>1, <3>2
    <2>3. CASE \E cursor \in {0, 1}, force \in BOOLEAN : ListSMSThreads(k, cursor, force)
      BY <2>2, <2>3 DEF ListSMSThreads, Asking
    <2>4. CASE \E cursor \in {0} \cup {Stored(s) : s \in Sms}, force \in BOOLEAN :
                  ListSMSMessages(k, cursor, force)
      <3>1. \A s \in Sms : Stored(s) \in Nat
        BY ConstantsAssumption DEF Stored, Sms
      <3> QED BY <2>2, <2>4, <3>1 DEF ListSMSMessages, Asking
    <2>5. CASE SendSMS(k)
      BY <2>2, <2>5 DEF SendSMS, Asking
    <2>6. CASE MarkThreadRead(k)
      BY <2>2, <2>6 DEF MarkThreadRead, Asking
    <2>7. CASE MarkThreadReadInDB(k)
      BY <1>1, <1>c, <2>7 DEF MarkThreadReadInDB, TypeInv, CallOK, CallType
    <2>8. CASE Offline(k)
      <3>1. IdleCall \in CallType
        BY DEF IdleCall, CallType
      <3> QED BY <2>1, <2>8, <3>1 DEF Offline, IdleCall
    <2>9. CASE Register(k)
      <3>1. gen \in Nat
        BY ConstantsAssumption DEF TypeInv, CacheOK
      <3> QED BY <1>1, <1>c, <2>9, <3>1 DEF Register, TypeInv, CallOK, CallType
    <2>10. CASE SendRequest(k)
      <3>1. ws \in BOOLEAN
        BY DEF TypeInv, LinkOK
      <3> DEFINE c == [call[k] EXCEPT !.pc = IF ws THEN "waiting" ELSE "leaving", !.asked = ws]
      <3>2. /\ c \in CallType /\ c.pc \in {"waiting", "leaving"} /\ c.kind = call[k].kind
            /\ c.waiter = call[k].waiter /\ c.ch = call[k].ch /\ c.gen = call[k].gen
        BY <1>c, <3>1 DEF CallType
      <3>3. call[k].pc = "registered" /\ call' = [call EXCEPT ![k] = c]
        BY <1>c, <2>10 DEF SendRequest
      <3> HIDE DEF c
      <3> QED BY <2>1, <3>2, <3>3 DEF TypeInv, CallOK
    <2>11. CASE Wake(k)
      BY <1>1, <1>c, <2>11 DEF Wake, TypeInv, CallOK, CallType
    <2>12. CASE Timeout(k)
      BY <1>1, <1>c, <2>12 DEF Timeout, TypeInv, CallOK, CallType
    <2>13. CASE Leave(k)
      <3>1. IdleCall \in CallType /\ IdleCall.pc = "idle" /\ ~IdleCall.waiter
            /\ ~IdleCall.asked
        BY DEF IdleCall, CallType
      <3> DEFINE c == [IdleCall EXCEPT !.kind = call[k].kind, !.cursor = call[k].cursor,
                                       !.asked = TRUE]
      <3>2. c \in CallType /\ c.pc = "idle" /\ ~c.waiter /\ c.kind = call[k].kind
        BY <1>c DEF IdleCall, CallType
      <3>3. /\ call[k].pc = "leaving"
            /\ call' = [call EXCEPT ![k] = c] \/ call' = [call EXCEPT ![k] = IdleCall]
        BY <2>13 DEF Leave
      <3>4. call[k].kind \in Asking
        BY <3>3 DEF TypeInv, CallOK
      <3> HIDE DEF c
      <3> QED BY <2>1, <3>1, <3>2, <3>3, <3>4
    <2> QED BY <2>3, <2>4, <2>5, <2>6, <2>7, <2>8, <2>9, <2>10, <2>11, <2>12, <2>13 DEF Call
  <1>4. CASE Wake(k)
    <2>1. row' = row /\ db' = db
      BY <1>4 DEF Wake
    <2>2. CASE UNCHANGED <<map, rows, brought, saves>>
      BY <1>1, <1>2, <1>3, <2>1, <2>2 DEF TypeInv, CacheOK, SavedOK, db
    <2>3. ASSUME NEW s \in call[k].ch.page, call[k].ch # None,
                 IF map = "nil" THEN UNCHANGED <<map, rows, brought>>
                 ELSE /\ map' = "present"
                      /\ rows' = [rows EXCEPT ![Stored(s)] = @ + 1]
                      /\ brought' = brought \cup {Stored(s)},
                 Spawn(Save({Stored(s)}, None, TRUE))
          PROVE  TypeInv'
      <3>1. s \in Sms
        BY <1>c, <2>3 DEF CallType, Result
      <3>2. Stored(s) \in Rows
        BY <3>1, RowsOfSms
      <3>3. CacheOK'
        BY <1>1, <2>1, <2>3, <3>2 DEF TypeInv, CacheOK
      <3>4. Save({Stored(s)}, None, TRUE) \in SaveType
        BY <3>2 DEF Save, SaveType, Count
      <3>5. SavedOK'
        BY <2>1, <2>3, <3>4 DEF Spawn, TypeInv, SavedOK, db
      <3> QED BY <1>2, <1>3, <3>3, <3>5 DEF TypeInv
    <2> QED BY <1>4, <2>2, <2>3 DEF Wake
  <1>5. CASE ~Wake(k)
    <2>1. UNCHANGED <<map, rows, brought, saves>> /\ row' \in Count /\ dbRow' \in Count
      BY <1>5 DEF Call, ListSMSThreads, ListSMSMessages, SendSMS, MarkThreadRead,
                  MarkThreadReadInDB, Offline, Register, SendRequest, Timeout, Leave, cache,
                  db, TypeInv, CacheOK, SavedOK, Count
    <2> QED BY <1>1, <1>2, <1>3, <2>1 DEF TypeInv, CacheOK, SavedOK
  <1> QED BY <1>4, <1>5

\* Every step keeps the types.
LEMMA NextTypeInv == TypeInv /\ [Next]_vars => TypeInv'
  <1> SUFFICES ASSUME TypeInv, UNCHANGED vars PROVE TypeInv'
    BY PhoneTypeInv, AnswerTypeInv, CallTypeInv, IngestTypeInv, NoticeTypeInv,
       DatabaseTypeInv, LinkTypeInv, ForgetTypeInv DEF Next
  <1> QED BY DEF vars, TypeInv, PhoneOK, NetOK, LinkOK, CacheOK, SeenOK, SavedOK, CallOK,
                 phone, link, cache, db

\* Every variable has its type, rows are cached only for a conversation the
\* map has, and a call that waits has its waiter or its result.
THEOREM TypeCorrect == Spec => []TypeOK
  BY InitTypeInv, NextTypeInv, TypeInvTypeOK, PTL DEF Spec

(***************************************************************************)
(* Nobody waits for a phone that is gone.                                  *)
(***************************************************************************)

\* At first no call waits.
LEMMA InitNoForgottenWaiter == Init => NoForgottenWaiter
  BY DEF Init, NoForgottenWaiter, IdleCall

\* No call begins to wait unheard: it waited before, or there is a socket.
Hushed == \A k \in Calls : call'[k].pc = "waiting" /\ call'[k].ch = None =>
                              ws \/ (call[k].pc = "waiting" /\ call[k].ch = None)

\* Messages are sent, answered and handled without a call losing its result.
LEMMA AnswersHush ==
    ASSUME TypeInv, NEW k \in Calls, NEW res,
           call' \in {call, [call EXCEPT ![k] = Unasked(k)], [call EXCEPT ![k] = Answered(k, res)]}
    PROVE  Hushed
  <1>1. call \in [Calls -> CallType] /\ call[k] \in CallType
    BY DEF TypeInv, CallOK
  <1> QED BY <1>1 DEF Hushed, Unasked, Answered, IdleCall, CallType

\* A call begins to wait on a registered socket.
LEMMA CallsHush == \A k \in Calls : TypeInv /\ Call(k) => Hushed
  <1> SUFFICES ASSUME NEW k \in Calls, TypeInv, Call(k) PROVE Hushed
    OBVIOUS
  <1>1. call \in [Calls -> CallType] /\ call[k] \in CallType
    BY DEF TypeInv, CallOK
  <1>2. CASE SendRequest(k)
    BY <1>1, <1>2 DEF SendRequest, Hushed, CallType
  <1>a. ASSUME call'[k].pc # "waiting", \A j \in Calls \ {k} : call'[j] = call[j]
        PROVE  Hushed
    BY <1>a DEF Hushed
  <1>3. CASE Wake(k) \/ Timeout(k) \/ Register(k) \/ MarkThreadReadInDB(k)
    <2>1. call'[k].pc # "waiting"
      <3>1. CASE Wake(k)
        BY <1>1, <3>1 DEF Wake, CallType
      <3>2. CASE Timeout(k)
        BY <1>1, <3>2 DEF Timeout, CallType
      <3>3. CASE Register(k)
        BY <1>1, <3>3 DEF Register, CallType
      <3>4. CASE MarkThreadReadInDB(k)
        BY <1>1, <3>4 DEF MarkThreadReadInDB, CallType
      <3> QED BY <1>3, <3>1, <3>2, <3>3, <3>4
    <2>2. \A j \in Calls \ {k} : call'[j] = call[j]
      BY <1>1, <1>3 DEF Wake, Timeout, Register, MarkThreadReadInDB
    <2> QED BY <1>a, <2>1, <2>2
  <1>4. CASE Leave(k) \/ Offline(k)
    <2>1. call'[k].pc # "waiting"
      <3> DEFINE c == [IdleCall EXCEPT !.kind = call[k].kind, !.cursor = call[k].cursor,
                                       !.asked = TRUE]
      <3>1. call'[k] = IdleCall \/ call'[k] = c
        BY <1>1, <1>4 DEF Leave, Offline
      <3>2. IdleCall.pc = "idle" /\ c.pc = "idle"
        BY DEF IdleCall
      <3> HIDE DEF c
      <3> QED BY <3>1, <3>2
    <2>2. \A j \in Calls \ {k} : call'[j] = call[j]
      BY <1>1, <1>4 DEF Leave, Offline
    <2> QED BY <1>a, <2>1, <2>2
  <1>5. ASSUME NEW pc \in {"miss", "marking"}, NEW kind, NEW cursor,
               Start(k, pc, kind, cursor)
        PROVE  Hushed
    BY <1>1, <1>5 DEF Start, Hushed, IdleCall
  <1> QED BY <1>2, <1>3, <1>4, <1>5
          DEF Call, ListSMSThreads, ListSMSMessages, SendSMS, MarkThreadRead

\* The socket that is deregistered owes the waiting calls their failure, and
\* paying it fails them all.
LEMMA NextNoForgottenWaiter ==
    TypeInv /\ NoForgottenWaiter /\ [Next]_vars => NoForgottenWaiter'
  <1> SUFFICES ASSUME TypeInv, NoForgottenWaiter, [Next]_vars PROVE NoForgottenWaiter'
    OBVIOUS
  <1> USE DEF NoForgottenWaiter
  <1>0. owed \in Nat /\ call \in [Calls -> CallType]
    BY ConstantsAssumption DEF TypeInv, LinkOK, CallOK
  <1>h. ASSUME Hushed, UNCHANGED <<ws, owed>> PROVE NoForgottenWaiter'
    BY <1>h DEF Hushed
  <1>1. CASE Phone
    BY <1>1, <1>h DEF Phone, Arrive, PhoneDelete, Observe, link, Hushed
  <1>2. ASSUME NEW k \in Calls, Answer(k) PROVE NoForgottenWaiter'
    BY <1>2, <1>h, AnswersHush DEF Answer, AnswerThreads, AnswerMessages, AnswerSend,
       AnswerRead, AnswerError, LoseRequest, Reply, link
  <1>3. ASSUME NEW k \in Calls, Call(k) PROVE NoForgottenWaiter'
    <2>1. UNCHANGED <<ws, owed>>
      BY <1>3 DEF Call, ListSMSThreads, ListSMSMessages, SendSMS, MarkThreadRead,
         MarkThreadReadInDB, Offline, Register, SendRequest, Wake, Timeout, Leave, link
    <2> QED BY <1>3, <1>h, <2>1, CallsHush
  <1>4. ASSUME NEW m \in net, NEW again \in BOOLEAN, Ingest(m, again)
        PROVE  NoForgottenWaiter'
    <2>1. UNCHANGED <<ws, owed>>
      BY <1>4 DEF Ingest, ThreadsResp, MessagesResp, SendResp, Push, link
    <2>2. CASE Push(m, again)
      BY <1>h, <2>1, <2>2 DEF Push, Hushed
    <2>3. CASE ~Push(m, again)
      <3>1. m.req \in Calls
        BY <1>4, <2>3 DEF Ingest, ThreadsResp, MessagesResp, SendResp, TypeInv, NetOK, Asking
      <3>2. \E res : call' \in {call, [call EXCEPT ![m.req] = Answered(m.req, res)]}
        BY <1>4, <2>3 DEF Ingest, ThreadsResp, MessagesResp, SendResp
      <3> QED BY <1>h, <2>1, <3>1, <3>2, AnswersHush
    <2> QED BY <2>2, <2>3
  <1>5. ASSUME NEW m \in net, Lose(m) PROVE NoForgottenWaiter'
    BY <1>5, <1>h DEF Lose, link, Hushed
  <1>6. ASSUME NEW again \in BOOLEAN, SMSChanged(again) PROVE NoForgottenWaiter'
    BY <1>6, <1>h DEF SMSChanged, link, Hushed
  <1>7. CASE Database
    BY <1>7, <1>h DEF Database, LoadAllThreads, LoadMessagesForThread, OpenOther,
       SaveMessages, CopyThreads, SaveThreads, link, Hushed
  <1>8. CASE Connect \/ Resync \/ Disconnect
    BY <1>0, <1>8 DEF Connect, Resync, Disconnect
  <1>9. CASE failPendingSMSRequests
    <2>1. ASSUME NEW k \in Calls PROVE ~(call'[k].pc = "waiting" /\ call'[k].ch = None)
      <3>1. call[k] \in CallType
        BY <1>0
      <3>2. Error # None
        <4>1. Error \in Result
          BY DEF Error, Result
        <4> QED BY <4>1, ConstantsAssumption DEF Result, Sms
      <3>3. CASE call[k].waiter
        <4>1. call'[k] = [Answered(k, Error) EXCEPT !.waiter = FALSE]
          BY <1>9, <3>3 DEF failPendingSMSRequests
        <4>2. Answered(k, Error) \in CallType /\ Answered(k, Error).ch # None
          <5>1. Error \in Result
            BY DEF Error, Result
          <5> QED BY <3>1, <3>2, <5>1 DEF Answered, CallType
        <4> HIDE DEF Answered
        <4> QED BY <4>1, <4>2 DEF CallType
      <3>4. CASE ~call[k].waiter
        BY <1>9, <3>4 DEF failPendingSMSRequests, TypeInv, CallOK
      <3> QED BY <3>3, <3>4
    <2> QED BY <2>1
  <1>10. CASE Forget
    BY <1>0, <1>10 DEF Forget, ForgetLastDevice, ClearAll, ForgetCaches
  <1>11. CASE UNCHANGED vars
    BY <1>11, <1>h DEF vars, link, Hushed
  <1> QED BY <1>1, <1>2, <1>3, <1>4, <1>5, <1>6, <1>7, <1>8, <1>9, <1>10, <1>11 DEF Next, Link

\* No call is left to its timer when the phone is gone: while a call waits
\* without a result there is a socket to hear from, or an ended one that has
\* yet to fail it (failPendingSMSRequests), however sockets break and replace
\* one another.
THEOREM WaitersAreFailed == Spec => []NoForgottenWaiter
  BY InitTypeInv, NextTypeInv, InitNoForgottenWaiter, NextNoForgottenWaiter, PTL DEF Spec


(***************************************************************************)
(* What the pane shows is saved.                                           *)
(***************************************************************************)

\* Row r is in the database or with a goroutine that is about to write it.
Safe(r) == r \in dbRows \/ \E w \in saves : r \in w.rows

\* Until ForgetLastDevice has emptied the database, and again once it has
\* emptied the caches, every cached row is safe.
SaveInv == HasDB /\ fg # "caches" => \A r \in Rows : rows[r] > 0 => Safe(r)

\* At first no row is shown.
LEMMA InitSaveInv == Init => SaveInv
  BY DEF Init, SaveInv, Empty

\* A row comes into the cache with a save that names it, or from the database;
\* the database loses rows only when the caches are dropped first.
LEMMA NextSaveInv == TypeInv /\ SaveInv /\ [Next]_vars => SaveInv'
  <1> SUFFICES ASSUME TypeInv, SaveInv, [Next]_vars, HasDB, fg' # "caches",
                      NEW r \in Rows, rows'[r] > 0
               PROVE  Safe(r)'
    BY DEF SaveInv
  <1>1. ASSUME fg' = fg \/ fg # "caches", rows[r] > 0, dbRows \subseteq dbRows',
               \A w \in saves : w \in saves' \/ w.rows \subseteq dbRows'
        PROVE  Safe(r)'
    BY <1>1 DEF SaveInv, Safe
  <1>2. ASSUME NEW S, NEW n, NEW b, Spawn(Save(S, n, b)), r \in S PROVE Safe(r)'
    <2>1. Save(S, n, b) \in saves' /\ Save(S, n, b).rows = S
      BY <1>2 DEF Spawn, Save
    <2> QED BY <1>2, <2>1 DEF Safe
  <1>3. CASE Phone
    BY <1>1, <1>3 DEF Phone, Arrive, PhoneDelete, Observe, link, cache, db
  <1>4. ASSUME NEW k \in Calls, Answer(k) PROVE Safe(r)'
    BY <1>1, <1>4 DEF Answer, AnswerThreads, AnswerMessages, AnswerSend, AnswerRead,
       AnswerError, LoseRequest, link, cache, db
  <1>5. ASSUME NEW k \in Calls, Call(k) PROVE Safe(r)'
    <2>1. UNCHANGED <<fg, dbRows>> /\ saves \subseteq saves'
      BY <1>5 DEF Call, ListSMSThreads, ListSMSMessages, SendSMS, MarkThreadRead,
         MarkThreadReadInDB, Offline, Register, SendRequest, Wake, Timeout, Leave, link, db,
         Spawn
    <2>2. CASE rows[r] > 0
      BY <1>1, <2>1, <2>2
    <2>3. CASE ~(rows[r] > 0)
      <3>1. Wake(k) /\ rows' # rows
        BY <1>5, <2>3 DEF Call, ListSMSThreads, ListSMSMessages, SendSMS, MarkThreadRead,
           MarkThreadReadInDB, Offline, Register, SendRequest, Timeout, Leave, cache, Wake
      <3>2. PICK s \in call[k].ch.page : /\ rows' = [rows EXCEPT ![Stored(s)] = @ + 1]
                                         /\ Spawn(Save({Stored(s)}, None, TRUE))
        BY <3>1 DEF Wake
      <3>3. s \in Sms
        BY <3>1 DEF Wake, TypeInv, CallOK, CallType, Result
      <3>4. r = Stored(s)
        BY <2>3, <3>2 DEF TypeInv, CacheOK
      <3> QED BY <1>2, <3>2, <3>4
    <2> QED BY <2>2, <2>3
  <1>6. ASSUME NEW m \in net, NEW again \in BOOLEAN, Ingest(m, again) PROVE Safe(r)'
    <2>1. UNCHANGED <<fg, dbRows>> /\ saves \subseteq saves'
      BY <1>6 DEF Ingest, ThreadsResp, MessagesResp, SendResp, Push, PushApply, link, db,
         Spawn
    <2>2. CASE rows[r] > 0
      BY <1>1, <2>1, <2>2
    <2>3. CASE ~(rows[r] > 0)
      <3>1. CASE MessagesResp(m, again)
        <4> DEFINE page == {Stored(s) : s \in m.page}
        <4>1. Wanted(m) /\ Current(m)
          BY <2>3, <3>1 DEF MessagesResp
        <4>2. r \in page
          BY <2>3, <3>1, <4>1 DEF MessagesResp, mergeSMSMessages
        <4>3. Spawn(Save(page, None, FALSE))
          BY <3>1, <4>1, <4>2 DEF MessagesResp
        <4> QED BY <1>2, <4>2, <4>3
      <3>2. CASE Push(m, again)
        <4>1. PICK s \in m.page : PushApply(s)
          BY <2>3, <3>2 DEF Push
        <4>2. r = Pushed(s)
          BY <2>3, <4>1 DEF PushApply, TypeInv, CacheOK
        <4> QED BY <1>2, <4>1, <4>2 DEF PushApply
      <3>3. CASE ThreadsResp(m, again) \/ SendResp(m, again)
        BY <2>3, <3>3 DEF ThreadsResp, SendResp, cache
      <3> QED BY <1>6, <3>1, <3>2, <3>3 DEF Ingest
    <2> QED BY <2>2, <2>3
  <1>7. ASSUME NEW m \in net, Lose(m) PROVE Safe(r)'
    BY <1>1, <1>7 DEF Lose, link, cache, db
  <1>8. ASSUME NEW again \in BOOLEAN, SMSChanged(again) PROVE Safe(r)'
    BY <1>8 DEF SMSChanged, InvalidateCaches, Empty
  <1>9. CASE LoadAllThreads \/ OpenOther
    BY <1>1, <1>9 DEF LoadAllThreads, OpenOther, link, db
  <1>10. CASE LoadMessagesForThread
    BY <1>10 DEF LoadMessagesForThread, Newest, Safe, db
  <1>11. ASSUME NEW w \in saves, SaveMessages(w) \/ CopyThreads(w) \/ SaveThreads(w)
         PROVE  Safe(r)'
    <2>1. UNCHANGED <<fg, rows>> /\ dbRows \subseteq dbRows'
      BY <1>11 DEF SaveMessages, CopyThreads, SaveThreads, link, cache, db
    <2>2. \A v \in saves : v \in saves' \/ v.rows \subseteq dbRows'
      BY <1>11 DEF SaveMessages, CopyThreads, SaveThreads
    <2> QED BY <1>1, <2>1, <2>2
  <1>12. CASE Link
    <2>1. CASE Resync
      BY <2>1 DEF Resync, InvalidateCaches, Empty
    <2>2. CASE Connect \/ Disconnect \/ failPendingSMSRequests
      BY <1>1, <2>2 DEF Connect, Disconnect, failPendingSMSRequests, cache, db
    <2> QED BY <1>12, <2>1, <2>2 DEF Link
  <1>13. CASE Forget
    BY <1>1, <1>13 DEF Forget, ForgetLastDevice, ClearAll, ForgetCaches, cache, db, Empty
  <1>14. CASE UNCHANGED vars
    BY <1>1, <1>14 DEF vars, link, cache, db
  <1> QED BY <1>3, <1>4, <1>5, <1>6, <1>7, <1>8, <1>9, <1>10, <1>11, <1>12, <1>13, <1>14
          DEF Next, Database

\* A row the pane has shown is in the database or about to be, so that a
\* restart loses none, whichever order the saving goroutines run in.
THEOREM ShownIsSaved == Spec => []CacheIsSaved
  <1>1. SaveInv => CacheIsSaved
    BY DEF SaveInv, Safe, CacheIsSaved
  <1> QED BY <1>1, InitTypeInv, NextTypeInv, InitSaveInv, NextSaveInv, PTL DEF Spec


(***************************************************************************)
(* Every row once.                                                         *)
(***************************************************************************)

\* At first no row is shown.
LEMMA InitNoDuplicateRows == Init => NoDuplicateRows
  BY DEF Init, NoDuplicateRows, Empty

\* What the Mac does with a message adds no second copy of a row.
LEMMA IngestNoDuplicateRows ==
    ASSUME TypeInv, NoDuplicateRows, NEW m \in net, NEW again \in BOOLEAN, Ingest(m, again)
    PROVE  NoDuplicateRows'
  <1> USE DEF NoDuplicateRows
  <1>1. CASE MessagesResp(m, again)
    <2> DEFINE page == {Stored(s) : s \in m.page}
    <2>1. \/ rows' = rows
          \/ rows' = [r \in Rows |-> IF r \in page THEN 1 ELSE 0]
          \/ rows' = mergeSMSMessages(page)
      BY <1>1 DEF MessagesResp
    <2> HIDE DEF page
    <2> QED BY <2>1 DEF mergeSMSMessages
  <1>2. CASE Push(m, again)
    <2>1. \E s \in m.page : rows' = rows \/ rows' = [rows EXCEPT ![Pushed(s)] = 1]
      BY <1>2 DEF Push, PushApply
    <2> QED BY <2>1 DEF TypeInv, CacheOK
  <1>3. CASE ThreadsResp(m, again) \/ SendResp(m, again)
    BY <1>3 DEF ThreadsResp, SendResp, cache
  <1> QED BY <1>1, <1>2, <1>3 DEF Ingest

\* Only a send adds to a row that may be there.
LEMMA NextNoDuplicateRows ==
    ASSUME "send" \notin Kinds
    PROVE  TypeInv /\ NoDuplicateRows /\ [Next]_vars => NoDuplicateRows'
  <1> SUFFICES ASSUME TypeInv, NoDuplicateRows, [Next]_vars PROVE NoDuplicateRows'
    OBVIOUS
  <1> USE DEF NoDuplicateRows
  <1>1. CASE rows' = rows \/ rows' = Empty
    BY <1>1 DEF Empty
  <1>2. ASSUME NEW k \in Calls, Call(k) PROVE rows' = rows
    <2>1. call[k].kind # "send"
      BY DEF TypeInv, CallOK, CallType
    <2> QED BY <1>2, <2>1 DEF Call, ListSMSThreads, ListSMSMessages, SendSMS, MarkThreadRead,
            MarkThreadReadInDB, Offline, Register, SendRequest, Wake, Timeout, Leave, cache
  <1>3. CASE LoadMessagesForThread
    <2>1. rows' = [r \in Rows |-> IF r \in Newest(dbRows, Limit) THEN 1 ELSE 0]
      BY <1>3 DEF LoadMessagesForThread
    <2> QED BY <2>1
  <1>4. CASE Phone
    BY <1>1, <1>4 DEF Phone, Arrive, PhoneDelete, Observe, cache
  <1>5. ASSUME NEW k \in Calls, Answer(k) PROVE NoDuplicateRows'
    BY <1>1, <1>5 DEF Answer, AnswerThreads, AnswerMessages, AnswerSend, AnswerRead,
       AnswerError, LoseRequest, cache
  <1>6. ASSUME NEW m \in net, Lose(m) PROVE NoDuplicateRows'
    BY <1>1, <1>6 DEF Lose, cache
  <1>7. CASE Database /\ ~LoadMessagesForThread
    BY <1>1, <1>7 DEF Database, LoadAllThreads, OpenOther, SaveMessages, CopyThreads,
       SaveThreads, cache
  <1>8. CASE (\E again \in BOOLEAN : SMSChanged(again)) \/ Link \/ Forget
    BY <1>1, <1>8 DEF SMSChanged, InvalidateCaches, Link, Connect, Resync, Disconnect,
       failPendingSMSRequests, Forget, ForgetLastDevice, ClearAll, ForgetCaches, cache
  <1>9. CASE UNCHANGED vars
    BY <1>1, <1>9 DEF vars, cache
  <1> QED BY <1>1, <1>2, <1>3, <1>4, <1>5, <1>6, <1>7, <1>8, <1>9, IngestNoDuplicateRows
          DEF Next

\* However pages overlap, pushes are repeated and rows come back from the
\* database, the transcript has every row once, as long as nothing is sent
\* from the Mac (mergeSMSMessages, ingestSMSPush).
THEOREM RowsOnce == ASSUME "send" \notin Kinds PROVE Spec => []NoDuplicateRows
  BY InitTypeInv, NextTypeInv, InitNoDuplicateRows, NextNoDuplicateRows, PTL DEF Spec

(***************************************************************************)
(* Nothing comes back from the dead.                                       *)
(***************************************************************************)

\* Message m is an answer the Mac would put into the transcript.
Usable(m) == m.type = "messages" /\ Wanted(m) /\ Current(m)

\* A page of the phone put SMS s into the transcript.
Paged(s) == rows[Stored(s)] > 0 /\ Stored(s) \notin brought

\* A call that has not asked yet has no answer under way.
UnaskedInv ==
    \A k \in Calls : call[k].pc \in {"marking", "miss", "registered"} =>
        ~call[k].asked /\ \A m \in net : m.req # k

\* What a usable answer holds is still there, or its deletion is about to be
\* noticed.
PageInv == \A m \in net : Usable(m) => m.page \subseteq store \/ Notice

FollowInv == UnaskedInv /\ PageInv /\ CacheFollowsPhone

\* At first no row is shown and no page is under way.
LEMMA InitFollowInv == Init => FollowInv
  <1> SUFFICES ASSUME Init PROVE FollowInv
    OBVIOUS
  <1>1. PageInv
    BY DEF Init, PageInv
  <1>2. UnaskedInv
    BY DEF Init, UnaskedInv, IdleCall
  <1>3. CacheFollowsPhone
    BY RowsOfSms DEF Init, CacheFollowsPhone, Empty
  <1> QED BY <1>1, <1>2, <1>3 DEF FollowInv

\* A result in the channel changes nothing else of a call.
LEMMA AnsweredFields ==
    ASSUME TypeInv, NEW k \in Calls, NEW res
    PROVE  LET c == Answered(k, res)
           IN  /\ c.pc = call[k].pc /\ c.kind = call[k].kind /\ c.gen = call[k].gen
               /\ c.waiter = call[k].waiter /\ c.asked = call[k].asked
               /\ c.cursor = call[k].cursor
               /\ [c EXCEPT !.waiter = FALSE].pc = call[k].pc
               /\ [c EXCEPT !.waiter = FALSE].asked = call[k].asked
               /\ ~[c EXCEPT !.waiter = FALSE].waiter
  <1>1. call[k] \in CallType
    BY DEF TypeInv, CallOK
  <1> QED BY <1>1 DEF Answered, CallType

\* How an action of the phone or of the front end moves the calls.
LEMMA NextUnaskedInv == TypeInv /\ UnaskedInv /\ [Next]_vars => UnaskedInv'
  <1> SUFFICES ASSUME TypeInv, UnaskedInv, [Next]_vars PROVE UnaskedInv'
    OBVIOUS
  <1>0. call \in [Calls -> CallType] /\ None \notin Calls
    BY ConstantsAssumption DEF TypeInv, CallOK
  <1>a. ASSUME \A k \in Calls : call'[k].pc = call[k].pc /\ call'[k].asked = call[k].asked,
               \A m \in net' : m \in net \/ m.req = None
        PROVE  UnaskedInv'
    BY <1>0, <1>a DEF UnaskedInv
  <1>1. CASE Phone
    <2>1. call' = call
      BY <1>1 DEF Phone, Arrive, PhoneDelete, Observe
    <2>2. \A m \in net' : m \in net \/ m.req = None
      BY <1>1 DEF Phone, Arrive, PhoneDelete, Observe, Changed, Message
    <2> QED BY <1>a, <2>1, <2>2
  <1>2. ASSUME NEW k \in Calls, Answer(k) PROVE UnaskedInv'
    <2>1. call[k].asked /\ call' = [call EXCEPT ![k] = Unasked(k)]
      BY <1>2 DEF Answer, AnswerThreads, AnswerMessages, AnswerSend, AnswerRead, AnswerError,
         LoseRequest, Reply
    <2>2. \A m \in net' : m \in net \/ m.req = k
      <3>1. net' = net \/ \E ok, page, n : net' = net \cup {Message(call[k].kind, k, ok, page, n)}
        BY <1>2, ZenonT(60) DEF Answer, AnswerThreads, AnswerMessages, AnswerSend, AnswerRead,
           AnswerError, LoseRequest, Reply
      <3> QED BY <3>1 DEF Message
    <2>3. call[k].pc \notin {"marking", "miss", "registered"}
      BY <2>1 DEF UnaskedInv
    <2>4. Unasked(k).pc = call[k].pc
      BY <1>0 DEF Unasked, IdleCall, CallType
    <2>5. call'[k].pc = call[k].pc /\ \A j \in Calls \ {k} : call'[j] = call[j]
      BY <1>0, <2>1, <2>4
    <2> QED BY <2>2, <2>3, <2>5 DEF UnaskedInv
  <1>3. ASSUME NEW k \in Calls, Call(k) PROVE UnaskedInv'
    <2>0. call[k] \in CallType
      BY <1>0
    <2>1. net' = net /\ \A j \in Calls \ {k} : call'[j] = call[j]
      BY <1>0, <1>3 DEF Call, ListSMSThreads, ListSMSMessages, SendSMS, MarkThreadRead,
         MarkThreadReadInDB, Offline, Register, SendRequest, Wake, Timeout, Leave, Start
    <2>2. SUFFICES ASSUME call'[k].pc \in {"marking", "miss", "registered"}
                   PROVE  ~call'[k].asked /\ \A m \in net : m.req # k
      BY <2>1 DEF UnaskedInv
    <2>3. ASSUME NEW pc \in {"miss", "marking"}, NEW kind, NEW cursor,
                 Start(k, pc, kind, cursor)
          PROVE  ~call'[k].asked /\ \A m \in net : m.req # k
      BY <1>0, <2>3 DEF Start, IdleCall
    <2>4. CASE MarkThreadReadInDB(k)
      <3>1. call'[k] = [call[k] EXCEPT !.pc = "miss"] /\ call[k].pc = "marking"
        BY <1>0, <2>4 DEF MarkThreadReadInDB
      <3>2. call'[k].asked = call[k].asked
        BY <2>0, <3>1 DEF CallType
      <3> QED BY <3>1, <3>2 DEF UnaskedInv
    <2>5. CASE Register(k)
      <3>1. /\ call'[k] = [call[k] EXCEPT !.pc = "registered", !.waiter = TRUE, !.gen = gen]
            /\ call[k].pc = "miss"
        BY <1>0, <2>5 DEF Register
      <3>2. call'[k].asked = call[k].asked
        BY <2>0, <3>1 DEF CallType
      <3> QED BY <3>1, <3>2 DEF UnaskedInv
    <2>6. CASE SendRequest(k)
      BY <1>0, <2>0, <2>2, <2>6 DEF SendRequest, CallType
    <2>7. CASE Wake(k)
      BY <1>0, <2>0, <2>2, <2>7 DEF Wake, CallType
    <2>8. CASE Timeout(k)
      BY <1>0, <2>0, <2>2, <2>8 DEF Timeout, CallType
    <2>9. CASE Leave(k) \/ Offline(k)
      <3> DEFINE c == [IdleCall EXCEPT !.kind = call[k].kind, !.cursor = call[k].cursor,
                                       !.asked = TRUE]
      <3>1. call'[k] = IdleCall \/ call'[k] = c
        BY <1>0, <2>9 DEF Leave, Offline
      <3>2. IdleCall.pc = "idle" /\ c.pc = "idle"
        BY DEF IdleCall
      <3> HIDE DEF c
      <3> QED BY <2>2, <3>1, <3>2
    <2> QED BY <1>3, <2>3, <2>4, <2>5, <2>6, <2>7, <2>8, <2>9
            DEF Call, ListSMSThreads, ListSMSMessages, SendSMS, MarkThreadRead
  <1>4. ASSUME NEW m \in net, NEW again \in BOOLEAN, Ingest(m, again) PROVE UnaskedInv'
    <2>1. net' \subseteq net
      BY <1>4 DEF Ingest, ThreadsResp, MessagesResp, SendResp, Push, Received
    <2>2. CASE Push(m, again)
      BY <1>a, <2>1, <2>2 DEF Push
    <2>3. CASE ~Push(m, again)
      <3>1. m.req \in Calls
        BY <1>4, <2>3 DEF Ingest, ThreadsResp, MessagesResp, SendResp, TypeInv, NetOK, Asking
      <3>2. PICK res : call' \in {call, [call EXCEPT ![m.req] = Answered(m.req, res)]}
        BY <1>4, <2>3 DEF Ingest, ThreadsResp, MessagesResp, SendResp
      <3>3. \A k \in Calls : call'[k].pc = call[k].pc /\ call'[k].asked = call[k].asked
        BY <1>0, <3>1, <3>2, AnsweredFields
      <3> QED BY <1>a, <2>1, <3>3
    <2> QED BY <2>2, <2>3
  <1>5. CASE (\E m \in net : Lose(m)) \/ \E again \in BOOLEAN : SMSChanged(again)
    BY <1>a, <1>5 DEF Lose, SMSChanged, Received
  <1>6. CASE Database \/ Forget
    BY <1>a, <1>6 DEF Database, LoadAllThreads, LoadMessagesForThread, OpenOther,
       SaveMessages, CopyThreads, SaveThreads, Forget, ForgetLastDevice, ClearAll, ForgetCaches
  <1>7. CASE Connect \/ Resync \/ Disconnect
    BY <1>a, <1>7 DEF Connect, Resync, Disconnect
  <1>8. CASE failPendingSMSRequests
    <2>1. \A k \in Calls : call'[k].pc = call[k].pc /\ call'[k].asked = call[k].asked
      BY <1>8, AnsweredFields DEF failPendingSMSRequests
    <2> QED BY <1>a, <1>8, <2>1 DEF failPendingSMSRequests
  <1>9. CASE UNCHANGED vars
    BY <1>a, <1>9 DEF vars
  <1> QED BY <1>1, <1>2, <1>3, <1>4, <1>5, <1>6, <1>7, <1>8, <1>9 DEF Next, Link


\* A step keeps the transcript and the answers true to the phone if it adds
\* nothing to them that is not there, and forgets no notice.
LEMMA FollowKept ==
    ASSUME PageInv, CacheFollowsPhone, Notice => Notice',
           store \subseteq store' \/ Notice',
           \A s \in Sms : Paged(s)' => Paged(s) \/ s \in store' \/ Notice',
           \A m \in net' : Usable(m)' =>
               (m \in net /\ Usable(m)) \/ m.page \subseteq store' \/ Notice'
    PROVE  PageInv' /\ CacheFollowsPhone'
  BY DEF PageInv, CacheFollowsPhone, Paged

\* When the caches are invalidated no answer that is under way is usable.
LEMMA InvalidateFollows ==
    ASSUME TypeInv, InvalidateCaches, call' = call, net' \subseteq net
    PROVE  PageInv' /\ CacheFollowsPhone'
  <1>1. gen \in Nat /\ gen' = gen + 1 /\ rows' = Empty
    BY ConstantsAssumption DEF TypeInv, CacheOK, InvalidateCaches
  <1>2. \A k \in Calls : call'[k].waiter => call'[k].gen <= gen /\ call'[k].gen \in Nat
    BY DEF TypeInv, CallOK, CallType
  <1>3. \A m \in net' : m.type = "messages" => m.req \in Calls
    BY DEF TypeInv, NetOK, Asking
  <1>4. \A m \in net' : ~Usable(m)'
    <2> TAKE m \in net'
    <2>1. SUFFICES ASSUME m.type = "messages", call'[m.req].waiter,
                          call'[m.req].gen = gen'
                   PROVE  FALSE
      BY DEF Usable, Wanted, Current
    <2> QED BY <1>1, <1>2, <1>3, <2>1
  <1>5. \A s \in Sms : ~(rows'[Stored(s)] > 0)
    BY <1>1, RowsOfSms DEF Empty
  <1> QED BY <1>4, <1>5 DEF PageInv, CacheFollowsPhone

\* What the phone does and says.
LEMMA PhoneFollows ==
    ASSUME TypeInv, FollowInv, Phone PROVE PageInv' /\ CacheFollowsPhone'
  <1>1. UNCHANGED <<rows, brought, gen, call, stale>>
    BY DEF Phone, Arrive, PhoneDelete, Observe, cache
  <1>2. \A m \in net' : Usable(m)' => m \in net /\ Usable(m)
    <2>1. \A m \in net' : m \in net \/ m.type \in {"changed", "push"}
      BY DEF Phone, Arrive, PhoneDelete, Observe, Changed, Message
    <2> QED BY <1>1, <2>1 DEF Usable, Wanted, Current
  <1>3. store \subseteq store' \/ Notice'
    BY DEF Phone, Arrive, PhoneDelete, Observe, Notice
  <1>4. Notice => Notice'
    BY <1>1 DEF Phone, Arrive, PhoneDelete, Observe, Notice
  <1> QED BY <1>1, <1>2, <1>3, <1>4, FollowKept DEF FollowInv, Paged

\* The phone answers with what is there.
LEMMA AnswerFollows ==
    ASSUME TypeInv, FollowInv, NEW k \in Calls, Answer(k)
    PROVE  PageInv' /\ CacheFollowsPhone'
  <1>0. call \in [Calls -> CallType]
    BY DEF TypeInv, CallOK
  <1>1. UNCHANGED <<rows, brought, gen, stale>> /\ net \subseteq net'
    BY DEF Answer, AnswerThreads, AnswerMessages, AnswerSend, AnswerRead, AnswerError,
       LoseRequest, Reply, cache
  <1>2. store \subseteq store' /\ (dirty => dirty')
    <2>1. CASE \E page \in {{}} \cup {{s} : s \in Sms} : AnswerSend(k, page)
      BY <2>1 DEF AnswerSend
    <2>2. CASE \E permitted \in BOOLEAN : AnswerRead(k, permitted)
      BY <2>2 DEF AnswerRead
    <2>3. CASE AnswerThreads(k) \/ AnswerMessages(k) \/ AnswerError(k) \/ LoseRequest(k)
      <3>1. UNCHANGED <<store, dirty>>
        BY <2>3 DEF AnswerThreads, AnswerMessages, AnswerError, LoseRequest, phone
      <3> QED BY <3>1
    <2> QED BY <2>1, <2>2, <2>3 DEF Answer
  <1>3. Notice => Notice'
    BY <1>1, <1>2 DEF Notice
  <1>4. call' = [call EXCEPT ![k] = Unasked(k)]
    BY DEF Answer, AnswerThreads, AnswerMessages, AnswerSend, AnswerRead, AnswerError,
       LoseRequest, Reply
  <1>5. Unasked(k).waiter => call[k].waiter /\ Unasked(k).gen = call[k].gen
    BY <1>0 DEF Unasked, IdleCall, CallType
  <1>6. \A m \in net : Usable(m)' => Usable(m)
    <2> SUFFICES ASSUME NEW m \in net, Usable(m)' PROVE Usable(m)
      OBVIOUS
    <2>1. m.req \in Calls
      BY DEF Usable, TypeInv, NetOK, Asking
    <2> QED BY <1>0, <1>1, <1>4, <1>5, <2>1 DEF Usable, Wanted, Current
  <1>7. \A m \in net' : m \in net \/ ~Usable(m)' \/ m.page \subseteq store'
    <2>1. CASE AnswerMessages(k)
      <3> DEFINE page == Newest({s \in store : call[k].cursor = 0
                                                \/ Stored(s) < call[k].cursor}, Limit)
      <3>1. page \subseteq store
        BY DEF Newest
      <3>2. net' = net \cup {Message(call[k].kind, k, TRUE, page, None)}
        BY <2>1 DEF AnswerMessages, Reply
      <3> HIDE DEF page
      <3> QED BY <1>2, <3>1, <3>2 DEF Message
    <2>2. CASE ~AnswerMessages(k)
      <3>1. \/ net' = net
            \/ \E ok, page, n : /\ net' = net \cup {Message(call[k].kind, k, ok, page, n)}
                                /\ ~ok \/ call[k].kind # "messages"
        BY <2>2, ZenonT(60) DEF Answer, AnswerThreads, AnswerSend, AnswerRead, AnswerError, LoseRequest,
           Reply
      <3> QED BY <3>1 DEF Message, Usable, Wanted
    <2> QED BY <2>1, <2>2
  <1> QED BY <1>1, <1>2, <1>3, <1>6, <1>7, FollowKept DEF FollowInv, Paged

\* A call of the front end makes no answer usable that was not: its waiter is
\* new only when no answer to it is under way.
LEMMA CallFollows ==
    ASSUME TypeInv, FollowInv, NEW k \in Calls, Call(k)
    PROVE  PageInv' /\ CacheFollowsPhone'
  <1>0. call \in [Calls -> CallType] /\ call[k] \in CallType
    BY DEF TypeInv, CallOK
  <1>1. UNCHANGED <<store, dirty, stale, net, gen>>
    BY DEF Call, ListSMSThreads, ListSMSMessages, SendSMS, MarkThreadRead,
       MarkThreadReadInDB, Offline, Register, SendRequest, Wake, Timeout, Leave, cache, phone
  <1>2. \A s \in Sms : Paged(s)' => Paged(s)
    <2>1. CASE UNCHANGED <<rows, brought>>
      BY <2>1 DEF Paged
    <2>2. ASSUME NEW t, rows' = [rows EXCEPT ![Stored(t)] = @ + 1],
                 brought' = brought \cup {Stored(t)}
          PROVE  \A s \in Sms : Paged(s)' => Paged(s)
      BY <2>2 DEF Paged, TypeInv, CacheOK
    <2> QED BY <2>1, <2>2 DEF Call, ListSMSThreads, ListSMSMessages, SendSMS, MarkThreadRead,
            MarkThreadReadInDB, Offline, Register, SendRequest, Wake, Timeout, Leave, cache
  <1>3. \A j \in Calls \ {k} : call'[j] = call[j]
    BY <1>0 DEF Call, ListSMSThreads, ListSMSMessages, SendSMS, MarkThreadRead,
       MarkThreadReadInDB, Offline, Register, SendRequest, Wake, Timeout, Leave, Start
  <1>4. \/ ~call'[k].waiter
        \/ call'[k].waiter = call[k].waiter /\ call'[k].gen = call[k].gen
        \/ \A m \in net : m.req # k
    <2>1. CASE Register(k)
      BY <2>1 DEF Register, FollowInv, UnaskedInv
    <2>2. CASE MarkThreadReadInDB(k)
      BY <1>0, <2>2 DEF MarkThreadReadInDB, CallType
    <2>3. CASE SendRequest(k)
      BY <1>0, <2>3 DEF SendRequest, CallType
    <2>4. CASE Wake(k)
      BY <1>0, <2>4 DEF Wake, CallType
    <2>5. CASE Timeout(k)
      BY <1>0, <2>5 DEF Timeout, CallType
    <2>6. CASE Leave(k) \/ Offline(k)
      <3> DEFINE c == [IdleCall EXCEPT !.kind = call[k].kind, !.cursor = call[k].cursor,
                                       !.asked = TRUE]
      <3>1. call'[k] = IdleCall \/ call'[k] = c
        BY <1>0, <2>6 DEF Leave, Offline
      <3>2. ~IdleCall.waiter /\ ~c.waiter
        BY DEF IdleCall
      <3> HIDE DEF c
      <3> QED BY <3>1, <3>2
    <2>7. ASSUME NEW pc, NEW kind, NEW cursor, Start(k, pc, kind, cursor)
          PROVE  \A m \in net : m.req # k
      BY <2>7 DEF Start
    <2> QED BY <2>1, <2>2, <2>3, <2>4, <2>5, <2>6, <2>7
            DEF Call, ListSMSThreads, ListSMSMessages, SendSMS, MarkThreadRead
  <1>5. \A m \in net' : Usable(m)' => m \in net /\ Usable(m)
    <2> SUFFICES ASSUME NEW m \in net, Usable(m)' PROVE Usable(m)
      BY <1>1
    <2>1. m.req \in Calls
      BY DEF Usable, TypeInv, NetOK, Asking
    <2>2. call'[m.req].waiter => call[m.req].waiter /\ call'[m.req].gen = call[m.req].gen
      BY <1>3, <1>4, <2>1
    <2> QED BY <1>1, <2>2 DEF Usable, Wanted, Current
  <1> QED BY <1>1, <1>2, <1>5, FollowKept DEF FollowInv, Notice

\* An answer the Mac uses brings only what it holds, a push only its own row.
LEMMA IngestFollows ==
    ASSUME TypeInv, FollowInv, NEW m \in net, NEW again \in BOOLEAN, Ingest(m, again)
    PROVE  PageInv' /\ CacheFollowsPhone'
  <1>0. call \in [Calls -> CallType]
    BY DEF TypeInv, CallOK
  <1>1. UNCHANGED <<store, dirty, stale, gen>> /\ net' \in {net, net \ {m}}
    BY DEF Ingest, ThreadsResp, MessagesResp, SendResp, Push, Received, cache, phone
  <1>2. Notice => Notice'
    <2>1. m # Changed
      <3>1. m.type # "changed"
        BY DEF Ingest, ThreadsResp, MessagesResp, SendResp, Push
      <3>2. Changed.type = "changed"
        BY DEF Changed, Message
      <3> QED BY <3>1, <3>2
    <2> QED BY <1>1, <2>1 DEF Notice
  <1>3. \A n \in net' : Usable(n)' => n \in net /\ Usable(n)
    <2> SUFFICES ASSUME NEW n \in net, Usable(n)' PROVE Usable(n)
      BY <1>1
    <2>1. n.req \in Calls
      BY DEF Usable, TypeInv, NetOK, Asking
    <2>2. call'[n.req].waiter = call[n.req].waiter /\ call'[n.req].gen = call[n.req].gen
      <3>1. CASE Push(m, again)
        BY <3>1 DEF Push
      <3>2. CASE ~Push(m, again)
        <4>1. m.req \in Calls
          BY <3>2 DEF Ingest, ThreadsResp, MessagesResp, SendResp, TypeInv, NetOK, Asking
        <4>2. PICK res : call' \in {call, [call EXCEPT ![m.req] = Answered(m.req, res)]}
          BY <3>2 DEF Ingest, ThreadsResp, MessagesResp, SendResp
        <4> QED BY <1>0, <2>1, <4>1, <4>2, AnsweredFields
      <3> QED BY <3>1, <3>2
    <2> QED BY <1>1, <2>2 DEF Usable, Wanted, Current
  <1>4. ASSUME NEW s \in Sms, Paged(s)', ~Paged(s) PROVE s \in store \/ Notice
    <2>0. Stored(s) \in Rows /\ rows \in [Rows -> Nat]
      BY RowsOfSms DEF TypeInv, CacheOK
    <2>1. CASE MessagesResp(m, again)
      <3> DEFINE page == {Stored(t) : t \in m.page}
      <3>1. Usable(m)
        BY <1>4, <2>1 DEF MessagesResp, Usable, Paged
      <3>2. Stored(s) \in page
        <4>1. \/ rows' = [r \in Rows |-> IF r \in page THEN 1 ELSE 0]
              \/ rows' = mergeSMSMessages(page)
          BY <2>1, <3>1 DEF MessagesResp, Usable
        <4>2. brought' = brought \/ rows' = [r \in Rows |-> IF r \in page THEN 1 ELSE 0]
          BY <2>1, <3>1 DEF MessagesResp, Usable
        <4> HIDE DEF page
        <4> QED BY <1>4, <2>0, <4>1, <4>2 DEF mergeSMSMessages, Paged
      <3>3. PICK t \in m.page : Stored(s) = Stored(t)
        BY <3>2
      <3>4. s = t
        <4>1. s \in Nat /\ t \in Nat
          BY ConstantsAssumption DEF TypeInv, NetOK, MsgType, Sms
        <4> QED BY <3>3, <4>1 DEF Stored
      <3> QED BY <3>1, <3>4 DEF FollowInv, PageInv
    <2>2. CASE Push(m, again)
      <3>1. PICK t \in m.page : /\ rows' = rows \/ rows' = [rows EXCEPT ![Pushed(t)] = 1]
                               /\ brought' = brought
        BY <2>2 DEF Push, PushApply
      <3>2. t \in Sms
        BY DEF TypeInv, NetOK, MsgType
      <3> QED BY <1>4, <2>0, <3>1, <3>2, RowsOfSms DEF Paged
    <2>3. CASE ThreadsResp(m, again) \/ SendResp(m, again)
      BY <1>4, <2>3 DEF ThreadsResp, SendResp, cache, Paged
    <2> QED BY <2>1, <2>2, <2>3 DEF Ingest
  <1> QED BY <1>1, <1>2, <1>3, <1>4, FollowKept DEF FollowInv

\* Every step keeps the transcript true to the phone.
LEMMA NextFollowInv == TypeInv /\ FollowInv /\ [Next]_vars => FollowInv'
  <1> SUFFICES ASSUME TypeInv, FollowInv, [Next]_vars PROVE PageInv' /\ CacheFollowsPhone'
    BY NextUnaskedInv DEF FollowInv
  <1>a. ASSUME UNCHANGED <<store, dirty, gen>>,
               \A m \in net : m \in net' \/ (m = Changed => stale'), net' \subseteq net,
               stale => stale',
               UNCHANGED <<rows, brought>> \/ rows' = Empty,
               \A m \in net' : Usable(m)' => Usable(m)
        PROVE  PageInv' /\ CacheFollowsPhone'
    <2>1. Notice => Notice'
      BY <1>a DEF Notice
    <2>2. \A s \in Sms : Paged(s)' => Paged(s)
      BY <1>a, RowsOfSms DEF Empty, Paged
    <2> QED BY <1>a, <2>1, <2>2, FollowKept DEF FollowInv
  <1>1. ASSUME NEW m \in net, Lose(m) PROVE PageInv' /\ CacheFollowsPhone'
    BY <1>1, <1>a DEF Lose, phone, cache, Usable, Wanted, Current
  <1>2. ASSUME NEW again \in BOOLEAN, SMSChanged(again) PROVE PageInv' /\ CacheFollowsPhone'
    BY <1>2, InvalidateFollows DEF SMSChanged, Received
  <1>3. CASE Database
    <2>1. CASE LoadMessagesForThread
      <3>1. \A s \in Sms : ~Paged(s)'
        BY <2>1, RowsOfSms DEF LoadMessagesForThread, Paged
      <3>2. UNCHANGED <<store, dirty, gen, net, stale, call>>
        BY <2>1 DEF LoadMessagesForThread, phone
      <3> QED BY <3>1, <3>2, FollowKept DEF FollowInv, Usable, Wanted, Current, Notice
    <2>2. CASE ~LoadMessagesForThread
      <3>1. UNCHANGED <<store, dirty, gen, net, stale, rows, brought, call>>
        BY <1>3, <2>2 DEF Database, LoadAllThreads, OpenOther, SaveMessages, CopyThreads,
           SaveThreads, phone, cache
      <3> QED BY <1>a, <3>1 DEF Usable, Wanted, Current
    <2> QED BY <2>1, <2>2
  <1>4. CASE Resync
    BY <1>4, InvalidateFollows DEF Resync
  <1>5. CASE Connect \/ Disconnect \/ Forget
    BY <1>5, <1>a DEF Connect, Disconnect, Forget, ForgetLastDevice, ClearAll, ForgetCaches,
       phone, cache, Usable, Wanted, Current
  <1>6. CASE failPendingSMSRequests
    <2>1. \A k \in Calls : ~call'[k].waiter
      BY <1>6, AnsweredFields DEF failPendingSMSRequests
    <2>2. \A m \in net : Usable(m)' => Usable(m)
      <3> SUFFICES ASSUME NEW m \in net, Usable(m)' PROVE FALSE
        OBVIOUS
      <3>1. m.req \in Calls
        BY DEF Usable, TypeInv, NetOK, Asking
      <3> QED BY <2>1, <3>1 DEF Usable, Wanted
    <2> QED BY <1>6, <1>a, <2>2 DEF failPendingSMSRequests, phone, cache
  <1>7. CASE UNCHANGED vars
    BY <1>7, <1>a DEF vars, phone, cache, Usable, Wanted, Current
  <1> QED BY <1>1, <1>2, <1>3, <1>4, <1>5, <1>6, <1>7, PhoneFollows, AnswerFollows,
             CallFollows, IngestFollows DEF Next, Link

\* A page never brings back what the phone has deleted, and a first page takes
\* it away: late answers, repeated ones and answers to calls that gave up do not
\* get past the waiter and the generation (handleMessagesResp), whichever calls
\* and goroutines of the database run besides.  A row that stays shown after
\* its deletion was noticed came from the database or from a send.
THEOREM DeletedStaysDeleted == Spec => []CacheFollowsPhone
  <1>1. FollowInv => CacheFollowsPhone
    BY DEF FollowInv
  <1> QED BY <1>1, InitTypeInv, NextTypeInv, InitFollowInv, NextFollowInv, PTL DEF Spec


(***************************************************************************)
(* Every push counted once.                                                *)
(***************************************************************************)

\* The pushes seen are different SMS.
SeenInv ==
    /\ \A i \in 1..Len(seen) : seen[i] \in 1..minted
    /\ \A i, j \in 1..Len(seen) : seen[i] = seen[j] => i = j

\* The phone counts SMS there were and pushes SMS there were.
SaidInv ==
    \A m \in net : /\ m.count # None => m.count <= minted
                   /\ m.type = "push" => m.page \subseteq 1..minted

\* A count is at most a page of the phone and the pushes seen since.
Bounded(n) == n # None => n <= minted + Len(seen)

Counted ==
    /\ SeenInv
    /\ SaidInv
    /\ Bounded(row)
    /\ Bounded(dbRow)
    /\ \A w \in saves : Bounded(w.count)

\* This is so until a push may have left the set of pushes seen.
CountInv == minted <= DedupCap => Counted

\* At first nothing was pushed.
LEMMA InitCountInv == Init => CountInv
  BY DEF Init, CountInv, Counted, SeenInv, SaidInv, Bounded

\* A sequence of different numbers up to n is no longer than n.
LEMMA DifferentLength ==
    ASSUME NEW n \in Nat, NEW s \in Seq(Nat), \A i \in 1..Len(s) : s[i] \in 1..n,
           \A i, j \in 1..Len(s) : s[i] = s[j] => i = j
    PROVE  Len(s) <= n
  <1>1. s \in Injection(1..Len(s), 1..n)
    <2>1. s \in [1..Len(s) -> 1..n]
      OBVIOUS
    <2> QED BY <2>1 DEF Injection, IsInjective
  <1>2. IsFiniteSet(1..n) /\ Cardinality(1..n) = n
    BY FS_Interval
  <1>3. Cardinality(1..Len(s)) <= n
    BY <1>1, <1>2, FS_Injection
  <1>4. Cardinality(1..Len(s)) = Len(s)
    <2>1. Len(s) \in Nat
      OBVIOUS
    <2>2. \A l \in Nat : Cardinality(1..l) = l
      BY FS_Interval
    <2> QED BY <2>1, <2>2
  <1> QED BY <1>3, <1>4

\* The counts there are.
Counts == {None, 0, row, dbRow} \cup {w.count : w \in saves}

\* The bounds only rise, so a step that makes no count of its own keeps them.
LEMMA CountKept ==
    TypeInv /\ Counted /\ minted' \in Nat /\ minted <= minted' /\ seen' = seen /\ SaidInv'
    /\ row' \in Counts /\ dbRow' \in Counts /\ (\A w \in saves' : w.count \in Counts)
       => Counted'
  <1> SUFFICES ASSUME TypeInv, Counted, minted' \in Nat, minted <= minted', seen' = seen,
                      SaidInv', row' \in Counts, dbRow' \in Counts,
                      \A w \in saves' : w.count \in Counts
               PROVE  Counted'
    OBVIOUS
  <1>1. minted \in Nat /\ Len(seen) \in Nat /\ 1..minted \subseteq 1..minted'
    BY ConstantsAssumption DEF TypeInv, PhoneOK, SeenOK
  <1>2. \A n \in Counts : n \in Count /\ Bounded(n)
    BY <1>1 DEF Counts, Counted, Bounded, Count, TypeInv, CacheOK, SavedOK, SaveType
  <1>3. \A n \in Counts : n # None => n <= minted' + Len(seen')
    BY <1>1, <1>2 DEF Bounded, Count
  <1>4. SeenInv'
    BY <1>1 DEF Counted, SeenInv
  <1> HIDE DEF Counts
  <1> QED BY <1>3, <1>4 DEF Counted, Bounded

\* What the messages under way say stays true while SMS are minted and messages
\* are lost.
LEMMA SaidKept ==
    TypeInv /\ SaidInv /\ minted' \in Nat /\ minted <= minted' /\ net' \subseteq net => SaidInv'
  <1> SUFFICES ASSUME TypeInv, SaidInv, minted' \in Nat, minted <= minted', net' \subseteq net
               PROVE  SaidInv'
    OBVIOUS
  <1>1. minted \in Nat /\ 1..minted \subseteq 1..minted'
    BY ConstantsAssumption DEF TypeInv, PhoneOK
  <1>2. \A m \in net : m.count \in Nat \cup {None}
    BY DEF TypeInv, NetOK, MsgType, Count
  <1> QED BY <1>1, <1>2 DEF SaidInv

\* A thread page brings the phone's own count.
LEMMA ThreadsCounted ==
    ASSUME TypeInv, Counted, NEW m \in net, NEW again \in BOOLEAN, ThreadsResp(m, again)
    PROVE  Counted'
  <1>1. UNCHANGED <<minted, seen, dbRow>> /\ net' \subseteq net
    BY DEF ThreadsResp, Received, phone, db
  <1>2. row' = row \/ row' = m.count
    BY DEF ThreadsResp
  <1>3. m.count # None => m.count \in Nat /\ m.count <= minted
    BY DEF Counted, SaidInv, TypeInv, NetOK, MsgType, Count
  <1>4. Bounded(row')
    <2>1. minted \in Nat /\ Len(seen) \in Nat
      BY ConstantsAssumption DEF TypeInv, PhoneOK, SeenOK
    <2> QED BY <1>2, <1>3, <2>1 DEF Counted, Bounded
  <1>5. \A w \in saves' : w \in saves \/ w.count = row'
    BY DEF ThreadsResp, Spawn, Save
  <1>6. \A n : Bounded(n) <=> (n # None => n <= minted' + Len(seen'))
    BY <1>1 DEF Bounded
  <1>7. (row' # None => row' <= minted' + Len(seen')) /\ (dbRow' # None => dbRow' <= minted' + Len(seen'))
    BY <1>1, <1>4, <1>6 DEF Counted
  <1>8. \A w \in saves' : w.count # None => w.count <= minted' + Len(seen')
    BY <1>4, <1>5, <1>6 DEF Counted
  <1>9. SeenInv' /\ SaidInv'
    BY <1>1 DEF Counted, SeenInv, SaidInv
  <1> QED BY <1>7, <1>8, <1>9 DEF Counted, Bounded

\* A push that is not known is added to the pushes seen and to the count; the
\* set of pushes seen has room for it.
LEMMA PushCounted ==
    ASSUME minted <= DedupCap, TypeInv, Counted, NEW m \in net, NEW again \in BOOLEAN,
           Push(m, again)
    PROVE  Counted'
  <1>1. PICK s \in m.page : IF Known(s) THEN UNCHANGED <<seen, rows, row, saves>>
                                        ELSE PushApply(s)
    BY DEF Push
  <1>2. UNCHANGED <<minted, dbRow>> /\ net' \subseteq net
    BY DEF Push, Received, phone, db
  <1>3. s \in 1..minted
    BY DEF Push, Counted, SaidInv
  <1>4. /\ minted \in Nat /\ minted <= MaxSms /\ MaxSms \in Nat /\ DedupCap \in Nat
        /\ seen \in Seq(Sms) /\ seen \in Seq(Nat) /\ Len(seen) \in Nat
    BY ConstantsAssumption DEF TypeInv, PhoneOK, SeenOK, Sms
  <1>5. CASE Known(s)
    <2>1. UNCHANGED <<seen, row, saves>>
      BY <1>1, <1>5
    <2> QED BY <1>2, <2>1 DEF Counted, SeenInv, SaidInv, Bounded
  <1>6. CASE ~Known(s)
    <2> DEFINE all == Append(seen, s)
    <2>1. PushApply(s)
      BY <1>1, <1>6
    <2>2. /\ all \in Seq(Nat) /\ Len(all) = Len(seen) + 1 /\ all[Len(seen) + 1] = s
          /\ \A i \in 1..Len(seen) : all[i] = seen[i]
      BY <1>3, <1>4
    <2>3. \A i \in 1..Len(all) : all[i] \in 1..minted
      BY <1>3, <1>4, <2>2 DEF Counted, SeenInv
    <2>4. \A i, j \in 1..Len(all) : all[i] = all[j] => i = j
      <3>1. \A i \in 1..Len(seen) : all[i] # s
        BY <1>6, <2>2 DEF Known
      <3>2. \A i, j \in 1..Len(seen) : all[i] = all[j] => i = j
        BY <2>2 DEF Counted, SeenInv
      <3>3. \A i \in 1..Len(all) : i \in 1..Len(seen) \/ i = Len(seen) + 1
        BY <1>4, <2>2
      <3> HIDE DEF all
      <3> QED BY <2>2, <3>1, <3>2, <3>3
    <2>5. Len(all) <= minted
      <3> HIDE DEF all
      <3> QED BY <1>4, <2>2, <2>3, <2>4, DifferentLength
    <2>6. seen' = all
      <3>1. Len(all) <= DedupCap
        BY <1>4, <2>2, <2>5
      <3> QED BY <1>4, <2>1, <2>2, <3>1 DEF PushApply, Mark
    <2>7. row' # None => row' <= minted + Len(all)
      <3>1. row = None => row' = 1
        BY <2>1 DEF PushApply
      <3>2. row # None => row' = row + 1 /\ row \in Nat
        BY <2>1 DEF PushApply, TypeInv, CacheOK, Count
      <3>3. row # None => row <= minted + Len(seen)
        BY DEF Counted, Bounded
      <3> HIDE DEF all
      <3> QED BY <1>4, <2>2, <3>1, <3>2, <3>3
    <2>8. \A n \in Count : Bounded(n) => (n # None => n <= minted + Len(all))
      <3> HIDE DEF all
      <3> QED BY <1>4, <2>2 DEF Bounded, Count
    <2>9. \A w \in saves' : w \in saves \/ w.count = row'
      BY <2>1 DEF PushApply, Spawn, Save
    <2>10. dbRow \in Count /\ \A w \in saves : w.count \in Count
      BY DEF TypeInv, SavedOK, SaveType
    <2>11. \A w \in saves' : w.count # None => w.count <= minted + Len(all)
      <3> HIDE DEF all
      <3> QED BY <2>7, <2>8, <2>9, <2>10 DEF Counted
    <2>12. dbRow # None => dbRow <= minted + Len(all)
      <3> HIDE DEF all
      <3> QED BY <2>8, <2>10 DEF Counted
    <2>13. SeenInv'
      <3> HIDE DEF all
      <3> QED BY <1>2, <2>3, <2>4, <2>6 DEF SeenInv
    <2>14. SaidInv'
      BY <1>2 DEF Counted, SaidInv
    <2> HIDE DEF all
    <2> QED BY <1>2, <2>6, <2>7, <2>11, <2>12, <2>13, <2>14 DEF Counted, Bounded
  <1> QED BY <1>5, <1>6

\* The other steps only bring counts that were there.
LEMMA NextCounted ==
    ASSUME minted <= DedupCap PROVE TypeInv /\ Counted /\ [Next]_vars => Counted'
  <1> SUFFICES ASSUME TypeInv, Counted, [Next]_vars PROVE Counted'
    OBVIOUS
  <1>0. minted \in Nat /\ minted <= minted /\ SaidInv
    BY ConstantsAssumption DEF TypeInv, PhoneOK, Counted
  <1>c. /\ row \in Counts /\ dbRow \in Counts /\ None \in Counts /\ 0 \in Counts
        /\ \A w \in saves : w.count \in Counts
    BY DEF Counts
  <1>a. ASSUME UNCHANGED <<minted, seen>>, net' \subseteq net, row' \in Counts,
               dbRow' \in Counts, \A w \in saves' : w.count \in Counts
        PROVE  Counted'
    BY <1>0, <1>a, CountKept, SaidKept
  <1>1. CASE Phone
    <2>1. UNCHANGED <<seen, row, dbRow, saves>>
      BY <1>1 DEF Phone, Arrive, PhoneDelete, Observe, cache, db
    <2>2. minted' \in Nat /\ minted <= minted'
      <3>1. minted' = minted \/ minted' = minted + 1
        BY <1>1 DEF Phone, Arrive, PhoneDelete, Observe
      <3> QED BY <1>0, <3>1
    <2>3. \A m \in net' :
             \/ m \in net
             \/ m.count = None /\ m.type = "changed"
             \/ m.count = None /\ m.page = {minted'} /\ minted' = minted + 1
      BY <1>1 DEF Phone, Arrive, PhoneDelete, Observe, Changed, Message
    <2>4. minted' = minted + 1 => {minted'} \subseteq 1..minted'
      BY <1>0
    <2>5. \A m \in net : /\ m.count # None => m.count <= minted'
                         /\ m.type = "push" => m.page \subseteq 1..minted'
      <3>1. \A m \in net : m.count \in Nat \cup {None}
        BY DEF TypeInv, NetOK, MsgType, Count
      <3> QED BY <1>0, <2>2, <3>1 DEF SaidInv
    <2>6. SaidInv'
      BY <2>3, <2>4, <2>5 DEF SaidInv
    <2> QED BY <1>c, <2>1, <2>2, <2>6, CountKept
  <1>2. ASSUME NEW k \in Calls, Answer(k) PROVE Counted'
    <2>1. UNCHANGED <<seen, row, dbRow, saves>>
      BY <1>2 DEF Answer, AnswerThreads, AnswerMessages, AnswerSend, AnswerRead, AnswerError,
         LoseRequest, cache, db
    <2>2. minted' \in Nat /\ minted <= minted'
      <3>1. minted' = minted \/ minted' = minted + 1
        BY <1>2 DEF Answer, AnswerThreads, AnswerMessages, AnswerSend, AnswerRead,
           AnswerError, LoseRequest, phone
      <3> QED BY <1>0, <3>1
    <2>3. \/ net' = net
          \/ \E ok, page, n :
                /\ net' = net \cup {Message(call[k].kind, k, ok, page, n)}
                /\ n = None \/ n = Cardinality(unread)
                /\ call[k].asked
      BY <1>2 DEF Answer, AnswerThreads, AnswerMessages, AnswerSend, AnswerRead, AnswerError,
         LoseRequest, Reply
    <2>4. call[k].asked => call[k].kind # "push"
      BY DEF TypeInv, CallOK, Asking
    <2>5. Cardinality(unread) <= minted'
      BY <1>0, <2>2, UnreadCount DEF TypeInv
    <2>6. \A m \in net' :
             \/ m \in net
             \/ m.type # "push" /\ (m.count = None \/ m.count = Cardinality(unread))
      BY <2>3, <2>4 DEF Message
    <2>7. \A m \in net : /\ m.count # None => m.count <= minted'
                         /\ m.type = "push" => m.page \subseteq 1..minted'
      <3>1. \A m \in net : m.count \in Nat \cup {None}
        BY DEF TypeInv, NetOK, MsgType, Count
      <3> QED BY <1>0, <2>2, <3>1 DEF SaidInv
    <2>8. SaidInv'
      BY <2>5, <2>6, <2>7 DEF SaidInv
    <2> QED BY <1>c, <2>1, <2>2, <2>8, CountKept
  <1>3. ASSUME NEW k \in Calls, Call(k) PROVE Counted'
    <2>1. UNCHANGED <<minted, seen, net>>
      BY <1>3 DEF Call, ListSMSThreads, ListSMSMessages, SendSMS, MarkThreadRead,
         MarkThreadReadInDB, Offline, Register, SendRequest, Wake, Timeout, Leave, phone
    <2>2. row' \in {None, 0, row} /\ dbRow' \in {None, 0, dbRow}
      BY <1>3 DEF Call, ListSMSThreads, ListSMSMessages, SendSMS, MarkThreadRead,
         MarkThreadReadInDB, Offline, Register, SendRequest, Wake, Timeout, Leave, cache, db
    <2>3. \A w \in saves' : w \in saves \/ w.count = None
      BY <1>3 DEF Call, ListSMSThreads, ListSMSMessages, SendSMS, MarkThreadRead,
         MarkThreadReadInDB, Offline, Register, SendRequest, Wake, Timeout, Leave, Spawn, Save
    <2>4. row' \in Counts /\ dbRow' \in Counts /\ \A w \in saves' : w.count \in Counts
      BY <1>c, <2>2, <2>3
    <2> QED BY <1>a, <2>1, <2>4
  <1>4. ASSUME NEW m \in net, NEW again \in BOOLEAN, MessagesResp(m, again) \/ SendResp(m, again)
        PROVE  Counted'
    <2>1. UNCHANGED <<minted, seen, row, dbRow>> /\ net' \subseteq net
      BY <1>4 DEF MessagesResp, SendResp, Received, phone, cache, db
    <2>2. \A w \in saves' : w \in saves \/ w.count = None
      BY <1>4 DEF MessagesResp, SendResp, Spawn, Save
    <2>3. row' \in Counts /\ dbRow' \in Counts /\ \A w \in saves' : w.count \in Counts
      BY <1>c, <2>1, <2>2
    <2> QED BY <1>a, <2>1, <2>3
  <1>5. ASSUME NEW m \in net, Lose(m) PROVE Counted'
    BY <1>5, <1>a, <1>c DEF Lose, phone, cache, db
  <1>6. CASE Resync \/ \E again \in BOOLEAN : SMSChanged(again)
    <2>1. UNCHANGED <<minted, seen, dbRow, saves>> /\ net' \subseteq net /\ row' = None
      BY <1>6 DEF Resync, SMSChanged, InvalidateCaches, Received, phone, db
    <2> QED BY <1>a, <1>c, <2>1
  <1>7. CASE LoadAllThreads \/ LoadMessagesForThread \/ OpenOther
    <2>1. UNCHANGED <<minted, seen, net, dbRow, saves>> /\ row' \in {row, dbRow}
      BY <1>7 DEF LoadAllThreads, LoadMessagesForThread, OpenOther, phone, db
    <2>2. row' \in Counts
      BY <1>c, <2>1
    <2> QED BY <1>a, <1>c, <2>1, <2>2
  <1>8. ASSUME NEW w \in saves, SaveMessages(w) \/ CopyThreads(w) \/ SaveThreads(w)
        PROVE  Counted'
    <2>1. UNCHANGED <<minted, seen, net, row>> /\ dbRow' \in {dbRow, w.count}
      BY <1>8 DEF SaveMessages, CopyThreads, SaveThreads, phone, cache, db
    <2>2. w \in SaveType
      BY DEF TypeInv, SavedOK
    <2>3. [w EXCEPT !.rows = {}].count = w.count
      BY <2>2 DEF SaveType
    <2>4. saves' \subseteq saves \cup {[w EXCEPT !.rows = {}], Save({}, row, FALSE)}
      BY <1>8 DEF SaveMessages, CopyThreads, SaveThreads, Remaining
    <2>5. Save({}, row, FALSE).count = row
      BY DEF Save
    <2>6. row' \in Counts /\ dbRow' \in Counts
      BY <1>c, <2>1
    <2>7. \A v \in saves' : v.count \in Counts
      BY <1>c, <2>3, <2>4, <2>5
    <2> QED BY <1>a, <2>1, <2>6, <2>7
  <1>9. CASE Connect \/ Disconnect \/ failPendingSMSRequests
    BY <1>9, <1>a, <1>c DEF Connect, Disconnect, failPendingSMSRequests, phone, cache, db
  <1>10. CASE Forget
    <2>1. UNCHANGED <<minted, seen, net, saves>> /\ row' \in {None, row}
          /\ dbRow' \in {None, dbRow}
      BY <1>10 DEF Forget, ForgetLastDevice, ClearAll, ForgetCaches, phone, cache, db
    <2>2. row' \in Counts /\ dbRow' \in Counts
      BY <1>c, <2>1
    <2> QED BY <1>a, <1>c, <2>1, <2>2
  <1>11. CASE UNCHANGED vars
    BY <1>11, <1>a, <1>c DEF vars, phone, cache, db
  <1> QED BY <1>1, <1>2, <1>3, <1>4, <1>5, <1>6, <1>7, <1>8, <1>9, <1>10, <1>11,
             ThreadsCounted, PushCounted DEF Next, Ingest, Database, Link

\* SMS are only added.
LEMMA MintedGrows ==
    TypeInv /\ [Next]_vars => minted \in Nat /\ minted' \in Nat /\ minted <= minted'
  <1> SUFFICES ASSUME TypeInv, [Next]_vars
               PROVE  minted \in Nat /\ minted' \in Nat /\ minted <= minted'
    OBVIOUS
  <1>1. minted \in Nat
    BY ConstantsAssumption DEF TypeInv, PhoneOK
  <1>2. minted' = minted \/ minted' = minted + 1
    <2>1. CASE Phone
      BY <2>1 DEF Phone, Arrive, PhoneDelete, Observe
    <2>2. ASSUME NEW k \in Calls, Answer(k) PROVE minted' = minted \/ minted' = minted + 1
      BY <2>2 DEF Answer, AnswerThreads, AnswerMessages, AnswerSend, AnswerRead, AnswerError,
         LoseRequest, phone
    <2>3. ASSUME NEW k \in Calls, Call(k) PROVE minted' = minted
      BY <2>3 DEF Call, ListSMSThreads, ListSMSMessages, SendSMS, MarkThreadRead,
         MarkThreadReadInDB, Offline, Register, SendRequest, Wake, Timeout, Leave, phone
    <2>4. ASSUME NEW m \in net, NEW again \in BOOLEAN, Ingest(m, again) PROVE minted' = minted
      BY <2>4 DEF Ingest, ThreadsResp, MessagesResp, SendResp, Push, phone
    <2>5. ASSUME NEW m \in net, Lose(m) PROVE minted' = minted
      BY <2>5 DEF Lose, phone
    <2>6. ASSUME NEW again \in BOOLEAN, SMSChanged(again) PROVE minted' = minted
      BY <2>6 DEF SMSChanged, phone
    <2>7. CASE Database
      BY <2>7 DEF Database, LoadAllThreads, LoadMessagesForThread, OpenOther, SaveMessages,
         CopyThreads, SaveThreads, phone
    <2>8. CASE Link \/ Forget
      BY <2>8 DEF Link, Connect, Resync, Disconnect, failPendingSMSRequests, Forget,
         ForgetLastDevice, ClearAll, ForgetCaches, phone
    <2>9. CASE UNCHANGED vars
      BY <2>9 DEF vars, phone
    <2> QED BY <2>1, <2>2, <2>3, <2>4, <2>5, <2>6, <2>7, <2>8, <2>9 DEF Next
  <1> QED BY <1>1, <1>2

\* Every step keeps the counts bounded while the set of pushes seen has room.
LEMMA NextCountInv == TypeInv /\ CountInv /\ [Next]_vars => CountInv'
  <1> SUFFICES ASSUME TypeInv, CountInv, [Next]_vars, minted' <= DedupCap PROVE Counted'
    BY DEF CountInv
  <1>1. minted <= DedupCap
    BY MintedGrows, ConstantsAssumption
  <1> QED BY <1>1, NextCounted DEF CountInv

\* However often a push is delivered it adds to the unread count once: an SMS
\* is counted at most twice, by a thread page of the phone and by its push,
\* also when the count went through the database and back, as long as the set
\* of pushes seen has room for every SMS (ingestSMSPush, smsPushDedup).
THEOREM PushesOnce == Spec => []PushesCountedOnce
  <1>1. TypeInv /\ CountInv => PushesCountedOnce
    <2> SUFFICES ASSUME TypeInv, Counted, row # None PROVE row <= 2 * minted
      BY DEF PushesCountedOnce, CountInv
    <2>1. /\ minted \in Nat /\ seen \in Seq(Nat) /\ Len(seen) \in Nat
          /\ row \in Nat /\ row <= minted + Len(seen)
      BY ConstantsAssumption DEF TypeInv, PhoneOK, SeenOK, Sms, CacheOK, Count, Counted,
                                 Bounded
    <2>2. Len(seen) <= minted
      BY <2>1, DifferentLength DEF Counted, SeenInv
    <2> QED BY <2>1, <2>2
  <1> QED BY <1>1, InitTypeInv, NextTypeInv, InitCountInv, NextCountInv, PTL DEF Spec

=============================================================================
