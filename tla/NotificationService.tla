------------------------- MODULE NotificationService -------------------------
(***************************************************************************)
(* NotificationService and the queues for Telegram and e-mail, over the    *)
(* accounts of UserService: an event of the emitter is handled in steps,   *)
(* the account read in one of them, and jobs wait in queues that outlive   *)
(* the process.                                                            *)
(***************************************************************************)
EXTENDS UserService

CONSTANTS
  Notices,       \* events of the emitter
  EventChannel   \* TG_EVENT_CHANNEL

\* No user has an address that is a chat, or the channel of events as a chat.
ASSUME AddressAssumption ==
  /\ Emails \cap Chats = {}
  /\ EventChannel \notin Emails \cup Chats

VARIABLES
  notice,   \* what the handler of each event is at, and what it has read
  queue,    \* jobs of the two queues, waiting or in work
  working,  \* queues whose first job was handed to its consumer
  sent,     \* how often each message went out
  failed,   \* messages the bot or the mail service did not take
  cut,      \* history: events whose handler was cut short
  redone    \* history: messages in work when the process died

notices == <<notice, queue, working, sent, failed, cut, redone>>
allVars == <<vars, notices>>

Queues == {"tg", "mail"}

Message == Notices \X (Emails \cup Chats \cup {EventChannel})

NoNotice == [pc |-> "none", kind |-> "none", user |-> "none", chat |-> Null,
             email |-> Null]

NInit ==
  /\ Init
  /\ notice = [n \in Notices |-> NoNotice]
  /\ queue = [q \in Queues |-> <<>>]
  /\ working = {}
  /\ sent = [m \in Message |-> 0]
  /\ failed = {} /\ cut = {} /\ redone = {}

\* Kinds of events: ORDER_FILLED, of type Trading; AUCTION_OUTBID and
\* AUCTION_ACCEPTED, of type Auction; the others, for the channel only.
Kinds == {"Trading", "Auction", "Channel"}

\* getNotificationChannelsForUser
EmailFor(a, kind) ==
  IF a.emailConfirmed /\ On(a.channels["email"]) /\ On(a.types[kind])
  THEN a.email ELSE Null

ChatFor(a, kind) ==
  IF Has(a.chat) /\ On(a.channels["telegram"]) /\ On(a.types[kind])
  THEN a.chat ELSE Null

-----------------------------------------------------------------------------
(* Handlers. *)

Handling(n) == notice[n].pc \notin {"none", "done"}

Emit(n, kind, u) ==
  /\ notice[n].pc = "none"
  /\ notice' = [notice EXCEPT ![n].kind = kind, ![n].user = u,
                  ![n].pc = IF kind = "Trading" THEN "find" ELSE "channel"]
  /\ UNCHANGED <<vars, queue, working, sent, failed, cut, redone>>

\* sendTgNotification to the channel is awaited before anything else.
TellChannel(n) ==
  /\ notice[n].pc = "channel"
  /\ queue' = [queue EXCEPT !["tg"] = Append(@, <<n, EventChannel>>)]
  /\ notice' = [notice EXCEPT ![n].pc = IF notice[n].kind = "Channel" THEN "done" ELSE "find"]
  /\ UNCHANGED <<vars, working, sent, failed, cut, redone>>

FindUser(n) ==
  /\ notice[n].pc = "find"
  /\ LET a == user[notice[n].user] IN
     notice' = [notice EXCEPT
       ![n].pc = IF a.stored THEN "telegram" ELSE "done",
       ![n].chat = IF a.stored THEN ChatFor(a, notice[n].kind) ELSE Null,
       ![n].email = IF a.stored THEN EmailFor(a, notice[n].kind) ELSE Null]
  /\ UNCHANGED <<vars, queue, working, sent, failed, cut, redone>>

\* Mutant of QueueTelegram: whoever has a chat gets no e-mail.
QueueTelegramOnly(n) ==
  /\ notice[n].pc = "telegram"
  /\ queue' = IF Has(notice[n].chat)
              THEN [queue EXCEPT !["tg"] = Append(@, <<n, notice[n].chat>>)]
              ELSE queue
  /\ notice' = [notice EXCEPT ![n].pc = IF Has(notice[n].chat) THEN "done" ELSE "email"]
  /\ UNCHANGED <<vars, working, sent, failed, cut, redone>>

\* The Telegram job is awaited, and only then the e-mail job is added; that one
\* is not awaited: the handler counts as done when it is in the queue.
QueueTelegram(n) ==
  /\ notice[n].pc = "telegram"
  /\ queue' = IF Has(notice[n].chat)
              THEN [queue EXCEPT !["tg"] = Append(@, <<n, notice[n].chat>>)]
              ELSE queue
  /\ notice' = [notice EXCEPT ![n].pc = "email"]
  /\ UNCHANGED <<vars, working, sent, failed, cut, redone>>

QueueEmail(n) ==
  /\ notice[n].pc = "email"
  /\ queue' = IF Has(notice[n].email)
              THEN [queue EXCEPT !["mail"] = Append(@, <<n, notice[n].email>>)]
              ELSE queue
  /\ notice' = [notice EXCEPT ![n].pc = "done"]
  /\ UNCHANGED <<vars, working, sent, failed, cut, redone>>

\* A call throws: what the handler had still to do is lost.
HandlerFails(n) ==
  /\ Handling(n)
  /\ CountLoss
  /\ notice' = [notice EXCEPT ![n].pc = "done"]
  /\ cut' = cut \cup {n}
  /\ UNCHANGED <<Store, request, count, history, queue, working, sent, failed, redone>>

-----------------------------------------------------------------------------
(* Consumers. *)

\* The message goes out; an error is logged and the job is done all the same.
Deliver(q) ==
  /\ queue[q] # <<>> /\ q \notin working
  /\ working' = working \cup {q}
  /\ \/ sent' = [sent EXCEPT ![Head(queue[q])] = @ + 1] /\ UNCHANGED failed
     \/ failed' = failed \cup {Head(queue[q])} /\ UNCHANGED sent
  /\ UNCHANGED <<vars, notice, queue, cut, redone>>

Complete(q) ==
  /\ q \in working
  /\ queue' = [queue EXCEPT ![q] = Tail(@)]
  /\ working' = working \ {q}
  /\ UNCHANGED <<vars, notice, sent, failed, cut, redone>>

\* The queues and the collection stay, and a job in work is done again; events
\* that are being handled are gone.
Restart ==
  /\ Crash
  /\ notice' = [n \in Notices |->
                  IF Handling(n) THEN [notice[n] EXCEPT !.pc = "done"] ELSE notice[n]]
  /\ cut' = cut \cup {n \in Notices : Handling(n)}
  /\ redone' = redone \cup {Head(queue[q]) : q \in working}
  /\ working' = {}
  /\ UNCHANGED <<queue, sent, failed>>

-----------------------------------------------------------------------------
Accounts ==
  /\ \/ \E r \in Requests : Work(r)
     \/ \E u \in Users : Expire(u)
  /\ UNCHANGED notices

Handle(n) ==
  \/ \E kind \in Kinds, u \in Active : Emit(n, kind, u)
  \/ TellChannel(n)
  \/ FindUser(n)
  \/ QueueTelegram(n)
  \/ QueueEmail(n)
  \/ HandlerFails(n)

Consume(q) == Deliver(q) \/ Complete(q)

NNext ==
  \/ Accounts
  \/ \E n \in Notices : Handle(n)
  \/ \E q \in Queues : Consume(q)
  \/ Restart

NSpec == NInit /\ [][NNext]_allVars

-----------------------------------------------------------------------------
(* Properties. *)

\* Types of the variables, of accounts and of queues.
NTypeOK ==
  /\ TypeOK
  /\ \A q \in Queues : queue[q] \in Seq(Message)
  /\ working \subseteq {q \in Queues : queue[q] # <<>>}
  /\ sent \in [Message -> 0 .. 1 + MaxLosses]

\* Confirmed addresses are proven, and a mail about a user's orders and bids
\* goes to addresses that user has shown to own, although the handler works
\* with an account it read before and addresses come and go meanwhile; with
\* the two exceptions of ConfirmedIsProven.
OnlyProvenAddresses ==
  /\ ConfirmedIsProven
  /\ \A n \in Notices : \A e \in Emails :
       sent[<<n, e>>] > 0 /\ notice[n].user \notin Doubtful => e \in proven[notice[n].user]

Waiting(m) == \E q \in Queues : \E i \in DOMAIN queue[q] : queue[q][i] = m

\* An event that was handled to its end leaves no wanted message behind: each
\* is in a queue, out, or was refused by the service that sends it, crash or
\* not; and none goes out twice but one in work when the process dies.
DeliveredOnce ==
  /\ \A m \in Message : sent[m] > 1 => m \in redone
  /\ \A n \in Notices : notice[n].pc = "done" /\ n \notin cut =>
       \A to \in {notice[n].chat, notice[n].email}
                 \cup (IF notice[n].kind = "Trading" THEN {} ELSE {EventChannel}) :
         Has(to) =>
           Waiting(<<n, to>>) \/ sent[<<n, to>>] > 0 \/ <<n, to>> \in failed
=============================================================================
