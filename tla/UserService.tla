----------------------------- MODULE UserService -----------------------------
(***************************************************************************)
(* UserService and TelegramService: the accounts of users, their e-mail    *)
(* address and its confirmation, their Telegram chat, their name, settings *)
(* and bookmarks.                                                          *)
(*                                                                         *)
(* A request reads the account, then saves it; between the two any other   *)
(* request may run.  What a request is going to write is kept as a record  *)
(* of the fields it writes: a save writes the fields whose value changed,  *)
(* updateOne the fields it names, a whole map each time.                   *)
(***************************************************************************)
EXTENDS Integers, Sequences

CONSTANTS
  Users,        \* addresses
  Active,       \* bound: users who do more than choose a name
  Emails, Chats, Names,
  Watches, Labels,
  Types,        \* NOTIFICATION_TYPE
  Requests,     \* requests in progress at once
  MaxRequests,  \* bound: requests
  MaxLosses     \* bound: calls that fail, crashes

ASSUME AccountAssumption ==
  Active \subseteq Users /\ MaxRequests \in Nat /\ MaxLosses \in Nat

VARIABLES
  user,          \* users collection
  confirmation,  \* confirmationEmailCache: address and code by user, in memory
  mails,         \* confirmation codes that were mailed, and where to
  request,       \* what each request is at
  count,         \* requests so far
  losses,        \* calls that failed and crashes so far
  proven,        \* history: addresses of which each user has shown the code
  mixed,         \* history: users whose e-mail requests overlapped
  halfway,       \* history: users whose addEmail failed between saving the address
                 \* and storing its code, while the code for another was kept
  straddled      \* history: users unlinked while a chat was being linked

history == <<proven, mixed, halfway, straddled>>
vars == <<user, confirmation, mails, request, count, losses, history>>

\* A field is unset, set to null, or has a value.
Unset == "unset"
Null  == "null"
Has(x) == x \notin {Unset, Null}

Channels == {"email", "telegram"}
Settings == {Unset, Null, "false", "true"}
On(x) == x = "true"

NoCode == 0      \* no confirmation code
NullCode == -2   \* telegramConfirmationCode set to null
HasCode(c) == c \notin {NoCode, NullCode}

NoAccount ==
  [stored |-> FALSE, username |-> Unset, email |-> Unset,
   emailConfirmed |-> FALSE, chat |-> Unset, code |-> NoCode,
   channels |-> [c \in Channels |-> Unset], types |-> [t \in Types |-> Unset],
   bookmarks |-> {}]

\* Accounts as users have left them: none, everything set up, an address that
\* waits for its code, or one deleted while it did.  The code for Telegram and that one are -1.
AccountOf(kind, e, c) ==
  IF kind = "none" THEN NoAccount
  ELSE [NoAccount EXCEPT !.stored = TRUE, !.chat = c, !.code = -1,
                         !.email = IF kind = "deleted" THEN Null ELSE e,
                         !.emailConfirmed = (kind = "full"),
                         !.channels = [x \in Channels |-> "true"],
                         !.types = [t \in Types |-> "true"]]

NoConfirmation == [email |-> Unset, code |-> NoCode]

Idle == [pc |-> "idle", op |-> "none", user |-> "none", id |-> 0,
         to |-> Unset, write |-> <<>>]

-----------------------------------------------------------------------------
Init ==
  /\ \E v \in Active, kind \in {"none", "full", "pending", "deleted"}, e \in Emails, c \in Chats :
       LET sent == [email |-> e, code |-> -1]
           waits == kind \in {"pending", "deleted"} IN
         /\ user = [u \in Users |-> IF u = v THEN AccountOf(kind, e, c) ELSE NoAccount]
         /\ proven = [u \in Users |-> IF u = v /\ kind = "full" THEN {e} ELSE {}]
         /\ confirmation = [u \in Users |-> IF u = v /\ waits THEN sent
                                             ELSE NoConfirmation]
         /\ mails = IF waits THEN {sent} ELSE {}
  /\ request = [r \in Requests |-> Idle]
  /\ count = 0
  /\ losses = 0
  /\ mixed = {} /\ halfway = {} /\ straddled = {}

\* What a save writes: the fields of a document that were changed.
Changes(old, new) ==
  [f \in {g \in DOMAIN new : new[g] # old[g]} |-> new[f]]

\* A document that was not found is created.
Saved(u, new) == Changes(user[u], [new EXCEPT !.stored = TRUE])

Store == <<user, confirmation, mails>>

\* The addresses a code was mailed to.
MailedTo(code) == {m.email : m \in {n \in mails : n.code = code}}

EmailRequests == {"addEmail", "confirmEmail", "deleteEmail"}
ChatRequests  == {"start", "deleteTelegram"}

\* A request of u begins; "to" is the address or the chat it is about.
Begin(r, op, u, pc, write, to) ==
  LET others(ops) == \E s \in Requests : request[s].op \in ops /\ request[s].user = u
  IN /\ request[r] = Idle
     /\ count < MaxRequests
     /\ count' = count + 1
     /\ request' = [request EXCEPT ![r] =
                      [pc |-> pc, op |-> op, user |-> u, id |-> count',
                       to |-> to, write |-> write]]
     /\ mixed' = IF op \in EmailRequests /\ others(EmailRequests)
                 THEN mixed \cup {u} ELSE mixed
     /\ straddled' = IF op \in ChatRequests /\ others(ChatRequests)
                     THEN straddled \cup {u} ELSE straddled
     /\ proven' = IF op = "confirmEmail"
                  THEN [proven EXCEPT ![u] = @ \cup MailedTo(confirmation[u].code)]
                  ELSE proven
     /\ UNCHANGED <<Store, losses, halfway>>

End(r) == request' = [request EXCEPT ![r] = Idle]

-----------------------------------------------------------------------------
(* The first half of each request: what it reads and is going to write.    *)

\* getProfile gives a code to an account that has none, and creates it.
GetProfile(r, u) ==
  /\ ~ HasCode(user[u].code)
  /\ Begin(r, "getProfile", u, "save",
           Saved(u, [user[u] EXCEPT !.code = count + 1]), Unset)

\* The settings of a client that has everything switched on.
UpdateProfile(r, u, n) ==
  /\ Begin(r, "updateProfile", u,
           IF Has(n) /\ n # user[u].username THEN "username" ELSE "save",
           Saved(u, [user[u] EXCEPT !.username = n,
                                    !.channels = [c \in Channels |-> "true"],
                                    !.types = [t \in Types |-> "true"]]), Unset)

\* getUserOrCreate, then updateOne of the map that was read.
UpdateNotificationType(r, u, t, s) ==
  /\ Begin(r, "type", u, IF user[u].stored THEN "save" ELSE "create",
           [types |-> [user[u].types EXCEPT ![t] = s]], Unset)

\* Mutant of UpdateNotificationChannel: the account is not created first.
UpdateChannelUncreated(r, u, c, s) ==
  /\ Begin(r, "channel", u, "save",
           [channels |-> [user[u].channels EXCEPT ![c] = s]], Unset)

UpdateNotificationChannel(r, u, c, s) ==
  /\ Begin(r, "channel", u, IF user[u].stored THEN "save" ELSE "create",
           [channels |-> [user[u].channels EXCEPT ![c] = s]], Unset)

AddUsername(r, u, n) ==
  /\ ~ Has(user[u].username)
  /\ Begin(r, "addUsername", u, IF user[u].stored THEN "username" ELSE "create",
           [username |-> n], Unset)

\* Mutant of AddEmail: the new address is not set to unconfirmed.
AddEmailKeepsFlag(r, u, e) ==
  /\ ~ (Has(user[u].email) /\ user[u].emailConfirmed)
  /\ Begin(r, "addEmail", u, "save", Saved(u, [user[u] EXCEPT !.email = e]), e)

AddEmail(r, u, e) ==
  /\ ~ (Has(user[u].email) /\ user[u].emailConfirmed)
  /\ Begin(r, "addEmail", u, "save",
           Saved(u, [user[u] EXCEPT !.email = e, !.emailConfirmed = FALSE]), e)

\* The code is compared before the account is read.
ConfirmEmail(r, u, code) ==
  /\ confirmation[u].code = code
  /\ Begin(r, "confirmEmail", u, "find", <<>>, Unset)

DeleteEmail(r, u) ==
  /\ user[u].stored
  /\ Begin(r, "deleteEmail", u, "save",
           Saved(u, [user[u] EXCEPT !.channels["email"] = Null, !.email = Null,
                                    !.emailConfirmed = FALSE]), Unset)

\* Mutant of DeleteTelegram: the chat stays.
DeleteTelegramKeepsChat(r, u) ==
  /\ user[u].stored
  /\ Begin(r, "deleteTelegram", u, "save",
           Saved(u, [user[u] EXCEPT !.channels["telegram"] = Null,
                                    !.code = NullCode]), Unset)

DeleteTelegram(r, u) ==
  /\ user[u].stored
  /\ Begin(r, "deleteTelegram", u, "save",
           Saved(u, [user[u] EXCEPT !.channels["telegram"] = Null, !.chat = Null,
                                    !.code = NullCode]), Unset)

\* handleBotStart: getAddressFromStartPayload.
StartBot(r, u, c) ==
  /\ HasCode(user[u].code)
  /\ Begin(r, "start", u, "find", <<>>, c)

\* Bookmarks are pairs of a watch and a label.
AddWatchBookmarks(r, u, w, labels) ==
  /\ user[u].stored
  /\ Begin(r, "addBookmarks", u, "save",
           Saved(u, [user[u] EXCEPT !.bookmarks = @ \cup ({w} \X labels)]), Unset)

DeleteWatchBookmarks(r, u, w, labels) ==
  /\ \E b \in user[u].bookmarks : b[1] = w
  /\ Begin(r, "deleteBookmarks", u, "save",
           [bookmarks |-> user[u].bookmarks \ ({w} \X labels)], Unset)

-----------------------------------------------------------------------------
(* The second half.                                                        *)

Goes(r, pc, write) ==
  request' = [request EXCEPT ![r].pc = pc, ![r].write = write]

\* getUserOrCreate inserts an account; the index refuses a second one.
CreateUser(r) ==
  /\ request[r].pc = "create"
  /\ LET u == request[r].user IN
     IF user[u].stored
     THEN End(r) /\ UNCHANGED user
     ELSE /\ user' = [user EXCEPT ![u].stored = TRUE]
          /\ Goes(r, IF request[r].op = "addUsername" THEN "username" ELSE "save",
                  request[r].write)
  /\ UNCHANGED <<confirmation, mails, count, losses, history>>

\* findOne of the wanted name; no index forbids a second one.
CheckUsername(r) ==
  /\ request[r].pc = "username"
  /\ IF \E u \in Users : user[u].username = request[r].write.username
     THEN End(r)
     ELSE Goes(r, "save", request[r].write)
  /\ UNCHANGED <<Store, count, losses, history>>

\* confirmEmail reads the account; nothing compares its address with the one
\* the code was mailed to.
FindToConfirm(r) ==
  /\ request[r].pc = "find" /\ request[r].op = "confirmEmail"
  /\ LET old == user[request[r].user] IN
     IF Has(old.email) /\ old.emailConfirmed
     THEN End(r)
     ELSE Goes(r, "save", Changes(old, [old EXCEPT !.emailConfirmed = TRUE]))
  /\ UNCHANGED <<Store, count, losses, history>>

\* updateUserTelegram reads the account again.
FindToLink(r) ==
  /\ request[r].pc = "find" /\ request[r].op = "start"
  /\ LET old == user[request[r].user] IN
     Goes(r, "save", Changes(old, [old EXCEPT !.chat = request[r].to,
                                              !.channels["telegram"] = "true"]))
  /\ UNCHANGED <<Store, count, losses, history>>

\* A second account of an address is refused by the index.
DuplicateUser(r) ==
  /\ request[r].pc = "save"
  /\ "stored" \in DOMAIN request[r].write /\ user[request[r].user].stored
  /\ End(r)
  /\ UNCHANGED <<Store, count, losses, history>>

\* Mutant of Written: the document is replaced.
WrittenWhole(old, write) ==
  [f \in DOMAIN old |-> IF f \in DOMAIN write THEN write[f]
                        ELSE [NoAccount EXCEPT !.stored = TRUE][f]]

\* An account after a write: a field that is not written stays.
Written(old, write) ==
  [f \in DOMAIN old |-> IF f \in DOMAIN write THEN write[f] ELSE old[f]]

Save(r) ==
  /\ request[r].pc = "save"
  /\ "stored" \in DOMAIN request[r].write => ~ user[request[r].user].stored
  /\ user' = [user EXCEPT ![request[r].user] = Written(@, request[r].write)]
  /\ IF request[r].op = "addEmail" THEN Goes(r, "code", <<>>) ELSE End(r)
  /\ UNCHANGED <<confirmation, mails, count, losses, history>>

\* addEmail caches a code and mails it; the mail may not go out.
StoreCode(r) ==
  /\ request[r].pc = "code"
  /\ LET new == [email |-> request[r].to, code |-> request[r].id] IN
     /\ confirmation' = [confirmation EXCEPT ![request[r].user] = new]
     /\ \/ mails' = mails \cup {new}
        \/ UNCHANGED mails
  /\ End(r)
  /\ UNCHANGED <<user, count, losses, history>>

-----------------------------------------------------------------------------
CountLoss == losses < MaxLosses /\ losses' = losses + 1

\* A call throws.  The save of addEmail may have been done all the same: then
\* the account has the new address, and the code that is kept is for the old one.
RequestFails(r) ==
  LET u == request[r].user
      other == confirmation[u] # NoConfirmation /\ confirmation[u].email # request[r].to
  IN /\ request[r] # Idle
     /\ CountLoss
     /\ halfway' = IF request[r].pc = "code" /\ other THEN halfway \cup {u} ELSE halfway
     /\ End(r)
     /\ UNCHANGED <<Store, count, proven, mixed, straddled>>

\* The hour of a code is over.
Expire(u) ==
  /\ confirmation[u] # NoConfirmation
  /\ confirmation' = [confirmation EXCEPT ![u] = NoConfirmation]
  /\ UNCHANGED <<user, mails, request, count, losses, history>>

\* Codes are in memory only.
Crash ==
  /\ CountLoss
  /\ request' = [r \in Requests |-> Idle]
  /\ confirmation' = [u \in Users |-> NoConfirmation]
  /\ UNCHANGED <<user, mails, count, history>>

-----------------------------------------------------------------------------
\* What a user asks for, each for the account of the token sent along, and
\* what the bot is sent.
Ask(r, u) ==
  \/ GetProfile(r, u)
  \/ \E n \in Names \cup {Null} : UpdateProfile(r, u, n)
  \/ \E t \in Types, s \in {"false", "true"} : UpdateNotificationType(r, u, t, s)
  \/ \E c \in Channels, s \in {"false", "true"} : UpdateNotificationChannel(r, u, c, s)
  \/ \E e \in Emails : AddEmail(r, u, e)
  \/ \E m \in mails : ConfirmEmail(r, u, m.code)
  \/ DeleteEmail(r, u)
  \/ DeleteTelegram(r, u)
  \/ \E c \in Chats : StartBot(r, u, c)
  \/ \E w \in Watches, labels \in SUBSET Labels \ {{}} :
       AddWatchBookmarks(r, u, w, labels) \/ DeleteWatchBookmarks(r, u, w, labels)

Proceed(r) ==
  \/ CreateUser(r)
  \/ CheckUsername(r)
  \/ FindToConfirm(r)
  \/ FindToLink(r)
  \/ DuplicateUser(r)
  \/ Save(r)
  \/ StoreCode(r)

Work(r) ==
  \/ \E u \in Users, n \in Names : AddUsername(r, u, n)
  \/ \E u \in Active : Ask(r, u)
  \/ Proceed(r)
  \/ RequestFails(r)

Next ==
  \/ \E r \in Requests : Work(r)
  \/ \E u \in Users : Expire(u)
  \/ Crash

Spec == Init /\ [][Next]_vars

-----------------------------------------------------------------------------
(* Properties. *)

\* Types of the variables; nothing is written to an account that is not there.
TypeOK ==
  /\ user \in [Users ->
       [stored : BOOLEAN, username : Names \cup {Unset, Null},
        email : Emails \cup {Unset, Null}, emailConfirmed : BOOLEAN,
        chat : Chats \cup {Unset, Null}, code : -2 .. MaxRequests,
        channels : [Channels -> Settings], types : [Types -> Settings],
        bookmarks : SUBSET (Watches \X Labels)]]
  /\ \A u \in Users : ~ user[u].stored => user[u] = NoAccount
  /\ \A r \in Requests : DOMAIN request[r].write \subseteq DOMAIN NoAccount

\* Users who may confirm an address they have not shown to own: confirmEmail
\* takes any address the account has by then for the one its code was mailed to.
Doubtful == mixed \cup halfway

\* The confirmed address of an account is one whose code its user has shown,
\* although codes outlive the address they were mailed to (deleteEmail) and a
\* confirmation compares no addresses.  Two exceptions: e-mail requests of the
\* user overlapped, or an addEmail failed after its save while the code for
\* another address was kept: that code now confirms the new one.
ConfirmedIsProven ==
  \A u \in Users \ Doubtful :
    user[u].emailConfirmed /\ Has(user[u].email) => user[u].email \in proven[u]

\* A chat stays linked only as long as the code it was linked by, or a later
\* one, is there: whoever unlinks Telegram gets rid of both, unless the bot was
\* being started meanwhile.
LinkedHasCode ==
  \A u \in Users \ straddled : Has(user[u].chat) => HasCode(user[u].code)

\* The fields each request is about.
Concern(op) ==
  CASE op = "getProfile"    -> {"code"}
    [] op = "updateProfile" -> {"username", "channels", "types"}
    [] op = "type"          -> {"types"}
    [] op = "channel"       -> {"channels"}
    [] op = "addUsername"   -> {"username"}
    [] op \in {"addEmail", "confirmEmail"} -> {"email", "emailConfirmed"}
    [] op = "deleteEmail"   -> {"email", "emailConfirmed", "channels"}
    [] op = "start"         -> {"chat", "channels"}
    [] op = "deleteTelegram" -> {"chat", "code", "channels"}
    [] OTHER                -> {"bookmarks"}

\* However requests overlap, one never undoes what another has saved in a field
\* it is not about, although it saves a document read before.
OwnFieldsOnly ==
  [][\A u \in Users : \A f \in DOMAIN NoAccount \ {"stored"} :
       user'[u][f] # user[u][f] =>
         \E r \in Requests : request[r] # request'[r] /\ request[r].user = u
                             /\ f \in Concern(request[r].op)]_vars
=============================================================================
