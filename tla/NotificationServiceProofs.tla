----------------------- MODULE NotificationServiceProofs -----------------------
(***************************************************************************)
(* Proofs about UserService, and about NotificationService and its queues  *)
(* over it, for any number of events, users, requests, failures and        *)
(* restarts.                                                               *)
(***************************************************************************)
EXTENDS NotificationService, SequenceTheorems, TLAPS

-----------------------------------------------------------------------------
(* Shapes. *)

Fields == {"stored", "username", "email", "emailConfirmed", "chat", "code",
           "channels", "types", "bookmarks"}

Account ==
  [stored : BOOLEAN, username : Names \cup {Unset, Null},
   email : Emails \cup {Unset, Null}, emailConfirmed : BOOLEAN,
   chat : Chats \cup {Unset, Null}, code : -2 .. MaxRequests,
   channels : [Channels -> Settings], types : [Types -> Settings],
   bookmarks : SUBSET (Watches \X Labels)]

Value(f) ==
  CASE f \in {"stored", "emailConfirmed"} -> BOOLEAN
    [] f = "username"  -> Names \cup {Unset, Null}
    [] f = "email"     -> Emails \cup {Unset, Null}
    [] f = "chat"      -> Chats \cup {Unset, Null}
    [] f = "code"      -> -2 .. MaxRequests
    [] f = "channels"  -> [Channels -> Settings]
    [] f = "types"     -> [Types -> Settings]
    [] f = "bookmarks" -> SUBSET (Watches \X Labels)

\* What a request is going to write.
WriteOK(w) ==
  /\ DOMAIN w \subseteq Fields
  /\ \A f \in DOMAIN w : w[f] \in Value(f)
  /\ "stored" \in DOMAIN w => w["stored"] = TRUE

Opened == {u \in Users : user[u].stored}

Ops == {"getProfile", "updateProfile", "type", "channel", "addUsername", "addEmail",
        "confirmEmail", "deleteEmail", "deleteTelegram", "start", "addBookmarks",
        "deleteBookmarks"}

RequestFields == {"pc", "op", "user", "id", "to", "write"}

\* Where the request of an operation is, given the accounts there are.
Phase(op, u, pc, w, open) ==
  \/ pc \in {"save", "username"} /\ ("stored" \in DOMAIN w \/ u \in open)
  \/ pc = "create" /\ op \in {"type", "channel", "addUsername"}
  \/ pc = "find" /\ op \in {"confirmEmail", "start"} /\ u \in open
  \/ pc = "code" /\ op = "addEmail" /\ u \in open

JobOK(op, u, pc, w, to, open) ==
  /\ op \in Ops /\ u \in Users
  /\ WriteOK(w) /\ DOMAIN w \ {"stored"} \subseteq Concern(op)
  /\ op = "addEmail" => to \in Emails
  /\ op = "start" => to \in Chats
  /\ Phase(op, u, pc, w, open)

RequestOK(q, open, n) ==
  \/ q = Idle
  \/ /\ DOMAIN q = RequestFields /\ q.id \in 1 .. n
     /\ JobOK(q.op, q.user, q.pc, q.write, q.to, open)

AccountsOK ==
  /\ user \in [Users -> Account]
  /\ \A u \in Users \ Opened : user[u] = NoAccount

RequestsOK ==
  /\ request = [r \in Requests |-> request[r]]
  /\ \A r \in Requests : RequestOK(request[r], Opened, count)

Codes == {[email |-> e, code |-> c] : e \in Emails, c \in (-2 .. MaxRequests) \ {NoCode}}

\* Codes are for accounts that are there.
CodesOK ==
  /\ mails \subseteq Codes
  /\ confirmation \in [Users -> Codes \cup {NoConfirmation}]
  /\ \A u \in Users : confirmation[u] # NoConfirmation => u \in Opened

Shapes ==
  /\ AccountsOK /\ RequestsOK /\ CodesOK /\ count \in 0 .. MaxRequests
  /\ proven = [u \in Users |-> proven[u]]

\* The value a field has after a write.
After(w, u, f) == IF f \in DOMAIN w THEN w[f] ELSE user[u][f]

\* What a request writes when it begins.
Begins(op, u, pc, w, to) ==
  /\ JobOK(op, u, pc, w, to, Opened)
  /\ op = "addEmail" =>
       /\ pc = "save"
       /\ After(w, u, "email") = to /\ After(w, u, "emailConfirmed") = FALSE
  /\ op = "deleteEmail" => pc = "save" /\ After(w, u, "email") = Null
  /\ op = "confirmEmail" =>
       pc = "find" /\ w = <<>> /\ \E m \in mails : confirmation[u].code = m.code
  /\ op = "start" => pc = "find" /\ HasCode(user[u].code)
  /\ op = "deleteTelegram" => pc = "save" /\ After(w, u, "chat") = Null
  /\ op = "getProfile" => pc = "save" /\ "code" \in DOMAIN w /\ HasCode(w["code"])

-----------------------------------------------------------------------------
(* Accounts and what is written to them. *)

LEMMA AccountFields ==
  ASSUME NEW a \in Account
  PROVE  /\ DOMAIN a = Fields
         /\ \A f \in Fields : a[f] \in Value(f)
<1>1. DOMAIN a = Fields
  BY DEF Account, Fields
<1>2. /\ a["stored"] \in Value("stored") /\ a["emailConfirmed"] \in Value("emailConfirmed")
      /\ a["username"] \in Value("username") /\ a["email"] \in Value("email")
      /\ a["chat"] \in Value("chat") /\ a["code"] \in Value("code")
      /\ a["channels"] \in Value("channels") /\ a["types"] \in Value("types")
      /\ a["bookmarks"] \in Value("bookmarks")
  BY DEF Account, Value
<1> QED
  BY <1>1, <1>2 DEF Fields

LEMMA FieldsAccount ==
  ASSUME NEW a, a = [f \in Fields |-> a[f]], \A f \in Fields : a[f] \in Value(f)
  PROVE  a \in Account
<1>1. /\ a["stored"] \in BOOLEAN /\ a["emailConfirmed"] \in BOOLEAN
      /\ a["username"] \in Names \cup {Unset, Null} /\ a["email"] \in Emails \cup {Unset, Null}
      /\ a["chat"] \in Chats \cup {Unset, Null} /\ a["code"] \in -2 .. MaxRequests
      /\ a["channels"] \in [Channels -> Settings] /\ a["types"] \in [Types -> Settings]
      /\ a["bookmarks"] \in SUBSET (Watches \X Labels)
  BY DEF Fields, Value
<1> QED
  BY <1>1 DEF Account, Fields

LEMMA NoAccountOK ==
  /\ NoAccount \in Account /\ DOMAIN NoAccount = Fields
  /\ NoAccount.stored = FALSE /\ NoAccount.code = NoCode
BY AccountAssumption DEF NoAccount, Account, Fields, Unset, NoCode, Settings

LEMMA WrittenOK ==
  ASSUME NEW a \in Account, NEW w, WriteOK(w)
  PROVE  /\ Written(a, w) \in Account
         /\ \A f \in Fields : Written(a, w)[f] = IF f \in DOMAIN w THEN w[f] ELSE a[f]
         /\ a.stored => Written(a, w).stored
<1> DEFINE b == Written(a, w)
<1>1. DOMAIN a = Fields
  BY AccountFields
<1>2. b = [f \in Fields |-> IF f \in DOMAIN w THEN w[f] ELSE a[f]]
  BY <1>1 DEF Written
<1>3. \A f \in Fields : b[f] = IF f \in DOMAIN w THEN w[f] ELSE a[f]
  BY <1>2
<1>4. \A f \in Fields : b[f] \in Value(f)
  BY <1>3, AccountFields DEF WriteOK
<1>5. b = [f \in Fields |-> b[f]]
  BY <1>2
<1> HIDE DEF b
<1>6. b \in Account
  BY <1>4, <1>5, FieldsAccount
<1>7. a.stored => b.stored
  BY <1>3 DEF WriteOK, Fields
<1> QED
  BY <1>3, <1>6, <1>7 DEF b

LEMMA ChangesOK ==
  ASSUME NEW old \in Account, NEW new \in Account, old.stored => new.stored
  PROVE  /\ WriteOK(Changes(old, new))
         /\ \A f \in Fields :
              /\ f \in DOMAIN Changes(old, new) <=> new[f] # old[f]
              /\ f \in DOMAIN Changes(old, new) => Changes(old, new)[f] = new[f]
<1>1. DOMAIN new = Fields /\ \A f \in Fields : new[f] \in Value(f)
  BY AccountFields
<1> DEFINE w == Changes(old, new)
<1>2. DOMAIN w = {f \in Fields : new[f] # old[f]} /\ \A f \in DOMAIN w : w[f] = new[f]
  BY <1>1 DEF Changes
<1>3. "stored" \in DOMAIN w => w["stored"] = TRUE
  <2>1. old.stored \in BOOLEAN /\ new.stored \in BOOLEAN
    BY DEF Account
  <2> QED
    BY <1>2, <2>1
<1> HIDE DEF w
<1> QED
  BY <1>1, <1>2, <1>3 DEF w, WriteOK

\* What a request is to write that saves an edited account.
LEMMA SavedOK ==
  ASSUME Shapes, NEW u \in Users, NEW new \in Account, new.stored
  PROVE  /\ WriteOK(Changes(user[u], new))
         /\ "stored" \in DOMAIN Changes(user[u], new) \/ u \in Opened
         /\ \A f \in Fields :
              /\ After(Changes(user[u], new), u, f) = new[f]
              /\ f \in DOMAIN Changes(user[u], new) =>
                   new[f] # user[u][f] /\ Changes(user[u], new)[f] = new[f]
<1>1. user[u] \in Account
  BY DEF Shapes, AccountsOK
<1>2. /\ WriteOK(Changes(user[u], new))
      /\ \A f \in Fields :
           /\ f \in DOMAIN Changes(user[u], new) <=> new[f] # user[u][f]
           /\ f \in DOMAIN Changes(user[u], new) => Changes(user[u], new)[f] = new[f]
  BY <1>1, ChangesOK
<1>3. u \in Opened \/ new["stored"] # user[u]["stored"]
  BY <1>1 DEF Opened, Account
<1> QED
  BY <1>2, <1>3 DEF After, Fields

\* Accounts as the requests edit them.
WithCode(a, n) ==
  [[a EXCEPT !.code = n]
     EXCEPT !.stored = TRUE]

WithSettings(a, n) ==
  [[a EXCEPT !.username = n, !.channels = [c \in Channels |-> "true"],
             !.types = [t \in Types |-> "true"]]
     EXCEPT !.stored = TRUE]

WithEmail(a, e) ==
  [[a EXCEPT !.email = e, !.emailConfirmed = FALSE]
     EXCEPT !.stored = TRUE]

WithNoEmail(a) ==
  [[a EXCEPT !.channels["email"] = Null, !.email = Null,
             !.emailConfirmed = FALSE]
     EXCEPT !.stored = TRUE]

WithNoChat(a) ==
  [[a EXCEPT !.channels["telegram"] = Null, !.chat = Null,
             !.code = NullCode]
     EXCEPT !.stored = TRUE]

WithBookmarks(a, s) ==
  [[a EXCEPT !.bookmarks = s]
     EXCEPT !.stored = TRUE]

\* What else there is stays.
LEMMA EditCode ==
  ASSUME NEW a \in Account, NEW n \in 1 .. MaxRequests
  PROVE  LET b == WithCode(a, n) IN
         /\ b \in Account /\ b.stored /\ b["code"] = n
         /\ \A f \in Fields \ {"stored", "code"} : b[f] = a[f]
<1>1. n \in -2 .. MaxRequests
  BY AccountAssumption
<1> QED
  BY <1>1 DEF Account, Fields, WithCode

LEMMA EditSettings ==
  ASSUME NEW a \in Account, NEW n \in Names \cup {Null}
  PROVE  LET b == WithSettings(a, n) IN
         /\ b \in Account /\ b.stored
         /\ \A f \in Fields \ {"stored", "username", "channels", "types"} : b[f] = a[f]
BY DEF Account, Fields, WithSettings, Settings

LEMMA EditEmail ==
  ASSUME NEW a \in Account, NEW e \in Emails
  PROVE  LET b == WithEmail(a, e) IN
         /\ b \in Account /\ b.stored /\ b["email"] = e /\ b["emailConfirmed"] = FALSE
         /\ \A f \in Fields \ {"stored", "email", "emailConfirmed"} : b[f] = a[f]
BY DEF Account, Fields, WithEmail

LEMMA EditNoEmail ==
  ASSUME NEW a \in Account
  PROVE  LET b == WithNoEmail(a) IN
         /\ b \in Account /\ b.stored /\ b["email"] = Null
         /\ \A f \in Fields \ {"stored", "email", "emailConfirmed", "channels"} : b[f] = a[f]
BY DEF Account, Fields, WithNoEmail, Settings

LEMMA EditNoChat ==
  ASSUME NEW a \in Account
  PROVE  LET b == WithNoChat(a) IN
         /\ b \in Account /\ b.stored /\ b["chat"] = Null
         /\ \A f \in Fields \ {"stored", "chat", "code", "channels"} : b[f] = a[f]
<1>1. NullCode \in -2 .. MaxRequests
  BY AccountAssumption DEF NullCode
<1> QED
  BY <1>1 DEF Account, Fields, WithNoChat, Settings

LEMMA EditBookmarks ==
  ASSUME NEW a \in Account, NEW s \in SUBSET (Watches \X Labels)
  PROVE  LET b == WithBookmarks(a, s) IN
         /\ b \in Account /\ b.stored
         /\ \A f \in Fields \ {"stored", "bookmarks"} : b[f] = a[f]
BY DEF Account, Fields, WithBookmarks

-----------------------------------------------------------------------------
(* What a request begins with. *)

\* A request begins that is as it should be.
Started(r, op, u, pc, w, to) ==
  Begin(r, op, u, pc, w, to) /\ Begins(op, u, pc, w, to)

Starts(r, u) == \E op, pc, w, to : Started(r, op, u, pc, w, to)

\* A write of an edited account begins well when the edit is about its fields.
LEMMA SavedBegins ==
  ASSUME Shapes, NEW u \in Users, NEW op \in Ops, NEW b \in Account, b.stored,
         \A f \in Fields \ {"stored"} : f \notin Concern(op) => b[f] = user[u][f]
  PROVE  /\ WriteOK(Changes(user[u], b))
         /\ DOMAIN Changes(user[u], b) \ {"stored"} \subseteq Concern(op)
         /\ "stored" \in DOMAIN Changes(user[u], b) \/ u \in Opened
         /\ \A f \in Fields : After(Changes(user[u], b), u, f) = b[f]
         /\ \A f \in Fields : b[f] # user[u][f] =>
              /\ f \in DOMAIN Changes(user[u], b)
              /\ Changes(user[u], b)[f] = b[f]
<1>1. user[u] \in Account
  BY DEF Shapes, AccountsOK
<1>2. user[u].stored => b.stored
  OBVIOUS
<1>3. \A f \in Fields : f \in DOMAIN Changes(user[u], b) <=> b[f] # user[u][f]
  BY <1>1, <1>2, ChangesOK
<1>4. DOMAIN Changes(user[u], b) \subseteq Fields
  BY SavedOK DEF WriteOK
<1>5. DOMAIN Changes(user[u], b) \ {"stored"} \subseteq Concern(op)
  BY <1>3, <1>4
<1> QED
  BY <1>3, <1>5, SavedOK

\* A write of one field.
LEMMA SingleWrite ==
  /\ \A x \in Value("types") : WriteOK([types |-> x]) /\ DOMAIN [types |-> x] = {"types"}
  /\ \A x \in Value("channels") :
       WriteOK([channels |-> x]) /\ DOMAIN [channels |-> x] = {"channels"}
  /\ \A x \in Value("username") :
       WriteOK([username |-> x]) /\ DOMAIN [username |-> x] = {"username"}
  /\ \A x \in Value("bookmarks") :
       WriteOK([bookmarks |-> x]) /\ DOMAIN [bookmarks |-> x] = {"bookmarks"}
  /\ WriteOK(<<>>) /\ DOMAIN <<>> = {}
BY DEF WriteOK, Fields

LEMMA ProfileStarts ==
  ASSUME Shapes, NEW r \in Requests, NEW u \in Users, GetProfile(r, u)
  PROVE  Starts(r, u)
<1> DEFINE n == count + 1
           b == WithCode(user[u], n)
           w == Changes(user[u], b)
<1>1. n \in 1 .. MaxRequests /\ user[u] \in Account
  BY AccountAssumption DEF GetProfile, Begin, Shapes, AccountsOK
<1>2. /\ b \in Account /\ b.stored /\ b["code"] = n
      /\ \A f \in Fields \ {"stored", "code"} : b[f] = user[u][f]
  BY <1>1, EditCode
<1>3. Begin(r, "getProfile", u, "save", w, Unset)
  BY DEF GetProfile, Saved, WithCode
<1>4. ~ HasCode(user[u]["code"])
  BY DEF GetProfile
<1>5. HasCode(n)
  BY <1>1 DEF HasCode, NoCode, NullCode
<1> HIDE DEF b, n
<1>6. \A f \in Fields \ {"stored"} : f \notin Concern("getProfile") => b[f] = user[u][f]
  BY <1>2 DEF Concern
<1>7. "getProfile" \in Ops /\ "code" \in Fields
  BY DEF Ops, Fields
<1>8. /\ WriteOK(w) /\ DOMAIN w \ {"stored"} \subseteq Concern("getProfile")
      /\ "stored" \in DOMAIN w \/ u \in Opened
      /\ "code" \in DOMAIN w /\ w["code"] = n
  <2>1. b["code"] # user[u]["code"]
    BY <1>2, <1>4, <1>5
  <2> QED
    BY <1>2, <1>6, <1>7, <2>1, SavedBegins
<1> HIDE DEF w
<1>9. Begins("getProfile", u, "save", w, Unset)
  BY <1>5, <1>7, <1>8 DEF Begins, JobOK, Phase
<1> QED
  BY <1>3, <1>9 DEF Starts, Started

LEMMA SettingsStart ==
  ASSUME Shapes, NEW r \in Requests, NEW u \in Users,
         \/ \E n \in Names \cup {Null} : UpdateProfile(r, u, n)
         \/ \E t \in Types, s \in {"false", "true"} : UpdateNotificationType(r, u, t, s)
         \/ \E c \in Channels, s \in {"false", "true"} : UpdateNotificationChannel(r, u, c, s)
         \/ \E n \in Names : AddUsername(r, u, n)
  PROVE  Starts(r, u)
<1>1. /\ user[u] \in Account
      /\ user[u].channels \in [Channels -> Settings] /\ user[u].types \in [Types -> Settings]
  BY DEF Shapes, AccountsOK, Account
<1>2. ASSUME NEW n \in Names \cup {Null}, UpdateProfile(r, u, n)
      PROVE  Starts(r, u)
  <2> DEFINE b == WithSettings(user[u], n)
             w == Changes(user[u], b)
             pc == IF Has(n) /\ n # user[u].username THEN "username" ELSE "save"
  <2>1. /\ b \in Account /\ b.stored
        /\ \A f \in Fields \ {"stored", "username", "channels", "types"} : b[f] = user[u][f]
    BY <1>1, EditSettings
  <2>2. Begin(r, "updateProfile", u, pc, w, Unset)
    BY <1>2 DEF UpdateProfile, Saved, WithSettings
  <2> HIDE DEF b
  <2>3. \A f \in Fields \ {"stored"} : f \notin Concern("updateProfile") => b[f] = user[u][f]
    BY <2>1 DEF Concern
  <2>4. "updateProfile" \in Ops
    BY DEF Ops
  <2>5. /\ WriteOK(w) /\ DOMAIN w \ {"stored"} \subseteq Concern("updateProfile")
        /\ "stored" \in DOMAIN w \/ u \in Opened
    BY <2>1, <2>3, <2>4, SavedBegins
  <2>6. pc \in {"save", "username"}
    OBVIOUS
  <2> HIDE DEF w, pc
  <2>7. Begins("updateProfile", u, pc, w, Unset)
    BY <2>4, <2>5, <2>6 DEF Begins, JobOK, Phase
  <2> QED
    BY <2>2, <2>7 DEF Starts, Started
<1>3. ASSUME NEW t \in Types, NEW s \in {"false", "true"}, UpdateNotificationType(r, u, t, s)
      PROVE  Starts(r, u)
  <2> DEFINE m == [user[u].types EXCEPT ![t] = s]
             w == [types |-> m]
             pc == IF user[u].stored THEN "save" ELSE "create"
  <2>1. Begin(r, "type", u, pc, w, Unset)
    BY <1>3 DEF UpdateNotificationType
  <2>2. m \in [Types -> Settings]
    BY <1>1 DEF Settings
  <2> HIDE DEF m
  <2>3. WriteOK(w) /\ DOMAIN w \ {"stored"} \subseteq Concern("type")
    <3>1. m \in Value("types") /\ Concern("type") = {"types"}
      BY <2>2 DEF Value, Concern
    <3> QED
      BY <3>1, SingleWrite
  <2>4. pc = "create" \/ (pc = "save" /\ u \in Opened)
    BY DEF Opened
  <2> HIDE DEF w, pc
  <2>5. Begins("type", u, pc, w, Unset)
    BY <2>3, <2>4 DEF Begins, JobOK, Phase, Ops
  <2> QED
    BY <2>1, <2>5 DEF Starts, Started
<1>4. ASSUME NEW c \in Channels, NEW s \in {"false", "true"},
             UpdateNotificationChannel(r, u, c, s)
      PROVE  Starts(r, u)
  <2> DEFINE m == [user[u].channels EXCEPT ![c] = s]
             w == [channels |-> m]
             pc == IF user[u].stored THEN "save" ELSE "create"
  <2>1. Begin(r, "channel", u, pc, w, Unset)
    BY <1>4 DEF UpdateNotificationChannel
  <2>2. m \in [Channels -> Settings]
    BY <1>1 DEF Settings
  <2> HIDE DEF m
  <2>3. WriteOK(w) /\ DOMAIN w \ {"stored"} \subseteq Concern("channel")
    <3>1. m \in Value("channels") /\ Concern("channel") = {"channels"}
      BY <2>2 DEF Value, Concern
    <3> QED
      BY <3>1, SingleWrite
  <2>4. pc = "create" \/ (pc = "save" /\ u \in Opened)
    BY DEF Opened
  <2> HIDE DEF w, pc
  <2>5. Begins("channel", u, pc, w, Unset)
    BY <2>3, <2>4 DEF Begins, JobOK, Phase, Ops
  <2> QED
    BY <2>1, <2>5 DEF Starts, Started
<1>5. ASSUME NEW n \in Names, AddUsername(r, u, n)
      PROVE  Starts(r, u)
  <2> DEFINE w == [username |-> n]
             pc == IF user[u].stored THEN "username" ELSE "create"
  <2>1. Begin(r, "addUsername", u, pc, w, Unset)
    BY <1>5 DEF AddUsername
  <2>2. WriteOK(w) /\ DOMAIN w \ {"stored"} \subseteq Concern("addUsername")
    <3>1. n \in Value("username") /\ Concern("addUsername") = {"username"}
      BY DEF Value, Concern
    <3> QED
      BY <3>1, SingleWrite
  <2>3. pc = "create" \/ (pc = "username" /\ u \in Opened)
    BY DEF Opened
  <2> HIDE DEF w, pc
  <2>4. Begins("addUsername", u, pc, w, Unset)
    BY <2>2, <2>3 DEF Begins, JobOK, Phase, Ops
  <2> QED
    BY <2>1, <2>4 DEF Starts, Started
<1> QED
  BY <1>2, <1>3, <1>4, <1>5

LEMMA EmailStarts ==
  ASSUME Shapes, NEW r \in Requests, NEW u \in Users,
         \/ \E e \in Emails : AddEmail(r, u, e)
         \/ \E m \in mails : ConfirmEmail(r, u, m.code)
         \/ DeleteEmail(r, u)
  PROVE  Starts(r, u)
<1>1. user[u] \in Account
  BY DEF Shapes, AccountsOK
<1>2. ASSUME NEW e \in Emails, AddEmail(r, u, e)
      PROVE  Starts(r, u)
  <2> DEFINE b == WithEmail(user[u], e)
             w == Changes(user[u], b)
  <2>1. /\ b \in Account /\ b.stored /\ b["email"] = e /\ b["emailConfirmed"] = FALSE
        /\ \A f \in Fields \ {"stored", "email", "emailConfirmed"} : b[f] = user[u][f]
    BY <1>1, EditEmail
  <2>2. Begin(r, "addEmail", u, "save", w, e)
    BY <1>2 DEF AddEmail, Saved, WithEmail
  <2> HIDE DEF b
  <2>3. \A f \in Fields \ {"stored"} : f \notin Concern("addEmail") => b[f] = user[u][f]
    BY <2>1 DEF Concern
  <2>4. "addEmail" \in Ops
    BY DEF Ops
  <2>5. /\ WriteOK(w) /\ DOMAIN w \ {"stored"} \subseteq Concern("addEmail")
        /\ "stored" \in DOMAIN w \/ u \in Opened
        /\ After(w, u, "email") = e /\ After(w, u, "emailConfirmed") = FALSE
    BY <2>1, <2>3, <2>4, SavedBegins DEF Fields
  <2> HIDE DEF w
  <2>6. Begins("addEmail", u, "save", w, e)
    BY <2>4, <2>5 DEF Begins, JobOK, Phase
  <2> QED
    BY <2>2, <2>6 DEF Starts, Started
<1>3. ASSUME DeleteEmail(r, u)
      PROVE  Starts(r, u)
  <2> DEFINE b == WithNoEmail(user[u])
             w == Changes(user[u], b)
  <2>1. /\ b \in Account /\ b.stored /\ b["email"] = Null
        /\ \A f \in Fields \ {"stored", "email", "emailConfirmed", "channels"} :
             b[f] = user[u][f]
    BY <1>1, EditNoEmail
  <2>2. Begin(r, "deleteEmail", u, "save", w, Unset)
    BY <1>3 DEF DeleteEmail, Saved, WithNoEmail
  <2> HIDE DEF b
  <2>3. \A f \in Fields \ {"stored"} : f \notin Concern("deleteEmail") => b[f] = user[u][f]
    BY <2>1 DEF Concern
  <2>4. "deleteEmail" \in Ops
    BY DEF Ops
  <2>5. /\ WriteOK(w) /\ DOMAIN w \ {"stored"} \subseteq Concern("deleteEmail")
        /\ "stored" \in DOMAIN w \/ u \in Opened
        /\ After(w, u, "email") = Null
    BY <2>1, <2>3, <2>4, SavedBegins DEF Fields
  <2> HIDE DEF w
  <2>6. Begins("deleteEmail", u, "save", w, Unset)
    BY <2>4, <2>5 DEF Begins, JobOK, Phase
  <2> QED
    BY <2>2, <2>6 DEF Starts, Started
<1>4. ASSUME NEW m \in mails, ConfirmEmail(r, u, m.code)
      PROVE  Starts(r, u)
  <2>1. Begin(r, "confirmEmail", u, "find", <<>>, Unset) /\ confirmation[u].code = m.code
    BY <1>4 DEF ConfirmEmail
  <2>2. m.code # NoCode
    BY DEF Shapes, CodesOK, Codes
  <2>3. confirmation[u] # NoConfirmation
    BY <2>1, <2>2 DEF NoConfirmation
  <2>4. u \in Opened
    BY <2>3 DEF Shapes, CodesOK
  <2>5. WriteOK(<<>>) /\ DOMAIN <<>> = {}
    BY SingleWrite
  <2>6. Begins("confirmEmail", u, "find", <<>>, Unset)
    BY <2>1, <2>4, <2>5 DEF Begins, JobOK, Phase, Ops
  <2> QED
    BY <2>1, <2>6 DEF Starts, Started
<1> QED
  BY <1>2, <1>3, <1>4

LEMMA ChatStarts ==
  ASSUME Shapes, NEW r \in Requests, NEW u \in Users,
         DeleteTelegram(r, u) \/ \E c \in Chats : StartBot(r, u, c)
  PROVE  Starts(r, u)
<1>1. user[u] \in Account
  BY DEF Shapes, AccountsOK
<1>2. ASSUME DeleteTelegram(r, u)
      PROVE  Starts(r, u)
  <2> DEFINE b == WithNoChat(user[u])
             w == Changes(user[u], b)
  <2>1. /\ b \in Account /\ b.stored /\ b["chat"] = Null
        /\ \A f \in Fields \ {"stored", "chat", "code", "channels"} : b[f] = user[u][f]
    BY <1>1, EditNoChat
  <2>2. Begin(r, "deleteTelegram", u, "save", w, Unset)
    BY <1>2 DEF DeleteTelegram, Saved, WithNoChat
  <2> HIDE DEF b
  <2>3. \A f \in Fields \ {"stored"} : f \notin Concern("deleteTelegram") => b[f] = user[u][f]
    BY <2>1 DEF Concern
  <2>4. "deleteTelegram" \in Ops
    BY DEF Ops
  <2>5. /\ WriteOK(w) /\ DOMAIN w \ {"stored"} \subseteq Concern("deleteTelegram")
        /\ "stored" \in DOMAIN w \/ u \in Opened
        /\ After(w, u, "chat") = Null
    BY <2>1, <2>3, <2>4, SavedBegins DEF Fields
  <2> HIDE DEF w
  <2>6. Begins("deleteTelegram", u, "save", w, Unset)
    BY <2>4, <2>5 DEF Begins, JobOK, Phase
  <2> QED
    BY <2>2, <2>6 DEF Starts, Started
<1>3. ASSUME NEW c \in Chats, StartBot(r, u, c)
      PROVE  Starts(r, u)
  <2>1. Begin(r, "start", u, "find", <<>>, c) /\ HasCode(user[u].code)
    BY <1>3 DEF StartBot
  <2>2. user[u] # NoAccount
    BY <2>1, NoAccountOK DEF HasCode
  <2>3. u \in Opened
    BY <2>2 DEF Shapes, AccountsOK
  <2>4. WriteOK(<<>>) /\ DOMAIN <<>> = {}
    BY SingleWrite
  <2>5. Begins("start", u, "find", <<>>, c)
    BY <2>1, <2>3, <2>4 DEF Begins, JobOK, Phase, Ops
  <2> QED
    BY <2>1, <2>5 DEF Starts, Started
<1> QED
  BY <1>2, <1>3

LEMMA BookmarksStart ==
  ASSUME Shapes, NEW r \in Requests, NEW u \in Users,
         NEW x \in Watches, NEW labels \in SUBSET Labels,
         AddWatchBookmarks(r, u, x, labels) \/ DeleteWatchBookmarks(r, u, x, labels)
  PROVE  Starts(r, u)
<1>1. user[u] \in Account /\ user[u].bookmarks \in SUBSET (Watches \X Labels)
  BY DEF Shapes, AccountsOK, Account
<1> DEFINE s == user[u].bookmarks \cup ({x} \X labels)
<1>4. s \in SUBSET (Watches \X Labels)
  BY <1>1
<1>2. ASSUME AddWatchBookmarks(r, u, x, labels)
      PROVE  Starts(r, u)
  <2> DEFINE b == WithBookmarks(user[u], s)
             w == Changes(user[u], b)
  <2>1. /\ b \in Account /\ b.stored
        /\ \A f \in Fields \ {"stored", "bookmarks"} : b[f] = user[u][f]
    BY <1>1, <1>4, EditBookmarks
  <2>2. Begin(r, "addBookmarks", u, "save", w, Unset)
    BY <1>2 DEF AddWatchBookmarks, Saved, WithBookmarks
  <2> HIDE DEF b
  <2>3. \A f \in Fields \ {"stored"} : f \notin Concern("addBookmarks") => b[f] = user[u][f]
    BY <2>1 DEF Concern
  <2>4. "addBookmarks" \in Ops
    BY DEF Ops
  <2>5. /\ WriteOK(w) /\ DOMAIN w \ {"stored"} \subseteq Concern("addBookmarks")
        /\ "stored" \in DOMAIN w \/ u \in Opened
    BY <2>1, <2>3, <2>4, SavedBegins DEF Fields
  <2> HIDE DEF w
  <2>6. Begins("addBookmarks", u, "save", w, Unset)
    BY <2>4, <2>5 DEF Begins, JobOK, Phase
  <2> QED
    BY <2>2, <2>6 DEF Starts, Started
<1>3. ASSUME DeleteWatchBookmarks(r, u, x, labels)
      PROVE  Starts(r, u)
  <2> DEFINE m == user[u].bookmarks \ ({x} \X labels)
             w == [bookmarks |-> m]
  <2>1. Begin(r, "deleteBookmarks", u, "save", w, Unset) /\ user[u].bookmarks # {}
    BY <1>3 DEF DeleteWatchBookmarks
  <2>2. user[u] # NoAccount
    BY <2>1 DEF NoAccount
  <2>3. u \in Opened
    BY <2>2 DEF Shapes, AccountsOK
  <2>4. m \in SUBSET (Watches \X Labels)
    BY <1>1
  <2> HIDE DEF m
  <2>5. WriteOK(w) /\ DOMAIN w \ {"stored"} \subseteq Concern("deleteBookmarks")
    <3>1. m \in Value("bookmarks") /\ Concern("deleteBookmarks") = {"bookmarks"}
      BY <2>4 DEF Value, Concern
    <3> QED
      BY <3>1, SingleWrite
  <2> HIDE DEF w
  <2>6. Begins("deleteBookmarks", u, "save", w, Unset)
    BY <2>3, <2>5 DEF Begins, JobOK, Phase, Ops
  <2> QED
    BY <2>1, <2>6 DEF Starts, Started
<1> QED
  BY <1>2, <1>3

LEMMA AskStarts ==
  ASSUME Shapes, NEW r \in Requests, NEW u \in Users,
         Ask(r, u) \/ \E n \in Names : AddUsername(r, u, n)
  PROVE  Starts(r, u)
<1>1. CASE GetProfile(r, u)
  BY <1>1, ProfileStarts
<1>2. CASE \/ \E n \in Names \cup {Null} : UpdateProfile(r, u, n)
           \/ \E t \in Types, s \in {"false", "true"} : UpdateNotificationType(r, u, t, s)
           \/ \E c \in Channels, s \in {"false", "true"} : UpdateNotificationChannel(r, u, c, s)
           \/ \E n \in Names : AddUsername(r, u, n)
  BY <1>2, SettingsStart
<1>3. CASE \/ \E e \in Emails : AddEmail(r, u, e)
           \/ \E m \in mails : ConfirmEmail(r, u, m.code)
           \/ DeleteEmail(r, u)
  BY <1>3, EmailStarts
<1>4. CASE DeleteTelegram(r, u) \/ \E c \in Chats : StartBot(r, u, c)
  BY <1>4, ChatStarts
<1>5. CASE \E w \in Watches, labels \in SUBSET Labels \ {{}} :
             AddWatchBookmarks(r, u, w, labels) \/ DeleteWatchBookmarks(r, u, w, labels)
  BY <1>5, BookmarksStart
<1> QED
  BY <1>1, <1>2, <1>3, <1>4, <1>5 DEF Ask

-----------------------------------------------------------------------------
(* What each step does to one request and one account. *)

\* A request that goes on is the same request.
Same(q, k) ==
  /\ DOMAIN q = RequestFields /\ q.op = k.op /\ q.user = k.user
  /\ q.id = k.id /\ q.to = k.to

Replaced(r, q) == request' = [request EXCEPT ![r] = q]

\* It creates the account it did not find.
Created(r, q) ==
  /\ request[r].pc = "create" /\ request' = [request EXCEPT ![r] = q]
  /\ Same(q, request[r]) /\ q.pc \in {"save", "username"} /\ q.write = request[r].write
  /\ user' = [user EXCEPT ![request[r].user].stored = TRUE]
  /\ UNCHANGED <<confirmation, mails, count, history>>

\* An addEmail that ends without storing its code leaves none for another address,
\* or its user in doubt.
Dropped(r) ==
  LET u == request[r].user IN
  u \in Doubtful' \/ confirmation[u] = NoConfirmation \/ confirmation[u].email = request[r].to

\* It goes on to its save, or ends.
Advanced(r, q) ==
  /\ request[r] # Idle /\ request' = [request EXCEPT ![r] = q]
  /\ \/ q = Idle /\ (request[r].pc = "code" => Dropped(r))
     \/ /\ Same(q, request[r]) /\ q.pc = "save" /\ RequestOK(q, Opened, count)
        /\ \/ request[r].pc = "username" /\ q.write = request[r].write
           \/ request[r].pc = "find" /\ "email" \notin DOMAIN q.write
  /\ Doubtful \subseteq Doubtful'
  /\ UNCHANGED <<Store, count, proven, straddled>>

\* It saves.
Saves(r, q) ==
  /\ request[r].pc = "save" /\ request' = [request EXCEPT ![r] = q]
  /\ user' = [user EXCEPT ![request[r].user] = Written(@, request[r].write)]
  /\ IF request[r].op = "addEmail"
     THEN Same(q, request[r]) /\ q.pc = "code" /\ q.write = <<>>
     ELSE q = Idle
  /\ UNCHANGED <<confirmation, mails, count, history>>

Idles == UNCHANGED <<Store, request, count, history>>

Steps ==
  \/ \E r \in Requests, u \in Users : Starts(r, u)
  \/ \E r \in Requests : \E q : Created(r, q) \/ Advanced(r, q) \/ Saves(r, q)
  \/ \E r \in Requests : StoreCode(r)
  \/ \E u \in Users : Expire(u)
  \/ Crash
  \/ Idles

LEMMA IdleOK ==
  /\ Idle.pc = "idle" /\ Idle.op = "none" /\ DOMAIN Idle = RequestFields
  /\ \A open, n : RequestOK(Idle, open, n)
BY DEF Idle, RequestFields, RequestOK

\* What is known of a request in progress.
LEMMA RequestFacts ==
  ASSUME Shapes, NEW r \in Requests, request[r] # Idle
  PROVE  /\ DOMAIN request[r] = RequestFields /\ request[r].id \in 1 .. count
         /\ JobOK(request[r].op, request[r].user, request[r].pc, request[r].write,
                  request[r].to, Opened)
BY DEF Shapes, RequestsOK, RequestOK

LEMMA GoesSame ==
  ASSUME Shapes, NEW r \in Requests, request[r] # Idle, NEW pc, NEW w, Goes(r, pc, w)
  PROVE  \E q : /\ request' = [request EXCEPT ![r] = q]
                /\ Same(q, request[r]) /\ q.pc = pc /\ q.write = w
<1>1. DOMAIN request[r] = RequestFields
  BY RequestFacts
<1> DEFINE q == [request[r] EXCEPT !.pc = pc, !.write = w]
<1>2. request' = [request EXCEPT ![r] = q]
  BY DEF Goes, Shapes, RequestsOK
<1>3. Same(q, request[r]) /\ q.pc = pc /\ q.write = w
  BY <1>1 DEF Same, RequestFields
<1> QED
  BY <1>2, <1>3

LEMMA CreateSteps ==
  ASSUME Shapes, NEW r \in Requests, CreateUser(r)
  PROVE  Steps
<1>1. request[r] # Idle /\ request[r].pc = "create"
  BY IdleOK DEF CreateUser
<1>2. CASE user[request[r].user].stored
  <2>1. Advanced(r, Idle)
    BY <1>1, <1>2 DEF CreateUser, Advanced, End, Store, history, Doubtful
  <2> QED
    BY <2>1 DEF Steps
<1>3. CASE ~ user[request[r].user].stored
  <2> DEFINE pc == IF request[r].op = "addUsername" THEN "username" ELSE "save"
  <2>1. Goes(r, pc, request[r].write)
    BY <1>3 DEF CreateUser
  <2>2. pc \in {"save", "username"}
    OBVIOUS
  <2> HIDE DEF pc
  <2>3. PICK q : /\ request' = [request EXCEPT ![r] = q]
                 /\ Same(q, request[r]) /\ q.pc = pc /\ q.write = request[r].write
    BY <1>1, <2>1, GoesSame
  <2>4. Created(r, q)
    BY <1>1, <1>3, <2>2, <2>3 DEF CreateUser, Created
  <2> QED
    BY <2>4 DEF Steps
<1> QED
  BY <1>2, <1>3

LEMMA AdvanceSteps ==
  ASSUME Shapes, NEW r \in Requests,
         CheckUsername(r) \/ DuplicateUser(r) \/ RequestFails(r)
  PROVE  Steps
<1>1. request[r] # Idle
  BY IdleOK DEF CheckUsername, DuplicateUser, RequestFails
<1>2. CASE DuplicateUser(r) \/ RequestFails(r)
  <2>1. CASE DuplicateUser(r)
    <3>1. Advanced(r, Idle)
      BY <1>1, <2>1 DEF DuplicateUser, Advanced, End, Store, history, Doubtful
    <3> QED
      BY <3>1 DEF Steps
  <2>2. CASE RequestFails(r)
    <3>1. End(r) /\ UNCHANGED <<Store, count, proven, mixed, straddled>>
      BY <2>2 DEF RequestFails
    <3>2. halfway \subseteq halfway' /\ (request[r].pc = "code" => Dropped(r))
      BY <2>2 DEF RequestFails, Dropped, Doubtful
    <3>3. Advanced(r, Idle)
      BY <1>1, <3>1, <3>2 DEF Advanced, End, Doubtful
    <3> QED
      BY <3>3 DEF Steps
  <2> QED
    BY <1>2, <2>1, <2>2
<1>3. CASE CheckUsername(r)
  <2>1. request[r].pc = "username" /\ UNCHANGED <<Store, count, history>>
    BY <1>3 DEF CheckUsername
  <2>2. CASE End(r)
    <3>1. Advanced(r, Idle)
      BY <1>1, <2>1, <2>2 DEF Advanced, End, Store, history, Doubtful
    <3> QED
      BY <3>1 DEF Steps
  <2>3. CASE Goes(r, "save", request[r].write)
    <3>1. PICK q : /\ request' = [request EXCEPT ![r] = q]
                   /\ Same(q, request[r]) /\ q.pc = "save" /\ q.write = request[r].write
      BY <1>1, <2>3, GoesSame
    <3>2. /\ request[r].id \in 1 .. count
          /\ JobOK(request[r].op, request[r].user, request[r].pc, request[r].write,
                   request[r].to, Opened)
      BY <1>1, RequestFacts
    <3>3. RequestOK(q, Opened, count)
      BY <2>1, <3>1, <3>2 DEF RequestOK, JobOK, Phase, Same
    <3>4. Advanced(r, q)
      BY <1>1, <2>1, <3>1, <3>3 DEF Advanced, history, Doubtful
    <3> QED
      BY <3>4 DEF Steps
  <2> QED
    BY <1>3, <2>2, <2>3 DEF CheckUsername
<1> QED
  BY <1>2, <1>3

LEMMA FindSteps ==
  ASSUME Shapes, NEW r \in Requests, FindToConfirm(r) \/ FindToLink(r)
  PROVE  Steps
<1>1. /\ request[r] # Idle /\ request[r].pc = "find"
      /\ UNCHANGED <<Store, count, history>>
  BY IdleOK DEF FindToConfirm, FindToLink
<1>2. /\ request[r].id \in 1 .. count
      /\ JobOK(request[r].op, request[r].user, "find", request[r].write,
               request[r].to, Opened)
  BY <1>1, RequestFacts
<1> DEFINE u == request[r].user
           a == user[u]
<1>3. u \in Opened /\ u \in Users /\ a \in Account /\ a.stored = TRUE
  BY <1>2 DEF JobOK, Phase, Shapes, AccountsOK, Opened
<1>4. ASSUME NEW b \in Account, b.stored, Goes(r, "save", Changes(a, b)),
             b["email"] = a["email"], b["stored"] = a["stored"],
             \A f \in Fields : f \notin Concern(request[r].op) => b[f] = a[f]
      PROVE  Steps
  <2> DEFINE w == Changes(a, b)
  <2>1. PICK q : /\ request' = [request EXCEPT ![r] = q]
                 /\ Same(q, request[r]) /\ q.pc = "save" /\ q.write = w
    BY <1>1, <1>4, GoesSame
  <2>2. WriteOK(w) /\ \A f \in Fields : f \in DOMAIN w <=> b[f] # a[f]
    BY <1>3, <1>4, ChangesOK
  <2> HIDE DEF w
  <2>3. "email" \notin DOMAIN w /\ DOMAIN w \ {"stored"} \subseteq Concern(request[r].op)
    BY <1>4, <2>2 DEF WriteOK, Fields
  <2>4. RequestOK(q, Opened, count)
    BY <1>2, <1>3, <2>1, <2>2, <2>3 DEF RequestOK, JobOK, Phase, Same
  <2>5. Advanced(r, q)
    BY <1>1, <2>1, <2>3, <2>4 DEF Advanced, history, Doubtful
  <2> QED
    BY <2>5 DEF Steps
<1>5. CASE FindToConfirm(r) /\ Has(a.email) /\ a.emailConfirmed
  <2>1. End(r)
    BY <1>5 DEF FindToConfirm
  <2>2. Advanced(r, Idle)
    BY <1>1, <2>1 DEF Advanced, End, history, Doubtful
  <2> QED
    BY <2>2 DEF Steps
<1>6. CASE FindToConfirm(r) /\ ~ (Has(a.email) /\ a.emailConfirmed)
  <2> DEFINE b == [a EXCEPT !.emailConfirmed = TRUE]
  <2>1. Goes(r, "save", Changes(a, b)) /\ request[r].op = "confirmEmail"
    BY <1>6 DEF FindToConfirm
  <2> HIDE DEF a
  <2>2. /\ b \in Account /\ b["email"] = a["email"] /\ b["stored"] = a["stored"]
        /\ \A f \in Fields \ {"emailConfirmed"} : b[f] = a[f]
    BY <1>3 DEF Account, Fields
  <2>3. b.stored
    BY <1>3, <2>2
  <2>4. \A f \in Fields : f \notin Concern("confirmEmail") => b[f] = a[f]
    BY <2>2 DEF Concern
  <2> HIDE DEF b
  <2> QED
    BY <1>4, <2>1, <2>2, <2>3, <2>4
<1>7. CASE FindToLink(r)
  <2> DEFINE b == [a EXCEPT !.chat = request[r].to, !.channels["telegram"] = "true"]
  <2>1. Goes(r, "save", Changes(a, b)) /\ request[r].op = "start"
    BY <1>7 DEF FindToLink
  <2>2. request[r].to \in Chats
    BY <1>2, <2>1 DEF JobOK
  <2> HIDE DEF a
  <2>3. /\ b \in Account /\ b["email"] = a["email"] /\ b["stored"] = a["stored"]
        /\ \A f \in Fields \ {"chat", "channels"} : b[f] = a[f]
    BY <1>3, <2>2 DEF Account, Fields, Settings
  <2>4. b.stored
    BY <1>3, <2>3
  <2>5. \A f \in Fields : f \notin Concern("start") => b[f] = a[f]
    BY <2>3 DEF Concern
  <2> HIDE DEF b
  <2> QED
    BY <1>4, <2>1, <2>3, <2>4, <2>5
<1> QED
  BY <1>5, <1>6, <1>7

LEMMA SaveSteps ==
  ASSUME Shapes, NEW r \in Requests, Save(r)
  PROVE  Steps
<1>1. request[r] # Idle /\ request[r].pc = "save"
  BY IdleOK DEF Save
<1>2. CASE request[r].op = "addEmail"
  <2>1. Goes(r, "code", <<>>)
    BY <1>2 DEF Save
  <2>2. PICK q : /\ request' = [request EXCEPT ![r] = q]
                 /\ Same(q, request[r]) /\ q.pc = "code" /\ q.write = <<>>
    BY <1>1, <2>1, GoesSame
  <2>3. Saves(r, q)
    BY <1>1, <1>2, <2>2 DEF Save, Saves
  <2> QED
    BY <2>3 DEF Steps
<1>3. CASE request[r].op # "addEmail"
  <2>1. Saves(r, Idle)
    BY <1>1, <1>3 DEF Save, Saves, End
  <2> QED
    BY <2>1 DEF Steps
<1> QED
  BY <1>2, <1>3

LEMMA NextSteps ==
  ASSUME Shapes, Next \/ Idles, Active \subseteq Users
  PROVE  Steps
<1>1. ASSUME NEW r \in Requests, Work(r)
      PROVE  Steps
  <2>1. CASE \E u \in Users, n \in Names : AddUsername(r, u, n)
    BY <2>1, AskStarts DEF Steps
  <2>2. CASE \E u \in Active : Ask(r, u)
    BY <2>2, AskStarts DEF Steps
  <2>3. CASE Proceed(r)
    BY <2>3, CreateSteps, AdvanceSteps, FindSteps, SaveSteps DEF Proceed, Steps
  <2>4. CASE RequestFails(r)
    BY <2>4, AdvanceSteps
  <2> QED
    BY <1>1, <2>1, <2>2, <2>3, <2>4 DEF Work
<1> QED
  BY <1>1 DEF Next, Steps

-----------------------------------------------------------------------------
(* Types. *)

LEMMA StillOK ==
  ASSUME NEW q, NEW open, NEW more, open \subseteq more,
         NEW m \in Nat, NEW n \in Nat, m <= n, RequestOK(q, open, m)
  PROVE  RequestOK(q, more, n)
BY DEF RequestOK, JobOK, Phase

\* One request changes.
LEMMA OneRequest ==
  ASSUME Shapes, NEW r \in Requests, NEW q, Replaced(r, q),
         Opened \subseteq Opened', count' \in Nat, count <= count',
         RequestOK(q, Opened', count')
  PROVE  RequestsOK'
<1>1. request' = [s \in Requests |-> request'[s]]
  BY DEF Shapes, RequestsOK, Replaced
<1>2. ASSUME NEW s \in Requests
      PROVE  RequestOK(request'[s], Opened', count')
  <2>1. CASE s = r
    BY <2>1 DEF Shapes, RequestsOK, Replaced
  <2>2. CASE s # r
    <3>1. request'[s] = request[s]
      BY <2>2 DEF Shapes, RequestsOK, Replaced
    <3>2. RequestOK(request[s], Opened, count) /\ count \in Nat
      BY AccountAssumption DEF Shapes, RequestsOK
    <3> QED
      BY <3>1, <3>2, StillOK
  <2> QED
    BY <2>1, <2>2
<1> QED
  BY <1>1, <1>2 DEF RequestsOK

LEMMA StartedShapes ==
  ASSUME Shapes, NEW r \in Requests, NEW u \in Users, NEW op, NEW pc, NEW w, NEW to,
         Started(r, op, u, pc, w, to)
  PROVE  Shapes'
<1> DEFINE q == [pc |-> pc, op |-> op, user |-> u, id |-> count + 1, to |-> to, write |-> w]
<1>1. /\ count' = count + 1 /\ count' \in 1 .. MaxRequests /\ count \in Nat
      /\ Replaced(r, q) /\ UNCHANGED Store
  BY AccountAssumption DEF Shapes, Started, Begin, Replaced
<1>2. JobOK(op, u, pc, w, to, Opened)
  BY DEF Started, Begins
<1>3. /\ q.op = op /\ q.user = u /\ q.pc = pc /\ q.id = count + 1 /\ q.to = to /\ q.write = w
      /\ DOMAIN q = RequestFields
  BY DEF RequestFields
<1> HIDE DEF q
<1>4. Opened' = Opened
  BY <1>1 DEF Opened, Store
<1>5. RequestOK(q, Opened', count')
  BY <1>1, <1>2, <1>3, <1>4 DEF RequestOK
<1>6. RequestsOK'
  BY <1>1, <1>4, <1>5, OneRequest
<1>7. AccountsOK' /\ CodesOK'
  BY <1>1, <1>4 DEF Shapes, AccountsOK, CodesOK, Store
<1>8. proven' = [v \in Users |-> proven'[v]]
  BY DEF Shapes, Started, Begin
<1> QED
  BY <1>1, <1>6, <1>7, <1>8, AccountAssumption DEF Shapes

LEMMA CreatedShapes ==
  ASSUME Shapes, NEW r \in Requests, NEW q, Created(r, q)
  PROVE  Shapes' /\ \A u \in Users, f \in Fields \ {"stored"} : user'[u][f] = user[u][f]
<1> DEFINE v == request[r].user
<1>1. request[r] # Idle /\ request[r].pc = "create"
  BY IdleOK DEF Created
<1>2. /\ DOMAIN request[r] = RequestFields /\ request[r].id \in 1 .. count
      /\ JobOK(request[r].op, v, "create", request[r].write, request[r].to, Opened)
  BY <1>1, RequestFacts
<1>3. v \in Users /\ user \in [Users -> Account]
  BY <1>2 DEF JobOK, Shapes, AccountsOK
<1>4. /\ user' = [user EXCEPT ![v] = [user[v] EXCEPT !.stored = TRUE]]
      /\ Replaced(r, q)
      /\ UNCHANGED <<confirmation, mails, count, proven>>
  BY <1>3 DEF Created, history, Replaced
<1>5. PICK a : a = [user[v] EXCEPT !.stored = TRUE]
  OBVIOUS
<1>6. user[v] \in Account
  BY <1>3
<1>7. a \in Account /\ a.stored = TRUE /\ \A f \in Fields \ {"stored"} : a[f] = user[v][f]
  BY <1>5, <1>6 DEF Account, Fields
<1>8. user' = [user EXCEPT ![v] = a]
  BY <1>4, <1>5
<1> HIDE DEF v
<1>9. /\ user' \in [Users -> Account] /\ user'[v].stored
      /\ \A x \in Users \ {v} : user'[x] = user[x]
      /\ \A x \in Users, f \in Fields \ {"stored"} : user'[x][f] = user[x][f]
  BY <1>3, <1>7, <1>8
<1>10. Opened' = Opened \cup {v}
  BY <1>3, <1>9 DEF Opened
<1>11. AccountsOK'
  BY <1>9, <1>10 DEF AccountsOK, Shapes
<1>12. CodesOK'
  BY <1>4, <1>10 DEF CodesOK, Shapes
<1>13. RequestOK(q, Opened', count')
  BY <1>2, <1>4, <1>10 DEF RequestOK, JobOK, Phase, Created, Same, v
<1>14. count \in Nat
  BY AccountAssumption DEF Shapes
<1>15. RequestsOK'
  BY <1>4, <1>10, <1>13, <1>14, OneRequest
<1> QED
  BY <1>4, <1>9, <1>11, <1>12, <1>15 DEF Shapes

LEMMA AdvancedShapes ==
  ASSUME Shapes, NEW r \in Requests, NEW q, Advanced(r, q)
  PROVE  Shapes'
<1>1. /\ Replaced(r, q) /\ RequestOK(q, Opened, count)
      /\ UNCHANGED <<user, confirmation, mails, count, proven>>
  BY IdleOK DEF Advanced, Store, Replaced
<1>2. Opened' = Opened /\ count \in Nat
  BY <1>1, AccountAssumption DEF Opened, Shapes
<1>3. RequestsOK'
  BY <1>1, <1>2, OneRequest
<1> QED
  BY <1>1, <1>2, <1>3 DEF Shapes, AccountsOK, CodesOK

LEMMA SavesShapes ==
  ASSUME Shapes, NEW r \in Requests, NEW q, Saves(r, q)
  PROVE  LET v == request[r].user
             w == request[r].write
         IN /\ Shapes' /\ v \in Users /\ request[r] # Idle
            /\ JobOK(request[r].op, v, "save", w, request[r].to, Opened)
            /\ \A u \in Users \ {v} : user'[u] = user[u]
            /\ \A f \in Fields : user'[v][f] = After(w, v, f)
<1> DEFINE v == request[r].user
           w == request[r].write
<1>1. request[r] # Idle /\ request[r].pc = "save"
  BY IdleOK DEF Saves
<1>2. /\ DOMAIN request[r] = RequestFields /\ request[r].id \in 1 .. count
      /\ JobOK(request[r].op, v, "save", w, request[r].to, Opened)
  BY <1>1, RequestFacts
<1>3. v \in Users /\ user \in [Users -> Account] /\ WriteOK(w)
      /\ ("stored" \in DOMAIN w \/ v \in Opened)
  BY <1>2 DEF JobOK, Phase, Shapes, AccountsOK
<1>4. PICK a : a = Written(user[v], w)
  OBVIOUS
<1>5. /\ a \in Account
      /\ \A f \in Fields : a[f] = After(w, v, f)
  BY <1>3, <1>4, WrittenOK DEF After
<1>6. /\ user' = [user EXCEPT ![v] = a] /\ Replaced(r, q)
      /\ UNCHANGED <<confirmation, mails, count, proven>>
  BY <1>3, <1>4 DEF Saves, history, Replaced
<1>7. a["stored"] = TRUE
  <2>1. a["stored"] = After(w, v, "stored")
    BY <1>5 DEF Fields
  <2> QED
    BY <1>3, <2>1 DEF After, WriteOK, Opened, Shapes, AccountsOK, Account
<1>14. JobOK(request[r].op, v, "save", w, request[r].to, Opened) /\ request[r] # Idle
  BY <1>1, <1>2
<1>15. RequestOK(q, Opened \cup {v}, count)
  <2>1. CASE q = Idle
    BY <2>1, IdleOK
  <2>2. CASE /\ request[r].op = "addEmail" /\ Same(q, request[r])
             /\ q.pc = "code" /\ q.write = <<>>
    <3>1. WriteOK(<<>>) /\ DOMAIN <<>> = {}
      BY SingleWrite
    <3> QED
      BY <1>2, <2>2, <3>1 DEF RequestOK, JobOK, Phase, Same
  <2> QED
    BY <2>1, <2>2 DEF Saves
<1> HIDE DEF v, w
<1>8. /\ user' \in [Users -> Account] /\ user'[v].stored
      /\ \A u \in Users \ {v} : user'[u] = user[u]
      /\ \A f \in Fields : user'[v][f] = After(w, v, f)
  <2>1. user'[v] = a /\ \A x \in Users \ {v} : user'[x] = user[x]
    BY <1>3, <1>6
  <2>2. user' \in [Users -> Account]
    BY <1>3, <1>5, <1>6
  <2> QED
    BY <1>5, <1>7, <2>1, <2>2
<1>9. Opened' = Opened \cup {v}
  BY <1>3, <1>8 DEF Opened
<1>10. AccountsOK'
  BY <1>8, <1>9 DEF AccountsOK, Shapes
<1>11. CodesOK'
  BY <1>6, <1>9 DEF CodesOK, Shapes
<1>12. count \in Nat
  BY AccountAssumption DEF Shapes
<1>13. RequestsOK'
  BY <1>6, <1>9, <1>12, <1>15, OneRequest
<1> QED
  BY <1>3, <1>6, <1>8, <1>10, <1>11, <1>13, <1>14 DEF Shapes, v, w

LEMMA StoreCodeShapes ==
  ASSUME Shapes, NEW r \in Requests, StoreCode(r)
  PROVE  Shapes'
<1>1. request[r] # Idle /\ request[r].pc = "code"
  BY IdleOK DEF StoreCode
<1>2. /\ request[r].id \in 1 .. count
      /\ JobOK(request[r].op, request[r].user, "code", request[r].write, request[r].to, Opened)
  BY <1>1, RequestFacts
<1> DEFINE m == [email |-> request[r].to, code |-> request[r].id]
<1>3. request[r].user \in Opened /\ request[r].to \in Emails
  BY <1>2 DEF JobOK, Phase
<1>4. request[r].id \in (-2 .. MaxRequests) \ {NoCode}
  BY <1>2, AccountAssumption DEF Shapes, NoCode
<1>5. m \in Codes
  BY <1>3, <1>4 DEF Codes
<1>6. /\ confirmation' = [confirmation EXCEPT ![request[r].user] = m]
      /\ mails' \subseteq mails \cup {m}
      /\ Replaced(r, Idle)
      /\ UNCHANGED <<user, count, proven>>
  BY DEF StoreCode, End, history, Replaced
<1> HIDE DEF m
<1>7. Opened' = Opened /\ count \in Nat
  BY <1>6, AccountAssumption DEF Opened, Shapes
<1>8. CodesOK'
  BY <1>3, <1>5, <1>6, <1>7 DEF CodesOK, Shapes
<1>9. RequestsOK'
  BY <1>6, <1>7, IdleOK, OneRequest
<1> QED
  BY <1>6, <1>7, <1>8, <1>9 DEF Shapes, AccountsOK

LEMMA StepShapes ==
  ASSUME Shapes, Steps
  PROVE  Shapes'
<1>1. ASSUME NEW r \in Requests, NEW u \in Users, Starts(r, u)
      PROVE  Shapes'
  BY <1>1, StartedShapes DEF Starts
<1>2. ASSUME NEW r \in Requests, NEW q, Created(r, q) \/ Advanced(r, q) \/ Saves(r, q)
      PROVE  Shapes'
  BY <1>2, CreatedShapes, AdvancedShapes, SavesShapes
<1>3. ASSUME NEW u \in Users, Expire(u)
      PROVE  Shapes'
  <2>1. /\ UNCHANGED <<user, request, count, mails, proven>>
        /\ confirmation' = [confirmation EXCEPT ![u] = NoConfirmation]
    BY <1>3 DEF Expire, history
  <2>2. Opened' = Opened
    BY <2>1 DEF Opened
  <2> QED
    BY <2>1, <2>2 DEF Shapes, AccountsOK, RequestsOK, CodesOK
<1>4. CASE Crash
  <2>1. /\ UNCHANGED <<user, count, mails, proven>>
        /\ request' = [r \in Requests |-> Idle]
        /\ confirmation' = [u \in Users |-> NoConfirmation]
    BY <1>4 DEF Crash, history
  <2>2. Opened' = Opened
    BY <2>1 DEF Opened
  <2>3. RequestsOK'
    BY <2>1, IdleOK DEF RequestsOK
  <2> QED
    BY <2>1, <2>2, <2>3 DEF Shapes, AccountsOK, CodesOK
<1>5. CASE Idles
  <2>1. UNCHANGED <<user, confirmation, mails, request, count, proven>>
    BY <1>5 DEF Idles, Store, history
  <2>2. Opened' = Opened
    BY <2>1 DEF Opened
  <2> QED
    BY <2>1, <2>2 DEF Shapes, AccountsOK, RequestsOK, CodesOK
<1> QED
  BY <1>1, <1>2, <1>3, <1>4, <1>5, StoreCodeShapes DEF Steps

LEMMA InitialAccount ==
  ASSUME NEW kind \in {"none", "full", "pending", "deleted"}, NEW e \in Emails, NEW c \in Chats
  PROVE  LET a == AccountOf(kind, e, c) IN
         /\ a \in Account
         /\ kind = "none" => a = NoAccount
         /\ kind # "none" => a.stored /\ a.code = -1
         /\ kind = "full" => a.email = e
         /\ kind = "pending" => a.email = e /\ ~ a.emailConfirmed
         /\ kind = "deleted" => a.email = Null
<1>1. CASE kind = "none"
  BY <1>1, NoAccountOK DEF AccountOf
<1>2. CASE kind # "none"
  <2>1. -1 \in -2 .. MaxRequests
    BY AccountAssumption
  <2> QED
    BY <1>2, <2>1 DEF AccountOf, NoAccount, Account, Settings, Unset
<1> QED
  BY <1>1, <1>2

LEMMA InitShapes == Init => Shapes
<1> SUFFICES ASSUME Init PROVE Shapes
  OBVIOUS
<1>1. PICK v \in Active, kind \in {"none", "full", "pending", "deleted"},
           e \in Emails, c \in Chats :
        LET s == [email |-> e, code |-> -1]
            waits == kind \in {"pending", "deleted"} IN
         /\ user = [u \in Users |-> IF u = v THEN AccountOf(kind, e, c) ELSE NoAccount]
         /\ proven = [u \in Users |-> IF u = v /\ kind = "full" THEN {e} ELSE {}]
         /\ confirmation = [u \in Users |-> IF u = v /\ waits THEN s ELSE NoConfirmation]
         /\ mails = IF waits THEN {s} ELSE {}
  BY DEF Init
<1> DEFINE s == [email |-> e, code |-> -1]
<1>2. s \in Codes
  BY AccountAssumption DEF Codes, NoCode
<1> HIDE DEF s
<1>3. /\ AccountOf(kind, e, c) \in Account
      /\ kind = "none" => AccountOf(kind, e, c) = NoAccount
      /\ kind # "none" => AccountOf(kind, e, c).stored
  BY InitialAccount
<1>4. NoAccount \in Account /\ NoAccount.stored = FALSE
  BY NoAccountOK
<1>5. AccountsOK
  BY <1>1, <1>3, <1>4 DEF AccountsOK, Opened
<1>6. CodesOK
  <2>1. /\ confirmation = [u \in Users |-> IF u = v /\ kind \in {"pending", "deleted"}
                                            THEN s ELSE NoConfirmation]
        /\ mails = IF kind \in {"pending", "deleted"} THEN {s} ELSE {}
    BY <1>1 DEF s
  <2>2. kind \in {"pending", "deleted"} => v \in Opened
    BY <1>1, <1>3, AccountAssumption DEF Opened
  <2> QED
    BY <1>2, <2>1, <2>2 DEF CodesOK
<1>7. RequestsOK
  BY IdleOK DEF Init, RequestsOK
<1> QED
  BY <1>1, <1>5, <1>6, <1>7, AccountAssumption DEF Shapes, Init

LEMMA ShapesTypes == Shapes => TypeOK
<1> SUFFICES ASSUME Shapes PROVE TypeOK
  OBVIOUS
<1>1. user \in [Users -> Account] /\ \A u \in Users : ~ user[u].stored => user[u] = NoAccount
  BY DEF Shapes, AccountsOK, Opened
<1>2. \A r \in Requests : DOMAIN request[r].write \subseteq DOMAIN NoAccount
  <2>1. SUFFICES ASSUME NEW r \in Requests
                 PROVE  DOMAIN request[r].write \subseteq Fields
    BY NoAccountOK
  <2>2. CASE request[r] = Idle
    BY <2>2, SingleWrite DEF Idle
  <2>3. CASE request[r] # Idle
    BY <2>3, RequestFacts DEF JobOK, WriteOK
  <2> QED
    BY <2>2, <2>3
<1> QED
  BY <1>1, <1>2 DEF TypeOK, Account

\* Accounts, and what every request in progress is going to write, are well
\* formed, and nothing is written to an account that is not there.
THEOREM AccountTypes == Spec => []TypeOK
<1>1. Shapes /\ [Next]_vars => Shapes'
  <2>1. SUFFICES ASSUME Shapes, Next \/ UNCHANGED vars
                 PROVE  Shapes'
    OBVIOUS
  <2>2. Next \/ Idles
    BY <2>1 DEF vars, Idles, Store, history
  <2> QED
    BY <2>1, <2>2, NextSteps, StepShapes, AccountAssumption
<1> QED
  BY <1>1, InitShapes, ShapesTypes, PTL DEF Spec

-----------------------------------------------------------------------------
(* Which requests write which fields. *)

\* A step writes the fields that a request in progress is about.
LEMMA StepFields ==
  ASSUME Shapes, Steps, NEW u \in Users, NEW f \in Fields \ {"stored"},
         user'[u][f] # user[u][f]
  PROVE  \E r \in Requests : request[r] # request'[r] /\ request[r].user = u
                             /\ f \in Concern(request[r].op)
<1>4. PICK r \in Requests : \E q : Created(r, q) \/ Saves(r, q)
  BY DEF Steps, Starts, Started, Begin, Advanced, StoreCode, Expire, Crash, Idles, Store
<1>1. PICK q : Created(r, q) \/ Saves(r, q)
  BY <1>4
<1>2. CASE Created(r, q)
  BY <1>2, CreatedShapes
<1>3. CASE Saves(r, q)
  <2> DEFINE v == request[r].user
             w == request[r].write
  <2>1. /\ request[r] # Idle /\ JobOK(request[r].op, v, "save", w, request[r].to, Opened)
        /\ \A x \in Users \ {v} : user'[x] = user[x]
        /\ \A g \in Fields : user'[v][g] = After(w, v, g)
    BY <1>3, SavesShapes
  <2>2. u = v /\ f \in DOMAIN w
    BY <2>1 DEF After
  <2>3. f \in Concern(request[r].op)
    BY <2>1, <2>2 DEF JobOK
  <2>4. request'[r] = q /\ request[r].pc = "save" /\ (q = Idle \/ q.pc = "code")
    BY <1>3 DEF Saves, Shapes, RequestsOK
  <2>5. request[r] # request'[r]
    BY <2>1, <2>4
  <2> QED
    BY <2>2, <2>3, <2>5
<1> QED
  BY <1>1, <1>2, <1>3

\* However requests overlap, one never undoes what another has saved in a field
\* it is not about, although it saves a document read before.
THEOREM FieldsAreOwned == Spec => OwnFieldsOnly
<1> DEFINE Owned == \A u \in Users : \A f \in DOMAIN NoAccount \ {"stored"} :
                      user'[u][f] # user[u][f] =>
                        \E r \in Requests : request[r] # request'[r] /\ request[r].user = u
                                            /\ f \in Concern(request[r].op)
<1>1. Shapes /\ [Next]_vars => Shapes' /\ [Owned]_vars
  <2>1. SUFFICES ASSUME Shapes, Next \/ UNCHANGED vars
                 PROVE  Shapes' /\ Owned
    OBVIOUS
  <2>2. Next \/ Idles
    BY <2>1 DEF vars, Idles, Store, history
  <2>3. Steps
    BY <2>1, <2>2, NextSteps, AccountAssumption
  <2>4. Owned
    BY <2>1, <2>3, StepFields, NoAccountOK
  <2> QED
    BY <2>1, <2>3, <2>4, StepShapes
<1>2. Spec => [][Owned]_vars
  BY <1>1, InitShapes, PTL DEF Spec
<1> QED
  BY <1>2 DEF OwnFieldsOnly

-----------------------------------------------------------------------------
(* Chats and codes. *)

\* No two requests of a kind of one user are in progress.
Alone(ops, u) ==
  \A r, s \in Requests :
    /\ request[r].user = u /\ request[s].user = u
    /\ request[r].op \in ops /\ request[s].op \in ops
    => r = s

\* What a request will do about the chat and the code of its account.
LinkJob(q, a) ==
  /\ q.op = "start" => HasCode(a["code"])
  /\ q.op = "deleteTelegram" =>
       IF "chat" \in DOMAIN q.write THEN q.write["chat"] = Null ELSE a["chat"] = Null
  /\ q.op = "getProfile" => "code" \in DOMAIN q.write /\ HasCode(q.write["code"])

Linked(u) ==
  /\ Alone(ChatRequests, u)
  /\ Has(user[u]["chat"]) => HasCode(user[u]["code"])
  /\ \A r \in Requests : request[r].user = u => LinkJob(request[r], user[u])

LinkInv == \A u \in Users \ straddled : Linked(u)

LEMMA StartedFacts ==
  ASSUME Shapes, NEW r \in Requests, NEW v \in Users, NEW op, NEW pc, NEW w, NEW to,
         Started(r, op, v, pc, w, to)
  PROVE  /\ request[r] = Idle
         /\ request'[r].op = op /\ request'[r].user = v /\ request'[r].pc = pc
         /\ request'[r].id = count + 1 /\ request'[r].to = to /\ request'[r].write = w
         /\ \A s \in Requests \ {r} : request'[s] = request[s]
         /\ UNCHANGED <<user, confirmation, mails>> /\ count' = count + 1
         /\ Doubtful \subseteq Doubtful' /\ straddled \subseteq straddled'
         /\ \A s \in Requests : request[s].user = v =>
              /\ op \in EmailRequests /\ request[s].op \in EmailRequests => v \in Doubtful'
              /\ op \in ChatRequests /\ request[s].op \in ChatRequests => v \in straddled'
         /\ proven' = IF op = "confirmEmail"
                      THEN [proven EXCEPT ![v] = @ \cup MailedTo(confirmation[v].code)]
                      ELSE proven
         /\ Begins(op, v, pc, w, to)
<1> DEFINE q == [pc |-> pc, op |-> op, user |-> v, id |-> count + 1, to |-> to, write |-> w]
<1>1. /\ request[r] = Idle /\ count' = count + 1
      /\ request' = [request EXCEPT ![r] = q]
  BY DEF Started, Begin
<1>2. /\ q.op = op /\ q.user = v /\ q.pc = pc /\ q.id = count + 1 /\ q.to = to /\ q.write = w
  OBVIOUS
<1> HIDE DEF q
<1>3. request'[r] = q /\ \A s \in Requests \ {r} : request'[s] = request[s]
  BY <1>1 DEF Shapes, RequestsOK
<1>4. /\ UNCHANGED <<user, confirmation, mails>>
      /\ Doubtful \subseteq Doubtful' /\ straddled \subseteq straddled'
      /\ \A s \in Requests : request[s].user = v =>
           /\ op \in EmailRequests /\ request[s].op \in EmailRequests => v \in Doubtful'
           /\ op \in ChatRequests /\ request[s].op \in ChatRequests => v \in straddled'
      /\ proven' = IF op = "confirmEmail"
                   THEN [proven EXCEPT ![v] = @ \cup MailedTo(confirmation[v].code)]
                   ELSE proven
  BY DEF Started, Begin, Store, Doubtful
<1>5. Begins(op, v, pc, w, to)
  BY DEF Started
<1> QED
  BY <1>1, <1>2, <1>3, <1>4, <1>5

LEMMA StartedLinked ==
  ASSUME Shapes, NEW r \in Requests, NEW v \in Users, NEW op, NEW pc, NEW w, NEW to,
         Started(r, op, v, pc, w, to), NEW u \in Users, u \notin straddled', Linked(u)
  PROVE  Linked(u)'
<1>1. /\ request[r] = Idle
      /\ request'[r].op = op /\ request'[r].user = v /\ request'[r].write = w
      /\ \A s \in Requests \ {r} : request'[s] = request[s]
      /\ user' = user
      /\ \A s \in Requests : request[s].user = v =>
           (op \in ChatRequests /\ request[s].op \in ChatRequests => v \in straddled')
      /\ Begins(op, v, pc, w, to)
  BY StartedFacts
<1>2. Alone(ChatRequests, u)'
  BY <1>1 DEF Linked, Alone
<1>3. v = u => LinkJob(request'[r], user[u])
  BY <1>1 DEF LinkJob, Begins, After
<1> QED
  BY <1>1, <1>2, <1>3 DEF Linked

\* Another request of the account has not been replaced, and neither has one
\* that goes on.
LEMMA ReplacedLinked ==
  ASSUME Shapes, NEW r \in Requests, NEW q, request' = [request EXCEPT ![r] = q],
         NEW u \in Users, Linked(u),
         user'[u]["chat"] = user[u]["chat"], user'[u]["code"] = user[u]["code"],
         \/ q = Idle
         \/ /\ Same(q, request[r])
            /\ q.write = request[r].write \/ q.op \in {"start", "confirmEmail", "addEmail"}
  PROVE  Linked(u)'
<1>1. request'[r] = q /\ \A s \in Requests \ {r} : request'[s] = request[s]
  BY DEF Shapes, RequestsOK
<1>2. \A s \in Requests : \/ request'[s] = request[s]
                          \/ s = r /\ q = Idle
                          \/ s = r /\ Same(q, request[r])
  BY <1>1
<1>3. Idle.op = "none"
  BY IdleOK
<1>4. Alone(ChatRequests, u)'
  BY <1>1, <1>2, <1>3 DEF Linked, Alone, Same, ChatRequests
<1>5. ASSUME NEW s \in Requests, request'[s].user = u
      PROVE  LinkJob(request'[s], user'[u])
  <2>1. CASE request'[s] = request[s]
    BY <1>5, <2>1 DEF Linked, LinkJob
  <2>2. CASE s = r /\ q = Idle
    BY <1>1, <1>3, <2>2 DEF LinkJob
  <2>3. CASE s = r /\ Same(q, request[r])
    <3>1. request[r].user = u /\ LinkJob(request[r], user[u])
      BY <1>1, <1>5, <2>3 DEF Same, Linked
    <3>2. CASE q.write = request[r].write
      BY <1>1, <2>3, <3>1, <3>2 DEF Same, LinkJob
    <3>3. CASE q.op \in {"start", "confirmEmail", "addEmail"}
      BY <1>1, <2>3, <3>1, <3>3 DEF Same, LinkJob
    <3>4. CASE q = Idle
      BY <1>1, <1>3, <2>3, <3>4 DEF LinkJob
    <3> QED
      BY <3>2, <3>3, <3>4
  <2> QED
    BY <1>2, <2>1, <2>2, <2>3
<1>6. Has(user'[u]["chat"]) => HasCode(user'[u]["code"])
  BY DEF Linked
<1> QED
  BY <1>4, <1>5, <1>6 DEF Linked

LEMMA SavesLinked ==
  ASSUME Shapes, NEW r \in Requests, NEW q, Saves(r, q), NEW u \in Users, Linked(u)
  PROVE  Linked(u)'
<1> DEFINE v == request[r].user
           w == request[r].write
           op == request[r].op
<1>1. /\ request[r] # Idle /\ v \in Users
      /\ JobOK(op, v, "save", w, request[r].to, Opened)
      /\ \A x \in Users \ {v} : user'[x] = user[x]
      /\ \A f \in Fields : user'[v][f] = After(w, v, f)
  BY SavesShapes
<1>2. /\ request' = [request EXCEPT ![r] = q]
      /\ q = Idle \/ (Same(q, request[r]) /\ q.op = "addEmail")
  BY DEF Saves, Same
<1>3. DOMAIN w \ {"stored"} \subseteq Concern(op) /\ op \in Ops
  BY <1>1 DEF JobOK
<1>4. CASE v # u
  BY <1>1, <1>2, <1>4, ReplacedLinked
<1>5. CASE v = u /\ op \notin {"getProfile", "start", "deleteTelegram"}
  <2>1. "chat" \notin DOMAIN w /\ "code" \notin DOMAIN w
    BY <1>3, <1>5 DEF Concern, Ops
  <2>2. user'[u]["chat"] = user[u]["chat"] /\ user'[u]["code"] = user[u]["code"]
    BY <1>1, <1>5, <2>1 DEF After, Fields
  <2> QED
    BY <1>2, <2>2, ReplacedLinked
<1>6. CASE v = u /\ op \in {"getProfile", "start", "deleteTelegram"}
  <2>1. /\ request'[r] = Idle /\ \A s \in Requests \ {r} : request'[s] = request[s]
        /\ Idle.op = "none"
    BY <1>6, IdleOK DEF Saves, Shapes, RequestsOK
  <2>2. Alone(ChatRequests, u)'
    BY <2>1 DEF Linked, Alone, ChatRequests
  <2>3. LinkJob(request[r], user[u])
    BY <1>6 DEF Linked
  <2>4. user'[u]["chat"] = After(w, u, "chat") /\ user'[u]["code"] = After(w, u, "code")
    BY <1>1, <1>6 DEF Fields
  <2>5. op \in {"start", "deleteTelegram"} =>
          \A s \in Requests \ {r} : request[s].user = u =>
            request[s].op \notin {"start", "deleteTelegram"}
    BY <1>6 DEF Linked, Alone, ChatRequests
  <2>6. CASE op = "getProfile"
    <3>1. user'[u]["chat"] = user[u]["chat"] /\ HasCode(user'[u]["code"])
      <4>1. "chat" \notin DOMAIN w
        BY <1>3, <2>6 DEF Concern
      <4> QED
        BY <2>3, <2>4, <2>6, <4>1 DEF After, LinkJob
    <3> QED
      BY <2>1, <2>2, <3>1 DEF Linked, LinkJob
  <2>7. CASE op = "start"
    <3>1. HasCode(user'[u]["code"])
      <4>1. "code" \notin DOMAIN w
        BY <1>3, <2>7 DEF Concern
      <4> QED
        BY <2>3, <2>4, <2>7, <4>1 DEF After, LinkJob
    <3> QED
      BY <2>1, <2>2, <2>5, <2>7, <3>1 DEF Linked, LinkJob
  <2>8. CASE op = "deleteTelegram"
    <3>1. user'[u]["chat"] = Null
      BY <2>3, <2>4, <2>8 DEF After, LinkJob
    <3> QED
      BY <2>1, <2>2, <2>5, <2>8, <3>1 DEF Linked, LinkJob, Has
  <2> QED
    BY <1>6, <2>6, <2>7, <2>8
<1> QED
  BY <1>4, <1>5, <1>6

LEMMA StepLinked ==
  ASSUME Shapes, LinkInv, Steps
  PROVE  LinkInv'
<1> SUFFICES ASSUME NEW u \in Users, u \notin straddled'
             PROVE  Linked(u)'
  BY DEF LinkInv
<1>1. CASE \E r \in Requests, v \in Users : Starts(r, v)
  <2>3. PICK r \in Requests, v \in Users : Starts(r, v)
    BY <1>1
  <2>1. PICK op, pc, w, to : Started(r, op, v, pc, w, to)
    BY <2>3 DEF Starts
  <2>2. u \notin straddled
    BY <2>1, StartedFacts
  <2> QED
    BY <2>1, <2>2, StartedLinked DEF LinkInv
<1> SUFFICES ASSUME ~ \E r \in Requests, v \in Users : Starts(r, v)
             PROVE  Linked(u)'
  BY <1>1
<1>2. straddled' = straddled
  BY DEF Steps, Created, Advanced, Saves, StoreCode, Expire, Crash, Idles, history
<1>3. Linked(u)
  BY <1>2 DEF LinkInv
<1>4. ASSUME NEW r \in Requests, NEW q, Created(r, q)
      PROVE  Linked(u)'
  <2>1. user'[u]["chat"] = user[u]["chat"] /\ user'[u]["code"] = user[u]["code"]
    BY <1>4, CreatedShapes DEF Fields
  <2>2. request' = [request EXCEPT ![r] = q] /\ Same(q, request[r]) /\ q.write = request[r].write
    BY <1>4 DEF Created
  <2> QED
    BY <1>3, <2>1, <2>2, ReplacedLinked
<1>5. ASSUME NEW r \in Requests, NEW q, Advanced(r, q)
      PROVE  Linked(u)'
  <2>1. user' = user /\ request' = [request EXCEPT ![r] = q]
    BY <1>5 DEF Advanced, Store
  <2>2. \/ q = Idle
        \/ /\ Same(q, request[r])
           /\ q.write = request[r].write \/ q.op \in {"start", "confirmEmail", "addEmail"}
    <3>1. request[r].pc = "find" => request[r].op \in {"start", "confirmEmail"}
      BY <1>5, RequestFacts DEF Advanced, JobOK, Phase
    <3> QED
      BY <1>5, <3>1 DEF Advanced, Same
  <2> QED
    BY <1>3, <2>1, <2>2, ReplacedLinked
<1>6. ASSUME NEW r \in Requests, NEW q, Saves(r, q)
      PROVE  Linked(u)'
  BY <1>3, <1>6, SavesLinked
<1>7. ASSUME NEW r \in Requests, StoreCode(r)
      PROVE  Linked(u)'
  <2>1. user' = user /\ request' = [request EXCEPT ![r] = Idle]
    BY <1>7 DEF StoreCode, End
  <2> QED
    BY <1>3, <2>1, ReplacedLinked
<1>8. CASE Idles \/ \E v \in Users : Expire(v)
  <2>1. user' = user /\ request' = request
    BY <1>8 DEF Idles, Expire, Store
  <2> QED
    BY <1>3, <2>1 DEF Linked, Alone
<1>9. CASE Crash
  <2>1. user' = user /\ request' = [r \in Requests |-> Idle] /\ Idle.op = "none"
    BY <1>9, IdleOK DEF Crash
  <2> QED
    BY <1>3, <2>1 DEF Linked, Alone, LinkJob, ChatRequests
<1> QED
  BY <1>4, <1>5, <1>6, <1>7, <1>8, <1>9 DEF Steps

LEMMA InitLinked == Init => LinkInv
<1> SUFFICES ASSUME Init, NEW u \in Users PROVE Linked(u)
  BY DEF LinkInv
<1>1. request = [r \in Requests |-> Idle] /\ Idle.op = "none"
  BY IdleOK DEF Init
<1>2. Has(user[u]["chat"]) => HasCode(user[u]["code"])
  <2>1. PICK v \in Active, kind \in {"none", "full", "pending", "deleted"},
             e \in Emails, c \in Chats :
          user = [x \in Users |-> IF x = v THEN AccountOf(kind, e, c) ELSE NoAccount]
    BY DEF Init
  <2>2. ~ Has(NoAccount["chat"])
    BY DEF NoAccount, Has
  <2>3. kind # "none" => AccountOf(kind, e, c).code = -1
    BY InitialAccount
  <2>4. kind = "none" => AccountOf(kind, e, c) = NoAccount
    BY InitialAccount
  <2>5. HasCode(-1)
    BY DEF HasCode, NoCode, NullCode
  <2> QED
    BY <2>1, <2>2, <2>3, <2>4, <2>5
<1> QED
  BY <1>1, <1>2 DEF Linked, Alone, LinkJob, ChatRequests

\* A chat stays linked only as long as a code to link it by is there: whoever
\* unlinks Telegram gets rid of both, whatever other requests save meanwhile.
THEOREM ChatsHaveCodes == Spec => []LinkedHasCode
<1>1. Shapes /\ LinkInv /\ [Next]_vars => Shapes' /\ LinkInv'
  <2>1. SUFFICES ASSUME Shapes, LinkInv, Next \/ UNCHANGED vars
                 PROVE  Shapes' /\ LinkInv'
    OBVIOUS
  <2>2. Next \/ Idles
    BY <2>1 DEF vars, Idles, Store, history
  <2> QED
    BY <2>1, <2>2, NextSteps, StepShapes, StepLinked, AccountAssumption
<1>2. LinkInv => LinkedHasCode
  BY DEF LinkInv, Linked, LinkedHasCode
<1> QED
  BY <1>1, <1>2, InitShapes, InitLinked, PTL DEF Spec

-----------------------------------------------------------------------------
(* Codes and addresses. *)

\* Codes that were mailed or wait for an answer.
Given == (mails \cup {confirmation[u] : u \in Users}) \ {NoConfirmation}

\* A code stands for one address, and the code of a request is yet to be given.
CodeInv ==
  /\ \A m, n \in Given : m.code = n.code => m.email = n.email
  /\ \A m \in Given : m.code <= count
  /\ \A r, s \in Requests :
       request[r] # Idle /\ request[s] # Idle /\ r # s => request[r].id # request[s].id
  /\ \A r \in Requests : request[r].op = "addEmail" => \A m \in Given : m.code # request[r].id

\* What a request will do about the address of its account.
MailJob(q, a, shown) ==
  /\ q.op = "addEmail" => q.pc \in {"save", "code"}
  /\ q.op = "addEmail" /\ q.pc = "save" =>
       /\ IF "email" \in DOMAIN q.write THEN q.write["email"] = q.to ELSE a["email"] = q.to
       /\ IF "emailConfirmed" \in DOMAIN q.write THEN q.write["emailConfirmed"] = FALSE
          ELSE a["emailConfirmed"] = FALSE
  /\ q.op = "addEmail" /\ q.pc = "code" => a["email"] = q.to
  /\ q.op = "deleteEmail" =>
       IF "email" \in DOMAIN q.write THEN q.write["email"] = Null ELSE a["email"] = Null
  /\ q.op = "confirmEmail" =>
       "email" \notin DOMAIN q.write /\ (Has(a["email"]) => a["email"] \in shown)

\* The address that waits for its code is the one the account has, unless it has none.
Awaited(u) ==
  (\A r \in Requests : request[r].user = u => request[r].pc # "code") =>
    \/ confirmation[u] = NoConfirmation \/ ~ Has(user[u]["email"])
    \/ user[u]["email"] = confirmation[u].email

Proven(u) ==
  /\ Alone(EmailRequests, u)
  /\ user[u]["emailConfirmed"] /\ Has(user[u]["email"]) => user[u]["email"] \in proven[u]
  /\ Awaited(u)
  /\ \A r \in Requests : request[r].user = u => MailJob(request[r], user[u], proven[u])

ProofInv == CodeInv /\ \A u \in Users \ Doubtful : Proven(u)

LEMMA StartedCodes ==
  ASSUME Shapes, CodeInv, NEW r \in Requests, NEW v \in Users, NEW op, NEW pc, NEW w, NEW to,
         Started(r, op, v, pc, w, to)
  PROVE  CodeInv'
<1>1. /\ request[r] = Idle
      /\ request'[r].op = op /\ request'[r].id = count + 1
      /\ \A s \in Requests \ {r} : request'[s] = request[s]
      /\ UNCHANGED <<confirmation, mails>> /\ count' = count + 1
  BY StartedFacts
<1>2. Given' = Given
  BY <1>1 DEF Given
<1>3. count \in Nat /\ \A m \in Given : m.code \in Int
  BY AccountAssumption DEF Shapes, CodesOK, Given, Codes
<1>4. \A s \in Requests : request[s] # Idle => request[s].id \in 1 .. count
  BY RequestFacts
<1>5. \A m \in Given : m.code <= count + 1 /\ m.code # count + 1
  BY <1>3 DEF CodeInv
<1>6. \A s \in Requests : request[s] # Idle => request[s].id # count + 1
  BY <1>3, <1>4
<1> QED
  BY <1>1, <1>2, <1>5, <1>6 DEF CodeInv

LEMMA StartedProven ==
  ASSUME Shapes, CodeInv, NEW r \in Requests, NEW v \in Users, NEW op, NEW pc, NEW w, NEW to,
         Started(r, op, v, pc, w, to), NEW u \in Users, u \notin Doubtful', Proven(u)
  PROVE  Proven(u)'
<1>1. /\ request[r] = Idle
      /\ request'[r].op = op /\ request'[r].user = v /\ request'[r].write = w
      /\ request'[r].pc = pc /\ request'[r].to = to
      /\ \A s \in Requests \ {r} : request'[s] = request[s]
      /\ UNCHANGED <<user, confirmation, mails>>
      /\ \A s \in Requests : request[s].user = v =>
           (op \in EmailRequests /\ request[s].op \in EmailRequests => v \in Doubtful')
      /\ Begins(op, v, pc, w, to)
      /\ proven' = IF op = "confirmEmail"
                   THEN [proven EXCEPT ![v] = @ \cup MailedTo(confirmation[v].code)]
                   ELSE proven
  BY StartedFacts
<1>2. Alone(EmailRequests, u)'
  BY <1>1 DEF Proven, Alone
<1>3. proven[u] \subseteq proven'[u]
  BY <1>1 DEF Shapes
<1>4. Awaited(u)'
  <2>1. Idle.pc = "idle"
    BY IdleOK
  <2> QED
    BY <1>1, <2>1 DEF Proven, Awaited
<1>5. ASSUME v = u
      PROVE  MailJob(request'[r], user[u], proven'[u])
  <2>1. op = "confirmEmail" /\ Has(user[u]["email"]) => user[u]["email"] \in proven'[u]
    <3>1. SUFFICES ASSUME op = "confirmEmail", Has(user[u]["email"])
                   PROVE  user[u]["email"] \in proven'[u]
      OBVIOUS
    <3>2. \A s \in Requests : request[s].user = u => request[s].op \notin EmailRequests
      BY <1>1, <1>5, <3>1 DEF EmailRequests
    <3>3. ASSUME NEW s \in Requests, request[s].user = u
          PROVE  request[s].pc # "code"
      <4>1. CASE request[s] = Idle
        BY <4>1, IdleOK
      <4>2. CASE request[s] # Idle
        BY <3>2, <3>3, <4>2, RequestFacts DEF JobOK, Phase, EmailRequests
      <4> QED
        BY <4>1, <4>2
    <3>4. PICK m \in mails : confirmation[u].code = m.code
      BY <1>1, <1>5, <3>1 DEF Begins
    <3>5. m.code # NoCode
      BY DEF Shapes, CodesOK, Codes
    <3>6. confirmation[u] # NoConfirmation
      BY <3>4, <3>5 DEF NoConfirmation
    <3>7. user[u]["email"] = confirmation[u].email
      BY <3>1, <3>3, <3>6 DEF Proven, Awaited
    <3>8. m.email = confirmation[u].email
      <4>1. m \in Given /\ confirmation[u] \in Given
        BY <3>4, <3>5, <3>6 DEF Given, NoConfirmation
      <4> QED
        BY <3>4, <4>1 DEF CodeInv
    <3>9. m.email \in MailedTo(confirmation[u].code)
      BY <3>4 DEF MailedTo
    <3>10. proven'[u] = proven[u] \cup MailedTo(confirmation[u].code)
      BY <1>1, <1>5, <3>1 DEF Shapes
    <3> QED
      BY <3>7, <3>8, <3>9, <3>10
  <2>2. op \in {"addEmail", "deleteEmail"} => MailJob(request'[r], user[u], proven'[u])
    BY <1>1, <1>5 DEF MailJob, Begins, After
  <2>3. op = "confirmEmail" => "email" \notin DOMAIN w
    BY <1>1, <1>5, SingleWrite DEF Begins
  <2> QED
    BY <1>1, <2>1, <2>2, <2>3 DEF MailJob
<1>6. ASSUME NEW s \in Requests, request'[s].user = u
      PROVE  MailJob(request'[s], user'[u], proven'[u])
  <2>1. CASE s = r
    BY <1>1, <1>5, <1>6, <2>1
  <2>2. CASE s # r
    BY <1>1, <1>3, <1>6, <2>2 DEF Proven, MailJob
  <2> QED
    BY <2>1, <2>2
<1> QED
  BY <1>1, <1>2, <1>3, <1>4, <1>6 DEF Proven

\* A request ends or goes on and no code is given.
LEMMA ReplacedCodes ==
  ASSUME Shapes, CodeInv, NEW r \in Requests, NEW q, Replaced(r, q),
         UNCHANGED <<confirmation, mails, count>>, request[r] # Idle,
         q = Idle \/ Same(q, request[r])
  PROVE  CodeInv'
<1>1. request'[r] = q /\ \A s \in Requests \ {r} : request'[s] = request[s]
  BY DEF Shapes, RequestsOK, Replaced
<1>2. Given' = Given
  BY DEF Given
<1>3. Idle.op = "none"
  BY IdleOK
<1> QED
  BY <1>1, <1>2, <1>3 DEF CodeInv, Same

LEMMA ReplacedProven ==
  ASSUME Shapes, NEW r \in Requests, NEW q, Replaced(r, q),
         UNCHANGED <<confirmation, proven>>, request[r].pc # "code",
         NEW u \in Users, Proven(u),
         user'[u]["email"] = user[u]["email"],
         user'[u]["emailConfirmed"] = user[u]["emailConfirmed"],
         \/ q = Idle
         \/ /\ Same(q, request[r]) /\ q.op # "addEmail"
            /\ q.write = request[r].write \/ (q.op # "deleteEmail" /\ "email" \notin DOMAIN q.write)
            /\ q.pc # "code"
  PROVE  Proven(u)'
<1>1. request'[r] = q /\ \A s \in Requests \ {r} : request'[s] = request[s]
  BY DEF Shapes, RequestsOK, Replaced
<1>2. \A s \in Requests : \/ request'[s] = request[s]
                          \/ s = r /\ q = Idle
                          \/ s = r /\ Same(q, request[r])
  BY <1>1
<1>3. Idle.op = "none" /\ Idle.pc = "idle"
  BY IdleOK
<1>4. Alone(EmailRequests, u)'
  BY <1>1, <1>2, <1>3 DEF Proven, Alone, Same, EmailRequests
<1>5. ASSUME NEW s \in Requests, request'[s].user = u
      PROVE  MailJob(request'[s], user'[u], proven'[u])
  <2>1. CASE request'[s] = request[s]
    BY <1>5, <2>1 DEF Proven, MailJob
  <2>2. CASE s = r /\ q = Idle
    BY <1>1, <1>3, <2>2 DEF MailJob
  <2>3. CASE s = r /\ q # Idle
    <3>1. request[r].user = u /\ MailJob(request[r], user[u], proven[u])
      BY <1>1, <1>5, <2>3 DEF Same, Proven
    <3>2. CASE q.write = request[r].write
      BY <1>1, <2>3, <3>1, <3>2 DEF Same, MailJob
    <3>3. CASE q.op # "deleteEmail" /\ "email" \notin DOMAIN q.write
      BY <1>1, <2>3, <3>1, <3>3 DEF Same, MailJob
    <3> QED
      BY <2>3, <3>2, <3>3
  <2> QED
    BY <1>1, <2>1, <2>2, <2>3
<1>6. Awaited(u)'
  <2>1. (\A s \in Requests : request'[s].user = u => request'[s].pc # "code") =>
          \A s \in Requests : request[s].user = u => request[s].pc # "code"
    BY <1>1
  <2> QED
    BY <2>1 DEF Proven, Awaited
<1> QED
  BY <1>4, <1>5, <1>6 DEF Proven

LEMMA SavesProven ==
  ASSUME Shapes, NEW r \in Requests, NEW q, Saves(r, q), NEW u \in Users, Proven(u)
  PROVE  Proven(u)'
<1> DEFINE v == request[r].user
           w == request[r].write
           op == request[r].op
<1>1. /\ request[r] # Idle /\ v \in Users
      /\ JobOK(op, v, "save", w, request[r].to, Opened)
      /\ \A x \in Users \ {v} : user'[x] = user[x]
      /\ \A f \in Fields : user'[v][f] = After(w, v, f)
  BY SavesShapes
<1>2. /\ Replaced(r, q) /\ request[r].pc = "save" /\ UNCHANGED <<confirmation, proven>>
      /\ IF op = "addEmail" THEN Same(q, request[r]) /\ q.pc = "code" ELSE q = Idle
  BY DEF Saves, Replaced, history
<1>3. DOMAIN w \ {"stored"} \subseteq Concern(op) /\ op \in Ops
  BY <1>1 DEF JobOK
<1>4. /\ request'[r] = q /\ \A s \in Requests \ {r} : request'[s] = request[s]
      /\ Idle.op = "none" /\ Idle.pc = "idle"
  BY <1>2, IdleOK DEF Shapes, RequestsOK, Replaced
<1>5. CASE op \notin EmailRequests
  <2>1. "email" \notin DOMAIN w /\ "emailConfirmed" \notin DOMAIN w
    BY <1>3, <1>5 DEF Concern, Ops, EmailRequests
  <2>2. /\ user'[u]["email"] = user[u]["email"]
        /\ user'[u]["emailConfirmed"] = user[u]["emailConfirmed"]
    BY <1>1, <2>1 DEF After, Fields
  <2>3. q = Idle
    BY <1>2, <1>5 DEF EmailRequests
  <2> QED
    BY <1>2, <2>2, <2>3, ReplacedProven
<1>6. CASE v # u
  <2>1. user'[u] = user[u]
    BY <1>1, <1>6
  <2>2. \A s \in Requests : request'[s].user = u =>
           \/ request'[s] = request[s]
           \/ request'[s] = Idle
    BY <1>2, <1>4, <1>6 DEF Same
  <2>3. (\A s \in Requests : request'[s].user = u => request'[s].pc # "code") =>
          \A s \in Requests : request[s].user = u => request[s].pc # "code"
    BY <1>2, <1>4
  <2>4. Awaited(u)'
    BY <1>2, <2>1, <2>3 DEF Proven, Awaited
  <2>5. Alone(EmailRequests, u)'
    BY <1>4, <2>2 DEF Proven, Alone, EmailRequests
  <2>6. \A s \in Requests : request'[s].user = u => MailJob(request'[s], user'[u], proven'[u])
    BY <1>2, <1>4, <2>1, <2>2 DEF Proven, MailJob
  <2> QED
    BY <1>2, <2>1, <2>4, <2>5, <2>6 DEF Proven
<1>7. CASE v = u /\ op \in EmailRequests
  <2>1. \A s \in Requests \ {r} : request[s].user = u => request[s].op \notin EmailRequests
    BY <1>7 DEF Proven, Alone
  <2>2. MailJob(request[r], user[u], proven[u])
    BY <1>7 DEF Proven
  <2>3. /\ user'[u]["email"] = After(w, u, "email")
        /\ user'[u]["emailConfirmed"] = After(w, u, "emailConfirmed")
    BY <1>1, <1>7 DEF Fields
  <2>4. Alone(EmailRequests, u)'
    BY <1>4, <2>1 DEF Alone, EmailRequests
  <2>5. ASSUME NEW s \in Requests \ {r}, request'[s].user = u
        PROVE  MailJob(request'[s], user'[u], proven'[u])
    BY <1>4, <2>1, <2>5 DEF MailJob, EmailRequests
  <2>6. (\A s \in Requests : request'[s].user = u => request'[s].pc # "code") =>
          \A s \in Requests : request[s].user = u => request[s].pc # "code"
    BY <1>2, <1>4
  <2>7. CASE op = "addEmail"
    <3>1. user'[u]["email"] = request[r].to /\ user'[u]["emailConfirmed"] = FALSE
      BY <1>2, <2>2, <2>3, <2>7 DEF MailJob, After
    <3>2. /\ q.op = "addEmail" /\ q.to = request[r].to /\ q.pc = "code" /\ q.user = u
      BY <1>2, <1>7, <2>7 DEF Same
    <3>3. MailJob(request'[r], user'[u], proven'[u])
      BY <1>4, <3>1, <3>2 DEF MailJob
    <3>4. Awaited(u)'
      BY <1>4, <3>2 DEF Awaited
    <3> QED
      BY <2>4, <2>5, <3>1, <3>3, <3>4 DEF Proven
  <2>8. CASE op = "deleteEmail"
    <3>1. ~ Has(user'[u]["email"])
      BY <2>2, <2>3, <2>8 DEF MailJob, After, Has
    <3>2. request'[r] = Idle
      BY <1>2, <1>4, <2>8
    <3>3. MailJob(request'[r], user'[u], proven'[u])
      BY <1>4, <3>2 DEF MailJob
    <3>4. Awaited(u)'
      BY <3>1 DEF Awaited
    <3> QED
      BY <2>4, <2>5, <3>1, <3>3, <3>4 DEF Proven
  <2>9. CASE op = "confirmEmail"
    <3>1. /\ user'[u]["email"] = user[u]["email"]
          /\ Has(user[u]["email"]) => user[u]["email"] \in proven[u]
      BY <2>2, <2>3, <2>9 DEF MailJob, After
    <3>2. request'[r] = Idle
      BY <1>2, <1>4, <2>9
    <3>3. MailJob(request'[r], user'[u], proven'[u])
      BY <1>4, <3>2 DEF MailJob
    <3>4. Awaited(u)'
      BY <1>2, <2>6, <3>1 DEF Proven, Awaited
    <3> QED
      BY <1>2, <2>4, <2>5, <3>1, <3>3, <3>4 DEF Proven
  <2> QED
    BY <1>7, <2>7, <2>8, <2>9 DEF EmailRequests
<1> QED
  BY <1>5, <1>6, <1>7

LEMMA AdvancedProven ==
  ASSUME Shapes, NEW r \in Requests, NEW q, Advanced(r, q), NEW u \in Users, u \notin Doubtful',
         Proven(u)
  PROVE  Proven(u)'
<1>1. request[r] # Idle /\ Replaced(r, q) /\ UNCHANGED <<user, confirmation, proven>>
  BY DEF Advanced, Store, Replaced
<1>2. JobOK(request[r].op, request[r].user, request[r].pc, request[r].write, request[r].to, Opened)
  BY <1>1, RequestFacts
<1>3. CASE request[r].pc # "code" /\ request[r].user = u
  <2>1. MailJob(request[r], user[u], proven[u])
    BY <1>3 DEF Proven
  <2>2. ASSUME q # Idle
        PROVE  /\ Same(q, request[r]) /\ q.op # "addEmail" /\ q.pc # "code"
               /\ q.write = request[r].write \/ (q.op # "deleteEmail" /\ "email" \notin DOMAIN q.write)
    <3>1. /\ Same(q, request[r]) /\ q.pc = "save"
          /\ \/ request[r].pc = "username" /\ q.write = request[r].write
             \/ request[r].pc = "find" /\ "email" \notin DOMAIN q.write
      BY <2>2 DEF Advanced
    <3>2. request[r].pc = "find" => request[r].op \in {"confirmEmail", "start"}
      BY <1>2 DEF JobOK, Phase
    <3>3. request[r].op # "addEmail"
      BY <2>1, <3>1, <3>2 DEF MailJob
    <3> QED
      BY <3>1, <3>2, <3>3 DEF Same
  <2> QED
    BY <1>1, <1>3, <2>2, ReplacedProven
<1>4. CASE request[r].user # u
  <2>1. /\ request'[r] = q /\ \A s \in Requests \ {r} : request'[s] = request[s]
        /\ Idle.op = "none" /\ Idle.pc = "idle"
    BY <1>1, IdleOK DEF Shapes, RequestsOK, Replaced
  <2>2. q = Idle \/ q.user = request[r].user
    BY DEF Advanced, Same
  <2>3. \A s \in Requests : request'[s].user = u =>
           \/ request'[s] = request[s]
           \/ request'[s] = Idle
    BY <1>4, <2>1, <2>2
  <2>4. \A s \in Requests : request[s].user = u => request'[s] = request[s]
    BY <1>4, <2>1
  <2>5. Awaited(u)'
    BY <1>1, <2>1, <2>4 DEF Proven, Awaited
  <2>6. Alone(EmailRequests, u)'
    BY <2>1, <2>3 DEF Proven, Alone, EmailRequests
  <2>7. \A s \in Requests : request'[s].user = u => MailJob(request'[s], user'[u], proven'[u])
    BY <1>1, <2>1, <2>3 DEF Proven, MailJob
  <2> QED
    BY <1>1, <2>5, <2>6, <2>7 DEF Proven
<1>5. CASE request[r].pc = "code" /\ request[r].user = u
  <2>1. q = Idle /\ Dropped(r)
    BY <1>5 DEF Advanced
  <2>2. /\ request'[r] = Idle /\ \A s \in Requests \ {r} : request'[s] = request[s]
        /\ Idle.op = "none" /\ Idle.pc = "idle"
    BY <1>1, <2>1, IdleOK DEF Shapes, RequestsOK, Replaced
  <2>3. request[r].op = "addEmail"
    BY <1>2, <1>5 DEF JobOK, Phase
  <2>4. user[u]["email"] = request[r].to
    BY <1>5, <2>3 DEF Proven, MailJob
  <2>5. Awaited(u)'
    BY <1>1, <1>5, <2>1, <2>4 DEF Dropped, Awaited
  <2>6. Alone(EmailRequests, u)'
    BY <2>2 DEF Proven, Alone, EmailRequests
  <2>7. \A s \in Requests : request'[s].user = u => MailJob(request'[s], user'[u], proven'[u])
    BY <1>1, <2>2 DEF Proven, MailJob
  <2> QED
    BY <1>1, <2>5, <2>6, <2>7 DEF Proven
<1> QED
  BY <1>3, <1>4, <1>5

LEMMA StoreCodeProven ==
  ASSUME Shapes, CodeInv, NEW r \in Requests, StoreCode(r)
  PROVE  CodeInv' /\ \A u \in Users : Proven(u) => Proven(u)'
<1> DEFINE v == request[r].user
           m == [email |-> request[r].to, code |-> request[r].id]
<1>1. request[r] # Idle /\ request[r].pc = "code"
  BY IdleOK DEF StoreCode
<1>2. /\ request[r].id \in 1 .. count /\ v \in Users /\ request[r].op = "addEmail"
  BY <1>1, RequestFacts DEF JobOK, Phase
<1>3. /\ confirmation' = [confirmation EXCEPT ![v] = m]
      /\ mails' \subseteq mails \cup {m}
      /\ Replaced(r, Idle)
      /\ UNCHANGED <<user, count, proven>>
  BY DEF StoreCode, End, history, Replaced
<1>4. /\ request'[r] = Idle /\ \A s \in Requests \ {r} : request'[s] = request[s]
      /\ Idle.op = "none" /\ Idle.pc = "idle"
  BY <1>3, IdleOK DEF Shapes, RequestsOK, Replaced
<1>5. m.email = request[r].to /\ m.code = request[r].id
  OBVIOUS
<1> HIDE DEF m
<1>6. confirmation'[v] = m /\ \A x \in Users \ {v} : confirmation'[x] = confirmation[x]
  BY <1>2, <1>3 DEF Shapes, CodesOK
<1>7. Given' \subseteq Given \cup {m}
  BY <1>3, <1>6 DEF Given
<1>8. CodeInv'
  <2>1. \A n \in Given : n.code # m.code
    BY <1>2, <1>5 DEF CodeInv
  <2>2. m.code <= count
    BY <1>2, <1>5
  <2>3. \A n, k \in Given' : n.code = k.code => n.email = k.email
    BY <1>7, <2>1 DEF CodeInv
  <2>4. \A n \in Given' : n.code <= count'
    BY <1>3, <1>7, <2>2 DEF CodeInv
  <2>5. \A s \in Requests : request'[s].op = "addEmail" =>
           \A n \in Given' : n.code # request'[s].id
    <3>1. SUFFICES ASSUME NEW s \in Requests, request'[s].op = "addEmail", NEW n \in Given'
                   PROVE  n.code # request'[s].id
      OBVIOUS
    <3>2. s # r /\ request'[s] = request[s] /\ request[s] # Idle
      BY <1>4, <3>1
    <3>3. request[s].id # m.code
      BY <1>1, <1>5, <3>2 DEF CodeInv
    <3> QED
      BY <1>7, <3>1, <3>2, <3>3 DEF CodeInv
  <2>6. \A s, x \in Requests :
          request'[s] # Idle /\ request'[x] # Idle /\ s # x => request'[s].id # request'[x].id
    BY <1>4 DEF CodeInv
  <2> QED
    BY <2>3, <2>4, <2>5, <2>6 DEF CodeInv
<1>9. ASSUME NEW u \in Users, Proven(u)
      PROVE  Proven(u)'
  <2>1. Alone(EmailRequests, u)'
    BY <1>4, <1>9 DEF Proven, Alone, EmailRequests
  <2>2. \A s \in Requests : request'[s].user = u => MailJob(request'[s], user'[u], proven'[u])
    BY <1>3, <1>4, <1>9 DEF Proven, MailJob
  <2>3. Awaited(u)'
    <3>1. CASE u = v
      <4>1. user[u]["email"] = request[r].to
        BY <1>1, <1>2, <1>9, <3>1 DEF Proven, MailJob
      <4> QED
        BY <1>3, <1>5, <1>6, <3>1, <4>1 DEF Awaited
    <3>2. CASE u # v
      <4>1. \A s \in Requests : request[s].user = u => request'[s] = request[s]
        BY <1>4, <3>2
      <4> QED
        BY <1>3, <1>6, <1>9, <3>2, <4>1 DEF Proven, Awaited
    <3> QED
      BY <3>1, <3>2
  <2> QED
    BY <1>3, <1>9, <2>1, <2>2, <2>3 DEF Proven
<1> QED
  BY <1>8, <1>9

LEMMA StepProven ==
  ASSUME Shapes, ProofInv, Steps
  PROVE  ProofInv'
<1>1. CASE \E r \in Requests, v \in Users : Starts(r, v)
  <2>1. PICK r \in Requests, v \in Users : Starts(r, v)
    BY <1>1
  <2>2. PICK op, pc, w, to : Started(r, op, v, pc, w, to)
    BY <2>1 DEF Starts
  <2>3. Doubtful \subseteq Doubtful'
    BY <2>2, StartedFacts
  <2>4. CodeInv'
    BY <2>2, StartedCodes DEF ProofInv
  <2>5. ASSUME NEW u \in Users, u \notin Doubtful' PROVE Proven(u)'
    BY <2>2, <2>3, <2>5, StartedProven DEF ProofInv
  <2> QED
    BY <2>4, <2>5 DEF ProofInv
<1>2. ASSUME NEW r \in Requests, NEW q, Created(r, q)
      PROVE  ProofInv'
  <2>1. /\ Replaced(r, q) /\ UNCHANGED <<confirmation, mails, count, proven, Doubtful>>
        /\ Same(q, request[r]) /\ q.write = request[r].write /\ q.pc # "code"
        /\ request[r] # Idle /\ request[r].pc = "create"
    BY <1>2, IdleOK DEF Created, Replaced, history, Doubtful
  <2>2. request[r].op # "addEmail"
    BY <2>1, RequestFacts DEF JobOK, Phase
  <2>3. q.op # "addEmail"
    BY <2>1, <2>2 DEF Same
  <2>4. CodeInv'
    BY <2>1, ReplacedCodes DEF ProofInv
  <2>5. ASSUME NEW u \in Users, u \notin Doubtful
        PROVE  Proven(u)'
    <3>1. /\ user'[u]["email"] = user[u]["email"]
          /\ user'[u]["emailConfirmed"] = user[u]["emailConfirmed"]
      BY <1>2, CreatedShapes DEF Fields
    <3> QED
      BY <2>1, <2>3, <2>5, <3>1, ReplacedProven DEF ProofInv
  <2> QED
    BY <2>1, <2>4, <2>5 DEF ProofInv
<1>3. ASSUME NEW r \in Requests, NEW q, Advanced(r, q)
      PROVE  ProofInv'
  <2>1. /\ Replaced(r, q) /\ UNCHANGED <<confirmation, mails, count>>
        /\ q = Idle \/ Same(q, request[r])
        /\ request[r] # Idle /\ Doubtful \subseteq Doubtful'
    BY <1>3 DEF Advanced, Replaced, Store
  <2>2. CodeInv'
    BY <2>1, ReplacedCodes DEF ProofInv
  <2>3. ASSUME NEW u \in Users, u \notin Doubtful'
        PROVE  Proven(u)'
    BY <1>3, <2>1, <2>3, AdvancedProven DEF ProofInv
  <2> QED
    BY <2>2, <2>3 DEF ProofInv
<1>4. ASSUME NEW r \in Requests, NEW q, Saves(r, q)
      PROVE  ProofInv'
  <2>1. /\ Replaced(r, q) /\ UNCHANGED <<confirmation, mails, count, Doubtful>>
        /\ q = Idle \/ Same(q, request[r])
        /\ request[r] # Idle
    BY <1>4, IdleOK DEF Saves, Replaced, history, Doubtful
  <2>2. CodeInv'
    BY <2>1, ReplacedCodes DEF ProofInv
  <2>3. ASSUME NEW u \in Users, u \notin Doubtful
        PROVE  Proven(u)'
    BY <1>4, <2>3, SavesProven DEF ProofInv
  <2> QED
    BY <2>1, <2>2, <2>3 DEF ProofInv
<1>5. ASSUME NEW r \in Requests, StoreCode(r)
      PROVE  ProofInv'
  <2>1. Doubtful' = Doubtful
    BY <1>5 DEF StoreCode, history, Doubtful
  <2> QED
    BY <1>5, <2>1, StoreCodeProven DEF ProofInv
<1>6. CASE (\E v \in Users : Expire(v)) \/ Idles
  <2>1. /\ UNCHANGED <<user, request, count, mails, proven, Doubtful>>
        /\ \A u \in Users : confirmation'[u] \in {confirmation[u], NoConfirmation}
    BY <1>6 DEF Expire, Idles, Store, history, Doubtful, Shapes, CodesOK
  <2>2. Given' \subseteq Given
    BY <2>1 DEF Given
  <2>3. CodeInv'
    BY <2>1, <2>2 DEF ProofInv, CodeInv
  <2>4. ASSUME NEW u \in Users, Proven(u)
        PROVE  Proven(u)'
    BY <2>1, <2>4 DEF Proven, Alone, Awaited
  <2> QED
    BY <2>1, <2>3, <2>4 DEF ProofInv
<1>7. CASE Crash
  <2>1. /\ UNCHANGED <<user, count, mails, proven, Doubtful>>
        /\ \A r \in Requests : request'[r] = Idle
        /\ \A u \in Users : confirmation'[u] = NoConfirmation
        /\ Idle.op = "none"
    BY <1>7, IdleOK DEF Crash, history, Doubtful
  <2>2. Given' \subseteq Given
    BY <2>1 DEF Given
  <2>3. CodeInv'
    BY <2>1, <2>2 DEF ProofInv, CodeInv
  <2>4. ASSUME NEW u \in Users, Proven(u)
        PROVE  Proven(u)'
    BY <2>1, <2>4 DEF Proven, Alone, Awaited, MailJob, EmailRequests
  <2> QED
    BY <2>1, <2>3, <2>4 DEF ProofInv
<1> QED
  BY <1>1, <1>2, <1>3, <1>4, <1>5, <1>6, <1>7 DEF Steps

LEMMA InitProven == Init => ProofInv
<1> SUFFICES ASSUME Init PROVE ProofInv
  OBVIOUS
<1>1. PICK v \in Active, kind \in {"none", "full", "pending", "deleted"},
           e \in Emails, c \in Chats :
        LET s == [email |-> e, code |-> -1]
            waits == kind \in {"pending", "deleted"} IN
         /\ user = [u \in Users |-> IF u = v THEN AccountOf(kind, e, c) ELSE NoAccount]
         /\ proven = [u \in Users |-> IF u = v /\ kind = "full" THEN {e} ELSE {}]
         /\ confirmation = [u \in Users |-> IF u = v /\ waits THEN s ELSE NoConfirmation]
         /\ mails = IF waits THEN {s} ELSE {}
  BY DEF Init
<1>2. /\ request = [r \in Requests |-> Idle] /\ count = 0 /\ Idle.op = "none"
  BY IdleOK DEF Init
<1>3. CodeInv
  <2>1. \A m \in Given : m.code = -1 /\ m.email = e
    BY <1>1 DEF Given
  <2>2. \A m \in Given : m.code <= 0
    BY <2>1
  <2> QED
    BY <1>2, <2>1, <2>2 DEF CodeInv
<1>4. ASSUME NEW u \in Users
      PROVE  Proven(u)
  <2>1. ~ Has(NoAccount["email"])
    BY DEF NoAccount, Has
  <2>2. LET a == AccountOf(kind, e, c) IN
        /\ kind = "none" => a = NoAccount
        /\ kind = "full" => a["email"] = e
        /\ kind = "pending" => a["email"] = e /\ ~ a["emailConfirmed"]
        /\ kind = "deleted" => ~ Has(a["email"])
    BY InitialAccount DEF Has
  <2>3. user[u]["emailConfirmed"] /\ Has(user[u]["email"]) => user[u]["email"] \in proven[u]
    BY <1>1, <2>1, <2>2
  <2>4. \/ confirmation[u] = NoConfirmation \/ ~ Has(user[u]["email"])
        \/ user[u]["email"] = confirmation[u].email
    BY <1>1, <2>1, <2>2
  <2> QED
    BY <1>2, <2>3, <2>4 DEF Proven, Alone, Awaited, MailJob, EmailRequests
<1> QED
  BY <1>3, <1>4 DEF ProofInv

\* A confirmed address is one whose code its user has shown, although a
\* confirmation compares no addresses and codes outlive the address they were
\* mailed to; except where e-mail requests of the user overlapped, or an addEmail
\* failed between its save and its code while the code for another address was kept.
THEOREM ConfirmedAddressesAreProven == Spec => []ConfirmedIsProven
<1>1. Shapes /\ ProofInv /\ [Next]_vars => Shapes' /\ ProofInv'
  <2>1. SUFFICES ASSUME Shapes, ProofInv, Next \/ UNCHANGED vars
                 PROVE  Shapes' /\ ProofInv'
    OBVIOUS
  <2>2. Next \/ Idles
    BY <2>1 DEF vars, Idles, Store, history
  <2> QED
    BY <2>1, <2>2, NextSteps, StepShapes, StepProven, AccountAssumption
<1>2. ProofInv => ConfirmedIsProven
  BY DEF ProofInv, Proven, ConfirmedIsProven
<1> QED
  BY <1>1, <1>2, InitShapes, InitProven, PTL DEF Spec

-----------------------------------------------------------------------------
(* Queues. *)

Dest == Emails \cup Chats \cup {EventChannel}

\* A message that is in a queue or went out.
Touched(m) == Waiting(m) \/ sent[m] > 0

\* A message that is not forgotten.
Handled(m) == Touched(m) \/ m \in failed

QueueTypes ==
  /\ queue \in [Queues -> Seq(Message)]
  /\ working \subseteq {q \in Queues : queue[q] # <<>>}
  /\ sent \in [Message -> Nat] /\ losses \in 0 .. MaxLosses

\* A message has one place in the queues.
OnePlace ==
  \A q, p \in Queues : \A i \in DOMAIN queue[q], j \in DOMAIN queue[p] :
    queue[q][i] = queue[p][j] => q = p /\ i = j

\* One that waits, and is not in work, went out at most once per restart.
Pending ==
  \A q \in Queues : \A i \in DOMAIN queue[q] :
    i # 1 \/ q \notin working =>
      /\ sent[queue[q][i]] <= losses
      /\ sent[queue[q][i]] = 0 \/ queue[q][i] \in redone

\* One in work went out or was refused.
InWork == \A q \in working : sent[queue[q][1]] > 0 \/ queue[q][1] \in failed

Counts ==
  \A m \in Message : sent[m] <= 1 + losses /\ (sent[m] > 1 => m \in redone)

QueueInv == QueueTypes /\ OnePlace /\ Pending /\ InWork /\ Counts

LEMMA Appended ==
  ASSUME NEW S, NEW s \in Seq(S), NEW x \in S
  PROVE  /\ Append(s, x) \in Seq(S) /\ Append(s, x) # <<>>
         /\ DOMAIN Append(s, x) = DOMAIN s \cup {Len(s) + 1}
         /\ \A i \in DOMAIN s : Append(s, x)[i] = s[i] /\ i # Len(s) + 1
         /\ Append(s, x)[Len(s) + 1] = x
         /\ s # <<>> => 1 \in DOMAIN s
         /\ s = <<>> => DOMAIN s = {}
<1>1. DOMAIN s = 1 .. Len(s) /\ Len(s) \in Nat
  BY LenProperties
<1>2. /\ Append(s, x) \in Seq(S) /\ Append(s, x) # <<>> /\ Len(Append(s, x)) = Len(s) + 1
      /\ \A i \in 1 .. Len(s) : Append(s, x)[i] = s[i]
      /\ Append(s, x)[Len(s) + 1] = x
  BY AppendProperties
<1>3. DOMAIN Append(s, x) = 1 .. Len(Append(s, x))
  BY <1>2, LenProperties
<1>4. DOMAIN Append(s, x) = DOMAIN s \cup {Len(s) + 1}
  BY <1>1, <1>2, <1>3
<1>5. (s # <<>> => Len(s) # 0) /\ (s = <<>> => Len(s) = 0)
  BY EmptySeq
<1>6. (s # <<>> => 1 \in DOMAIN s) /\ (s = <<>> => DOMAIN s = {})
  BY <1>1, <1>5
<1>7. \A i \in DOMAIN s : i # Len(s) + 1
  BY <1>1
<1> QED
  BY <1>1, <1>2, <1>4, <1>6, <1>7

LEMMA Tailed ==
  ASSUME NEW S, NEW s \in Seq(S), s # <<>>
  PROVE  /\ Tail(s) \in Seq(S) /\ Head(s) = s[1] /\ 1 \in DOMAIN s /\ s[1] \in S
         /\ \A i \in DOMAIN Tail(s) : i + 1 \in DOMAIN s /\ i + 1 # 1 /\ Tail(s)[i] = s[i + 1]
         /\ \A i \in DOMAIN s : i = 1 \/ (i - 1 \in DOMAIN Tail(s) /\ Tail(s)[i - 1] = s[i])
OBVIOUS

\* What is waiting is a message.
LEMMA Items ==
  ASSUME QueueTypes, NEW q \in Queues, NEW i \in DOMAIN queue[q]
  PROVE  queue[q][i] \in Message /\ sent[queue[q][i]] \in Nat /\ i \in Nat
<1>1. queue[q] \in Seq(Message)
  BY DEF QueueTypes
<1>2. queue[q][i] \in Message /\ i \in Nat
  BY <1>1
<1> QED
  BY <1>2 DEF QueueTypes

\* A new message is queued.
LEMMA Enqueued ==
  ASSUME QueueInv, NEW q \in Queues, NEW m \in Message, ~ Touched(m),
         queue' = [queue EXCEPT ![q] = Append(@, m)],
         UNCHANGED <<working, sent, losses, failed, redone>>
  PROVE  /\ QueueInv'
         /\ \A x \in Message : /\ Touched(x)' => Touched(x) \/ x = m
                               /\ Handled(x) \/ x = m => Handled(x)'
<1>1. /\ \A p \in Queues : queue[p] \in Seq(Message)
      /\ queue'[q] = Append(queue[q], m) /\ \A p \in Queues \ {q} : queue'[p] = queue[p]
  BY DEF QueueInv, QueueTypes
<1> DEFINE e == Len(queue[q]) + 1
<1>2. /\ queue'[q] \in Seq(Message) /\ queue'[q] # <<>>
      /\ DOMAIN queue'[q] = DOMAIN queue[q] \cup {e}
      /\ \A i \in DOMAIN queue[q] : queue'[q][i] = queue[q][i] /\ i # e
      /\ queue'[q][e] = m
      /\ queue[q] # <<>> => 1 \in DOMAIN queue[q]
  BY <1>1, Appended
<1>3. \A p \in Queues : \A i \in DOMAIN queue'[p] :
        \/ i \in DOMAIN queue[p] /\ queue'[p][i] = queue[p][i] /\ (p = q => i # e)
        \/ p = q /\ i = e /\ queue'[p][i] = m
  BY <1>1, <1>2
<1>4. \A p \in Queues : \A i \in DOMAIN queue[p] :
        i \in DOMAIN queue'[p] /\ queue'[p][i] = queue[p][i] /\ queue[p][i] # m
  BY <1>1, <1>2 DEF Touched, Waiting
<1>5. e \in DOMAIN queue'[q] /\ queue'[q][e] = m
  BY <1>2
<1> HIDE DEF e
<1>6. QueueTypes'
  <2>1. queue' \in [Queues -> Seq(Message)]
    BY <1>1, <1>2 DEF QueueInv, QueueTypes
  <2>2. \A p \in Queues : queue[p] # <<>> => queue'[p] # <<>>
    BY <1>1, <1>2
  <2> QED
    BY <2>1, <2>2 DEF QueueInv, QueueTypes
<1>7. OnePlace'
  <2>1. SUFFICES ASSUME NEW a \in Queues, NEW b \in Queues,
                        NEW i \in DOMAIN queue'[a], NEW j \in DOMAIN queue'[b],
                        queue'[a][i] = queue'[b][j]
                 PROVE  a = b /\ i = j
    BY DEF OnePlace
  <2> QED
    BY <1>3, <1>4, <2>1 DEF QueueInv, OnePlace
<1>8. sent[m] = 0 /\ losses \in Nat
  BY DEF QueueInv, QueueTypes, Touched
<1>9. Pending'
  <2>1. SUFFICES ASSUME NEW p \in Queues, NEW i \in DOMAIN queue'[p], i # 1 \/ p \notin working
                 PROVE  /\ sent[queue'[p][i]] <= losses
                        /\ sent[queue'[p][i]] = 0 \/ queue'[p][i] \in redone
    BY DEF Pending
  <2> QED
    BY <1>3, <1>8, <2>1 DEF QueueInv, Pending
<1>10. InWork'
  BY <1>1, <1>2 DEF QueueInv, QueueTypes, InWork
<1>11. \A x \in Message : /\ Touched(x)' => Touched(x) \/ x = m
                          /\ Touched(x) \/ x = m => Touched(x)'
  <2>1. ASSUME NEW x PROVE Waiting(x)' => Waiting(x) \/ x = m
    BY <1>3 DEF Waiting
  <2>2. ASSUME NEW x PROVE Waiting(x) \/ x = m => Waiting(x)'
    BY <1>4, <1>5 DEF Waiting
  <2> QED
    BY <2>1, <2>2 DEF Touched
<1> QED
  BY <1>6, <1>7, <1>9, <1>10, <1>11 DEF QueueInv, Counts, Handled

\* Nothing is queued and nothing goes out; the number of losses may grow.
LEMMA Quiet ==
  ASSUME QueueInv, UNCHANGED <<queue, working, sent, failed, redone>>,
         losses' \in 0 .. MaxLosses, losses <= losses'
  PROVE  /\ QueueInv'
         /\ \A x \in Message : (Touched(x)' <=> Touched(x)) /\ (Handled(x) => Handled(x)')
<1>1. Pending'
  <2>1. SUFFICES ASSUME NEW p \in Queues, NEW i \in DOMAIN queue[p], i # 1 \/ p \notin working
                 PROVE  sent[queue[p][i]] <= losses'
    BY DEF Pending, QueueInv
  <2>2. sent[queue[p][i]] <= losses /\ sent[queue[p][i]] \in Nat /\ losses \in Int
    BY <2>1, Items DEF QueueInv, QueueTypes, Pending
  <2> QED
    BY <2>2
<1>2. Counts'
  BY DEF QueueInv, QueueTypes, Counts
<1> QED
  BY <1>1, <1>2 DEF QueueInv, QueueTypes, OnePlace, InWork, Touched, Waiting, Handled

LEMMA Delivered ==
  ASSUME QueueInv, NEW q \in Queues, Deliver(q), UNCHANGED losses
  PROVE  /\ QueueInv'
         /\ \A x \in Message : (Touched(x)' => Touched(x)) /\ (Handled(x) => Handled(x)')
<1> DEFINE m == queue[q][1]
<1>1. /\ queue[q] # <<>> /\ q \notin working /\ working' = working \cup {q}
      /\ UNCHANGED <<queue, redone>>
  BY DEF Deliver
<1>2. Head(queue[q]) = m /\ 1 \in DOMAIN queue[q] /\ m \in Message
  <2>1. queue[q] \in Seq(Message)
    BY DEF QueueInv, QueueTypes
  <2> QED
    BY <1>1, <2>1, Tailed
<1>3. \/ sent' = [sent EXCEPT ![m] = @ + 1] /\ failed' = failed
      \/ failed' = failed \cup {m} /\ sent' = sent
  BY <1>2 DEF Deliver
<1>4. sent[m] <= losses /\ (sent[m] = 0 \/ m \in redone) /\ Waiting(m)
  BY <1>1, <1>2 DEF QueueInv, Pending, Waiting
<1>5. \A p \in Queues : \A i \in DOMAIN queue[p] : queue[p][i] = m => p = q /\ i = 1
  BY <1>2 DEF QueueInv, OnePlace
<1> HIDE DEF m
<1>6. /\ sent' \in [Message -> Nat] /\ \A x \in Message \ {m} : sent'[x] = sent[x]
      /\ sent'[m] \in {sent[m], sent[m] + 1} /\ failed \subseteq failed'
      /\ sent'[m] > 0 \/ m \in failed'
      /\ sent[m] \in Nat /\ losses \in Nat
  BY <1>2, <1>3, <1>4 DEF QueueInv, QueueTypes
<1>7. QueueTypes'
  BY <1>1, <1>6 DEF QueueInv, QueueTypes
<1>8. OnePlace'
  BY <1>1 DEF QueueInv, OnePlace
<1>9. Pending'
  <2>1. SUFFICES ASSUME NEW p \in Queues, NEW i \in DOMAIN queue[p], i # 1 \/ p \notin working'
                 PROVE  /\ sent'[queue[p][i]] <= losses
                        /\ sent'[queue[p][i]] = 0 \/ queue[p][i] \in redone
    BY <1>1 DEF Pending
  <2>2. queue[p][i] # m /\ (i # 1 \/ p \notin working)
    BY <1>1, <1>5, <2>1
  <2>3. sent'[queue[p][i]] = sent[queue[p][i]]
    BY <1>6, <2>2, Items DEF QueueInv
  <2> QED
    BY <2>2, <2>3 DEF QueueInv, Pending
<1>10. InWork'
  <2>1. SUFFICES ASSUME NEW p \in working'
                 PROVE  sent'[queue[p][1]] > 0 \/ queue[p][1] \in failed'
    BY <1>1 DEF InWork
  <2>2. CASE p = q
    BY <1>6, <2>2 DEF m
  <2>3. CASE p # q
    <3>1. p \in working /\ p \in Queues /\ queue[p] # <<>> /\ queue[p] \in Seq(Message)
      BY <1>1, <2>1, <2>3 DEF QueueInv, QueueTypes
    <3>2. queue[p][1] \in Message
      BY <3>1, Tailed
    <3>3. sent[queue[p][1]] \in Nat
      BY <3>2 DEF QueueInv, QueueTypes
    <3>4. sent[queue[p][1]] > 0 \/ queue[p][1] \in failed
      BY <3>1 DEF QueueInv, InWork
    <3> QED
      BY <1>6, <3>2, <3>3, <3>4
  <2> QED
    BY <2>2, <2>3
<1>11. Counts'
  <2>1. SUFFICES ASSUME NEW x \in Message
                 PROVE  sent'[x] <= 1 + losses /\ (sent'[x] > 1 => x \in redone)
    BY <1>1 DEF Counts
  <2> QED
    BY <1>4, <1>6 DEF QueueInv, Counts
<1>12. ASSUME NEW x \in Message
       PROVE  (Touched(x)' => Touched(x)) /\ (Handled(x) => Handled(x)')
  <2>1. Waiting(x)' <=> Waiting(x)
    BY <1>1 DEF Waiting
  <2>2. sent'[x] > 0 => Touched(x)
    BY <1>4, <1>6 DEF Touched
  <2>3. sent[x] > 0 => sent'[x] > 0
    BY <1>6
  <2> QED
    BY <1>6, <2>1, <2>2, <2>3 DEF Touched, Handled
<1> QED
  BY <1>7, <1>8, <1>9, <1>10, <1>11, <1>12 DEF QueueInv

LEMMA Completed ==
  ASSUME QueueInv, NEW q \in Queues, Complete(q), UNCHANGED losses
  PROVE  /\ QueueInv'
         /\ \A x \in Message : (Touched(x)' => Touched(x)) /\ (Handled(x) => Handled(x)')
<1>1. /\ q \in working /\ working' = working \ {q} /\ queue' = [queue EXCEPT ![q] = Tail(@)]
      /\ UNCHANGED <<sent, failed, redone>>
  BY DEF Complete
<1>2. /\ queue[q] # <<>> /\ queue[q] \in Seq(Message)
      /\ queue'[q] = Tail(queue[q]) /\ \A p \in Queues \ {q} : queue'[p] = queue[p]
  BY <1>1 DEF QueueInv, QueueTypes
<1>3. /\ queue'[q] \in Seq(Message)
      /\ \A i \in DOMAIN queue'[q] :
           i + 1 \in DOMAIN queue[q] /\ i + 1 # 1 /\ queue'[q][i] = queue[q][i + 1]
      /\ \A i \in DOMAIN queue[q] :
           i = 1 \/ (i - 1 \in DOMAIN queue'[q] /\ queue'[q][i - 1] = queue[q][i])
  BY <1>2, Tailed
<1>4. QueueTypes'
  BY <1>1, <1>2, <1>3 DEF QueueInv, QueueTypes
<1>5. \A p \in Queues : \A i \in DOMAIN queue'[p] :
        \/ p # q /\ i \in DOMAIN queue[p] /\ queue'[p][i] = queue[p][i]
        \/ p = q /\ i + 1 \in DOMAIN queue[p] /\ i + 1 # 1 /\ queue'[p][i] = queue[p][i + 1]
  BY <1>2, <1>3
<1>6. OnePlace'
  <2>1. SUFFICES ASSUME NEW a \in Queues, NEW b \in Queues,
                        NEW i \in DOMAIN queue'[a], NEW j \in DOMAIN queue'[b],
                        queue'[a][i] = queue'[b][j]
                 PROVE  a = b /\ i = j
    BY DEF OnePlace
  <2>2. i \in Int /\ j \in Int
    <3>1. queue'[a] \in Seq(Message) /\ queue'[b] \in Seq(Message)
      BY <1>4 DEF QueueTypes
    <3> QED
      BY <3>1
  <2>3. a # q /\ b # q => a = b /\ i = j
    BY <1>5, <2>1 DEF QueueInv, OnePlace
  <2>4. a = q /\ b = q => a = b /\ i + 1 = j + 1
    BY <1>5, <2>1 DEF QueueInv, OnePlace
  <2>5. ~ (a = q /\ b # q) /\ ~ (a # q /\ b = q)
    BY <1>5, <2>1 DEF QueueInv, OnePlace
  <2> QED
    BY <2>2, <2>3, <2>4, <2>5
<1>7. Pending'
  <2>1. SUFFICES ASSUME NEW p \in Queues, NEW i \in DOMAIN queue'[p], i # 1 \/ p \notin working'
                 PROVE  /\ sent[queue'[p][i]] <= losses
                        /\ sent[queue'[p][i]] = 0 \/ queue'[p][i] \in redone
    BY <1>1 DEF Pending
  <2> QED
    BY <1>1, <1>5, <2>1 DEF QueueInv, Pending
<1>8. InWork'
  BY <1>1, <1>2 DEF QueueInv, QueueTypes, InWork
<1>9. ASSUME NEW x \in Message
      PROVE  (Touched(x)' => Touched(x)) /\ (Handled(x) => Handled(x)')
  <2>1. Waiting(x)' => Waiting(x)
    BY <1>5 DEF Waiting
  <2>2. Waiting(x) => Waiting(x)' \/ x = queue[q][1]
    <3>1. SUFFICES ASSUME NEW p \in Queues, NEW i \in DOMAIN queue[p], queue[p][i] = x,
                          x # queue[q][1]
                   PROVE  Waiting(x)'
      BY DEF Waiting
    <3>2. CASE p # q
      BY <1>2, <3>1, <3>2 DEF Waiting
    <3>3. CASE p = q
      BY <1>3, <3>1, <3>3 DEF Waiting
    <3> QED
      BY <3>2, <3>3
  <2>3. sent[queue[q][1]] > 0 \/ queue[q][1] \in failed
    BY <1>1 DEF QueueInv, InWork
  <2> QED
    BY <1>1, <2>1, <2>2, <2>3 DEF Touched, Handled
<1>10. Counts'
  BY <1>1 DEF QueueInv, Counts
<1> QED
  BY <1>4, <1>6, <1>7, <1>8, <1>9, <1>10 DEF QueueInv

LEMMA Restarted ==
  ASSUME QueueInv, Restart
  PROVE  /\ QueueInv'
         /\ \A x \in Message : (Touched(x)' <=> Touched(x)) /\ (Handled(x) => Handled(x)')
<1>1. /\ UNCHANGED <<queue, sent, failed>> /\ working' = {}
      /\ redone' = redone \cup {Head(queue[q]) : q \in working}
      /\ losses < MaxLosses /\ losses' = losses + 1
  BY DEF Restart, Crash, CountLoss
<1>2. losses \in Nat /\ losses' \in 0 .. MaxLosses
  BY <1>1, AccountAssumption DEF QueueInv, QueueTypes
<1>3. \A q \in working : Head(queue[q]) = queue[q][1]
  BY Tailed DEF QueueInv, QueueTypes
<1>4. Pending'
  <2>1. SUFFICES ASSUME NEW p \in Queues, NEW i \in DOMAIN queue[p]
                 PROVE  /\ sent[queue[p][i]] <= losses + 1
                        /\ sent[queue[p][i]] = 0 \/ queue[p][i] \in redone'
    BY <1>1 DEF Pending
  <2>2. queue[p][i] \in Message /\ sent[queue[p][i]] \in Nat
    BY Items DEF QueueInv
  <2>3. sent[queue[p][i]] <= losses + 1
    BY <1>2, <2>2 DEF QueueInv, Counts
  <2>4. CASE i # 1 \/ p \notin working
    BY <1>1, <2>3, <2>4 DEF QueueInv, Pending
  <2>5. CASE i = 1 /\ p \in working
    BY <1>1, <1>3, <2>3, <2>5
  <2> QED
    BY <2>4, <2>5
<1>5. Counts'
  <2>1. SUFFICES ASSUME NEW x \in Message
                 PROVE  sent[x] <= 1 + (losses + 1) /\ (sent[x] > 1 => x \in redone')
    BY <1>1 DEF Counts
  <2>2. sent[x] \in Nat /\ sent[x] <= 1 + losses /\ (sent[x] > 1 => x \in redone)
    BY DEF QueueInv, QueueTypes, Counts
  <2> QED
    BY <1>1, <1>2, <2>2
<1>6. QueueTypes' /\ OnePlace' /\ InWork'
  BY <1>1, <1>2 DEF QueueInv, QueueTypes, OnePlace, InWork
<1>7. ASSUME NEW x \in Message
      PROVE  (Touched(x)' <=> Touched(x)) /\ (Handled(x) => Handled(x)')
  BY <1>1 DEF Touched, Waiting, Handled
<1> QED
  BY <1>4, <1>5, <1>6, <1>7 DEF QueueInv

-----------------------------------------------------------------------------
(* Handlers. *)

NoticeFields == {"pc", "kind", "user", "chat", "email"}

NoticeOK(k) ==
  /\ DOMAIN k = NoticeFields
  /\ k.pc \in {"none", "channel", "find", "telegram", "email", "done"}
  /\ k.pc # "none" => k.kind \in Kinds /\ k.user \in Active
  /\ k.chat \in Chats \cup {Unset, Null} /\ k.email \in Emails \cup {Unset, Null}
  /\ k.pc \in {"none", "channel", "find"} => k.chat = Null /\ k.email = Null
  /\ k.pc = "channel" => k.kind # "Trading"

\* When a message may have been queued, and when it must have been.
May(k, to) ==
  /\ to = EventChannel => k.pc \notin {"none", "channel"}
  /\ to \in Chats => k.pc \in {"email", "done"}
  /\ to \in Emails => k.pc = "done"

Wants(k, to) ==
  \/ to = EventChannel /\ k.kind # "Trading" /\ k.pc \notin {"none", "channel"}
  \/ to = k.chat /\ Has(to) /\ k.pc \in {"email", "done"}
  \/ to = k.email /\ Has(to) /\ k.pc = "done"

\* The addresses of an event are proven ones.
OwnAddress(k, shown, unsure) ==
  k.pc # "none" /\ k.user \notin unsure /\ Has(k.email) => k.email \in shown[k.user]

OwnMails(n) ==
  notice[n].pc # "none" /\ notice[n].user \notin Doubtful =>
    \A e \in Emails : Touched(<<n, e>>) => e \in proven[notice[n].user]

NoticeInv ==
  /\ notice = [n \in Notices |-> notice[n]]
  /\ \A n \in Notices : /\ NoticeOK(notice[n])
                        /\ OwnAddress(notice[n], proven, Doubtful) /\ OwnMails(n)
  /\ \A n \in Notices, to \in Dest : Touched(<<n, to>>) => May(notice[n], to)
  /\ \A n \in Notices \ cut, to \in Dest : Wants(notice[n], to) => Handled(<<n, to>>)

\* No message is touched but those of one event.
Untouched(n) ==
  \A s \in Notices \ {n}, to \in Dest :
    (Touched(<<s, to>>)' => Touched(<<s, to>>)) /\ (Handled(<<s, to>>) => Handled(<<s, to>>)')

LEMMA OneNotice ==
  ASSUME NoticeInv, NEW n \in Notices, notice' = [s \in Notices |-> notice'[s]],
         \A s \in Notices \ {n} : notice'[s] = notice[s],
         UNCHANGED <<proven, Doubtful>>, cut \subseteq cut', Untouched(n),
         NoticeOK(notice'[n]), OwnAddress(notice'[n], proven, Doubtful), OwnMails(n)',
         \A to \in Dest : Touched(<<n, to>>)' => May(notice'[n], to),
         n \in cut' \/ \A to \in Dest : Wants(notice'[n], to) => Handled(<<n, to>>)'
  PROVE  NoticeInv'
<1>1. ASSUME NEW s \in Notices \ {n}
      PROVE  OwnMails(s)'
  <2>1. \A e \in Emails : Touched(<<s, e>>)' => Touched(<<s, e>>)
    BY DEF Untouched, Dest
  <2> QED
    BY <2>1 DEF NoticeInv, OwnMails
<1>2. ASSUME NEW s \in Notices, NEW to \in Dest
      PROVE  Touched(<<s, to>>)' => May(notice'[s], to)
  BY <1>2 DEF NoticeInv, Untouched
<1>3. ASSUME NEW s \in Notices \ cut', NEW to \in Dest
      PROVE  Wants(notice'[s], to) => Handled(<<s, to>>)'
  BY <1>3 DEF NoticeInv, Untouched
<1> QED
  BY <1>1, <1>2, <1>3 DEF NoticeInv

\* The queues stay and messages stay as they are; so do events.
LEMMA Settled ==
  ASSUME NoticeInv, UNCHANGED <<notice, cut>>, Doubtful \subseteq Doubtful',
         \A u \in Users : proven[u] \subseteq proven'[u],
         \A x \in Message : (Touched(x)' => Touched(x)) /\ (Handled(x) => Handled(x)')
  PROVE  NoticeInv'
<1>1. \A n \in Notices, to \in Dest : <<n, to>> \in Message
  BY DEF Message, Dest
<1>2. \A n \in Notices, to \in Dest :
        (Touched(<<n, to>>)' => Touched(<<n, to>>)) /\ (Handled(<<n, to>>) => Handled(<<n, to>>)')
  BY <1>1
<1>3. ASSUME NEW n \in Notices
      PROVE  OwnAddress(notice'[n], proven', Doubtful') /\ OwnMails(n)'
  <2>1. /\ notice[n].pc # "none" => notice[n].user \in Users
        /\ OwnAddress(notice[n], proven, Doubtful) /\ OwnMails(n)
    BY AccountAssumption DEF NoticeInv, NoticeOK
  <2>2. \A e \in Emails : Touched(<<n, e>>)' => Touched(<<n, e>>)
    BY <1>2 DEF Dest
  <2> QED
    BY <2>1, <2>2 DEF OwnAddress, OwnMails
<1> QED
  BY <1>2, <1>3 DEF NoticeInv

\* What changes in one event, when the queues stay.
LEMMA QuietNotice ==
  ASSUME QueueInv, NoticeInv, NEW n \in Notices, notice' = [s \in Notices |-> notice'[s]],
         \A s \in Notices \ {n} : notice'[s] = notice[s],
         UNCHANGED <<proven, Doubtful, queue, working, sent, failed, redone>>,
         losses' \in 0 .. MaxLosses, losses <= losses', cut \subseteq cut',
         NoticeOK(notice'[n]), OwnAddress(notice'[n], proven, Doubtful),
         notice[n].pc # "none" => notice'[n].user = notice[n].user,
         \A to \in Dest : May(notice[n], to) => May(notice'[n], to),
         n \in cut' \/ \A to \in Dest : Wants(notice'[n], to) => Wants(notice[n], to),
         n \in cut => n \in cut'
  PROVE  QueueInv' /\ NoticeInv'
<1>1. /\ QueueInv'
      /\ \A x \in Message : (Touched(x)' <=> Touched(x)) /\ (Handled(x) => Handled(x)')
  BY Quiet
<1>2. \A s \in Notices, to \in Dest :
        (Touched(<<s, to>>)' <=> Touched(<<s, to>>)) /\ (Handled(<<s, to>>) => Handled(<<s, to>>)')
  BY <1>1 DEF Message, Dest
<1>3. Untouched(n)
  BY <1>2 DEF Untouched
<1>4. \A to \in Dest : Touched(<<n, to>>)' => May(notice'[n], to)
  BY <1>2 DEF NoticeInv
<1>5. n \in cut' \/ \A to \in Dest : Wants(notice'[n], to) => Handled(<<n, to>>)'
  BY <1>2 DEF NoticeInv
<1>6. OwnMails(n)'
  <2>1. CASE notice[n].pc = "none"
    <3>1. \A e \in Emails : ~ Touched(<<n, e>>)
      BY <2>1 DEF NoticeInv, May, Dest
    <3>2. \A e \in Emails : ~ Touched(<<n, e>>)'
      BY <1>2, <3>1 DEF Dest
    <3> QED
      BY <3>2 DEF OwnMails
  <2>2. CASE notice[n].pc # "none"
    <3>1. \A e \in Emails : Touched(<<n, e>>)' => Touched(<<n, e>>)
      BY <1>2 DEF Dest
    <3>2. OwnMails(n) /\ notice'[n].user = notice[n].user
      BY <2>2 DEF NoticeInv
    <3> QED
      BY <2>2, <3>1, <3>2 DEF OwnMails
  <2> QED
    BY <2>1, <2>2
<1>7. NoticeInv'
  BY <1>3, <1>4, <1>5, <1>6, OneNotice
<1> QED
  BY <1>1, <1>7

\* A message of an event is queued.
LEMMA QueuedNotice ==
  ASSUME QueueInv, NoticeInv, NEW n \in Notices, NEW q \in Queues, NEW to \in Dest,
         ~ May(notice[n], to), queue' = [queue EXCEPT ![q] = Append(@, <<n, to>>)],
         notice' = [s \in Notices |-> notice'[s]],
         \A s \in Notices \ {n} : notice'[s] = notice[s],
         UNCHANGED <<proven, Doubtful, working, sent, failed, redone, losses, cut>>,
         NoticeOK(notice'[n]), OwnAddress(notice'[n], proven, Doubtful),
         notice[n].pc # "none", notice'[n].user = notice[n].user,
         to \in Emails => notice[n].email = to /\ Has(to),
         May(notice'[n], to), \A x \in Dest : May(notice[n], x) => May(notice'[n], x),
         \A x \in Dest : Wants(notice'[n], x) => Wants(notice[n], x) \/ x = to
  PROVE  QueueInv' /\ NoticeInv'
<1> DEFINE m == <<n, to>>
<1>1. m \in Message /\ ~ Touched(m)
  BY DEF NoticeInv, Message, Dest
<1>2. /\ QueueInv'
      /\ \A x \in Message : (Touched(x)' => Touched(x) \/ x = m) /\ (Handled(x) \/ x = m => Handled(x)')
  BY <1>1, Enqueued
<1>3. \A s \in Notices, x \in Dest :
        /\ Touched(<<s, x>>)' => Touched(<<s, x>>) \/ (s = n /\ x = to)
        /\ Handled(<<s, x>>) \/ (s = n /\ x = to) => Handled(<<s, x>>)'
  <2>1. \A s \in Notices, x \in Dest : <<s, x>> \in Message /\ (<<s, x>> = m <=> s = n /\ x = to)
    BY DEF Message, Dest
  <2> QED
    BY <1>2, <2>1
<1>4. Untouched(n)
  BY <1>3 DEF Untouched
<1>5. \A x \in Dest : Touched(<<n, x>>)' => May(notice'[n], x)
  BY <1>3 DEF NoticeInv
<1>6. n \in cut' \/ \A x \in Dest : Wants(notice'[n], x) => Handled(<<n, x>>)'
  BY <1>3 DEF NoticeInv
<1>7. OwnMails(n)'
  <2>1. SUFFICES ASSUME notice[n].user \notin Doubtful, NEW e \in Emails, Touched(<<n, e>>)'
                 PROVE  e \in proven[notice[n].user]
    BY DEF OwnMails
  <2>2. Touched(<<n, e>>) \/ e = to
    BY <1>3, <2>1 DEF Dest
  <2>3. CASE Touched(<<n, e>>)
    BY <2>1, <2>3 DEF NoticeInv, OwnMails
  <2>4. CASE e = to
    BY <2>1, <2>4 DEF NoticeInv, OwnAddress
  <2> QED
    BY <2>2, <2>3, <2>4
<1>8. NoticeInv'
  BY <1>4, <1>5, <1>6, <1>7, OneNotice
<1> QED
  BY <1>2, <1>8

\* What an event's handler leaves of the accounts.
LEMMA KeepsAccounts ==
  ASSUME QueueInv, UNCHANGED vars
  PROVE  UNCHANGED <<proven, Doubtful, losses>> /\ losses' \in 0 .. MaxLosses /\ losses <= losses'
<1>1. losses \in 0 .. MaxLosses
  BY DEF QueueInv, QueueTypes
<1> QED
  BY <1>1 DEF vars, history, Doubtful

LEMMA EmitStep ==
  ASSUME QueueInv, NoticeInv, NEW n \in Notices, NEW kind \in Kinds, NEW u \in Active,
         Emit(n, kind, u)
  PROVE  QueueInv' /\ NoticeInv'
<1>1. NoticeOK(notice[n]) /\ notice[n].pc = "none"
  BY DEF NoticeInv, Emit
<1>2. /\ notice' = [s \in Notices |-> notice'[s]]
      /\ \A s \in Notices \ {n} : notice'[s] = notice[s]
      /\ DOMAIN notice'[n] = NoticeFields /\ notice'[n].kind = kind /\ notice'[n].user = u
      /\ notice'[n].pc = IF kind = "Trading" THEN "find" ELSE "channel"
      /\ notice'[n].chat = notice[n].chat /\ notice'[n].email = notice[n].email
  BY <1>1 DEF NoticeInv, Emit, NoticeOK, NoticeFields
<1>3. UNCHANGED <<queue, working, sent, failed, redone, cut, vars>>
  BY DEF Emit
<1>4. NoticeOK(notice'[n])
  BY <1>1, <1>2 DEF NoticeOK
<1>5. OwnAddress(notice'[n], proven, Doubtful)
  BY <1>1, <1>2 DEF OwnAddress, NoticeOK, Has
<1>6. \A to \in Dest : May(notice[n], to) => May(notice'[n], to)
  BY <1>1, <1>2 DEF May, Dest
<1>7. \A to \in Dest : ~ Wants(notice'[n], to)
  BY <1>2 DEF Wants
<1> QED
  BY <1>1, <1>2, <1>3, <1>4, <1>5, <1>6, <1>7, KeepsAccounts, QuietNotice

LEMMA TellChannelStep ==
  ASSUME QueueInv, NoticeInv, NEW n \in Notices, TellChannel(n)
  PROVE  QueueInv' /\ NoticeInv'
<1>1. NoticeOK(notice[n]) /\ notice[n].pc = "channel"
  BY DEF NoticeInv, TellChannel
<1>2. /\ notice' = [s \in Notices |-> notice'[s]]
      /\ \A s \in Notices \ {n} : notice'[s] = notice[s]
      /\ DOMAIN notice'[n] = NoticeFields
      /\ notice'[n].kind = notice[n].kind /\ notice'[n].user = notice[n].user
      /\ notice'[n].pc = IF notice[n].kind = "Channel" THEN "done" ELSE "find"
      /\ notice'[n].chat = notice[n].chat /\ notice'[n].email = notice[n].email
  BY <1>1 DEF NoticeInv, TellChannel, NoticeOK, NoticeFields
<1>3. /\ UNCHANGED <<working, sent, failed, redone, cut, vars>>
      /\ queue' = [queue EXCEPT !["tg"] = Append(@, <<n, EventChannel>>)]
  BY DEF TellChannel
<1>4. NoticeOK(notice'[n])
  BY <1>1, <1>2 DEF NoticeOK
<1>5. OwnAddress(notice'[n], proven, Doubtful)
  BY <1>1, <1>2 DEF OwnAddress, NoticeOK, Has
<1>6. /\ ~ May(notice[n], EventChannel) /\ May(notice'[n], EventChannel)
      /\ \A x \in Dest : May(notice[n], x) => May(notice'[n], x)
  BY <1>1, <1>2, AddressAssumption DEF May, Dest
<1>7. \A x \in Dest : Wants(notice'[n], x) => x = EventChannel
  BY <1>1, <1>2 DEF Wants, NoticeOK, Has
<1>8. EventChannel \in Dest /\ EventChannel \notin Emails /\ "tg" \in Queues
  BY AddressAssumption DEF Dest, Queues
<1> QED
  BY <1>1, <1>2, <1>3, <1>4, <1>5, <1>6, <1>7, <1>8, KeepsAccounts, QueuedNotice

LEMMA FindUserStep ==
  ASSUME Shapes, ProofInv, QueueInv, NoticeInv, NEW n \in Notices, FindUser(n)
  PROVE  QueueInv' /\ NoticeInv'
<1>1. NoticeOK(notice[n]) /\ notice[n].pc = "find" /\ notice[n].user \in Users
  BY AccountAssumption DEF NoticeInv, FindUser, NoticeOK
<1> DEFINE a == user[notice[n].user]
<1>2. a \in Account
  BY <1>1 DEF Shapes, AccountsOK
<1>3. /\ notice' = [s \in Notices |-> notice'[s]]
      /\ \A s \in Notices \ {n} : notice'[s] = notice[s]
      /\ DOMAIN notice'[n] = NoticeFields
      /\ notice'[n].kind = notice[n].kind /\ notice'[n].user = notice[n].user
      /\ notice'[n].pc = IF a.stored THEN "telegram" ELSE "done"
      /\ notice'[n].chat = IF a.stored THEN ChatFor(a, notice[n].kind) ELSE Null
      /\ notice'[n].email = IF a.stored THEN EmailFor(a, notice[n].kind) ELSE Null
  BY <1>1 DEF NoticeInv, FindUser, NoticeOK, NoticeFields
<1>4. UNCHANGED <<queue, working, sent, failed, redone, cut, vars>>
  BY DEF FindUser
<1>5. /\ notice'[n].chat \in {a.chat, Null} /\ notice'[n].email \in {a.email, Null}
      /\ a.chat \in Chats \cup {Unset, Null} /\ a.email \in Emails \cup {Unset, Null}
      /\ notice'[n].email # Null => a.emailConfirmed
      /\ ~ a.stored => notice'[n].chat = Null /\ notice'[n].email = Null
  BY <1>2, <1>3 DEF ChatFor, EmailFor, Account
<1>6. NoticeOK(notice'[n])
  BY <1>1, <1>3, <1>5 DEF NoticeOK
<1>7. OwnAddress(notice'[n], proven, Doubtful)
  <2>1. notice[n].user \notin Doubtful /\ a.emailConfirmed /\ Has(a.email) =>
          a.email \in proven[notice[n].user]
    BY <1>1 DEF ProofInv, Proven
  <2> QED
    BY <1>3, <1>5, <2>1 DEF OwnAddress, Has
<1>8. \A to \in Dest : May(notice[n], to) => May(notice'[n], to)
  BY <1>1, <1>3 DEF May
<1>9. \A to \in Dest : Wants(notice'[n], to) => Wants(notice[n], to)
  BY <1>1, <1>3, <1>5 DEF Wants, Has
<1> QED
  BY <1>1, <1>3, <1>4, <1>6, <1>7, <1>8, <1>9, KeepsAccounts, QuietNotice

LEMMA QueueTelegramStep ==
  ASSUME QueueInv, NoticeInv, NEW n \in Notices, QueueTelegram(n)
  PROVE  QueueInv' /\ NoticeInv'
<1>1. /\ NoticeOK(notice[n]) /\ OwnAddress(notice[n], proven, Doubtful)
      /\ notice[n].pc = "telegram"
  BY DEF NoticeInv, QueueTelegram
<1>2. /\ notice' = [s \in Notices |-> notice'[s]]
      /\ \A s \in Notices \ {n} : notice'[s] = notice[s]
      /\ DOMAIN notice'[n] = NoticeFields /\ notice'[n].pc = "email"
      /\ notice'[n].kind = notice[n].kind /\ notice'[n].user = notice[n].user
      /\ notice'[n].chat = notice[n].chat /\ notice'[n].email = notice[n].email
  BY <1>1 DEF NoticeInv, QueueTelegram, NoticeOK, NoticeFields
<1>3. UNCHANGED <<working, sent, failed, redone, cut, vars>>
  BY DEF QueueTelegram
<1>4. NoticeOK(notice'[n]) /\ OwnAddress(notice'[n], proven, Doubtful)
  BY <1>1, <1>2 DEF NoticeOK, OwnAddress
<1>5. \A x \in Dest : May(notice[n], x) => May(notice'[n], x)
  BY <1>1, <1>2 DEF May
<1>6. CASE ~ Has(notice[n].chat)
  <2>1. queue' = queue
    BY <1>6 DEF QueueTelegram
  <2>2. \A x \in Dest : Wants(notice'[n], x) => Wants(notice[n], x)
    BY <1>1, <1>2, <1>6 DEF Wants
  <2> QED
    BY <1>1, <1>2, <1>3, <1>4, <1>5, <2>1, <2>2, KeepsAccounts, QuietNotice
<1>7. CASE Has(notice[n].chat)
  <2>1. PICK to : to = notice[n].chat
    OBVIOUS
  <2>2. to \in Chats /\ to \in Dest /\ to \notin Emails /\ to # EventChannel /\ "tg" \in Queues
    BY <1>1, <1>7, <2>1, AddressAssumption DEF NoticeOK, Has, Dest, Queues
  <2>3. queue' = [queue EXCEPT !["tg"] = Append(@, <<n, to>>)]
    BY <1>7, <2>1 DEF QueueTelegram
  <2>4. ~ May(notice[n], to) /\ May(notice'[n], to)
    BY <1>1, <1>2, <2>2 DEF May
  <2>5. \A x \in Dest : Wants(notice'[n], x) => Wants(notice[n], x) \/ x = to
    BY <1>1, <1>2, <2>1 DEF Wants
  <2> QED
    BY <1>1, <1>2, <1>3, <1>4, <1>5, <2>2, <2>3, <2>4, <2>5, KeepsAccounts, QueuedNotice
<1> QED
  BY <1>6, <1>7

LEMMA QueueEmailStep ==
  ASSUME QueueInv, NoticeInv, NEW n \in Notices, QueueEmail(n)
  PROVE  QueueInv' /\ NoticeInv'
<1>1. /\ NoticeOK(notice[n]) /\ OwnAddress(notice[n], proven, Doubtful)
      /\ notice[n].pc = "email"
  BY DEF NoticeInv, QueueEmail
<1>2. /\ notice' = [s \in Notices |-> notice'[s]]
      /\ \A s \in Notices \ {n} : notice'[s] = notice[s]
      /\ DOMAIN notice'[n] = NoticeFields /\ notice'[n].pc = "done"
      /\ notice'[n].kind = notice[n].kind /\ notice'[n].user = notice[n].user
      /\ notice'[n].chat = notice[n].chat /\ notice'[n].email = notice[n].email
  BY <1>1 DEF NoticeInv, QueueEmail, NoticeOK, NoticeFields
<1>3. UNCHANGED <<working, sent, failed, redone, cut, vars>>
  BY DEF QueueEmail
<1>4. NoticeOK(notice'[n]) /\ OwnAddress(notice'[n], proven, Doubtful)
  BY <1>1, <1>2 DEF NoticeOK, OwnAddress
<1>5. \A x \in Dest : May(notice[n], x) => May(notice'[n], x)
  BY <1>1, <1>2 DEF May
<1>6. CASE ~ Has(notice[n].email)
  <2>1. queue' = queue
    BY <1>6 DEF QueueEmail
  <2>2. \A x \in Dest : Wants(notice'[n], x) => Wants(notice[n], x)
    BY <1>1, <1>2, <1>6 DEF Wants
  <2> QED
    BY <1>1, <1>2, <1>3, <1>4, <1>5, <2>1, <2>2, KeepsAccounts, QuietNotice
<1>7. CASE Has(notice[n].email)
  <2>1. PICK to : to = notice[n].email
    OBVIOUS
  <2>2. to \in Emails /\ to \in Dest /\ to \notin Chats /\ to # EventChannel /\ "mail" \in Queues
    BY <1>1, <1>7, <2>1, AddressAssumption DEF NoticeOK, Has, Dest, Queues
  <2>3. queue' = [queue EXCEPT !["mail"] = Append(@, <<n, to>>)]
    BY <1>7, <2>1 DEF QueueEmail
  <2>4. ~ May(notice[n], to) /\ May(notice'[n], to)
    BY <1>1, <1>2, <2>2 DEF May
  <2>5. \A x \in Dest : Wants(notice'[n], x) => Wants(notice[n], x) \/ x = to
    BY <1>1, <1>2, <2>1 DEF Wants
  <2>6. to \in Emails => notice[n].email = to /\ Has(to)
    BY <1>7, <2>1
  <2> QED
    BY <1>1, <1>2, <1>3, <1>4, <1>5, <2>2, <2>3, <2>4, <2>5, <2>6, KeepsAccounts, QueuedNotice
<1> QED
  BY <1>6, <1>7

LEMMA HandlerFailsStep ==
  ASSUME QueueInv, NoticeInv, NEW n \in Notices, HandlerFails(n)
  PROVE  QueueInv' /\ NoticeInv'
<1>1. /\ NoticeOK(notice[n]) /\ OwnAddress(notice[n], proven, Doubtful)
      /\ notice[n].pc # "none" /\ cut' = cut \cup {n}
  BY DEF NoticeInv, HandlerFails, Handling
<1>2. /\ notice' = [s \in Notices |-> notice'[s]]
      /\ \A s \in Notices \ {n} : notice'[s] = notice[s]
      /\ DOMAIN notice'[n] = NoticeFields /\ notice'[n].pc = "done"
      /\ notice'[n].kind = notice[n].kind /\ notice'[n].user = notice[n].user
      /\ notice'[n].chat = notice[n].chat /\ notice'[n].email = notice[n].email
  BY <1>1 DEF NoticeInv, HandlerFails, NoticeOK, NoticeFields
<1>3. UNCHANGED <<proven, Doubtful, queue, working, sent, failed, redone>>
  BY DEF HandlerFails, history, Doubtful
<1>4. losses' \in 0 .. MaxLosses /\ losses <= losses'
  <2>1. losses \in 0 .. MaxLosses
    BY DEF QueueInv, QueueTypes
  <2> QED
    BY <2>1, AccountAssumption DEF HandlerFails, CountLoss
<1>5. NoticeOK(notice'[n]) /\ OwnAddress(notice'[n], proven, Doubtful)
  BY <1>1, <1>2 DEF NoticeOK, OwnAddress
<1>6. \A x \in Dest : May(notice[n], x) => May(notice'[n], x)
  BY <1>2 DEF May
<1> QED
  BY <1>1, <1>2, <1>3, <1>4, <1>5, <1>6, QuietNotice

LEMMA RestartStep ==
  ASSUME QueueInv, NoticeInv, Restart
  PROVE  QueueInv' /\ NoticeInv'
<1>1. /\ QueueInv'
      /\ \A x \in Message : (Touched(x)' <=> Touched(x)) /\ (Handled(x) => Handled(x)')
  BY Restarted
<1>2. \A s \in Notices, to \in Dest :
        (Touched(<<s, to>>)' <=> Touched(<<s, to>>)) /\ (Handled(<<s, to>>) => Handled(<<s, to>>)')
  BY <1>1 DEF Message, Dest
<1>3. /\ UNCHANGED <<proven, Doubtful>> /\ notice' = [s \in Notices |-> notice'[s]]
      /\ cut \subseteq cut'
      /\ \A s \in Notices : ~ Handling(s) => notice'[s] = notice[s]
      /\ \A s \in Notices : Handling(s) =>
           notice'[s] = [notice[s] EXCEPT !.pc = "done"] /\ s \in cut'
  BY DEF Restart, Crash, history, Doubtful
<1>4. ASSUME NEW n \in Notices
      PROVE  /\ NoticeOK(notice'[n]) /\ OwnAddress(notice'[n], proven, Doubtful)
             /\ notice[n].pc # "none" => notice'[n].user = notice[n].user
             /\ notice[n].pc = "none" => notice'[n] = notice[n]
             /\ \A x \in Dest : May(notice[n], x) => May(notice'[n], x)
             /\ n \notin cut' => notice'[n] = notice[n]
  <2>1. NoticeOK(notice[n]) /\ OwnAddress(notice[n], proven, Doubtful)
    BY DEF NoticeInv
  <2>2. CASE Handling(n)
    <3>1. /\ DOMAIN notice'[n] = NoticeFields /\ notice'[n].pc = "done"
          /\ notice'[n].kind = notice[n].kind /\ notice'[n].user = notice[n].user
          /\ notice'[n].chat = notice[n].chat /\ notice'[n].email = notice[n].email
          /\ n \in cut' /\ notice[n].pc # "none"
      BY <1>3, <2>1, <2>2 DEF NoticeOK, NoticeFields, Handling
    <3> QED
      BY <2>1, <3>1 DEF NoticeOK, OwnAddress, May
  <2>3. CASE ~ Handling(n)
    BY <1>3, <2>1, <2>3
  <2> QED
    BY <2>2, <2>3
<1>5. ASSUME NEW n \in Notices
      PROVE  OwnMails(n)'
  <2>1. \A e \in Emails : Touched(<<n, e>>)' => Touched(<<n, e>>)
    BY <1>2 DEF Dest
  <2>2. OwnMails(n)
    BY DEF NoticeInv
  <2> QED
    BY <1>3, <1>4, <2>1, <2>2 DEF OwnMails
<1>6. \A n \in Notices, to \in Dest : Touched(<<n, to>>)' => May(notice'[n], to)
  BY <1>2, <1>4 DEF NoticeInv
<1>7. \A n \in Notices \ cut', to \in Dest : Wants(notice'[n], to) => Handled(<<n, to>>)'
  BY <1>2, <1>3, <1>4 DEF NoticeInv
<1>8. NoticeInv'
  BY <1>3, <1>4, <1>5, <1>6, <1>7 DEF NoticeInv
<1> QED
  BY <1>1, <1>8

-----------------------------------------------------------------------------
(* Steps. *)

LEMMA WorkLosses ==
  ASSUME NEW r \in Requests, Work(r)
  PROVE  UNCHANGED losses \/ CountLoss
<1>1. ASSUME NEW op, NEW u, NEW pc, NEW w, NEW to, Begin(r, op, u, pc, w, to)
      PROVE  UNCHANGED losses
  BY <1>1 DEF Begin
<1>2. CASE \E u \in Users, n \in Names : AddUsername(r, u, n)
  BY <1>1, <1>2 DEF AddUsername
<1>3. CASE \E u \in Active : Ask(r, u)
  BY <1>1, <1>3 DEF Ask, GetProfile, UpdateProfile, UpdateNotificationType,
     UpdateNotificationChannel, AddEmail, ConfirmEmail, DeleteEmail, DeleteTelegram, StartBot,
     AddWatchBookmarks, DeleteWatchBookmarks
<1>4. CASE Proceed(r)
  BY <1>4 DEF Proceed, CreateUser, CheckUsername, FindToConfirm, FindToLink, DuplicateUser,
     Save, StoreCode
<1>5. CASE RequestFails(r)
  BY <1>5 DEF RequestFails
<1> QED
  BY <1>2, <1>3, <1>4, <1>5 DEF Work

\* What a user has shown and what is known to put it in doubt is not forgotten.
LEMMA StepHistory ==
  ASSUME Shapes, Steps
  PROVE  Doubtful \subseteq Doubtful' /\ \A u \in Users : proven[u] \subseteq proven'[u]
<1>1. CASE \E r \in Requests, v \in Users : Starts(r, v)
  <2>1. PICK r \in Requests, v \in Users : Starts(r, v)
    BY <1>1
  <2>2. PICK op, pc, w, to : Started(r, op, v, pc, w, to)
    BY <2>1 DEF Starts
  <2>3. /\ Doubtful \subseteq Doubtful'
        /\ proven' = IF op = "confirmEmail"
                     THEN [proven EXCEPT ![v] = @ \cup MailedTo(confirmation[v].code)]
                     ELSE proven
    BY <2>2, StartedFacts
  <2> QED
    BY <2>3 DEF Shapes
<1>2. CASE ~ \E r \in Requests, v \in Users : Starts(r, v)
  BY <1>2 DEF Steps, Created, Advanced, Saves, StoreCode, Expire, Crash, Idles, history, Doubtful
<1> QED
  BY <1>1, <1>2

NInv == Shapes /\ LinkInv /\ ProofInv /\ QueueInv /\ NoticeInv

LEMMA NStepSteps ==
  ASSUME NNext \/ UNCHANGED allVars
  PROVE  Next \/ Idles
<1>1. CASE Accounts
  BY <1>1 DEF Accounts, Next
<1>2. ASSUME NEW n \in Notices, Handle(n)
      PROVE  Idles
  BY <1>2 DEF Handle, Emit, TellChannel, FindUser, QueueTelegram, QueueEmail, HandlerFails,
     vars, Idles, Store, history
<1>3. ASSUME NEW q \in Queues, Consume(q)
      PROVE  Idles
  BY <1>3 DEF Consume, Deliver, Complete, vars, Idles, Store, history
<1>4. CASE Restart
  BY <1>4 DEF Restart, Next
<1>5. CASE UNCHANGED allVars
  BY <1>5 DEF allVars, vars, Idles, Store, history
<1> QED
  BY <1>1, <1>2, <1>3, <1>4, <1>5 DEF NNext

LEMMA NStep ==
  ASSUME NInv, NNext \/ UNCHANGED allVars
  PROVE  NInv'
<1>1. Steps
  BY NStepSteps, NextSteps, AccountAssumption DEF NInv
<1>2. Shapes' /\ LinkInv' /\ ProofInv'
  BY <1>1, StepShapes, StepLinked, StepProven DEF NInv
<1>3. Doubtful \subseteq Doubtful' /\ \A u \in Users : proven[u] \subseteq proven'[u]
  BY <1>1, StepHistory DEF NInv
<1>4. losses \in 0 .. MaxLosses
  BY DEF NInv, QueueInv, QueueTypes
<1>5. CASE Accounts \/ UNCHANGED allVars
  <2>1. UNCHANGED notices /\ (UNCHANGED losses \/ CountLoss)
    <3>1. CASE UNCHANGED allVars
      BY <3>1 DEF allVars, vars
    <3>2. CASE \E r \in Requests : Work(r) /\ UNCHANGED notices
      BY <3>2, WorkLosses
    <3>3. CASE \E u \in Users : Expire(u) /\ UNCHANGED notices
      BY <3>3 DEF Expire
    <3> QED
      BY <1>5, <3>1, <3>2, <3>3 DEF Accounts
  <2>2. losses' \in 0 .. MaxLosses /\ losses <= losses'
    BY <1>4, <2>1, AccountAssumption DEF CountLoss
  <2>3. UNCHANGED <<notice, queue, working, sent, failed, cut, redone>>
    BY <2>1 DEF notices
  <2>4. /\ QueueInv'
        /\ \A x \in Message : (Touched(x)' <=> Touched(x)) /\ (Handled(x) => Handled(x)')
    BY <2>2, <2>3, Quiet DEF NInv
  <2>5. NoticeInv'
    BY <1>3, <2>3, <2>4, Settled DEF NInv
  <2> QED
    BY <1>2, <2>4, <2>5 DEF NInv
<1>6. ASSUME NEW n \in Notices, Handle(n)
      PROVE  NInv'
  <2>1. QueueInv' /\ NoticeInv'
    BY <1>6, EmitStep, TellChannelStep, FindUserStep, QueueTelegramStep, QueueEmailStep,
       HandlerFailsStep DEF NInv, Handle
  <2> QED
    BY <1>2, <2>1 DEF NInv
<1>7. ASSUME NEW q \in Queues, Consume(q)
      PROVE  NInv'
  <2>1. UNCHANGED <<losses, notice, cut>>
    BY <1>7 DEF Consume, Deliver, Complete, vars
  <2>2. /\ QueueInv'
        /\ \A x \in Message : (Touched(x)' => Touched(x)) /\ (Handled(x) => Handled(x)')
    BY <1>7, <2>1, Delivered, Completed DEF NInv, Consume
  <2>3. NoticeInv'
    BY <1>3, <2>1, <2>2, Settled DEF NInv
  <2> QED
    BY <1>2, <2>2, <2>3 DEF NInv
<1>8. CASE Restart
  BY <1>2, <1>8, RestartStep DEF NInv
<1> QED
  BY <1>5, <1>6, <1>7, <1>8 DEF NNext

LEMMA NInitInv == NInit => NInv
<1> SUFFICES ASSUME NInit PROVE NInv
  OBVIOUS
<1>1. Shapes /\ LinkInv /\ ProofInv
  BY InitShapes, InitLinked, InitProven DEF NInit
<1>2. /\ notice = [n \in Notices |-> NoNotice] /\ queue = [q \in Queues |-> <<>>]
      /\ working = {} /\ sent = [m \in Message |-> 0] /\ failed = {}
      /\ cut = {} /\ redone = {} /\ losses = 0
  BY DEF NInit, Init
<1>3. \A q \in Queues : DOMAIN queue[q] = {} /\ queue[q] \in Seq(Message)
  BY <1>2, SingleWrite
<1>4. QueueTypes
  BY <1>2, <1>3, AccountAssumption DEF QueueTypes
<1>5. QueueInv
  BY <1>2, <1>3, <1>4 DEF QueueInv, OnePlace, Pending, InWork, Counts
<1>6. \A x \in Message : ~ Touched(x)
  BY <1>2, <1>3 DEF Touched, Waiting
<1>7. \A n \in Notices, to \in Dest : ~ Touched(<<n, to>>)
  BY <1>6 DEF Message, Dest
<1>8. NoNotice.pc = "none" /\ NoNotice.chat = Null /\ NoNotice.email = Null
      /\ DOMAIN NoNotice = NoticeFields
  BY DEF NoNotice, NoticeFields
<1>9. \A n \in Notices : NoticeOK(notice[n]) /\ notice[n].pc = "none"
  BY <1>2, <1>8 DEF NoticeOK
<1>10. \A n \in Notices, to \in Dest : ~ Wants(notice[n], to)
  BY <1>9 DEF Wants
<1>11. NoticeInv
  BY <1>2, <1>7, <1>9, <1>10 DEF NoticeInv, OwnAddress, OwnMails
<1> QED
  BY <1>1, <1>5, <1>11 DEF NInv

LEMMA NInvAlways == NSpec => []NInv
<1>1. NInv /\ [NNext]_allVars => NInv'
  BY NStep
<1> QED
  BY <1>1, NInitInv, PTL DEF NSpec

-----------------------------------------------------------------------------
(* Theorems. *)

\* Accounts and queues are well formed, and no message goes out more often than
\* once and once more for each time the process died.
THEOREM NotificationTypes == NSpec => []NTypeOK
<1>1. NInv => NTypeOK
  <2>1. SUFFICES ASSUME NInv PROVE NTypeOK
    OBVIOUS
  <2>2. TypeOK
    BY <2>1, ShapesTypes DEF NInv
  <2>3. \A m \in Message : sent[m] \in Nat /\ sent[m] <= 1 + losses /\ losses \in 0 .. MaxLosses
    BY <2>1 DEF NInv, QueueInv, QueueTypes, Counts
  <2>4. \A m \in Message : sent[m] \in 0 .. 1 + MaxLosses
    BY <2>3, AccountAssumption
  <2>5. sent \in [Message -> 0 .. 1 + MaxLosses]
    BY <2>1, <2>4 DEF NInv, QueueInv, QueueTypes
  <2> QED
    BY <2>1, <2>2, <2>5 DEF NInv, QueueInv, QueueTypes, NTypeOK
<1> QED
  BY <1>1, NInvAlways, PTL

\* A mail about a user's orders and bids goes to addresses that user has shown
\* to own, although the handler works with an account it read before; with the
\* same two exceptions.
THEOREM MailsGoToProvenAddresses == NSpec => []OnlyProvenAddresses
<1>1. NInv => OnlyProvenAddresses
  <2>1. SUFFICES ASSUME NInv PROVE OnlyProvenAddresses
    OBVIOUS
  <2>2. ConfirmedIsProven
    BY <2>1 DEF NInv, ProofInv, Proven, ConfirmedIsProven
  <2>3. ASSUME NEW n \in Notices, NEW e \in Emails, sent[<<n, e>>] > 0,
               notice[n].user \notin Doubtful
        PROVE  e \in proven[notice[n].user]
    <3>1. Touched(<<n, e>>) /\ e \in Dest
      BY <2>3 DEF Touched, Dest
    <3>2. notice[n].pc # "none"
      BY <2>1, <3>1 DEF NInv, NoticeInv, May
    <3> QED
      BY <2>1, <2>3, <3>1, <3>2 DEF NInv, NoticeInv, OwnMails
  <2> QED
    BY <2>2, <2>3 DEF OnlyProvenAddresses
<1> QED
  BY <1>1, NInvAlways, PTL

\* An event that was handled to its end leaves no wanted message behind, and
\* none goes out twice but one in work when the process dies.
THEOREM MessagesAreDeliveredOnce == NSpec => []DeliveredOnce
<1>1. NInv => DeliveredOnce
  <2>1. SUFFICES ASSUME NInv PROVE DeliveredOnce
    OBVIOUS
  <2>2. \A m \in Message : sent[m] > 1 => m \in redone
    BY <2>1 DEF NInv, QueueInv, Counts
  <2>3. ASSUME NEW n \in Notices, notice[n].pc = "done", n \notin cut,
               NEW to \in {notice[n].chat, notice[n].email}
                          \cup (IF notice[n].kind = "Trading" THEN {} ELSE {EventChannel}),
               Has(to)
        PROVE  Waiting(<<n, to>>) \/ sent[<<n, to>>] > 0 \/ <<n, to>> \in failed
    <3>1. NoticeOK(notice[n])
      BY <2>1 DEF NInv, NoticeInv
    <3>2. to \in Dest
      BY <2>3, <3>1 DEF NoticeOK, Has, Dest
    <3>3. Wants(notice[n], to)
      BY <2>3 DEF Wants
    <3> QED
      BY <2>1, <2>3, <3>2, <3>3 DEF NInv, NoticeInv, Handled, Touched
  <2> QED
    BY <2>2, <2>3 DEF DeliveredOnce
<1> QED
  BY <1>1, NInvAlways, PTL

\* What ChatsHaveCodes says of accounts holds of them here as well.
THEOREM NotifiedChatsHaveCodes == NSpec => []LinkedHasCode
<1>1. NInv => LinkedHasCode
  BY DEF NInv, LinkInv, Linked, LinkedHasCode
<1> QED
  BY <1>1, NInvAlways, PTL

\* And so does FieldsAreOwned: handlers of events write to no account.
THEOREM NotifiedFieldsAreOwned == NSpec => OwnFieldsOnly
<1> DEFINE Owned == \A u \in Users : \A f \in DOMAIN NoAccount \ {"stored"} :
                      user'[u][f] # user[u][f] =>
                        \E r \in Requests : request[r] # request'[r] /\ request[r].user = u
                                            /\ f \in Concern(request[r].op)
<1>1. NInv /\ [NNext]_allVars => [Owned]_vars
  <2>1. SUFFICES ASSUME NInv, NNext \/ UNCHANGED allVars
                 PROVE  Owned
    OBVIOUS
  <2>2. Steps
    BY <2>1, NStepSteps, NextSteps, AccountAssumption DEF NInv
  <2> QED
    BY <2>1, <2>2, StepFields, NoAccountOK DEF NInv
<1>2. NSpec => [][Owned]_vars
  BY <1>1, NInvAlways, PTL DEF NSpec
<1> QED
  BY <1>2 DEF OwnFieldsOnly
=============================================================================
