-------------------------- MODULE ShareServiceProofs --------------------------
(***************************************************************************)
(* Proofs about ShareService, for every set of users, any supply, any      *)
(* number of fill requests, failures and crashes; MirrorsChain while runs  *)
(* of the cron job do not overlap.                                         *)
(***************************************************************************)
EXTENDS ShareService, FiniteSetTheorems, SequenceTheorems, TLAPS

-----------------------------------------------------------------------------
(* Shapes. *)

Amounts == [eventAmount : Nat, handleAmount : Nat, fresh : BOOLEAN]

Writes == [user : Users, side : {"event", "both", "handle"}, amount : Nat]

\* What the contract logs: a purchase has its buyer twice, a trade two users.
IsEvent(e) ==
  /\ e \in Job
  /\ \/ e.kind = "BuyShares" /\ e.maker = e.taker /\ e.orderType = "BuyLimit"
     \/ e.kind = "OrderFilled" /\ e.maker # e.taker

LogOK == log \in Seq(Job) /\ \A i \in 1 .. Len(log) : IsEvent(log[i])

StoreOK == share \in [Users -> Amounts \cup {NoShare}]

JobsOf(w) == IF w \in Requests THEN {j \in Job : j.kind = "handle"}
                               ELSE {j \in Job : IsEvent(j)}

LookingUp == {"read", "create"}

\* No share is looked up yet.
AtFirst(k) == k.pc \in LookingUp /\ k.todo = Parties(k.job) /\ k.got = <<>>

\* The maker's share is read, and so among those that are known.
AtSecond(k, known) ==
  /\ k.job.kind # "BuyShares"
  /\ k.job.maker \in known
  /\ k.pc \in LookingUp /\ k.todo = <<k.job.taker>> /\ \E s \in Amounts : k.got = <<s>>

WriteOK(a, job, known) ==
  /\ a.user \in known \cap {job.maker, job.taker}
  /\ a.side = "handle" <=> job.kind = "handle"

\* Two updates are left, or one.
AtWrites(k, known) ==
  /\ k.pc = "write"
  /\ \E a, b \in Writes :
       /\ k.writes = <<a, b>>
       /\ WriteOK(a, k.job, known) /\ WriteOK(b, k.job, known)
       /\ k.job.kind # "handle" => a.user # b.user

AtWrite(k, known) ==
  k.pc = "write" /\ \E a \in Writes : k.writes = <<a>> /\ WriteOK(a, k.job, known)

WorkOK(w, k, known) ==
  \/ k = Idle
  \/ /\ k.job \in JobsOf(w)
     /\ AtFirst(k) \/ AtSecond(k, known) \/ AtWrites(k, known) \/ AtWrite(k, known)

TasksOK ==
  task = [w \in Workers |-> task[w]] /\ \A w \in Workers : WorkOK(w, task[w], Stored)

Shapes == LogOK /\ StoreOK /\ TasksOK /\ strayed \in SUBSET Users

\* No share comes from nothing: each of those the watch is sold in is unsold or
\* held by one user.
Conserved ==
  \E held \in [Users -> SUBSET (1 .. Supply)], kept \in SUBSET (1 .. Supply) :
    /\ Cardinality(kept) = unsold
    /\ \A u \in Users : Cardinality(held[u]) = balance[u] /\ held[u] \cap kept = {}
    /\ \A u, v \in Users : u # v => held[u] \cap held[v] = {}

ContractOK == balance = [u \in Users |-> balance[u]] /\ Conserved

-----------------------------------------------------------------------------
(* The contract conserves the shares. *)

LEMMA PartOf ==
  ASSUME NEW S, IsFiniteSet(S), NEW n \in Nat, n <= Cardinality(S)
  PROVE  \E P \in SUBSET S : Cardinality(P) = n
<1>1. Cardinality(S) \in Nat
  BY FS_CardinalityType
<1>2. PICK f \in Bijection(1 .. Cardinality(S), S) : TRUE
  BY FS_CardinalityType DEF ExistsBijection
<1> DEFINE P == {f[i] : i \in 1 .. n}
<1>3. P \in SUBSET S
  BY <1>1, <1>2 DEF Bijection, Injection, Surjection
<1>4. [i \in 1 .. n |-> f[i]] \in Bijection(1 .. n, P)
  BY <1>1, <1>2 DEF Bijection, Injection, IsInjective, Surjection
<1>5. Cardinality(P) = n
  BY <1>4, FS_CountingElements DEF ExistsBijection
<1> QED
  BY <1>3, <1>5

LEMMA FinitePart ==
  ASSUME NEW P \in SUBSET (1 .. Supply)
  PROVE  /\ IsFiniteSet(P) /\ Cardinality(P) \in 0 .. Supply
         /\ Supply \in Nat
<1>1. IsFiniteSet(1 .. Supply) /\ Cardinality(1 .. Supply) = Supply /\ Supply \in Nat
  BY FS_Interval, ShareAssumption
<1>2. IsFiniteSet(P) /\ Cardinality(P) <= Supply
  BY <1>1, FS_Subset
<1>3. Cardinality(P) \in Nat
  BY <1>2, FS_CardinalityType
<1> QED
  BY <1>1, <1>2, <1>3

\* Some of the shares of S are given to R.
LEMMA Given ==
  ASSUME NEW S \in SUBSET (1 .. Supply), NEW R \in SUBSET (1 .. Supply), S \cap R = {},
         NEW P \in SUBSET S
  PROVE  /\ Cardinality(S \ P) = Cardinality(S) - Cardinality(P)
         /\ Cardinality(R \cup P) = Cardinality(R) + Cardinality(P)
<1>1. /\ IsFiniteSet(S) /\ IsFiniteSet(R) /\ IsFiniteSet(P)
      /\ Cardinality(R) \in Nat /\ Cardinality(P) \in Nat /\ Cardinality(S) \in Nat
  <2>1. P \in SUBSET (1 .. Supply)
    OBVIOUS
  <2> QED
    BY <2>1, FinitePart
<1>2. S \cap P = P /\ R \cap P = {}
  OBVIOUS
<1>3. Cardinality(S \ P) = Cardinality(S) - Cardinality(P)
  <2>1. Cardinality(S \ P) = Cardinality(S) - Cardinality(S \cap P)
    BY <1>1, FS_Difference
  <2>2. Cardinality(S \cap P) = Cardinality(P)
    BY <1>2, Zenon
  <2> QED
    BY <2>1, <2>2
<1>4. Cardinality(R \cup P) = Cardinality(R) + Cardinality(P)
  <2>1. Cardinality(R \cup P) = Cardinality(R) + Cardinality(P) - Cardinality(R \cap P)
    BY <1>1, FS_Union
  <2>2. Cardinality(R \cap P) = 0
    BY <1>2, FS_EmptySet, Zenon
  <2> DEFINE a == Cardinality(R)
             b == Cardinality(P)
             c == Cardinality(R \cap P)
             d == Cardinality(R \cup P)
  <2>3. a \in Nat /\ b \in Nat /\ c = 0 /\ d = a + b - c
    BY <1>1, <2>1, <2>2, Zenon
  <2> HIDE DEF a, b, c, d
  <2>4. d = a + b
    BY <2>3
  <2> QED
    BY <2>4 DEF a, b, d
<1> QED
  BY <1>3, <1>4

LEMMA BuyConserves ==
  ASSUME ContractOK, NEW u \in Users, NEW n \in 1 .. Supply, n <= unsold,
         unsold' = unsold - n, balance' = [balance EXCEPT ![u] = @ + n]
  PROVE  ContractOK'
<1>1. PICK held \in [Users -> SUBSET (1 .. Supply)], kept \in SUBSET (1 .. Supply) :
        /\ Cardinality(kept) = unsold
        /\ \A v \in Users : Cardinality(held[v]) = balance[v] /\ held[v] \cap kept = {}
        /\ \A v, w \in Users : v # w => held[v] \cap held[w] = {}
  BY DEF ContractOK, Conserved
<1>2. PICK P \in SUBSET kept : Cardinality(P) = n
  BY <1>1, FinitePart, PartOf
<1> DEFINE h == [held EXCEPT ![u] = held[u] \cup P]
           k == kept \ P
<1>3. Cardinality(k) = unsold - n /\ Cardinality(held[u] \cup P) = balance[u] + n
  <2>1. held[u] \in SUBSET (1 .. Supply) /\ kept \cap held[u] = {}
    BY <1>1
  <2>2. /\ Cardinality(kept \ P) = Cardinality(kept) - Cardinality(P)
        /\ Cardinality(held[u] \cup P) = Cardinality(held[u]) + Cardinality(P)
    BY <2>1, Given
  <2> QED
    BY <1>1, <1>2, <2>2
<1>4. /\ h \in [Users -> SUBSET (1 .. Supply)] /\ k \in SUBSET (1 .. Supply)
      /\ h[u] = held[u] \cup P /\ \A v \in Users \ {u} : h[v] = held[v]
  BY <1>1, <1>2
<1>5. /\ balance' = [v \in Users |-> balance'[v]] /\ balance'[u] = balance[u] + n
      /\ \A v \in Users \ {u} : balance'[v] = balance[v]
  BY DEF ContractOK
<1> HIDE DEF h
<1>6. \A v \in Users : Cardinality(h[v]) = balance'[v] /\ h[v] \cap k = {}
  BY <1>1, <1>2, <1>3, <1>4, <1>5
<1>7. \A v, w \in Users : v # w => h[v] \cap h[w] = {}
  BY <1>1, <1>2, <1>4
<1> HIDE DEF k
<1> QED
  BY <1>3, <1>4, <1>5, <1>6, <1>7 DEF ContractOK, Conserved

LEMMA TransferConserves ==
  ASSUME ContractOK, NEW g \in Users, NEW r \in Users, g # r,
         NEW n \in Nat, n <= balance[g], unsold' = unsold,
         balance' = [v \in Users |-> balance'[v]],
         balance'[g] = balance[g] - n, balance'[r] = balance[r] + n,
         \A v \in Users \ {g, r} : balance'[v] = balance[v]
  PROVE  ContractOK'
<1>1. PICK held \in [Users -> SUBSET (1 .. Supply)], kept \in SUBSET (1 .. Supply) :
        /\ Cardinality(kept) = unsold
        /\ \A v \in Users : Cardinality(held[v]) = balance[v] /\ held[v] \cap kept = {}
        /\ \A v, w \in Users : v # w => held[v] \cap held[w] = {}
  BY DEF ContractOK, Conserved
<1>2. PICK P \in SUBSET held[g] : Cardinality(P) = n
  BY <1>1, FinitePart, PartOf
<1> DEFINE h == [held EXCEPT ![g] = held[g] \ P, ![r] = held[r] \cup P]
<1>3. Cardinality(held[g] \ P) = balance[g] - n /\ Cardinality(held[r] \cup P) = balance[r] + n
  <2>1. /\ held[g] \in SUBSET (1 .. Supply) /\ held[r] \in SUBSET (1 .. Supply)
        /\ held[g] \cap held[r] = {}
    BY <1>1
  <2>2. /\ Cardinality(held[g] \ P) = Cardinality(held[g]) - Cardinality(P)
        /\ Cardinality(held[r] \cup P) = Cardinality(held[r]) + Cardinality(P)
    BY <2>1, Given
  <2> QED
    BY <1>1, <1>2, <2>2
<1>4. /\ h \in [Users -> SUBSET (1 .. Supply)] /\ h[g] = held[g] \ P
      /\ h[r] = held[r] \cup P /\ \A v \in Users \ {g, r} : h[v] = held[v]
  BY <1>1, <1>2
<1> HIDE DEF h
<1>5. \A v \in Users : Cardinality(h[v]) = balance'[v] /\ h[v] \cap kept = {}
  BY <1>1, <1>2, <1>3, <1>4
<1>6. \A v, w \in Users : v # w => h[v] \cap h[w] = {}
  BY <1>1, <1>2, <1>4
<1> QED
  BY <1>1, <1>4, <1>5, <1>6 DEF ContractOK, Conserved

LEMMA ContractTypes ==
  ASSUME ContractOK
  PROVE  unsold \in 0 .. Supply /\ balance \in [Users -> 0 .. Supply]
BY FinitePart DEF ContractOK, Conserved

LEMMA ContractInit == Init => ContractOK
<1> SUFFICES ASSUME Init PROVE ContractOK
  OBVIOUS
<1> DEFINE h == [u \in Users |-> {}]
<1>1. Cardinality(1 .. Supply) = Supply /\ Cardinality({}) = 0
  BY FS_Interval, FS_EmptySet, ShareAssumption
<1>2. h \in [Users -> SUBSET (1 .. Supply)] /\ \A u \in Users : h[u] = {}
  OBVIOUS
<1> HIDE DEF h
<1>3. \A u \in Users : Cardinality(h[u]) = balance[u] /\ h[u] \cap (1 .. Supply) = {}
  BY <1>1, <1>2 DEF Init
<1> QED
  BY <1>1, <1>2, <1>3 DEF Init, ContractOK, Conserved

-----------------------------------------------------------------------------
(* A job, from its event or request to its last update. *)

LEMMA Tuples ==
  ASSUME NEW a, NEW b
  PROVE  /\ Len(<<a>>) = 1 /\ Head(<<a>>) = a /\ Append(<<>>, a) = <<a>>
         /\ Len(<<a, b>>) = 2 /\ Head(<<a, b>>) = a /\ Tail(<<a, b>>) = <<b>>
         /\ Append(<<a>>, b) = <<a, b>>
<1>1. Len(<<a>>) = 1 /\ Head(<<a>>) = a
  OBVIOUS
<1>2. Append(<<>>, a) = <<a>>
  OBVIOUS
<1>3. Len(<<a, b>>) = 2 /\ Head(<<a, b>>) = a
  OBVIOUS
<1>4. Tail(<<a, b>>) = <<b>>
  OBVIOUS
<1>5. Append(<<a>>, b) = <<a, b>>
  <2>1. <<a>> \in Seq({a, b}) /\ <<a, b>> \in Seq({a, b})
    OBVIOUS
  <2>2. /\ Append(<<a>>, b) \in Seq({a, b}) /\ Len(Append(<<a>>, b)) = 2
        /\ Append(<<a>>, b)[1] = a /\ Append(<<a>>, b)[2] = b
    BY <2>1, AppendProperties
  <2>3. \A i \in 1 .. Len(<<a, b>>) : Append(<<a>>, b)[i] = <<a, b>>[i]
    BY <2>2
  <2> QED
    BY <2>1, <2>2, <2>3, SeqEqual
<1> QED
  BY <1>1, <1>2, <1>3, <1>4, <1>5

LEMMA Known ==
  ASSUME NEW w, NEW k, NEW A, NEW B, WorkOK(w, k, A), A \subseteq B
  PROVE  WorkOK(w, k, B)
<1>1. AtSecond(k, A) => AtSecond(k, B)
  BY DEF AtSecond
<1>2. AtWrites(k, A) => AtWrites(k, B)
  BY DEF AtWrites, WriteOK
<1>3. AtWrite(k, A) => AtWrite(k, B)
  BY DEF AtWrite, WriteOK
<1> QED
  BY <1>1, <1>2, <1>3 DEF WorkOK

LEMMA BuyUpdates ==
  ASSUME NEW job \in Job, job.kind = "BuyShares", NEW s \in Amounts
  PROVE  \E a \in Writes :
           /\ Updates(job, <<s>>) = <<a>>
           /\ a.user = job.taker /\ a.side = "both"
           /\ a.amount = s.eventAmount + job.shares
<1> DEFINE a == [user |-> job.taker, side |-> "both", amount |-> s.eventAmount + job.shares]
<1>1. a \in Writes
  BY ShareAssumption DEF Job, Amounts, Writes
<1>2. Updates(job, <<s>>) = <<a>>
  BY DEF Updates, AddShare
<1> QED
  BY <1>1, <1>2

\* The updates of a trade between users whose shares are s and r.
NewPair(a, b, job, s, r) ==
  /\ a.user = job.maker /\ b.user = job.taker
  /\ a.side = "handle" <=> job.kind = "handle"
  /\ b.side = a.side
  /\ job.kind # "handle" =>
       LET new == GetNewShareFromEvent(job, s.eventAmount, r.eventAmount)
       IN  a.side = "event" /\ a.amount = new.maker /\ b.amount = new.taker

LEMMA TwoUpdates ==
  ASSUME NEW job \in Job, job.kind # "BuyShares", NEW s \in Amounts, NEW r \in Amounts
  PROVE  \E a, b \in Writes : Updates(job, <<s, r>>) = <<a, b>> /\ NewPair(a, b, job, s, r)
<1> DEFINE side == IF job.kind = "handle" THEN "handle" ELSE "event"
           new == IF job.kind = "handle"
                  THEN GetNewShareFromEvent(job, GetHandleOrEvent(s), GetHandleOrEvent(r))
                  ELSE GetNewShareFromEvent(job, s.eventAmount, r.eventAmount)
           a == [user |-> job.maker, side |-> side, amount |-> new.maker]
           b == [user |-> job.taker, side |-> side, amount |-> new.taker]
<1>1. job.kind \in {"OrderFilled", "handle"} /\ job.shares \in Nat
      /\ job.maker \in Users /\ job.taker \in Users
  BY ShareAssumption DEF Job
<1>2. /\ GetHandleOrEvent(s) \in Nat /\ GetHandleOrEvent(r) \in Nat
      /\ s.eventAmount \in Nat /\ r.eventAmount \in Nat
  BY DEF Amounts, GetHandleOrEvent
<1>3. \A x, y \in Nat : /\ GetNewShareFromEvent(job, x, y).maker \in Nat
                        /\ GetNewShareFromEvent(job, x, y).taker \in Nat
  BY <1>1 DEF GetNewShareFromEvent, AddShare, SubShare
<1>4. new.maker \in Nat /\ new.taker \in Nat
  BY <1>2, <1>3
<1> HIDE DEF new
<1>5. a \in Writes /\ b \in Writes
  BY <1>1, <1>4 DEF Writes
<1>6. Updates(job, <<s, r>>) = <<a, b>>
  BY <1>1 DEF new, Updates
<1> QED
  BY <1>1, <1>5, <1>6 DEF new, NewPair

LEMMA Jobs ==
  ASSUME NEW w, NEW j \in JobsOf(w)
  PROVE  /\ j \in Job /\ j.maker \in Users /\ j.taker \in Users
         /\ j.kind \in {"BuyShares", "OrderFilled", "handle"}
         /\ j.kind = "handle" <=> w \in Requests
         /\ j.kind = "OrderFilled" => j.maker # j.taker
         /\ j.kind = "BuyShares" => j.maker = j.taker /\ j.orderType = "BuyLimit"
         /\ j.shares \in 1 .. Supply
         /\ j.orderType \in {"BuyLimit", "SellLimit"}
BY DEF JobsOf, IsEvent, Job

LEMMA Phases ==
  ASSUME NEW k, NEW A
  PROVE  /\ AtFirst(k) \/ AtSecond(k, A) => k.pc \in LookingUp
         /\ AtWrites(k, A) \/ AtWrite(k, A) => k.pc = "write"
         /\ Idle.pc = "idle"
BY DEF Idle, At, AtFirst, AtSecond, AtWrites, AtWrite

\* Where a worker that looks a share up is.
LEMMA LooksUp ==
  ASSUME TasksOK, NEW w \in Workers, task[w].pc \in LookingUp
  PROVE  /\ task[w].job \in JobsOf(w)
         /\ AtFirst(task[w]) \/ AtSecond(task[w], Stored)
<1>1. WorkOK(w, task[w], Stored) /\ task[w] # Idle
  BY Phases DEF TasksOK, LookingUp
<1>2. ~ AtWrites(task[w], Stored) /\ ~ AtWrite(task[w], Stored)
  BY Phases DEF LookingUp
<1> QED
  BY <1>1, <1>2 DEF WorkOK

LEMMA NextUser ==
  ASSUME TasksOK, NEW w \in Workers, task[w].pc \in LookingUp
  PROVE  /\ Head(task[w].todo) \in {task[w].job.maker, task[w].job.taker}
         /\ AtFirst(task[w]) /\ task[w].job.kind # "BuyShares" =>
              Head(task[w].todo) = task[w].job.maker
         /\ ~ (AtFirst(task[w]) /\ task[w].job.kind # "BuyShares") =>
              Head(task[w].todo) = task[w].job.taker
<1>1. CASE AtFirst(task[w])
  <2>1. task[w].todo = Parties(task[w].job)
    BY <1>1 DEF AtFirst, At
  <2>2. CASE task[w].job.kind = "BuyShares"
    BY <1>1, <2>1, <2>2 DEF Parties
  <2>3. CASE task[w].job.kind # "BuyShares"
    <3>1. task[w].todo = <<task[w].job.maker, task[w].job.taker>>
      BY <2>1, <2>3 DEF Parties
    <3>2. Head(task[w].todo) = task[w].job.maker
      BY <3>1
    <3> QED
      BY <1>1, <2>3, <3>2
  <2> QED
    BY <2>2, <2>3
<1>2. CASE AtSecond(task[w], Stored) /\ ~ AtFirst(task[w])
  <2>1. task[w].todo = <<task[w].job.taker>>
    BY <1>2 DEF AtSecond, At
  <2> QED
    BY <1>2, <2>1, Tuples
<1> QED
  BY <1>1, <1>2, LooksUp

\* What a worker does with a share it has got.
LEMMA GotStep ==
  ASSUME TasksOK, NEW w \in Workers, task[w].pc \in LookingUp, NEW s \in Amounts, Got(w, s)
  PROVE  /\ task' = [task EXCEPT ![w] = task'[w]]
         /\ \/ /\ AtFirst(task[w]) /\ task[w].job.kind = "BuyShares"
               /\ \E a \in Writes :
                    /\ task'[w] = At("write", task[w].job, <<>>, <<>>, <<a>>)
                    /\ a.user = task[w].job.taker /\ a.side = "both"
                    /\ a.amount = s.eventAmount + task[w].job.shares
            \/ /\ AtFirst(task[w]) /\ task[w].job.kind # "BuyShares"
               /\ task'[w] = At("read", task[w].job, <<task[w].job.taker>>, <<s>>, <<>>)
            \/ /\ AtSecond(task[w], Stored)
               /\ \E r \in Amounts, a, b \in Writes :
                    /\ task[w].got = <<r>>
                    /\ task'[w] = At("write", task[w].job, <<>>, <<>>, <<a, b>>)
                    /\ NewPair(a, b, task[w].job, r, s)
<1> DEFINE k == task[w]
           j == task[w].job
<1>1. j \in JobsOf(w) /\ (AtFirst(k) \/ AtSecond(k, Stored))
  BY LooksUp
<1>2. j \in Job
  BY <1>1, Jobs
<1>3. DOMAIN task = Workers /\ task = [v \in Workers |-> task[v]]
  BY DEF TasksOK
<1>4. CASE AtFirst(k) /\ j.kind = "BuyShares"
  <2>1. k.got = <<>> /\ k.todo = <<j.taker>>
    BY <1>4 DEF AtFirst, Parties, At
  <2>2. ~ (Len(k.todo) > 1) /\ Append(k.got, s) = <<s>>
    BY <2>1
  <2>3. PICK a \in Writes : /\ Updates(j, <<s>>) = <<a>>
                            /\ a.user = j.taker /\ a.side = "both"
                            /\ a.amount = s.eventAmount + j.shares
    BY <1>2, <1>4, BuyUpdates
  <2>4. task' = [task EXCEPT ![w] = At("write", j, <<>>, <<>>, <<a>>)]
    BY <2>2, <2>3 DEF Got
  <2>5. task'[w] = At("write", j, <<>>, <<>>, <<a>>)
    BY <1>3, <2>4
  <2> QED
    BY <1>4, <2>3, <2>4, <2>5
<1>5. CASE AtFirst(k) /\ j.kind # "BuyShares"
  <2>1. k.got = <<>> /\ k.todo = <<j.maker, j.taker>>
    BY <1>5 DEF AtFirst, Parties, At
  <2>2. /\ Len(k.todo) > 1 /\ Tail(k.todo) = <<j.taker>> /\ Append(k.got, s) = <<s>>
    BY <2>1
  <2>3. task' = [task EXCEPT ![w] = At("read", j, <<j.taker>>, <<s>>, <<>>)]
    BY <2>2 DEF Got
  <2>4. task'[w] = At("read", j, <<j.taker>>, <<s>>, <<>>)
    BY <1>3, <2>3
  <2> QED
    BY <1>5, <2>3, <2>4
<1>6. CASE AtSecond(k, Stored)
  <2>1. PICK r \in Amounts : k.todo = <<j.taker>> /\ k.got = <<r>>
    BY <1>6 DEF AtSecond, At
  <2>2. ~ (Len(k.todo) > 1) /\ Append(k.got, s) = <<r, s>>
    <3>1. Append(<<r>>, s) = <<r, s>>
      BY Tuples
    <3> QED
      BY <2>1, <3>1
  <2>3. PICK a, b \in Writes : Updates(j, <<r, s>>) = <<a, b>> /\ NewPair(a, b, j, r, s)
    BY <1>2, <1>6, TwoUpdates DEF AtSecond
  <2>4. task' = [task EXCEPT ![w] = At("write", j, <<>>, <<>>, <<a, b>>)]
    BY <2>2, <2>3 DEF Got
  <2>5. task'[w] = At("write", j, <<>>, <<>>, <<a, b>>)
    BY <1>3, <2>4
  <2> QED
    BY <1>6, <2>1, <2>3, <2>4, <2>5
<1> QED
  BY <1>1, <1>4, <1>5, <1>6

LEMMA StoredShare ==
  ASSUME StoreOK, NEW u \in Users
  PROVE  /\ u \in Stored => share[u] \in Amounts
         /\ u \notin Stored => share[u] = NoShare
         /\ share[u] \in Amounts => u \in Stored
BY DEF StoreOK, Stored, NoShare, Amounts

\* A share is created or updated; those that are stored stay.
LEMMA Saved ==
  ASSUME StoreOK, NEW u \in Users, NEW s \in Amounts, share' = [share EXCEPT ![u] = s]
  PROVE  /\ StoreOK' /\ Stored' = Stored \cup {u} /\ share'[u] = s
         /\ \A v \in Users \ {u} : share'[v] = share[v]
<1>1. share' \in [Users -> Amounts \cup {NoShare}] /\ share'[u] = s
      /\ \A v \in Users \ {u} : share'[v] = share[v]
  BY DEF StoreOK
<1>2. s # NoShare
  BY DEF NoShare, Amounts
<1> QED
  BY <1>1, <1>2 DEF StoreOK, Stored

LEMMA WorkerMoves ==
  ASSUME TasksOK, NEW w \in Workers, task' = [task EXCEPT ![w] = task'[w]],
         Stored \subseteq Stored', WorkOK(w, task'[w], Stored')
  PROVE  TasksOK' /\ \A v \in Workers \ {w} : task'[v] = task[v]
<1>1. /\ task' = [v \in Workers |-> task'[v]]
      /\ \A v \in Workers \ {w} : task'[v] = task[v]
  BY DEF TasksOK
<1>2. \A v \in Workers : WorkOK(v, task'[v], Stored')
  BY <1>1, Known DEF TasksOK
<1> QED
  BY <1>1, <1>2 DEF TasksOK

LEMMA WorkerRests ==
  ASSUME TasksOK, NEW w \in Workers, task' = [task EXCEPT ![w] = Idle], Stored' = Stored
  PROVE  TasksOK' /\ task'[w] = Idle /\ \A v \in Workers \ {w} : task'[v] = task[v]
<1>1. task'[w] = Idle
  BY DEF TasksOK
<1>2. WorkOK(w, task'[w], Stored')
  BY <1>1 DEF WorkOK
<1> QED
  BY <1>1, <1>2, WorkerMoves

LEMMA GotTypes ==
  ASSUME TasksOK, NEW w \in Workers, task[w].pc \in LookingUp, NEW s \in Amounts, Got(w, s),
         Stored \subseteq Stored', Head(task[w].todo) \in Stored'
  PROVE  TasksOK' /\ \A v \in Workers \ {w} : task'[v] = task[v]
<1> DEFINE k == task[w]
           j == task[w].job
           n == task'[w]
<1>1. task' = [task EXCEPT ![w] = n]
  BY GotStep
<1>2. j \in JobsOf(w)
  BY LooksUp
<1>3. /\ j.kind = "OrderFilled" => j.maker # j.taker
      /\ j.kind \in {"BuyShares", "OrderFilled", "handle"}
  BY <1>2, Jobs
<1>4. WorkOK(w, n, Stored')
  <2>1. CASE AtFirst(k) /\ j.kind = "BuyShares"
    <3>1. PICK a \in Writes : /\ n = At("write", j, <<>>, <<>>, <<a>>)
                              /\ a.user = j.taker /\ a.side = "both"
      BY <2>1, GotStep DEF AtSecond
    <3>2. n.job = j /\ a.user \in Stored'
      BY <2>1, <3>1, NextUser DEF At
    <3>3. WriteOK(a, n.job, Stored')
      BY <2>1, <3>1, <3>2 DEF WriteOK
    <3>4. AtWrite(n, Stored')
      BY <3>1, <3>3 DEF AtWrite, At
    <3> QED
      BY <1>2, <3>2, <3>4 DEF WorkOK
  <2>2. CASE AtFirst(k) /\ j.kind # "BuyShares" /\ n = At("read", j, <<j.taker>>, <<s>>, <<>>)
    <3>1. n.job = j /\ j.maker \in Stored'
      BY <2>2, NextUser DEF At
    <3>2. AtSecond(n, Stored')
      BY <2>2, <3>1 DEF AtSecond, LookingUp, At
    <3> QED
      BY <1>2, <3>1, <3>2 DEF WorkOK
  <2>3. CASE /\ AtSecond(k, Stored)
             /\ \E r \in Amounts, a, b \in Writes :
                  n = At("write", j, <<>>, <<>>, <<a, b>>) /\ NewPair(a, b, j, r, s)
    <3>1. PICK r \in Amounts, a \in Writes, b \in Writes :
            n = At("write", j, <<>>, <<>>, <<a, b>>) /\ NewPair(a, b, j, r, s)
      BY <2>3
    <3>2. n.job = j /\ j.maker \in Stored' /\ j.kind # "BuyShares"
      BY <2>3, <3>1 DEF At, AtSecond
    <3>3. AtFirst(k) \/ j.taker \in Stored'
      BY <2>3, NextUser
    <3>4. ~ AtFirst(k)
      <4>1. k.todo = <<j.taker>> /\ (AtFirst(k) => k.todo = <<j.maker, j.taker>>)
        BY <2>3, <3>2 DEF AtSecond, AtFirst, Parties
      <4> QED
        BY <4>1
    <3>5. WriteOK(a, n.job, Stored') /\ WriteOK(b, n.job, Stored')
      BY <3>1, <3>2, <3>3, <3>4 DEF WriteOK, NewPair
    <3>6. n.job.kind # "handle" => a.user # b.user
      BY <1>3, <3>1, <3>2 DEF NewPair
    <3>7. AtWrites(n, Stored')
      BY <3>1, <3>5, <3>6 DEF AtWrites, At
    <3> QED
      BY <1>2, <3>2, <3>7 DEF WorkOK
  <2> QED
    BY <2>1, <2>2, <2>3, GotStep
<1> QED
  BY <1>1, <1>4, WorkerMoves

\* The next update of a worker, a: the last one, or one of two.
WritesNow(w, a) ==
  /\ task[w].pc = "write" /\ task[w].job \in JobsOf(w)
  /\ WriteOK(a, task[w].job, Stored)
  /\ share' = [share EXCEPT ![a.user] = Updated(share[a.user], a)]
  /\ Updated(share[a.user], a) \in Amounts
  /\ \/ /\ task[w].writes = <<a>>
        /\ task' = [task EXCEPT ![w] = Idle]
     \/ \E b \in Writes :
          /\ task[w].writes = <<a, b>>
          /\ WriteOK(b, task[w].job, Stored)
          /\ task[w].job.kind # "handle" => a.user # b.user
          /\ task' = [task EXCEPT ![w] = At("write", task[w].job, <<>>, <<>>, <<b>>)]

LEMMA WriteStep ==
  ASSUME StoreOK, TasksOK, NEW w \in Workers, WriteShare(w)
  PROVE  \E a \in Writes : WritesNow(w, a)
<1> DEFINE k == task[w]
           j == task[w].job
<1>1. k.pc = "write"
  BY DEF WriteShare
<1>2. /\ j \in JobsOf(w)
      /\ AtWrites(k, Stored) \/ AtWrite(k, Stored)
  BY <1>1, Phases DEF TasksOK, WorkOK, LookingUp
<1>3. \A a \in Writes : WriteOK(a, j, Stored) => Updated(share[a.user], a) \in Amounts
  <2>1. TAKE a \in Writes
  <2>2. HAVE WriteOK(a, j, Stored)
  <2>3. share[a.user] \in Amounts
    BY <2>2, StoredShare DEF WriteOK, Writes
  <2> QED
    BY <2>3 DEF Updated, Amounts, Writes
<1>4. CASE AtWrite(k, Stored)
  <2>1. PICK a \in Writes : k.writes = <<a>> /\ WriteOK(a, j, Stored)
    BY <1>4 DEF AtWrite
  <2>2. Head(k.writes) = a /\ ~ (Len(k.writes) > 1)
    BY <2>1
  <2>3. /\ share' = [share EXCEPT ![a.user] = Updated(share[a.user], a)]
        /\ task' = [task EXCEPT ![w] = Idle]
    BY <2>2 DEF WriteShare
  <2> QED
    BY <1>1, <1>2, <1>3, <2>1, <2>3 DEF WritesNow
<1>5. CASE AtWrites(k, Stored)
  <2>1. PICK a \in Writes, b \in Writes :
          /\ k.writes = <<a, b>> /\ WriteOK(a, j, Stored) /\ WriteOK(b, j, Stored)
          /\ j.kind # "handle" => a.user # b.user
    BY <1>5 DEF AtWrites
  <2>2. Head(k.writes) = a /\ Len(k.writes) > 1 /\ Tail(k.writes) = <<b>>
    BY <2>1
  <2>3. share' = [share EXCEPT ![a.user] = Updated(share[a.user], a)]
    BY <2>2 DEF WriteShare
  <2>4. task' = [task EXCEPT ![w] = At("write", j, <<>>, <<>>, <<b>>)]
    BY <2>2 DEF WriteShare
  <2>5. Updated(share[a.user], a) \in Amounts
    BY <1>3, <2>1
  <2> QED
    BY <1>1, <1>2, <2>1, <2>3, <2>4, <2>5 DEF WritesNow
<1> QED
  BY <1>2, <1>4, <1>5

LEMMA WriteTypes ==
  ASSUME StoreOK, TasksOK, NEW w \in Workers, WriteShare(w)
  PROVE  StoreOK' /\ TasksOK' /\ Stored' = Stored
<1> DEFINE k == task[w]
           j == task[w].job
<1>0. PICK a \in Writes : WritesNow(w, a)
  BY WriteStep
<1>1. /\ j \in JobsOf(w) /\ WriteOK(a, j, Stored)
      /\ share' = [share EXCEPT ![a.user] = Updated(share[a.user], a)]
      /\ Updated(share[a.user], a) \in Amounts
      /\ \/ task' = [task EXCEPT ![w] = Idle]
         \/ \E b \in Writes :
              /\ WriteOK(b, j, Stored)
              /\ task' = [task EXCEPT ![w] = At("write", j, <<>>, <<>>, <<b>>)]
  BY <1>0, Zenon DEF WritesNow
<1>2. StoreOK' /\ Stored' = Stored
  <2>1. a.user \in Users /\ a.user \in Stored
    BY <1>1 DEF WriteOK, Writes
  <2>2. StoreOK' /\ Stored' = Stored \cup {a.user}
    BY <1>1, <2>1, Saved
  <2> QED
    BY <2>1, <2>2
<1>3. CASE task' = [task EXCEPT ![w] = Idle]
  BY <1>2, <1>3, WorkerRests
<1>4. ASSUME NEW b \in Writes, WriteOK(b, j, Stored),
             task' = [task EXCEPT ![w] = At("write", j, <<>>, <<>>, <<b>>)]
      PROVE  TasksOK'
  <2>1. task'[w] = At("write", j, <<>>, <<>>, <<b>>)
    BY <1>4 DEF TasksOK
  <2>2. task'[w].job = j /\ AtWrite(task'[w], Stored')
    BY <1>2, <1>4, <2>1 DEF AtWrite, At
  <2>3. WorkOK(w, task'[w], Stored')
    BY <1>1, <2>2 DEF WorkOK
  <2> QED
    BY <1>2, <1>4, <2>1, <2>3, WorkerMoves
<1> QED
  BY <1>1, <1>2, <1>3, <1>4

\* A share that is absent is to be created.
LEMMA AbsentStep ==
  ASSUME TasksOK, NEW w \in Workers, task[w].pc = "read",
         task' = [task EXCEPT ![w] = At("create", task[w].job, task[w].todo,
                                        task[w].got, <<>>)],
         Stored' = Stored
  PROVE  /\ TasksOK' /\ \A v \in Workers \ {w} : task'[v] = task[v]
         /\ task'[w] = At("create", task[w].job, task[w].todo, task[w].got, <<>>)
<1>1. task'[w] = At("create", task[w].job, task[w].todo, task[w].got, <<>>)
  BY DEF TasksOK
<1>2. task[w].job \in JobsOf(w) /\ (AtFirst(task[w]) \/ AtSecond(task[w], Stored))
  BY LooksUp DEF LookingUp
<1>3. WorkOK(w, task'[w], Stored')
  BY <1>1, <1>2 DEF WorkOK, AtFirst, AtSecond, LookingUp, At
<1> QED
  BY <1>1, <1>3, WorkerMoves

\* A worker takes a job.
LEMMA TaskTaken ==
  ASSUME TasksOK, NEW w \in Workers, NEW j \in JobsOf(w),
         task' = [task EXCEPT ![w] = At("read", j, Parties(j), <<>>, <<>>)],
         Stored' = Stored
  PROVE  /\ TasksOK' /\ \A v \in Workers \ {w} : task'[v] = task[v]
         /\ task'[w] = At("read", j, Parties(j), <<>>, <<>>)
<1>1. task'[w] = At("read", j, Parties(j), <<>>, <<>>)
  BY DEF TasksOK
<1>2. WorkOK(w, task'[w], Stored')
  BY <1>1 DEF WorkOK, AtFirst, LookingUp, At
<1> QED
  BY <1>1, <1>2, WorkerMoves

LEMMA PartiesAre ==
  ASSUME NEW w, NEW j \in JobsOf(w)
  PROVE  ToSet(Parties(j)) = {j.maker, j.taker}
BY Jobs DEF ToSet, Parties

\* Whom a worker has still to book an event for.
LEMMA UnbookedAre ==
  ASSUME TasksOK, NEW w \in Workers
  PROVE  /\ w \in Requests \/ task[w] = Idle => Unbooked(w) = {}
         /\ w \notin Requests /\ task[w].pc \in LookingUp =>
              Unbooked(w) = {task[w].job.maker, task[w].job.taker}
         /\ w \notin Requests /\ task[w].pc = "write" =>
              \A a, b : /\ task[w].writes = <<a>> => Unbooked(w) = {a.user}
                        /\ task[w].writes = <<a, b>> => Unbooked(w) = {a.user, b.user}
         /\ Unbooked(w) \subseteq Users
<1>1. w \in Requests \/ task[w] = Idle => Unbooked(w) = {}
  BY DEF Unbooked, Idle, At
<1>2. ASSUME w \notin Requests, task[w].pc \in LookingUp
      PROVE  Unbooked(w) = {task[w].job.maker, task[w].job.taker}
  BY <1>2, LooksUp, PartiesAre DEF Unbooked, LookingUp
<1>3. ASSUME w \notin Requests, task[w].pc = "write", NEW a, NEW b
      PROVE  /\ task[w].writes = <<a>> => Unbooked(w) = {a.user}
             /\ task[w].writes = <<a, b>> => Unbooked(w) = {a.user, b.user}
  BY <1>3 DEF Unbooked
<1>4. ASSUME w \notin Requests, task[w] # Idle
      PROVE  Unbooked(w) \subseteq Users
  <2>1. /\ task[w].job \in JobsOf(w)
        /\ \/ AtFirst(task[w]) \/ AtSecond(task[w], Stored)
           \/ AtWrites(task[w], Stored) \/ AtWrite(task[w], Stored)
    BY <1>4 DEF TasksOK, WorkOK
  <2>2. task[w].job.maker \in Users /\ task[w].job.taker \in Users
    BY <2>1, Jobs
  <2>3. CASE task[w].pc \in LookingUp
    BY <1>2, <1>4, <2>2, <2>3
  <2>4. CASE AtWrites(task[w], Stored)
    BY <1>3, <1>4, <2>4 DEF AtWrites, Writes
  <2>5. CASE AtWrite(task[w], Stored)
    BY <1>3, <1>4, <2>5 DEF AtWrite, Writes
  <2> QED
    BY <2>1, <2>3, <2>4, <2>5, Phases
<1> QED
  BY <1>1, <1>2, <1>3, <1>4

LEMMA Logged ==
  ASSUME LogOK, NEW e \in Job, IsEvent(e), log' = Append(log, e)
  PROVE  /\ LogOK' /\ Len(log') = Len(log) + 1 /\ log'[Len(log) + 1] = e
         /\ \A i \in 1 .. Len(log) : log'[i] = log[i]
<1>1. /\ log' \in Seq(Job) /\ Len(log') = Len(log) + 1 /\ log'[Len(log) + 1] = e
      /\ \A i \in 1 .. Len(log) : log'[i] = log[i]
  BY AppendProperties DEF LogOK
<1> QED
  BY <1>1 DEF LogOK

LEMMA Taken ==
  ASSUME LogOK, log # <<>>, log' = Tail(log)
  PROVE  /\ LogOK' /\ Len(log') = Len(log) - 1 /\ Len(log) \in Nat \ {0}
         /\ \A i \in 1 .. Len(log) - 1 : log'[i] = log[i + 1]
         /\ Head(log) = log[1] /\ Head(log) \in Job /\ IsEvent(Head(log))
<1>1. /\ log' \in Seq(Job) /\ Len(log') = Len(log) - 1
      /\ \A i \in 1 .. Len(log') : log'[i] = log[i + 1]
      /\ Len(log) \in Nat \ {0} /\ Head(log) = log[1] /\ Head(log) \in Job
  BY HeadTailProperties, EmptySeq DEF LogOK
<1> QED
  BY <1>1 DEF LogOK

-----------------------------------------------------------------------------
(* Types. *)

\* What the contract does keeps its shares, and what it logs is an event.
LEMMA ChainKeeps ==
  ASSUME ContractOK, LogOK, Contract
  PROVE  ContractOK' /\ LogOK'
<1>1. ASSUME NEW u \in Users, NEW n \in 1 .. Supply, ChainBuyShares(u, n)
      PROVE  ContractOK' /\ LogOK'
  <2> DEFINE e == [kind |-> "BuyShares", maker |-> u, taker |-> u,
                   orderType |-> "BuyLimit", shares |-> n]
  <2>1. ContractOK'
    BY <1>1, BuyConserves DEF ChainBuyShares
  <2>2. e \in Job /\ IsEvent(e) /\ log' = Append(log, e)
    BY <1>1 DEF ChainBuyShares, Job, IsEvent
  <2> QED
    BY <2>1, <2>2, Logged
<1>2. ASSUME NEW m \in Users, NEW k \in Users, NEW o \in {"BuyLimit", "SellLimit"},
             NEW n \in 1 .. Supply, ChainFill(m, k, o, n)
      PROVE  ContractOK' /\ LogOK'
  <2> DEFINE e == [kind |-> "OrderFilled", maker |-> m, taker |-> k,
                   orderType |-> o, shares |-> n]
             buyer  == IF o = "BuyLimit" THEN m ELSE k
             seller == IF o = "BuyLimit" THEN k ELSE m
  <2>1. /\ buyer \in Users /\ seller \in Users /\ buyer # seller
        /\ n \in Nat /\ n <= balance[seller] /\ unsold' = unsold
        /\ balance' = [balance EXCEPT ![buyer] = @ + n, ![seller] = @ - n]
    BY <1>2, ShareAssumption DEF ChainFill
  <2> HIDE DEF buyer, seller
  <2>2. /\ balance' = [v \in Users |-> balance'[v]]
        /\ balance'[seller] = balance[seller] - n /\ balance'[buyer] = balance[buyer] + n
        /\ \A v \in Users \ {seller, buyer} : balance'[v] = balance[v]
    BY <2>1 DEF ContractOK
  <2>3. ContractOK'
    BY <2>1, <2>2, TransferConserves
  <2>4. e \in Job /\ IsEvent(e) /\ log' = Append(log, e)
    BY <1>2 DEF ChainFill, Job, IsEvent
  <2> QED
    BY <2>3, <2>4, Logged
<1>3. ASSUME NEW u \in Users, NEW v \in Users, ChainTransfer(u, v)
      PROVE  ContractOK' /\ LogOK'
  <2>1. /\ u # v /\ balance[u] \in Nat /\ 1 <= balance[u] /\ unsold' = unsold
        /\ balance' = [balance EXCEPT ![u] = @ - 1, ![v] = @ + 1]
    BY <1>3, ContractTypes DEF ChainTransfer
  <2>2. /\ balance' = [w \in Users |-> balance'[w]]
        /\ balance'[u] = balance[u] - 1 /\ balance'[v] = balance[v] + 1
        /\ \A w \in Users \ {u, v} : balance'[w] = balance[w]
    BY <2>1 DEF ContractOK
  <2>3. ContractOK'
    BY <2>1, <2>2, TransferConserves
  <2> QED
    BY <1>3, <2>3 DEF ChainTransfer, LogOK
<1> QED
  BY <1>1, <1>2, <1>3 DEF Contract

LEMMA ShapesInit == Init => Shapes
<1> SUFFICES ASSUME Init PROVE Shapes
  OBVIOUS
<1>1. LogOK
  BY DEF Init, LogOK
<1>2. StoreOK
  BY DEF Init, StoreOK
<1>3. TasksOK
  BY DEF Init, TasksOK, WorkOK
<1> QED
  BY <1>1, <1>2, <1>3 DEF Init, Shapes

LEMMA ReadTypes ==
  ASSUME StoreOK, TasksOK, NEW w \in Workers, ReadShare(w)
  PROVE  StoreOK' /\ TasksOK' /\ Stored' = Stored
<1>1. /\ StoreOK' /\ Stored' = Stored
      /\ task[w].pc = "read" /\ task[w].pc \in LookingUp
  BY DEF ReadShare, StoreOK, Stored, LookingUp
<1>2. CASE Head(task[w].todo) \in Stored /\ Got(w, share[Head(task[w].todo)])
  <2>1. share[Head(task[w].todo)] \in Amounts
    BY <1>2, StoredShare DEF Stored
  <2> QED
    BY <1>1, <1>2, <2>1, GotTypes
<1>3. CASE task' = [task EXCEPT ![w] = At("create", task[w].job, task[w].todo,
                                          task[w].got, <<>>)]
  BY <1>1, <1>3, AbsentStep
<1> QED
  BY <1>1, <1>2, <1>3 DEF ReadShare

LEMMA CreateTypes ==
  ASSUME StoreOK, TasksOK, NEW w \in Workers, CreateShare(w)
  PROVE  StoreOK' /\ TasksOK'
<1> DEFINE u == Head(task[w].todo)
<1>1. /\ task[w].pc \in LookingUp
      /\ \E new \in NewShares : share' = [share EXCEPT ![u] = new] /\ Got(w, new)
  BY DEF CreateShare, LookingUp
<1>2. PICK new \in Amounts : share' = [share EXCEPT ![u] = new] /\ Got(w, new)
  <2>1. NewShares \subseteq Amounts
    BY DEF NewShares, Amounts
  <2> QED
    BY <1>1, <2>1
<1>3. u \in Users
  BY <1>1, LooksUp, NextUser, Jobs
<1> HIDE DEF u
<1>4. StoreOK' /\ Stored' = Stored \cup {u}
  BY <1>2, <1>3, Saved
<1> USE DEF u
<1>5. TasksOK'
  BY <1>1, <1>2, <1>4, GotTypes
<1> QED
  BY <1>4, <1>5

LEMMA GiveUpTypes ==
  ASSUME Shapes, NEW w \in Workers, GiveUp(w)
  PROVE  Shapes'
<1>1. TasksOK'
  BY WorkerRests DEF GiveUp, Shapes, Stored
<1>2. strayed' \in SUBSET Users
  BY UnbookedAre DEF GiveUp, Shapes
<1> QED
  BY <1>1, <1>2 DEF GiveUp, Shapes, LogOK, StoreOK

LEMMA ShapesStep ==
  ASSUME Shapes, ContractOK, [Next]_vars
  PROVE  Shapes' /\ ContractOK'
<1> USE DEF contract
<1>1. CASE Contract
  <2>1. ContractOK' /\ LogOK'
    BY <1>1, ChainKeeps DEF Shapes
  <2>2. share' = share /\ task' = task /\ strayed' \in SUBSET Users
    BY <1>1 DEF Contract, ChainBuyShares, ChainFill, ChainTransfer, Shapes
  <2> QED
    BY <2>1, <2>2 DEF Shapes, StoreOK, TasksOK, Stored
<1>2. ASSUME UNCHANGED contract, Shapes' PROVE Shapes' /\ ContractOK'
  BY <1>2 DEF ContractOK, Conserved
<1>3. ASSUME NEW t \in Ticks, BeginEvent(t) PROVE Shapes' /\ UNCHANGED contract
  <2>1. LogOK' /\ Head(log) \in Job /\ IsEvent(Head(log))
    BY <1>3, Taken DEF BeginEvent, Shapes
  <2>2. Head(log) \in JobsOf(t)
    BY <2>1, ShareAssumption DEF JobsOf
  <2>3. TasksOK'
    BY <1>3, <2>2, TaskTaken DEF BeginEvent, Shapes, Workers, Stored
  <2> QED
    BY <1>3, <2>1, <2>3 DEF BeginEvent, Shapes, StoreOK
<1>4. ASSUME NEW t \in Ticks, SkipEvent(t) PROVE Shapes' /\ UNCHANGED contract
  <2>1. LogOK' /\ Head(log) \in Job /\ IsEvent(Head(log))
    BY <1>4, Taken DEF SkipEvent, Shapes
  <2>2. Head(log) \in JobsOf(t)
    BY <2>1, ShareAssumption DEF JobsOf
  <2>3. strayed' \in SUBSET Users
    BY <1>4, <2>2, PartiesAre, Jobs DEF SkipEvent, Shapes
  <2> QED
    BY <1>4, <2>1, <2>3 DEF SkipEvent, Shapes, StoreOK, TasksOK, Stored
<1>5. ASSUME NEW r \in Requests, NEW job \in Job, BeginRequest(r, job)
      PROVE  Shapes' /\ UNCHANGED contract
  <2>1. job \in JobsOf(r)
    BY <1>5 DEF BeginRequest, JobsOf
  <2>2. TasksOK'
    BY <1>5, <2>1, TaskTaken DEF BeginRequest, Shapes, Workers, Stored
  <2> QED
    BY <1>5, <2>2 DEF BeginRequest, Shapes, StoreOK, LogOK
<1>6. ASSUME NEW w \in Workers, ReadShare(w) PROVE Shapes' /\ UNCHANGED contract
  <2>1. StoreOK' /\ TasksOK'
    BY <1>6, ReadTypes DEF Shapes
  <2> QED
    BY <1>6, <2>1 DEF ReadShare, Shapes, LogOK
<1>7. ASSUME NEW w \in Workers, CreateShare(w) PROVE Shapes' /\ UNCHANGED contract
  <2>1. StoreOK' /\ TasksOK'
    BY <1>7, CreateTypes DEF Shapes
  <2> QED
    BY <1>7, <2>1 DEF CreateShare, Shapes, LogOK
<1>8. ASSUME NEW w \in Workers, DuplicateShare(w) \/ TaskFails(w)
      PROVE  Shapes' /\ UNCHANGED contract
  BY <1>8, GiveUpTypes DEF DuplicateShare, TaskFails, GiveUp
<1>9. ASSUME NEW w \in Workers, WriteShare(w) PROVE Shapes' /\ UNCHANGED contract
  <2>1. StoreOK' /\ TasksOK'
    BY <1>9, WriteTypes DEF Shapes
  <2> QED
    BY <1>9, <2>1 DEF WriteShare, Shapes, LogOK
<1>10. ASSUME NEW u \in Users, Expire(u) PROVE Shapes' /\ UNCHANGED contract
  <2>1. share[u] \in Amounts
    BY <1>10, StoredShare DEF Expire, NoShare, Shapes
  <2>2. PICK s \in Amounts : share' = [share EXCEPT ![u] = s]
    BY <1>10, <2>1 DEF Expire, Amounts
  <2>3. StoreOK' /\ Stored' = Stored
    BY <2>1, <2>2, Saved, StoredShare DEF Shapes
  <2> QED
    BY <1>10, <2>3 DEF Expire, Shapes, TasksOK, LogOK
<1>11. ASSUME Crash PROVE Shapes' /\ UNCHANGED contract
  <2>1. TasksOK'
    BY <1>11 DEF Crash, TasksOK, WorkOK
  <2>2. strayed' \in SUBSET Users
    BY <1>11, UnbookedAre DEF Crash, Shapes
  <2> QED
    BY <1>11, <2>1, <2>2 DEF Crash, Shapes, StoreOK, LogOK
<1>12. CASE UNCHANGED vars
  BY <1>12 DEF vars, Shapes, ContractOK, Conserved, StoreOK, LogOK, TasksOK, Stored
<1> QED
  BY <1>1, <1>2, <1>3, <1>4, <1>5, <1>6, <1>7, <1>8, <1>9, <1>10, <1>11, <1>12
     DEF Next, Work

LEMMA ShapesHold == Spec => [](Shapes /\ ContractOK)
<1>1. Init => Shapes /\ ContractOK
  BY ShapesInit, ContractInit
<1>2. Shapes /\ ContractOK /\ [Next]_vars => (Shapes /\ ContractOK)'
  BY ShapesStep
<1> QED
  BY <1>1, <1>2, PTL DEF Spec

LEMMA ShapesType == Shapes /\ ContractOK => TypeOK
<1> SUFFICES ASSUME Shapes, ContractOK PROVE TypeOK
  OBVIOUS
<1>1. unsold \in 0 .. Supply /\ balance \in [Users -> 0 .. Supply]
  BY ContractTypes
<1>2. \A w \in Workers : task[w].pc \in {"idle", "read", "create", "write"}
  BY Phases DEF Shapes, TasksOK, WorkOK, LookingUp
<1> QED
  BY <1>1, <1>2 DEF Shapes, LogOK, StoreOK, Amounts, TypeOK

\* Types: no amount that the event handlers or the fill requests book is negative,
\* whatever they read before others wrote it, and no document of a share is
\* written before it is created.
THEOREM ShareTypes == Spec => []TypeOK
BY ShapesHold, ShapesType, PTL

-----------------------------------------------------------------------------
(* What is booked follows the contract, when one tick handles the events. *)

OneTick == \A t, u \in Ticks : t = u

\* What an event does to a user's shares.
Delta(e, u) ==
  IF u = e.maker THEN (IF e.orderType = "BuyLimit" THEN e.shares ELSE - e.shares)
  ELSE IF u = e.taker THEN (IF e.orderType = "BuyLimit" THEN - e.shares ELSE e.shares)
  ELSE 0

\* What is booked for u once the event in the hands of a tick is.
Due(u) ==
  EventAmount(u) +
    IF \E t \in Ticks : u \in Unbooked(t)
    THEN Delta(task[CHOOSE t \in Ticks : u \in Unbooked(t)].job, u)
    ELSE 0

\* From what is booked for u, the events not taken yet lead to what u holds.
Follows(f, u) == \A i \in 1 .. Len(log) : f[i + 1] = f[i] + Delta(log[i], u)

Flat(f, u) ==
  \A i, j \in 1 .. Len(log) + 1 :
    i <= j /\ (\A k \in i .. j - 1 : u \notin ToSet(Parties(log[k]))) => f[i] = f[j]

Leads(f, u) ==
  /\ f \in [1 .. Len(log) + 1 -> Nat]
  /\ f[1] = Due(u) /\ f[Len(log) + 1] = balance[u]
  /\ Follows(f, u) /\ Flat(f, u)

Trail(u) == \E f \in [1 .. Len(log) + 1 -> Nat] : Leads(f, u)

\* What a tick read still holds ...
ReadHolds(t) ==
  task[t].pc \in LookingUp =>
    \A s : task[t].got = <<s>> => s.eventAmount = EventAmount(task[t].job.maker)

\* ... and what it writes is what the event makes of it.
WritesDelta(t) ==
  task[t].pc = "write" =>
    \A i \in DOMAIN task[t].writes :
      LET a == task[t].writes[i] IN
        a.user \notin strayed => a.amount = EventAmount(a.user) + Delta(task[t].job, a.user)

TicksOK == \A t \in Ticks : ReadHolds(t) /\ WritesDelta(t)

Trails == \A u \in Users \ strayed : Trail(u)

MirrorInv == Shapes /\ ContractOK /\ TicksOK /\ Trails

-----------------------------------------------------------------------------
LEMMA DeltaOfOther ==
  ASSUME NEW e \in Job, IsEvent(e), NEW u
  PROVE  /\ Delta(e, u) \in Int
         /\ ToSet(Parties(e)) = {e.maker, e.taker}
         /\ u \notin {e.maker, e.taker} => Delta(e, u) = 0
<1>1. e.shares \in Int
  BY ShareAssumption DEF Job
<1>2. ToSet(Parties(e)) = {e.maker, e.taker}
  BY DEF IsEvent, ToSet, Parties
<1> QED
  BY <1>1, <1>2 DEF Delta

LEMMA DueWhenSettled ==
  ASSUME NEW u
  PROVE  /\ (\A t \in Ticks : u \notin Unbooked(t)) =>
               Due(u) = EventAmount(u) + 0
         /\ OneTick => \A t \in Ticks : u \in Unbooked(t) =>
               Due(u) = EventAmount(u) + Delta(task[t].job, u)
<1>1. (\A t \in Ticks : u \notin Unbooked(t)) => Due(u) = EventAmount(u) + 0
  BY DEF Due
<1>2. ASSUME OneTick, NEW t \in Ticks, u \in Unbooked(t)
      PROVE  Due(u) = EventAmount(u) + Delta(task[t].job, u)
  <2>1. (CHOOSE v \in Ticks : u \in Unbooked(v)) = t
    BY <1>2, Zenon DEF OneTick
  <2> QED
    BY <1>2, <2>1, Zenon DEF Due
<1> QED
  BY <1>1, <1>2

LEMMA SettledHoldsBalance ==
  ASSUME Shapes, NEW u \in Users, Trail(u), Settled(u)
  PROVE  EventAmount(u) = balance[u]
<1>1. PICK f : Leads(f, u)
  BY DEF Trail
<1>2. f[1] = EventAmount(u) /\ f[Len(log) + 1] = balance[u]
  <2>1. Due(u) = EventAmount(u) + 0
    BY DueWhenSettled DEF Settled
  <2>2. EventAmount(u) \in Nat
    BY StoredShare DEF EventAmount, Amounts, Shapes
  <2> QED
    BY <1>1, <2>1, <2>2 DEF Leads
<1>3. Len(log) \in Nat /\ DOMAIN log = 1 .. Len(log)
  BY DEF LogOK, Shapes
<1>4. \A k \in 1 .. Len(log) + 1 - 1 : u \notin ToSet(Parties(log[k]))
  BY <1>3 DEF Settled
<1>5. f[1] = f[Len(log) + 1]
  BY <1>1, <1>3, <1>4 DEF Leads, Flat
<1> QED
  BY <1>2, <1>5

LEMMA TrailKept ==
  ASSUME NEW u \in Users, Trail(u), log' = log, balance'[u] = balance[u],
         Due(u)' = Due(u)
  PROVE  Trail(u)'
<1>1. PICK f \in [1 .. Len(log) + 1 -> Nat] : Leads(f, u)
  BY DEF Trail
<1>2. Leads(f, u)'
  BY <1>1 DEF Leads, Follows, Flat
<1> QED
  BY <1>2 DEF Trail, Leads

LEMMA TrailLogged ==
  ASSUME LogOK, NEW u \in Users, Trail(u), NEW e \in Job, IsEvent(e), log' = Append(log, e),
         balance'[u] \in Nat, balance'[u] = balance[u] + Delta(e, u),
         Due(u)' = Due(u)
  PROVE  Trail(u)'
<1> DEFINE L == Len(log)
<1>1. PICK f \in [1 .. L + 1 -> Nat] : Leads(f, u)
  BY DEF Trail
<1>2. /\ L \in Nat /\ Len(log') = L + 1 /\ log'[L + 1] = e
      /\ \A i \in 1 .. L : log'[i] = log[i]
  BY Logged DEF LogOK
<1> HIDE DEF L
<1>3. PICK g \in [1 .. L + 2 -> Nat] : /\ g[L + 2] = balance'[u]
                                       /\ \A i \in 1 .. L + 1 : g[i] = f[i]
  <2> DEFINE h == [i \in 1 .. L + 2 |-> IF i = L + 2 THEN balance'[u] ELSE f[i]]
  <2>1. /\ h \in [1 .. L + 2 -> Nat] /\ h[L + 2] = balance'[u]
        /\ \A i \in 1 .. L + 1 : h[i] = f[i]
    BY <1>1, <1>2
  <2> HIDE DEF h
  <2> QED
    BY <2>1
<1>4. /\ f[1] = Due(u) /\ f[L + 1] = balance[u]
      /\ \A i \in 1 .. L : f[i + 1] = f[i] + Delta(log[i], u)
  BY <1>1 DEF Leads, L, Follows
<1>5. \A i, j \in 1 .. L + 1 :
        i <= j /\ (\A k \in i .. j - 1 : u \notin ToSet(Parties(log[k]))) => f[i] = f[j]
  BY <1>1 DEF Leads, L, Flat
<1>6. g[1] = Due(u)'
  BY <1>2, <1>3, <1>4
<1>7. \A i \in 1 .. L + 1 : g[i + 1] = g[i] + Delta(log'[i], u)
  <2>1. TAKE i \in 1 .. L + 1
  <2>2. CASE i = L + 1
    BY <1>2, <1>3, <1>4, <2>2
  <2>3. CASE i \in 1 .. L
    BY <1>2, <1>3, <1>4, <2>3
  <2> QED
    BY <1>2, <2>2, <2>3
<1>8. ASSUME NEW i \in 1 .. L + 2, NEW j \in 1 .. L + 2, i <= j,
             \A k \in i .. j - 1 : u \notin ToSet(Parties(log'[k]))
      PROVE  g[i] = g[j]
  <2>1. CASE j \in 1 .. L + 1
    <3>1. i \in 1 .. L + 1 /\ \A k \in i .. j - 1 : u \notin ToSet(Parties(log[k]))
      BY <1>2, <1>8, <2>1
    <3> QED
      BY <1>3, <1>5, <1>8, <2>1, <3>1
  <2>2. CASE j = L + 2 /\ i # L + 2
    <3>1. i \in 1 .. L + 1 /\ \A k \in i .. L : u \notin ToSet(Parties(log[k]))
      BY <1>2, <1>8, <2>2
    <3>2. f[i] = f[L + 1]
      BY <1>2, <1>5, <3>1
    <3>3. u \notin ToSet(Parties(e))
      BY <1>2, <1>8, <2>2
    <3>4. Delta(e, u) = 0
      BY <3>3, DeltaOfOther
    <3>5. f[L + 1] = balance'[u]
      <4>1. f[L + 1] \in Nat
        BY <1>1, <1>2
      <4> QED
        BY <1>4, <3>4, <4>1
    <3> QED
      BY <1>3, <2>2, <3>1, <3>2, <3>5
  <2> QED
    BY <1>2, <2>1, <2>2
<1>9. Leads(g, u)'
  <2>1. Follows(g, u)'
    BY <1>2, <1>7 DEF Follows
  <2>2. Flat(g, u)'
    <3>1. Len(log') + 1 = L + 2
      BY <1>2
    <3> SUFFICES ASSUME NEW i \in 1 .. Len(log') + 1, NEW j \in 1 .. Len(log') + 1,
                        i <= j, \A k \in i .. j - 1 : u \notin ToSet(Parties(log'[k]))
                 PROVE  g[i] = g[j]
      BY DEF Flat
    <3>2. i \in 1 .. L + 2 /\ j \in 1 .. L + 2
      BY <3>1
    <3> QED
      BY <1>8, <3>2
  <2> QED
    BY <1>2, <1>3, <1>6, <2>1, <2>2 DEF Leads
<1> QED
  BY <1>9 DEF Trail, Leads

LEMMA TrailTaken ==
  ASSUME LogOK, NEW u \in Users, Trail(u), log # <<>>, log' = Tail(log), balance' = balance,
         Due(u)' = Due(u) + Delta(Head(log), u)
  PROVE  Trail(u)'
<1> DEFINE L == Len(log)
<1>1. PICK f \in [1 .. L + 1 -> Nat] : Leads(f, u)
  BY DEF Trail
<1>2. /\ L \in Nat \ {0} /\ Len(log') = L - 1 /\ Head(log) = log[1]
      /\ \A i \in 1 .. L - 1 : log'[i] = log[i + 1]
  BY Taken
<1> HIDE DEF L
<1>3. PICK g \in [1 .. L -> Nat] : \A i \in 1 .. L : g[i] = f[i + 1]
  <2> DEFINE h == [i \in 1 .. L |-> f[i + 1]]
  <2>1. h \in [1 .. L -> Nat] /\ \A i \in 1 .. L : h[i] = f[i + 1]
    BY <1>1, <1>2
  <2> HIDE DEF h
  <2> QED
    BY <2>1
<1>4. /\ f[1] = Due(u) /\ f[L + 1] = balance[u]
      /\ \A i \in 1 .. L : f[i + 1] = f[i] + Delta(log[i], u)
  BY <1>1 DEF Leads, L, Follows
<1>5. \A i, j \in 1 .. L + 1 :
        i <= j /\ (\A k \in i .. j - 1 : u \notin ToSet(Parties(log[k]))) => f[i] = f[j]
  BY <1>1 DEF Leads, L, Flat
<1>6. g[1] = Due(u)'
  BY <1>2, <1>3, <1>4
<1>7. g[L] = balance'[u]
  BY <1>2, <1>3, <1>4
<1>8. \A i \in 1 .. L - 1 : g[i + 1] = g[i] + Delta(log'[i], u)
  BY <1>2, <1>3, <1>4
<1>9. ASSUME NEW i \in 1 .. L, NEW j \in 1 .. L, i <= j,
             \A k \in i .. j - 1 : u \notin ToSet(Parties(log'[k]))
      PROVE  g[i] = g[j]
  <2>1. i + 1 \in 1 .. L + 1 /\ j + 1 \in 1 .. L + 1 /\ i + 1 <= j + 1
    BY <1>2, <1>9
  <2>2. \A k \in i + 1 .. (j + 1) - 1 : u \notin ToSet(Parties(log[k]))
    <3>1. TAKE k \in i + 1 .. (j + 1) - 1
    <3>2. k - 1 \in i .. j - 1 /\ k - 1 \in 1 .. L - 1 /\ (k - 1) + 1 = k
      BY <1>2, <3>1
    <3> QED
      BY <1>2, <1>9, <3>2
  <2>3. f[i + 1] = f[j + 1]
    BY <1>5, <2>1, <2>2
  <2> QED
    BY <1>3, <2>3
<1>10. Leads(g, u)'
  <2>1. Follows(g, u)'
    BY <1>2, <1>8 DEF Follows
  <2>2. Flat(g, u)'
    <3>1. Len(log') + 1 = L
      BY <1>2
    <3> SUFFICES ASSUME NEW i \in 1 .. Len(log') + 1, NEW j \in 1 .. Len(log') + 1,
                        i <= j, \A k \in i .. j - 1 : u \notin ToSet(Parties(log'[k]))
                 PROVE  g[i] = g[j]
      BY DEF Flat
    <3>2. i \in 1 .. L /\ j \in 1 .. L
      BY <3>1
    <3> QED
      BY <1>9, <3>2
  <2> QED
    BY <1>2, <1>3, <1>6, <1>7, <2>1, <2>2 DEF Leads
<1> QED
  BY <1>10 DEF Trail, Leads

-----------------------------------------------------------------------------
LEMMA AmountsKept ==
  ASSUME StoreOK, NEW u \in Users, NEW s \in Amounts, share' = [share EXCEPT ![u] = s]
  PROVE  /\ EventAmount(u)' = s.eventAmount
         /\ \A v \in Users \ {u} : EventAmount(v)' = EventAmount(v)
<1>1. /\ Stored' = Stored \cup {u} /\ share'[u] = s
      /\ \A v \in Users \ {u} : share'[v] = share[v]
  BY Saved
<1> QED
  BY <1>1 DEF EventAmount

LEMMA AmountNat ==
  ASSUME StoreOK, NEW u \in Users
  PROVE  EventAmount(u) \in Nat
BY StoredShare DEF EventAmount, Amounts

LEMMA DueWithTick ==
  ASSUME OneTick, NEW t \in Ticks, NEW u
  PROVE  /\ u \in Unbooked(t) => Due(u) = EventAmount(u) + Delta(task[t].job, u)
         /\ u \notin Unbooked(t) => Due(u) = EventAmount(u) + 0
         /\ u \in Unbooked(t)' => Due(u)' = EventAmount(u)' + Delta(task'[t].job, u)
         /\ u \notin Unbooked(t)' => Due(u)' = EventAmount(u)' + 0
<1>1. \A v \in Ticks : v = t
  BY DEF OneTick
<1>2. u \in Unbooked(t) => Due(u) = EventAmount(u) + Delta(task[t].job, u)
  BY DueWhenSettled
<1>3. u \notin Unbooked(t) => Due(u) = EventAmount(u) + 0
  BY <1>1, DueWhenSettled
<1>4. ASSUME u \in Unbooked(t)' PROVE Due(u)' = EventAmount(u)' + Delta(task'[t].job, u)
  <2>1. (CHOOSE v \in Ticks : u \in Unbooked(v)') = t
    BY <1>1, <1>4, Zenon
  <2> QED
    BY <1>4, <2>1, Zenon DEF Due
<1>5. ASSUME u \notin Unbooked(t)' PROVE Due(u)' = EventAmount(u)' + 0
  BY <1>1, <1>5 DEF Due
<1> QED
  BY <1>2, <1>3, <1>4, <1>5

LEMMA UnbookedNext ==
  ASSUME NEW t \in Ticks
  PROVE  /\ task'[t] = Idle => Unbooked(t)' = {}
         /\ \A pc \in LookingUp : \A j, todo, got :
              task'[t] = At(pc, j, todo, got, <<>>) => Unbooked(t)' = ToSet(Parties(j))
         /\ \A j, a : task'[t] = At("write", j, <<>>, <<>>, <<a>>) => Unbooked(t)' = {a.user}
         /\ \A j, a, b : task'[t] = At("write", j, <<>>, <<>>, <<a, b>>) =>
                           Unbooked(t)' = {a.user, b.user}
<1>1. t \notin Requests
  BY ShareAssumption
<1>2. task'[t] = Idle => Unbooked(t)' = {}
  BY DEF Unbooked, Idle, At
<1>3. ASSUME NEW pc \in LookingUp, NEW j, NEW todo, NEW got, task'[t] = At(pc, j, todo, got, <<>>)
      PROVE  Unbooked(t)' = ToSet(Parties(j))
  BY <1>1, <1>3 DEF Unbooked, At, LookingUp
<1>4. ASSUME NEW j, NEW a, task'[t] = At("write", j, <<>>, <<>>, <<a>>)
      PROVE  Unbooked(t)' = {a.user}
  <2>1. task'[t].pc = "write" /\ task'[t].writes = <<a>>
    BY <1>4 DEF At
  <2> QED
    BY <1>1, <2>1 DEF Unbooked
<1>5. ASSUME NEW j, NEW a, NEW b, task'[t] = At("write", j, <<>>, <<>>, <<a, b>>)
      PROVE  Unbooked(t)' = {a.user, b.user}
  <2>1. task'[t].pc = "write" /\ task'[t].writes = <<a, b>>
    BY <1>5 DEF At
  <2> QED
    BY <1>1, <2>1 DEF Unbooked
<1> QED
  BY <1>2, <1>3, <1>4, <1>5

LEMMA TrailDue ==
  ASSUME NEW u, Trail(u)
  PROVE  Due(u) \in Nat
<1>1. PICK f : Leads(f, u)
  BY DEF Trail
<1>2. f \in [1 .. Len(log) + 1 -> Nat] /\ f[1] = Due(u)
  BY <1>1 DEF Leads
<1>3. Len(log) \in Nat => f[1] \in Nat
  BY <1>2
<1> QED
  BY <1>2, <1>3

\* Whom the updates left to a tick are for.
LEMMA WritesForUsers ==
  ASSUME TasksOK, NEW t \in Workers, task[t].pc = "write", NEW i \in DOMAIN task[t].writes
  PROVE  task[t].writes[i].user \in Users
<1>1. AtWrites(task[t], Stored) \/ AtWrite(task[t], Stored)
  BY Phases DEF TasksOK, WorkOK, LookingUp
<1>2. CASE AtWrites(task[t], Stored)
  BY <1>2 DEF AtWrites, Writes
<1>3. CASE AtWrite(task[t], Stored)
  BY <1>3 DEF AtWrite, Writes
<1> QED
  BY <1>1, <1>2, <1>3

\* A step that concerns no tick.
LEMMA Undisturbed ==
  ASSUME TasksOK, TicksOK, \A t \in Ticks : task'[t] = task[t],
         \A u \in Users : EventAmount(u)' = EventAmount(u), strayed \subseteq strayed'
  PROVE  TicksOK' /\ \A u \in Users : Due(u)' = Due(u)
<1>1. ASSUME NEW t \in Ticks PROVE ReadHolds(t)' /\ WritesDelta(t)'
  <2>1. task[t].pc \in LookingUp => task[t].job.maker \in Users
    BY LooksUp, Jobs DEF Workers
  <2>2. ReadHolds(t)'
    BY <2>1 DEF TicksOK, ReadHolds
  <2>3. WritesDelta(t)'
    BY WritesForUsers DEF Workers, TicksOK, WritesDelta
  <2> QED
    BY <2>2, <2>3
<1>2. \A t \in Ticks : Unbooked(t)' = Unbooked(t)
  BY DEF Unbooked
<1>3. ASSUME NEW u \in Users PROVE Due(u)' = Due(u)
  <2>1. CASE \E t \in Ticks : u \in Unbooked(t)
    <3> DEFINE c == CHOOSE t \in Ticks : u \in Unbooked(t)
    <3>1. c \in Ticks
      BY <2>1
    <3>2. (CHOOSE t \in Ticks : u \in Unbooked(t)') = c
      BY <1>2
    <3> HIDE DEF c
    <3>3. Due(u) = EventAmount(u) + Delta(task[c].job, u)
      BY <2>1, Zenon DEF Due, c
    <3>4. Due(u)' = EventAmount(u)' + Delta(task'[c].job, u)
      BY <1>2, <2>1, <3>2, Zenon DEF Due
    <3> QED
      BY <3>1, <3>3, <3>4
  <2>2. CASE ~ \E t \in Ticks : u \in Unbooked(t)
    BY <1>2, <2>2 DEF Due
  <2> QED
    BY <2>1, <2>2
<1> QED
  BY <1>1, <1>3 DEF TicksOK

\* The tick has got a share that says what is booked for its user.
LEMMA TickGot ==
  ASSUME OneTick, Shapes, TicksOK, Trails, NEW t \in Ticks, task[t].pc \in LookingUp,
         NEW s \in Amounts, s.eventAmount = EventAmount(Head(task[t].todo)), Got(t, s),
         \A u \in Users : EventAmount(u)' = EventAmount(u), strayed' = strayed
  PROVE  TicksOK' /\ \A u \in Users : Due(u)' = Due(u)
<1> DEFINE k == task[t]
           j == task[t].job
           n == task'[t]
<1>1. /\ TasksOK /\ t \in Workers /\ t \notin Requests /\ j \in JobsOf(t)
      /\ \A u \in Ticks : u = t
  BY LooksUp, ShareAssumption DEF Shapes, Workers, OneTick
<1>2. /\ j.maker \in Users /\ j.taker \in Users /\ j.shares \in Nat
      /\ j.kind \in {"BuyShares", "OrderFilled"} /\ j.orderType \in {"BuyLimit", "SellLimit"}
      /\ j.kind = "OrderFilled" => j.maker # j.taker
      /\ j.kind = "BuyShares" => j.maker = j.taker /\ j.orderType = "BuyLimit"
  BY <1>1, Jobs, ShareAssumption
<1>3. Unbooked(t) = {j.maker, j.taker}
  BY <1>1, UnbookedAre
<1>4. \A u \in {j.maker, j.taker} : EventAmount(u)' = EventAmount(u) /\ EventAmount(u) \in Nat
  BY <1>2, AmountNat DEF Shapes
<1>5. ASSUME Unbooked(t)' = {j.maker, j.taker}, n.job = j, NEW u \in Users
      PROVE  Due(u)' = Due(u)
  BY <1>1, <1>3, <1>5, DueWithTick
<1>6. ASSUME NEW u \in {j.maker, j.taker}, u \notin strayed
      PROVE  EventAmount(u) + Delta(j, u) \in Nat
  <2>1. Due(u) = EventAmount(u) + Delta(j, u)
    BY <1>3, <1>6, DueWithTick
  <2>2. Due(u) \in Nat
    BY <1>2, <1>6, TrailDue DEF Trails
  <2> QED
    BY <2>1, <2>2
<1>7. CASE AtFirst(k) /\ j.kind = "BuyShares"
  <2>1. PICK a \in Writes : /\ n = At("write", j, <<>>, <<>>, <<a>>)
                            /\ a.user = j.taker
                            /\ a.amount = s.eventAmount + j.shares
    BY <1>1, <1>7, GotStep DEF AtSecond
  <2>2. n.job = j /\ n.pc = "write" /\ n.writes = <<a>>
    BY <2>1 DEF At
  <2>3. Unbooked(t)' = {j.maker, j.taker}
    BY <1>2, <1>7, <2>1, UnbookedNext
  <2>4. a.amount = EventAmount(a.user)' + Delta(j, a.user)
    BY <1>1, <1>2, <1>4, <1>7, <2>1, NextUser DEF Delta
  <2>5. ReadHolds(t)' /\ WritesDelta(t)'
    BY <2>2, <2>4 DEF ReadHolds, WritesDelta, LookingUp
  <2> QED
    BY <1>1, <1>5, <2>2, <2>3, <2>5 DEF TicksOK
<1>8. CASE /\ AtFirst(k) /\ j.kind # "BuyShares"
           /\ n = At("read", j, <<j.taker>>, <<s>>, <<>>)
  <2>1. n.job = j /\ n.pc = "read" /\ n.got = <<s>>
    BY <1>8 DEF At
  <2>2. Unbooked(t)' = {j.maker, j.taker}
    BY <1>1, <1>8, UnbookedNext, PartiesAre DEF LookingUp
  <2>3. \A u : u = j.maker => s.eventAmount = EventAmount(u)'
    BY <1>1, <1>4, <1>8, NextUser
  <2>4. ReadHolds(t)' /\ WritesDelta(t)'
    BY <2>1, <2>3 DEF ReadHolds, WritesDelta
  <2> QED
    BY <1>1, <1>5, <2>1, <2>2, <2>4 DEF TicksOK
<1>9. CASE AtSecond(k, Stored) /\ \E r \in Amounts, a, b \in Writes :
                                    /\ k.got = <<r>>
                                    /\ n = At("write", j, <<>>, <<>>, <<a, b>>)
                                    /\ NewPair(a, b, j, r, s)
  <2>1. PICK r \in Amounts, a \in Writes, b \in Writes :
          k.got = <<r>> /\ n = At("write", j, <<>>, <<>>, <<a, b>>) /\ NewPair(a, b, j, r, s)
    BY <1>9
  <2>2. n.job = j /\ n.pc = "write" /\ n.writes = <<a, b>>
    BY <2>1 DEF At
  <2>3. j.kind = "OrderFilled" /\ j.maker # j.taker
    BY <1>2, <1>9 DEF AtSecond
  <2>4. ~ AtFirst(k)
    <3>1. k.todo = <<j.taker>> /\ (AtFirst(k) => k.todo = <<j.maker, j.taker>>)
      BY <1>9 DEF AtSecond, AtFirst, Parties
    <3> QED
      BY <3>1
  <2>5. s.eventAmount = EventAmount(j.taker) /\ r.eventAmount = EventAmount(j.maker)
    BY <1>1, <2>1, <2>4, NextUser DEF TicksOK, ReadHolds
  <2>6. /\ a.user = j.maker /\ b.user = j.taker
        /\ a.amount = GetNewShareFromEvent(j, r.eventAmount, s.eventAmount).maker
        /\ b.amount = GetNewShareFromEvent(j, r.eventAmount, s.eventAmount).taker
    BY <2>1, <2>3 DEF NewPair
  <2>7. Unbooked(t)' = {j.maker, j.taker}
    BY <2>1, <2>6, UnbookedNext
  <2>8. a.user \notin strayed => a.amount = EventAmount(a.user)' + Delta(j, a.user)
    BY <1>2, <1>4, <1>6, <2>3, <2>5, <2>6 DEF Delta, GetNewShareFromEvent, AddShare, SubShare
  <2>9. b.user \notin strayed => b.amount = EventAmount(b.user)' + Delta(j, b.user)
    BY <1>2, <1>4, <1>6, <2>3, <2>5, <2>6 DEF Delta, GetNewShareFromEvent, AddShare, SubShare
  <2>10. ReadHolds(t)' /\ WritesDelta(t)'
    BY <2>2, <2>8, <2>9 DEF ReadHolds, WritesDelta, LookingUp
  <2> QED
    BY <1>1, <1>5, <2>2, <2>7, <2>10 DEF TicksOK
<1> QED
  BY <1>1, <1>7, <1>8, <1>9, GotStep

\* The tick has found that a share is to be created.
LEMMA TickAbsent ==
  ASSUME OneTick, Shapes, TicksOK, NEW t \in Ticks, task[t].pc \in LookingUp,
         task'[t] = At("create", task[t].job, task[t].todo, task[t].got, <<>>),
         \A u \in Users : EventAmount(u)' = EventAmount(u)
  PROVE  TicksOK' /\ \A u \in Users : Due(u)' = Due(u)
<1> DEFINE j == task[t].job
<1>1. /\ TasksOK /\ t \in Workers /\ t \notin Requests /\ j \in JobsOf(t)
      /\ \A u \in Ticks : u = t
  BY LooksUp, ShareAssumption DEF Shapes, Workers, OneTick
<1>2. Unbooked(t)' = ToSet(Parties(j)) /\ Unbooked(t) = {j.maker, j.taker}
  BY <1>1, UnbookedNext, UnbookedAre DEF LookingUp
<1>3. Unbooked(t)' = Unbooked(t) /\ j.maker \in Users
  BY <1>1, <1>2, PartiesAre, Jobs
<1>4. task'[t].job = j /\ task'[t].got = task[t].got /\ task'[t].pc = "create"
  BY DEF At
<1>5. ReadHolds(t)' /\ WritesDelta(t)'
  BY <1>3, <1>4 DEF TicksOK, ReadHolds, WritesDelta
<1>6. \A u \in Users : Due(u)' = Due(u)
  BY <1>3, <1>4, DueWithTick
<1> QED
  BY <1>1, <1>5, <1>6 DEF TicksOK

\* The tick gives up, is stopped, or has nothing to do.
LEMMA TickStops ==
  ASSUME OneTick, TicksOK, NEW t \in Ticks, task'[t] = Idle,
         \A u \in Users : EventAmount(u)' = EventAmount(u)
  PROVE  TicksOK' /\ \A u \in Users \ Unbooked(t) : Due(u)' = Due(u)
<1>1. \A u \in Ticks : u = t
  BY DEF OneTick
<1>2. Unbooked(t)' = {} /\ task'[t].pc = "idle"
  BY UnbookedNext DEF Idle, At
<1>3. ReadHolds(t)' /\ WritesDelta(t)'
  BY <1>2 DEF ReadHolds, WritesDelta, LookingUp
<1>4. \A u \in Users \ Unbooked(t) : Due(u)' = Due(u)
  BY <1>2, DueWithTick
<1> QED
  BY <1>1, <1>3, <1>4 DEF TicksOK

\* The tick books its event for a user.
LEMMA TickWrites ==
  ASSUME OneTick, Shapes, TicksOK, NEW t \in Ticks, WriteShare(t), strayed' = strayed
  PROVE  TicksOK' /\ \A u \in Users \ strayed : Due(u)' = Due(u)
<1> DEFINE k == task[t]
           j == task[t].job
<1>1. /\ StoreOK /\ TasksOK /\ t \in Workers /\ t \notin Requests
      /\ \A u \in Ticks : u = t
  BY ShareAssumption DEF Shapes, Workers, OneTick
<1>2. PICK a \in Writes : WritesNow(t, a)
  BY <1>1, WriteStep
<1>3. a.user \in Users /\ j.kind # "handle" /\ a.side # "handle"
  BY <1>1, <1>2, Jobs DEF WriteOK, Writes, WritesNow
<1>4. Updated(share[a.user], a).eventAmount = a.amount
  <2>1. share[a.user] \in Amounts
    BY <1>1, <1>2, <1>3, StoredShare DEF WriteOK, WritesNow
  <2> QED
    BY <1>3, <2>1 DEF Updated, Amounts, Writes
<1>5. /\ EventAmount(a.user)' = a.amount /\ a.amount \in Nat
      /\ \A v \in Users \ {a.user} : EventAmount(v)' = EventAmount(v)
  BY <1>1, <1>2, <1>3, <1>4, AmountsKept DEF Writes, WritesNow
<1>6. a.user \notin strayed => a.amount = EventAmount(a.user) + Delta(j, a.user)
  <2>1. k.pc = "write" /\ (k.writes = <<a>> \/ \E b \in Writes : k.writes = <<a, b>>)
    BY <1>2, Zenon DEF WritesNow
  <2>2. 1 \in DOMAIN k.writes /\ k.writes[1] = a
    BY <2>1
  <2> QED
    BY <2>1, <2>2 DEF TicksOK, WritesDelta
<1>7. CASE k.writes = <<a>> /\ task' = [task EXCEPT ![t] = Idle]
  <2>1. task'[t] = Idle
    BY <1>1, <1>7 DEF TasksOK
  <2>2. Unbooked(t)' = {} /\ task'[t].pc = "idle" /\ Unbooked(t) = {a.user}
    BY <1>1, <1>2, <1>7, <2>1, UnbookedNext, UnbookedAre DEF Idle, At, WritesNow
  <2>3. ReadHolds(t)' /\ WritesDelta(t)'
    BY <2>2 DEF ReadHolds, WritesDelta, LookingUp
  <2>4. ASSUME NEW u \in Users, u \notin strayed PROVE Due(u)' = Due(u)
    <3>1. CASE u = a.user
      <4>1. Due(u) = EventAmount(u) + Delta(j, u) /\ Due(u)' = EventAmount(u)' + 0
        BY <2>2, <3>1, DueWithTick
      <4> QED
        BY <1>5, <1>6, <2>4, <3>1, <4>1
    <3>2. CASE u # a.user
      BY <1>5, <2>2, <3>2, DueWithTick
    <3> QED
      BY <3>1, <3>2
  <2> QED
    BY <1>1, <2>3, <2>4 DEF TicksOK
<1>8. ASSUME NEW b \in Writes, k.writes = <<a, b>>, WriteOK(b, j, Stored), a.user # b.user,
             task' = [task EXCEPT ![t] = At("write", j, <<>>, <<>>, <<b>>)]
      PROVE  TicksOK' /\ \A u \in Users \ strayed : Due(u)' = Due(u)
  <2>1. task'[t] = At("write", j, <<>>, <<>>, <<b>>)
    BY <1>1, <1>8 DEF TasksOK
  <2>2. /\ Unbooked(t)' = {b.user} /\ Unbooked(t) = {a.user, b.user}
        /\ task'[t].pc = "write" /\ task'[t].writes = <<b>> /\ task'[t].job = j
    BY <1>1, <1>2, <1>8, <2>1, UnbookedNext, UnbookedAre DEF At, WritesNow
  <2>3. b.user \in Users
    BY DEF Writes
  <2>4. b.user \notin strayed => b.amount = EventAmount(b.user) + Delta(j, b.user)
    <3>1. 2 \in DOMAIN k.writes /\ k.writes[2] = b
      BY <1>8
    <3> QED
      BY <1>2, <3>1 DEF TicksOK, WritesDelta, WritesNow
  <2>5. EventAmount(b.user)' = EventAmount(b.user)
    BY <1>5, <1>8, <2>3
  <2>6. ReadHolds(t)' /\ WritesDelta(t)'
    BY <2>2, <2>4, <2>5 DEF ReadHolds, WritesDelta, LookingUp
  <2>7. ASSUME NEW u \in Users, u \notin strayed PROVE Due(u)' = Due(u)
    <3>1. CASE u = a.user
      <4>1. Due(u) = EventAmount(u) + Delta(j, u) /\ Due(u)' = EventAmount(u)' + 0
        BY <1>8, <2>2, <3>1, DueWithTick
      <4> QED
        BY <1>5, <1>6, <2>7, <3>1, <4>1
    <3>2. CASE u # a.user
      BY <1>5, <2>2, <3>2, DueWithTick
    <3> QED
      BY <3>1, <3>2
  <2> QED
    BY <1>1, <2>6, <2>7 DEF TicksOK
<1> QED
  BY <1>2, <1>3, <1>7, <1>8 DEF WritesNow

\* The tick takes an event.
LEMMA TickTakes ==
  ASSUME OneTick, Shapes, TicksOK, NEW t \in Ticks, BeginEvent(t)
  PROVE  TicksOK' /\ \A u \in Users : Due(u)' = Due(u) + Delta(Head(log), u)
<1>1. /\ TasksOK /\ t \in Workers /\ t \notin Requests
      /\ \A u \in Ticks : u = t
  BY ShareAssumption DEF Shapes, Workers, OneTick
<1>2. PICK e \in Job : e = Head(log) /\ IsEvent(e)
  BY Taken DEF Shapes, BeginEvent
<1>3. /\ task[t].pc = "idle" /\ task' = [task EXCEPT ![t] = At("read", e, Parties(e), <<>>, <<>>)]
      /\ share' = share
  BY <1>2 DEF BeginEvent
<1>4. Unbooked(t) = {}
  BY <1>3 DEF Unbooked
<1>5. task'[t] = At("read", e, Parties(e), <<>>, <<>>)
  BY <1>1, <1>3 DEF TasksOK
<1>6. /\ Unbooked(t)' = {e.maker, e.taker} /\ task'[t].job = e
      /\ task'[t].pc = "read" /\ task'[t].got = <<>>
  BY <1>2, <1>5, UnbookedNext, DeltaOfOther DEF LookingUp, At
<1>7. ReadHolds(t)' /\ WritesDelta(t)'
  BY <1>6 DEF ReadHolds, WritesDelta
<1>8. ASSUME NEW u \in Users PROVE Due(u)' = Due(u) + Delta(e, u)
  <2>1. EventAmount(u)' = EventAmount(u) /\ EventAmount(u) \in Nat
    BY <1>3, AmountNat DEF EventAmount, Stored, Shapes
  <2>2. Due(u) = EventAmount(u)
    BY <1>4, <2>1, DueWithTick
  <2>3. Delta(e, u) \in Int /\ (u \notin {e.maker, e.taker} => Delta(e, u) = 0)
    BY <1>2, DeltaOfOther
  <2>4. Due(u)' = EventAmount(u)' + Delta(e, u)
    BY <1>6, <2>1, <2>3, DueWithTick
  <2> QED
    BY <2>1, <2>2, <2>4
<1> QED
  BY <1>1, <1>2, <1>7, <1>8 DEF TicksOK

LEMMA TrailsKept ==
  ASSUME Trails, strayed \subseteq strayed', log' = log,
         \A u \in Users \ strayed' : balance'[u] = balance[u] /\ Due(u)' = Due(u)
  PROVE  Trails'
BY TrailKept DEF Trails

\* The contract logs an event that says what it does to the users' shares.
LEMMA TrailsLogged ==
  ASSUME Trails, LogOK, strayed' = strayed, NEW e \in Job, IsEvent(e),
         log' = Append(log, e), balance' \in [Users -> Nat],
         \A u \in Users : balance'[u] = balance[u] + Delta(e, u) /\ Due(u)' = Due(u)
  PROVE  Trails'
<1> SUFFICES ASSUME NEW u \in Users \ strayed PROVE Trail(u)'
  BY DEF Trails
<1> QED
  BY TrailLogged DEF Trails

LEMMA ContractMirrors ==
  ASSUME OneTick, MirrorInv, Contract
  PROVE  TicksOK' /\ Trails'
<1>1. task' = task /\ share' = share /\ strayed \subseteq strayed'
  BY DEF Contract, ChainBuyShares, ChainFill, ChainTransfer
<1>2. TicksOK' /\ \A u \in Users : Due(u)' = Due(u)
  <2>1. \A u \in Users : EventAmount(u)' = EventAmount(u)
    BY <1>1 DEF EventAmount, Stored
  <2> QED
    BY <1>1, <2>1, Undisturbed DEF MirrorInv, Shapes
<1>3. balance \in [Users -> Nat] /\ balance' \in [Users -> Nat]
  <2>1. ContractOK'
    BY ChainKeeps DEF MirrorInv, Shapes
  <2>2. ASSUME ContractOK' PROVE balance' \in [Users -> Nat]
    BY <2>2, FinitePart DEF ContractOK, Conserved
  <2> QED
    BY <2>1, <2>2, ContractTypes DEF MirrorInv
<1>4. ASSUME NEW u \in Users, NEW n \in 1 .. Supply, ChainBuyShares(u, n)
      PROVE  Trails'
  <2> DEFINE e == [kind |-> "BuyShares", maker |-> u, taker |-> u,
                   orderType |-> "BuyLimit", shares |-> n]
  <2>1. /\ e \in Job /\ IsEvent(e) /\ log' = Append(log, e) /\ n \in Nat
        /\ balance' = [balance EXCEPT ![u] = @ + n] /\ strayed' = strayed
    BY <1>4, ShareAssumption DEF ChainBuyShares, Job, IsEvent
  <2>2. \A v \in Users : balance'[v] = balance[v] + Delta(e, v)
    BY <1>3, <2>1 DEF Delta
  <2> HIDE DEF e
  <2> QED
    BY <1>2, <1>3, <2>1, <2>2, TrailsLogged DEF MirrorInv, Shapes
<1>5. ASSUME NEW m \in Users, NEW k \in Users, NEW o \in {"BuyLimit", "SellLimit"},
             NEW n \in 1 .. Supply, ChainFill(m, k, o, n)
      PROVE  Trails'
  <2> DEFINE e == [kind |-> "OrderFilled", maker |-> m, taker |-> k,
                   orderType |-> o, shares |-> n]
             buyer  == IF o = "BuyLimit" THEN m ELSE k
             seller == IF o = "BuyLimit" THEN k ELSE m
  <2>1. /\ e \in Job /\ IsEvent(e) /\ log' = Append(log, e) /\ n \in Nat /\ m # k
        /\ balance' = [balance EXCEPT ![buyer] = @ + n, ![seller] = @ - n]
        /\ strayed' = strayed
    BY <1>5, ShareAssumption DEF ChainFill, Job, IsEvent
  <2>2. /\ balance'[buyer] = balance[buyer] + n /\ balance'[seller] = balance[seller] - n
        /\ \A v \in Users \ {buyer, seller} : balance'[v] = balance[v]
    BY <1>3, <2>1
  <2>3. \A v \in Users : balance'[v] = balance[v] + Delta(e, v)
    BY <1>3, <2>1, <2>2 DEF Delta
  <2> HIDE DEF e
  <2> QED
    BY <1>2, <1>3, <2>1, <2>3, TrailsLogged DEF MirrorInv, Shapes
<1>6. ASSUME NEW u \in Users, NEW v \in Users, ChainTransfer(u, v)
      PROVE  Trails'
  <2>1. log' = log /\ \A w \in Users \ strayed' : balance'[w] = balance[w]
    BY <1>3, <1>6 DEF ChainTransfer
  <2> QED
    BY <1>1, <1>2, <2>1, TrailsKept DEF MirrorInv
<1> QED
  BY <1>2, <1>4, <1>5, <1>6 DEF Contract

\* A worker looks a share up, or creates it.
LEMMA LookUpMirrors ==
  ASSUME OneTick, MirrorInv, NEW w \in Workers, ReadShare(w) \/ CreateShare(w)
  PROVE  TicksOK' /\ Trails'
<1> DEFINE u == Head(task[w].todo)
<1>1. /\ StoreOK /\ TasksOK /\ TicksOK /\ Trails
      /\ log' = log /\ balance' = balance /\ strayed' = strayed
      /\ task[w].pc \in LookingUp
  BY DEF MirrorInv, Shapes, ReadShare, CreateShare, contract, LookingUp
<1>2. u \in Users
  BY <1>1, LooksUp, NextUser, Jobs
<1>3. /\ \A v \in Users : EventAmount(v)' = EventAmount(v)
      /\ \/ \E s \in Amounts : s.eventAmount = EventAmount(u) /\ Got(w, s)
         \/ task' = [task EXCEPT ![w] = At("create", task[w].job, task[w].todo,
                                           task[w].got, <<>>)]
  <2>1. CASE ReadShare(w)
    <3>1. \A v \in Users : EventAmount(v)' = EventAmount(v)
      BY <2>1 DEF ReadShare, EventAmount, Stored
    <3>2. \/ u \in Stored /\ Got(w, share[u])
          \/ task' = [task EXCEPT ![w] = At("create", task[w].job, task[w].todo,
                                            task[w].got, <<>>)]
      BY <2>1 DEF ReadShare
    <3>3. u \in Stored => share[u] \in Amounts /\ share[u].eventAmount = EventAmount(u)
      BY <1>1, <1>2, StoredShare DEF EventAmount
    <3> QED
      BY <3>1, <3>2, <3>3
  <2>2. CASE CreateShare(w)
    <3>1. PICK new \in NewShares : share' = [share EXCEPT ![u] = new] /\ Got(w, new)
      BY <2>2 DEF CreateShare
    <3>2. new \in Amounts /\ new.eventAmount = 0
      BY DEF NewShares, Amounts
    <3>3. EventAmount(u) = 0
      BY <2>2 DEF CreateShare, EventAmount
    <3> HIDE DEF u
    <3>4. \A v \in Users : EventAmount(v)' = EventAmount(v)
      BY <1>1, <1>2, <3>1, <3>2, <3>3, AmountsKept
    <3> QED
      BY <3>1, <3>2, <3>3, <3>4
  <2> QED
    BY <2>1, <2>2
<1>4. TicksOK' /\ \A v \in Users : Due(v)' = Due(v)
  <2>1. CASE w \in Ticks
    <3>1. CASE \E s \in Amounts : s.eventAmount = EventAmount(u) /\ Got(w, s)
      BY <1>1, <1>3, <2>1, <3>1, TickGot DEF MirrorInv
    <3>2. CASE task' = [task EXCEPT ![w] = At("create", task[w].job, task[w].todo,
                                              task[w].got, <<>>)]
      <4>1. task'[w] = At("create", task[w].job, task[w].todo, task[w].got, <<>>)
        BY <1>1, <3>2 DEF TasksOK
      <4> QED
        BY <1>1, <1>3, <2>1, <4>1, TickAbsent DEF MirrorInv
    <3> QED
      BY <1>3, <3>1, <3>2
  <2>2. CASE w \notin Ticks
    <3>1. task' = [task EXCEPT ![w] = task'[w]]
      <4>1. CASE \E s \in Amounts : s.eventAmount = EventAmount(u) /\ Got(w, s)
        BY <1>1, <4>1, GotStep
      <4>2. CASE task' = [task EXCEPT ![w] = At("create", task[w].job, task[w].todo,
                                                task[w].got, <<>>)]
        BY <1>1, <4>2 DEF TasksOK
      <4> QED
        BY <1>3, <4>1, <4>2
    <3>2. \A t \in Ticks : task'[t] = task[t]
      BY <1>1, <2>2, <3>1 DEF TasksOK, Workers
    <3> QED
      BY <1>1, <1>3, <3>2, Undisturbed
  <2> QED
    BY <2>1, <2>2
<1> QED
  BY <1>1, <1>4, TrailsKept

\* A worker writes a share.
LEMMA WriteMirrors ==
  ASSUME OneTick, MirrorInv, NEW w \in Workers, WriteShare(w)
  PROVE  TicksOK' /\ Trails'
<1>1. /\ StoreOK /\ TasksOK /\ TicksOK /\ Trails
      /\ log' = log /\ balance' = balance /\ strayed' = strayed
  BY DEF MirrorInv, Shapes, WriteShare, contract
<1>2. TicksOK' /\ \A u \in Users \ strayed : Due(u)' = Due(u)
  <2>1. CASE w \in Ticks
    BY <1>1, <2>1, TickWrites DEF MirrorInv
  <2>2. CASE w \notin Ticks
    <3>1. PICK a \in Writes : WritesNow(w, a)
      BY <1>1, WriteStep
    <3>2. /\ a.user \in Users /\ a.user \in Stored /\ a.side = "handle"
          /\ share' = [share EXCEPT ![a.user] = Updated(share[a.user], a)]
          /\ Updated(share[a.user], a) \in Amounts
      BY <2>2, <3>1, Jobs DEF WritesNow, WriteOK, Workers, Writes
    <3>3. Updated(share[a.user], a).eventAmount = EventAmount(a.user)
      <4>1. share[a.user] \in Amounts
        BY <1>1, <3>2, StoredShare
      <4> QED
        BY <3>2, <4>1 DEF Updated, Amounts, EventAmount
    <3>4. \A u \in Users : EventAmount(u)' = EventAmount(u)
      BY <1>1, <3>2, <3>3, AmountsKept
    <3>5. \A t \in Ticks : task'[t] = task[t]
      <4>1. \E k : task' = [task EXCEPT ![w] = k]
        BY <3>1 DEF WritesNow
      <4> QED
        BY <1>1, <2>2, <4>1 DEF TasksOK, Workers
    <3> QED
      BY <1>1, <3>4, <3>5, Undisturbed
  <2> QED
    BY <2>1, <2>2
<1> QED
  BY <1>1, <1>2, TrailsKept

\* A worker gives up.
LEMMA GiveUpMirrors ==
  ASSUME OneTick, MirrorInv, NEW w \in Workers, GiveUp(w)
  PROVE  TicksOK' /\ Trails'
<1>1. /\ TasksOK /\ TicksOK /\ Trails
      /\ log' = log /\ balance' = balance /\ strayed' = strayed \cup Unbooked(w)
      /\ task' = [task EXCEPT ![w] = Idle]
      /\ \A u \in Users : EventAmount(u)' = EventAmount(u)
  BY DEF MirrorInv, Shapes, GiveUp, contract, EventAmount, Stored
<1>2. task'[w] = Idle /\ \A v \in Workers \ {w} : task'[v] = task[v]
  BY <1>1 DEF TasksOK
<1>3. TicksOK' /\ \A u \in Users \ strayed' : Due(u)' = Due(u)
  <2>1. CASE w \in Ticks
    BY <1>1, <1>2, <2>1, TickStops
  <2>2. CASE w \notin Ticks
    BY <1>1, <1>2, <2>2, Undisturbed DEF Workers
  <2> QED
    BY <2>1, <2>2
<1> QED
  BY <1>1, <1>3, TrailsKept

LEMMA MirrorStep ==
  ASSUME OneTick, MirrorInv, [Next]_vars
  PROVE  MirrorInv'
<1> USE DEF contract
<1>1. Shapes' /\ ContractOK'
  BY ShapesStep DEF MirrorInv
<1>2. /\ LogOK /\ StoreOK /\ TasksOK /\ TicksOK /\ Trails
  BY DEF MirrorInv, Shapes
<1>3. ASSUME Contract PROVE TicksOK' /\ Trails'
  BY <1>3, ContractMirrors
<1>4. ASSUME NEW t \in Ticks, BeginEvent(t) PROVE TicksOK' /\ Trails'
  <2>1. TicksOK' /\ \A u \in Users : Due(u)' = Due(u) + Delta(Head(log), u)
    BY <1>4, TickTakes DEF MirrorInv
  <2>2. log # <<>> /\ log' = Tail(log) /\ balance' = balance /\ strayed' = strayed
    BY <1>4 DEF BeginEvent
  <2> SUFFICES ASSUME NEW u \in Users \ strayed PROVE Trail(u)'
    BY <2>1, <2>2 DEF Trails
  <2> QED
    BY <1>2, <2>1, <2>2, TrailTaken DEF Trails
<1>5. ASSUME NEW t \in Ticks, SkipEvent(t) PROVE TicksOK' /\ Trails'
  <2>1. /\ log # <<>> /\ log' = Tail(log) /\ balance' = balance /\ task' = task
        /\ strayed' = strayed \cup ToSet(Parties(Head(log)))
        /\ \A u \in Users : EventAmount(u)' = EventAmount(u)
    BY <1>5 DEF SkipEvent, EventAmount, Stored
  <2>2. TicksOK' /\ \A u \in Users : Due(u)' = Due(u)
    BY <1>2, <2>1, Undisturbed
  <2>3. Head(log) \in Job /\ IsEvent(Head(log))
    BY <1>2, <2>1, Taken
  <2> SUFFICES ASSUME NEW u \in Users \ strayed' PROVE Trail(u)'
    BY <2>2 DEF Trails
  <2>4. Trail(u) /\ Delta(Head(log), u) = 0
    BY <1>2, <2>1, <2>3, DeltaOfOther DEF Trails
  <2>5. Due(u)' = Due(u) + Delta(Head(log), u)
    <3>1. Due(u) \in Nat
      BY <2>4, TrailDue
    <3> QED
      BY <2>2, <2>4, <3>1
  <2> QED
    BY <1>2, <2>1, <2>4, <2>5, TrailTaken
<1>6. ASSUME NEW r \in Requests, NEW job \in Job, BeginRequest(r, job)
      PROVE  TicksOK' /\ Trails'
  <2>1. /\ log' = log /\ balance' = balance /\ strayed' = strayed
        /\ \A u \in Users : EventAmount(u)' = EventAmount(u)
    BY <1>6 DEF BeginRequest, EventAmount, Stored
  <2>2. \A t \in Ticks : task'[t] = task[t]
    BY <1>2, <1>6, ShareAssumption DEF BeginRequest, TasksOK, Workers
  <2>3. TicksOK' /\ \A u \in Users : Due(u)' = Due(u)
    BY <1>2, <2>1, <2>2, Undisturbed
  <2> QED
    BY <1>2, <2>1, <2>3, TrailsKept
<1>7. ASSUME NEW w \in Workers, Work(w) PROVE TicksOK' /\ Trails'
  <2>1. CASE ReadShare(w) \/ CreateShare(w)
    BY <2>1, LookUpMirrors
  <2>2. CASE DuplicateShare(w) \/ TaskFails(w)
    BY <2>2, GiveUpMirrors DEF DuplicateShare, TaskFails
  <2>3. CASE WriteShare(w)
    BY <2>3, WriteMirrors
  <2> QED
    BY <1>7, <2>1, <2>2, <2>3 DEF Work
<1>8. ASSUME NEW u \in Users, Expire(u) PROVE TicksOK' /\ Trails'
  <2>1. share[u] \in Amounts /\ u \in Stored
    BY <1>2, <1>8, StoredShare DEF Expire, NoShare
  <2>2. [share[u] EXCEPT !.fresh = FALSE] \in Amounts
        /\ [share[u] EXCEPT !.fresh = FALSE].eventAmount = EventAmount(u)
    BY <2>1 DEF Amounts, EventAmount
  <2>3. share' = [share EXCEPT ![u] = [share[u] EXCEPT !.fresh = FALSE]]
    BY <1>8 DEF Expire
  <2>4. \A v \in Users : EventAmount(v)' = EventAmount(v)
    BY <1>2, <2>2, <2>3, AmountsKept
  <2>5. log' = log /\ balance' = balance /\ strayed' = strayed /\ task' = task
    BY <1>8 DEF Expire
  <2>6. TicksOK' /\ \A v \in Users : Due(v)' = Due(v)
    BY <1>2, <2>4, <2>5, Undisturbed
  <2> QED
    BY <1>2, <2>5, <2>6, TrailsKept
<1>9. ASSUME Crash PROVE TicksOK' /\ Trails'
  <2>1. /\ log' = log /\ balance' = balance /\ task' = [w \in Workers |-> Idle]
        /\ strayed' = strayed \cup UNION {Unbooked(w) : w \in Workers}
        /\ \A u \in Users : EventAmount(u)' = EventAmount(u)
    BY <1>9 DEF Crash, EventAmount, Stored
  <2>2. TicksOK' /\ \A u \in Users \ strayed' : Due(u)' = Due(u)
    <3>1. CASE Ticks = {}
      BY <1>2, <2>1, <3>1, Undisturbed
    <3>2. ASSUME NEW t \in Ticks
          PROVE  TicksOK' /\ \A u \in Users \ strayed' : Due(u)' = Due(u)
      <4>1. task'[t] = Idle /\ Unbooked(t) \subseteq strayed'
        BY <2>1 DEF Workers
      <4> QED
        BY <1>2, <2>1, <4>1, TickStops
    <3> QED
      BY <3>1, <3>2
  <2> QED
    BY <1>2, <2>1, <2>2, TrailsKept
<1>10. ASSUME UNCHANGED vars PROVE TicksOK' /\ Trails'
  <2>1. /\ log' = log /\ balance' = balance /\ strayed' = strayed /\ task' = task
        /\ \A u \in Users : EventAmount(u)' = EventAmount(u)
    BY <1>10 DEF vars, EventAmount, Stored
  <2>2. TicksOK' /\ \A u \in Users : Due(u)' = Due(u)
    BY <1>2, <2>1, Undisturbed
  <2> QED
    BY <1>2, <2>1, <2>2, TrailsKept
<1>11. TicksOK' /\ Trails'
  BY <1>3, <1>4, <1>5, <1>6, <1>7, <1>8, <1>9, <1>10 DEF Next
<1> QED
  BY <1>1, <1>11 DEF MirrorInv

LEMMA MirrorInit == Init => MirrorInv
<1> SUFFICES ASSUME Init PROVE MirrorInv
  OBVIOUS
<1>1. Shapes /\ ContractOK
  BY ShapesInit, ContractInit
<1>2. TicksOK
  BY DEF Init, TicksOK, ReadHolds, WritesDelta, Workers, Idle, At, LookingUp
<1>3. ASSUME NEW u \in Users PROVE Trail(u)
  <2>1. \A t \in Ticks : Unbooked(t) = {}
    BY UnbookedAre DEF Init, Workers, Unbooked, Idle, At
  <2>2. EventAmount(u) = 0
    BY DEF Init, EventAmount, Stored
  <2>3. Due(u) = 0
    BY <2>1, <2>2, DueWhenSettled
  <2> DEFINE f == [i \in 1 .. 1 |-> 0]
  <2>4. log = <<>> /\ Len(log) = 0 /\ balance[u] = 0
    BY DEF Init
  <2>5. f \in [1 .. Len(log) + 1 -> Nat] /\ f[1] = 0 /\ f[Len(log) + 1] = 0
    BY <2>4
  <2>6. Follows(f, u) /\ Flat(f, u)
    BY <2>4 DEF Follows, Flat
  <2>7. Leads(f, u)
    BY <2>3, <2>4, <2>5, <2>6 DEF Leads
  <2> HIDE DEF f
  <2> QED
    BY <2>5, <2>7 DEF Trail
<1> QED
  BY <1>1, <1>2, <1>3 DEF MirrorInv, Trails

\* While runs of the cron job do not overlap: what is booked for a user whose
\* events are all booked is what the user holds, whatever fill requests read,
\* create and write in between, and whatever failed or crashed for others.
THEOREM BookedIsHeld == ASSUME OneTick PROVE Spec => []MirrorsChain
<1>1. Init => MirrorInv
  BY MirrorInit
<1>2. MirrorInv /\ [Next]_vars => MirrorInv'
  BY MirrorStep
<1>3. MirrorInv => MirrorsChain
  <2> SUFFICES ASSUME MirrorInv, NEW u \in Users, Settled(u)
               PROVE  EventAmount(u) = balance[u]
    BY DEF MirrorsChain
  <2> QED
    BY SettledHoldsBalance DEF MirrorInv, Trails, Settled
<1> QED
  BY <1>1, <1>2, <1>3, PTL DEF Spec
=============================================================================
