--------------------------- MODULE ServicesProofs ---------------------------
(***************************************************************************)
(* Proofs about Services.  Its parts share nothing, so that each is proved *)
(* about on its own; a behaviour of Services is one of each of them.       *)
(***************************************************************************)
EXTENDS Services, Sequences, FiniteSetTheorems, NaturalsInduction, WellFoundedInduction, TLAPS

\* Each part takes its own steps, and stands still while another is at work.
LEMMA Parts == Spec => Soar!Spec /\ Throttle!Spec /\ Usage!Spec /\ Roster!Spec /\ Proxy!Spec
<1>1. Init => Soar!Init /\ Throttle!Init /\ Usage!Init /\ Roster!Init /\ Proxy!Init
  BY DEF Init
<1>2. [Next]_vars => [Soar!Next]_(Soar!vars)
  BY DEF Next, vars, soarVars, Soar!vars
<1>3. [Next]_vars => [Throttle!Next]_(Throttle!vars)
  BY DEF Next, vars, throttleVars, Throttle!vars
<1>4. [Next]_vars => [Usage!Next]_(Usage!vars)
  BY DEF Next, vars, usageVars, Usage!vars
<1>5. [Next]_vars => [Roster!Next]_(Roster!vars)
  BY DEF Next, vars, rosterVars, Roster!vars
<1>6. [Next]_vars => [Proxy!Next]_(Proxy!vars)
  BY DEF Next, vars, proxyVars, Proxy!vars
<1> QED
  BY <1>1, <1>2, <1>3, <1>4, <1>5, <1>6, PTL
  DEF Spec, Soar!Spec, Throttle!Spec, Usage!Spec, Roster!Spec, Proxy!Spec

----------------------------------------------------------------------------
(* The SOAR connector.                                                       *)

Optional == Nat \cup {None}
ThreadRow == [pc : {"free", "look", "client", "login", "return", "search", "put", "answered"},
              cached : BOOLEAN, name : Names \cup {None}, end : Optional, asked : Optional,
              stamp : Optional, mine : Optional, at : Optional, until : Optional,
              known : SUBSET Nat, spent : SUBSET Nat]
KeyRow == [name : Names, bucket : Int]

SoarTypes ==
  /\ now \in Nat /\ clients \in Nat /\ client \in Optional
  /\ broken \subseteq Nat /\ refused \subseteq Nat
  /\ thread \in [Threads -> ThreadRow]

\* Clients are numbered as they are made; the one in use has never failed.
ClientOK ==
  /\ \A c \in broken : c =< clients
  /\ client # None => client =< clients
  /\ client \notin broken

\* What is cached was read no earlier than its stamp says, for a window that ends in the
\* bucket of its key.
CacheOK ==
  \A k \in DOMAIN cache : LET e == cache[k] IN
    /\ e \in [stamp : Nat, at : Nat, until : Nat]
    /\ e.stamp =< e.at /\ e.at =< now /\ e.until =< now
    /\ k.bucket = e.until \div CacheSeconds

Begun == {"look", "client", "login", "return", "search", "put"}

\* A request searches on a client that had not failed when it came in, and reads rows no
\* older than its stamp.
ThreadOK(t) ==
  LET r == thread[t] IN
  /\ r.known \subseteq broken /\ r.mine \notin r.known
  /\ r.mine # None => r.mine =< clients
  /\ r.pc = "search" => r.mine # None
  /\ r.pc \in Begun => /\ r.asked \in Nat /\ r.asked =< now /\ r.end \in Nat /\ r.end =< now
                       /\ r.name \in Names
  /\ r.pc \in Begun \ {"look"} => r.stamp \in Nat /\ r.asked =< r.stamp /\ r.stamp =< now
  /\ r.pc = "put" => r.at \in Nat /\ r.stamp =< r.at /\ r.at =< now

SoarInv == SoarTypes /\ ClientOK /\ CacheOK /\ \A t \in Threads : ThreadOK(t)

LEMMA SoarInit == Soar!ConstantsOK /\ Soar!Init => SoarInv
<1> SUFFICES ASSUME Soar!ConstantsOK, Soar!Init PROVE SoarInv
  OBVIOUS
<1>1. Soar!Free \in ThreadRow
  BY DEF Soar!Free, ThreadRow, Optional
<1>2. SoarTypes
  BY <1>1 DEF Soar!Init, SoarTypes, Optional
<1>3. ClientOK /\ CacheOK
  BY DEF Soar!Init, ClientOK, CacheOK
<1>4. \A t \in Threads : ThreadOK(t)
  BY <1>2 DEF Soar!ConstantsOK, Soar!Init, ThreadOK, Soar!Free, Begun
<1> QED
  BY <1>2, <1>3, <1>4 DEF SoarInv

\* A step of one thread keeps what the others know, as long as no failure is forgotten.
LEMMA ThreadMoves ==
  ASSUME Soar!ConstantsOK, SoarInv, NEW t \in Threads, NEW r \in ThreadRow, Soar!Be(t, r),
         now' \in Nat, clients' \in Nat, now =< now', clients =< clients',
         broken \subseteq broken',
         ThreadOK(t)'
  PROVE  thread' \in [Threads -> ThreadRow] /\ \A u \in Threads : ThreadOK(u)'
<1>1. thread' \in [Threads -> ThreadRow] /\ thread'[t] = r
  BY DEF SoarInv, SoarTypes, Soar!Be
<1>2. ASSUME NEW u \in Threads, u # t PROVE ThreadOK(u)'
  <2>1. thread'[u] = thread[u] /\ ThreadOK(u) /\ thread[u] \in ThreadRow
    BY <1>2 DEF SoarInv, SoarTypes, Soar!Be
  <2> QED
    BY <2>1 DEF SoarInv, SoarTypes, Soar!ConstantsOK, ThreadOK, ThreadRow, Optional
<1> QED
  BY <1>1, <1>2

\* A step that leaves clock, clients and cache alone.
LEMMA OnlyThreadMoves ==
  ASSUME Soar!ConstantsOK, SoarInv, NEW t \in Threads, NEW r \in ThreadRow, Soar!Be(t, r),
         UNCHANGED <<now, client, clients, broken, refused, cache>>, ThreadOK(t)'
  PROVE  SoarInv'
<1>1. now' = now /\ clients' = clients /\ broken' = broken
  OBVIOUS
<1>2. now \in Nat /\ clients \in Nat
  BY DEF SoarInv, SoarTypes
<1>3. thread' \in [Threads -> ThreadRow] /\ \A u \in Threads : ThreadOK(u)'
  BY <1>1, <1>2, ThreadMoves
<1> QED
  BY <1>3 DEF SoarInv, SoarTypes, ClientOK, CacheOK

LEMMA AskStep ==
  ASSUME Soar!ConstantsOK, SoarInv, NEW t \in Threads, NEW cached \in BOOLEAN, NEW name \in Names,
         NEW end \in {0, now}, Soar!Ask(t, cached, name, end)
  PROVE  SoarInv'
<1> DEFINE r == [Soar!Free EXCEPT !.pc = "look", !.cached = cached, !.name = name, !.end = end,
                             !.asked = now, !.known = broken, !.spent = refused]
<1>1. r \in ThreadRow /\ Soar!Be(t, r)
  <2>1. Soar!Free \in ThreadRow
    BY DEF Soar!Free, ThreadRow, Optional
  <2>2. end \in Optional /\ now \in Optional /\ broken \in SUBSET Nat /\ refused \in SUBSET Nat
    BY DEF SoarInv, SoarTypes, Optional
  <2>3. r \in ThreadRow
    BY <2>1, <2>2 DEF ThreadRow
  <2> QED
    BY <2>3 DEF Soar!Ask
<1>2. thread'[t] = r
  BY <1>1 DEF Soar!Be, SoarInv, SoarTypes
<1>3. ThreadOK(t)'
  BY <1>2 DEF Soar!Ask, ThreadOK, SoarInv, SoarTypes, Soar!ConstantsOK, Soar!Free, Begun
<1> QED
  BY <1>1, <1>3, OnlyThreadMoves DEF Soar!Ask

LEMMA LookStep ==
  ASSUME Soar!ConstantsOK, SoarInv, NEW t \in Threads, Soar!Look(t)
  PROVE  SoarInv'
<1> DEFINE r == thread[t]
           e == cache[Soar!Key(r)]
<1>1. r \in ThreadRow /\ ThreadOK(t) /\ r.pc = "look" /\ now \in Nat
  BY DEF SoarInv, SoarTypes, Soar!Look
<1>2. CASE Soar!Hit(r)
  <2>1. e \in [stamp : Nat, at : Nat, until : Nat]
    BY <1>2 DEF SoarInv, CacheOK, Soar!Hit
  <2> DEFINE s == [r EXCEPT !.pc = "answered", !.at = e.at, !.until = e.until]
  <2>2. s \in ThreadRow /\ Soar!Be(t, s)
    BY <1>1, <1>2, <2>1 DEF Soar!Look, Soar!Answer, ThreadRow, Optional
  <2>3. thread'[t] = s
    BY <2>2 DEF Soar!Be, SoarInv, SoarTypes
  <2>4. ThreadOK(t)'
    BY <1>1, <2>3 DEF Soar!Look, Soar!Ours, ThreadOK, ThreadRow, Begun
  <2> QED
    BY <2>2, <2>4, OnlyThreadMoves DEF Soar!Look, Soar!Ours
<1>3. CASE ~Soar!Hit(r)
  <2> DEFINE s == [r EXCEPT !.pc = "client", !.stamp = now]
  <2>1. s \in ThreadRow /\ Soar!Be(t, s)
    BY <1>1, <1>3 DEF Soar!Look, ThreadRow, Optional
  <2>2. thread'[t] = s
    BY <2>1 DEF Soar!Be, SoarInv, SoarTypes
  <2>3. ThreadOK(t)'
    BY <1>1, <2>2 DEF Soar!Look, Soar!Ours, ThreadOK, ThreadRow, Begun
  <2> QED
    BY <2>1, <2>3, OnlyThreadMoves DEF Soar!Look, Soar!Ours
<1> QED
  BY <1>2, <1>3

LEMMA PutStep ==
  ASSUME Soar!ConstantsOK, SoarInv, NEW t \in Threads, Soar!Put(t)
  PROVE  SoarInv'
<1> DEFINE r == thread[t]
           e == [stamp |-> r.stamp, at |-> r.at, until |-> r.end]
           s == [r EXCEPT !.pc = "answered", !.at = e.at, !.until = e.until]
<1>1. r \in ThreadRow /\ ThreadOK(t) /\ r.pc = "put" /\ now \in Nat
  BY DEF SoarInv, SoarTypes, Soar!Put
<1>2. /\ r.stamp \in Nat /\ r.at \in Nat /\ r.end \in Nat
      /\ r.stamp =< r.at /\ r.at =< now /\ r.end =< now
  BY <1>1 DEF ThreadOK, Begun
<1>3. s \in ThreadRow /\ Soar!Be(t, s)
  BY <1>1, <1>2 DEF Soar!Put, Soar!Answer, ThreadRow, Optional
<1>4. thread'[t] = s
  BY <1>3 DEF Soar!Be, SoarInv, SoarTypes
<1>5. ThreadOK(t)'
  BY <1>1, <1>4 DEF Soar!Put, Soar!Ours, ThreadOK, ThreadRow, Begun
<1>6. thread' \in [Threads -> ThreadRow] /\ \A u \in Threads : ThreadOK(u)'
  <2>1. now' = now /\ clients' = clients /\ broken' = broken /\ clients \in Nat
    BY DEF Soar!Put, Soar!Ours, SoarInv, SoarTypes
  <2> QED
    BY <1>1, <1>3, <1>5, <2>1, ThreadMoves
<1>7. CacheOK'
  <2>1. ASSUME NEW k \in DOMAIN cache', r.cached PROVE cache'[k] = IF k = Soar!Key(r) THEN e ELSE cache[k]
    BY <2>1 DEF Soar!Put
  <2>2. ASSUME NEW k \in DOMAIN cache', r.cached, k # Soar!Key(r) PROVE k \in DOMAIN cache
    BY <2>2 DEF Soar!Put
  <2>3. e \in [stamp : Nat, at : Nat, until : Nat] /\ Soar!Key(r).bucket = e.until \div CacheSeconds
    BY <1>2 DEF Soar!Key
  <2>4. CASE r.cached
    <3> SUFFICES ASSUME NEW k \in DOMAIN cache'
                 PROVE  /\ cache'[k] \in [stamp : Nat, at : Nat, until : Nat]
                        /\ cache'[k].stamp =< cache'[k].at /\ cache'[k].at =< now /\ cache'[k].until =< now
                        /\ k.bucket = cache'[k].until \div CacheSeconds
      BY DEF CacheOK, Soar!Put, Soar!Ours
    <3>1. CASE k = Soar!Key(r)
      BY <1>2, <2>1, <2>3, <2>4, <3>1
    <3>2. CASE k # Soar!Key(r)
      BY <2>1, <2>2, <2>4, <3>2 DEF SoarInv, CacheOK
    <3> QED
      BY <3>1, <3>2
  <2>5. CASE ~r.cached
    BY <2>5 DEF Soar!Put, Soar!Ours, SoarInv, CacheOK
  <2> QED
    BY <2>4, <2>5
<1> QED
  BY <1>6, <1>7 DEF Soar!Put, Soar!Ours, SoarInv, SoarTypes, ClientOK

\* Steps that move a thread on without a change of client or cache.
LEMMA ClientStep ==
  ASSUME Soar!ConstantsOK, SoarInv, NEW t \in Threads, Soar!Client(t) \/ Soar!Search(t)
  PROVE  SoarInv'
<1> DEFINE r == thread[t]
<1>1. r \in ThreadRow /\ ThreadOK(t) /\ now \in Nat
  BY DEF SoarInv, SoarTypes
<1>2. CASE Soar!Client(t)
  <2> DEFINE s == [r EXCEPT !.pc = IF client = None THEN "login" ELSE "return"]
  <2>1. s \in ThreadRow /\ Soar!Be(t, s)
    BY <1>1, <1>2 DEF Soar!Client, ThreadRow
  <2>2. thread'[t] = s
    BY <2>1 DEF Soar!Be, SoarInv, SoarTypes
  <2>3. ThreadOK(t)'
    BY <1>1, <1>2, <2>2 DEF Soar!Client, Soar!Ours, ThreadOK, ThreadRow, Begun
  <2> QED
    BY <1>2, <2>1, <2>3, OnlyThreadMoves DEF Soar!Client, Soar!Ours
<1>3. CASE Soar!Search(t)
  <2> DEFINE s == [r EXCEPT !.pc = "put", !.at = now]
  <2>1. s \in ThreadRow /\ Soar!Be(t, s)
    BY <1>1, <1>3 DEF Soar!Search, ThreadRow, Optional
  <2>2. thread'[t] = s
    BY <2>1 DEF Soar!Be, SoarInv, SoarTypes
  <2>3. ThreadOK(t)'
    BY <1>1, <1>3, <2>2 DEF Soar!Search, Soar!Ours, ThreadOK, ThreadRow, Begun
  <2> QED
    BY <1>3, <2>1, <2>3, OnlyThreadMoves DEF Soar!Search, Soar!Ours
<1> QED
  BY <1>2, <1>3

\* A login makes a client nobody has had.
LEMMA LoginStep ==
  ASSUME Soar!ConstantsOK, SoarInv, NEW t \in Threads, Soar!Login(t)
  PROVE  SoarInv'
<1> DEFINE s == [thread[t] EXCEPT !.pc = "return"]
<1>1. thread[t] \in ThreadRow /\ ThreadOK(t) /\ thread[t].pc = "login" /\ now \in Nat /\ clients \in Nat
  BY DEF SoarInv, SoarTypes, Soar!Login
<1>2. s \in ThreadRow /\ Soar!Be(t, s)
  BY <1>1 DEF Soar!Login, ThreadRow
<1>3. thread'[t] = s
  BY <1>2 DEF Soar!Be, SoarInv, SoarTypes
<1>4. ThreadOK(t)'
  BY <1>1, <1>3 DEF Soar!Login, ThreadOK, ThreadRow, Begun, Optional, Soar!ConstantsOK
<1>5. thread' \in [Threads -> ThreadRow] /\ \A u \in Threads : ThreadOK(u)'
  <2>1. /\ now' = now /\ clients' = clients + 1 /\ broken' = broken
        /\ clients' \in Nat /\ clients =< clients'
    BY <1>1 DEF Soar!Login
  <2> QED
    BY <1>1, <1>2, <1>4, <2>1, ThreadMoves
<1>6. ClientOK'
  BY DEF Soar!Login, SoarInv, SoarTypes, ClientOK, Soar!ConstantsOK
<1> QED
  BY <1>1, <1>5, <1>6 DEF Soar!Login, SoarInv, SoarTypes, CacheOK, Optional

LEMMA ReturnStep ==
  ASSUME Soar!ConstantsOK, SoarInv, NEW t \in Threads, Soar!Return(t), client # None
  PROVE  SoarInv'
<1> DEFINE s == [thread[t] EXCEPT !.pc = "search", !.mine = client]
<1>1. thread[t] \in ThreadRow /\ ThreadOK(t) /\ thread[t].pc = "return" /\ now \in Nat
  BY DEF SoarInv, SoarTypes, Soar!Return
<1>2. s \in ThreadRow /\ Soar!Be(t, s)
  BY <1>1 DEF Soar!Return, ThreadRow, SoarInv, SoarTypes
<1>3. thread'[t] = s
  BY <1>2 DEF Soar!Be, SoarInv, SoarTypes
<1>4. ThreadOK(t)'
  BY <1>1, <1>3 DEF Soar!Return, Soar!Ours, ThreadOK, ThreadRow, Begun, SoarInv, ClientOK
<1> QED
  BY <1>2, <1>4, OnlyThreadMoves DEF Soar!Return, Soar!Ours

\* A request ends in an error: the client stays, or goes with it; it must go if it broke.
LEMMA EndStep ==
  ASSUME Soar!ConstantsOK, SoarInv, NEW t \in Threads, Soar!Refuse(t) \/ Soar!Drop(t),
         UNCHANGED <<now, clients>>, refused' \subseteq Nat,
         \/ broken' = broken
         \/ Soar!Drop(t) /\ thread[t].pc = "search" /\ broken' = broken \cup {thread[t].mine}
  PROVE  SoarInv'
<1>1. thread[t] \in ThreadRow /\ ThreadOK(t) /\ now \in Nat /\ clients \in Nat
  BY DEF SoarInv, SoarTypes
<1>2. Soar!Free \in ThreadRow /\ Soar!Be(t, Soar!Free)
  BY DEF Soar!Refuse, Soar!Drop, Soar!Free, ThreadRow, Optional
<1>3. thread'[t] = Soar!Free
  BY <1>2 DEF Soar!Be, SoarInv, SoarTypes
<1>4. ThreadOK(t)'
  BY <1>3 DEF ThreadOK, Soar!Free, Begun
<1>5. thread' \in [Threads -> ThreadRow] /\ \A u \in Threads : ThreadOK(u)'
  <2>1. now' = now /\ clients' = clients /\ broken \subseteq broken'
    OBVIOUS
  <2> QED
    BY <1>1, <1>2, <1>4, <2>1, ThreadMoves
<1>6. broken' \subseteq Nat /\ \A c \in broken' : c =< clients
  BY <1>1 DEF ThreadOK, ThreadRow, Optional, SoarInv, SoarTypes, ClientOK
<1>7. client' \in {client, None} /\ client' \notin broken'
  BY <1>6 DEF Soar!Refuse, Soar!Drop, Soar!ConstantsOK, SoarInv, ClientOK
<1> QED
  BY <1>5, <1>6, <1>7 DEF SoarInv, SoarTypes, ClientOK, CacheOK, Soar!Refuse, Soar!Drop, Optional

LEMMA ErrorStep ==
  ASSUME Soar!ConstantsOK, SoarInv, NEW t \in Threads,
         Soar!LoginFails(t) \/ Soar!SearchRefused(t) \/ Soar!SearchBreaks(t) \/ (Soar!Return(t) /\ client = None)
  PROVE  SoarInv'
<1>1. CASE Soar!LoginFails(t)
  BY <1>1, EndStep DEF Soar!LoginFails, SoarInv, SoarTypes
<1>2. CASE Soar!SearchRefused(t)
  <2>1. thread[t].mine \in Nat
    BY <1>2 DEF Soar!SearchRefused, SoarInv, SoarTypes, ThreadOK, ThreadRow, Optional
  <2> QED
    BY <1>2, <2>1, EndStep DEF Soar!SearchRefused, SoarInv, SoarTypes
<1>3. CASE Soar!SearchBreaks(t)
  BY <1>3, EndStep DEF Soar!SearchBreaks, SoarInv, SoarTypes
<1>4. CASE Soar!Return(t) /\ client = None
  BY <1>4, EndStep DEF Soar!Return, Soar!Ours, SoarInv, SoarTypes
<1> QED
  BY <1>1, <1>2, <1>3, <1>4

LEMMA SoarStep == Soar!ConstantsOK /\ SoarInv /\ [Soar!Next]_(Soar!vars) => SoarInv'
<1> SUFFICES ASSUME Soar!ConstantsOK, SoarInv, [Soar!Next]_(Soar!vars) PROVE SoarInv'
  OBVIOUS
<1>1. ASSUME NEW t \in Threads, NEW cached \in BOOLEAN, NEW name \in Names, NEW end \in {0, now},
             Soar!Ask(t, cached, name, end)
      PROVE  SoarInv'
  BY <1>1, AskStep
<1>2. ASSUME NEW t \in Threads, Soar!Look(t) \/ Soar!Put(t) \/ Soar!Client(t) \/ Soar!Login(t) \/ Soar!Search(t)
      PROVE  SoarInv'
  BY <1>2, LookStep, PutStep, ClientStep, LoginStep
<1>3. ASSUME NEW t \in Threads, Soar!LoginFails(t) \/ Soar!Return(t) \/ Soar!SearchRefused(t) \/ Soar!SearchBreaks(t)
      PROVE  SoarInv'
  BY <1>3, ReturnStep, ErrorStep
<1>4. ASSUME NEW c \in alive, Soar!Expire(c) PROVE SoarInv'
  BY <1>4 DEF Soar!Expire, SoarInv, SoarTypes, ClientOK, CacheOK, ThreadOK
<1>5. CASE Soar!Tick
  <2>1. SoarTypes' /\ ClientOK' /\ CacheOK'
    BY <1>5 DEF Soar!Tick, SoarInv, SoarTypes, ClientOK, CacheOK
  <2>2. ASSUME NEW t \in Threads PROVE ThreadOK(t)'
    <3>1. thread'[t] = thread[t] /\ ThreadOK(t) /\ thread[t] \in ThreadRow /\ now \in Nat
      BY <1>5 DEF Soar!Tick, SoarInv, SoarTypes
    <3> QED
      BY <1>5, <3>1 DEF Soar!Tick, ThreadOK, ThreadRow, Optional
  <2> QED
    BY <2>1, <2>2 DEF SoarInv
<1>6. CASE UNCHANGED Soar!vars
  BY <1>6 DEF Soar!vars, SoarInv, SoarTypes, ClientOK, CacheOK, ThreadOK
<1> QED
  BY <1>1, <1>2, <1>3, <1>4, <1>5, <1>6 DEF Soar!Next

\* A client whose connection broke is given to no request that comes in after it (_guard,
\* client), however threads drop, make and return clients at the same time.
THEOREM ClientIsReplaced == Spec => []BrokenClientIsReplaced
<1> USE ServicesAssumption
<1>1. SoarInv => Soar!BrokenClientIsReplaced
  BY DEF SoarInv, ThreadOK, Soar!BrokenClientIsReplaced
<1>2. Soar!Init => SoarInv
  BY SoarInit
<1>3. SoarInv /\ [Soar!Next]_(Soar!vars) => SoarInv'
  BY SoarStep
<1> QED
  BY <1>1, <1>2, <1>3, Parts, PTL DEF Soar!Spec, BrokenClientIsReplaced

----------------------------------------------------------------------------
(* It implements BoundedStaleness: the abstract state is computed from the   *)
(* threads.                                                                  *)

AskedBy(t) == IF Soar!Open(t) THEN thread[t].asked ELSE None
EndBy(t) == IF Soar!Open(t) THEN thread[t].end ELSE None
ShownTo(t) == IF t \in Soar!Answers THEN [at |-> thread[t].at, end |-> thread[t].until] ELSE None

\* What a step does to the abstract state, from what it makes of its thread.
LEMMA Abstracted ==
  ASSUME SoarInv, NEW t \in Threads, NEW r \in ThreadRow, Soar!Be(t, r)
  PROVE  LET open == r.pc \notin {"free", "answered"} IN
         /\ Soar!asking' = [Soar!asking EXCEPT ![t] = IF open THEN r.asked ELSE None]
         /\ Soar!wanted' = [Soar!wanted EXCEPT ![t] = IF open THEN r.end ELSE None]
         /\ Soar!answer' = [Soar!answer EXCEPT ![t] = IF r.pc = "answered" THEN [at |-> r.at, end |-> r.until]
                                            ELSE None]
<1>1. thread'[t] = r /\ \A u \in Threads \ {t} : thread'[u] = thread[u]
  BY DEF SoarInv, SoarTypes, Soar!Be
<1>2. /\ AskedBy(t)' = IF r.pc \notin {"free", "answered"} THEN r.asked ELSE None
      /\ EndBy(t)' = IF r.pc \notin {"free", "answered"} THEN r.end ELSE None
      /\ ShownTo(t)' = IF r.pc = "answered" THEN [at |-> r.at, end |-> r.until] ELSE None
  BY <1>1 DEF AskedBy, EndBy, ShownTo, Soar!Open, Soar!Answers
<1>3. \A u \in Threads \ {t} : AskedBy(u)' = AskedBy(u) /\ EndBy(u)' = EndBy(u) /\ ShownTo(u)' = ShownTo(u)
  BY <1>1 DEF AskedBy, EndBy, ShownTo, Soar!Open, Soar!Answers
<1>4. /\ Soar!asking = [u \in Threads |-> AskedBy(u)] /\ Soar!asking' = [u \in Threads |-> AskedBy(u)']
      /\ Soar!wanted = [u \in Threads |-> EndBy(u)] /\ Soar!wanted' = [u \in Threads |-> EndBy(u)']
      /\ Soar!answer = [u \in Threads |-> ShownTo(u)] /\ Soar!answer' = [u \in Threads |-> ShownTo(u)']
  BY DEF Soar!asking, Soar!wanted, Soar!answer, AskedBy, EndBy, ShownTo
<1> HIDE DEF AskedBy, EndBy, ShownTo
<1> QED
  BY <1>2, <1>3, <1>4

\* A thread at work that stays at work is a stutter.
LEMMA AtWork ==
  ASSUME SoarInv, NEW t \in Threads, NEW r \in ThreadRow, Soar!Be(t, r), Soar!Open(t),
         r.pc \notin {"free", "answered"}, r.asked = thread[t].asked, r.end = thread[t].end
  PROVE  UNCHANGED <<Soar!asking, Soar!wanted, Soar!answer>>
<1>1. t \notin Soar!Answers
  BY DEF Soar!Open, Soar!Answers
<1>2. Soar!asking[t] = r.asked /\ Soar!wanted[t] = r.end /\ Soar!answer[t] = None
  BY <1>1 DEF Soar!asking, Soar!wanted, Soar!answer
<1>3. /\ Soar!asking' = [Soar!asking EXCEPT ![t] = Soar!asking[t]] /\ Soar!wanted' = [Soar!wanted EXCEPT ![t] = Soar!wanted[t]]
      /\ Soar!answer' = [Soar!answer EXCEPT ![t] = Soar!answer[t]]
  BY <1>2, Abstracted
<1>4. Soar!asking = [Soar!asking EXCEPT ![t] = Soar!asking[t]] /\ Soar!wanted = [Soar!wanted EXCEPT ![t] = Soar!wanted[t]]
      /\ Soar!answer = [Soar!answer EXCEPT ![t] = Soar!answer[t]]
  BY DEF Soar!asking, Soar!wanted, Soar!answer
<1> QED
  BY <1>3, <1>4

LEMMA AskShown ==
  ASSUME SoarInv, NEW t \in Threads, NEW cached \in BOOLEAN, NEW name \in Names,
         NEW end \in {0, now}, Soar!Ask(t, cached, name, end)
  PROVE  Soar!Freshness!Ask(t)
<1> DEFINE r == [Soar!Free EXCEPT !.pc = "look", !.cached = cached, !.name = name, !.end = end,
                             !.asked = now, !.known = broken, !.spent = refused]
<1>1. r \in ThreadRow /\ Soar!Be(t, r)
  <2>1. Soar!Free \in ThreadRow
    BY DEF Soar!Free, ThreadRow, Optional
  <2>2. end \in Optional /\ now \in Optional /\ broken \in SUBSET Nat /\ refused \in SUBSET Nat
    BY DEF SoarInv, SoarTypes, Optional
  <2>3. r \in ThreadRow
    BY <2>1, <2>2 DEF ThreadRow
  <2> QED
    BY <2>3 DEF Soar!Ask
<1>2. r.pc = "look" /\ r.asked = now /\ r.end = end
  BY DEF Soar!Free
<1> HIDE DEF r
<1>3. /\ Soar!asking' = [Soar!asking EXCEPT ![t] = now] /\ Soar!wanted' = [Soar!wanted EXCEPT ![t] = end]
      /\ Soar!answer' = [Soar!answer EXCEPT ![t] = None]
  BY <1>1, <1>2, Abstracted
<1>4. Soar!asking[t] = None
  BY DEF Soar!Ask, Soar!asking
<1>5. end \in 0..now
  BY DEF SoarInv, SoarTypes
<1> QED
  BY <1>3, <1>4, <1>5 DEF Soar!Ask, Soar!Freshness!Ask

\* An answer from the cache or from Splunk, as old as it may be.
LEMMA AnswerShown ==
  ASSUME Soar!ConstantsOK, SoarInv, NEW t \in Threads, Soar!Open(t), NEW at \in 0..now, NEW e \in 0..now,
         Soar!Be(t, [thread[t] EXCEPT !.pc = "answered", !.at = at, !.until = e]), now' = now,
         thread[t].asked - CacheSeconds < at,
         thread[t].end - CacheSeconds < e, e < thread[t].end + CacheSeconds
  PROVE  Soar!Freshness!Answer(t)
<1> DEFINE r == [thread[t] EXCEPT !.pc = "answered", !.at = at, !.until = e]
<1>0. thread[t] \in ThreadRow /\ at \in Optional /\ e \in Optional
  BY DEF SoarInv, SoarTypes, Optional
<1>1. r \in ThreadRow /\ r.pc = "answered" /\ r.at = at /\ r.until = e /\ Soar!Be(t, r)
  BY <1>0 DEF ThreadRow
<1> HIDE DEF r
<1>2. /\ Soar!asking' = [Soar!asking EXCEPT ![t] = None] /\ Soar!wanted' = [Soar!wanted EXCEPT ![t] = None]
      /\ Soar!answer' = [Soar!answer EXCEPT ![t] = [at |-> at, end |-> e]]
  BY <1>1, Abstracted
<1>3. Soar!asking[t] = thread[t].asked /\ Soar!wanted[t] = thread[t].end
  BY DEF Soar!asking, Soar!wanted
<1>4. Soar!asking[t] # None
  BY <1>3 DEF Soar!Open, Begun, SoarInv, SoarTypes, ThreadOK, ThreadRow, Soar!ConstantsOK
<1> QED
  BY <1>2, <1>3, <1>4 DEF Soar!Freshness!Answer, Soar!Freshness!Near, Soar!Freshness!Close

LEMMA LookShown ==
  ASSUME Soar!ConstantsOK, SoarInv, NEW t \in Threads, Soar!Look(t)
  PROVE  Soar!Freshness!Answer(t) \/ UNCHANGED <<now, Soar!asking, Soar!wanted, Soar!answer>>
<1> DEFINE r == thread[t]
           e == cache[Soar!Key(r)]
<1>1. /\ r \in ThreadRow /\ r.pc = "look" /\ Soar!Open(t) /\ now \in Nat /\ now' = now
      /\ r.asked \in Nat /\ r.asked =< now /\ r.end \in Nat /\ r.end =< now
  BY DEF SoarInv, SoarTypes, Soar!Look, Soar!Ours, Soar!Open, ThreadOK, Begun
<1>2. CASE Soar!Hit(r)
  <2>1. /\ e.stamp \in Nat /\ e.at \in Nat /\ e.until \in Nat
        /\ e.stamp =< e.at /\ e.at =< now /\ e.until =< now
        /\ r.end \div CacheSeconds = e.until \div CacheSeconds
        /\ now - e.stamp < CacheSeconds
    BY <1>2 DEF SoarInv, CacheOK, Soar!Hit, Soar!Key
  <2>2. CacheSeconds \in Nat \ {0}
    BY DEF Soar!ConstantsOK
  <2>3. r.end - CacheSeconds < e.until /\ e.until < r.end + CacheSeconds
    BY <1>1, <2>1, <2>2
  <2>4. Soar!Be(t, [thread[t] EXCEPT !.pc = "answered", !.at = e.at, !.until = e.until])
    BY <1>2 DEF Soar!Look, Soar!Answer
  <2>5. e.at \in 0..now /\ e.until \in 0..now /\ r.asked - CacheSeconds < e.at
    BY <1>1, <2>1, <2>2
  <2> QED
    BY <1>1, <2>3, <2>4, <2>5, AnswerShown
<1>3. CASE ~Soar!Hit(r)
  <2> DEFINE s == [r EXCEPT !.pc = "client", !.stamp = now]
  <2>1. s \in ThreadRow /\ Soar!Be(t, s) /\ s.pc = "client" /\ s.asked = r.asked /\ s.end = r.end
    BY <1>1, <1>3 DEF Soar!Look, ThreadRow, Optional
  <2> HIDE DEF s
  <2> QED
    BY <1>1, <2>1, AtWork
<1> QED
  BY <1>2, <1>3

LEMMA PutShown ==
  ASSUME Soar!ConstantsOK, SoarInv, NEW t \in Threads, Soar!Put(t)
  PROVE  Soar!Freshness!Answer(t)
<1> DEFINE r == thread[t]
<1>1. /\ Soar!Open(t) /\ now \in Nat /\ now' = now
      /\ r.asked \in Nat /\ r.end \in Nat /\ r.end =< now /\ r.stamp \in Nat /\ r.at \in Nat
      /\ r.asked =< r.stamp /\ r.stamp =< r.at /\ r.at =< now
  BY DEF SoarInv, SoarTypes, Soar!Put, Soar!Ours, Soar!Open, ThreadOK, Begun
<1>2. CacheSeconds \in Nat \ {0}
  BY DEF Soar!ConstantsOK
<1>3. Soar!Be(t, [thread[t] EXCEPT !.pc = "answered", !.at = r.at, !.until = r.end])
  BY DEF Soar!Put, Soar!Answer
<1>4. /\ r.at \in 0..now /\ r.end \in 0..now /\ r.asked - CacheSeconds < r.at
      /\ r.end - CacheSeconds < r.end /\ r.end < r.end + CacheSeconds
  BY <1>1, <1>2
<1> QED
  BY <1>1, <1>3, <1>4, AnswerShown

\* A request that ends in an error.
LEMMA ErrorShown ==
  ASSUME Soar!ConstantsOK, SoarInv, NEW t \in Threads, Soar!Open(t), Soar!Be(t, Soar!Free), now' = now
  PROVE  Soar!Freshness!Refuse(t)
<1>1. Soar!Free \in ThreadRow /\ Soar!Free.pc = "free"
  BY DEF Soar!Free, ThreadRow, Optional
<1>2. /\ Soar!asking' = [Soar!asking EXCEPT ![t] = None] /\ Soar!wanted' = [Soar!wanted EXCEPT ![t] = None]
      /\ Soar!answer' = [Soar!answer EXCEPT ![t] = None]
  BY <1>1, Abstracted
<1>3. Soar!asking[t] # None
  <2>1. Soar!asking[t] = thread[t].asked
    BY DEF Soar!asking
  <2> QED
    BY <2>1 DEF Soar!Open, Begun, SoarInv, SoarTypes, ThreadOK, ThreadRow, Soar!ConstantsOK
<1>4. Soar!answer[t] = None
  BY DEF Soar!answer, Soar!Answers, Soar!Open
<1>5. Soar!answer = [Soar!answer EXCEPT ![t] = Soar!answer[t]]
  BY DEF Soar!answer
<1>6. Soar!answer' = Soar!answer
  BY <1>2, <1>4, <1>5
<1> QED
  BY <1>2, <1>3, <1>6 DEF Soar!Freshness!Refuse, Soar!Freshness!Close

LEMMA MovesUnseen ==
  ASSUME Soar!ConstantsOK, SoarInv, NEW t \in Threads,
         Soar!Client(t) \/ Soar!Login(t) \/ Soar!Search(t) \/ (Soar!Return(t) /\ client # None)
  PROVE  UNCHANGED <<now, Soar!asking, Soar!wanted, Soar!answer>>
<1> DEFINE r == thread[t]
<1>1. /\ r \in ThreadRow /\ now \in Nat /\ now' = now /\ Soar!Open(t)
      /\ client \in Optional
  BY DEF SoarInv, SoarTypes, Soar!Client, Soar!Login, Soar!Search, Soar!Return, Soar!Ours, Soar!Open
<1>2. PICK s \in ThreadRow :
        /\ Soar!Be(t, s) /\ s.pc \notin {"free", "answered"} /\ s.asked = r.asked /\ s.end = r.end
  <2>1. CASE Soar!Client(t)
    <3> DEFINE s == [r EXCEPT !.pc = IF client = None THEN "login" ELSE "return"]
    <3>1. s \in ThreadRow /\ s.pc \notin {"free", "answered"} /\ s.asked = r.asked /\ s.end = r.end
      BY <1>1 DEF ThreadRow
    <3> QED
      BY <2>1, <3>1 DEF Soar!Client
  <2>2. CASE Soar!Login(t)
    <3> DEFINE s == [r EXCEPT !.pc = "return"]
    <3>1. s \in ThreadRow /\ s.pc \notin {"free", "answered"} /\ s.asked = r.asked /\ s.end = r.end
      BY <1>1 DEF ThreadRow
    <3> QED
      BY <2>2, <3>1 DEF Soar!Login
  <2>3. CASE Soar!Search(t)
    <3> DEFINE s == [r EXCEPT !.pc = "put", !.at = now]
    <3>1. s \in ThreadRow /\ s.pc \notin {"free", "answered"} /\ s.asked = r.asked /\ s.end = r.end
      BY <1>1 DEF ThreadRow, Optional
    <3> QED
      BY <2>3, <3>1 DEF Soar!Search
  <2>4. CASE Soar!Return(t) /\ client # None
    <3> DEFINE s == [r EXCEPT !.pc = "search", !.mine = client]
    <3>1. s \in ThreadRow /\ s.pc \notin {"free", "answered"} /\ s.asked = r.asked /\ s.end = r.end
      BY <1>1 DEF ThreadRow
    <3> QED
      BY <2>4, <3>1 DEF Soar!Return
  <2> QED
    BY <2>1, <2>2, <2>3, <2>4
<1> QED
  BY <1>1, <1>2, AtWork

LEMMA ErrorsShown ==
  ASSUME Soar!ConstantsOK, SoarInv, NEW t \in Threads,
         Soar!LoginFails(t) \/ Soar!SearchRefused(t) \/ Soar!SearchBreaks(t) \/ (Soar!Return(t) /\ client = None)
  PROVE  Soar!Freshness!Refuse(t)
<1>1. Soar!Open(t) /\ Soar!Be(t, Soar!Free) /\ now' = now
  BY DEF Soar!LoginFails, Soar!SearchRefused, Soar!SearchBreaks, Soar!Return, Soar!Refuse, Soar!Drop, Soar!Ours, Soar!Open
<1> QED
  BY <1>1, ErrorShown

LEMMA FreshInit == Soar!Init => Soar!Freshness!Init
  BY DEF Soar!Init, Soar!Freshness!Init, Soar!asking, Soar!wanted, Soar!answer, Soar!Open, Soar!Answers, Soar!Free

LEMMA FreshStep ==
  Soar!ConstantsOK /\ SoarInv /\ [Soar!Next]_(Soar!vars) => [Soar!Freshness!Next]_<<now, Soar!asking, Soar!wanted, Soar!answer>>
<1> SUFFICES ASSUME Soar!ConstantsOK, SoarInv, [Soar!Next]_(Soar!vars)
             PROVE  Soar!Freshness!Next \/ UNCHANGED <<now, Soar!asking, Soar!wanted, Soar!answer>>
  OBVIOUS
<1>1. ASSUME thread' = thread PROVE UNCHANGED <<Soar!asking, Soar!wanted, Soar!answer>>
  BY <1>1 DEF Soar!asking, Soar!wanted, Soar!answer, Soar!Open, Soar!Answers
<1>2. CASE Soar!Tick
  BY <1>1, <1>2 DEF Soar!Tick, Soar!Freshness!Next, Soar!Freshness!Tick
<1>3. ASSUME NEW t \in Threads, NEW cached \in BOOLEAN, NEW name \in Names, NEW end \in {0, now},
             Soar!Ask(t, cached, name, end)
      PROVE  Soar!Freshness!Next
  BY <1>3, AskShown DEF Soar!Freshness!Next
<1>4. ASSUME NEW t \in Threads, Soar!Put(t) PROVE Soar!Freshness!Next
  BY <1>4, PutShown DEF Soar!Freshness!Next
<1>5. ASSUME NEW t \in Threads, Soar!LoginFails(t) \/ Soar!SearchRefused(t) \/ Soar!SearchBreaks(t) \/ (Soar!Return(t) /\ client = None)
      PROVE  Soar!Freshness!Next
  BY <1>5, ErrorsShown DEF Soar!Freshness!Next
<1>6. ASSUME NEW t \in Threads, Soar!Look(t) PROVE Soar!Freshness!Next \/ UNCHANGED <<now, Soar!asking, Soar!wanted, Soar!answer>>
  BY <1>6, LookShown DEF Soar!Freshness!Next
<1>7. CASE (\E c \in alive : Soar!Expire(c)) \/ UNCHANGED Soar!vars
  BY <1>1, <1>7 DEF Soar!Expire, Soar!vars
<1> QED
  BY <1>2, <1>3, <1>4, <1>5, <1>6, <1>7, MovesUnseen DEF Soar!Next

\* SoarConnector implements BoundedStaleness: _cached serves nothing as old as CACHE_SECONDS,
\* nor for a window whose end is as far from the one asked for.
THEOREM SoarIsFresh == Spec => SoarAnswersAreFresh
<1> USE ServicesAssumption
<1>1. Soar!Init => SoarInv
  BY SoarInit
<1>2. SoarInv /\ [Soar!Next]_(Soar!vars) => SoarInv'
  BY SoarStep
<1>3. SoarInv /\ [Soar!Next]_(Soar!vars) => [Soar!Freshness!Next]_<<now, Soar!asking, Soar!wanted, Soar!answer>>
  BY FreshStep
<1> QED
  BY <1>1, <1>2, <1>3, FreshInit, Parts, PTL
  DEF Soar!Spec, SoarAnswersAreFresh, Soar!AnswersAreFresh, Soar!Freshness!Spec, Soar!Freshness!vars

----------------------------------------------------------------------------
(* Usage counts.  A request tries at least twice, as range(2) has it.        *)

RequestRow == [pc : {"idle", "read", "commit"}, key : Nat \X (Kinds \cup {CHOOSE k \in Kinds : TRUE}),
               seen : Nat, left : Nat]

UsageTypes ==
  /\ day \in Nat /\ day =< LastDay
  /\ DOMAIN rows \subseteq Usage!Keys /\ \A k \in DOMAIN rows : rows[k] \in Nat \ {0}
  /\ rows = [k \in DOMAIN rows |-> rows[k]]
  /\ request \in [Requests -> RequestRow] /\ counted \in [Usage!Keys -> Nat]

\* The key a request counts is kept for as long as it is at work.
UnderWay(q) ==
  request[q].pc # "idle" => request[q].key \in Usage!Keys /\ request[q].key[1] >= day - KeepDays

\* What a request has read is no more than has been counted; the number of the row, unless
\* another has read it too; and a second try finds the row that beat the first.
SeenOK(q) ==
  LET r == request[q] IN
  /\ r.pc = "commit" =>
       /\ r.seen # 0 => r.seen =< counted[r.key] /\ r.key \in DOMAIN rows
       /\ r.seen # 0 /\ r.key \notin raced => rows[r.key] = r.seen
       /\ r.seen = 0 => r.left = Tries
  /\ r.pc = "read" => r.left \in Nat /\ (r.left # Tries => r.key \in DOMAIN rows)

\* Two requests that have read the same row are known.
RaceOK ==
  \A p, q \in Requests :
    p # q /\ request[p].pc = "commit" /\ request[q].pc = "commit"
    /\ request[p].key = request[q].key /\ request[p].seen # 0 /\ request[q].seen # 0
      => request[p].key \in raced

UsageInv ==
  /\ UsageTypes /\ (\A q \in Requests : UnderWay(q) /\ SeenOK(q)) /\ RaceOK
  /\ Usage!ViewsAreCounted

LEMMA UsageInit == Usage!ConstantsOK /\ Usage!Init => UsageInv
<1> SUFFICES ASSUME Usage!ConstantsOK, Usage!Init PROVE UsageInv
  OBVIOUS
<1>1. Usage!Idle \in RequestRow
  BY DEF Usage!Idle, Usage!NoRow, RequestRow
<1>2. rows = <<>> /\ DOMAIN rows = {} /\ rows = [k \in {} |-> rows[k]]
  BY DEF Usage!Init
<1>3. UsageTypes
  BY <1>1, <1>2 DEF UsageTypes, Usage!ConstantsOK, Usage!Init
<1>4. \A q \in Requests : request[q].pc = "idle"
  BY DEF Usage!Init, Usage!Idle
<1>5. Usage!ViewsAreCounted
  BY <1>2 DEF Usage!Init, Usage!ViewsAreCounted, Usage!Kept, Usage!Count
<1> QED
  BY <1>3, <1>4, <1>5 DEF UsageInv, UnderWay, SeenOK, RaceOK

LEMMA ViewStep ==
  ASSUME Usage!ConstantsOK, UsageInv, NEW q \in Requests, NEW kind \in Kinds, Usage!View(q, kind)
  PROVE  UsageInv'
<1> DEFINE s == [pc |-> "read", key |-> <<day, kind>>, seen |-> 0, left |-> Tries]
<1>1. s \in RequestRow /\ <<day, kind>> \in Usage!Keys
  BY DEF UsageInv, UsageTypes, Usage!ConstantsOK, RequestRow, Usage!Keys
<1>2. request' = [request EXCEPT ![q] = s] /\ UNCHANGED <<day, rows, counted, raced>>
  BY DEF Usage!View, Usage!NoRow
<1>3. request'[q] = s /\ \A p \in Requests \ {q} : request'[p] = request[p]
  BY <1>2 DEF UsageInv, UsageTypes
<1>4. UsageTypes'
  BY <1>1, <1>2 DEF UsageInv, UsageTypes, Usage!Keys
<1>5. UnderWay(q)' /\ SeenOK(q)'
  BY <1>1, <1>2, <1>3 DEF UnderWay, SeenOK, Usage!ConstantsOK, UsageInv, UsageTypes, Usage!Keys
<1>6. \A p \in Requests \ {q} : UnderWay(p)' /\ SeenOK(p)'
  BY <1>2, <1>3 DEF UnderWay, SeenOK, UsageInv, Usage!Keys
<1>7. RaceOK'
  BY <1>2, <1>3 DEF RaceOK, UsageInv
<1>8. Usage!ViewsAreCounted'
  BY <1>2 DEF UsageInv, Usage!ViewsAreCounted, Usage!Kept, Usage!Count, Usage!Keys
<1> QED
  BY <1>4, <1>5, <1>6, <1>7, <1>8 DEF UsageInv

LEMMA ReadStep ==
  ASSUME Usage!ConstantsOK, UsageInv, NEW q \in Requests, Usage!Read(q)
  PROVE  UsageInv'
<1> DEFINE r == request[q]
           k == r.key
           n == IF k \in DOMAIN rows THEN rows[k] ELSE 0
           s == [r EXCEPT !.pc = "commit", !.seen = n]
<1>1. r \in RequestRow /\ r.pc = "read" /\ UnderWay(q) /\ SeenOK(q) /\ n \in Nat /\ k \in Usage!Keys
  BY DEF UsageInv, UsageTypes, Usage!Read, UnderWay
<1>2. s \in RequestRow /\ s.pc = "commit" /\ s.key = k /\ s.seen = n /\ s.left = r.left
  BY <1>1 DEF RequestRow
<1>3. request' = [request EXCEPT ![q] = s] /\ UNCHANGED <<day, rows, counted>> /\ raced \subseteq raced'
  BY DEF Usage!Read, Usage!NoRow
<1> HIDE DEF s
<1>4. request'[q] = s /\ \A p \in Requests \ {q} : request'[p] = request[p]
  BY <1>3 DEF UsageInv, UsageTypes
<1>5. UsageTypes'
  BY <1>2, <1>3 DEF UsageInv, UsageTypes, Usage!Keys
<1>6. UnderWay(q)'
  BY <1>1, <1>2, <1>3, <1>4 DEF UnderWay, Usage!Keys
<1>7. SeenOK(q)'
  <2>1. n # 0 => k \in DOMAIN rows /\ n = rows[k]
    BY <1>1
  <2>2. n = 0 => k \notin DOMAIN rows
    BY <1>1 DEF UsageInv, UsageTypes
  <2>3. n # 0 => n =< counted[k]
    BY <1>1, <2>1 DEF UsageInv, Usage!ViewsAreCounted, Usage!Kept, Usage!Count, UnderWay
  <2>4. n = 0 => r.left = Tries
    BY <1>1, <2>2 DEF SeenOK
  <2> QED
    BY <1>2, <1>3, <1>4, <2>1, <2>3, <2>4 DEF SeenOK
<1>8. \A p \in Requests \ {q} : UnderWay(p)' /\ SeenOK(p)'
  BY <1>3, <1>4 DEF UnderWay, SeenOK, UsageInv, Usage!Keys
<1>9. RaceOK'
  <2>1. ASSUME NEW p \in Requests \ {q}, request[p].pc = "commit", request[p].key = k, request[p].seen # 0, n # 0
        PROVE  k \in raced'
    <3>1. k \in DOMAIN rows /\ p \in Usage!Busy
      BY <2>1 DEF Usage!Busy
    <3> QED
      BY <2>1, <3>1 DEF Usage!Read, Usage!NoRow
  <2> SUFFICES ASSUME NEW p \in Requests, NEW o \in Requests, p # o, request'[p].pc = "commit", request'[o].pc = "commit",
                      request'[p].key = request'[o].key, request'[p].seen # 0, request'[o].seen # 0
               PROVE  request'[p].key \in raced'
    BY DEF RaceOK
  <2>2. CASE p # q /\ o # q
    BY <1>3, <1>4, <2>2 DEF RaceOK, UsageInv
  <2>3. CASE p = q
    BY <1>2, <1>4, <2>1, <2>3
  <2>4. CASE o = q
    BY <1>2, <1>4, <2>1, <2>4
  <2> QED
    BY <2>2, <2>3, <2>4
<1>10. Usage!ViewsAreCounted'
  BY <1>3 DEF UsageInv, Usage!ViewsAreCounted, Usage!Kept, Usage!Count, Usage!Keys
<1> QED
  BY <1>5, <1>6, <1>7, <1>8, <1>9, <1>10 DEF UsageInv

\* An insert that lost the race goes round again.
LEMMA AgainStep ==
  ASSUME Usage!ConstantsOK, UsageInv, NEW q \in Requests, Usage!Commit(q),
         request[q].seen = 0, request[q].key \in DOMAIN rows
  PROVE  UsageInv'
<1> DEFINE r == request[q]
           s == [r EXCEPT !.pc = "read", !.left = r.left - 1]
<1>1. r \in RequestRow /\ r.pc = "commit" /\ UnderWay(q) /\ SeenOK(q)
  BY DEF UsageInv, UsageTypes, Usage!Commit
<1>2. r.left = Tries /\ r.left > 1 /\ r.left - 1 \in Nat
  BY <1>1 DEF SeenOK, Usage!ConstantsOK
<1>3. s \in RequestRow /\ s.pc = "read" /\ s.key = r.key
  BY <1>1, <1>2 DEF RequestRow
<1>4. request' = [request EXCEPT ![q] = s] /\ UNCHANGED <<day, rows, counted, raced>>
  BY <1>2 DEF Usage!Commit, Usage!NoRow
<1> HIDE DEF s
<1>5. request'[q] = s /\ \A p \in Requests \ {q} : request'[p] = request[p]
  BY <1>4 DEF UsageInv, UsageTypes
<1>6. UsageTypes'
  BY <1>3, <1>4 DEF UsageInv, UsageTypes, Usage!Keys
<1>7. UnderWay(q)' /\ SeenOK(q)'
  BY <1>1, <1>3, <1>4, <1>5, <1>6 DEF UnderWay, SeenOK, Usage!Keys, UsageTypes, RequestRow
<1>8. \A p \in Requests \ {q} : UnderWay(p)' /\ SeenOK(p)'
  BY <1>4, <1>5 DEF UnderWay, SeenOK, UsageInv, Usage!Keys
<1>9. RaceOK'
  BY <1>3, <1>4, <1>5 DEF RaceOK, UsageInv
<1>10. Usage!ViewsAreCounted'
  BY <1>4 DEF UsageInv, Usage!ViewsAreCounted, Usage!Kept, Usage!Count, Usage!Keys
<1> QED
  BY <1>6, <1>7, <1>8, <1>9, <1>10 DEF UsageInv

\* The number read, and one more, is written: over a row that is the same, unless it is
\* known to be raced.
LEMMA WriteStep ==
  ASSUME Usage!ConstantsOK, UsageInv, NEW q \in Requests, Usage!Commit(q),
         ~(request[q].seen = 0 /\ request[q].key \in DOMAIN rows)
  PROVE  UsageInv'
<1> DEFINE r == request[q]
           k == r.key
<1>1. r \in RequestRow /\ r.pc = "commit" /\ UnderWay(q) /\ SeenOK(q) /\ k \in Usage!Keys /\ r.seen \in Nat
      /\ counted[k] \in Nat
  BY DEF UsageInv, UsageTypes, Usage!Commit, UnderWay, RequestRow
<1>2. /\ rows' = [x \in DOMAIN rows \cup {k} |-> IF x = k THEN r.seen + 1 ELSE rows[x]]
      /\ request' = [request EXCEPT ![q] = Usage!Idle]
      /\ counted' = [counted EXCEPT ![k] = @ + 1]
      /\ day' = day /\ raced' = raced
  BY DEF Usage!Commit, Usage!NoRow, Usage!Write
<1>3. request'[q] = Usage!Idle /\ Usage!Idle.pc = "idle" /\ Usage!Idle \in RequestRow
      /\ \A p \in Requests \ {q} : request'[p] = request[p]
  BY <1>2 DEF UsageInv, UsageTypes, Usage!Idle, Usage!NoRow, RequestRow
<1>4. counted'[k] = counted[k] + 1 /\ counted' \in [Usage!Keys -> Nat]
      /\ \A x \in Usage!Keys \ {k} : counted'[x] = counted[x]
  BY <1>1, <1>2 DEF UsageInv, UsageTypes
<1>5. DOMAIN rows' = DOMAIN rows \cup {k} /\ rows'[k] = r.seen + 1
      /\ \A x \in DOMAIN rows \ {k} : rows'[x] = rows[x]
  BY <1>2
<1>6. UsageTypes'
  <2>1. \A x \in DOMAIN rows' : rows'[x] \in Nat \ {0}
    BY <1>1, <1>5 DEF UsageInv, UsageTypes
  <2>2. rows' = [x \in DOMAIN rows' |-> rows'[x]]
    BY <1>2
  <2> QED
    BY <1>1, <1>2, <1>3, <1>4, <1>5, <2>1, <2>2 DEF UsageInv, UsageTypes, Usage!Keys
<1>7. ASSUME NEW p \in Requests PROVE UnderWay(p)' /\ SeenOK(p)'
  <2>1. CASE p = q
    BY <1>3, <2>1 DEF UnderWay, SeenOK
  <2>2. CASE p # q /\ request[p].key # k
    <3>1. request'[p] = request[p] /\ UnderWay(p) /\ SeenOK(p)
      BY <1>3, <2>2 DEF UsageInv
    <3> QED
      BY <1>2, <1>4, <1>5, <2>2, <3>1 DEF UnderWay, SeenOK, Usage!Keys
  <2>3. CASE p # q /\ request[p].key = k
    <3>1. request'[p] = request[p] /\ UnderWay(p) /\ SeenOK(p) /\ request[p] \in RequestRow
      BY <1>3, <2>3 DEF UsageInv, UsageTypes
    <3>2. request[p].pc = "commit" /\ request[p].seen # 0 => k \in raced
      <4>1. ASSUME request[p].pc = "commit", request[p].seen # 0 PROVE k \in raced
        <5>1. k \in DOMAIN rows
          BY <2>3, <3>1, <4>1 DEF SeenOK
        <5>2. r.seen # 0
          BY <5>1
        <5> QED
          BY <1>1, <2>3, <4>1, <5>2 DEF UsageInv, RaceOK
      <4> QED
        BY <4>1
    <3>3. UnderWay(p)'
      BY <1>2, <3>1 DEF UnderWay, Usage!Keys
    <3>4. request[p].seen \in Nat
      BY <3>1 DEF RequestRow
    <3> QED
      BY <1>1, <1>2, <1>4, <1>5, <2>3, <3>1, <3>2, <3>3, <3>4 DEF SeenOK
  <2> QED
    BY <2>1, <2>2, <2>3
<1>8. RaceOK'
  BY <1>2, <1>3 DEF RaceOK, UsageInv
<1>9. Usage!ViewsAreCounted'
  <2> SUFFICES ASSUME NEW x \in Usage!Kept'
               PROVE  /\ Usage!Count(x)' =< counted'[x]
                      /\ x \notin raced => Usage!Count(x)' = counted'[x]
    BY <1>2 DEF Usage!ViewsAreCounted, Usage!Count
  <2>1. x \in Usage!Keys /\ x \in Usage!Kept
    BY <1>2 DEF Usage!Kept, Usage!Keys
  <2>2. Usage!Count(x) =< counted[x] /\ (x \notin raced => Usage!Count(x) = counted[x])
    BY <2>1 DEF UsageInv, Usage!ViewsAreCounted
  <2>3. CASE x # k
    BY <1>2, <1>4, <1>5, <2>1, <2>2, <2>3 DEF Usage!Count
  <2>4. CASE x = k
    <3>1. Usage!Count(x)' = r.seen + 1 /\ counted'[x] = counted[x] + 1
      BY <1>4, <1>5, <2>4 DEF Usage!Count
    <3>2. CASE r.seen = 0
      <4>1. Usage!Count(x) = 0
        BY <2>4, <3>2 DEF Usage!Count
      <4> QED
        BY <1>1, <2>2, <2>4, <3>1, <3>2, <4>1
    <3>3. CASE r.seen # 0
      <4>1. r.seen =< counted[k] /\ (k \notin raced => Usage!Count(k) = r.seen)
        BY <1>1, <3>3 DEF SeenOK, Usage!Count
      <4> QED
        BY <1>1, <2>2, <2>4, <3>1, <4>1
    <3> QED
      BY <3>2, <3>3
  <2> QED
    BY <2>3, <2>4
<1> QED
  BY <1>6, <1>7, <1>8, <1>9 DEF UsageInv

\* A report deletes rows no request under way counts in.
LEMMA ReportStep ==
  ASSUME Usage!ConstantsOK, UsageInv, Usage!Report
  PROVE  UsageInv'
<1> DEFINE left == {x \in DOMAIN rows : x[1] >= day - KeepDays}
<1>1. rows' = [k \in left |-> rows[k]] /\ UNCHANGED <<day, request, counted, raced>>
  BY DEF Usage!Report
<1>2. DOMAIN rows' = left /\ \A k \in left : rows'[k] = rows[k]
  BY <1>1
<1>3. UsageTypes'
  BY <1>1, <1>2 DEF UsageInv, UsageTypes, Usage!Keys
<1>4. ASSUME NEW q \in Requests PROVE UnderWay(q)' /\ SeenOK(q)'
  <2>1. UnderWay(q) /\ SeenOK(q)
    BY DEF UsageInv
  <2>2. request[q].pc # "idle" /\ request[q].key \in DOMAIN rows => request[q].key \in left
    BY <2>1 DEF UnderWay
  <2> QED
    BY <1>1, <1>2, <2>1, <2>2 DEF UnderWay, SeenOK, Usage!Keys
<1>5. RaceOK'
  BY <1>1 DEF RaceOK, UsageInv
<1>6. Usage!ViewsAreCounted'
  <2>1. Usage!Kept' = Usage!Kept
    BY <1>1 DEF Usage!Kept, Usage!Keys
  <2>2. ASSUME NEW k \in Usage!Kept PROVE Usage!Count(k)' = Usage!Count(k)
    BY <1>2 DEF Usage!Kept, Usage!Count
  <2> QED
    BY <1>1, <2>1, <2>2 DEF UsageInv, Usage!ViewsAreCounted
<1> QED
  BY <1>3, <1>4, <1>5, <1>6 DEF UsageInv

LEMMA NextDayStep ==
  ASSUME Usage!ConstantsOK, UsageInv, Usage!NextDay
  PROVE  UsageInv'
<1>1. day' = day + 1 /\ day < LastDay /\ UNCHANGED <<rows, request, counted, raced>>
  BY DEF Usage!NextDay
<1>2. UsageTypes'
  BY <1>1 DEF UsageInv, UsageTypes, Usage!ConstantsOK, Usage!Keys
<1>3. ASSUME NEW q \in Requests PROVE UnderWay(q)' /\ SeenOK(q)'
  <2>1. UnderWay(q) /\ SeenOK(q)
    BY DEF UsageInv
  <2>2. request[q].pc # "idle" => request[q].key[1] >= day + 1 - KeepDays
    BY DEF Usage!NextDay, Usage!Busy
  <2>3. UnderWay(q)'
    BY <1>1, <2>1, <2>2 DEF UnderWay, Usage!Keys, UsageInv, UsageTypes, Usage!ConstantsOK
  <2>4. SeenOK(q)'
    BY <1>1, <2>1 DEF SeenOK
  <2> QED
    BY <2>3, <2>4
<1>4. RaceOK'
  BY <1>1 DEF RaceOK, UsageInv
<1>5. Usage!ViewsAreCounted'
  <2>1. ASSUME NEW k \in Usage!Kept' PROVE k \in Usage!Kept
    BY <1>1 DEF Usage!Kept, Usage!Keys, UsageInv, UsageTypes, Usage!ConstantsOK
  <2> QED
    BY <1>1, <2>1 DEF UsageInv, Usage!ViewsAreCounted, Usage!Count
<1> QED
  BY <1>2, <1>3, <1>4, <1>5 DEF UsageInv

LEMMA UsageStep == Usage!ConstantsOK /\ UsageInv /\ [Usage!Next]_(Usage!vars) => UsageInv'
<1> SUFFICES ASSUME Usage!ConstantsOK, UsageInv, [Usage!Next]_(Usage!vars) PROVE UsageInv'
  OBVIOUS
<1>1. ASSUME NEW q \in Requests, Usage!Commit(q) PROVE UsageInv'
  BY <1>1, AgainStep, WriteStep
<1>2. CASE UNCHANGED Usage!vars
  BY <1>2 DEF Usage!vars, UsageInv, UsageTypes, UnderWay, SeenOK, RaceOK, Usage!ViewsAreCounted,
              Usage!Kept, Usage!Count, Usage!Keys
<1> QED
  BY <1>1, <1>2, ViewStep, ReadStep, ReportStep, NextDayStep DEF Usage!Next

\* record_view loses a view only to another that has read the same row, and never to the
\* race for the first row of a day; no view counts twice.
THEOREM UsageIsCounted == Spec => []ViewsAreCounted
<1> USE ServicesAssumption
<1>1. Usage!Init => UsageInv
  BY UsageInit
<1>2. UsageInv /\ [Usage!Next]_(Usage!vars) => UsageInv'
  BY UsageStep
<1>3. UsageInv => Usage!ViewsAreCounted
  BY DEF UsageInv
<1> QED
  BY <1>1, <1>2, <1>3, Parts, PTL DEF Usage!Spec, ViewsAreCounted

----------------------------------------------------------------------------
(* The throttle of sign-ins.                                                 *)

SignIn == [pc : {"out", "busy", "refused"}, address : Addresses \cup {""}, until : Int, failures : Nat]

\* The failures of a log that are out of the window are its first n.
Olds(q, n) ==
  /\ n \in 0..Len(q)
  /\ \A i \in 1..n : throttleNow - q[i] >= Window
  /\ n < Len(q) => throttleNow - q[n + 1] < Window

\* What is kept of a log has all but failures out of the window.
Forgets(kept, q) ==
  \E d \in 0..Len(q) :
    /\ kept \in Seq(Nat) /\ Len(kept) = Len(q) - d
    /\ \A i \in 1..Len(kept) : kept[i] = q[d + i]
    /\ \A i \in 1..d : throttleNow - q[i] >= Window

InTime(q) ==
  /\ q \in Seq(Nat) /\ \A i \in 1..Len(q) : q[i] =< throttleNow
  /\ \A i, j \in 1..Len(q) : i =< j => q[i] =< q[j]

KeptOf(x) == IF x \in DOMAIN fails THEN fails[x] ELSE <<>>
LetIn(x) == {a \in Attempts : attempt[a].pc = "busy" /\ attempt[a].address = x}

ThrottleTypes ==
  /\ throttleNow \in Nat /\ attempt \in [Attempts -> SignIn]
  /\ log = [x \in Addresses |-> log[x]] /\ \A x \in Addresses : InTime(log[x])
  /\ \A a \in Attempts : attempt[a].pc # "out" => attempt[a].address \in Addresses

FailsOK == \A x \in Addresses : Forgets(KeptOf(x), log[x])

\* Failures of a window, and sign-ins that may become failures.
CountOK ==
  \A x \in Addresses : \A n \in 0..Len(log[x]) :
    Olds(log[x], n) => Len(log[x]) - n + Cardinality(LetIn(x)) =< FailureLimit - 1 + Cardinality(Attempts)

\* Until has passed only when the failure that must leave the window has left it.
WaitOK ==
  \A a \in Attempts : attempt[a].pc = "refused" =>
    LET q == log[attempt[a].address]  n == attempt[a].failures IN
    /\ FailureLimit =< n /\ n =< Len(q)
    /\ q[n - FailureLimit + 1] + Window =< attempt[a].until

ThrottleInv == ThrottleTypes /\ FailsOK /\ CountOK /\ WaitOK

\* Some numbers have a smallest one: Nat is well founded.
LEMMA Smallest ==
  ASSUME NEW S \in SUBSET Nat, S # {}
  PROVE  \E m \in S : \A k \in S : m =< k
<1> DEFINE Less == {p \in Nat \X Nat : p[1] < p[2]}
<1>1. IsWellFoundedOn(Less, Nat)
  BY NatLessThanWellFounded DEF OpToRel
<1> HIDE DEF Less
<1>2. PICK m \in S : \A k \in S : <<k, m>> \notin Less
  BY <1>1, WFMin
<1>3. \A k \in S : <<k, m>> \in Less \/ m =< k
  BY DEF Less
<1> QED
  BY <1>2, <1>3

\* The loop of _trim ends, at the first failure within the window.
LEMMA SomeAreOld ==
  ASSUME NEW q \in Seq(Nat), throttleNow \in Nat, Window \in Nat
  PROVE  \E n \in 0..Len(q) : Olds(q, n)
<1> DEFINE L == Len(q)
           S == {n \in 0..L : n < L => throttleNow - q[n + 1] < Window}
<1>1. L \in Nat /\ \A i \in 1..L : q[i] \in Nat
  OBVIOUS
<1> HIDE DEF L
<1>2. S \in SUBSET Nat /\ L \in S
  BY <1>1
<1>3. PICK m \in S : \A k \in S : m =< k
  BY <1>2, Smallest
<1>4. ASSUME NEW i \in 1..m PROVE throttleNow - q[i] >= Window
  <2>1. m \in 0..L
    OBVIOUS
  <2>2. i - 1 \in 0..L /\ i - 1 < m /\ i - 1 < L /\ i - 1 + 1 = i /\ i \in 1..L
    BY <1>1, <2>1
  <2>3. i - 1 \notin S
    BY <1>3, <2>2
  <2>4. ~(throttleNow - q[i] < Window)
    BY <2>2, <2>3
  <2> QED
    BY <1>1, <2>2, <2>4
<1> QED
  BY <1>4 DEF Olds, L

LEMMA RecentIs ==
  ASSUME NEW q \in Seq(Nat), throttleNow \in Nat, Window \in Nat
  PROVE  \E n \in 0..Len(q) :
           /\ Olds(q, n) /\ Throttle!Recent(q) \in Seq(Nat) /\ Len(Throttle!Recent(q)) = Len(q) - n
           /\ \A i \in 1..Len(Throttle!Recent(q)) : Throttle!Recent(q)[i] = q[n + i]
<1> DEFINE P(n) == /\ \A i \in 1..n : throttleNow - q[i] >= Window
                   /\ n < Len(q) => throttleNow - q[n + 1] < Window
           n == CHOOSE m \in 0..Len(q) : P(m)
<1>1. \E m \in 0..Len(q) : P(m)
  BY SomeAreOld DEF Olds
<1>2. n \in 0..Len(q) /\ P(n)
  BY <1>1
<1>3. Throttle!Recent(q) = SubSeq(q, n + 1, Len(q))
  BY DEF Throttle!Recent
<1>4. Olds(q, n)
  BY <1>2 DEF Olds
<1> HIDE DEF n
<1>5. n \in Nat /\ Len(q) \in Nat /\ n =< Len(q)
  BY <1>2
<1>6. SubSeq(q, n + 1, Len(q)) \in Seq(Nat) /\ Len(SubSeq(q, n + 1, Len(q))) = Len(q) - n
  BY <1>5
<1>7. \A i \in 1..(Len(q) - n) : SubSeq(q, n + 1, Len(q))[i] = q[n + i]
  BY <1>5
<1> QED
  BY <1>2, <1>3, <1>4, <1>6, <1>7

\* A log in order of time has one number of failures out of the window.
LEMMA OldsAgree ==
  ASSUME throttleNow \in Nat, Window \in Nat, NEW q, InTime(q), NEW m, NEW n, Olds(q, m), Olds(q, n)
  PROVE  m = n
<1>1. m \in Nat /\ n \in Nat /\ Len(q) \in Nat /\ m =< Len(q) /\ n =< Len(q)
  BY DEF Olds, InTime
<1>2. \A i \in 1..Len(q) : q[i] \in Nat
  BY DEF InTime
<1>3. ~(m < n)
  BY <1>1, <1>2 DEF Olds
<1>4. ~(n < m)
  BY <1>1, <1>2 DEF Olds
<1> QED
  BY <1>1, <1>3, <1>4

\* Trimming what is kept leaves the failures within the window.
LEMMA TrimmedKept ==
  ASSUME throttleNow \in Nat, Window \in Nat, NEW q, InTime(q), NEW kept, Forgets(kept, q)
  PROVE  LET t == Throttle!Recent(kept) IN
         \E n \in 0..Len(q) :
           /\ Olds(q, n) /\ t \in Seq(Nat) /\ Len(t) = Len(q) - n
           /\ \A i \in 1..Len(t) : t[i] = q[n + i]
<1> DEFINE t == Throttle!Recent(kept)
<1>1. PICK d \in 0..Len(q) :
        /\ kept \in Seq(Nat) /\ Len(kept) = Len(q) - d
        /\ \A i \in 1..Len(kept) : kept[i] = q[d + i]
        /\ \A i \in 1..d : throttleNow - q[i] >= Window
  BY DEF Forgets
<1>2. PICK n \in 0..Len(kept) :
        /\ Olds(kept, n) /\ t \in Seq(Nat) /\ Len(t) = Len(kept) - n
        /\ \A i \in 1..Len(t) : t[i] = kept[n + i]
  BY <1>1, RecentIs
<1> HIDE DEF t
<1>3. Len(q) \in Nat /\ d \in Nat /\ n \in Nat /\ d + n \in 0..Len(q) /\ Len(kept) = Len(q) - d
  BY <1>1, <1>2 DEF InTime
<1>4. \A i \in 1..(d + n) : throttleNow - q[i] >= Window
  <2> SUFFICES ASSUME NEW i \in 1..(d + n) PROVE throttleNow - q[i] >= Window
    OBVIOUS
  <2>1. CASE i =< d
    BY <1>1, <1>3, <2>1
  <2>2. CASE i > d
    <3>1. i - d \in 1..n /\ i - d \in 1..Len(kept) /\ d + (i - d) = i
      BY <1>3, <2>2
    <3>2. kept[i - d] = q[i]
      BY <1>1, <3>1
    <3> QED
      BY <1>2, <3>1, <3>2 DEF Olds
  <2> QED
    BY <1>3, <2>1, <2>2
<1>5. d + n < Len(q) => throttleNow - q[d + n + 1] < Window
  <2> SUFFICES ASSUME d + n < Len(q) PROVE throttleNow - q[d + n + 1] < Window
    OBVIOUS
  <2>1. n + 1 \in 1..Len(kept) /\ n < Len(kept) /\ d + (n + 1) = d + n + 1
    BY <1>3
  <2>2. kept[n + 1] = q[d + n + 1]
    BY <1>1, <2>1
  <2> QED
    BY <1>2, <2>1, <2>2 DEF Olds
<1>6. Len(t) = Len(q) - (d + n)
  BY <1>2, <1>3
<1>7. ASSUME NEW i \in 1..Len(t) PROVE t[i] = q[d + n + i]
  <2>1. n + i \in 1..Len(kept) /\ d + (n + i) = d + n + i
    BY <1>2, <1>3, <1>6
  <2> QED
    BY <1>1, <1>2, <2>1
<1>8. Olds(q, d + n)
  BY <1>3, <1>4, <1>5 DEF Olds
<1> QED
  BY <1>2, <1>3, <1>6, <1>7, <1>8 DEF t

\* What the throttle sees of an address.
LEMMA TrimmedIs ==
  ASSUME Throttle!ConstantsOK, ThrottleInv, NEW x \in Addresses
  PROVE  LET t == Throttle!Trimmed(x)  q == log[x] IN
         \E n \in 0..Len(q) :
           /\ Olds(q, n) /\ t \in Seq(Nat) /\ Len(t) = Len(q) - n
           /\ \A i \in 1..Len(t) : t[i] = q[n + i]
<1>1. throttleNow \in Nat /\ Window \in Nat /\ InTime(log[x]) /\ Forgets(KeptOf(x), log[x])
  BY DEF Throttle!ConstantsOK, ThrottleInv, ThrottleTypes, FailsOK
<1>2. CASE x \in DOMAIN fails
  BY <1>1, <1>2, TrimmedKept DEF Throttle!Trimmed, KeptOf
<1>3. CASE x \notin DOMAIN fails
  <2>1. Throttle!Trimmed(x) = <<>> /\ KeptOf(x) = <<>>
    BY <1>3 DEF Throttle!Trimmed, KeptOf
  <2>2. PICK d \in 0..Len(log[x]) : 0 = Len(log[x]) - d /\ \A i \in 1..d : throttleNow - log[x][i] >= Window
    BY <1>1, <2>1 DEF Forgets
  <2>3. d = Len(log[x]) /\ Len(log[x]) \in Nat
    BY <1>1, <2>2 DEF InTime
  <2>4. Olds(log[x], d)
    BY <2>2, <2>3 DEF Olds
  <2> QED
    BY <2>1, <2>3, <2>4
<1> QED
  BY <1>2, <1>3

LEMMA TrimmedForgets ==
  ASSUME Throttle!ConstantsOK, ThrottleInv, NEW x \in Addresses
  PROVE  Throttle!Trimmed(x) \in Seq(Nat) /\ Forgets(Throttle!Trimmed(x), log[x])
<1>1. PICK n \in 0..Len(log[x]) :
        LET t == Throttle!Trimmed(x) IN
        /\ Olds(log[x], n) /\ t \in Seq(Nat) /\ Len(t) = Len(log[x]) - n
        /\ \A i \in 1..Len(t) : t[i] = log[x][n + i]
  BY TrimmedIs
<1> QED
  BY <1>1 DEF Forgets, Olds

\* A failure is recorded in the log and in what is kept.
LEMMA Appended ==
  ASSUME throttleNow \in Nat, NEW q, InTime(q), NEW kept, Forgets(kept, q)
  PROVE  InTime(Append(q, throttleNow)) /\ Forgets(Append(kept, throttleNow), Append(q, throttleNow))
<1> DEFINE b == Append(q, throttleNow)
<1>1. PICK d \in 0..Len(q) :
        /\ kept \in Seq(Nat) /\ Len(kept) = Len(q) - d
        /\ \A i \in 1..Len(kept) : kept[i] = q[d + i]
        /\ \A i \in 1..d : throttleNow - q[i] >= Window
  BY DEF Forgets
<1>2. /\ q \in Seq(Nat) /\ b \in Seq(Nat) /\ Len(q) \in Nat /\ Len(b) = Len(q) + 1 /\ b[Len(q) + 1] = throttleNow
      /\ \A i \in 1..Len(q) : b[i] = q[i] /\ q[i] \in Nat
  BY DEF InTime
<1>3. InTime(b)
  <2>1. \A i \in 1..Len(b) : b[i] =< throttleNow
    BY <1>2 DEF InTime
  <2>2. ASSUME NEW i \in 1..Len(b), NEW j \in 1..Len(b), i =< j PROVE b[i] =< b[j]
    <3>1. CASE j = Len(q) + 1
      BY <1>2, <2>1, <3>1
    <3>2. CASE j # Len(q) + 1
      <4>1. i \in 1..Len(q) /\ j \in 1..Len(q)
        BY <1>2, <2>2, <3>2
      <4> QED
        BY <1>2, <2>2, <4>1 DEF InTime
    <3> QED
      BY <3>1, <3>2
  <2> QED
    BY <1>2, <2>1, <2>2 DEF InTime
<1>4. /\ Append(kept, throttleNow) \in Seq(Nat) /\ Len(Append(kept, throttleNow)) = Len(kept) + 1
      /\ Append(kept, throttleNow)[Len(kept) + 1] = throttleNow
      /\ \A i \in 1..Len(kept) : Append(kept, throttleNow)[i] = kept[i]
  BY <1>1
<1>5. ASSUME NEW i \in 1..(Len(kept) + 1) PROVE Append(kept, throttleNow)[i] = b[d + i]
  <2>1. CASE i = Len(kept) + 1
    <3>1. d + i = Len(q) + 1
      BY <1>1, <1>2, <2>1
    <3> QED
      BY <1>2, <1>4, <2>1, <3>1
  <2>2. CASE i # Len(kept) + 1
    <3>1. i \in 1..Len(kept) /\ d + i \in 1..Len(q)
      BY <1>1, <1>2, <2>2
    <3> QED
      BY <1>1, <1>2, <1>4, <3>1
  <2> QED
    BY <2>1, <2>2
<1>6. d \in 0..Len(b) /\ Len(Append(kept, throttleNow)) = Len(b) - d /\ \A i \in 1..d : throttleNow - b[i] >= Window
  BY <1>1, <1>2, <1>4
<1>7. Forgets(Append(kept, throttleNow), b)
  <2> HIDE DEF b
  <2> QED
    BY <1>4, <1>5, <1>6 DEF Forgets
<1> QED
  BY <1>3, <1>7

LEMMA OldsAppended ==
  ASSUME Throttle!ConstantsOK, throttleNow \in Nat, NEW q \in Seq(Nat), NEW n, Olds(Append(q, throttleNow), n)
  PROVE  n \in 0..Len(q) /\ Olds(q, n)
<1> DEFINE b == Append(q, throttleNow)
<1>1. /\ Len(q) \in Nat /\ Len(b) = Len(q) + 1 /\ b[Len(q) + 1] = throttleNow
      /\ \A i \in 1..Len(q) : b[i] = q[i] /\ q[i] \in Nat
  OBVIOUS
<1> HIDE DEF b
<1>2. n \in 0..Len(b) /\ (\A i \in 1..n : throttleNow - b[i] >= Window) /\ (n < Len(b) => throttleNow - b[n + 1] < Window)
  BY DEF Olds, b
<1>3. n # Len(q) + 1
  <2>1. ~(throttleNow - throttleNow >= Window)
    BY DEF Throttle!ConstantsOK
  <2> QED
    BY <1>1, <1>2, <2>1
<1>4. n \in 0..Len(q)
  BY <1>1, <1>2, <1>3
<1>5. \A i \in 1..n : throttleNow - q[i] >= Window
  BY <1>1, <1>2, <1>4
<1>6. n < Len(q) => throttleNow - q[n + 1] < Window
  <2> SUFFICES ASSUME n < Len(q) PROVE throttleNow - q[n + 1] < Window
    OBVIOUS
  <2>1. n + 1 \in 1..Len(q) /\ n < Len(b)
    BY <1>1, <1>4
  <2> QED
    BY <1>1, <1>2, <2>1
<1> QED
  BY <1>4, <1>5, <1>6 DEF Olds

\* The operator of an instance and that of FiniteSets are one.
LEMMA SameCardinality ==
  ASSUME NEW S
  PROVE  Throttle!Cardinality(S) = Cardinality(S)
  BY DEF Throttle!Cardinality, Cardinality

LEMMA AttemptsFinite == Throttle!ConstantsOK => IsFiniteSet(Attempts)
  BY DEF Throttle!ConstantsOK, Throttle!IsFiniteSet, IsFiniteSet

\* The sign-ins let in, and their number.
LEMMA LetInFinite ==
  ASSUME Throttle!ConstantsOK, NEW x
  PROVE  /\ IsFiniteSet(LetIn(x)) /\ Cardinality(LetIn(x)) \in Nat /\ Cardinality(Attempts) \in Nat
         /\ Cardinality(LetIn(x)) =< Cardinality(Attempts)
  BY AttemptsFinite, FS_Subset, FS_CardinalityType DEF LetIn

LEMMA OutIs == Throttle!Out \in SignIn /\ Throttle!Out.pc = "out"
  BY DEF Throttle!Out, SignIn

LEMMA BusyIs ==
  ASSUME NEW x \in Addresses
  PROVE  LET s == [pc |-> "busy", address |-> x, until |-> 0, failures |-> 0]
         IN  s \in SignIn /\ s.pc # "out" /\ s.address = x
<1> DEFINE s == [pc |-> "busy", address |-> x, until |-> 0, failures |-> 0]
<1>1. s \in SignIn
  <2> DEFINE A == Addresses \cup {""}
             P == {"out", "busy", "refused"}
  <2>1. x \in A /\ "busy" \in P
    BY Zenon
  <2> HIDE DEF A, P
  <2>2. s \in [pc : P, address : A, until : Int, failures : Nat]
    BY <2>1
  <2> QED
    BY <2>2 DEF SignIn, A, P
<1>2. s.pc = "busy"
  OBVIOUS
<1>3. s.address = x
  OBVIOUS
<1> HIDE DEF s
<1>4. s.pc # "out"
  BY <1>2
<1> QED
  BY <1>1, <1>3, <1>4 DEF s

LEMMA ThrottleInit == Throttle!ConstantsOK /\ Throttle!Init => ThrottleInv
<1> SUFFICES ASSUME Throttle!ConstantsOK, Throttle!Init PROVE ThrottleInv
  OBVIOUS
<1>1. \A x \in Addresses : log[x] = <<>> /\ Len(log[x]) = 0 /\ log[x] \in Seq(Nat)
  BY DEF Throttle!Init
<1>2. \A a \in Attempts : attempt[a].pc = "out"
  BY DEF Throttle!Init, Throttle!Out
<1>3. ThrottleTypes
  <2>1. Throttle!Out \in SignIn
    BY DEF Throttle!Out, SignIn
  <2>2. \A x \in Addresses : InTime(log[x])
    BY <1>1 DEF InTime
  <2> QED
    BY <1>2, <2>1, <2>2 DEF Throttle!Init, ThrottleTypes
<1>4. FailsOK
  <2>1. \A x \in Addresses : KeptOf(x) = <<>>
    BY DEF Throttle!Init, KeptOf
  <2>2. Forgets(<<>>, <<>>)
    BY DEF Forgets
  <2> QED
    BY <1>1, <2>1, <2>2 DEF FailsOK
<1>5. CountOK
  <2>1. \A x \in Addresses : LetIn(x) = {}
    BY <1>2 DEF LetIn
  <2>2. Cardinality({}) = 0 /\ Cardinality(Attempts) \in Nat
    BY AttemptsFinite, FS_EmptySet, FS_CardinalityType
  <2> SUFFICES ASSUME NEW x \in Addresses, NEW n \in 0..Len(log[x])
               PROVE  Len(log[x]) - n + Cardinality(LetIn(x)) =< FailureLimit - 1 + Cardinality(Attempts)
    BY DEF CountOK
  <2>3. Len(log[x]) = 0 /\ n \in 0..0
    BY <1>1
  <2>4. n = 0
    BY <2>3
  <2>5. Cardinality(LetIn(x)) = 0
    BY <2>1, <2>2
  <2>6. FailureLimit - 1 >= 0
    BY DEF Throttle!ConstantsOK
  <2> QED
    BY <2>2, <2>3, <2>4, <2>5, <2>6 DEF Throttle!ConstantsOK
<1>6. WaitOK
  BY <1>2 DEF WaitOK
<1> QED
  BY <1>3, <1>4, <1>5, <1>6 DEF ThrottleInv

\* An address is looked up: refused, or let in.
LEMMA BeginStep ==
  ASSUME Throttle!ConstantsOK, ThrottleInv, NEW a \in Attempts, NEW x \in Addresses, Throttle!Begin(a, x)
  PROVE  ThrottleInv'
<1> DEFINE t == Throttle!Trimmed(x)
           q == log[x]
           s == IF Throttle!Refused(x)
                THEN [pc |-> "refused", address |-> x, until |-> throttleNow + Throttle!Wait(x), failures |-> Len(log[x])]
                ELSE [Throttle!Out EXCEPT !.pc = "busy", !.address = x]
<1>1. /\ throttleNow \in Nat /\ FailureLimit \in Nat \ {0} /\ Window \in Nat \ {0} /\ attempt \in [Attempts -> SignIn]
      /\ q \in Seq(Nat) /\ Len(q) \in Nat
  BY DEF ThrottleInv, ThrottleTypes, Throttle!ConstantsOK, InTime
<1>2. PICK n \in 0..Len(q) :
        /\ Olds(q, n) /\ t \in Seq(Nat) /\ Len(t) = Len(q) - n
        /\ \A i \in 1..Len(t) : t[i] = q[n + i]
  BY TrimmedIs
<1>3. /\ throttleNow' = throttleNow /\ log' = log /\ attempt' = [attempt EXCEPT ![a] = s] /\ attempt[a].pc # "busy"
      /\ fails' = IF t = <<>> THEN Throttle!Without(fails, {x}) ELSE Throttle!Entry(fails, x, t)
  BY DEF Throttle!Begin
<1>4. Throttle!Refused(x) =>
        /\ FailureLimit =< Len(q) /\ Throttle!Wait(x) \in Int
        /\ q[Len(q) - FailureLimit + 1] + Window =< throttleNow + Throttle!Wait(x)
  <2> SUFFICES ASSUME Throttle!Refused(x)
               PROVE  /\ FailureLimit =< Len(q) /\ Throttle!Wait(x) \in Int
                      /\ q[Len(q) - FailureLimit + 1] + Window =< throttleNow + Throttle!Wait(x)
    OBVIOUS
  <2> DEFINE i == Len(t) - FailureLimit + 1
             w == Window - (throttleNow - t[i]) + 1
  <2>1. Len(t) >= FailureLimit /\ Len(t) \in Nat
    BY <1>2 DEF Throttle!Refused
  <2>2. i \in 1..Len(t) /\ t[i] = q[Len(q) - FailureLimit + 1] /\ t[i] \in Nat /\ FailureLimit =< Len(q)
    <3>1. i \in 1..Len(t) /\ n + i = Len(q) - FailureLimit + 1 /\ FailureLimit =< Len(q)
      BY <1>1, <1>2, <2>1
    <3> HIDE DEF i, t, q
    <3>2. t[i] = q[n + i] /\ t[i] \in Nat
      BY <1>2, <3>1
    <3> QED
      BY <3>1, <3>2
  <2>3. Throttle!Wait(x) = Throttle!Max({1, w})
    BY DEF Throttle!Wait
  <2> HIDE DEF i, t
  <2>4. w \in Int /\ throttleNow + w = Window + t[i] + 1
    <3>1. \A k \in Nat : /\ Window - (throttleNow - k) + 1 \in Int
                        /\ throttleNow + (Window - (throttleNow - k) + 1) = Window + k + 1
      BY <1>1
    <3> QED
      BY <2>2, <3>1
  <2> HIDE DEF w
  <2>5. \E m \in {1, w} : \A k \in {1, w} : m >= k
    BY <2>4
  <2>6. Throttle!Max({1, w}) \in {1, w} /\ \A k \in {1, w} : Throttle!Max({1, w}) >= k
    BY <2>5 DEF Throttle!Max
  <2>7. Throttle!Wait(x) \in Int /\ Throttle!Wait(x) >= w
    BY <2>3, <2>4, <2>6
  <2>8. q[Len(q) - FailureLimit + 1] + Window =< throttleNow + Throttle!Wait(x)
    <3>1. \A k \in Nat : \A v \in Int : k + Window + 1 =< throttleNow + v => k + Window =< throttleNow + v
      BY <1>1
    <3>2. t[i] + Window + 1 =< throttleNow + Throttle!Wait(x)
      <4>1. \A k \in Nat : \A u, v \in Int : throttleNow + u = Window + k + 1 /\ v >= u => k + Window + 1 =< throttleNow + v
        BY <1>1
      <4> QED
        BY <2>2, <2>4, <2>7, <4>1
    <3> QED
      BY <2>2, <2>7, <3>1, <3>2
  <2> QED
    BY <2>2, <2>7, <2>8
<1>5. s \in SignIn /\ s.pc # "out" /\ s.address = x
  <2>1. CASE Throttle!Refused(x)
    <3>1. throttleNow + Throttle!Wait(x) \in Int
      BY <1>1, <1>4, <2>1
    <3> QED
      BY <1>1, <2>1, <3>1 DEF SignIn
  <2>2. CASE ~Throttle!Refused(x)
    <3>1. s = [pc |-> "busy", address |-> x, until |-> 0, failures |-> 0]
      BY <2>2 DEF Throttle!Out
    <3> HIDE DEF s
    <3> QED
      BY <3>1, BusyIs
  <2> QED
    BY <2>1, <2>2
<1>6. s.pc = "refused" => Throttle!Refused(x) /\ s.until = throttleNow + Throttle!Wait(x) /\ s.failures = Len(q)
  BY DEF Throttle!Out
<1>7. s.pc = "busy" => ~Throttle!Refused(x)
  OBVIOUS
<1> HIDE DEF s
<1>8. attempt'[a] = s /\ \A b \in Attempts \ {a} : attempt'[b] = attempt[b]
  BY <1>1, <1>3
<1>9. ThrottleTypes'
  BY <1>1, <1>3, <1>5, <1>8 DEF ThrottleInv, ThrottleTypes, InTime
<1>10. FailsOK'
  <2>1. KeptOf(x)' = t
    BY <1>3 DEF KeptOf, Throttle!Without, Throttle!Entry
  <2>2. ASSUME NEW y \in Addresses, y # x PROVE KeptOf(y)' = KeptOf(y)
    BY <1>3, <2>2 DEF KeptOf, Throttle!Without, Throttle!Entry
  <2>3. Forgets(t, log[x])
    BY TrimmedForgets
  <2> HIDE DEF t
  <2>4. ASSUME NEW y \in Addresses PROVE Forgets(KeptOf(y), log[y])'
    <3>1. Forgets(KeptOf(y)', log[y])
      BY <2>1, <2>2, <2>3 DEF ThrottleInv, FailsOK
    <3> QED
      BY <1>3, <3>1 DEF Forgets
  <2> QED
    BY <2>4 DEF FailsOK
<1>11. CountOK'
  <2> SUFFICES ASSUME NEW y \in Addresses, NEW m \in 0..Len(log[y]), Olds(log[y], m)
               PROVE  Len(log[y]) - m + Cardinality(LetIn(y)') =< FailureLimit - 1 + Cardinality(Attempts)
    BY <1>3 DEF CountOK, Olds
  <2>1. CASE y = x /\ s.pc = "busy"
    <3>1. m = n
      BY <1>1, <1>2, <2>1, OldsAgree DEF ThrottleInv, ThrottleTypes
    <3>2. Len(q) - n < FailureLimit
      BY <1>1, <1>2, <1>7, <2>1 DEF Throttle!Refused
    <3>3. LetIn(y)' \subseteq Attempts
      BY DEF LetIn
    <3>4. Cardinality(LetIn(y)') =< Cardinality(Attempts) /\ Cardinality(LetIn(y)') \in Nat /\ Cardinality(Attempts) \in Nat
      BY <3>3, AttemptsFinite, FS_Subset, FS_CardinalityType
    <3> QED
      BY <1>1, <2>1, <3>1, <3>2, <3>4
  <2>2. CASE ~(y = x /\ s.pc = "busy")
    <3>1. LetIn(y)' = LetIn(y)
      BY <1>3, <1>5, <1>8, <2>2 DEF LetIn
    <3> QED
      BY <3>1 DEF ThrottleInv, CountOK
  <2> QED
    BY <2>1, <2>2
<1>12. WaitOK'
  <2>1. ASSUME NEW b \in Attempts, attempt'[b].pc = "refused", b = a
        PROVE  /\ FailureLimit =< attempt'[b].failures /\ attempt'[b].failures =< Len(log[attempt'[b].address])
               /\ log[attempt'[b].address][attempt'[b].failures - FailureLimit + 1] + Window =< attempt'[b].until
    <3>1. attempt'[b] = s /\ s.pc = "refused"
      BY <1>8, <2>1
    <3>2. Throttle!Refused(x) /\ s.until = throttleNow + Throttle!Wait(x) /\ s.failures = Len(log[x]) /\ s.address = x
      BY <1>5, <1>6, <3>1
    <3>3. /\ FailureLimit =< Len(log[x])
          /\ log[x][Len(log[x]) - FailureLimit + 1] + Window =< throttleNow + Throttle!Wait(x)
      BY <1>4, <3>2
    <3> QED
      BY <1>1, <3>1, <3>2, <3>3
  <2>2. ASSUME NEW b \in Attempts, attempt'[b].pc = "refused", b # a
        PROVE  /\ FailureLimit =< attempt'[b].failures /\ attempt'[b].failures =< Len(log[attempt'[b].address])
               /\ log[attempt'[b].address][attempt'[b].failures - FailureLimit + 1] + Window =< attempt'[b].until
    BY <1>8, <2>2 DEF ThrottleInv, WaitOK
  <2> QED
    BY <1>3, <2>1, <2>2 DEF WaitOK
<1> QED
  BY <1>9, <1>10, <1>11, <1>12 DEF ThrottleInv

\* A failure: one more in the log, one sign-in less that may become one.
LEMMA FailStep ==
  ASSUME Throttle!ConstantsOK, ThrottleInv, NEW a \in Attempts, Throttle!Fail(a)
  PROVE  ThrottleInv'
<1> DEFINE x == attempt[a].address
           purge == Throttle!Cardinality(DOMAIN fails) > MaxKeys
           kept == IF purge
                   THEN [y \in {z \in DOMAIN fails : Throttle!Trimmed(z) # <<>>} |-> Throttle!Trimmed(y)]
                   ELSE fails
<1>1. /\ throttleNow \in Nat /\ FailureLimit \in Nat \ {0} /\ Window \in Nat \ {0} /\ attempt \in [Attempts -> SignIn]
      /\ attempt[a].pc = "busy" /\ x \in Addresses /\ log = [y \in Addresses |-> log[y]]
  BY DEF ThrottleInv, ThrottleTypes, Throttle!ConstantsOK, Throttle!Fail
<1>2. /\ throttleNow' = throttleNow /\ log' = [log EXCEPT ![x] = Append(@, throttleNow)]
      /\ attempt' = [attempt EXCEPT ![a] = Throttle!Out]
      /\ fails' = Throttle!Entry(kept, x, Append(Throttle!Trimmed(x), throttleNow))
  BY DEF Throttle!Fail
<1>3. attempt'[a] = Throttle!Out /\ Throttle!Out \in SignIn /\ Throttle!Out.pc = "out"
      /\ \A b \in Attempts \ {a} : attempt'[b] = attempt[b]
  BY <1>1, <1>2, OutIs
<1>4. log'[x] = Append(log[x], throttleNow) /\ \A y \in Addresses \ {x} : log'[y] = log[y]
  BY <1>1, <1>2
<1>5. InTime(log[x]) /\ log[x] \in Seq(Nat) /\ Len(log[x]) \in Nat
  BY <1>1 DEF ThrottleInv, ThrottleTypes, InTime
<1>6. Forgets(Throttle!Trimmed(x), log[x])
  BY <1>1, TrimmedForgets
<1>7. InTime(Append(log[x], throttleNow)) /\ Forgets(Append(Throttle!Trimmed(x), throttleNow), Append(log[x], throttleNow))
  BY <1>1, <1>5, <1>6, Appended
<1>8. ASSUME NEW y \in Addresses PROVE InTime(log'[y])
  BY <1>1, <1>4, <1>7 DEF ThrottleInv, ThrottleTypes
<1>9. ThrottleTypes'
  BY <1>1, <1>2, <1>3, <1>8 DEF ThrottleInv, ThrottleTypes, InTime
<1>10. ASSUME NEW y \in Addresses PROVE Forgets(KeptOf(y)', log'[y])
  <2>1. CASE y = x
    <3>1. KeptOf(y)' = Append(Throttle!Trimmed(y), throttleNow)
      BY <1>2, <2>1 DEF KeptOf, Throttle!Entry
    <3>2. log'[y] = Append(log[y], throttleNow) /\ Forgets(Append(Throttle!Trimmed(y), throttleNow), Append(log[y], throttleNow))
      BY <1>4, <1>7, <2>1
    <3> QED
      BY <3>1, <3>2
  <2>2. CASE y # x /\ purge
    <3>1. Forgets(Throttle!Trimmed(y), log[y])
      BY TrimmedForgets
    <3>2. KeptOf(y)' = IF y \in DOMAIN kept THEN kept[y] ELSE <<>>
      BY <1>2, <2>2 DEF KeptOf, Throttle!Entry
    <3>3. y \in DOMAIN kept => kept[y] = Throttle!Trimmed(y)
      BY <2>2
    <3>4. y \notin DOMAIN kept => Throttle!Trimmed(y) = <<>>
      <4>1. CASE y \in DOMAIN fails
        BY <2>2, <4>1
      <4>2. CASE y \notin DOMAIN fails
        BY <4>2 DEF Throttle!Trimmed
      <4> QED
        BY <4>1, <4>2
    <3> QED
      BY <1>4, <2>2, <3>1, <3>2, <3>3, <3>4
  <2>3. CASE y # x /\ ~purge
    <3>1. KeptOf(y)' = KeptOf(y)
      BY <1>2, <2>3 DEF KeptOf, Throttle!Entry
    <3> QED
      BY <1>4, <2>3, <3>1 DEF ThrottleInv, FailsOK
  <2> QED
    BY <2>1, <2>2, <2>3
<1>11. FailsOK'
  BY <1>2, <1>10 DEF FailsOK, Forgets
<1>12. CountOK'
  <2> SUFFICES ASSUME NEW y \in Addresses, NEW m \in 0..Len(log'[y]), Olds(log'[y], m)
               PROVE  Len(log'[y]) - m + Cardinality(LetIn(y)') =< FailureLimit - 1 + Cardinality(Attempts)
    BY <1>2 DEF CountOK, Olds
  <2>1. CASE y = x
    <3>1. m \in 0..Len(log[x]) /\ Olds(log[x], m)
      <4>1. log'[y] = Append(log[x], throttleNow) /\ log[x] \in Seq(Nat) /\ throttleNow \in Nat
        BY <1>1, <1>4, <1>5, <2>1
      <4>2. Olds(Append(log[x], throttleNow), m)
        BY <4>1
      <4> QED
        BY <4>1, <4>2, OldsAppended
    <3>2. Len(log[x]) - m + Cardinality(LetIn(x)) =< FailureLimit - 1 + Cardinality(Attempts)
      BY <1>1, <3>1 DEF ThrottleInv, CountOK
    <3>3. LetIn(y)' = LetIn(y) \ {a} /\ a \in LetIn(y)
      BY <1>1, <1>3, <2>1 DEF LetIn
    <3>4. Cardinality(LetIn(y)') = Cardinality(LetIn(y)) - 1 /\ Cardinality(LetIn(y)) \in Nat
      BY <3>3, LetInFinite, FS_RemoveElement
    <3>5. Len(log'[y]) = Len(log[y]) + 1 /\ Len(log[y]) \in Nat /\ m \in Nat
      BY <1>4, <1>5, <2>1, <3>1
    <3>6. Len(log[y]) - m + Cardinality(LetIn(y)) =< FailureLimit - 1 + Cardinality(Attempts)
      BY <2>1, <3>2
    <3>7. Cardinality(Attempts) \in Nat
      BY LetInFinite
    <3> QED
      BY <1>1, <3>4, <3>5, <3>6, <3>7
  <2>2. CASE y # x
    <3>1. LetIn(y)' = LetIn(y)
      BY <1>1, <1>3, <2>2 DEF LetIn
    <3> QED
      BY <1>4, <2>2, <3>1 DEF ThrottleInv, CountOK
  <2> QED
    BY <2>1, <2>2
<1>13. WaitOK'
  <2> SUFFICES ASSUME NEW b \in Attempts, attempt'[b].pc = "refused"
               PROVE  LET q == log'[attempt'[b].address]  n == attempt'[b].failures IN
                      /\ FailureLimit =< n /\ n =< Len(q)
                      /\ q[n - FailureLimit + 1] + Window =< attempt'[b].until
    BY DEF WaitOK
  <2> DEFINE y == attempt[b].address
             n == attempt[b].failures
  <2>1. /\ attempt'[b] = attempt[b] /\ y \in Addresses /\ n \in Nat
        /\ FailureLimit =< n /\ n =< Len(log[y])
        /\ log[y][n - FailureLimit + 1] + Window =< attempt[b].until
    BY <1>1, <1>3 DEF ThrottleInv, ThrottleTypes, WaitOK, SignIn
  <2>2. CASE y = x
    <3>1. n - FailureLimit + 1 \in 1..Len(log[x]) /\ Len(log'[x]) = Len(log[x]) + 1
      BY <1>1, <1>4, <1>5, <2>1, <2>2
    <3>2. log'[x][n - FailureLimit + 1] = log[x][n - FailureLimit + 1]
      BY <1>1, <1>4, <1>5, <3>1
    <3> QED
      BY <1>5, <2>1, <2>2, <3>1, <3>2
  <2>3. CASE y # x
    BY <1>4, <2>1, <2>3
  <2> QED
    BY <2>2, <2>3
<1> QED
  BY <1>9, <1>11, <1>12, <1>13 DEF ThrottleInv

LEMMA LeaveStep ==
  ASSUME Throttle!ConstantsOK, ThrottleInv, NEW a \in Attempts, Throttle!Leave(a)
  PROVE  ThrottleInv'
<1>1. /\ throttleNow' = throttleNow /\ log' = log /\ fails' = fails /\ attempt \in [Attempts -> SignIn]
      /\ attempt' = [attempt EXCEPT ![a] = Throttle!Out]
  BY DEF Throttle!Leave, ThrottleInv, ThrottleTypes
<1>2. attempt'[a] = Throttle!Out /\ Throttle!Out \in SignIn /\ Throttle!Out.pc = "out"
      /\ \A b \in Attempts \ {a} : attempt'[b] = attempt[b]
  BY <1>1, OutIs
<1>3. ThrottleTypes'
  BY <1>1, <1>2 DEF ThrottleInv, ThrottleTypes, InTime
<1>4. FailsOK' /\ WaitOK'
  BY <1>1, <1>2 DEF ThrottleInv, FailsOK, KeptOf, Forgets, WaitOK
<1>5. CountOK'
  <2> SUFFICES ASSUME NEW y \in Addresses, NEW m \in 0..Len(log[y]), Olds(log[y], m)
               PROVE  Len(log[y]) - m + Cardinality(LetIn(y)') =< FailureLimit - 1 + Cardinality(Attempts)
    BY <1>1 DEF CountOK, Olds
  <2>1. LetIn(y)' \subseteq LetIn(y)
    BY <1>2 DEF LetIn
  <2>2. Cardinality(LetIn(y)') =< Cardinality(LetIn(y)) /\ Cardinality(LetIn(y)') \in Nat
    BY <2>1, LetInFinite, FS_Subset, FS_CardinalityType
  <2>3. Len(log[y]) - m + Cardinality(LetIn(y)) =< FailureLimit - 1 + Cardinality(Attempts)
    BY DEF ThrottleInv, CountOK
  <2>4. Len(log[y]) \in Nat /\ FailureLimit \in Nat
    BY DEF ThrottleInv, ThrottleTypes, InTime, Throttle!ConstantsOK
  <2> QED
    BY <2>2, <2>3, <2>4, LetInFinite
<1> QED
  BY <1>3, <1>4, <1>5 DEF ThrottleInv

\* Time only takes failures out of the window.
LEMMA ThrottleTick ==
  ASSUME Throttle!ConstantsOK, ThrottleInv, Throttle!Tick
  PROVE  ThrottleInv'
<1>1. throttleNow' = throttleNow + 1 /\ log' = log /\ fails' = fails /\ attempt' = attempt
      /\ throttleNow \in Nat /\ Window \in Nat /\ FailureLimit \in Nat
  BY DEF Throttle!Tick, ThrottleInv, ThrottleTypes, Throttle!ConstantsOK
<1>2. \A x \in Addresses : /\ log[x] \in Seq(Nat) /\ Len(log[x]) \in Nat
                           /\ \A i \in 1..Len(log[x]) : log[x][i] \in Nat /\ log[x][i] =< throttleNow
  BY DEF ThrottleInv, ThrottleTypes, InTime
<1>3. ThrottleTypes'
  BY <1>1, <1>2 DEF ThrottleInv, ThrottleTypes, InTime
<1>4. ASSUME NEW x \in Addresses PROVE Forgets(KeptOf(x), log[x])'
  <2>1. PICK d \in 0..Len(log[x]) :
          LET kept == KeptOf(x)  q == log[x] IN
          /\ kept \in Seq(Nat) /\ Len(kept) = Len(q) - d
          /\ \A i \in 1..Len(kept) : kept[i] = q[d + i]
          /\ \A i \in 1..d : throttleNow - q[i] >= Window
    BY DEF ThrottleInv, FailsOK, Forgets
  <2>2. \A i \in 1..d : throttleNow' - log[x][i] >= Window
    BY <1>1, <1>2, <2>1
  <2>3. KeptOf(x)' = KeptOf(x)
    BY <1>1 DEF KeptOf
  <2> QED
    BY <1>1, <2>1, <2>2, <2>3 DEF Forgets
<1>5. CountOK'
  <2> SUFFICES ASSUME NEW x \in Addresses, NEW m \in 0..Len(log[x]), Olds(log[x], m)'
               PROVE  Len(log[x]) - m + Cardinality(LetIn(x)) =< FailureLimit - 1 + Cardinality(Attempts)
    <3>1. \A x \in Addresses : LetIn(x)' = LetIn(x)
      BY <1>1 DEF LetIn
    <3> QED
      BY <1>1, <3>1 DEF CountOK
  <2>1. PICK n \in 0..Len(log[x]) : Olds(log[x], n)
    BY <1>1, <1>2, SomeAreOld
  <2>2. n =< m
    <3> SUFFICES ASSUME m < n PROVE FALSE
      BY <1>2
    <3>1. m + 1 \in 1..n /\ m + 1 \in 1..Len(log[x]) /\ m < Len(log[x])
      BY <1>2
    <3>2. throttleNow - log[x][m + 1] >= Window
      BY <2>1, <3>1 DEF Olds
    <3>3. m < Len(log'[x]) => throttleNow' - log'[x][m + 1] < Window
      BY DEF Olds
    <3>4. throttleNow' - log[x][m + 1] < Window
      BY <1>1, <3>1, <3>3
    <3> QED
      BY <1>1, <1>2, <3>1, <3>2, <3>4
  <2>3. Len(log[x]) - n + Cardinality(LetIn(x)) =< FailureLimit - 1 + Cardinality(Attempts)
    BY <2>1 DEF ThrottleInv, CountOK
  <2> QED
    BY <1>1, <1>2, <2>2, <2>3, LetInFinite
<1>6. WaitOK'
  BY <1>1 DEF ThrottleInv, WaitOK
<1> QED
  BY <1>3, <1>4, <1>5, <1>6 DEF ThrottleInv, FailsOK

LEMMA ThrottleStep == Throttle!ConstantsOK /\ ThrottleInv /\ [Throttle!Next]_(Throttle!vars) => ThrottleInv'
<1> SUFFICES ASSUME Throttle!ConstantsOK, ThrottleInv, [Throttle!Next]_(Throttle!vars) PROVE ThrottleInv'
  OBVIOUS
<1>1. CASE UNCHANGED Throttle!vars
  BY <1>1 DEF Throttle!vars, ThrottleInv, ThrottleTypes, InTime, FailsOK, KeptOf, Forgets, CountOK, Olds,
              LetIn, WaitOK
<1> QED
  BY <1>1, BeginStep, FailStep, LeaveStep, ThrottleTick DEF Throttle!Next

LEMMA ThrottledOK ==
  ASSUME Throttle!ConstantsOK, ThrottleInv
  PROVE  Throttle!SignInsAreThrottled
<1>1. throttleNow \in Nat /\ Window \in Nat \ {0} /\ FailureLimit \in Nat \ {0}
  BY DEF ThrottleInv, ThrottleTypes, Throttle!ConstantsOK
<1>2. ASSUME NEW x \in Addresses
      PROVE  Len(Throttle!Recent(log[x])) <= FailureLimit - 1 + Cardinality(Attempts)
  <2>1. log[x] \in Seq(Nat) /\ Len(log[x]) \in Nat
    BY DEF ThrottleInv, ThrottleTypes, InTime
  <2>2. PICK n \in 0..Len(log[x]) : Olds(log[x], n) /\ Len(Throttle!Recent(log[x])) = Len(log[x]) - n
    BY <1>1, <2>1, RecentIs
  <2>3. Len(log[x]) - n + Cardinality(LetIn(x)) =< FailureLimit - 1 + Cardinality(Attempts)
    BY <2>2 DEF ThrottleInv, CountOK
  <2> QED
    BY <1>1, <2>1, <2>2, <2>3, LetInFinite
<1>3. ASSUME NEW a \in Attempts, attempt[a].pc = "refused", throttleNow >= attempt[a].until,
             Len(log[attempt[a].address]) = attempt[a].failures
      PROVE  ~Throttle!Refused(attempt[a].address)
  <2> DEFINE x == attempt[a].address
             q == log[x]
  <2>1. /\ x \in Addresses /\ attempt[a].until \in Int /\ FailureLimit =< Len(q)
        /\ q[Len(q) - FailureLimit + 1] + Window =< attempt[a].until
    BY <1>3 DEF ThrottleInv, ThrottleTypes, WaitOK, SignIn
  <2>2. Len(q) \in Nat /\ \A i \in 1..Len(q) : q[i] \in Nat
    BY <2>1 DEF ThrottleInv, ThrottleTypes, InTime
  <2>3. PICK n \in 0..Len(q) : Olds(q, n) /\ Len(Throttle!Trimmed(x)) = Len(q) - n
    BY <2>1, TrimmedIs
  <2>4. InTime(q)
    BY <2>1 DEF ThrottleInv, ThrottleTypes
  <2> HIDE DEF x, q
  <2>5. n >= Len(q) - FailureLimit + 1
    <3> SUFFICES ASSUME n < Len(q) - FailureLimit + 1 PROVE FALSE
      BY <1>1, <2>2
    <3>1. /\ n + 1 \in 1..Len(q) /\ Len(q) - FailureLimit + 1 \in 1..Len(q) /\ n < Len(q)
          /\ n + 1 =< Len(q) - FailureLimit + 1
      BY <1>1, <2>1, <2>2
    <3>2. throttleNow - q[n + 1] < Window
      BY <2>3, <3>1 DEF Olds
    <3>3. q[n + 1] =< q[Len(q) - FailureLimit + 1]
      BY <2>4, <3>1 DEF InTime
    <3>4. q[n + 1] \in Nat /\ q[Len(q) - FailureLimit + 1] \in Nat /\ attempt[a].until \in Int
      BY <2>1, <2>2, <3>1
    <3>5. throttleNow >= q[n + 1] + Window
      BY <1>1, <1>3, <2>1, <3>3, <3>4
    <3> QED
      BY <1>1, <3>2, <3>4, <3>5
  <2> QED
    BY <1>1, <2>2, <2>3, <2>5 DEF Throttle!Refused, x
<1> QED
  BY <1>2, <1>3, SameCardinality DEF Throttle!SignInsAreThrottled

\* Failures of an address in a window stay within the limit and the sign-ins let in with
\* the last of them; and the wait that retry_after tells is enough.
THEOREM ThrottleHolds == Spec => []SignInsAreThrottled
<1> USE ServicesAssumption
<1>1. Throttle!Init => ThrottleInv
  BY ThrottleInit
<1>2. ThrottleInv /\ [Throttle!Next]_(Throttle!vars) => ThrottleInv'
  BY ThrottleStep
<1>3. ThrottleInv => Throttle!SignInsAreThrottled
  BY ThrottledOK
<1> QED
  BY <1>1, <1>2, <1>3, Parts, PTL DEF Throttle!Spec, SignInsAreThrottled

----------------------------------------------------------------------------
(* The authorization proxy.  A caller has a role; int() makes a case or      *)
(* nothing of an id, and the bridge reads a number as it is; SOAR has no     *)
(* tool of Watchfloor, and None is neither a label nor a kind of refusal.     *)

\* A record with those fields.
IsTurn(r) ==
  r \in [pc : {r.pc}, who : {r.who}, labels : {r.labels}, offered : {r.offered}, tool : {r.tool},
         arg : {r.arg}, mine : {r.mine}, shown : {r.shown}, refused : {r.refused}]
IsSince(h) ==
  h \in [labels : {h.labels}, under : {h.under}, held : {h.held}, all : {h.all}, edited : {h.edited},
         failed : {h.failed}]

\* What is so now has been so since the question began; what was so all along is so now.
WitnessOK(r, h) ==
  /\ Proxy!ScopeLabels(r.who) \subseteq h.labels /\ Proxy!Under \subseteq h.under
  /\ h.held \subseteq Proxy!InReach(r.who)
  /\ Proxy!AllTenants(r.who) => h.all

\* Labels of the caller at some time have those of every case that was his all along.
Between(labels, h) == labels \subseteq h.labels /\ \A p \in h.held : p[2] \in labels

\* The labels read once, and what is offered: what the role may use, unless the matrix was
\* edited.
BaseOK(r, h) ==
  /\ r.who \in Callers /\ WitnessOK(r, h)
  /\ r.labels # None => Between(r.labels, h)
  /\ r.offered \subseteq Proxy!Own \cup RoleTools[r.who.role]
  /\ ~h.edited => /\ Proxy!RunSpl \in r.offered => Proxy!CanRunAdhoc(r.who)
                  /\ Proxy!Unresolvable \in r.offered => Proxy!AllTenants(r.who)

\* What a call has left to do, and with which arguments.
CallOK(r, h) ==
  /\ r.pc \in {"labels", "offer"} => r.tool = None /\ r.offered = {}
  /\ r.pc = "scope" =>
       /\ r.tool \notin Proxy!Own /\ r.arg \in Proxy!Args(r.tool)
       /\ r.tool = Proxy!Unresolvable /\ r.tool \in r.offered => h.edited
  /\ r.pc = "check" => Between(r.mine, h) /\ r.tool \in Proxy!ById /\ r.arg \in Cases
  /\ r.pc = "last" /\ ~h.all =>
       /\ r.tool # Proxy!Unresolvable
       /\ r.tool = Proxy!ByLabel => r.arg # None /\ r.arg \in h.labels
       /\ r.tool \in Proxy!ById => r.arg \in Cases /\ \E l \in h.labels : <<r.arg, l>> \in h.under

\* ScopeIsExact, of one question.
ExactOK(r, h) ==
  r.pc = "model" /\ r.tool # None =>
    /\ h.all \/ r.tool \notin Proxy!Checked \/ \A c \in r.shown : \E l \in h.labels : <<c, l>> \in h.under
    /\ r.refused = "scope" /\ r.tool \in Proxy!ById /\ ~h.failed => \A l \in Labels : <<r.arg, l>> \notin h.held
    /\ r.tool \in r.offered /\ (r.refused = "role" \/ (r.refused = "scope" /\ r.tool = Proxy!Unresolvable))
         => h.edited

TurnOK(r, h) ==
  r.pc # "free" => BaseOK(r, h) /\ CallOK(r, h) /\ ExactOK(r, h)

ProxyInv ==
  /\ turn = [q \in Questions |-> turn[q]] /\ since = [q \in Questions |-> since[q]]
  /\ \A q \in Questions : IsTurn(turn[q]) /\ IsSince(since[q]) /\ TurnOK(turn[q], since[q])

\* A step of a question, in a world that stays as it is.
LEMMA QuestionMoves ==
  ASSUME ProxyInv, NEW q \in Questions, NEW r, NEW h, caps' = caps, label' = label, case' = case,
         turn' = [turn EXCEPT ![q] = r], since' = [since EXCEPT ![q] = h],
         IsTurn(r), IsSince(h), TurnOK(r, h)
  PROVE  ProxyInv'
<1>1. /\ turn' = [p \in Questions |-> turn'[p]] /\ since' = [p \in Questions |-> since'[p]]
      /\ turn'[q] = r /\ since'[q] = h
      /\ \A p \in Questions \ {q} : turn'[p] = turn[p] /\ since'[p] = since[p]
  BY DEF ProxyInv
<1>2. \A s, g : TurnOK(s, g)' <=> TurnOK(s, g)
  BY DEF TurnOK, BaseOK, WitnessOK, CallOK, ExactOK, Between, Proxy!ScopeLabels, Proxy!Under, Proxy!InReach,
         Proxy!AllTenants, Proxy!CanRunAdhoc
<1>3. ASSUME NEW p \in Questions
      PROVE  IsTurn(turn'[p]) /\ IsSince(since'[p]) /\ TurnOK(turn'[p], since'[p])
  BY <1>1 DEF ProxyInv
<1> QED
  BY <1>1, <1>2, <1>3 DEF ProxyInv

LEMMA QuestionGoesOn ==
  ASSUME ProxyInv, NEW q \in Questions, NEW r, UNCHANGED <<caps, label, case, since>>,
         turn' = [turn EXCEPT ![q] = r], IsTurn(r), TurnOK(r, since[q])
  PROVE  ProxyInv'
<1>1. since' = [since EXCEPT ![q] = since[q]] /\ IsSince(since[q])
  BY DEF ProxyInv
<1> QED
  BY <1>1, QuestionMoves

\* The caller, his labels, the tools offered and the tool called stay.
Like(s, r) == s.who = r.who /\ s.labels = r.labels /\ s.offered = r.offered /\ s.tool = r.tool

LEMMA BaseStays ==
  ASSUME NEW r, NEW s, NEW h, Like(s, r), BaseOK(r, h)
  PROVE  BaseOK(s, h)
  BY DEF Like, BaseOK, WitnessOK

LEMMA RefusedIs ==
  ASSUME NEW r, IsTurn(r), NEW kind
  PROVE  LET s == Proxy!Refused(r, kind) IN
         IsTurn(s) /\ Like(s, r) /\ s.pc = "model" /\ s.arg = r.arg /\ s.shown = {} /\ s.refused = kind
  BY DEF IsTurn, Like, Proxy!Refused

LEMMA ShowsIs ==
  ASSUME NEW r, IsTurn(r), NEW cases
  PROVE  LET s == Proxy!Shows(r, cases) IN
         IsTurn(s) /\ Like(s, r) /\ s.pc = "model" /\ s.arg = r.arg /\ s.shown = cases /\ s.refused = None
  BY DEF IsTurn, Like, Proxy!Shows

\* A refusal is of the kinds that ScopeIsExact has nothing to say of, or justified.
LEMMA RefusedOK ==
  ASSUME NEW r, IsTurn(r), NEW h, BaseOK(r, h), NEW kind,
         kind = "scope" /\ r.tool \in Proxy!ById /\ ~h.failed => \A l \in Labels : <<r.arg, l>> \notin h.held,
         r.tool \in r.offered /\ (kind = "role" \/ (kind = "scope" /\ r.tool = Proxy!Unresolvable)) => h.edited
  PROVE  LET s == Proxy!Refused(r, kind) IN IsTurn(s) /\ TurnOK(s, h)
<1> DEFINE s == Proxy!Refused(r, kind)
<1>1. IsTurn(s) /\ Like(s, r) /\ s.pc = "model" /\ s.arg = r.arg /\ s.shown = {} /\ s.refused = kind
  BY RefusedIs
<1> HIDE DEF s
<1>2. BaseOK(s, h)
  BY <1>1, BaseStays
<1>3. CallOK(s, h)
  BY <1>1 DEF CallOK
<1>4. ExactOK(s, h)
  BY <1>1 DEF ExactOK, Like
<1> QED
  BY <1>1, <1>2, <1>3, <1>4 DEF TurnOK, s

LEMMA ShowsOK ==
  ASSUME NEW r, IsTurn(r), NEW h, BaseOK(r, h), None \notin {"scope", "role"}, NEW cases,
         h.all \/ r.tool \notin Proxy!Checked \/ \A c \in cases : \E l \in h.labels : <<c, l>> \in h.under
  PROVE  LET s == Proxy!Shows(r, cases) IN IsTurn(s) /\ TurnOK(s, h)
<1> DEFINE s == Proxy!Shows(r, cases)
<1>1. IsTurn(s) /\ Like(s, r) /\ s.pc = "model" /\ s.arg = r.arg /\ s.shown = cases /\ s.refused = None
  BY ShowsIs
<1> HIDE DEF s
<1>2. BaseOK(s, h)
  BY <1>1, BaseStays
<1>3. CallOK(s, h)
  BY <1>1 DEF CallOK
<1>4. ExactOK(s, h)
  BY <1>1 DEF ExactOK, Like
<1> QED
  BY <1>1, <1>2, <1>3, <1>4 DEF TurnOK, s

LEMMA QuestionBegins ==
  ASSUME Proxy!ConstantsOK, ProxyInv, NEW q \in Questions, NEW who \in Callers, Proxy!Begin(q, who)
  PROVE  ProxyInv'
<1> DEFINE r == [Proxy!Free EXCEPT !.pc = IF Proxy!AllTenants(who) THEN "offer" ELSE "labels", !.who = who]
           h == [labels |-> Proxy!ScopeLabels(who), under |-> Proxy!Under, held |-> Proxy!InReach(who),
                 all |-> Proxy!AllTenants(who), edited |-> FALSE, failed |-> FALSE]
<1>1. /\ UNCHANGED <<caps, label, case>>
      /\ turn' = [turn EXCEPT ![q] = r] /\ since' = [since EXCEPT ![q] = h]
  BY DEF Proxy!Begin, Proxy!Be, Proxy!World
<1>2. /\ IsTurn(r) /\ r.pc \in {"offer", "labels"} /\ r.who = who /\ r.labels = None /\ r.offered = {}
      /\ r.tool = None
  BY DEF Proxy!Free, IsTurn
<1>3. /\ IsSince(h) /\ h.labels = Proxy!ScopeLabels(who) /\ h.under = Proxy!Under /\ h.held = Proxy!InReach(who)
      /\ h.all = Proxy!AllTenants(who)
  BY DEF IsSince
<1> HIDE DEF r, h
<1>4. BaseOK(r, h)
  BY <1>2, <1>3 DEF BaseOK, WitnessOK
<1>5. CallOK(r, h) /\ ExactOK(r, h)
  BY <1>2 DEF CallOK, ExactOK
<1> QED
  BY <1>1, <1>2, <1>3, <1>4, <1>5, QuestionMoves DEF TurnOK

LEMMA LabelsAreRead ==
  ASSUME ProxyInv, NEW q \in Questions, Proxy!ReadLabels(q)
  PROVE  ProxyInv'
<1> DEFINE r == turn[q]
           s == [r EXCEPT !.pc = "offer", !.labels = Proxy!ScopeLabels(r.who)]
           h == since[q]
<1>1. UNCHANGED <<caps, label, case, since>> /\ turn' = [turn EXCEPT ![q] = s] /\ r.pc = "labels"
  BY DEF Proxy!ReadLabels, Proxy!Be, Proxy!World
<1>2. IsTurn(r) /\ BaseOK(r, h) /\ CallOK(r, h)
  BY <1>1 DEF ProxyInv, TurnOK
<1> HIDE DEF r, h
<1>3. /\ IsTurn(s) /\ s.pc = "offer" /\ s.labels = Proxy!ScopeLabels(r.who)
      /\ s.who = r.who /\ s.offered = r.offered /\ s.tool = r.tool
  BY <1>2 DEF IsTurn
<1> HIDE DEF s
<1>4. Between(s.labels, h)
  BY <1>2, <1>3 DEF BaseOK, WitnessOK, Between, Proxy!InReach
<1>5. BaseOK(s, h)
  BY <1>2, <1>3, <1>4 DEF BaseOK, WitnessOK
<1>6. CallOK(s, h) /\ ExactOK(s, h)
  BY <1>1, <1>2, <1>3 DEF CallOK, ExactOK
<1> QED
  BY <1>1, <1>3, <1>5, <1>6, QuestionGoesOn DEF TurnOK, h

LEMMA ToolsAreOffered ==
  ASSUME Proxy!ConstantsOK, ProxyInv, NEW q \in Questions, Proxy!Offer(q)
  PROVE  ProxyInv'
<1> DEFINE r == turn[q]
           h == since[q]
           soar == RoleTools[r.who.role] \ (IF Proxy!AllTenants(r.who) THEN {} ELSE {Proxy!Unresolvable})
           own == IF Proxy!CanRunAdhoc(r.who) THEN Proxy!Own ELSE Proxy!Own \ {Proxy!RunSpl}
           s(tools) == [r EXCEPT !.pc = "model", !.offered = tools]
<1>1. PICK tools : /\ tools \in {own, own \cup soar}
                   /\ UNCHANGED <<caps, label, case, since>> /\ turn' = [turn EXCEPT ![q] = s(tools)]
                   /\ r.pc = "offer"
  <2>1. PICK up \in {TRUE, catalogue} : turn' = [turn EXCEPT ![q] = s(own \cup (IF up THEN soar ELSE {}))]
    BY DEF Proxy!Offer, Proxy!Be
  <2>2. UNCHANGED <<caps, label, case, since>> /\ r.pc = "offer"
    BY DEF Proxy!Offer, Proxy!World
  <2> HIDE DEF own, soar, s, r
  <2>3. own \cup (IF up THEN soar ELSE {}) \in {own, own \cup soar}
    BY Zenon
  <2> QED
    BY <2>1, <2>2, <2>3
<1>2. IsTurn(r) /\ BaseOK(r, h) /\ CallOK(r, h)
  BY <1>1 DEF ProxyInv, TurnOK
<1>3. tools \subseteq own \cup soar
  BY <1>1
<1>4. /\ tools \subseteq Proxy!Own \cup RoleTools[r.who.role]
      /\ Proxy!RunSpl \in tools => Proxy!CanRunAdhoc(r.who)
      /\ Proxy!Unresolvable \in tools => Proxy!AllTenants(r.who)
  <2>1. r.who.role \in DOMAIN RoleTools /\ Proxy!RunSpl \notin RoleTools[r.who.role]
    BY <1>2 DEF BaseOK, Proxy!ConstantsOK, Proxy!Own
  <2>2. Proxy!Unresolvable \notin Proxy!Own
    BY DEF Proxy!Unresolvable, Proxy!Own, Proxy!RunSpl
  <2> QED
    BY <1>3, <2>1, <2>2
<1> HIDE DEF r, h, soar, own
<1>5. /\ IsTurn(s(tools)) /\ s(tools).pc = "model" /\ s(tools).offered = tools
      /\ s(tools).who = r.who /\ s(tools).labels = r.labels /\ s(tools).tool = r.tool
  BY <1>2 DEF IsTurn
<1> HIDE DEF s
<1>6. BaseOK(s(tools), h)
  BY <1>2, <1>4, <1>5 DEF BaseOK, WitnessOK
<1>7. CallOK(s(tools), h) /\ ExactOK(s(tools), h)
  BY <1>1, <1>2, <1>5 DEF CallOK, ExactOK
<1> QED
  BY <1>1, <1>5, <1>6, <1>7, QuestionGoesOn DEF TurnOK, h

LEMMA ToolsDiffer ==
  /\ Proxy!Unresolvable # Proxy!ByLabel /\ Proxy!Unresolvable \notin Proxy!ById /\ Proxy!ByLabel \notin Proxy!ById
  /\ \A tool \in Proxy!Own : tool # Proxy!Unresolvable /\ tool # Proxy!ByLabel /\ tool \notin Proxy!ById
  BY DEF Proxy!Unresolvable, Proxy!ByLabel, Proxy!ById, Proxy!Record, Proxy!Own, Proxy!RunSpl

\* run decides on labels that the caller had at some time.
LEMMA DecidedOK ==
  ASSUME Proxy!ConstantsOK, NEW r, IsTurn(r), NEW h, BaseOK(r, h), Between(r.mine, h),
         r.tool \notin Proxy!Own, r.arg \in Proxy!Args(r.tool),
         r.tool = Proxy!Unresolvable /\ r.tool \in r.offered => h.edited
  PROVE  LET s == Proxy!Decided(r) IN IsTurn(s) /\ TurnOK(s, h)
<1> DEFINE s == Proxy!Decided(r)
<1>1. CASE r.tool = Proxy!Unresolvable
  <2>1. s = Proxy!Refused(r, "scope")
    BY <1>1, ToolsDiffer DEF Proxy!Decided
  <2> QED
    BY <1>1, <2>1, RefusedOK, ToolsDiffer
<1>2. CASE r.tool = Proxy!ByLabel /\ r.arg \notin Labels
  <2>1. s = Proxy!Refused(r, "args")
    BY <1>2, ToolsDiffer DEF Proxy!Decided
  <2> QED
    BY <2>1, RefusedOK
<1>3. CASE r.tool = Proxy!ByLabel /\ r.arg \in Labels \ r.mine
  <2>1. s = Proxy!Refused(r, "scope")
    BY <1>3, ToolsDiffer DEF Proxy!Decided
  <2> QED
    BY <1>3, <2>1, RefusedOK, ToolsDiffer
<1>4. CASE r.tool \in Proxy!ById /\ Number[r.arg] = None
  <2>1. s = Proxy!Refused(r, "args")
    BY <1>4, ToolsDiffer DEF Proxy!Decided
  <2> QED
    BY <2>1, RefusedOK
<1>5. CASE r.tool \in Proxy!ById /\ Number[r.arg] # None
  <2>1. s = [r EXCEPT !.pc = "check", !.arg = Number[@]]
    <3>1. r.tool # Proxy!Unresolvable /\ r.tool # Proxy!ByLabel
      BY <1>5, ToolsDiffer
    <3> QED
      BY <1>5, <3>1, Zenon DEF Proxy!Decided
  <2>2. Number[r.arg] \in Cases
    BY <1>5, ToolsDiffer DEF Proxy!Args, Proxy!ConstantsOK
  <2>3. IsTurn(s) /\ Like(s, r) /\ s.pc = "check" /\ s.arg = Number[r.arg] /\ s.mine = r.mine
    BY <2>1 DEF IsTurn, Like
  <2> HIDE DEF s
  <2>4. BaseOK(s, h)
    BY <2>3, BaseStays
  <2>5. CallOK(s, h) /\ ExactOK(s, h)
    BY <1>5, <2>2, <2>3 DEF CallOK, ExactOK, Like
  <2> QED
    BY <2>3, <2>4, <2>5 DEF TurnOK, s
<1>6. CASE /\ r.tool # Proxy!Unresolvable /\ r.tool \notin Proxy!ById
           /\ r.tool = Proxy!ByLabel => r.arg \in Labels \cap r.mine
  <2>1. s = [r EXCEPT !.pc = "last"]
    BY <1>6 DEF Proxy!Decided
  <2>2. IsTurn(s) /\ Like(s, r) /\ s.pc = "last" /\ s.arg = r.arg
    BY <2>1 DEF IsTurn, Like
  <2> HIDE DEF s
  <2>3. BaseOK(s, h)
    BY <2>2, BaseStays
  <2>4. CallOK(s, h) /\ ExactOK(s, h)
    BY <1>6, <2>2 DEF CallOK, ExactOK, Like, Between, Proxy!ConstantsOK
  <2> QED
    BY <2>2, <2>3, <2>4 DEF TurnOK, s
<1> QED
  BY <1>1, <1>2, <1>3, <1>4, <1>5, <1>6

\* The history of a question, its failure aside.
LEMMA FailureOnly ==
  ASSUME NEW h, IsSince(h), NEW b
  PROVE  LET g == [h EXCEPT !.failed = b] IN
         /\ IsSince(g) /\ g.failed = b /\ g.edited = h.edited
         /\ \A r : (BaseOK(r, h) => BaseOK(r, g)) /\ (CallOK(r, h) => CallOK(r, g))
         /\ \A labels : Between(labels, h) => Between(labels, g)
<1> DEFINE g == [h EXCEPT !.failed = b]
<1>1. /\ IsSince(g) /\ g.failed = b /\ g.labels = h.labels /\ g.under = h.under /\ g.held = h.held
      /\ g.all = h.all /\ g.edited = h.edited
  BY DEF IsSince
<1> HIDE DEF g
<1>2. \A labels : Between(labels, h) <=> Between(labels, g)
  BY <1>1 DEF Between
<1>3. \A r : BaseOK(r, h) => BaseOK(r, g)
  BY <1>1, <1>2 DEF BaseOK, WitnessOK
<1>4. \A r : CallOK(r, h) => CallOK(r, g)
  BY <1>1, <1>2 DEF CallOK
<1> QED
  BY <1>1, <1>2, <1>3, <1>4 DEF g

LEMMA CallBegins ==
  ASSUME Proxy!ConstantsOK, ProxyInv, NEW q \in Questions, NEW tool \in Proxy!Tools, NEW arg \in Proxy!Args(tool),
         Proxy!Call(q, tool, arg)
  PROVE  ProxyInv'
<1> DEFINE before == turn[q]
           mine == IF before.labels = None THEN {} ELSE before.labels
           r == [before EXCEPT !.tool = tool, !.arg = arg, !.mine = mine]
           h == [since[q] EXCEPT !.failed = FALSE]
           who == before.who
<1>1. /\ UNCHANGED <<caps, label, case>> /\ since' = [since EXCEPT ![q] = h] /\ before.pc = "model"
  BY DEF Proxy!Call, Proxy!World, ProxyInv, IsSince
<1>2. IsTurn(before) /\ IsSince(since[q]) /\ BaseOK(before, since[q])
  BY <1>1 DEF ProxyInv, TurnOK
<1>3. IsSince(h) /\ BaseOK(before, h) /\ ~h.failed
  BY <1>2, FailureOnly
<1>4. /\ IsTurn(r) /\ r.tool = tool /\ r.arg = arg /\ r.mine = mine /\ r.who = who /\ r.pc = "model"
      /\ r.labels = before.labels /\ r.offered = before.offered
  BY <1>1, <1>2 DEF IsTurn
<1>5. \/ \E kind \in IF tool = Proxy!RunSpl /\ ~Proxy!CanRunAdhoc(who) THEN {"role"}
                     ELSE {None, "scope", "args", "exec"} :
           tool \in Proxy!Own /\ turn' = [turn EXCEPT ![q] = Proxy!Refused(r, kind)]
      \/ /\ tool \notin Proxy!Own
         /\ turn' = [turn EXCEPT ![q] =
              CASE tool \notin RoleTools[who.role] -> Proxy!Refused(r, "role")
                [] tool \in RoleTools[who.role] /\ Proxy!AllTenants(who) -> [r EXCEPT !.pc = "last"]
                [] tool \in RoleTools[who.role] /\ ~Proxy!AllTenants(who) /\ r.labels = None ->
                     [r EXCEPT !.pc = "scope"]
                [] OTHER -> Proxy!Decided(r)]
  BY <1>4 DEF Proxy!Call, Proxy!Be
<1> HIDE DEF before, r, h, mine, who
<1>6. BaseOK(r, h)
  BY <1>3, <1>4 DEF BaseOK, WitnessOK, who
<1>7. Proxy!Unresolvable \in r.offered /\ ~Proxy!AllTenants(who) => h.edited
  BY <1>4, <1>6 DEF BaseOK
<1>8. \E s : IsTurn(s) /\ TurnOK(s, h) /\ turn' = [turn EXCEPT ![q] = s]
  <2>1. ASSUME tool \in Proxy!Own,
               NEW kind \in IF tool = Proxy!RunSpl /\ ~Proxy!CanRunAdhoc(who) THEN {"role"}
                            ELSE {None, "scope", "args", "exec"}
        PROVE  IsTurn(Proxy!Refused(r, kind)) /\ TurnOK(Proxy!Refused(r, kind), h)
    <3>1. r.tool \in r.offered /\ kind = "role" => h.edited
      <4> SUFFICES ASSUME r.tool \in r.offered, kind = "role" PROVE h.edited
        OBVIOUS
      <4>1. tool = Proxy!RunSpl /\ ~Proxy!CanRunAdhoc(who)
        BY <2>1 DEF Proxy!ConstantsOK
      <4> QED
        BY <1>4, <1>6, <4>1 DEF BaseOK
    <3>2. r.tool # Proxy!Unresolvable /\ r.tool \notin Proxy!ById
      BY <1>4, <2>1, ToolsDiffer
    <3> QED
      BY <1>4, <1>6, <3>1, <3>2, RefusedOK
  <2>2. CASE tool \notin Proxy!Own /\ tool \notin RoleTools[who.role]
    <3>1. turn' = [turn EXCEPT ![q] = Proxy!Refused(r, "role")]
      BY <1>5, <2>2
    <3>2. r.tool \notin r.offered
      BY <1>4, <1>6, <2>2 DEF BaseOK
    <3>3. IsTurn(Proxy!Refused(r, "role")) /\ TurnOK(Proxy!Refused(r, "role"), h)
      BY <1>4, <1>6, <3>2, RefusedOK
    <3> QED
      BY <3>1, <3>3
  <2>3. CASE tool \notin Proxy!Own /\ tool \in RoleTools[who.role] /\ Proxy!AllTenants(who)
    <3> DEFINE s == [r EXCEPT !.pc = "last"]
    <3>1. turn' = [turn EXCEPT ![q] = s]
      BY <1>5, <2>3
    <3>2. IsTurn(s) /\ Like(s, r) /\ s.pc = "last"
      BY <1>4 DEF IsTurn, Like
    <3> HIDE DEF s
    <3>3. h.all
      BY <1>4, <1>6, <2>3 DEF BaseOK, WitnessOK
    <3>4. CallOK(s, h) /\ ExactOK(s, h)
      BY <3>2, <3>3 DEF CallOK, ExactOK
    <3> QED
      BY <1>6, <3>1, <3>2, <3>4, BaseStays DEF TurnOK
  <2>4. CASE tool \notin Proxy!Own /\ tool \in RoleTools[who.role] /\ ~Proxy!AllTenants(who) /\ r.labels = None
    <3> DEFINE s == [r EXCEPT !.pc = "scope"]
    <3>1. turn' = [turn EXCEPT ![q] = s]
      BY <1>5, <2>4
    <3>2. IsTurn(s) /\ Like(s, r) /\ s.pc = "scope" /\ s.arg = r.arg
      BY <1>4 DEF IsTurn, Like
    <3> HIDE DEF s
    <3>3. CallOK(s, h) /\ ExactOK(s, h)
      BY <1>4, <1>7, <2>4, <3>2 DEF CallOK, ExactOK, Like
    <3> QED
      BY <1>6, <3>1, <3>2, <3>3, BaseStays DEF TurnOK
  <2>5. CASE tool \notin Proxy!Own /\ tool \in RoleTools[who.role] /\ ~Proxy!AllTenants(who) /\ r.labels # None
    <3>1. turn' = [turn EXCEPT ![q] = Proxy!Decided(r)]
      BY <1>5, <2>5
    <3>2. Between(r.mine, h)
      BY <1>4, <1>6, <2>5 DEF BaseOK, mine
    <3> QED
      BY <1>4, <1>6, <1>7, <2>5, <3>1, <3>2, DecidedOK
  <2> QED
    BY <1>5, <2>1, <2>2, <2>3, <2>4, <2>5
<1> QED
  BY <1>1, <1>3, <1>8, QuestionMoves

\* The scope of a caller who is not one of all tenants any more.
LEMMA ScopeIsRead ==
  ASSUME Proxy!ConstantsOK, ProxyInv, NEW q \in Questions, Proxy!ReadScope(q)
  PROVE  ProxyInv'
<1> DEFINE r == turn[q]
           h == since[q]
           s == [r EXCEPT !.mine = Proxy!ScopeLabels(r.who)]
<1>1. UNCHANGED <<caps, label, case, since>> /\ turn' = [turn EXCEPT ![q] = Proxy!Decided(s)] /\ r.pc = "scope"
  BY DEF Proxy!ReadScope, Proxy!Be, Proxy!World
<1>2. IsTurn(r) /\ BaseOK(r, h) /\ CallOK(r, h)
  BY <1>1 DEF ProxyInv, TurnOK
<1> HIDE DEF r, h
<1>3. IsTurn(s) /\ Like(s, r) /\ s.arg = r.arg /\ s.mine = Proxy!ScopeLabels(r.who)
  BY <1>2 DEF IsTurn, Like
<1> HIDE DEF s
<1>4. Between(s.mine, h)
  BY <1>2, <1>3 DEF BaseOK, WitnessOK, Between, Proxy!InReach
<1>5. BaseOK(s, h)
  BY <1>2, <1>3, BaseStays
<1>6. /\ s.tool \notin Proxy!Own /\ s.arg \in Proxy!Args(s.tool)
      /\ s.tool = Proxy!Unresolvable /\ s.tool \in s.offered => h.edited
  BY <1>1, <1>2, <1>3 DEF CallOK, Like
<1> HIDE DEF r
<1>7. IsTurn(Proxy!Decided(s)) /\ TurnOK(Proxy!Decided(s), h)
  BY <1>3, <1>4, <1>5, <1>6, DecidedOK
<1> QED
  BY <1>1, <1>7, QuestionGoesOn DEF h

\* The label of a case in reach is one of the caller's; that of another may be.
LEMMA CaseIsChecked ==
  ASSUME Proxy!ConstantsOK, ProxyInv, NEW q \in Questions, Proxy!CheckCase(q)
  PROVE  ProxyInv'
<1> DEFINE r == turn[q]
           h == since[q]
           s == [r EXCEPT !.pc = "last"]
<1>1. /\ UNCHANGED <<caps, label, case, since>> /\ r.pc = "check"
      /\ \/ case[r.arg] \in r.mine /\ turn' = [turn EXCEPT ![q] = s]
         \/ case[r.arg] \in r.mine /\ turn' = [turn EXCEPT ![q] = Proxy!Shows(r, {r.arg})]
         \/ case[r.arg] \notin r.mine /\ turn' = [turn EXCEPT ![q] = Proxy!Refused(r, "scope")]
  BY DEF Proxy!CheckCase, Proxy!Be, Proxy!World
<1>2. IsTurn(r) /\ BaseOK(r, h) /\ CallOK(r, h)
  BY <1>1 DEF ProxyInv, TurnOK
<1> HIDE DEF r, h
<1>3. Between(r.mine, h) /\ r.tool \in Proxy!ById /\ r.arg \in Cases
  BY <1>1, <1>2 DEF CallOK
<1>4. case[r.arg] \in r.mine => \E l \in h.labels : <<r.arg, l>> \in h.under
  BY <1>2, <1>3 DEF BaseOK, WitnessOK, Between, Proxy!Under
<1>5. case[r.arg] \notin r.mine => \A l \in Labels : <<r.arg, l>> \notin h.held
  <2> SUFFICES ASSUME NEW l \in Labels, <<r.arg, l>> \in h.held PROVE case[r.arg] \in r.mine
    OBVIOUS
  <2>1. <<r.arg, l>> \in Proxy!Under /\ <<r.arg, l>>[2] \in r.mine
    BY <1>2, <1>3 DEF BaseOK, WitnessOK, Between, Proxy!InReach
  <2>2. PICK c \in Cases : <<r.arg, l>> = <<c, case[c]>>
    BY <2>1 DEF Proxy!Under
  <2>3. c = r.arg /\ l = case[r.arg]
    BY <2>2
  <2> QED
    BY <2>1, <2>3
<1>6. CASE case[r.arg] \in r.mine /\ turn' = [turn EXCEPT ![q] = s]
  <2>1. IsTurn(s) /\ Like(s, r) /\ s.pc = "last" /\ s.arg = r.arg
    BY <1>2 DEF IsTurn, Like
  <2> HIDE DEF s
  <2>2. CallOK(s, h) /\ ExactOK(s, h)
    BY <1>3, <1>4, <1>6, <2>1, ToolsDiffer DEF CallOK, ExactOK, Like
  <2>3. TurnOK(s, h)
    BY <1>2, <2>1, <2>2, BaseStays DEF TurnOK
  <2> QED
    BY <1>1, <1>6, <2>1, <2>3, QuestionGoesOn DEF h
<1>7. CASE case[r.arg] \in r.mine /\ turn' = [turn EXCEPT ![q] = Proxy!Shows(r, {r.arg})]
  <2>1. IsTurn(Proxy!Shows(r, {r.arg})) /\ TurnOK(Proxy!Shows(r, {r.arg}), h)
    BY <1>2, <1>4, <1>7, ShowsOK DEF Proxy!ConstantsOK
  <2> QED
    BY <1>1, <1>7, <2>1, QuestionGoesOn DEF h
<1>8. CASE case[r.arg] \notin r.mine /\ turn' = [turn EXCEPT ![q] = Proxy!Refused(r, "scope")]
  <2>1. IsTurn(Proxy!Refused(r, "scope")) /\ TurnOK(Proxy!Refused(r, "scope"), h)
    BY <1>2, <1>3, <1>5, <1>8, RefusedOK, ToolsDiffer
  <2> QED
    BY <1>1, <1>8, <2>1, QuestionGoesOn DEF h
<1> QED
  BY <1>1, <1>6, <1>7, <1>8

\* What the tool says is what the check was about.
LEMMA BridgeAnswers ==
  ASSUME Proxy!ConstantsOK, ProxyInv, NEW q \in Questions, Proxy!Last(q)
  PROVE  ProxyInv'
<1> DEFINE r == turn[q]
           h == since[q]
           id == IF r.arg \in Ids THEN Reads[r.arg] ELSE r.arg
           there == {c \in Cases : case[c] # None}
<1>1. /\ UNCHANGED <<caps, label, case, since>> /\ r.pc = "last"
      /\ \E cases :
           /\ turn' = [turn EXCEPT ![q] = Proxy!Shows(r, cases)] /\ cases \subseteq there
           /\ \/ r.tool \in Proxy!ById /\ cases \subseteq {id}
              \/ r.tool = Proxy!ByLabel /\ \A c \in cases : r.arg \in {None, case[c]}
              \/ r.tool = Proxy!Unresolvable
              \/ r.tool \notin Proxy!Checked
  <2>1. UNCHANGED <<caps, label, case, since>> /\ r.pc = "last"
    BY DEF Proxy!Last, Proxy!World
  <2>2. CASE r.tool \in Proxy!ById /\ Proxy!Be(q, Proxy!Shows(r, there \cap {id}))
    <3> DEFINE some == there \cap {id}
    <3>1. turn' = [turn EXCEPT ![q] = Proxy!Shows(r, some)]
      BY <2>2 DEF Proxy!Be
    <3>2. some \subseteq there /\ some \subseteq {id}
      OBVIOUS
    <3> HIDE DEF some, there, id
    <3> QED
      BY <2>1, <2>2, <3>1, <3>2
  <2>3. CASE r.tool = Proxy!ByLabel /\ Proxy!Be(q, Proxy!Shows(r, {c \in there : r.arg \in {None, case[c]}}))
    <3> DEFINE some == {c \in there : r.arg \in {None, case[c]}}
    <3>1. turn' = [turn EXCEPT ![q] = Proxy!Shows(r, some)]
      BY <2>3 DEF Proxy!Be
    <3>2. some \subseteq there /\ \A c \in some : r.arg \in {None, case[c]}
      OBVIOUS
    <3> HIDE DEF some
    <3> QED
      BY <2>1, <2>3, <3>1, <3>2
  <2>4. CASE r.tool = Proxy!Unresolvable /\ Proxy!Be(q, Proxy!Shows(r, there))
    <3>1. turn' = [turn EXCEPT ![q] = Proxy!Shows(r, there)]
      BY <2>4 DEF Proxy!Be
    <3> QED
      BY <2>1, <2>4, <3>1
  <2>5. CASE r.tool \notin Proxy!Checked /\ \E some \in SUBSET there : Proxy!Be(q, Proxy!Shows(r, some))
    <3>1. PICK some \in SUBSET there : turn' = [turn EXCEPT ![q] = Proxy!Shows(r, some)]
      BY <2>5 DEF Proxy!Be
    <3> QED
      BY <2>1, <2>5, <3>1
  <2> QED
    BY <2>2, <2>3, <2>4, <2>5 DEF Proxy!Last
<1>2. IsTurn(r) /\ BaseOK(r, h) /\ CallOK(r, h)
  BY <1>1 DEF ProxyInv, TurnOK
<1>3. PICK cases :
        /\ turn' = [turn EXCEPT ![q] = Proxy!Shows(r, cases)] /\ cases \subseteq there
        /\ \/ r.tool \in Proxy!ById /\ cases \subseteq {id}
           \/ r.tool = Proxy!ByLabel /\ \A c \in cases : r.arg \in {None, case[c]}
           \/ r.tool = Proxy!Unresolvable
           \/ r.tool \notin Proxy!Checked
  BY <1>1
<1> HIDE DEF r, h
<1>4. ASSUME ~h.all, r.tool \in Proxy!Checked, NEW c \in cases PROVE \E l \in h.labels : <<c, l>> \in h.under
  <2>1. /\ r.tool # Proxy!Unresolvable
        /\ r.tool = Proxy!ByLabel => r.arg # None /\ r.arg \in h.labels
        /\ r.tool \in Proxy!ById => r.arg \in Cases /\ \E l \in h.labels : <<r.arg, l>> \in h.under
    BY <1>1, <1>2, <1>4 DEF CallOK
  <2>2. CASE r.tool \in Proxy!ById /\ cases \subseteq {id}
    <3>1. c = id
      BY <1>4, <2>2
    <3>2. id = r.arg
      BY <2>1, <2>2 DEF Proxy!ConstantsOK
    <3> QED
      BY <2>1, <2>2, <3>1, <3>2
  <2>3. CASE r.tool = Proxy!ByLabel /\ \A d \in cases : r.arg \in {None, case[d]}
    <3>1. c \in Cases /\ case[c] = r.arg
      BY <1>3, <1>4, <2>1, <2>3
    <3>2. <<c, r.arg>> \in h.under
      BY <1>2, <3>1 DEF BaseOK, WitnessOK, Proxy!Under
    <3> QED
      BY <2>1, <2>3, <3>2
  <2> QED
    BY <1>3, <1>4, <2>1, <2>2, <2>3
<1>5. IsTurn(Proxy!Shows(r, cases)) /\ TurnOK(Proxy!Shows(r, cases), h)
  BY <1>2, <1>4, ShowsOK DEF Proxy!ConstantsOK
<1> QED
  BY <1>1, <1>3, <1>5, QuestionGoesOn DEF h

LEMMA CallsFail ==
  ASSUME Proxy!ConstantsOK, ProxyInv, NEW q \in Questions, Proxy!BridgeFails(q) \/ Proxy!ToolFails(q)
  PROVE  ProxyInv'
<1> DEFINE r == turn[q]
           h == since[q]
           g == [h EXCEPT !.failed = TRUE]
<1>1. \/ /\ UNCHANGED <<caps, label, case, since>> /\ r.pc \in {"check", "last"}
         /\ turn' = [turn EXCEPT ![q] = Proxy!Refused(r, "exec")]
      \/ /\ UNCHANGED <<caps, label, case>> /\ since' = [since EXCEPT ![q] = g]
         /\ \/ r.pc = "check" /\ turn' = [turn EXCEPT ![q] = Proxy!Refused(r, "scope")]
            \/ r.pc = "last" /\ turn' = [turn EXCEPT ![q] = Proxy!Shows(r, {})]
  BY DEF Proxy!BridgeFails, Proxy!ToolFails, Proxy!Be, Proxy!World, ProxyInv, IsSince
<1>2. IsTurn(r) /\ IsSince(h) /\ BaseOK(r, h) /\ CallOK(r, h)
  BY <1>1 DEF ProxyInv, TurnOK
<1>3. IsSince(g) /\ g.failed = TRUE /\ BaseOK(r, g)
  BY <1>2, FailureOnly
<1> HIDE DEF r, h, g
<1>4. CASE UNCHANGED <<caps, label, case, since>> /\ turn' = [turn EXCEPT ![q] = Proxy!Refused(r, "exec")]
  <2>1. IsTurn(Proxy!Refused(r, "exec")) /\ TurnOK(Proxy!Refused(r, "exec"), h)
    BY <1>2, RefusedOK
  <2> QED
    BY <1>4, <2>1, QuestionGoesOn DEF h
<1>5. CASE /\ UNCHANGED <<caps, label, case>> /\ since' = [since EXCEPT ![q] = g]
           /\ r.pc = "check" /\ turn' = [turn EXCEPT ![q] = Proxy!Refused(r, "scope")]
  <2>1. r.tool # Proxy!Unresolvable
    BY <1>2, <1>5, ToolsDiffer DEF CallOK
  <2>2. IsTurn(Proxy!Refused(r, "scope")) /\ TurnOK(Proxy!Refused(r, "scope"), g)
    BY <1>2, <1>3, <2>1, RefusedOK
  <2> QED
    BY <1>3, <1>5, <2>2, QuestionMoves
<1>6. CASE /\ UNCHANGED <<caps, label, case>> /\ since' = [since EXCEPT ![q] = g]
           /\ turn' = [turn EXCEPT ![q] = Proxy!Shows(r, {})]
  <2>1. IsTurn(Proxy!Shows(r, {})) /\ TurnOK(Proxy!Shows(r, {}), g)
    BY <1>2, <1>3, ShowsOK DEF Proxy!ConstantsOK
  <2> QED
    BY <1>3, <1>6, <2>1, QuestionMoves
<1> QED
  BY <1>1, <1>4, <1>5, <1>6

LEMMA AtRest == /\ IsTurn(Proxy!Free) /\ Proxy!Free.pc = "free" /\ IsSince(Proxy!Nothing)
  BY DEF IsTurn, IsSince, Proxy!Free, Proxy!Nothing

LEMMA QuestionEnds ==
  ASSUME ProxyInv, NEW q \in Questions, Proxy!End(q)
  PROVE  ProxyInv'
<1>1. /\ UNCHANGED <<caps, label, case>> /\ turn' = [turn EXCEPT ![q] = Proxy!Free]
      /\ since' = [since EXCEPT ![q] = Proxy!Nothing]
  BY DEF Proxy!End, Proxy!Be, Proxy!World
<1>2. TurnOK(Proxy!Free, Proxy!Nothing)
  BY AtRest DEF TurnOK
<1> QED
  BY <1>1, <1>2, AtRest, QuestionMoves

\* An edit is witnessed by every question.
LEMMA HistoryGrows ==
  ASSUME NEW r, NEW h, NEW g, TurnOK(r, h), r.pc # "free",
         g.labels = h.labels \cup Proxy!ScopeLabels(r.who)', g.under = h.under \cup Proxy!Under',
         g.held = h.held \cap Proxy!InReach(r.who)', g.all <=> h.all \/ Proxy!AllTenants(r.who)',
         g.edited <=> h.edited \/ caps' # caps, g.failed = h.failed
  PROVE  TurnOK(r, g)'
<1>1. /\ g.labels = h.labels \cup Proxy!ScopeLabels(r.who)' /\ g.under = h.under \cup Proxy!Under'
      /\ g.held = h.held \cap Proxy!InReach(r.who)' /\ (g.all <=> h.all \/ Proxy!AllTenants(r.who)')
      /\ (g.edited <=> h.edited \/ caps' # caps) /\ g.failed = h.failed
  OBVIOUS
<1>2. BaseOK(r, h) /\ CallOK(r, h) /\ ExactOK(r, h)
  BY DEF TurnOK
<1>3. \A labels : Between(labels, h) => Between(labels, g)
  BY <1>1 DEF Between
<1>4. BaseOK(r, g)'
  <2>1. WitnessOK(r, g)'
    BY <1>1 DEF WitnessOK
  <2>2. ~g.edited => ~h.edited /\ caps' = caps
    BY <1>1
  <2>3. caps' = caps => /\ Proxy!AllTenants(r.who)' <=> Proxy!AllTenants(r.who)
                        /\ Proxy!CanRunAdhoc(r.who)' <=> Proxy!CanRunAdhoc(r.who)
    BY DEF Proxy!AllTenants, Proxy!CanRunAdhoc
  <2> QED
    BY <1>2, <1>3, <2>1, <2>2, <2>3 DEF BaseOK, Between, Proxy!Own, Proxy!RunSpl, Proxy!Unresolvable
<1>5. CallOK(r, g)'
  <2>1. CallOK(r, g)
    BY <1>1, <1>2, <1>3 DEF CallOK
  <2> QED
    BY <2>1 DEF CallOK, Between, Proxy!Own, Proxy!Args, Proxy!Unresolvable, Proxy!ByLabel, Proxy!ById
<1>6. ExactOK(r, g)'
  <2>1. ExactOK(r, g)
    BY <1>1, <1>2 DEF ExactOK
  <2> QED
    BY <2>1 DEF ExactOK, Proxy!Unresolvable, Proxy!ById
<1> QED
  BY <1>4, <1>5, <1>6 DEF TurnOK

LEMMA WorldChanges ==
  ASSUME ProxyInv, turn' = turn, Proxy!Witnessed
  PROVE  ProxyInv'
<1> DEFINE g(q) == LET r == turn[q]  h == since[q] IN
             [labels |-> h.labels \cup Proxy!ScopeLabels(r.who)', under |-> h.under \cup Proxy!Under',
              held |-> h.held \cap Proxy!InReach(r.who)', all |-> h.all \/ Proxy!AllTenants(r.who)',
              edited |-> h.edited \/ caps' # caps, failed |-> h.failed]
<1>1. since' = [q \in Questions |-> IF turn[q].pc = "free" THEN since[q] ELSE g(q)]
  BY DEF Proxy!Witnessed
<1>2. \A q \in Questions : IsSince(g(q))
  BY DEF IsSince
<1>3. ASSUME NEW q \in Questions, NEW r, NEW h, NEW k, r = turn[q], h = since[q], k = since'[q]
      PROVE  IsTurn(r) /\ IsSince(k) /\ TurnOK(r, k)'
  <2>1. IsTurn(r) /\ IsSince(h) /\ TurnOK(r, h)
    BY <1>3 DEF ProxyInv
  <2>2. CASE r.pc = "free"
    <3>1. k = h
      BY <1>1, <1>3, <2>2
    <3> QED
      BY <2>1, <2>2, <3>1 DEF TurnOK
  <2>3. CASE r.pc # "free"
    <3>1. k = g(q)
      BY <1>1, <1>3, <2>3
    <3>2. /\ k.labels = h.labels \cup Proxy!ScopeLabels(r.who)' /\ k.under = h.under \cup Proxy!Under'
          /\ k.held = h.held \cap Proxy!InReach(r.who)' /\ (k.all <=> h.all \/ Proxy!AllTenants(r.who)')
          /\ (k.edited <=> h.edited \/ caps' # caps) /\ k.failed = h.failed
      <4>1. k = [labels |-> h.labels \cup Proxy!ScopeLabels(r.who)', under |-> h.under \cup Proxy!Under',
                 held |-> h.held \cap Proxy!InReach(r.who)', all |-> h.all \/ Proxy!AllTenants(r.who)',
                 edited |-> h.edited \/ caps' # caps, failed |-> h.failed]
        BY <1>3, <3>1
      <4> HIDE DEF g
      <4> QED
        BY <4>1
    <3> HIDE DEF g
    <3>3. TurnOK(r, k)'
      BY <2>1, <2>3, <3>2, HistoryGrows
    <3> QED
      BY <1>2, <2>1, <3>1, <3>3
  <2> QED
    BY <2>2, <2>3
<1>4. /\ turn' = [q \in Questions |-> turn'[q]] /\ since' = [q \in Questions |-> since'[q]]
      /\ \A q \in Questions : turn'[q] = turn[q]
  BY <1>1 DEF ProxyInv
<1> HIDE DEF g
<1> QED
  BY <1>3, <1>4 DEF ProxyInv

LEMMA ProxyInit == Proxy!Init => ProxyInv
<1> SUFFICES ASSUME Proxy!Init PROVE ProxyInv
  OBVIOUS
<1>1. turn = [q \in Questions |-> Proxy!Free] /\ since = [q \in Questions |-> Proxy!Nothing]
  BY DEF Proxy!Init
<1>2. TurnOK(Proxy!Free, Proxy!Nothing)
  BY AtRest DEF TurnOK
<1> QED
  BY <1>1, <1>2, AtRest DEF ProxyInv

LEMMA ProxyStep ==
  ASSUME Proxy!ConstantsOK, ProxyInv, [Proxy!Next]_(Proxy!vars)
  PROVE  ProxyInv'
<1>1. CASE UNCHANGED Proxy!vars
  <2>1. turn' = turn /\ since' = since /\ UNCHANGED <<caps, label, case>>
    BY <1>1 DEF Proxy!vars
  <2>2. \A r, h : TurnOK(r, h)' <=> TurnOK(r, h)
    BY <2>1 DEF TurnOK, BaseOK, WitnessOK, CallOK, ExactOK, Between, Proxy!ScopeLabels, Proxy!Under, Proxy!InReach,
                Proxy!AllTenants, Proxy!CanRunAdhoc
  <2> QED
    BY <2>1, <2>2 DEF ProxyInv
<1>2. ASSUME NEW t \in Tenants, NEW l \in Labels, Proxy!SetLabel(t, l) PROVE ProxyInv'
  BY <1>2, WorldChanges DEF Proxy!SetLabel, Proxy!Edit
<1>3. ASSUME NEW role \in DOMAIN RoleTools, NEW some \in SUBSET Proxy!OverTenants, Proxy!SetCaps(role, some)
      PROVE  ProxyInv'
  BY <1>3, WorldChanges DEF Proxy!SetCaps, Proxy!Edit
<1>4. ASSUME NEW c \in Cases, NEW l \in Labels \cup {None}, Proxy!MoveCase(c, l) PROVE ProxyInv'
  BY <1>4, WorldChanges DEF Proxy!MoveCase, Proxy!Edit
<1>5. ASSUME NEW q \in Questions,
             \/ \E who \in Callers : Proxy!Begin(q, who)
             \/ Proxy!ReadLabels(q) \/ Proxy!Offer(q) \/ Proxy!End(q)
             \/ \E tool \in Proxy!Tools : \E arg \in Proxy!Args(tool) : Proxy!Call(q, tool, arg)
             \/ Proxy!ReadScope(q) \/ Proxy!CheckCase(q) \/ Proxy!Last(q)
             \/ Proxy!BridgeFails(q) \/ Proxy!ToolFails(q)
      PROVE  ProxyInv'
  BY <1>5, QuestionBegins, LabelsAreRead, ToolsAreOffered, QuestionEnds, CallBegins, ScopeIsRead, CaseIsChecked,
     BridgeAnswers, CallsFail
<1> QED
  BY <1>1, <1>2, <1>3, <1>4, <1>5 DEF Proxy!Next

\* By the tools that run checks, a scoped caller is shown cases that were under a label of
\* his tenants while his question was at work; he is refused none that were all along, and
\* may use what he is offered.  Of the tools passed through it says nothing.
THEOREM ScopeHolds == Spec => []ScopeIsExact
<1> USE ServicesAssumption
<1>1. ProxyInv /\ [Proxy!Next]_(Proxy!vars) => ProxyInv'
  BY ProxyStep
<1>2. ProxyInv => Proxy!ScopeIsExact
  BY DEF ProxyInv, TurnOK, ExactOK, Proxy!ScopeIsExact
<1> QED
  BY <1>1, <1>2, ProxyInit, Parts, PTL DEF Proxy!Spec, ScopeIsExact

----------------------------------------------------------------------------
(* The roster.  The cells of a header are counted; the cache lasts for some  *)
(* time, and None is no time.                                                *)

\* How many members of a set are smaller.
Rank(all, c) == Cardinality({x \in all : x < c})

\* The operator of an instance and that of FiniteSets are one.
LEMMA RosterCardinality ==
  ASSUME NEW S
  PROVE  Roster!Cardinality(S) = Cardinality(S)
  BY DEF Roster!Cardinality, Cardinality

\* Numbers are ranked in their order, from 0, without a gap.
LEMMA RanksAre ==
  ASSUME NEW n \in Nat, NEW all \in SUBSET (1..n)
  PROVE  /\ Cardinality(all) \in Nat
         /\ \A c \in all : Rank(all, c) \in 0..(Cardinality(all) - 1)
         /\ \A c, d \in all : c < d => Rank(all, c) < Rank(all, d)
         /\ \A k \in 0..(Cardinality(all) - 1) : \E c \in all : Rank(all, c) = k
<1> DEFINE N == Cardinality(all)
           Below(c) == {x \in all : x < c}
<1>1. IsFiniteSet(all) /\ N \in Nat
  <2>1. IsFiniteSet(1..n)
    BY FS_Interval
  <2>2. IsFiniteSet(all)
    BY <2>1, FS_Subset
  <2> QED
    BY <2>2, FS_CardinalityType
<1>2. ASSUME NEW c \in all, NEW d, Below(c) \in SUBSET Below(d), Below(c) # Below(d)
      PROVE  Rank(all, c) < Rank(all, d)
  <2>1. Below(d) \in SUBSET all
    OBVIOUS
  <2> HIDE DEF Below
  <2>2. IsFiniteSet(Below(d))
    BY <1>1, <2>1, FS_Subset
  <2>3. /\ IsFiniteSet(Below(c)) /\ Cardinality(Below(c)) =< Cardinality(Below(d))
        /\ Cardinality(Below(d)) # Cardinality(Below(c))
    BY <1>2, <2>2, FS_Subset
  <2>4. Cardinality(Below(c)) \in Nat /\ Cardinality(Below(d)) \in Nat
    BY <2>2, <2>3, FS_CardinalityType
  <2> QED
    BY <2>3, <2>4 DEF Rank, Below
<1>3. ASSUME NEW c \in all PROVE Rank(all, c) \in 0..(N - 1)
  <2>1. Below(c) \in SUBSET all /\ c \notin Below(c)
    OBVIOUS
  <2> HIDE DEF Below
  <2>2. IsFiniteSet(Below(c)) /\ Cardinality(Below(c)) =< N /\ N # Cardinality(Below(c))
    BY <1>1, <2>1, FS_Subset
  <2>3. Cardinality(Below(c)) \in Nat
    BY <2>2, FS_CardinalityType
  <2>4. Cardinality(Below(c)) \in 0..(N - 1)
    <3> HIDE DEF N
    <3> QED
      BY <1>1, <2>2, <2>3
  <2> QED
    BY <2>4 DEF Rank, Below
<1>4. ASSUME NEW c \in all, NEW d \in all, c < d
      PROVE  Rank(all, c) < Rank(all, d)
  <2>1. \A x \in all : x \in Nat
    OBVIOUS
  <2>2. \A x \in all : x < c => x < d
    BY <1>4, <2>1
  <2>3. Below(c) \in SUBSET Below(d)
    BY <2>2
  <2>4. c \in Below(d) /\ c \notin Below(c)
    <3>1. c \in Below(d)
      BY <1>4
    <3>2. ~(c < c)
      BY <2>1
    <3> QED
      BY <3>1, <3>2
  <2> QED
    BY <1>2, <2>3, <2>4
<1>5. ASSUME NEW k \in 0..(N - 1) PROVE \E c \in all : Rank(all, c) = k
  <2> DEFINE f == [c \in all |-> Rank(all, c)]
             T == 0..(N - 1)
  <2>1. f \in [all -> T]
    BY <1>3
  <2>2. ASSUME NEW c \in all, NEW d \in all, f[c] = f[d] PROVE c = d
    <3> SUFFICES ASSUME c # d PROVE FALSE
      OBVIOUS
    <3>1. c < d \/ d < c
      OBVIOUS
    <3>2. Rank(all, c) \in Int /\ Rank(all, d) \in Int
      BY <1>3
    <3> QED
      BY <1>4, <2>2, <3>1, <3>2
  <2>3. IsFiniteSet(T) /\ Cardinality(T) = N
    BY <1>1, FS_Interval
  <2> HIDE DEF f, T, N
  <2>4. f \in Injection(all, T)
    BY <2>1, <2>2 DEF Injection, IsInjective
  <2>5. f \in Surjection(all, T)
    BY <2>3, <2>4, FS_Injection DEF N
  <2>6. \E c \in all : f[c] = k
    BY <2>5 DEF Surjection, T
  <2> QED
    BY <2>6 DEF f
<1> QED
  BY <1>1, <1>3, <1>4, <1>5

\* The columns with a date are those, each once and in their order.
LEMMA ColumnsAre ==
  ASSUME NEW header, Len(header) \in Nat
  PROVE  LET cols == Roster!Columns(header)
             N == Cardinality({c \in 1..Len(header) : header[c] # NoDate}) IN
         /\ N \in Nat /\ DOMAIN cols = 1..N
         /\ \A i \in 1..N : cols[i] \in 1..Len(header) /\ header[cols[i]] # NoDate
         /\ \A i, j \in 1..N : i =< j => cols[i] =< cols[j]
         /\ \A c \in 1..Len(header) : header[c] # NoDate => \E i \in 1..N : cols[i] = c
<1> DEFINE all == {c \in 1..Len(header) : header[c] # NoDate}
           N == Cardinality(all)
           cols == Roster!Columns(header)
           rank(c) == Roster!Cardinality({x \in all : x < c})
<1>1. cols = [i \in 1..N |-> CHOOSE c \in all : rank(c) = i - 1]
  <2>1. Roster!Cardinality(all) = N
    BY RosterCardinality
  <2> QED
    BY <2>1 DEF Roster!Columns
<1>2. all \in SUBSET (1..Len(header)) /\ \A c \in all : c \in Nat
  OBVIOUS
<1>3. /\ N \in Nat
      /\ \A c \in all : Rank(all, c) \in 0..(N - 1)
      /\ \A c, d \in all : c < d => Rank(all, c) < Rank(all, d)
      /\ \A k \in 0..(N - 1) : \E c \in all : Rank(all, c) = k
  <2> HIDE DEF all
  <2> QED
    BY <1>2, RanksAre
<1>4. ASSUME NEW i \in 1..N PROVE cols[i] \in all /\ Rank(all, cols[i]) = i - 1
  <2> HIDE DEF all, cols, N
  <2>1. \A c : rank(c) = Rank(all, c)
    BY RosterCardinality DEF Rank
  <2>2. i - 1 \in 0..(N - 1)
    BY <1>3
  <2>3. \E c \in all : rank(c) = i - 1
    BY <1>3, <2>1, <2>2
  <2> HIDE DEF rank
  <2>4. cols[i] = CHOOSE c \in all : rank(c) = i - 1
    BY <1>1
  <2> QED
    BY <2>1, <2>3, <2>4
<1> HIDE DEF all, cols, N
<1>5. ASSUME NEW i \in 1..N, NEW j \in 1..N, i =< j PROVE cols[i] =< cols[j]
  <2>1. cols[i] \in 1..Len(header) /\ cols[j] \in 1..Len(header)
    BY <1>2, <1>4
  <2>2. cols[j] < cols[i] => j - 1 < i - 1
    BY <1>3, <1>4
  <2> QED
    BY <1>3, <1>5, <2>1, <2>2
<1>6. ASSUME NEW c \in all PROVE \E i \in 1..N : cols[i] = c
  <2> DEFINE i == Rank(all, c) + 1
  <2>1. i \in 1..N /\ i - 1 = Rank(all, c)
    BY <1>3
  <2> HIDE DEF i
  <2>2. cols[i] \in all /\ Rank(all, cols[i]) = Rank(all, c)
    BY <1>4, <2>1
  <2>3. ~(c < cols[i]) /\ ~(cols[i] < c)
    BY <1>3, <2>2
  <2>4. cols[i] \in Nat /\ c \in Nat
    BY <1>2, <2>2
  <2> QED
    BY <2>1, <2>3, <2>4
<1> QED
  BY <1>1, <1>3, <1>4, <1>5, <1>6 DEF all, N, cols

\* Who is on shift by the roster that was parsed is listed so.
LEMMA ParsedRight ==
  ASSUME NEW l, Len(l.header) \in Nat, NEW d, d # NoDate
  PROVE  Roster!OnShift(Roster!Parse(l), d) = Roster!Listed(l, d)
<1> DEFINE cols == Roster!Columns(l.header)
           N == Cardinality({c \in 1..Len(l.header) : l.header[c] # NoDate})
           named == {x \in l.rows : x # <<>> /\ x[1] # ""}
           codes(r) == [i \in 1..N |-> IF cols[i] <= Len(r) THEN Roster!Code(r[cols[i]]) ELSE ""]
           people == {[u |-> r[1], s |-> codes(r)] : r \in named}
           parsed == Roster!Parse(l)
           idx == {i \in DOMAIN parsed.days : parsed.days[i] = d}
           under == {c \in 1..Len(l.header) : l.header[c] = d}
           first == CHOOSE i \in idx : \A j \in idx : i <= j
           lists(x, w) == \E c \in under : /\ \A o \in under : c <= o
                                           /\ c <= Len(x) /\ Roster!Code(x[c]) = w
           told(w) == IF idx = {} THEN {} ELSE {p.u : p \in {q \in parsed.people : q.s[first] = w}}
           listed(w) == {r[1] : r \in {x \in l.rows : x # <<>> /\ x[1] # "" /\ lists(x, w)}}
<1>1. /\ N \in Nat /\ DOMAIN cols = 1..N
      /\ \A i \in 1..N : cols[i] \in 1..Len(l.header) /\ l.header[cols[i]] # NoDate
      /\ \A i, j \in 1..N : i =< j => cols[i] =< cols[j]
      /\ \A c \in 1..Len(l.header) : l.header[c] # NoDate => \E i \in 1..N : cols[i] = c
  BY ColumnsAre
<1>2. Roster!OnShift(parsed, d) = [w \in {"M", "E", "N"} |-> told(w)]
  <2> HIDE DEF parsed
  <2> QED
    BY DEF Roster!OnShift
<1>3. Roster!Listed(l, d) = [w \in {"M", "E", "N"} |-> listed(w)]
  BY DEF Roster!Listed
<1>4. parsed = [days |-> [i \in 1..N |-> l.header[cols[i]]], people |-> people]
  <2> HIDE DEF N
  <2> QED
    BY <1>1 DEF Roster!Parse
<1> HIDE DEF cols, N, parsed
<1>5. /\ idx = {i \in 1..N : l.header[cols[i]] = d} /\ parsed.people = people
  BY <1>4
<1>6. /\ \A i \in idx : i \in Nat /\ i \in 1..N /\ cols[i] \in under /\ cols[i] \in Nat
      /\ \A c \in under : c \in Nat /\ \E i \in idx : cols[i] = c
  <2> HIDE DEF idx
  <2>1. \A i \in idx : i \in 1..N /\ l.header[cols[i]] = d
    BY <1>5
  <2>2. \A i \in idx : i \in Nat /\ cols[i] \in under /\ cols[i] \in Nat
    BY <1>1, <2>1
  <2>3. ASSUME NEW c \in under PROVE c \in Nat /\ \E i \in idx : cols[i] = c
    <3>1. c \in 1..Len(l.header) /\ l.header[c] = d
      OBVIOUS
    <3>2. PICK i \in 1..N : cols[i] = c
      BY <1>1, <3>1
    <3>3. i \in idx
      BY <1>5, <3>1, <3>2
    <3>4. c \in Nat
      BY <3>1
    <3> QED
      BY <3>2, <3>3, <3>4
  <2> QED
    BY <2>1, <2>2, <2>3
<1> HIDE DEF idx, under
<1>7. ASSUME NEW w \in {"M", "E", "N"} PROVE told(w) = listed(w)
  <2>1. CASE idx = {}
    <3>1. under = {}
      BY <1>6, <2>1
    <3>2. listed(w) = {}
      BY <3>1
    <3> QED
      BY <2>1, <3>2
  <2>2. CASE idx # {}
    <3>1. \E i \in idx : \A j \in idx : i =< j
      <4>1. idx \in SUBSET Nat
        BY <1>6
      <4> QED
        BY <2>2, <4>1, Smallest
    <3>2. first \in idx /\ \A j \in idx : first =< j
      BY <3>1
    <3> HIDE DEF first
    <3>3. cols[first] \in under /\ \A o \in under : cols[first] =< o
      BY <1>1, <1>6, <3>2
    <3>4. \A x : lists(x, w) <=> cols[first] <= Len(x) /\ Roster!Code(x[cols[first]]) = w
      <4>1. \A c \in under : (\A o \in under : c =< o) => c = cols[first]
        BY <1>6, <3>2, <3>3
      <4> QED
        BY <3>3, <4>1
    <3>5. \A r \in named : codes(r)[first] = w <=> lists(r, w)
      BY <1>6, <3>2, <3>4
    <3>6. told(w) = {p.u : p \in {q \in people : q.s[first] = w}}
      BY <1>5, <2>2
    <3> HIDE DEF codes, lists, told
    <3>7. ASSUME NEW v \in told(w) PROVE v \in listed(w)
      <4>1. PICK p \in people : p.s[first] = w /\ v = p.u
        BY <3>6
      <4>2. PICK r \in named : p = [u |-> r[1], s |-> codes(r)]
        BY <4>1
      <4>3. v = r[1] /\ lists(r, w)
        BY <3>5, <4>1, <4>2
      <4> QED
        BY <4>2, <4>3
    <3>8. ASSUME NEW v \in listed(w) PROVE v \in told(w)
      <4>1. PICK r \in named : lists(r, w) /\ v = r[1]
        OBVIOUS
      <4> DEFINE p == [u |-> r[1], s |-> codes(r)]
      <4>2. p \in people /\ p.s[first] = w /\ p.u = v
        BY <3>5, <4>1
      <4> QED
        BY <3>6, <4>2
    <3> QED
      BY <3>7, <3>8
  <2> QED
    BY <2>1, <2>2
<1> HIDE DEF told, listed
<1>8. [w \in {"M", "E", "N"} |-> told(w)] = [w \in {"M", "E", "N"} |-> listed(w)]
  BY <1>7, Zenon
<1> QED
  BY <1>2, <1>3, <1>8 DEF parsed

IsRow(r) == r \in [pc : {r.pc}, asked : {r.asked}, at : {r.at}, got : {r.got}]

\* What was got is the list as it was at some time, no earlier than another.
Got(got, from) == \E s \in shown : from =< s[1] /\ got = Roster!Parse(s[2])

ShownOK ==
  /\ rosterNow \in Nat /\ list \in Lists /\ shown \subseteq Nat \X Lists /\ <<rosterNow, list>> \in shown

\* What is cached is no older than its time says.
CachedOK ==
  /\ roster \in [roster : {roster.roster}, at : {roster.at}]
  /\ roster.at # None => roster.at \in Nat /\ roster.at =< rosterNow /\ Got(roster.roster, roster.at)

\* Who fetches began after the last who has done so.
RowOK(r) ==
  /\ IsRow(r)
  /\ r.pc # "free" => r.asked \in Nat /\ r.asked =< rosterNow
  /\ r.pc \in {"fetch", "put", "stamp"} =>
       /\ r.at \in Nat /\ r.asked =< r.at /\ r.at =< rosterNow
       /\ roster.at # None => roster.at =< r.at
  /\ r.pc \in {"put", "stamp"} => Got(r.got, r.at)
  /\ r.pc = "stamp" => roster.roster = r.got
  /\ r.pc = "return" => roster.at # None /\ r.asked - roster.at < CacheSeconds
  /\ r.pc = "answered" => \E s \in shown : r.asked - s[1] < CacheSeconds /\ r.got = Roster!Parse(s[2])

RowsOK ==
  /\ rosterThread = [t \in Threads |-> rosterThread[t]]
  /\ \A t \in Threads : RowOK(rosterThread[t])
  /\ \A t, u \in Roster!Fetching : t = u

RosterOK == ShownOK /\ CachedOK /\ RowsOK
RosterInv == ~overlap => RosterOK

LEMMA RosterInit == Roster!ConstantsOK /\ Roster!Init => RosterInv
<1> SUFFICES ASSUME Roster!ConstantsOK, Roster!Init PROVE RosterOK
  BY DEF RosterInv
<1>1. IsRow(Roster!Free) /\ Roster!Free.pc = "free"
  BY DEF IsRow, Roster!Free
<1>2. ShownOK
  BY DEF Roster!Init, ShownOK
<1>3. CachedOK
  BY DEF Roster!Init, CachedOK
<1>4. RowsOK
  <2>1. rosterThread = [t \in Threads |-> Roster!Free]
    BY DEF Roster!Init
  <2>2. RowOK(Roster!Free)
    BY <1>1 DEF RowOK
  <2> QED
    BY <1>1, <2>1, <2>2 DEF RowsOK, Roster!Fetching
<1> QED
  BY <1>2, <1>3, <1>4 DEF RosterOK

\* A step of a thread that leaves the cache.
LEMMA RosterMoves ==
  ASSUME RosterOK, NEW t \in Threads, NEW r, UNCHANGED <<rosterNow, list, shown, roster>>,
         rosterThread' = [rosterThread EXCEPT ![t] = r], RowOK(r),
         r.pc \in {"fetch", "put", "stamp"} => t \in Roster!Fetching \/ Roster!Fetching = {}
  PROVE  RosterOK'
<1>1. ShownOK' /\ CachedOK'
  BY DEF RosterOK, ShownOK, CachedOK, Got
<1>2. \A s : RowOK(s)' <=> RowOK(s)
  BY DEF RowOK, IsRow, Got
<1>3. /\ rosterThread' = [u \in Threads |-> rosterThread'[u]] /\ rosterThread'[t] = r
      /\ \A u \in Threads \ {t} : rosterThread'[u] = rosterThread[u]
  BY DEF RosterOK, RowsOK
<1>4. \A u \in Threads : RowOK(rosterThread'[u])
  BY <1>3 DEF RosterOK, RowsOK
<1>5. \A u, v \in Roster!Fetching' : u = v
  BY <1>3 DEF RosterOK, RowsOK, Roster!Fetching
<1> QED
  BY <1>1, <1>2, <1>3, <1>4, <1>5 DEF RosterOK, RowsOK

LEMMA AskOK ==
  ASSUME RosterOK, NEW t \in Threads, Roster!Ask(t)
  PROVE  RosterOK'
<1> DEFINE r == [Roster!Free EXCEPT !.pc = "look", !.asked = rosterNow]
<1>1. UNCHANGED <<rosterNow, list, shown, roster>> /\ rosterThread' = [rosterThread EXCEPT ![t] = r]
  BY DEF Roster!Ask, Roster!Be, Roster!Still
<1>2. IsRow(r) /\ r.pc = "look" /\ r.asked = rosterNow
  BY DEF IsRow, Roster!Free
<1> HIDE DEF r
<1>3. RowOK(r)
  BY <1>2 DEF RosterOK, ShownOK, RowOK
<1> QED
  BY <1>1, <1>2, <1>3, RosterMoves

LEMMA LookOK ==
  ASSUME Roster!ConstantsOK, RosterOK, ~overlap', NEW t \in Threads, Roster!Look(t)
  PROVE  RosterOK'
<1> DEFINE r == rosterThread[t]
           hit == [r EXCEPT !.pc = "return"]
           miss == [r EXCEPT !.pc = "fetch", !.at = rosterNow]
<1>1. UNCHANGED <<rosterNow, list, shown, roster>> /\ r.pc = "look"
  BY DEF Roster!Look, Roster!Still
<1>2. RowOK(r) /\ rosterNow \in Nat
  BY DEF RosterOK, RowsOK, ShownOK
<1>3. \/ /\ roster.at # None /\ rosterNow - roster.at < CacheSeconds
         /\ rosterThread' = [rosterThread EXCEPT ![t] = hit]
      \/ rosterThread' = [rosterThread EXCEPT ![t] = miss] /\ Roster!Fetching = {}
  BY DEF Roster!Look, Roster!Be
<1> HIDE DEF r
<1>4. r.asked \in Nat /\ r.asked =< rosterNow
  BY <1>1, <1>2 DEF RowOK
<1>5. roster.at # None => roster.at \in Nat /\ roster.at =< rosterNow
  BY DEF RosterOK, CachedOK
<1>6. CASE /\ roster.at # None /\ rosterNow - roster.at < CacheSeconds
           /\ rosterThread' = [rosterThread EXCEPT ![t] = hit]
  <2>1. IsRow(hit) /\ hit.pc = "return" /\ hit.asked = r.asked
    BY <1>2 DEF RowOK, IsRow
  <2> HIDE DEF hit
  <2>2. r.asked - roster.at < CacheSeconds
    BY <1>2, <1>4, <1>5, <1>6 DEF Roster!ConstantsOK
  <2>3. RowOK(hit)
    BY <1>4, <1>6, <2>1, <2>2 DEF RowOK
  <2> QED
    BY <1>1, <1>6, <2>1, <2>3, RosterMoves
<1>7. CASE rosterThread' = [rosterThread EXCEPT ![t] = miss] /\ Roster!Fetching = {}
  <2>1. IsRow(miss) /\ miss.pc = "fetch" /\ miss.asked = r.asked /\ miss.at = rosterNow
    BY <1>2 DEF RowOK, IsRow
  <2> HIDE DEF miss
  <2>2. RowOK(miss)
    BY <1>2, <1>4, <1>5, <2>1 DEF RowOK
  <2> QED
    BY <1>1, <1>7, <2>2, RosterMoves
<1> QED
  BY <1>3, <1>6, <1>7

LEMMA ReturnOK ==
  ASSUME Roster!ConstantsOK, RosterOK, NEW t \in Threads, Roster!Return(t)
  PROVE  RosterOK'
<1> DEFINE r == rosterThread[t]
           s == [r EXCEPT !.pc = "answered", !.got = roster.roster]
<1>1. UNCHANGED <<rosterNow, list, shown, roster>> /\ r.pc = "return" /\ rosterThread' = [rosterThread EXCEPT ![t] = s]
  BY DEF Roster!Return, Roster!Be, Roster!Still
<1>2. RowOK(r)
  BY DEF RosterOK, RowsOK
<1> HIDE DEF r
<1>3. IsRow(s) /\ s.pc = "answered" /\ s.got = roster.roster /\ s.asked = r.asked
  BY <1>2 DEF RowOK, IsRow
<1> HIDE DEF s
<1>4. /\ r.asked \in Nat /\ r.asked =< rosterNow /\ roster.at # None /\ r.asked - roster.at < CacheSeconds
      /\ roster.at \in Nat /\ CacheSeconds \in Nat
  BY <1>1, <1>2 DEF RowOK, RosterOK, CachedOK, Roster!ConstantsOK
<1>5. PICK p \in shown : roster.at =< p[1] /\ roster.roster = Roster!Parse(p[2])
  BY <1>4 DEF RosterOK, CachedOK, Got
<1>6. r.asked - p[1] < CacheSeconds
  <2>1. p[1] \in Nat
    BY DEF RosterOK, ShownOK
  <2> QED
    BY <1>4, <1>5, <2>1
<1>7. RowOK(s)
  BY <1>3, <1>4, <1>5, <1>6 DEF RowOK
<1> QED
  BY <1>1, <1>3, <1>7, RosterMoves

LEMMA FetchOK ==
  ASSUME RosterOK, NEW t \in Threads, Roster!Fetch(t) \/ Roster!FetchFails(t)
  PROVE  RosterOK'
<1> DEFINE r == rosterThread[t]
           s == [r EXCEPT !.pc = "put", !.got = Roster!Parse(list)]
<1>1. /\ UNCHANGED <<rosterNow, list, shown, roster>> /\ r.pc = "fetch"
      /\ \/ rosterThread' = [rosterThread EXCEPT ![t] = s]
         \/ rosterThread' = [rosterThread EXCEPT ![t] = Roster!Free]
  BY DEF Roster!Fetch, Roster!FetchFails, Roster!Be, Roster!Still
<1>2. RowOK(r) /\ t \in Roster!Fetching
  BY <1>1 DEF RosterOK, RowsOK, Roster!Fetching
<1> HIDE DEF r
<1>3. CASE rosterThread' = [rosterThread EXCEPT ![t] = s]
  <2>1. /\ IsRow(s) /\ s.pc = "put" /\ s.got = Roster!Parse(list) /\ s.asked = r.asked /\ s.at = r.at
    BY <1>2 DEF RowOK, IsRow
  <2> HIDE DEF s
  <2>2. Got(s.got, s.at)
    <3>1. <<rosterNow, list>> \in shown /\ r.at =< rosterNow
      BY <1>1, <1>2 DEF RosterOK, ShownOK, RowOK
    <3> QED
      BY <2>1, <3>1 DEF Got
  <2>3. RowOK(s)
    BY <1>1, <1>2, <2>1, <2>2 DEF RowOK
  <2> QED
    BY <1>1, <1>2, <1>3, <2>3, RosterMoves
<1>4. CASE rosterThread' = [rosterThread EXCEPT ![t] = Roster!Free]
  <2>1. IsRow(Roster!Free) /\ Roster!Free.pc = "free"
    BY DEF IsRow, Roster!Free
  <2>2. RowOK(Roster!Free)
    BY <2>1 DEF RowOK
  <2> QED
    BY <1>1, <1>2, <1>4, <2>2, RosterMoves
<1> QED
  BY <1>1, <1>3, <1>4

\* A step of the one thread that fetches, which writes the cache.
LEMMA CacheMoves ==
  ASSUME Roster!ConstantsOK, RosterOK, NEW t \in Threads, NEW r, NEW k, UNCHANGED <<rosterNow, list, shown>>, t \in Roster!Fetching,
         rosterThread' = [rosterThread EXCEPT ![t] = r], roster' = k, RowOK(r)', CachedOK',
         roster.at # None => k.at # None /\ roster.at \in Int /\ k.at \in Int /\ roster.at =< k.at
  PROVE  RosterOK'
<1>1. ShownOK'
  BY DEF RosterOK, ShownOK
<1>2. /\ rosterThread' = [u \in Threads |-> rosterThread'[u]] /\ rosterThread'[t] = r
      /\ \A u \in Threads \ {t} : rosterThread'[u] = rosterThread[u]
  BY DEF RosterOK, RowsOK
<1>3. ASSUME NEW u \in Threads \ {t}, NEW s, s = rosterThread[u] PROVE RowOK(s)'
  <2>1. RowOK(s) /\ s.pc \notin {"fetch", "put", "stamp"}
    BY <1>3 DEF RosterOK, RowsOK, Roster!Fetching
  <2>2. s.pc = "return" => k.at # None /\ s.asked - k.at < CacheSeconds
    <3> SUFFICES ASSUME s.pc = "return" PROVE k.at # None /\ s.asked - k.at < CacheSeconds
      OBVIOUS
    <3>1. s.asked \in Nat /\ roster.at # None /\ s.asked - roster.at < CacheSeconds
      BY <2>1 DEF RowOK
    <3> QED
      BY <3>1 DEF Roster!ConstantsOK
  <2> QED
    BY <2>1, <2>2 DEF RowOK, IsRow, Got
<1>4. \A u, v \in Roster!Fetching' : u = v
  BY <1>2 DEF RosterOK, RowsOK, Roster!Fetching
<1> QED
  BY <1>1, <1>2, <1>3, <1>4 DEF RosterOK, RowsOK

LEMMA PutOK ==
  ASSUME Roster!ConstantsOK, RosterOK, NEW t \in Threads, Roster!Put(t)
  PROVE  RosterOK'
<1>1. PICK r, s, c, k : /\ r = rosterThread[t] /\ s = [r EXCEPT !.pc = "stamp"]
                        /\ c = roster /\ k = [c EXCEPT !.roster = r.got]
  OBVIOUS
<1>2. /\ UNCHANGED <<rosterNow, list, shown>> /\ r.pc = "put"
      /\ rosterThread' = [rosterThread EXCEPT ![t] = s] /\ roster' = k
  BY <1>1 DEF Roster!Put, Roster!Be, Roster!Still
<1>3. RowOK(r) /\ t \in Roster!Fetching
  BY <1>1, <1>2 DEF RosterOK, RowsOK, Roster!Fetching
<1>4. /\ IsRow(s) /\ s.pc = "stamp" /\ s.got = r.got /\ s.asked = r.asked /\ s.at = r.at
  BY <1>1, <1>3 DEF RowOK, IsRow
<1>5. k \in [roster : {k.roster}, at : {k.at}] /\ k.roster = r.got /\ k.at = c.at
  BY <1>1 DEF RosterOK, CachedOK
<1>6. /\ r.asked \in Nat /\ r.at \in Nat /\ r.asked =< r.at /\ r.at =< rosterNow /\ r.asked =< rosterNow
      /\ c.at # None => c.at \in Nat /\ c.at =< r.at /\ c.at =< rosterNow
  BY <1>1, <1>2, <1>3 DEF RowOK, RosterOK, CachedOK
<1>7. Got(r.got, r.at)
  BY <1>2, <1>3 DEF RowOK
<1>8. RowOK(s)'
  BY <1>2, <1>4, <1>5, <1>6, <1>7 DEF RowOK, Got, IsRow
<1>9. CachedOK'
  <2>1. c.at # None => Got(r.got, c.at)
    <3> SUFFICES ASSUME c.at # None PROVE Got(r.got, c.at)
      OBVIOUS
    <3>1. PICK p \in shown : r.at =< p[1] /\ r.got = Roster!Parse(p[2])
      BY <1>7 DEF Got
    <3>2. p[1] \in Nat
      BY DEF RosterOK, ShownOK
    <3> QED
      BY <1>6, <3>1, <3>2 DEF Got
  <2> QED
    BY <1>2, <1>5, <1>6, <2>1 DEF CachedOK, Got
<1>10. roster.at # None => k.at # None /\ roster.at \in Int /\ k.at \in Int /\ roster.at =< k.at
  BY <1>1, <1>5, <1>6
<1> QED
  BY <1>2, <1>3, <1>8, <1>9, <1>10, CacheMoves

LEMMA StampOK ==
  ASSUME Roster!ConstantsOK, RosterOK, NEW t \in Threads, Roster!Stamp(t)
  PROVE  RosterOK'
<1>1. PICK r, s, c, k : /\ r = rosterThread[t] /\ s = [r EXCEPT !.pc = "answered"]
                        /\ c = roster /\ k = [c EXCEPT !.at = r.at]
  OBVIOUS
<1>2. /\ UNCHANGED <<rosterNow, list, shown>> /\ r.pc = "stamp"
      /\ rosterThread' = [rosterThread EXCEPT ![t] = s] /\ roster' = k
  BY <1>1 DEF Roster!Stamp, Roster!Be, Roster!Still
<1>3. RowOK(r) /\ t \in Roster!Fetching
  BY <1>1, <1>2 DEF RosterOK, RowsOK, Roster!Fetching
<1>4. /\ IsRow(s) /\ s.pc = "answered" /\ s.got = r.got /\ s.asked = r.asked
  BY <1>1, <1>3 DEF RowOK, IsRow
<1>5. k \in [roster : {k.roster}, at : {k.at}] /\ k.roster = r.got /\ k.at = r.at
  BY <1>1, <1>2, <1>3 DEF RosterOK, CachedOK, RowOK
<1>6. /\ r.asked \in Nat /\ r.at \in Nat /\ r.asked =< r.at /\ r.at =< rosterNow /\ r.asked =< rosterNow
      /\ c.at # None => c.at \in Nat /\ c.at =< r.at
      /\ r.at # None
  BY <1>1, <1>2, <1>3 DEF RowOK, RosterOK, CachedOK, Roster!ConstantsOK
<1>7. Got(r.got, r.at)
  BY <1>2, <1>3 DEF RowOK
<1>8. RowOK(s)'
  <2>1. PICK p \in shown : r.at =< p[1] /\ r.got = Roster!Parse(p[2])
    BY <1>7 DEF Got
  <2>2. p[1] \in Nat /\ CacheSeconds \in Nat \ {0}
    BY DEF RosterOK, ShownOK, Roster!ConstantsOK
  <2>3. r.asked - p[1] < CacheSeconds
    BY <1>6, <2>1, <2>2
  <2> QED
    BY <1>2, <1>4, <1>6, <2>1, <2>3 DEF RowOK, IsRow
<1>9. CachedOK'
  <2>1. /\ roster' \in [roster : {roster'.roster}, at : {roster'.at}]
        /\ roster'.at \in Nat /\ roster'.at =< rosterNow' /\ roster'.roster = r.got /\ roster'.at = r.at
    BY <1>2, <1>5, <1>6
  <2> QED
    BY <1>2, <1>7, <2>1 DEF CachedOK, Got
<1>10. roster.at # None => k.at # None /\ roster.at \in Int /\ k.at \in Int /\ roster.at =< k.at
  BY <1>1, <1>5, <1>6
<1> QED
  BY <1>2, <1>3, <1>8, <1>9, <1>10, CacheMoves

\* Time, and the list, only add to what the list has shown.
LEMMA ListMoves ==
  ASSUME RosterOK, rosterNow' \in Nat, rosterNow =< rosterNow', list' \in Lists, shown' = shown \cup {<<rosterNow', list'>>},
         UNCHANGED <<roster, rosterThread>>
  PROVE  RosterOK'
<1>1. ShownOK'
  BY DEF RosterOK, ShownOK
<1>2. \A got, from : Got(got, from) => Got(got, from)'
  BY DEF Got
<1>3. rosterNow \in Nat
  BY DEF RosterOK, ShownOK
<1>4. CachedOK'
  BY <1>2, <1>3 DEF RosterOK, CachedOK
<1>5. ASSUME NEW r, RowOK(r) PROVE RowOK(r)'
  BY <1>2, <1>3, <1>5 DEF RowOK, IsRow
<1>6. RowsOK'
  BY <1>5 DEF RosterOK, RowsOK, Roster!Fetching
<1> QED
  BY <1>1, <1>4, <1>6 DEF RosterOK

LEMMA RosterStep ==
  ASSUME Roster!ConstantsOK, RosterInv, [Roster!Next]_(Roster!vars)
  PROVE  RosterInv'
<1> SUFFICES ASSUME ~overlap' PROVE RosterOK'
  BY DEF RosterInv
<1>1. CASE UNCHANGED Roster!vars
  <2>1. RosterOK /\ UNCHANGED <<rosterNow, list, shown, roster, rosterThread>>
    BY <1>1 DEF RosterInv, Roster!vars
  <2> QED
    BY <2>1 DEF RosterOK, ShownOK, CachedOK, RowsOK, RowOK, IsRow, Got, Roster!Fetching
<1>2. ASSUME NEW t \in Threads,
             \/ Roster!Ask(t) \/ Roster!Look(t) \/ Roster!Return(t) \/ Roster!Fetch(t) \/ Roster!FetchFails(t)
             \/ Roster!Put(t) \/ Roster!Stamp(t)
      PROVE  RosterOK'
  <2>1. ~overlap
    BY <1>2 DEF Roster!Ask, Roster!Look, Roster!Return, Roster!Fetch, Roster!FetchFails, Roster!Put, Roster!Stamp
  <2>2. RosterOK
    BY <2>1 DEF RosterInv
  <2> QED
    BY <1>2, <2>2, AskOK, LookOK, ReturnOK, FetchOK, PutOK, StampOK
<1>3. ASSUME NEW l \in Lists, Roster!Edit(l) PROVE RosterOK'
  <2>1. /\ RosterOK /\ rosterNow' = rosterNow /\ list' = l /\ shown' = shown \cup {<<rosterNow, l>>}
        /\ UNCHANGED <<roster, rosterThread>>
    BY <1>3 DEF Roster!Edit, RosterInv
  <2>2. rosterNow \in Nat
    BY <2>1 DEF RosterOK, ShownOK
  <2> QED
    BY <2>1, <2>2, ListMoves
<1>4. CASE Roster!Tick
  <2>1. /\ RosterOK /\ rosterNow' = rosterNow + 1 /\ list' = list /\ shown' = shown \cup {<<rosterNow + 1, list>>}
        /\ UNCHANGED <<roster, rosterThread>>
    BY <1>4 DEF Roster!Tick, RosterInv
  <2>2. rosterNow \in Nat /\ list \in Lists
    BY <2>1 DEF RosterOK, ShownOK
  <2> QED
    BY <2>1, <2>2, ListMoves
<1> QED
  BY <1>1, <1>2, <1>3, <1>4 DEF Roster!Next

\* Who is told to be on shift is so by the list as it was less than a minute before the
\* question, unless two threads have fetched the list at the same time.
THEOREM OnShiftHolds == Spec => []OnShiftIsRecent
<1> USE ServicesAssumption
<1>1. Roster!Init => RosterInv
  BY RosterInit
<1>2. RosterInv /\ [Roster!Next]_(Roster!vars) => RosterInv'
  BY RosterStep
<1>3. RosterInv => Roster!OnShiftIsRecent
  <2> SUFFICES ASSUME RosterInv, NEW t \in Threads, rosterThread[t].pc = "answered", ~overlap
               PROVE  \E s \in shown :
                        /\ rosterThread[t].asked - s[1] < CacheSeconds
                        /\ \A d \in Roster!Dates :
                             Roster!OnShift(rosterThread[t].got, d) = Roster!Listed(s[2], d)
    BY DEF Roster!OnShiftIsRecent
  <2>1. PICK s \in shown : /\ rosterThread[t].asked - s[1] < CacheSeconds
                           /\ rosterThread[t].got = Roster!Parse(s[2])
    BY DEF RosterInv, RosterOK, RowsOK, RowOK
  <2>2. s[2] \in Lists /\ Len(s[2].header) \in Nat
    BY DEF RosterInv, RosterOK, ShownOK, Roster!ConstantsOK
  <2>3. \A d \in Roster!Dates : d # NoDate
    BY DEF Roster!Dates
  <2> QED
    BY <2>1, <2>2, <2>3, ParsedRight
<1> QED
  BY <1>1, <1>2, <1>3, Parts, PTL DEF Roster!Spec, OnShiftIsRecent
=============================================================================
