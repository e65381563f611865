---------------------------- MODULE SoarConnector ----------------------------
(***************************************************************************)
(* mcp-soar/http_api.py: request threads that share one Splunk client and  *)
(* one cache, while connections break and sessions expire.                 *)
(*                                                                         *)
(* The cached endpoints look a result up before they take the client;      *)
(* /search always asks Splunk.  Time is counted in ticks.                  *)
(***************************************************************************)
EXTENDS Integers, FiniteSets

CONSTANTS
  Threads,       \* request threads
  CacheSeconds,  \* CACHE_SECONDS, in ticks
  Names,         \* what can be asked for: an endpoint, a tenant, the start of a window
  Limit,         \* bound on the clock
  MaxAsks,       \* bound on the requests
  MaxTroubles,   \* bound on the failures and the expired sessions
  None

\* What the proofs ask of the constants.  None is neither a number nor an answer.
ConstantsOK ==
  /\ CacheSeconds \in Nat \ {0}
  /\ None \notin Nat /\ None \notin [at : Nat, end : Nat]

VARIABLES
  now,
  client,    \* _client: the number of a client, or None
  alive,     \* clients whose session Splunk knows
  clients,   \* the clients made so far
  cache,     \* _cache: a function whose domain is the keys in it
  thread,    \* what each thread is doing, and its answer
  asks, troubles,   \* counters, for the bounds
  broken,    \* history: clients a call ended with an error of the connection on
  refused    \* history: clients a search was refused on, for the session had expired

vars == <<now, client, alive, clients, cache, thread, asks, troubles, broken, refused>>

Free == [pc |-> "free", cached |-> FALSE, name |-> None, end |-> None, asked |-> None, stamp |-> None,
         mine |-> None, at |-> None, until |-> None, known |-> {}, spent |-> {}]

Open(t) == thread[t].pc \notin {"free", "answered"}
Answers == {t \in Threads : thread[t].pc = "answered"}

Init ==
  /\ now = 0 /\ client = None /\ alive = {} /\ clients = 0 /\ cache = <<>>
  /\ thread = [t \in Threads |-> Free] /\ asks = 0 /\ troubles = 0
  /\ broken = {} /\ refused = {}

----------------------------------------------------------------------------
(* The cache, of the endpoints that have one. *)

Key(r) == [name |-> r.name, bucket |-> r.end \div CacheSeconds]
Hit(r) == r.cached /\ Key(r) \in DOMAIN cache /\ now - cache[Key(r)].stamp < CacheSeconds

Be(t, r) == thread' = [thread EXCEPT ![t] = r]
Ours == UNCHANGED <<now, clients, alive, asks, troubles, broken, refused>>

Answer(t, e) ==
  Be(t, [thread[t] EXCEPT !.pc = "answered", !.at = e.at, !.until = e.until])

\* A request, for a window that ends now or, with 0, one that is long past.
Ask(t, cached, name, end) ==
  /\ ~Open(t)
  /\ asks < MaxAsks /\ asks' = asks + 1
  /\ Be(t, [Free EXCEPT !.pc = "look", !.cached = cached, !.name = name, !.end = end,
                        !.asked = now, !.known = broken, !.spent = refused])
  /\ UNCHANGED <<now, client, alive, clients, cache, troubles, broken, refused>>

Look(t) ==
  LET r == thread[t] IN
  /\ r.pc = "look"
  /\ IF Hit(r) THEN Answer(t, cache[Key(r)])
     ELSE Be(t, [r EXCEPT !.pc = "client", !.stamp = now])
  /\ UNCHANGED <<client, cache>> /\ Ours

Put_StampAfter(t) ==
  LET r == thread[t]
      e == [stamp |-> now, at |-> r.at, until |-> r.end] IN
  /\ r.pc = "put"
  /\ cache' = IF ~r.cached THEN cache
              ELSE [k \in {Key(r)} \cup {x \in DOMAIN cache : r.stamp - cache[x].stamp < CacheSeconds} |->
                      IF k = Key(r) THEN e ELSE cache[k]]
  /\ Answer(t, e)
  /\ UNCHANGED client /\ Ours

\* The result is stored under the time before the search; old ones are dropped.
Put(t) ==
  LET r == thread[t]
      e == [stamp |-> r.stamp, at |-> r.at, until |-> r.end] IN
  /\ r.pc = "put"
  /\ cache' = IF ~r.cached THEN cache
              ELSE [k \in {Key(r)} \cup {x \in DOMAIN cache : r.stamp - cache[x].stamp < CacheSeconds} |->
                      IF k = Key(r) THEN e ELSE cache[k]]
  /\ Answer(t, e)
  /\ UNCHANGED client /\ Ours

----------------------------------------------------------------------------
(* The client. *)

\* _guard: a SplunkError is told to the caller and keeps the client, anything else drops it.
Refuse(t) == Be(t, Free) /\ UNCHANGED <<client, cache>>
Drop(t) == Be(t, Free) /\ client' = None /\ UNCHANGED cache

Trouble == troubles < MaxTroubles /\ troubles' = troubles + 1

\* client() asks whether there is one, and ...
Client(t) ==
  /\ thread[t].pc = "client"
  /\ Be(t, [thread[t] EXCEPT !.pc = IF client = None THEN "login" ELSE "return"])
  /\ UNCHANGED <<client, cache>> /\ Ours

\* ... logs a new one in if not; threads may do so at the same time.
Login(t) ==
  /\ thread[t].pc = "login"
  /\ clients' = clients + 1 /\ alive' = alive \cup {clients + 1}
  /\ client' = clients + 1 /\ Be(t, [thread[t] EXCEPT !.pc = "return"])
  /\ UNCHANGED <<now, cache, asks, troubles, broken, refused>>

LoginFails(t) ==
  /\ thread[t].pc = "login" /\ Trouble
  /\ Refuse(t) \/ Drop(t)
  /\ UNCHANGED <<now, clients, alive, asks, broken, refused>>

\* It returns what _client is by then: None, if another thread has dropped it, is an
\* AttributeError to the caller.
Return(t) ==
  /\ thread[t].pc = "return"
  /\ IF client = None THEN Drop(t)
     ELSE Be(t, [thread[t] EXCEPT !.pc = "search", !.mine = client]) /\ UNCHANGED <<client, cache>>
  /\ Ours

Search(t) ==
  LET r == thread[t] IN
  /\ r.pc = "search" /\ r.mine \in alive
  /\ Be(t, [r EXCEPT !.pc = "put", !.at = now])
  /\ UNCHANGED <<client, cache>> /\ Ours

\* An answer of Splunk that is not 200, or not a result; an expired session has no other.
SearchRefused(t) ==
  LET r == thread[t] IN
  /\ r.pc = "search"
  /\ IF r.mine \in alive THEN Trouble ELSE UNCHANGED troubles
  /\ refused' = IF r.mine \in alive THEN refused ELSE refused \cup {r.mine}
  /\ Refuse(t)
  /\ UNCHANGED <<now, clients, alive, asks, broken>>

SearchBreaks_KeepsClient(t) ==
  /\ thread[t].pc = "search" /\ Trouble
  /\ broken' = broken \cup {thread[t].mine}
  /\ Refuse(t)
  /\ UNCHANGED <<now, clients, alive, asks, refused>>

\* The connection breaks, or what comes back is not JSON.
SearchBreaks(t) ==
  /\ thread[t].pc = "search" /\ Trouble
  /\ broken' = broken \cup {thread[t].mine}
  /\ Drop(t)
  /\ UNCHANGED <<now, clients, alive, asks, refused>>

----------------------------------------------------------------------------
Expire(c) ==
  /\ c \in alive /\ alive' = alive \ {c} /\ Trouble
  /\ UNCHANGED <<now, client, clients, cache, thread, asks, broken, refused>>

Tick ==
  /\ now < Limit /\ now' = now + 1
  /\ UNCHANGED <<client, alive, clients, cache, thread, asks, troubles, broken, refused>>

Next ==
  \/ \E t \in Threads :
       \/ \E cached \in BOOLEAN, name \in Names, end \in {0, now} : Ask(t, cached, name, end)
       \/ Look(t) \/ Put(t) \/ Client(t) \/ Login(t) \/ LoginFails(t) \/ Return(t)
       \/ Search(t) \/ SearchRefused(t) \/ SearchBreaks(t)
  \/ \E c \in alive : Expire(c)
  \/ Tick

Spec == Init /\ [][Next]_vars

----------------------------------------------------------------------------
(* Properties. *)

\* A client whose connection broke is not what a later call gets, however the threads
\* drop, make and return clients meanwhile.
BrokenClientIsReplaced == \A t \in Threads : thread[t].mine \notin thread[t].known

\* As http_api.py:123 has it, "a dropped session - drop the client so the next call
\* re-authenticates": a call after one whose session had expired gets another client.
ExpiredClientIsReplaced == \A t \in Threads : thread[t].mine \notin thread[t].spent

\* What BoundedStaleness speaks of: the requests under way, and the answers.
asking == [t \in Threads |-> IF Open(t) THEN thread[t].asked ELSE None]
wanted == [t \in Threads |-> IF Open(t) THEN thread[t].end ELSE None]
answer == [t \in Threads |-> IF t \in Answers THEN [at |-> thread[t].at, end |-> thread[t].until]
                             ELSE None]

\* The age of what is shown: SoarConnector implements BoundedStaleness.
Freshness == INSTANCE BoundedStaleness WITH
  Requests <- Threads, Slack <- CacheSeconds, None <- None, now <- now,
  asked <- asking, end <- wanted, shown <- answer
AnswersAreFresh == Freshness!Spec
=============================================================================
