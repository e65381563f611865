------------------------- MODULE ChatHistoryProofs -------------------------
(* The saved conversations: proofs for any requests, chats, tenants and cap,  *)
(* and however often the user's access changes.                              *)
EXTENDS ChatHistory, FiniteSetTheorems, TLAPS

\* An id is given out once: what is not used names no row and no turn.
Used == \A c \in Chats \ used : conv[c] = Gone /\ TurnsOf(c) = {}

\* The turns of a chat are numbered without gap or repetition.
Numbered(c) ==
  /\ {t.seq : t \in TurnsOf(c)} = 1..conv[c].turns
  /\ \A t, u \in TurnsOf(c) : t.seq = u.seq => t = u
InOrder == \A c \in Stored : Numbered(c)

\* The row a save is about to write is new, or as it was read, or deleted since.
Writing(q) ==
  q.pc = "commit" =>
    /\ q.chat \in used
    /\ IF q.row = Gone THEN conv[q.chat] = Gone /\ TurnsOf(q.chat) = {}
       ELSE conv[q.chat] \in {q.row, Gone}

\* Between its two statements a deletion is about the turns of its chats only, and about
\* all of them but those saved since the first.
Deletion(q) ==
  q.pc = "drop" =>
    /\ \A t \in q.doomed : t.chat \in q.drop
    /\ \A t \in turns : t.chat \in q.drop => t \in q.doomed \cup overtaken

\* The turns a request saw at the door are covered by its access.
Seen(q) ==
  q.pc \in {"admit", "history", "open"} =>
    /\ \A t \in q.seen : t.chat = q.chat
    /\ q.chat \notin replaced => \A t \in q.seen : Covers(q.access, t.holds)

\* An answer holds what its user may see, if nothing has leaked; and what the scope its
\* chat will have covers, unless the chat takes the place of another.
Own(q) == Covers(q.access, q.holds)
Answer(q) ==
  q.pc \in {"answering", "commit"} =>
    /\ Own(q) \/ leaked # {}
    /\ q.chat = None => Own(q)
    /\ q.pc = "answering" /\ q.chat \in Stored \ replaced =>
         Covers(Merge(conv[q.chat].scope, q.access), q.holds)
    /\ q.pc = "commit" /\ q.chat \notin replaced => Covers(Merge(q.row.scope, q.access), q.holds)

Sound(q) == Writing(q) /\ Deletion(q) /\ Seen(q) /\ Answer(q)
AllSound == \A r \in Requests : \A q \in {req[r]} : Sound(q)

\* Chats have different dates, none in the future; so one is the oldest of any of them.
Dated ==
  /\ IsFiniteSet(Stored)
  /\ \A c \in Stored : conv[c].updated =< clock
  /\ \A c, d \in Stored : conv[c].updated = conv[d].updated => c = d

\* With nobody about to prune, and no pruning given up, no more chats than allowed are left
\* but for those being deleted.
Doomed == {c \in Chats : \E r \in Requests : req[r].pc \in {"doom", "drop"} /\ c \in req[r].drop}
Pruned ==
  (\A r \in Requests : req[r].pc # "prune") /\ ~cut => Cardinality(Stored \ Doomed) =< Cap

IInv ==
  /\ TypeOK /\ Used /\ InOrder /\ AllSound /\ Dated /\ Pruned
  /\ ScopeCoversTurns /\ EarlierTurnsAreCovered /\ OrphansAreRaces

----------------------------------------------------------------------------
(* Scopes. *)

LEMMA CoversTrans ==
  ASSUME NEW a, NEW b, NEW c, Covers(a, b), Covers(b, c) PROVE Covers(a, c)
  BY DEF Covers

LEMMA MergeCovers ==
  ASSUME NEW a, NEW b, NEW c, Covers(a, c) \/ Covers(b, c) PROVE Covers(Merge(a, b), c)
  BY DEF Covers, Merge

LEMMA MergeType == ASSUME NEW a \in Scopes, NEW b \in Scopes PROVE Merge(a, b) \in Scopes
  BY DEF Merge, Scopes

\* An answer drawn from turns that a covers, or that a and b cover, is covered likewise.
LEMMA HoldsCovered ==
  ASSUME NEW a, NEW b, NEW ts, \A t \in ts : Covers(a, t.holds)
  PROVE  Covers(Merge(a, b), Holds(b, ts)) /\ (b = a => Covers(a, Holds(a, ts)))
  BY DEF Covers, Merge, Holds

LEMMA HoldsType ==
  ASSUME NEW a \in Scopes, NEW ts \in SUBSET TurnRows PROVE Holds(a, ts) \in Scopes
<1>1. (UNION {t.holds : t \in ts}) \in Scopes
  BY DEF TurnRows, Scopes
<1> QED
  BY <1>1, MergeType DEF Holds

LEMMA GoneType == Gone \in Row /\ Gone.scope = {} /\ Gone.turns = 0
  BY DEF Gone, Row, Scopes

LEMMA IdleType ==
  /\ Idle \in Request /\ Idle.pc = "idle" /\ Idle.chat = None
  /\ \A q : q.pc \in {"idle", "prune", "doom"} => Sound(q)
  BY GoneType DEF Idle, Request, Scopes, TurnRows, Sound, Writing, Deletion, Seen, Answer

----------------------------------------------------------------------------
(* Of chats with different dates, each with fewer than n newer ones, there   *)
(* are n at most.                                                            *)

LEMMA Oldest ==
  ASSUME NEW S, S # {}, NEW d \in [S -> Nat]
  PROVE  \E m \in S : \A c \in S : d[m] =< d[c]
<1> DEFINE D == {d[c] : c \in S}
           Less == {p \in Nat \X Nat : p[1] < p[2]}
<1>1. IsWellFoundedOn(Less, Nat)
  BY NatLessThanWellFounded DEF OpToRel
<1>2. D \subseteq Nat /\ D # {}
  OBVIOUS
<1> HIDE DEF Less
<1>3. PICK n \in D : \A k \in D : <<k, n>> \notin Less
  BY <1>1, <1>2, WFMin
<1>4. \A k \in Nat : <<k, n>> \in Less \/ n =< k
  BY <1>2 DEF Less
<1>5. \A c \in S : n =< d[c]
  BY <1>2, <1>3, <1>4
<1> QED
  BY <1>5

LEMMA FewAreKept ==
  ASSUME NEW S, IsFiniteSet(S), NEW d \in [S -> Nat], \A x, y \in S : d[x] = d[y] => x = y,
         NEW n \in Nat \ {0}, \A c \in S : Cardinality({x \in S : d[x] > d[c]}) < n
  PROVE  Cardinality(S) =< n
<1>1. CASE S = {}
  BY <1>1, FS_EmptySet
<1>2. CASE S # {}
  <2>1. PICK m \in S : \A c \in S : d[m] =< d[c]
    BY <1>2, Oldest
  <2> DEFINE N == {x \in S : d[x] > d[m]}
  <2>2. S \ {m} = N
    BY <2>1
  <2>3. Cardinality(S \ {m}) = Cardinality(S) - 1 /\ Cardinality(S) \in Nat
    BY FS_RemoveElement, FS_CardinalityType
  <2>4. Cardinality(N) < n
    OBVIOUS
  <2> QED
    BY <2>2, <2>3, <2>4
<1> QED
  BY <1>1, <1>2
\* When nobody is about to prune, what a pruning leaves is within the cap.
LEMMA KeptAreFew ==
  ASSUME TypeOK, Dated
  PROVE  Cardinality({c \in Stored : ~Prunable(c)}) =< Cap
<1> DEFINE K == {c \in Stored : ~Prunable(c)}
           d == [c \in K |-> conv[c].updated]
<1>1. IsFiniteSet(K) /\ Cap \in Nat \ {0} /\ d \in [K -> Nat]
  BY FS_Subset, HistoryAssumption DEF Dated, TypeOK, Row, Stored
<1>2. \A x, y \in K : d[x] = d[y] => x = y
  BY DEF Dated
<1>3. ASSUME NEW c \in K PROVE Cardinality({x \in K : d[x] > d[c]}) < Cap
  <2>1. {x \in K : d[x] > d[c]} \subseteq NewerThan(c)
    BY DEF NewerThan
  <2>2. NewerThan(c) \subseteq Stored
    BY DEF NewerThan
  <2>3. IsFiniteSet(NewerThan(c))
    BY <2>2, FS_Subset DEF Dated
  <2>4. Cardinality({x \in K : d[x] > d[c]}) =< Cardinality(NewerThan(c))
    BY <2>1, <2>3, FS_Subset
  <2>5. Cardinality({x \in K : d[x] > d[c]}) \in Nat /\ Cardinality(NewerThan(c)) \in Nat
    BY <2>1, <2>3, FS_Subset, FS_CardinalityType
  <2>6. ~(Cardinality(NewerThan(c)) >= Cap)
    BY DEF Prunable
  <2> QED
    BY <2>4, <2>5, <2>6, <1>1
<1> QED
  BY <1>1, <1>2, <1>3, FewAreKept

----------------------------------------------------------------------------
(* A step of one request that leaves the rows alone. *)

Busy == {"history", "answering", "commit"}

\* What the others have under way stays sound: nothing is unused, unleaked or put back.
LEMMA OthersStay ==
  ASSUME NEW q, Sound(q), UNCHANGED <<conv, turns, overtaken>>,
         used \subseteq used', replaced \subseteq replaced', leaked \subseteq leaked'
  PROVE  Sound(q)'
<1>1. Writing(q)' /\ Deletion(q)' /\ Seen(q)'
  BY DEF Sound, Writing, Deletion, Seen, TurnsOf
<1>2. Answer(q)'
  BY DEF Sound, Answer, Stored, Own
<1> QED
  BY <1>1, <1>2 DEF Sound

LEMMA MoveStep ==
  ASSUME IInv, NEW r \in Requests, NEW new \in Request, req' = [req EXCEPT ![r] = new],
         UNCHANGED <<access, conv, turns, overtaken, clock, cutoff, grants>>,
         used \subseteq used', replaced \subseteq replaced', leaked \subseteq leaked',
         used' \cup replaced' \subseteq Chats, leaked' \cup early' \subseteq TurnRows,
         busy' = busy \/ (busy = r /\ busy' = None) \/ (busy = None /\ busy' = r),
         new.pc \in Busy => busy' = r, cut' \in BOOLEAN,
         Sound(new)', EarlierTurnsAreCovered', Pruned'
  PROVE  IInv'
<1>1. TypeOK'
  <2>1. req' \in [Requests -> Request] /\ busy' \in Requests \cup {None}
    BY DEF IInv, TypeOK
  <2>2. ASSUME NEW q \in Requests, req'[q].pc \in Busy PROVE busy' = q
    <3>1. req'[q] = IF q = r THEN new ELSE req[q]
      BY DEF IInv, TypeOK
    <3>2. req[q].pc \in Busy => busy = q
      BY DEF IInv, TypeOK, Busy
    <3> QED
      BY <2>2, <3>1, <3>2, HistoryAssumption
  <2>3. turns' \cup overtaken' \subseteq TurnRows /\ conv' \in [Chats -> Row] /\ access' \in Accesses
    BY DEF IInv, TypeOK
  <2>4. clock' \in Nat /\ cutoff' \in Nat /\ grants' \in Nat
    BY DEF IInv, TypeOK
  <2> QED
    BY <2>1, <2>2, <2>3, <2>4 DEF TypeOK, Busy
<1>2. AllSound'
  <2> SUFFICES ASSUME NEW p \in Requests, NEW q, q = req'[p] PROVE Sound(q)'
    BY DEF AllSound
  <2>1. CASE p = r
    BY <2>1 DEF IInv, TypeOK
  <2>2. CASE p # r
    <3>1. q = req[p]
      BY <2>2 DEF IInv, TypeOK
    <3> QED
      BY <3>1, OthersStay DEF IInv, AllSound
  <2> QED
    BY <2>1, <2>2
<1>3. Used' /\ InOrder' /\ Dated' /\ OrphansAreRaces'
  BY DEF IInv, Used, InOrder, Numbered, Dated, OrphansAreRaces, Stored, TurnsOf
<1>4. ScopeCoversTurns'
  BY DEF IInv, ScopeCoversTurns, Stored
<1> QED
  BY <1>1, <1>2, <1>3, <1>4 DEF IInv

\* A step that neither deletes nor prunes, and no pruning begun or given up.
LEMMA PrunedKept ==
  ASSUME IInv, NEW r \in Requests, NEW new \in Request, req' = [req EXCEPT ![r] = new],
         UNCHANGED <<conv>>, cut => cut',
         req[r].pc = "prune" => new.pc = "prune" \/ cut',
         req[r].pc \in {"doom", "drop"} => (new.pc \in {"doom", "drop"} /\ req[r].drop \subseteq new.drop) \/ cut'
  PROVE  Pruned'
<1> SUFFICES ASSUME \A q \in Requests : req'[q].pc # "prune", ~cut'
             PROVE  Cardinality((Stored \ Doomed)') =< Cap
  BY DEF Pruned
<1>1. ASSUME NEW q \in Requests PROVE req[q].pc # "prune"
  BY DEF IInv, TypeOK
<1>2. Cardinality(Stored \ Doomed) =< Cap
  BY <1>1 DEF IInv, Pruned
<1>3. Doomed \subseteq Doomed'
  <2> SUFFICES ASSUME NEW c \in Chats, NEW q \in Requests, req[q].pc \in {"doom", "drop"}, c \in req[q].drop
               PROVE  req'[q].pc \in {"doom", "drop"} /\ c \in req'[q].drop
    BY DEF Doomed
  <2> QED
    BY DEF IInv, TypeOK
<1>4. Stored' = Stored
  BY DEF Stored
<1>5. (Stored \ Doomed)' \subseteq Stored \ Doomed
  BY <1>3, <1>4
<1>6. IsFiniteSet(Stored \ Doomed)
  BY FS_Subset DEF IInv, Dated
<1> HIDE DEF IInv
<1> QED
  BY <1>2, <1>5, <1>6, FS_Subset, FS_CardinalityType, HistoryAssumption
----------------------------------------------------------------------------
(* One lemma for each step of a request. *)

LEMMA StoredFacts ==
  ASSUME TypeOK
  PROVE  /\ Stored \subseteq Chats /\ \A c \in Stored : conv[c] \in Row
         /\ \A c : TurnsOf(c) \in SUBSET TurnRows /\ \A t \in TurnsOf(c) : t.chat = c
         /\ None \notin Chats /\ TurnsOf(None) = {} /\ access \in Scopes
  BY HistoryAssumption DEF TypeOK, Stored, TurnsOf, TurnRows, Scopes

LEMMA FetchStep ==
  ASSUME IInv, NEW r \in Requests, NEW c \in Chats, NEW pc \in {"admit", "open"}, Fetch(r, c, pc)
  PROVE  IInv'
<1>1. TypeOK /\ req[r] \in Request
  BY DEF IInv, TypeOK
<1>2. c \in Stored /\ req[r] = Idle /\ Covers(access, conv[c].scope)
      /\ UNCHANGED <<Database, busy, given>>
  BY DEF Fetch
<1>3. PICK new : new = [Idle EXCEPT !.pc = pc, !.access = access, !.chat = c, !.seen = TurnsOf(c)]
  OBVIOUS
<1>4. req' = [req EXCEPT ![r] = new]
  BY <1>3 DEF Fetch
<1>5. /\ new \in Request /\ new.pc = pc /\ new.access = access /\ new.chat = c
      /\ new.seen = TurnsOf(c)
  BY <1>1, <1>3, IdleType, StoredFacts DEF Request
<1>6. c \notin replaced => \A t \in TurnsOf(c) : Covers(access, t.holds)
  BY <1>2, CoversTrans DEF IInv, ScopeCoversTurns, TurnsOf
<1>7. Sound(new)'
  <2>1. Seen(new)'
    BY <1>1, <1>2, <1>5, <1>6, StoredFacts DEF Seen, given
  <2> QED
    BY <1>5, <2>1 DEF Sound, Writing, Deletion, Answer
<1>8. Pruned'
  BY <1>2, <1>4, <1>5, IdleType, PrunedKept DEF Database, given
<1>9. EarlierTurnsAreCovered'
  BY <1>2 DEF IInv, EarlierTurnsAreCovered, given
<1>10. used' \cup replaced' \subseteq Chats /\ leaked' \cup early' \subseteq TurnRows /\ cut' \in BOOLEAN
  BY <1>1, <1>2 DEF Database, given, TypeOK
<1> QED
  BY <1>2, <1>4, <1>5, <1>7, <1>8, <1>9, <1>10, MoveStep DEF Database, given, Busy

LEMMA AskNewStep ==
  ASSUME IInv, NEW r \in Requests, AskNew(r)
  PROVE  IInv'
<1>1. TypeOK /\ req[r] = Idle /\ UNCHANGED <<Database, busy, given>>
  BY DEF IInv, AskNew
<1>2. PICK new : new = [Idle EXCEPT !.pc = "admit", !.access = access]
  OBVIOUS
<1>3. req' = [req EXCEPT ![r] = new]
  BY <1>2 DEF AskNew
<1>4. new \in Request /\ new.pc = "admit" /\ new.seen = {}
  <2>1. Idle.seen = {}
    BY DEF Idle
  <2> QED
    BY <1>1, <1>2, <2>1, IdleType, StoredFacts DEF Request
<1>5. Sound(new)'
  BY <1>4 DEF Sound, Writing, Deletion, Answer, Seen
<1>6. Pruned'
  BY <1>1, <1>3, <1>4, IdleType, PrunedKept DEF Database, given
<1>7. EarlierTurnsAreCovered'
  BY <1>1 DEF IInv, EarlierTurnsAreCovered, given
<1>8. used' \cup replaced' \subseteq Chats /\ leaked' \cup early' \subseteq TurnRows /\ cut' \in BOOLEAN
  BY <1>1 DEF Database, given, TypeOK
<1> QED
  BY <1>1, <1>3, <1>4, <1>5, <1>6, <1>7, <1>8, MoveStep DEF Database, given, Busy

\* A request that goes back to idle, prunes or starts a deletion.
LEMMA PlainStep ==
  ASSUME IInv, NEW r \in Requests, NEW new \in Request, req' = [req EXCEPT ![r] = new],
         new.pc \in {"idle", "prune", "doom"}, UNCHANGED Database,
         UNCHANGED <<overtaken, replaced>>, leaked \subseteq leaked', leaked' \cup early' \subseteq TurnRows,
         busy' = busy \/ (busy = r /\ busy' = None), cut' \in BOOLEAN,
         EarlierTurnsAreCovered', Pruned'
  PROVE  IInv'
<1>1. used' \cup replaced' \subseteq Chats
  BY DEF IInv, TypeOK, Database
<1>2. Sound(new)'
  BY DEF Sound, Writing, Deletion, Seen, Answer
<1> HIDE DEF IInv, EarlierTurnsAreCovered, Pruned
<1> QED
  BY <1>1, <1>2, MoveStep DEF Database, Busy

LEMMA AdmitStep ==
  ASSUME IInv, NEW r \in Requests, Admit(r)
  PROVE  IInv'
<1>1. TypeOK /\ req[r] \in Request /\ Sound(req[r])
  BY DEF IInv, TypeOK, AllSound
<1>2. req[r].pc = "admit" /\ UNCHANGED <<Database, given>>
  BY DEF Admit
<1>3. EarlierTurnsAreCovered'
  BY <1>2 DEF IInv, EarlierTurnsAreCovered, given
<1>4. used' \cup replaced' \subseteq Chats /\ leaked' \cup early' \subseteq TurnRows /\ cut' \in BOOLEAN
  BY <1>1, <1>2 DEF Database, given, TypeOK
<1>5. CASE busy = None
  <2>1. busy' = r /\ req' = [req EXCEPT ![r].pc = "history"]
    BY <1>5 DEF Admit
  <2>2. PICK new : new = [req[r] EXCEPT !.pc = "history"]
    OBVIOUS
  <2>3. req' = [req EXCEPT ![r] = new]
    BY <1>1, <2>1, <2>2 DEF TypeOK
  <2>4. /\ new \in Request /\ new.pc = "history" /\ new.seen = req[r].seen
        /\ new.chat = req[r].chat /\ new.access = req[r].access
    BY <1>1, <2>2 DEF Request
  <2>5. Seen(new)
    BY <1>1, <1>2, <2>4 DEF Sound, Seen
  <2>6. Sound(new)'
    BY <1>2, <2>4, <2>5 DEF Sound, Writing, Deletion, Answer, Seen, given
  <2>7. Pruned'
    BY <1>2, <2>3, <2>4, PrunedKept DEF Database, given
  <2> QED
    BY <1>2, <1>3, <1>4, <1>5, <2>1, <2>3, <2>4, <2>6, <2>7, MoveStep DEF Database, given, Busy
<1>6. CASE busy # None
  <2>1. req' = [req EXCEPT ![r] = Idle] /\ busy' = busy
    BY <1>6 DEF Admit
  <2>2. Pruned'
    BY <1>2, <2>1, IdleType, PrunedKept DEF Database, given
  <2> QED
    BY <1>2, <1>3, <1>4, <2>1, <2>2, IdleType, PlainStep DEF given
<1> QED
  BY <1>5, <1>6
\* What a request is given was saved since it was let in, or is covered, or is in a chat
\* put in the place of another.
LEMMA GivenFacts ==
  ASSUME IInv, NEW r \in Requests, req[r].pc \in {"history", "open"},
         Given(req[r].access, TurnsOf(req[r].chat), req[r].seen)
  PROVE  /\ EarlierTurnsAreCovered' /\ leaked \subseteq leaked' /\ leaked' \cup early' \subseteq TurnRows
         /\ UNCHANGED <<overtaken, cut, replaced>>
         /\ leaked' = {} => \A t \in TurnsOf(req[r].chat) : Covers(req[r].access, t.holds)
<1> DEFINE q == req[r]
           beyond == {t \in TurnsOf(q.chat) : ~Covers(q.access, t.holds)}
<1>1. /\ leaked' = leaked \cup beyond /\ early' = early \cup (beyond \cap q.seen)
      /\ UNCHANGED <<overtaken, cut, replaced>>
  BY DEF Given
<1>2. beyond \subseteq TurnRows /\ leaked \cup early \subseteq TurnRows
  BY StoredFacts DEF IInv, TypeOK
<1>3. Seen(q)
  BY DEF IInv, AllSound, Sound
<1>4. \A t \in beyond \cap q.seen : t.chat \in replaced
  BY <1>3 DEF Seen
<1>5. EarlierTurnsAreCovered'
  BY <1>1, <1>4 DEF IInv, EarlierTurnsAreCovered
<1> QED
  BY <1>1, <1>2, <1>5

LEMMA HistoryStep ==
  ASSUME IInv, NEW r \in Requests, History(r)
  PROVE  IInv'
<1> DEFINE ts == TurnsOf(req[r].chat)
<1>1. TypeOK /\ req[r] \in Request /\ req[r].pc = "history" /\ busy = r /\ UNCHANGED <<Database, busy>>
  BY DEF IInv, TypeOK, History
<1>2. Given(req[r].access, ts, req[r].seen)
  BY DEF History
<1>3. /\ EarlierTurnsAreCovered' /\ leaked \subseteq leaked' /\ leaked' \cup early' \subseteq TurnRows
      /\ UNCHANGED <<overtaken, cut, replaced>>
      /\ leaked' = {} => \A t \in ts : Covers(req[r].access, t.holds)
  BY <1>1, <1>2, GivenFacts
<1>4. PICK new : new = [req[r] EXCEPT !.pc = "answering", !.holds = Holds(req[r].access, ts)]
  OBVIOUS
<1>5. req' = [req EXCEPT ![r] = new]
  BY <1>1, <1>4 DEF History, TypeOK
<1>6. req[r].access \in Scopes /\ Holds(req[r].access, ts) \in Scopes
  BY <1>1, HoldsType, StoredFacts DEF Request
<1>7. /\ new \in Request /\ new.pc = "answering" /\ new.chat = req[r].chat /\ new.access = req[r].access
      /\ new.holds = Holds(req[r].access, ts)
  BY <1>1, <1>4, <1>6 DEF Request
<1>8. Answer(new)'
  <2>1. Own(new) \/ leaked' # {}
    BY <1>3, <1>7, HoldsCovered DEF Own
  <2>2. new.chat = None => Own(new)
    <3>1. new.chat = None => ts = {}
      BY <1>1, <1>7, StoredFacts
    <3> QED
      BY <3>1, <1>7, HoldsCovered DEF Own
  <2>3. ASSUME new.chat \in Stored \ replaced
        PROVE  Covers(Merge(conv[new.chat].scope, new.access), new.holds)
    <3>1. \A t \in ts : Covers(conv[new.chat].scope, t.holds)
      BY <1>7, <2>3 DEF IInv, ScopeCoversTurns, TurnsOf
    <3> QED
      BY <3>1, <1>7, HoldsCovered
  <2>4. Stored' = Stored /\ conv' = conv
    BY <1>1 DEF Stored, Database
  <2> QED
    BY <1>3, <1>7, <2>1, <2>2, <2>3, <2>4 DEF Answer, Own
<1>9. Sound(new)'
  BY <1>7, <1>8 DEF Sound, Writing, Deletion, Seen
<1>10. Pruned'
  BY <1>1, <1>3, <1>5, <1>7, PrunedKept DEF Database
<1>11. used' \cup replaced' \subseteq Chats /\ cut' \in BOOLEAN
  BY <1>1, <1>3 DEF Database, TypeOK
<1> QED
  BY <1>1, <1>3, <1>5, <1>7, <1>9, <1>10, <1>11, MoveStep DEF Database

LEMMA OpenReadStep ==
  ASSUME IInv, NEW r \in Requests, OpenRead(r)
  PROVE  IInv'
<1>1. req[r].pc = "open" /\ req' = [req EXCEPT ![r] = Idle] /\ UNCHANGED <<Database, busy>>
  BY DEF OpenRead
<1>2. /\ EarlierTurnsAreCovered' /\ leaked \subseteq leaked' /\ leaked' \cup early' \subseteq TurnRows
      /\ UNCHANGED <<overtaken, cut, replaced>>
  BY <1>1, GivenFacts DEF OpenRead
<1>3. Pruned'
  BY <1>1, <1>2, IdleType, PrunedKept DEF Database
<1>4. cut' \in BOOLEAN
  BY <1>2 DEF IInv, TypeOK
<1> QED
  BY <1>1, <1>2, <1>3, <1>4, IdleType, PlainStep

LEMMA SaveReadStep ==
  ASSUME IInv, NEW r \in Requests, SaveRead(r)
  PROVE  IInv'
<1> DEFINE q == req[r]
<1>1. TypeOK /\ q \in Request /\ q.pc = "answering" /\ busy = r /\ Answer(q)
  BY DEF IInv, TypeOK, SaveRead, AllSound, Sound
<1>2. UNCHANGED <<access, conv, turns, clock, cutoff, grants, busy, leaked, early, overtaken, cut>>
  BY DEF SaveRead
<1>3. EarlierTurnsAreCovered'
  <2>1. replaced \subseteq replaced'
    BY DEF SaveRead
  <2> QED
    BY <1>2, <2>1 DEF IInv, EarlierTurnsAreCovered
<1>4. leaked' \cup early' \subseteq TurnRows /\ cut' \in BOOLEAN
  BY <1>1, <1>2 DEF TypeOK
<1>5. CASE q.chat \in Stored
  <2>1. req' = [req EXCEPT ![r].pc = "commit", ![r].row = conv[q.chat]] /\ UNCHANGED <<used, replaced>>
    BY <1>5 DEF SaveRead
  <2>2. PICK new : new = [q EXCEPT !.pc = "commit", !.row = conv[q.chat]]
    OBVIOUS
  <2>3. req' = [req EXCEPT ![r] = new]
    BY <1>1, <2>1, <2>2 DEF TypeOK
  <2>4. /\ new \in Request /\ new.pc = "commit" /\ new.chat = q.chat /\ new.access = q.access
        /\ new.holds = q.holds /\ new.row = conv[q.chat]
    BY <1>1, <1>5, <2>2, StoredFacts DEF Request
  <2>5. Writing(new)'
    <3>1. q.chat \in used /\ conv[q.chat] # Gone
      BY <1>5 DEF IInv, Used, Stored
    <3> QED
      BY <1>2, <2>1, <2>4, <3>1 DEF Writing
  <2>6. Answer(new)'
    <3>1. /\ Own(q) \/ leaked # {}
          /\ q.chat \notin replaced => Covers(Merge(conv[q.chat].scope, q.access), q.holds)
          /\ q.chat # None
      BY <1>1, <1>5, StoredFacts DEF Answer
    <3> QED
      BY <1>2, <2>1, <2>4, <3>1 DEF Answer, Own
  <2>7. Sound(new)'
    BY <2>4, <2>5, <2>6 DEF Sound, Deletion, Seen
  <2>8. Pruned'
    BY <1>1, <1>2, <2>3, <2>4, PrunedKept
  <2>9. used' \cup replaced' \subseteq Chats
    BY <1>1, <2>1 DEF TypeOK
  <2> HIDE DEF IInv, EarlierTurnsAreCovered, Pruned, Sound
  <2> QED
    BY <1>1, <1>2, <1>3, <1>4, <2>1, <2>3, <2>4, <2>7, <2>8, <2>9, MoveStep
<1>6. CASE q.chat \notin Stored
  <2>1. PICK c \in Chats \ used :
          /\ used' = used \cup {c}
          /\ req' = [req EXCEPT ![r].pc = "commit", ![r].chat = c, ![r].row = Gone]
          /\ replaced' = IF q.chat = None THEN replaced ELSE replaced \cup {c}
    BY <1>6 DEF SaveRead
  <2>2. PICK new : new = [q EXCEPT !.pc = "commit", !.chat = c, !.row = Gone]
    OBVIOUS
  <2>3. req' = [req EXCEPT ![r] = new]
    BY <1>1, <2>1, <2>2 DEF TypeOK
  <2>4. /\ new \in Request /\ new.pc = "commit" /\ new.chat = c /\ new.access = q.access
        /\ new.holds = q.holds /\ new.row = Gone
    BY <1>1, <2>2, GoneType DEF Request
  <2>5. Writing(new)'
    <3>1. conv[c] = Gone /\ TurnsOf(c) = {}
      BY DEF IInv, Used
    <3> QED
      BY <1>2, <2>1, <2>4, <3>1 DEF Writing, TurnsOf
  <2>6. Answer(new)'
    <3>1. (Own(q) \/ leaked # {}) /\ (q.chat = None => Own(q)) /\ c # None
      BY <1>1, HistoryAssumption DEF Answer
    <3>2. Own(q) => Covers(Merge(Gone.scope, q.access), q.holds)
      BY MergeCovers DEF Own
    <3>3. q.chat # None => c \in replaced'
      BY <2>1
    <3> QED
      BY <1>2, <2>4, <3>1, <3>2, <3>3 DEF Answer, Own
  <2>7. Sound(new)'
    BY <2>4, <2>5, <2>6 DEF Sound, Deletion, Seen
  <2>8. Pruned'
    BY <1>1, <1>2, <2>3, <2>4, PrunedKept
  <2>9. used' \cup replaced' \subseteq Chats /\ used \subseteq used' /\ replaced \subseteq replaced'
    BY <1>1, <2>1 DEF TypeOK
  <2> HIDE DEF IInv, EarlierTurnsAreCovered, Pruned, Sound
  <2> QED
    BY <1>1, <1>2, <1>3, <1>4, <2>3, <2>4, <2>7, <2>8, <2>9, MoveStep
<1> QED
  BY <1>5, <1>6
LEMMA SaveFailsStep ==
  ASSUME IInv, NEW r \in Requests, SaveFails(r)
  PROVE  IInv'
<1>1. /\ req[r].pc = "commit" /\ req' = [req EXCEPT ![r] = Idle] /\ UNCHANGED <<Database, given>>
      /\ busy' = IF busy = r THEN None ELSE busy
  BY DEF SaveFails, Done
<1>2. Pruned'
  BY <1>1, IdleType, PrunedKept DEF Database, given
<1>3. EarlierTurnsAreCovered' /\ leaked' \cup early' \subseteq TurnRows /\ cut' \in BOOLEAN
  BY <1>1 DEF IInv, TypeOK, EarlierTurnsAreCovered, given
<1> QED
  BY <1>1, <1>2, <1>3, IdleType, PlainStep DEF given

LEMMA AbandonStep ==
  ASSUME IInv, NEW r \in Requests, Abandon(r)
  PROVE  IInv'
<1>1. /\ busy = r /\ req' = [req EXCEPT ![r] = Idle] /\ busy' = None
      /\ UNCHANGED <<Database, leaked, early, overtaken, replaced>>
  BY DEF Abandon, Done
<1>2. cut' = (cut \/ req[r].pc \in {"prune", "doom", "drop"})
  BY DEF Abandon
<1>3. cut \in BOOLEAN
  BY DEF IInv, TypeOK
<1>4. cut' \in BOOLEAN /\ (cut => cut') /\ (req[r].pc \in {"prune", "doom", "drop"} => cut')
  BY <1>2, <1>3, Zenon
<1>5. Pruned'
  BY <1>1, <1>4, IdleType, PrunedKept DEF Database
<1>6. EarlierTurnsAreCovered' /\ leaked' \cup early' \subseteq TurnRows
  BY <1>1 DEF IInv, TypeOK, EarlierTurnsAreCovered
<1> QED
  BY <1>1, <1>4, <1>5, <1>6, IdleType, PlainStep

LEMMA ListStep ==
  ASSUME IInv, NEW r \in Requests, List(r)
  PROVE  IInv'
<1>1. req[r] = Idle /\ UNCHANGED <<Database, busy, given>>
  BY DEF List
<1>2. PICK new : new = [Idle EXCEPT !.pc = "prune"]
  OBVIOUS
<1>3. req' = [req EXCEPT ![r] = new]
  BY <1>2 DEF List
<1>4. new \in Request /\ new.pc = "prune"
  BY <1>2, IdleType DEF Request
<1>5. Pruned'
  BY <1>1, <1>3, <1>4, IdleType, PrunedKept DEF Database, given
<1>6. EarlierTurnsAreCovered' /\ leaked' \cup early' \subseteq TurnRows /\ cut' \in BOOLEAN
  BY <1>1 DEF IInv, TypeOK, EarlierTurnsAreCovered, given
<1> QED
  BY <1>1, <1>3, <1>4, <1>5, <1>6, PlainStep DEF given

LEMMA PruneStep ==
  ASSUME IInv, NEW r \in Requests, Prune(r)
  PROVE  IInv'
<1> DEFINE drop == {c \in Stored : Prunable(c)}
<1>1. TypeOK /\ req[r] \in Request /\ drop \subseteq Chats
  BY StoredFacts DEF IInv, TypeOK
<1>2. /\ req[r].pc = "prune" /\ cut' = FALSE
      /\ UNCHANGED <<Database, leaked, early, overtaken, replaced>>
  BY DEF Prune
<1>3. EarlierTurnsAreCovered' /\ leaked' \cup early' \subseteq TurnRows
  BY <1>2 DEF IInv, TypeOK, EarlierTurnsAreCovered
<1>4. Cardinality(Stored \ drop) =< Cap /\ IsFiniteSet(Stored \ drop)
  <2>1. Stored \ drop = {c \in Stored : ~Prunable(c)}
    OBVIOUS
  <2> QED
    BY <2>1, KeptAreFew, FS_Subset DEF IInv, Dated
<1>5. Stored' = Stored
  BY <1>2 DEF Stored, Database
<1>6. CASE drop # {}
  <2>1. req' = [req EXCEPT ![r].pc = "doom", ![r].drop = drop] /\ busy' = busy
    BY <1>6 DEF Prune
  <2>2. PICK new : new = [req[r] EXCEPT !.pc = "doom", !.drop = drop]
    OBVIOUS
  <2>3. req' = [req EXCEPT ![r] = new]
    BY <1>1, <2>1, <2>2 DEF TypeOK
  <2>4. new \in Request /\ new.pc = "doom" /\ new.drop = drop
    BY <1>1, <2>2 DEF Request
  <2>5. req'[r] = new
    BY <1>1, <2>3 DEF TypeOK
  <2>6. drop \subseteq Doomed'
    BY <1>1, <2>4, <2>5 DEF Doomed
  <2>7. (Stored \ Doomed)' \subseteq Stored \ drop
    BY <1>5, <2>6
  <2>8. Pruned'
    BY <1>4, <2>7, FS_Subset, FS_CardinalityType, HistoryAssumption DEF Pruned
  <2> QED
    BY <1>2, <1>3, <2>1, <2>3, <2>4, <2>8, PlainStep
<1>7. CASE drop = {}
  <2>1. req' = [req EXCEPT ![r] = Idle] /\ busy' = IF busy = r THEN None ELSE busy
    BY <1>7 DEF Prune, Done
  <2>2. (Stored \ Doomed)' \subseteq Stored \ drop
    BY <1>5, <1>7
  <2>3. Pruned'
    BY <1>4, <2>2, FS_Subset, FS_CardinalityType, HistoryAssumption DEF Pruned
  <2> QED
    BY <1>2, <1>3, <2>1, <2>3, IdleType, PlainStep
<1> QED
  BY <1>6, <1>7

LEMMA RemoveStep ==
  ASSUME IInv, NEW r \in Requests, Remove(r)
  PROVE  IInv'
<1>1. req[r] = Idle /\ UNCHANGED <<Database, busy, given>>
  BY DEF Remove
<1>2. PICK drop \in {{c} : c \in Stored} \cup {Stored} :
        req' = [req EXCEPT ![r] = [Idle EXCEPT !.pc = "doom", !.drop = drop]]
  BY DEF Remove
<1>3. drop \subseteq Chats
  BY StoredFacts DEF IInv
<1>4. PICK new : new = [Idle EXCEPT !.pc = "doom", !.drop = drop]
  OBVIOUS
<1>5. req' = [req EXCEPT ![r] = new]
  BY <1>2, <1>4
<1>6. new \in Request /\ new.pc = "doom"
  BY <1>3, <1>4, IdleType DEF Request
<1>7. Pruned'
  BY <1>1, <1>5, <1>6, IdleType, PrunedKept DEF Database, given
<1>8. EarlierTurnsAreCovered' /\ leaked' \cup early' \subseteq TurnRows /\ cut' \in BOOLEAN
  BY <1>1 DEF IInv, TypeOK, EarlierTurnsAreCovered, given
<1> QED
  BY <1>1, <1>5, <1>6, <1>7, <1>8, PlainStep DEF given

LEMMA DoomStep ==
  ASSUME IInv, NEW r \in Requests, Doom(r)
  PROVE  IInv'
<1> DEFINE doomed == {t \in turns : t.chat \in req[r].drop}
<1>1. TypeOK /\ req[r] \in Request /\ doomed \subseteq TurnRows
  BY DEF IInv, TypeOK
<1>2. req[r].pc = "doom" /\ UNCHANGED <<Database, busy, given>>
  BY DEF Doom
<1>3. PICK new : new = [req[r] EXCEPT !.pc = "drop", !.doomed = doomed]
  OBVIOUS
<1>4. req' = [req EXCEPT ![r] = new]
  BY <1>1, <1>3 DEF Doom, TypeOK
<1>5. new \in Request /\ new.pc = "drop" /\ new.drop = req[r].drop /\ new.doomed = doomed
  BY <1>1, <1>3 DEF Request
<1>6. Sound(new)'
  <2>1. Deletion(new)'
    BY <1>2, <1>5 DEF Deletion, Database
  <2> QED
    BY <1>5, <2>1 DEF Sound, Writing, Seen, Answer
<1>7. Pruned'
  BY <1>2, <1>4, <1>5, PrunedKept DEF Database, given
<1>8. /\ EarlierTurnsAreCovered' /\ leaked' \cup early' \subseteq TurnRows /\ cut' \in BOOLEAN
      /\ used' \cup replaced' \subseteq Chats
  BY <1>2 DEF IInv, TypeOK, EarlierTurnsAreCovered, Database, given
<1> QED
  BY <1>2, <1>4, <1>5, <1>6, <1>7, <1>8, MoveStep DEF Database, given, Busy
----------------------------------------------------------------------------
(* The two steps that write the rows: a save's commit, and a deletion's.     *)

\* What the others have under way, when t is saved in a chat whose answer is r's.
LEMMA OthersStayAtWrite ==
  ASSUME NEW q, Sound(q), q.pc \notin Busy, NEW t, turns' = turns \cup {t},
         UNCHANGED <<used, replaced, leaked>>, overtaken \subseteq overtaken',
         q.pc = "drop" /\ t.chat \in q.drop => t \in overtaken'
  PROVE  Sound(q)'
  BY DEF Sound, Writing, Deletion, Seen, Answer, Busy

LEMMA SaveCommitStep ==
  ASSUME IInv, NEW r \in Requests, SaveCommit(r)
  PROVE  IInv'
<1> PICK q : q = req[r]
  OBVIOUS
<1> PICK t : t = [chat |-> q.chat, seq |-> q.row.turns + 1, holds |-> q.holds]
  OBVIOUS
<1> PICK row : row = [scope |-> Merge(q.row.scope, q.access), turns |-> q.row.turns + 1,
                      updated |-> clock + 1]
  OBVIOUS
<1>1. /\ TypeOK /\ q \in Request /\ q.pc = "commit" /\ busy = r
      /\ q.row # Gone => q.chat \in Stored
      /\ Writing(q) /\ Answer(q)
  BY DEF IInv, TypeOK, SaveCommit, AllSound, Sound
<1>2. /\ conv' = [conv EXCEPT ![q.chat] = row] /\ turns' = turns \cup {t} /\ clock' = clock + 1
      /\ overtaken' = IF Deleting(q.chat) THEN overtaken \cup {t} ELSE overtaken
      /\ UNCHANGED <<access, used, cutoff, grants, busy, leaked, early, cut, replaced>>
  BY DEF SaveCommit, Write
<1>3. PICK new : new = [Idle EXCEPT !.pc = "prune"]
  OBVIOUS
<1>4. req' = [req EXCEPT ![r] = new]
  BY <1>3 DEF SaveCommit, Write
<1>5. new \in Request /\ new.pc = "prune"
  BY <1>3, IdleType DEF Request
<1>6. q.chat \in Chats /\ q.chat \in used
  BY <1>1 DEF Writing, TypeOK
<1>7. /\ row \in Row /\ row.scope = Merge(q.row.scope, q.access) /\ row.turns = q.row.turns + 1
      /\ row.updated = clock + 1 /\ row # Gone
      /\ t \in TurnRows /\ t.chat = q.chat /\ t.seq = q.row.turns + 1 /\ t.holds = q.holds
  <2>1. q.row \in Row /\ q.access \in Scopes /\ q.holds \in Scopes /\ clock \in Nat
    BY <1>1 DEF Request, TypeOK
  <2>2. Merge(q.row.scope, q.access) \in Scopes
    BY <2>1, MergeType DEF Row
  <2>3. row \in Row /\ row.turns # Gone.turns
    BY <2>1, <2>2, GoneType DEF Row
  <2> QED
    BY <1>6, <2>1, <2>3 DEF TurnRows, Row
<1>8. conv' \in [Chats -> Row] /\ conv'[q.chat] = row /\ \A c \in Chats \ {q.chat} : conv'[c] = conv[c]
  BY <1>1, <1>2, <1>6, <1>7 DEF TypeOK
<1>9. Stored' = Stored \cup {q.chat}
  BY <1>6, <1>7, <1>8 DEF Stored
<1>10. \A c : TurnsOf(c)' = IF c = q.chat THEN TurnsOf(c) \cup {t} ELSE TurnsOf(c)
  BY <1>2, <1>7 DEF TurnsOf
<1>11. ASSUME q.row # Gone PROVE conv[q.chat] = q.row /\ q.chat \in Stored
  BY <1>1, <1>11 DEF Writing, Stored
<1>12. ASSUME q.row = Gone PROVE TurnsOf(q.chat) = {} /\ q.chat \notin Stored
  BY <1>1, <1>12 DEF Writing, Stored
<1>13. TypeOK'
  <2>1. req' \in [Requests -> Request] /\ \A p \in Requests : req'[p].pc \in Busy => busy' = p
    BY <1>1, <1>2, <1>4, <1>5 DEF TypeOK, Busy
  <2>2. turns' \cup leaked' \cup early' \cup overtaken' \subseteq TurnRows
    BY <1>1, <1>2, <1>7 DEF TypeOK
  <2> QED
    BY <1>1, <1>2, <1>8, <2>1, <2>2 DEF TypeOK, Busy
<1>14. Used'
  BY <1>2, <1>6, <1>8, <1>10 DEF IInv, Used
<1>15. InOrder'
  <2> SUFFICES ASSUME NEW c \in Stored' PROVE Numbered(c)'
    BY DEF InOrder
  <2>1. CASE c # q.chat
    <3>1. c \in Stored /\ conv'[c] = conv[c] /\ TurnsOf(c)' = TurnsOf(c)
      BY <1>8, <1>9, <1>10, <2>1 DEF Stored
    <3> QED
      BY <3>1 DEF IInv, InOrder, Numbered
  <2>2. CASE c = q.chat
    <3>1. {u.seq : u \in TurnsOf(c)} = 1..q.row.turns /\ \A u, v \in TurnsOf(c) : u.seq = v.seq => u = v
      <4>1. CASE q.row = Gone
        BY <1>12, <2>2, <4>1, GoneType
      <4>2. CASE q.row # Gone
        BY <1>11, <2>2, <4>2 DEF IInv, InOrder, Numbered
      <4> QED
        BY <4>1, <4>2
    <3>2. TurnsOf(c)' = TurnsOf(c) \cup {t} /\ conv'[c].turns = q.row.turns + 1 /\ q.row.turns \in Nat
      BY <1>1, <1>7, <1>8, <1>10, <2>2 DEF Request, Row
    <3>3. {u.seq : u \in TurnsOf(c)'} = {u.seq : u \in TurnsOf(c)} \cup {t.seq}
      BY <3>2
    <3>4. 1..(q.row.turns + 1) = 1..q.row.turns \cup {q.row.turns + 1}
      BY <3>2
    <3>5. ASSUME NEW u \in TurnsOf(c) PROVE u.seq # t.seq
      <4>1. u.seq \in 1..q.row.turns
        <5>1. u.seq \in {v.seq : v \in TurnsOf(c)}
          OBVIOUS
        <5> QED
          BY <3>1, <5>1
      <4>2. t.seq = q.row.turns + 1 /\ q.row.turns \in Nat
        BY <1>7, <3>2
      <4> QED
        BY <4>1, <4>2
    <3>6. {u.seq : u \in TurnsOf(c)'} = 1..conv'[c].turns
      <4>1. {u.seq : u \in TurnsOf(c)'} = 1..q.row.turns \cup {q.row.turns + 1}
        BY <1>7, <3>1, <3>3
      <4> QED
        BY <3>2, <3>4, <4>1
    <3>7. \A u, v \in TurnsOf(c)' : u.seq = v.seq => u = v
      BY <3>1, <3>2, <3>5
    <3> QED
      BY <3>6, <3>7 DEF Numbered
  <2> QED
    BY <2>1, <2>2
<1>16. AllSound'
  <2> SUFFICES ASSUME NEW p \in Requests, NEW w, w = req'[p] PROVE Sound(w)'
    BY DEF AllSound
  <2>1. CASE p = r
    BY <1>1, <1>4, <1>5, <2>1 DEF TypeOK, Sound, Writing, Deletion, Seen, Answer
  <2>2. CASE p # r
    <3>1. w = req[p] /\ w.pc \notin Busy
      BY <1>1, <1>4, <2>2 DEF TypeOK, Busy
    <3>2. Sound(w)
      BY <3>1 DEF IInv, AllSound
    <3>3. w.pc = "drop" /\ t.chat \in w.drop => t \in overtaken'
      BY <1>2, <1>7, <3>1 DEF Deleting
    <3> QED
      BY <1>2, <3>1, <3>2, <3>3, OthersStayAtWrite
  <2> QED
    BY <2>1, <2>2
<1>17. Dated'
  <2>1. IsFiniteSet(Stored')
    BY <1>9, FS_AddElement DEF IInv, Dated
  <2>2. \A c \in Stored : conv[c].updated \in Nat /\ conv[c].updated =< clock /\ clock \in Nat
    BY <1>1, StoredFacts DEF IInv, Dated, TypeOK, Row
  <2>3. \A c \in Stored' : c # q.chat => c \in Stored /\ conv'[c] = conv[c]
    BY <1>8, <1>9, StoredFacts, <1>1
  <2>4. \A c, d \in Stored : conv[c].updated = conv[d].updated => c = d
    BY DEF IInv, Dated
  <2>5. ASSUME NEW c \in Stored' PROVE conv'[c].updated =< clock'
    BY <1>1, <1>2, <1>7, <1>8, <2>2, <2>3 DEF TypeOK
  <2>6. ASSUME NEW c \in Stored', NEW d \in Stored', conv'[c].updated = conv'[d].updated PROVE c = d
    BY <1>1, <1>7, <1>8, <2>2, <2>3, <2>4, <2>6 DEF TypeOK
  <2> QED
    BY <2>1, <2>5, <2>6 DEF Dated
<1>18. Pruned'
  <2>1. req'[r].pc = "prune"
    BY <1>1, <1>4, <1>5 DEF TypeOK
  <2> QED
    BY <2>1 DEF Pruned
<1>19. ScopeCoversTurns'
  <2> SUFFICES ASSUME NEW u \in turns', u.chat \in Stored'
               PROVE  Covers(conv'[u.chat].scope, u.holds) \/ (u.chat \in replaced /\ leaked # {})
    BY <1>2 DEF ScopeCoversTurns
  <2>1. CASE u = t
    <3>1. Own(q) => Covers(row.scope, q.holds)
      BY <1>7, MergeCovers DEF Own
    <3> QED
      BY <1>1, <1>7, <1>8, <2>1, <3>1 DEF Answer
  <2>2. CASE u \in turns /\ u.chat # q.chat
    BY <1>8, <1>9, <2>2, <1>1, StoredFacts DEF IInv, ScopeCoversTurns
  <2>3. CASE u \in turns /\ u.chat = q.chat
    <3>1. u \in TurnsOf(q.chat)
      BY <2>3 DEF TurnsOf
    <3>2. conv[q.chat] = q.row /\ q.chat \in Stored
      BY <1>11, <1>12, <3>1
    <3>3. Covers(q.row.scope, u.holds) \/ (u.chat \in replaced /\ leaked # {})
      BY <2>3, <3>2 DEF IInv, ScopeCoversTurns
    <3> QED
      BY <1>7, <1>8, <2>3, <3>3, MergeCovers
  <2> QED
    BY <1>2, <2>1, <2>2, <2>3
<1>20. EarlierTurnsAreCovered'
  BY <1>2 DEF IInv, EarlierTurnsAreCovered
<1>21. OrphansAreRaces'
  BY <1>2, <1>7, <1>9 DEF IInv, OrphansAreRaces
<1> QED
  BY <1>13, <1>14, <1>15, <1>16, <1>17, <1>18, <1>19, <1>20, <1>21 DEF IInv
LEMMA DropStep ==
  ASSUME IInv, NEW r \in Requests, Drop(r)
  PROVE  IInv'
<1> PICK q : q = req[r]
  OBVIOUS
<1>1. TypeOK /\ q \in Request /\ q.pc = "drop" /\ Deletion(q)
  BY DEF IInv, TypeOK, Drop, AllSound, Sound
<1>2. /\ conv' = [c \in Chats |-> IF c \in q.drop THEN Gone ELSE conv[c]] /\ turns' = turns \ q.doomed
      /\ req' = [req EXCEPT ![r] = Idle] /\ busy' = IF busy = r THEN None ELSE busy
      /\ UNCHANGED <<access, used, clock, cutoff, grants, given>>
  BY DEF Drop, Done
<1>3. q.drop \subseteq Chats
  BY <1>1 DEF Request
<1>4. conv' \in [Chats -> Row] /\ \A c \in Chats : conv'[c] = IF c \in q.drop THEN Gone ELSE conv[c]
  BY <1>1, <1>2, GoneType DEF TypeOK
<1>5. Stored' = Stored \ q.drop
  BY <1>4 DEF Stored
<1>6. \A c : TurnsOf(c)' \subseteq TurnsOf(c) /\ (c \notin q.drop => TurnsOf(c)' = TurnsOf(c))
  BY <1>1, <1>2 DEF TurnsOf, Deletion
<1>7. TypeOK'
  <2>1. req' \in [Requests -> Request] /\ \A p \in Requests : req'[p] = IF p = r THEN Idle ELSE req[p]
    BY <1>1, <1>2, IdleType DEF TypeOK
  <2>2. \A p \in Requests : req'[p].pc \in Busy => busy' = p
    BY <1>1, <1>2, <2>1, IdleType DEF TypeOK, Busy
  <2>3. turns' \cup leaked' \cup early' \cup overtaken' \subseteq TurnRows /\ busy' \in Requests \cup {None}
    BY <1>1, <1>2 DEF TypeOK, given
  <2> QED
    BY <1>1, <1>2, <1>4, <2>1, <2>2, <2>3 DEF TypeOK, Busy, given
<1>8. Used'
  <2> SUFFICES ASSUME NEW c \in Chats \ used PROVE conv'[c] = Gone /\ TurnsOf(c)' = {}
    BY <1>2 DEF Used
  <2>1. conv[c] = Gone /\ TurnsOf(c) = {}
    BY DEF IInv, Used
  <2> QED
    BY <2>1, <1>4, <1>6
<1>9. InOrder'
  <2> SUFFICES ASSUME NEW c \in Stored' PROVE Numbered(c)'
    BY DEF InOrder
  <2>1. c \in Stored /\ conv'[c] = conv[c] /\ TurnsOf(c)' = TurnsOf(c)
    BY <1>1, <1>4, <1>5, <1>6, StoredFacts
  <2> QED
    BY <2>1 DEF IInv, InOrder, Numbered
<1>10. AllSound'
  <2> SUFFICES ASSUME NEW p \in Requests, NEW w, w = req'[p] PROVE Sound(w)'
    BY DEF AllSound
  <2>1. CASE p = r
    <3>1. w.pc = "idle"
      BY <1>1, <1>2, <2>1, IdleType DEF TypeOK
    <3> QED
      BY <3>1 DEF Sound, Writing, Deletion, Seen, Answer
  <2>2. CASE p # r
    <3>1. w = req[p] /\ Sound(w)
      BY <1>1, <1>2, <2>2 DEF IInv, TypeOK, AllSound
    <3>2. Writing(w)'
      <4>1. used' = used /\ used \subseteq Chats
        BY <1>1, <1>2 DEF TypeOK
      <4> QED
        BY <1>4, <1>6, <3>1, <4>1 DEF Sound, Writing
    <3>3. Deletion(w)' /\ Seen(w)'
      BY <1>2, <3>1 DEF Sound, Deletion, Seen, given
    <3>4. Answer(w)'
      <4>1. \A c \in Stored' : c \in Stored /\ conv'[c] = conv[c]
        BY <1>1, <1>4, <1>5, StoredFacts
      <4> QED
        BY <1>2, <3>1, <4>1 DEF Sound, Answer, Own, given
    <3> QED
      BY <3>2, <3>3, <3>4 DEF Sound
  <2> QED
    BY <2>1, <2>2
<1>11. Dated'
  <2>1. IsFiniteSet(Stored') /\ \A c \in Stored' : c \in Stored /\ conv'[c] = conv[c]
    BY <1>1, <1>4, <1>5, StoredFacts, FS_Subset DEF IInv, Dated
  <2> QED
    BY <1>2, <2>1 DEF IInv, Dated
<1>12. Pruned'
  <2> SUFFICES ASSUME \A p \in Requests : req'[p].pc # "prune", ~cut'
               PROVE  Cardinality((Stored \ Doomed)') =< Cap
    BY DEF Pruned
  <2>1. \A p \in Requests : req'[p] = IF p = r THEN Idle ELSE req[p]
    BY <1>1, <1>2 DEF TypeOK
  <2>2. \A p \in Requests : req[p].pc # "prune"
    BY <1>1, <2>1
  <2>3. Cardinality(Stored \ Doomed) =< Cap
    BY <1>2, <2>2 DEF IInv, Pruned, given
  <2>4. ASSUME NEW c \in Doomed, c \notin q.drop PROVE c \in Doomed'
    BY <2>1, <2>4 DEF Doomed
  <2>5. (Stored \ Doomed)' \subseteq Stored \ Doomed
    BY <1>5, <2>4
  <2>6. IsFiniteSet(Stored \ Doomed)
    BY FS_Subset DEF IInv, Dated
  <2> HIDE DEF IInv
  <2> QED
    BY <2>3, <2>5, <2>6, FS_Subset, FS_CardinalityType, HistoryAssumption
<1>13. ScopeCoversTurns'
  <2> SUFFICES ASSUME NEW u \in turns', u.chat \in Stored'
               PROVE  Covers(conv'[u.chat].scope, u.holds) \/ (u.chat \in replaced /\ leaked # {})
    BY <1>2 DEF ScopeCoversTurns, given
  <2>1. u \in turns /\ u.chat \in Stored /\ conv'[u.chat] = conv[u.chat]
    BY <1>1, <1>2, <1>4, <1>5, StoredFacts
  <2> QED
    BY <2>1 DEF IInv, ScopeCoversTurns
<1>14. EarlierTurnsAreCovered'
  BY <1>2 DEF IInv, EarlierTurnsAreCovered, given
<1>15. OrphansAreRaces'
  BY <1>1, <1>2, <1>5 DEF IInv, OrphansAreRaces, Deletion, given
<1> QED
  BY <1>7, <1>8, <1>9, <1>10, <1>11, <1>12, <1>13, <1>14, <1>15 DEF IInv

----------------------------------------------------------------------------
(* The invariant, and what follows. *)

LEMMA InitHolds == Init => IInv
<1> SUFFICES ASSUME Init PROVE IInv
  OBVIOUS
<1>1. Stored = {} /\ turns = {} /\ \A c : TurnsOf(c) = {}
  BY DEF Init, Stored, TurnsOf
<1>2. TypeOK
  BY GoneType, IdleType DEF Init, TypeOK
<1>3. AllSound
  BY IdleType DEF Init, AllSound
<1>4. Used
  BY <1>1 DEF Init, Used
<1>5. Dated /\ InOrder
  BY <1>1, FS_EmptySet DEF Dated, InOrder
<1>6. Pruned
  <2>1. Stored \ Doomed = {}
    BY <1>1
  <2>2. Cardinality({}) = 0
    BY FS_EmptySet
  <2>3. Cardinality(Stored \ Doomed) = 0
    BY <2>1, <2>2
  <2> QED
    BY <2>3, HistoryAssumption DEF Pruned
<1>7. ScopeCoversTurns /\ EarlierTurnsAreCovered /\ OrphansAreRaces
  BY <1>1 DEF Init, ScopeCoversTurns, EarlierTurnsAreCovered, OrphansAreRaces
<1> QED
  BY <1>2, <1>3, <1>4, <1>5, <1>6, <1>7 DEF IInv

LEMMA OthersLeaveAll ==
  ASSUME IInv, access' \in Accesses, cutoff' \in Nat, grants' \in Nat,
         UNCHANGED <<conv, turns, used, req, busy, clock, given>>
  PROVE  IInv'
<1>1. TypeOK'
  BY DEF IInv, TypeOK, given
<1>2. AllSound'
  BY DEF IInv, AllSound, Sound, Writing, Deletion, Seen, Answer, Own, Stored, TurnsOf, given
<1>3. Used' /\ InOrder' /\ Dated' /\ OrphansAreRaces'
  BY DEF IInv, Used, InOrder, Numbered, Dated, OrphansAreRaces, Stored, TurnsOf, given
<1>4. Pruned' /\ ScopeCoversTurns' /\ EarlierTurnsAreCovered'
  BY DEF IInv, Pruned, Doomed, Stored, ScopeCoversTurns, EarlierTurnsAreCovered, given
<1> QED
  BY <1>1, <1>2, <1>3, <1>4 DEF IInv

LEMMA NextHolds == IInv /\ [Next]_vars => IInv'
<1> SUFFICES ASSUME IInv, [Next]_vars PROVE IInv'
  OBVIOUS
<1>1. CASE Grant
  BY <1>1, OthersLeaveAll DEF Grant, IInv, TypeOK
<1>2. CASE Age
  BY <1>2, OthersLeaveAll DEF Age, IInv, TypeOK
<1>3. CASE UNCHANGED vars
  BY <1>3, OthersLeaveAll DEF vars, IInv, TypeOK
<1>4. ASSUME NEW r \in Requests, AskIn(r) \/ AskNew(r) \/ Admit(r) \/ History(r) \/ Open(r) \/ OpenRead(r)
      PROVE  IInv'
  BY <1>4, FetchStep, AskNewStep, AdmitStep, HistoryStep, OpenReadStep DEF AskIn, Open
<1>5. ASSUME NEW r \in Requests, SaveRead(r) \/ SaveFails(r) \/ SaveCommit(r) \/ Abandon(r)
      PROVE  IInv'
  BY <1>5, SaveReadStep, SaveFailsStep, SaveCommitStep, AbandonStep
<1>6. ASSUME NEW r \in Requests, List(r) \/ Prune(r) \/ Remove(r) \/ Doom(r) \/ Drop(r)
      PROVE  IInv'
  BY <1>6, ListStep, PruneStep, RemoveStep, DoomStep, DropStep
<1> QED
  BY <1>1, <1>2, <1>3, <1>4, <1>5, <1>6 DEF Next

\* TypeOK: the types of all that is kept; and nobody but the request admitted has a
\* question under way (assistant/limits.py admits one at a time).
THEOREM TypeCorrect == Spec => []TypeOK
<1>1. IInv => TypeOK
  BY DEF IInv
<1> QED
  BY <1>1, InitHolds, NextHolds, PTL DEF Spec

\* ScopeCoversTurns: a conversation's scope covers its turns, so the check at the door speaks
\* for all that is there; but for the chats made in the place of one deleted under its
\* answer, once something has leaked.
THEOREM ScopeCorrect == Spec => []ScopeCoversTurns
<1>1. IInv => ScopeCoversTurns
  BY DEF IInv
<1> QED
  BY <1>1, InitHolds, NextHolds, PTL DEF Spec

\* EarlierTurnsAreCovered: the turns handed to the model are covered by the scope the answer
\* is saved under, with the same exception.
THEOREM EarlierCorrect == Spec => []EarlierTurnsAreCovered
<1>1. IInv => EarlierTurnsAreCovered
  BY DEF IInv
<1> QED
  BY <1>1, InitHolds, NextHolds, PTL DEF Spec

\* OrphansAreRaces: a turn outlives its conversation only by being saved between the two
\* statements of the deletion.
THEOREM OrphansCorrect == Spec => []OrphansAreRaces
<1>1. IInv => OrphansAreRaces
  BY DEF IInv
<1> QED
  BY <1>1, InitHolds, NextHolds, PTL DEF Spec

LEMMA NumberedInOrder ==
  ASSUME NEW c \in Stored, Numbered(c), conv[c].turns \in Nat
  PROVE  Cardinality(TurnsOf(c)) = conv[c].turns
<1> DEFINE ts == TurnsOf(c)
           n == conv[c].turns
           f == [t \in ts |-> t.seq]
<1>1. {t.seq : t \in ts} = 1..n /\ \A t, u \in ts : t.seq = u.seq => t = u
  BY DEF Numbered
<1>2. f \in Bijection(ts, 1..n)
  <2>1. f \in [ts -> 1..n]
    BY <1>1
  <2>2. \A t, u \in ts : f[t] = f[u] => t = u
    BY <1>1
  <2>3. ASSUME NEW i \in 1..n PROVE \E t \in ts : f[t] = i
    BY <1>1
  <2> HIDE DEF ts, n, f
  <2>4. f \in Injection(ts, 1..n)
    BY <2>1, <2>2 DEF Injection, IsInjective
  <2>5. f \in Surjection(ts, 1..n)
    BY <2>1, <2>3 DEF Surjection
  <2> QED
    BY <2>4, <2>5 DEF Bijection
<1>3. IsFiniteSet(1..n) /\ Cardinality(1..n) = n
  <2>1. n \in Nat /\ 1 \in Int /\ n \in Int
    OBVIOUS
  <2> HIDE DEF n
  <2>2. IsFiniteSet(1..n) /\ Cardinality(1..n) = IF 1 > n THEN 0 ELSE n - 1 + 1
    BY <2>1, FS_Interval
  <2> QED
    BY <2>1, <2>2
<1>4. f \in Injection(ts, 1..n) /\ f \in Surjection(ts, 1..n)
  BY <1>2 DEF Bijection
<1> HIDE DEF ts, n, f
<1>5. Cardinality(ts) = Cardinality(1..n)
  BY <1>3, <1>4, FS_Injection
<1> QED
  BY <1>3, <1>5 DEF ts, n

\* TurnsInOrder: the turns of a conversation are numbered from 1 without a gap, whatever
\* was deleted or pruned while they were saved.
THEOREM OrderCorrect == Spec => []TurnsInOrder
<1>1. IInv => TurnsInOrder
  <2> SUFFICES ASSUME IInv, NEW c \in Stored
               PROVE  {t.seq : t \in TurnsOf(c)} = 1..conv[c].turns /\ Cardinality(TurnsOf(c)) = conv[c].turns
    BY DEF TurnsInOrder
  <2>1. Numbered(c) /\ conv[c].turns \in Nat
    BY StoredFacts DEF IInv, InOrder, Row
  <2> QED
    BY <2>1, NumberedInOrder DEF Numbered
<1> QED
  BY <1>1, InitHolds, NextHolds, PTL DEF Spec

\* CapHolds: with nothing under way the user has no more chats than allowed, unless a save
\* was left between its commit and its pruning.
THEOREM CapCorrect == Spec => []CapHolds
<1>1. IInv => CapHolds
  <2> SUFFICES ASSUME IInv, \A r \in Requests : req[r] = Idle, ~cut
               PROVE  Cardinality(Stored) =< Cap
    BY DEF CapHolds
  <2>1. \A r \in Requests : req[r].pc = "idle"
    BY IdleType
  <2>2. Stored \ Doomed = Stored
    BY <2>1 DEF Doomed
  <2> QED
    BY <2>1, <2>2 DEF IInv, Pruned
<1> QED
  BY <1>1, InitHolds, NextHolds, PTL DEF Spec
============================================================================
