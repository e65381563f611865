---------------------------- MODULE ChatHistory ----------------------------
(***************************************************************************)
(* A user's saved assistant conversations (assistant/history.py and the    *)
(* handlers of api/chat.py that call it): asking in a saved chat, opening, *)
(* listing, deleting, and the pruning that follows every save.             *)
(*                                                                         *)
(* Each database statement is a step of its own, as on PostgreSQL's read   *)
(* committed: a statement sees what was committed when it began, a         *)
(* transaction's changes show when it commits.  chat_turns has no foreign  *)
(* key to chat_conversations.                                              *)
(***************************************************************************)
EXTENDS Naturals, FiniteSets

CONSTANTS
  Requests,     \* requests of one user that can be served at a time
  Chats,        \* conversation ids, each given out once
  Accesses,     \* the tenant scopes the user may be given: sets of tenants, or {All}
  All,          \* the scope "*" of a cross-tenant role
  None,
  Cap,          \* assistant_saved_chats_per_user
  MaxSaves,     \* bound on the turns saved
  MaxGrants     \* bound on the changes of the user's access

ASSUME HistoryAssumption ==
  /\ None \notin Requests \cup Chats /\ Cap \in Nat \ {0} /\ MaxSaves \in Nat /\ MaxGrants \in Nat
  /\ \A a \in Accesses : All \in a => a = {All}

VARIABLES
  access,   \* users.allowed_customer_ids, or {All}, in the database
  conv,     \* chat_conversations: the row of each id, or Gone
  turns,    \* chat_turns
  used,     \* the ids given out
  req,      \* what each request is doing
  busy,     \* the request ChatLimiter has admitted, or None
  clock,    \* saves so far: the time of updated_at
  cutoff,   \* chats not updated since then have expired
  grants,   \* counter, for the bound
  leaked,   \* history: turns given to a request whose user may not see all they hold
  early,    \* history: those of them already saved when the request was let in
  overtaken,\* history: turns saved while a deletion of their chat was between its statements
  cut,      \* history: a save's pruning was abandoned and none has been done since
  replaced  \* history: chats made in the place of one deleted under its answer

given == <<leaked, early, overtaken, cut, replaced>>
vars == <<access, conv, turns, used, req, busy, clock, cutoff, grants, given>>

Gone == [scope |-> {}, turns |-> 0, updated |-> 0]
Stored == {c \in Chats : conv[c] # Gone}
TurnsOf(c) == {t \in turns : t.chat = c}

Idle == [pc |-> "idle", access |-> {}, chat |-> None, seen |-> {}, holds |-> {},
         row |-> Gone, drop |-> {}, doomed |-> {}]

Init ==
  /\ access \in Accesses
  /\ conv = [c \in Chats |-> Gone] /\ turns = {} /\ used = {}
  /\ req = [r \in Requests |-> Idle] /\ busy = None
  /\ clock = 0 /\ cutoff = 0 /\ grants = 0
  /\ leaked = {} /\ early = {} /\ overtaken = {} /\ cut = FALSE /\ replaced = {}

----------------------------------------------------------------------------
(* Scopes. *)

\* save_turn's union: "*" absorbs everything else.
Merge(saved, held) == IF All \in saved \cup held THEN {All} ELSE saved \cup held

Covers(held, saved) == All \in held \/ saved \subseteq held

\* What an answer may hold: what its user may see, and the turns it was given.
Holds(held, ts) == Merge(held, UNION {t.holds : t \in ts})

\* A request whose user may see held is given the turns ts; seen were there when it
\* was let in.
Given(held, ts, seen) ==
  LET beyond == {t \in ts : ~Covers(held, t.holds)} IN
  /\ leaked' = leaked \cup beyond
  /\ early' = early \cup (beyond \cap seen)
  /\ UNCHANGED <<overtaken, cut, replaced>>

----------------------------------------------------------------------------
(* Asking.  The caller's row, with its access, is read when the request comes in. *)

Database == <<access, conv, turns, used, clock, cutoff, grants>>

Fetch_Unchecked(r, c, pc) ==
  /\ req[r] = Idle /\ c \in Stored
  /\ req' = [req EXCEPT ![r] = [Idle EXCEPT !.pc = pc, !.access = access, !.chat = c,
                                            !.seen = TurnsOf(c)]]
  /\ UNCHANGED <<Database, busy, given>>

\* get(): the user's own conversation, if their access covers it; otherwise 404 or
\* 403 and nothing happens.  The chat is fetched before the question is admitted.
Fetch(r, c, pc) ==
  /\ req[r] = Idle /\ c \in Stored /\ Covers(access, conv[c].scope)
  /\ req' = [req EXCEPT ![r] = [Idle EXCEPT !.pc = pc, !.access = access, !.chat = c,
                                            !.seen = TurnsOf(c)]]
  /\ UNCHANGED <<Database, busy, given>>

AskIn(r) == \E c \in Chats : Fetch(r, c, "admit")

AskNew(r) ==
  /\ req[r] = Idle
  /\ req' = [req EXCEPT ![r] = [Idle EXCEPT !.pc = "admit", !.access = access]]
  /\ UNCHANGED <<Database, busy, given>>

Admit_WhileBusy(r) ==
  /\ req[r].pc = "admit"
  /\ busy' = r /\ req' = [req EXCEPT ![r].pc = "history"]
  /\ UNCHANGED <<Database, given>>

\* Refused while another question is answered.
Admit(r) ==
  /\ req[r].pc = "admit"
  /\ \/ /\ busy = None
        /\ busy' = r /\ req' = [req EXCEPT ![r].pc = "history"]
     \/ /\ busy # None
        /\ req' = [req EXCEPT ![r] = Idle] /\ UNCHANGED busy
  /\ UNCHANGED <<Database, given>>

\* as_history, by the chat's id alone; then the answer is on its way.
History(r) ==
  LET q == req[r]  ts == TurnsOf(q.chat) IN
  /\ q.pc = "history"
  /\ req' = [req EXCEPT ![r].pc = "answering", ![r].holds = Holds(q.access, ts)]
  /\ Given(q.access, ts, q.seen)
  /\ UNCHANGED <<Database, busy>>

\* save_turn reads the row; None, or a chat deleted meanwhile, makes a new one.
SaveRead(r) ==
  LET q == req[r] IN
  /\ q.pc = "answering" /\ clock < MaxSaves
  /\ \/ /\ q.chat \in Stored
        /\ req' = [req EXCEPT ![r].pc = "commit", ![r].row = conv[q.chat]]
        /\ UNCHANGED <<used, replaced>>
     \/ /\ q.chat \notin Stored
        /\ \E c \in Chats \ used :
             /\ used' = used \cup {c}
             /\ req' = [req EXCEPT ![r].pc = "commit", ![r].chat = c, ![r].row = Gone]
             /\ replaced' = IF q.chat = None THEN replaced ELSE replaced \cup {c}
  /\ UNCHANGED <<access, conv, turns, clock, cutoff, grants, busy, leaked, early, overtaken, cut>>

\* The turns of c that a deletion under way has not counted.
Deleting(c) == \E q \in Requests : req[q].pc = "drop" /\ c \in req[q].drop

Write_OwnScope(r) ==
  LET q == req[r]
      t == [chat |-> q.chat, seq |-> q.row.turns + 1, holds |-> q.holds] IN
  /\ conv' = [conv EXCEPT ![q.chat] = [scope |-> q.access,
                                       turns |-> q.row.turns + 1, updated |-> clock + 1]]
  /\ turns' = turns \cup {t}
  /\ overtaken' = IF Deleting(q.chat) THEN overtaken \cup {t} ELSE overtaken
  /\ clock' = clock + 1
  /\ req' = [req EXCEPT ![r] = [Idle EXCEPT !.pc = "prune"]]
  /\ UNCHANGED <<access, used, cutoff, grants, busy, leaked, early, cut, replaced>>

Write(r) ==
  LET q == req[r]
      t == [chat |-> q.chat, seq |-> q.row.turns + 1, holds |-> q.holds] IN
  /\ conv' = [conv EXCEPT ![q.chat] = [scope |-> Merge(q.row.scope, q.access),
                                       turns |-> q.row.turns + 1, updated |-> clock + 1]]
  /\ turns' = turns \cup {t}
  /\ overtaken' = IF Deleting(q.chat) THEN overtaken \cup {t} ELSE overtaken
  /\ clock' = clock + 1
  /\ req' = [req EXCEPT ![r] = [Idle EXCEPT !.pc = "prune"]]
  /\ UNCHANGED <<access, used, cutoff, grants, busy, leaked, early, cut, replaced>>

Done(r) == req' = [req EXCEPT ![r] = Idle] /\ busy' = IF busy = r THEN None ELSE busy

\* The row vanished under the UPDATE: the save fails, the answer is not lost.
SaveFails(r) ==
  /\ req[r].pc = "commit" /\ req[r].row # Gone /\ req[r].chat \notin Stored
  /\ Done(r)
  /\ UNCHANGED <<Database, given>>

SaveCommit_Upsert(r) == req[r].pc = "commit" /\ Write(r)

SaveCommit(r) ==
  /\ req[r].pc = "commit" /\ (req[r].row # Gone => req[r].chat \in Stored)
  /\ Write(r)

\* The client leaves, or the turn ends with an error: the stream is closed at the
\* statement it stands at, whose transaction is rolled back.
Abandon(r) ==
  /\ busy = r
  /\ Done(r)
  /\ cut' = (cut \/ req[r].pc \in {"prune", "doom", "drop"})
  /\ UNCHANGED <<Database, leaked, early, overtaken, replaced>>

----------------------------------------------------------------------------
(* Opening, and deleting: prune, remove, remove_all. *)

Open(r) == \E c \in Chats : Fetch(r, c, "open")

OpenRead(r) ==
  /\ req[r].pc = "open"
  /\ Given(req[r].access, TurnsOf(req[r].chat), req[r].seen)
  /\ req' = [req EXCEPT ![r] = Idle]
  /\ UNCHANGED <<Database, busy>>

\* GET /conversations prunes the user's chats first.
List(r) ==
  /\ req[r] = Idle
  /\ req' = [req EXCEPT ![r] = [Idle EXCEPT !.pc = "prune"]]
  /\ UNCHANGED <<Database, busy, given>>

NewerThan(c) == {d \in Stored : conv[d].updated > conv[c].updated}

Prunable_KeepsOneMore(c) == conv[c].updated < cutoff \/ Cardinality(NewerThan(c)) > Cap

Prunable(c) == conv[c].updated < cutoff \/ Cardinality(NewerThan(c)) >= Cap

Prune(r) ==
  LET drop == {c \in Stored : Prunable(c)} IN
  /\ req[r].pc = "prune"
  /\ cut' = FALSE
  /\ \/ /\ drop # {}
        /\ req' = [req EXCEPT ![r].pc = "doom", ![r].drop = drop] /\ UNCHANGED busy
     \/ drop = {} /\ Done(r)
  /\ UNCHANGED <<Database, leaked, early, overtaken, replaced>>

\* One conversation, locked or not, or all of them.
Remove(r) ==
  /\ req[r] = Idle
  /\ \E drop \in {{c} : c \in Stored} \cup {Stored} :
       /\ drop # {}
       /\ req' = [req EXCEPT ![r] = [Idle EXCEPT !.pc = "doom", !.drop = drop]]
  /\ UNCHANGED <<Database, busy, given>>

\* DELETE FROM chat_turns: the rows there at this statement, gone with the commit.
Doom(r) ==
  /\ req[r].pc = "doom"
  /\ req' = [req EXCEPT ![r].pc = "drop",
                        ![r].doomed = {t \in turns : t.chat \in req[r].drop}]
  /\ UNCHANGED <<Database, busy, given>>

Drop_LeavesTurns(r) ==
  /\ req[r].pc = "drop"
  /\ conv' = [c \in Chats |-> IF c \in req[r].drop THEN Gone ELSE conv[c]]
  /\ Done(r)
  /\ UNCHANGED <<access, turns, used, clock, cutoff, grants, given>>

\* DELETE FROM chat_conversations, and the commit.
Drop(r) ==
  /\ req[r].pc = "drop"
  /\ conv' = [c \in Chats |-> IF c \in req[r].drop THEN Gone ELSE conv[c]]
  /\ turns' = turns \ req[r].doomed
  /\ Done(r)
  /\ UNCHANGED <<access, used, clock, cutoff, grants, given>>

----------------------------------------------------------------------------
\* An administrator changes the user's tenants or role.
Grant ==
  /\ grants < MaxGrants
  /\ access' \in Accesses \ {access}
  /\ grants' = grants + 1
  /\ UNCHANGED <<conv, turns, used, req, busy, clock, cutoff, given>>

Age ==
  /\ cutoff < clock
  /\ cutoff' = cutoff + 1
  /\ UNCHANGED <<access, conv, turns, used, req, busy, clock, grants, given>>

Next ==
  \/ Grant \/ Age
  \/ \E r \in Requests :
       \/ AskIn(r) \/ AskNew(r) \/ Admit(r) \/ History(r) \/ SaveRead(r) \/ SaveFails(r)
       \/ SaveCommit(r) \/ Abandon(r) \/ Open(r) \/ OpenRead(r) \/ List(r) \/ Prune(r)
       \/ Remove(r) \/ Doom(r) \/ Drop(r)

Spec == Init /\ [][Next]_vars

----------------------------------------------------------------------------
(* What must hold. *)

Scopes == SUBSET (UNION Accesses)
Row == [scope : Scopes, turns : Nat, updated : Nat]
TurnRows == [chat : Chats, seq : Nat, holds : Scopes]
Request == [pc : {"idle", "admit", "history", "answering", "commit", "prune", "open", "doom", "drop"},
            access : Scopes, chat : Chats \cup {None}, seen : SUBSET TurnRows, holds : Scopes,
            row : Row, drop : SUBSET Chats, doomed : SUBSET TurnRows]

\* Types; and a question is being answered for nobody but the request admitted.
TypeOK ==
  /\ access \in Accesses /\ conv \in [Chats -> Row] /\ used \cup replaced \subseteq Chats
  /\ turns \cup leaked \cup early \cup overtaken \subseteq TurnRows
  /\ req \in [Requests -> Request] /\ busy \in Requests \cup {None} /\ cut \in BOOLEAN
  /\ clock \in Nat /\ cutoff \in Nat /\ grants \in Nat
  /\ \A r \in Requests : req[r].pc \in {"history", "answering", "commit"} => busy = r

\* A conversation's scope covers what each of its turns holds, those it drew from the
\* chat's history included, however the user's access changed between the turns: the
\* check at the door speaks for all that was there.  The exception is a chat that
\* replaces one deleted under its answer: its first turn may draw on a history that was
\* beyond its user's access, and the turns after it draw on that one.
ScopeCoversTurns ==
  \A t \in turns : t.chat \in Stored =>
    Covers(conv[t.chat].scope, t.holds) \/ (t.chat \in replaced /\ leaked # {})

\* A narrowed user gets a turn beyond their access, from a chat opened or continued,
\* only if it was saved between the check and the read, or in a chat of that exception.
EarlierTurnsAreCovered == \A t \in early : t.chat \in replaced

\* The turns of a conversation are numbered from 1 without a gap, whatever was deleted
\* or pruned meanwhile: a follow-up gets the whole of it in order.
TurnsInOrder ==
  \A c \in Stored : LET ts == TurnsOf(c) IN
    /\ {t.seq : t \in ts} = 1..conv[c].turns
    /\ Cardinality(ts) = conv[c].turns

\* A turn survives its conversation only if it was saved between the two statements of
\* the deletion; nothing would ever remove it.
OrphansAreRaces == {t \in turns : t.chat \notin Stored} \subseteq overtaken

\* When nothing is under way the user has no more chats than allowed, unless a save was
\* left between its commit and its pruning.
CapHolds ==
  (\A r \in Requests : req[r] = Idle) /\ ~cut => Cardinality(Stored) =< Cap

\* history.py: "saved rows never outlive the access that produced them".
NothingBeyondAccess == leaked = {}

\* ChatConversation.scope: "the tenants whose data it may hold".
ScopeHoldsAll == \A t \in turns : t.chat \in Stored => Covers(conv[t.chat].scope, t.holds)
====
