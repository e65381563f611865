---------------------------- MODULE LoginThrottle ----------------------------
(***************************************************************************)
(* The throttle of sign-ins (security/throttle.py) as login uses it        *)
(* (api/auth.py): an address is looked up before the awaits of a sign-in,  *)
(* a failure is recorded after them.  Time is counted in ticks.            *)
(***************************************************************************)
EXTENDS Integers, Sequences, FiniteSets, FiniteSetsExt

CONSTANTS
  Attempts,      \* sign-ins that can be in flight together
  Addresses,
  FailureLimit,  \* login_ip_attempts
  Window,        \* login_ip_window_seconds
  MaxKeys,       \* _MAX_KEYS
  Limit,         \* bound on the clock
  MaxSignIns     \* bound on the sign-ins

\* What the proofs ask of the constants.
ConstantsOK == FailureLimit \in Nat \ {0} /\ Window \in Nat \ {0} /\ IsFiniteSet(Attempts)

VARIABLES
  now,
  fails,     \* _fails: a function whose domain is the addresses in it
  attempt,   \* what each sign-in is doing
  signIns,   \* counter, for the bound
  log        \* history: every failure of each address

vars == <<now, fails, attempt, signIns, log>>

Out == [pc |-> "out", address |-> "", until |-> 0, failures |-> 0]

Init ==
  /\ now = 0 /\ fails = <<>> /\ signIns = 0
  /\ attempt = [a \in Attempts |-> Out] /\ log = [x \in Addresses |-> <<>>]

----------------------------------------------------------------------------
\* The while loop of _trim: the failures from the first that is within the window.
Recent(q) ==
  LET old == CHOOSE n \in 0..Len(q) :
               /\ \A i \in 1..n : now - q[i] >= Window
               /\ n < Len(q) => now - q[n + 1] < Window
  IN SubSeq(q, old + 1, Len(q))

\* _trim: an address that was not there gets an empty entry.
Trimmed(x) == IF x \in DOMAIN fails THEN Recent(fails[x]) ELSE <<>>
Without(f, xs) == [x \in DOMAIN f \ xs |-> f[x]]
Entry(f, x, q) == [y \in DOMAIN f \cup {x} |-> IF y = x THEN q ELSE f[y]]

Refused(x) == Len(Trimmed(x)) >= FailureLimit

Wait_OfOldest(x) == LET q == Trimmed(x) IN Max({1, Window - (now - q[1]) + 1})
\* The seconds until fewer than FailureLimit failures are left.
Wait(x) == LET q == Trimmed(x) IN Max({1, Window - (now - q[Len(q) - FailureLimit + 1]) + 1})

\* retry_after: 429 with the wait, or on to the awaits of the sign-in.
Begin(a, x) ==
  /\ attempt[a].pc # "busy"
  /\ signIns < MaxSignIns /\ signIns' = signIns + 1
  /\ fails' = IF Trimmed(x) = <<>> THEN Without(fails, {x}) ELSE Entry(fails, x, Trimmed(x))
  /\ attempt' = [attempt EXCEPT ![a] =
       IF Refused(x) THEN [pc |-> "refused", address |-> x, until |-> now + Wait(x), failures |-> Len(log[x])]
       ELSE [Out EXCEPT !.pc = "busy", !.address = x]]
  /\ UNCHANGED <<now, log>>

Fail_PurgesAny(a) ==
  LET x == attempt[a].address
      kept == IF Cardinality(DOMAIN fails) > MaxKeys THEN <<>> ELSE fails
  IN
  /\ attempt[a].pc = "busy"
  /\ fails' = Entry(kept, x, Append(IF x \in DOMAIN kept THEN Trimmed(x) ELSE <<>>, now))
  /\ log' = [log EXCEPT ![x] = Append(@, now)]
  /\ attempt' = [attempt EXCEPT ![a] = Out]
  /\ UNCHANGED <<now, signIns>>

\* fail: with too many addresses, those without a recent failure are forgotten first.
Fail(a) ==
  LET x == attempt[a].address
      purge == Cardinality(DOMAIN fails) > MaxKeys
      kept == IF purge THEN [y \in {z \in DOMAIN fails : Trimmed(z) # <<>>} |-> Trimmed(y)] ELSE fails
  IN
  /\ attempt[a].pc = "busy"
  /\ fails' = Entry(kept, x, Append(Trimmed(x), now))
  /\ log' = [log EXCEPT ![x] = Append(@, now)]
  /\ attempt' = [attempt EXCEPT ![a] = Out]
  /\ UNCHANGED <<now, signIns>>

\* Signed in; or refused for another reason than the credentials (422, 423).
Leave(a) ==
  /\ attempt[a].pc = "busy" /\ attempt' = [attempt EXCEPT ![a] = Out]
  /\ UNCHANGED <<now, fails, signIns, log>>

Tick == now < Limit /\ now' = now + 1 /\ UNCHANGED <<fails, attempt, signIns, log>>

Next ==
  \/ \E a \in Attempts :
       \/ \E x \in Addresses : Begin(a, x)
       \/ Fail(a) \/ Leave(a)
  \/ Tick

Spec == Init /\ [][Next]_vars

----------------------------------------------------------------------------
\* Sign-ins are slowed down as config.py:33-34 has it, but for those in flight together:
\* an address never has more failures within a window than the limit and the others that
\* were let in with the last one, however many addresses come and go.  And one that was
\* refused is let in after the time it was told, unless it has failed since.
SignInsAreThrottled ==
  /\ \A x \in Addresses : Len(Recent(log[x])) <= FailureLimit - 1 + Cardinality(Attempts)
  /\ \A a \in Attempts : attempt[a].pc = "refused" =>
       LET x == attempt[a].address IN
       now >= attempt[a].until /\ Len(log[x]) = attempt[a].failures => ~Refused(x)
=============================================================================
