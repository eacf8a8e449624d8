------------------------------- MODULE Throttles ------------------------------
(***************************************************************************)
(* The three limiters of the API, each a fixed window that starts with its *)
(* first use: the backoff of failed logins (src/src/api.ts 2735), the      *)
(* throttle records of the store, for imports and for requests             *)
(* (src/src/repositories.ts 495), and the rate limit in memory             *)
(* (src/src/api.ts 2653).  One key of one limiter is modelled; keys do not *)
(* share anything.                                                         *)
(*                                                                         *)
(* A login reads the clock when it checks the lock and again, after the    *)
(* password was hashed, when it records the failure.                       *)
(***************************************************************************)
EXTENDS Integers, FiniteSetsExt

CONSTANTS
  Span,      \* length of a window (windowMs)
  Limit,     \* maxFailedAttempts, limit or maxRequests
  MaxRows,   \* bound on the rows of an import
  Horizon,   \* bound on the clock
  NoWindow

Limiter == {"LOGIN", "STORED", "MEMORY"}
Time == 0..Horizon
\* until is lockedUntil, 0 when there is none
WindowRecord == [start : Time, count : Nat, until : Nat]

ASSUME LimitAssumption == Span \in Nat \ {0} /\ Limit \in Nat \ {0} /\ MaxRows \in Nat /\ Horizon \in Nat
ASSUME NoWindowAssumption == NoWindow \notin WindowRecord

VARIABLES
  limiter,   \* which of the three it is
  now,
  window,    \* the record of the key, or NoWindow
  uses       \* history: failed passwords, or uses let in, by the time they counted

throttleVars == <<limiter, now, window, uses>>

-----------------------------------------------------------------------------
Expired(t) == window = NoWindow \/ t - window.start >= Span
Locked(t) == window # NoWindow /\ window.until > t

\* (mutant) The failures of a window that has ended still count.
FailedAtInOneWindow(t) ==
  LET count == IF window = NoWindow THEN 1 ELSE window.count + 1
  IN  [start |-> IF window = NoWindow THEN t ELSE window.start,
       count |-> count,
       until |-> IF count >= Limit THEN t + Span ELSE 0]

\* recordFailedLoginAttempt at time t.  enforceLoginAttemptBackoff has removed an expired
\* record before, which comes to the same.
FailedAt(t) ==
  LET count == IF Expired(t) THEN 1 ELSE window.count + 1
  IN  [start |-> IF Expired(t) THEN t ELSE window.start,
       count |-> count,
       until |-> IF count >= Limit THEN t + Span ELSE 0]

\* consume: what is left of the window counts, and all the rows or none are let in.
Counted(t) == IF Expired(t) THEN 0 ELSE window.count
StartAt(t) == IF Expired(t) THEN t ELSE window.start

\* (mutant) An import is let in while anything is left.
AdmitsIfAnyLeft(t, rows) == Counted(t) < Limit

Admits(t, rows) == Counted(t) + rows <= Limit

Use(t, rows) == uses' = [uses EXCEPT ![t] = @ + rows]

-----------------------------------------------------------------------------
ThrottleInit ==
  /\ limiter \in Limiter
  /\ now = 0
  /\ window = NoWindow
  /\ uses = [t \in Time |-> 0]

Tick ==
  /\ now < Horizon
  /\ now' = now + 1
  /\ UNCHANGED <<limiter, window, uses>>

\* A wrong password: checked against the lock at `now', recorded at `later'.
FailLogin(later) ==
  /\ limiter = "LOGIN"
  /\ ~Locked(now)
  /\ now' = later
  /\ window' = FailedAt(later)
  /\ Use(later, 1)
  /\ UNCHANGED limiter

\* resetLoginAttemptBackoff; the history begins again
PassLogin ==
  /\ limiter = "LOGIN"
  /\ ~Locked(now)
  /\ window' = NoWindow
  /\ uses' = [t \in Time |-> 0]
  /\ UNCHANGED <<limiter, now>>

\* importThrottles.consume and requestThrottles.consume: refused, nothing is saved.
Consume(rows) ==
  /\ limiter = "STORED"
  /\ Admits(now, rows)
  /\ window' = [start |-> StartAt(now), count |-> Counted(now) + rows, until |-> 0]
  /\ Use(now, rows)
  /\ UNCHANGED <<limiter, now>>

\* enforceRateLimit with its map of buckets
CountRequest ==
  /\ limiter = "MEMORY"
  /\ Counted(now) < Limit
  /\ window' = [start |-> StartAt(now), count |-> Counted(now) + 1, until |-> 0]
  /\ Use(now, 1)
  /\ UNCHANGED <<limiter, now>>

\* The map is lost when the process ends; the records of the store are not.
Restart ==
  /\ limiter = "MEMORY"
  /\ window' = NoWindow
  /\ uses' = [t \in Time |-> 0]
  /\ UNCHANGED <<limiter, now>>

ThrottleNext ==
  \/ Tick
  \/ \E later \in {now, now + 1} \intersect Time : FailLogin(later)
  \/ PassLogin
  \/ \E rows \in 1..MaxRows : Consume(rows)
  \/ CountRequest
  \/ Restart

ThrottleSpec == ThrottleInit /\ [][ThrottleNext]_throttleVars

-----------------------------------------------------------------------------
\* Types of the state.
ThrottleTypeOK ==
  /\ limiter \in Limiter
  /\ now \in Time
  /\ window \in WindowRecord \cup {NoWindow}
  /\ uses \in [Time -> Nat]

-----------------------------------------------------------------------------
\* The uses in the span of time that ends at t.
UsesBefore(t) == MapThenSumSet(LAMBDA i : uses[i], {i \in Time : t - Span < i /\ i <= t})

\* However the uses fall around the end of a window, no stretch of one window's length has
\* more than what two windows allow, the first of them without its first moment.  For
\* logins the last failure of a full window locks the next one out, so it is one less.
\* What was before a right password or a restart does not count.
AtMostTwice ==
  \A t \in Time :
    UsesBefore(t) <= IF limiter = "LOGIN" /\ Limit > 1 THEN 2 * Limit - 2 ELSE 2 * Limit - 1

\* Nobody is locked out who did not fail Limit times since the last right password, within
\* the length of a window: the count starts from the first failure, the lock from the last.
LockedForCause == limiter = "LOGIN" /\ Locked(now) => UsesBefore(window.until - Span) >= Limit
===============================================================================
