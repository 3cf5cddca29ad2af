-------------------------------- MODULE SignIn --------------------------------
(***************************************************************************)
(* The gate of the dashboard's API (auth/api.py, auth/tokens.py): one      *)
(* password, a limiter of wrong ones, and a signed cookie that expires.    *)
(* Tokens are self-contained, so the gate keeps no session: cookie is what *)
(* the operator's browser presents, as its expiry, 0 when there is none.   *)
(* Signing and hashing are abstract: a token verifies until it expires,    *)
(* and a password is right or wrong.                                       *)
(***************************************************************************)
EXTENDS Naturals

CONSTANTS MaxAttempts,   \* MAX_FAILED_ATTEMPTS
          Lockout,       \* LOCKOUT_SECONDS, in ticks
          SessionTtl,    \* AuthSettings.session_ttl, in ticks
          MaxTime,       \* bound: clock ticks
          MaxWrong       \* bound: consecutive wrong passwords

ASSUME LimiterAssumption == MaxAttempts \in Nat \ {0} /\ Lockout \in Nat \ {0}
ASSUME TokenAssumption == SessionTtl \in Nat \ {0}

VARIABLES clock,
          limiter,     \* AttemptLimiter: [failures, lockedUntil]
          cookie,
          tolerated    \* history: wrong passwords answered 401 since the last right one

signInVars == <<clock, limiter, cookie, tolerated>>

Clean == [failures |-> 0, lockedUntil |-> 0]

SignInInit == clock = 1 /\ limiter = Clean /\ cookie = 0 /\ tolerated = 0

--------------------------------------------------------------------------------
\* Mutant: only the failure that reaches the limit locks.
LocksOnce ==
  [failures |-> limiter.failures + 1,
   lockedUntil |-> IF limiter.failures + 1 = MaxAttempts THEN clock + Lockout
                   ELSE limiter.lockedUntil]

\* AttemptLimiter.record_failure: enough failures lock, and lock again.
RecordFailure ==
  [failures |-> limiter.failures + 1,
   lockedUntil |-> IF limiter.failures + 1 >= MaxAttempts THEN clock + Lockout
                   ELSE limiter.lockedUntil]

\* AttemptLimiter.locked: an elapsed lock is cleared on the way.
Elapsed(l) == l.lockedUntil # 0 /\ clock >= l.lockedUntil
Locked(l) == l.lockedUntil # 0 /\ ~Elapsed(l)

\* login with a wrong password: counted first, then refused with 429 while
\* locked and with 401 otherwise.
WrongPassword ==
  /\ limiter.failures < MaxWrong
  /\ limiter' = IF Elapsed(RecordFailure) THEN Clean ELSE RecordFailure
  /\ tolerated' = IF Locked(RecordFailure) THEN tolerated ELSE tolerated + 1
  /\ UNCHANGED <<clock, cookie>>

\* login with the right password, which no lock refuses: a fresh cookie.
RightPassword ==
  /\ limiter' = Clean
  /\ tolerated' = 0
  /\ cookie' = clock + SessionTtl
  /\ UNCHANGED clock

\* logout deletes the cookie, with or without a session behind it.
Logout ==
  /\ cookie' = 0
  /\ UNCHANGED <<clock, limiter, tolerated>>

Tick ==
  /\ clock < MaxTime
  /\ clock' = clock + 1
  /\ UNCHANGED <<limiter, cookie, tolerated>>

\* read_token at the gate: a token is valid until it expires, and not at it.
Authenticated == cookie > clock

--------------------------------------------------------------------------------
\* "Guessing is still bounded": between two right passwords fewer than
\* MaxAttempts wrong ones are answered 401, whoever sends them, however they are
\* spread over time and over lockouts; every other one is refused with 429.
GuessesBounded == tolerated < MaxAttempts

\* "The window elapsed; start counting again from clean.": the first wrong
\* password after an elapsed lockout does not lock again.
CleanAfterWindow ==
  [][Elapsed(limiter) => limiter'.lockedUntil \in {0, limiter.lockedUntil}]_signInVars
================================================================================
