----------------------------- MODULE PinLimiter ------------------------------
(***************************************************************************)
(* Failed PINs of one client (room and fingerprint) and the block that     *)
(* follows too many of them.  INCR, EXPIRE and SET are separate calls of   *)
(* concurrent requests on any workers, each of which may die in between.   *)
(*                                                                         *)
(*   backend/room_routes.py   _verify_existing_pin                         *)
(*   backend/room_service.py  _assert_not_rate_limited,                    *)
(*                            _record_failed_attempt                       *)
(*   backend/room_store.py    is_pin_blocked, record_failed_pin_attempt    *)
(*   backend/auth.py          PIN_MAX_ATTEMPTS, PIN_ATTEMPT_WINDOW_SECONDS, *)
(*                            PIN_BLOCK_SECONDS                            *)
(*                                                                         *)
(* A step is one Redis call and the local computation up to the next one.  *)
(***************************************************************************)
EXTENDS Integers, FiniteSets

CONSTANTS
  Guessers,      \* handlers that verify a PIN of the same client
  MaxAttempts,   \* PIN_MAX_ATTEMPTS (5)
  Window,        \* PIN_ATTEMPT_WINDOW_SECONDS (300), in periods
  BlockPeriods,  \* PIN_BLOCK_SECONDS (600), in periods
  MaxFaults,     \* bound: requests that die in the middle
  MaxCount       \* bound: failures counted by one attempts key

ASSUME LimiterAssumption ==
  /\ IsFiniteSet(Guessers)
  /\ MaxAttempts \in Nat \ {0}
  /\ Window \in Nat \ {0}
  /\ BlockPeriods \in Nat \ {0}
  /\ Window <= BlockPeriods
  /\ MaxFaults \in Nat
  /\ MaxCount \in Nat

VARIABLES
  count,    \* the attempts key: failures counted, 0 when the key is absent
  window,   \* periods until that key expires
  block,    \* periods until the block key expires, 0 when it is absent
  pc,       \* the requests
  faults,
  quiet,    \* history: whole periods without a call, up to BlockPeriods
  guesses,  \* history: wrong PINs since a block or an expiry of the count
  orphaned  \* history: a request died between INCR and EXPIRE

limiterVars == <<count, window, block, pc, faults, quiet, guesses, orphaned>>

Forever == Window + 1  \* the key has no time to live

States == {"idle", "verify", "expire", "block"}

-----------------------------------------------------------------------------
\* is_pin_blocked; a blocked request is answered at once.
Check(c) ==
  /\ pc[c] = "idle"
  /\ block = 0
  /\ pc' = [pc EXCEPT ![c] = "verify"]
  /\ UNCHANGED <<count, window, block, faults, quiet, guesses, orphaned>>

Accept(c) ==
  /\ pc[c] = "verify"
  /\ pc' = [pc EXCEPT ![c] = "idle"]
  /\ UNCHANGED <<count, window, block, faults, quiet, guesses, orphaned>>

\* Faulty variant of TooMany: one failure more is let through.
OneTooMany(n) == n > MaxAttempts

TooMany(n) == n >= MaxAttempts

\* Faulty variant of StartsWindow: the window is never started.
NeverStarts(n) == n = 0

StartsWindow(n) == n = 1

AfterCount(n) == IF TooMany(n) THEN "block" ELSE "idle"

\* The PIN is wrong: INCR, which keeps the time to live of the key.
Fail(c) ==
  LET n == count + 1
  IN  /\ pc[c] = "verify"
      /\ count < MaxCount
      /\ count' = n
      /\ window' = IF count = 0 THEN Forever ELSE window
      /\ pc' = [pc EXCEPT ![c] = IF StartsWindow(n) THEN "expire" ELSE AfterCount(n)]
      /\ quiet' = 0
      /\ guesses' = guesses + 1
      /\ UNCHANGED <<block, faults, orphaned>>

\* Only the request that counted 1 comes here, and it goes on with that count,
\* whatever others have counted since.  The key cannot have expired.
Expire(c) ==
  /\ pc[c] = "expire"
  /\ window' = Window
  /\ pc' = [pc EXCEPT ![c] = AfterCount(1)]
  /\ quiet' = 0
  /\ UNCHANGED <<count, block, faults, guesses, orphaned>>

Block(c) ==
  /\ pc[c] = "block"
  /\ block' = BlockPeriods
  /\ pc' = [pc EXCEPT ![c] = "idle"]
  /\ quiet' = 0
  /\ guesses' = 0
  /\ UNCHANGED <<count, window, faults, orphaned>>

\* The process dies, or Redis fails the call.
Die(c) ==
  /\ pc[c] # "idle"
  /\ faults < MaxFaults
  /\ faults' = faults + 1
  /\ pc' = [pc EXCEPT ![c] = "idle"]
  /\ orphaned' = (orphaned \/ pc[c] = "expire")
  /\ UNCHANGED <<count, window, block, quiet, guesses>>

Less(n) == IF n = 0 THEN 0 ELSE n - 1

PeriodPasses ==
  /\ window' = IF window = Forever THEN Forever ELSE Less(window)
  /\ count' = IF window' = 0 THEN 0 ELSE count
  /\ guesses' = IF window' = 0 THEN 0 ELSE guesses
  /\ block' = Less(block)
  /\ quiet' = IF quiet < BlockPeriods THEN quiet + 1 ELSE quiet
  /\ UNCHANGED <<pc, faults, orphaned>>

-----------------------------------------------------------------------------
LimiterInit ==
  /\ count = 0
  /\ window = 0
  /\ block = 0
  /\ pc = [c \in Guessers |-> "idle"]
  /\ faults = 0
  /\ quiet = 0
  /\ guesses = 0
  /\ orphaned = FALSE

LimiterNext ==
  \/ \E c \in Guessers :
       Check(c) \/ Accept(c) \/ Fail(c) \/ Expire(c) \/ Block(c) \/ Die(c)
  \/ PeriodPasses

LimiterSpec == LimiterInit /\ [][LimiterNext]_limiterVars

-----------------------------------------------------------------------------
LimiterTypeOK ==
  /\ count \in Nat
  /\ window \in 0..Forever
  /\ block \in 0..BlockPeriods
  /\ pc \in [Guessers -> States]
  /\ faults \in Nat
  /\ quiet \in 0..BlockPeriods
  /\ guesses \in Nat
  /\ orphaned \in BOOLEAN
  /\ count = 0 <=> window = 0

(* Check, count and block are separate calls of concurrent requests, yet     *)
(* between two blocks, or before the count expires, a client gets no more    *)
(* wrong guesses than the limit, one for each other request that was past    *)
(* the check already, and one for each request that died before SET.         *)
GuessesAreBounded ==
  guesses <= MaxAttempts - 1 + Cardinality(Guessers) + faults

Settled == \A c \in Guessers : pc[c] \in {"idle", "verify"}

(* A client that has made no call for a block is not blocked, and one that   *)
(* has made none for a window counts from nothing, with one exception in the *)
(* code: a request that died between INCR and EXPIRE leaves a count that     *)
(* never expires, and no other death, order or expiry does.  From the limit  *)
(* on, each further wrong PIN of that client sets the block again            *)
(* (room_store.py:712-717).                                                  *)
QuietStartsAfresh ==
  Settled =>
    /\ quiet >= BlockPeriods => block = 0
    /\ quiet >= Window /\ ~orphaned => count = 0
    /\ orphaned => count > 0 /\ window = Forever
=============================================================================
