----------------------------- MODULE RateLimits -----------------------------
(***************************************************************************)
(* Two ways to slow a client down. The fixed-window limiter counts what it *)
(* lets through: logins and uploads to receive links per address, new      *)
(* accounts per identity provider. The password limiter of a share counts  *)
(* wrong passwords per share and address; it asks before the password is   *)
(* compared and counts after, so concurrent requests overshoot.            *)
(*                                                                         *)
(* Every operation is one critical section of the limiter's mutex. Entries *)
(* of different keys share nothing but the map, and the clean-up.          *)
(***************************************************************************)
EXTENDS Integers, FiniteSets, FiniteSetsExt

CONSTANTS
    Keys,               \* addresses, or identity providers
    Limit,              \* what a key has per window
    WindowLength,
    Guessers,           \* requests with a password for one share, from one address
    MaxGuesses,         \* sharePasswordMaxAttempts
    GuessWindow,        \* sharePasswordWindow
    LastMinute          \* bound: the clock stops here

ASSUME LimiterConstants ==
    /\ Limit \in Nat \ {0} /\ WindowLength \in Nat
    /\ IsFiniteSet(Guessers)
    /\ MaxGuesses \in Nat \ {0} /\ GuessWindow \in Nat
    /\ LastMinute \in Nat

VARIABLES
    minute,             \* the clock
    attempts,           \* [Keys -> Entry]: the limiter's map
    wrong,              \* the Entry of the share and the address; lastFail is at
    guesser,            \* [Guessers -> {"idle", "comparing"}]
    allowed             \* history: [Keys -> [minute -> how many were let through]]

limiterVars == <<minute, attempts, wrong, guesser, allowed>>

\* count = 0: there is no entry. at: when the window ends, or the last failure was
Entry == [count : Nat, at : Nat]
NoEntry == [count |-> 0, at |-> 0]
Minutes == 0..LastMinute

LimitsTypeOK ==
    /\ minute \in Minutes
    /\ attempts \in [Keys -> Entry] /\ wrong \in Entry
    /\ guesser \in [Guessers -> {"idle", "comparing"}]
    /\ allowed \in [Keys -> [Minutes -> Nat]]

LimitsInit ==
    /\ minute = 0
    /\ attempts = [k \in Keys |-> NoEntry] /\ wrong = NoEntry
    /\ guesser = [g \in Guessers |-> "idle"]
    /\ allowed = [k \in Keys |-> [t \in Minutes |-> 0]]

-----------------------------------------------------------------------------
(* The fixed window *)

WindowOver(k) == attempts[k].count = 0 \/ minute > attempts[k].at

LetThrough(k, entry) ==
    /\ attempts' = [attempts EXCEPT ![k] = entry]
    /\ allowed' = [allowed EXCEPT ![k][minute] = @ + 1]
    /\ UNCHANGED <<minute, wrong, guesser>>

NewWindow(k) ==
    /\ WindowOver(k)
    /\ LetThrough(k, [count |-> 1, at |-> minute + WindowLength])

SameWindow(k) ==
    /\ ~WindowOver(k)
    /\ attempts[k].count < Limit
    /\ LetThrough(k, [attempts[k] EXCEPT !.count = @ + 1])

\* mutant: the clean-up forgets what was let through up to now
Forgotten_Running == {k \in Keys : minute >= attempts[k].at - WindowLength}

Forgotten == {k \in Keys : minute > attempts[k].at}

CleanupAttempts ==
    /\ attempts' = [k \in Keys |-> IF k \in Forgotten THEN NoEntry ELSE attempts[k]]
    /\ UNCHANGED <<minute, wrong, guesser, allowed>>

-----------------------------------------------------------------------------
(* Wrong passwords for a share *)

GuessWindowOver == wrong.count = 0 \/ minute - wrong.at > GuessWindow

\* mutant: one failure too late
IsBlocked_Late == ~GuessWindowOver /\ wrong.count > MaxGuesses

IsBlocked == ~GuessWindowOver /\ wrong.count >= MaxGuesses

BeginGuess(g) ==
    /\ guesser[g] = "idle"
    /\ ~IsBlocked
    /\ guesser' = [guesser EXCEPT ![g] = "comparing"]
    /\ UNCHANGED <<minute, attempts, wrong, allowed>>

EndGuess(g, entry) ==
    /\ guesser[g] = "comparing"
    /\ guesser' = [guesser EXCEPT ![g] = "idle"]
    /\ wrong' = entry
    /\ UNCHANGED <<minute, attempts, allowed>>

RecordFailure(g) ==
    EndGuess(g, [count |-> IF GuessWindowOver THEN 1 ELSE wrong.count + 1, at |-> minute])

ResetAttempts(g) == EndGuess(g, NoEntry)

CleanupGuesses ==
    /\ wrong' = IF GuessWindowOver THEN NoEntry ELSE wrong
    /\ UNCHANGED <<minute, attempts, guesser, allowed>>

NextMinute ==
    /\ minute < LastMinute
    /\ minute' = minute + 1
    /\ UNCHANGED <<attempts, wrong, guesser, allowed>>

-----------------------------------------------------------------------------
LimitsNext ==
    \/ \E k \in Keys : NewWindow(k) \/ SameWindow(k)
    \/ CleanupAttempts
    \/ \E g \in Guessers : BeginGuess(g) \/ RecordFailure(g) \/ ResetAttempts(g)
    \/ CleanupGuesses
    \/ NextMinute

LimitsSpec == LimitsInit /\ [][LimitsNext]_limiterVars

-----------------------------------------------------------------------------
(* What it guarantees *)

\* In no stretch of time of the length of a window are more than two windows' worth
\* let through: the windows follow one another, and the clean-up never ends one
\* early.
RateHeld ==
    \A k \in Keys, t \in Minutes :
        MapThenSumSet(LAMBDA u : allowed[k][u], {u \in Minutes : u \in t..(t + WindowLength)})
            <= 2 * Limit

\* Wrong passwords that are compared at the same time overshoot the limit, but by
\* no more than the other requests under way.
GuessesBounded == wrong.count <= MaxGuesses + Cardinality(Guessers) - 1
=============================================================================
