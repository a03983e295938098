---------------------------- MODULE LimitsProofs ----------------------------
(***************************************************************************)
(* How far a client gets: the wrong passwords that are compared at the     *)
(* same time, for any number of requests, the requests of a stretch of     *)
(* time, for any limit and window, and the proof of work, for any number   *)
(* of challenges and uploads.                                              *)
(***************************************************************************)
EXTENDS RateLimits, ReceiveChallenges, SumTheorems, TLAPS

-----------------------------------------------------------------------------
(* Wrong passwords. While the window runs, the failures counted and the    *)
(* comparisons under way, each of which may become one, are together what  *)
(* the last request that was let in left room for.                         *)

Comparing == {g \in Guessers : guesser[g] = "comparing"}
MostGuesses == MaxGuesses + Cardinality(Guessers) - 1

GuessInv ==
    /\ minute \in Nat /\ wrong \in Entry
    /\ guesser \in [Guessers -> {"idle", "comparing"}]
    /\ wrong.count <= MostGuesses
    /\ ~GuessWindowOver => wrong.count + Cardinality(Comparing) <= MostGuesses

LEMMA GuesserCounts ==
    /\ Cardinality(Guessers) \in Nat /\ MostGuesses \in Nat
    /\ Cardinality(Comparing) \in Nat /\ Cardinality(Comparing) <= Cardinality(Guessers)
<1>1. IsFiniteSet(Guessers) /\ Comparing \subseteq Guessers
  BY LimiterConstants DEF Comparing
<1>2. Cardinality(Guessers) \in Nat
  BY <1>1, FS_CardinalityType
<1>3. Cardinality(Comparing) \in Nat /\ Cardinality(Comparing) <= Cardinality(Guessers)
  BY <1>1, FS_Subset, FS_CardinalityType
<1>4. MostGuesses \in Nat
  BY <1>2, LimiterConstants DEF MostGuesses
<1> QED
  BY <1>2, <1>3, <1>4

\* A comparison that ends leaves one fewer under way.
LEMMA FewerComparing ==
    ASSUME GuessInv, NEW g \in Guessers, guesser[g] = "comparing",
           guesser' = [guesser EXCEPT ![g] = "idle"]
    PROVE  /\ Cardinality(Comparing') = Cardinality(Comparing) - 1
           /\ guesser' \in [Guessers -> {"idle", "comparing"}]
<1>1. IsFiniteSet(Comparing)
  BY LimiterConstants, FS_Subset DEF Comparing
<1>2. g \in Comparing /\ Comparing' = Comparing \ {g}
  BY DEF Comparing, GuessInv
<1>3. Cardinality(Comparing \ {g}) = Cardinality(Comparing) - 1
  BY <1>1, <1>2, FS_RemoveElement
<1>4. guesser' \in [Guessers -> {"idle", "comparing"}]
  BY DEF GuessInv
<1> QED
  BY <1>2, <1>3, <1>4

LEMMA BeginGuessStep ==
    ASSUME GuessInv, NEW g \in Guessers, BeginGuess(g)
    PROVE  GuessInv'
<1>1. /\ UNCHANGED <<minute, wrong>> /\ guesser' = [guesser EXCEPT ![g] = "comparing"]
      /\ ~GuessWindowOver => wrong.count < MaxGuesses
      /\ minute \in Nat /\ wrong.count \in Nat
  BY LimiterConstants DEF BeginGuess, IsBlocked, GuessInv, Entry
<1>2. guesser' \in [Guessers -> {"idle", "comparing"}]
  BY <1>1 DEF GuessInv
<1>3. /\ Cardinality(Guessers) \in Nat
      /\ Cardinality(Comparing') \in Nat /\ Cardinality(Comparing') <= Cardinality(Guessers)
  <2>1. IsFiniteSet(Guessers) /\ Comparing' \subseteq Guessers
    BY LimiterConstants DEF Comparing
  <2> QED
    BY <2>1, FS_Subset, FS_CardinalityType
<1>4. GuessWindowOver' = GuessWindowOver
  BY <1>1 DEF GuessWindowOver
<1>5. wrong.count < MaxGuesses => wrong.count + Cardinality(Comparing') <= MostGuesses
  BY <1>1, <1>3, LimiterConstants DEF MostGuesses
<1>6. wrong' = wrong /\ MostGuesses' = MostGuesses
  BY <1>1 DEF MostGuesses
<1> QED
  BY <1>1, <1>2, <1>4, <1>5, <1>6 DEF GuessInv

LEMMA EndGuessStep ==
    ASSUME GuessInv, NEW g \in Guessers, RecordFailure(g) \/ ResetAttempts(g)
    PROVE  GuessInv'
<1>1. /\ guesser[g] = "comparing" /\ guesser' = [guesser EXCEPT ![g] = "idle"]
      /\ minute' = minute /\ minute \in Nat
  BY DEF RecordFailure, ResetAttempts, EndGuess, GuessInv
<1>2. /\ Cardinality(Comparing') = Cardinality(Comparing) - 1
      /\ guesser' \in [Guessers -> {"idle", "comparing"}]
  BY <1>1, FewerComparing
<1>3. wrong.count \in Nat /\ wrong.at \in Nat /\ MostGuesses' = MostGuesses
  BY DEF GuessInv, Entry, MostGuesses
<1>4. CASE ResetAttempts(g)
  <2>1. wrong' = NoEntry /\ NoEntry \in Entry /\ NoEntry.count = 0
    BY <1>4 DEF ResetAttempts, EndGuess, NoEntry, Entry
  <2>2. GuessWindowOver'
    BY <2>1 DEF GuessWindowOver
  <2> QED
    BY <1>1, <1>2, <1>3, <2>1, <2>2, GuesserCounts DEF GuessInv
<1>5. CASE RecordFailure(g)
  <2> DEFINE n == IF GuessWindowOver THEN 1 ELSE wrong.count + 1
  <2>1. wrong' = [count |-> n, at |-> minute]
    BY <1>5 DEF RecordFailure, EndGuess
  <2>2. n \in Nat
    BY <1>3
  <2>3. n + (Cardinality(Comparing) - 1) <= MostGuesses
    <3>1. CASE GuessWindowOver
      BY <3>1, GuesserCounts, LimiterConstants DEF MostGuesses
    <3>2. CASE ~GuessWindowOver
      BY <1>3, <3>2, GuesserCounts DEF GuessInv
    <3> QED
      BY <3>1, <3>2
  <2>4. Cardinality(Comparing) - 1 >= 0
    <3>1. IsFiniteSet(Comparing) /\ g \in Comparing
      BY <1>1, LimiterConstants, FS_Subset DEF Comparing
    <3>2. Cardinality(Comparing) # 0
      BY <3>1, FS_EmptySet
    <3> QED
      BY <3>2, GuesserCounts
  <2> HIDE DEF n
  <2>5. wrong' \in Entry /\ wrong'.count = n
    BY <1>1, <2>1, <2>2 DEF Entry
  <2>6. n <= MostGuesses
    BY <2>2, <2>3, <2>4, GuesserCounts
  <2> QED
    BY <1>1, <1>2, <1>3, <2>3, <2>5, <2>6 DEF GuessInv
<1> QED
  BY <1>4, <1>5

LEMMA GuessesKept ==
    ASSUME GuessInv, [LimitsNext]_limiterVars
    PROVE  GuessInv'
<1>1. MostGuesses' = MostGuesses /\ wrong.count \in Nat /\ wrong.at \in Nat /\ minute \in Nat
  BY DEF MostGuesses, GuessInv, Entry
<1>2. CASE UNCHANGED <<minute, wrong, guesser>>
  BY <1>1, <1>2 DEF GuessInv, GuessWindowOver, Comparing
<1>3. CASE CleanupGuesses
  <2>1. wrong' = NoEntry \/ wrong' = wrong
    BY <1>3 DEF CleanupGuesses
  <2>2. UNCHANGED <<minute, guesser>>
    BY <1>3 DEF CleanupGuesses
  <2>3. NoEntry \in Entry /\ NoEntry.count = 0 /\ Comparing' = Comparing
    BY <2>2 DEF NoEntry, Entry, Comparing
  <2>4. CASE wrong' = wrong
    BY <1>2, <2>2, <2>4
  <2>5. CASE wrong' = NoEntry
    <3>1. GuessWindowOver'
      BY <2>3, <2>5 DEF GuessWindowOver
    <3> QED
      BY <1>1, <2>2, <2>3, <2>5, <3>1, GuesserCounts DEF GuessInv
  <2> QED
    BY <2>1, <2>4, <2>5
<1>4. CASE NextMinute
  <2>1. minute' = minute + 1 /\ UNCHANGED <<wrong, guesser>>
    BY <1>4 DEF NextMinute
  <2>2. Comparing' = Comparing /\ minute' \in Nat
    BY <1>1, <2>1 DEF Comparing
  <2>3. GuessWindowOver => GuessWindowOver'
    BY <1>1, <2>1, LimiterConstants DEF GuessWindowOver
  <2> QED
    BY <1>1, <2>1, <2>2, <2>3 DEF GuessInv
<1>5. CASE LimitsNext
  <2>1. ASSUME NEW k \in Keys, NewWindow(k) \/ SameWindow(k)
        PROVE  UNCHANGED <<minute, wrong, guesser>>
    BY <2>1 DEF NewWindow, SameWindow, LetThrough
  <2>2. CleanupAttempts => UNCHANGED <<minute, wrong, guesser>>
    BY DEF CleanupAttempts
  <2> QED
    BY <1>2, <1>3, <1>4, <1>5, <2>1, <2>2, BeginGuessStep, EndGuessStep DEF LimitsNext
<1> QED
  BY <1>2, <1>5 DEF limiterVars

\* Wrong passwords compared at the same time overshoot the limit by no more than the
\* other requests, for any number of requests and any order of theirs.
THEOREM OvershootIsBounded == LimitsSpec => []GuessesBounded
<1>1. LimitsInit => GuessInv
  <2> SUFFICES ASSUME LimitsInit PROVE GuessInv
    OBVIOUS
  <2>1. wrong \in Entry /\ wrong.count = 0 /\ GuessWindowOver
    BY DEF LimitsInit, NoEntry, Entry, GuessWindowOver
  <2> QED
    BY <2>1, GuesserCounts DEF LimitsInit, GuessInv
<1>2. GuessInv /\ [LimitsNext]_limiterVars => GuessInv'
  BY GuessesKept
<1>3. GuessInv => GuessesBounded
  BY DEF GuessInv, GuessesBounded, MostGuesses
<1> QED
  BY <1>1, <1>2, <1>3, PTL DEF LimitsSpec

-----------------------------------------------------------------------------
(* Challenges. One that was never looked for too late is being hashed by   *)
(* at most one request, and not after it has passed; until it is too old   *)
(* to pass it is remembered.                                               *)

Hashing(p, c) == solver[p].pc = "hashing" /\ solver[p].challenge = c
TooOld(c) == Age(c) > ChallengeTTL

ChallengeInv(c) ==
    /\ mintedAt[c] = -1 => c \notin passed /\ \A p \in Solvers : solver[p].challenge # c
    /\ c \notin overdue =>
        /\ c \notin twice
        /\ \A p, q \in Solvers : Hashing(p, c) /\ Hashing(q, c) => p = q
        /\ c \in passed => \A p \in Solvers : ~Hashing(p, c)
        /\ c \in passed \/ (\E p \in Solvers : Hashing(p, c)) => c \in spent \/ TooOld(c)

ChallengesInv == ChallengesTypeOK /\ \A c \in Challenges : ChallengeInv(c)

\* A request moves, and what it is told stays the same or is one more challenge.
LEMMA SolverMoves ==
    ASSUME ChallengesInv, NEW p \in Solvers, NEW s \in Solver,
           solver' = [solver EXCEPT ![p] = s],
           s.pc # "idle" => s.challenge \in Challenges
    PROVE  /\ solver' \in [Solvers -> Solver] /\ solver'[p] = s
           /\ \A q \in Solvers \ {p} : solver'[q] = solver[q]
           /\ \A q \in Solvers : solver'[q].pc # "idle" => solver'[q].challenge \in Challenges
  BY DEF ChallengesInv, ChallengesTypeOK

LEMMA NoSolverTyped == NoSolver \in Solver /\ NoSolver.pc = "idle" /\ NoSolver.challenge = NoChallenge
  BY DEF NoSolver, Solver

LEMMA BeginVerifyStep ==
    ASSUME ChallengesInv, NEW p \in Solvers, NEW c \in Challenges, BeginVerify(p, c)
    PROVE  ChallengesInv'
<1> DEFINE s == [pc |-> "fresh", challenge |-> c]
<1>1. s \in Solver /\ s.pc = "fresh" /\ s.challenge = c /\ solver' = [solver EXCEPT ![p] = s]
  BY DEF BeginVerify, Solver
<1> HIDE DEF s
<1>2. /\ solver' \in [Solvers -> Solver] /\ solver'[p] = s
      /\ \A q \in Solvers \ {p} : solver'[q] = solver[q]
      /\ \A q \in Solvers : solver'[q].pc # "idle" => solver'[q].challenge \in Challenges
  BY <1>1, SolverMoves
<1>3. mintedAt[c] # -1 /\ UNCHANGED <<second, mintedAt, spent, passed, twice, overdue>>
  BY DEF BeginVerify
<1>4. \A q \in Solvers, d \in Challenges : Hashing(q, d)' => Hashing(q, d)
  BY <1>1, <1>2 DEF Hashing
<1>5. ASSUME NEW d \in Challenges PROVE ChallengeInv(d)'
  <2>1. ChallengeInv(d)
    BY DEF ChallengesInv
  <2>2. TooOld(d)' = TooOld(d)
    BY <1>3 DEF TooOld, Age
  <2>3. mintedAt'[d] = -1 => \A q \in Solvers : solver'[q].challenge # d
    BY <1>1, <1>2, <1>3, <2>1 DEF ChallengeInv
  <2> QED
    BY <1>3, <1>4, <2>1, <2>2, <2>3 DEF ChallengeInv
<1> QED
  BY <1>2, <1>3, <1>5 DEF ChallengesInv, ChallengesTypeOK

LEMMA SpendStep ==
    ASSUME ChallengesInv, NEW p \in Solvers, Spend(p)
    PROVE  ChallengesInv'
<1> USE NoSolverTyped, ChallengeConstants
<1>1. PICK c \in Challenges :
        /\ c = solver[p].challenge /\ solver[p].pc = "fresh" /\ solver[p] \in Solver
        /\ overdue' = IF TooOld(c) THEN overdue \union {c} ELSE overdue
        /\ UNCHANGED <<second, mintedAt, passed, twice>>
  BY DEF Spend, ChallengesInv, ChallengesTypeOK, TooOld
<1>2. overdue \subseteq overdue' /\ overdue' \subseteq Challenges
      /\ (c \notin overdue' => ~TooOld(c))
  BY <1>1 DEF ChallengesInv, ChallengesTypeOK
<1>3. \A d : TooOld(d)' = TooOld(d)
  BY <1>1 DEF TooOld, Age
<1>4. CASE c \in spent
  <2>1. solver' = [solver EXCEPT ![p] = NoSolver] /\ spent' = spent
    BY <1>1, <1>4 DEF Spend
  <2>2. /\ solver' \in [Solvers -> Solver] /\ solver'[p] = NoSolver
        /\ \A q \in Solvers \ {p} : solver'[q] = solver[q]
        /\ \A q \in Solvers : solver'[q].pc # "idle" => solver'[q].challenge \in Challenges
    BY <2>1, SolverMoves
  <2>3. \A q \in Solvers, d \in Challenges : Hashing(q, d)' => Hashing(q, d)
    BY <2>2 DEF Hashing
  <2>4. ASSUME NEW d \in Challenges PROVE ChallengeInv(d)'
    <3>1. ChallengeInv(d)
      BY DEF ChallengesInv
    <3>2. mintedAt'[d] = -1 => \A q \in Solvers : solver'[q].challenge # d
      BY <1>1, <2>2, <3>1 DEF ChallengeInv
    <3> QED
      BY <1>1, <1>2, <1>3, <2>1, <2>3, <3>1, <3>2 DEF ChallengeInv
  <2> QED
    BY <1>1, <1>2, <2>1, <2>2, <2>4 DEF ChallengesInv, ChallengesTypeOK
<1>5. CASE c \notin spent
  <2> DEFINE s == [solver[p] EXCEPT !.pc = "hashing"]
  <2>1. solver' = [solver EXCEPT ![p] = s] /\ spent' = spent \union {c}
    BY <1>1, <1>5 DEF Spend, ChallengesInv, ChallengesTypeOK
  <2>2. s \in Solver /\ s.pc = "hashing" /\ s.challenge = c
    BY <1>1 DEF Solver
  <2> HIDE DEF s
  <2>3. /\ solver' \in [Solvers -> Solver] /\ solver'[p] = s
        /\ \A q \in Solvers \ {p} : solver'[q] = solver[q]
        /\ \A q \in Solvers : solver'[q].pc # "idle" => solver'[q].challenge \in Challenges
    BY <1>1, <2>1, <2>2, SolverMoves
  <2>4. ASSUME NEW d \in Challenges \ {c} PROVE ChallengeInv(d)'
    <3>1. ChallengeInv(d)
      BY DEF ChallengesInv
    <3>2. mintedAt'[d] = -1 => \A q \in Solvers : solver'[q].challenge # d
      BY <1>1, <2>2, <2>3, <3>1 DEF ChallengeInv
    <3>3. \A q \in Solvers : Hashing(q, d)' => Hashing(q, d)
      BY <2>2, <2>3 DEF Hashing
    <3>4. d \notin overdue' => d \notin overdue
      BY <1>2
    <3>5. spent \subseteq spent'
      BY <2>1
    <3> QED
      BY <1>1, <1>3, <3>1, <3>2, <3>3, <3>4, <3>5 DEF ChallengeInv
  <2>5. ChallengeInv(c)'
    <3>1. ChallengeInv(c)
      BY <1>1 DEF ChallengesInv
    <3>2. mintedAt'[c] # -1
      BY <1>1, <3>1 DEF ChallengeInv
    <3>3. SUFFICES ASSUME c \notin overdue'
                   PROVE  /\ c \notin twice
                          /\ \A x, y \in Solvers : Hashing(x, c)' /\ Hashing(y, c)' => x = y
                          /\ c \notin passed /\ c \in spent'
      BY <1>1, <3>2 DEF ChallengeInv, Hashing
    <3>4. c \notin passed /\ c \notin twice /\ \A q \in Solvers : ~Hashing(q, c)
      BY <1>2, <1>5, <3>1, <3>3 DEF ChallengeInv
    <3>5. \A x \in Solvers : Hashing(x, c)' => x = p
      BY <1>1, <2>3, <3>4 DEF Hashing
    <3> QED
      BY <2>1, <3>4, <3>5
  <2>6. spent' \subseteq Challenges
    BY <1>1, <2>1 DEF ChallengesInv, ChallengesTypeOK
  <2>7. \A d \in Challenges : ChallengeInv(d)'
    BY <2>4, <2>5
  <2> QED
    BY <1>1, <1>2, <2>3, <2>6, <2>7 DEF ChallengesInv, ChallengesTypeOK
<1> QED
  BY <1>4, <1>5

LEMMA CheckSolutionStep ==
    ASSUME ChallengesInv, NEW p \in Solvers, NEW solved \in BOOLEAN, CheckSolution(p, solved)
    PROVE  ChallengesInv'
<1> USE NoSolverTyped, ChallengeConstants
<1> DEFINE c == solver[p].challenge
<1>1. /\ c \in Challenges /\ Hashing(p, c)
      /\ UNCHANGED <<second, mintedAt, spent, overdue>>
      /\ passed \subseteq passed' /\ passed' \subseteq passed \union {c}
      /\ twice' \subseteq twice \union ({c} \intersect passed)
      /\ solver' = [solver EXCEPT ![p] = NoSolver]
  BY DEF CheckSolution, ChallengesInv, ChallengesTypeOK, Hashing
<1>2. /\ solver' \in [Solvers -> Solver] /\ solver'[p] = NoSolver
      /\ \A q \in Solvers \ {p} : solver'[q] = solver[q]
      /\ \A q \in Solvers : solver'[q].pc # "idle" => solver'[q].challenge \in Challenges
  BY <1>1, SolverMoves
<1>3. \A q \in Solvers, d \in Challenges : Hashing(q, d)' => Hashing(q, d) /\ q # p
  BY <1>2 DEF Hashing
<1>4. \A d : TooOld(d)' = TooOld(d)
  BY <1>1 DEF TooOld, Age
<1> HIDE DEF c
<1>5. ASSUME NEW d \in Challenges PROVE ChallengeInv(d)'
  <2>1. ChallengeInv(d)
    BY DEF ChallengesInv
  <2>2. mintedAt'[d] = -1 => d \notin passed' /\ \A q \in Solvers : solver'[q].challenge # d
    <3>1. mintedAt[c] # -1
      BY <1>1 DEF ChallengesInv, ChallengeInv, Hashing
    <3> QED
      BY <1>1, <1>2, <2>1, <3>1 DEF ChallengeInv
  <2>3. ASSUME d \notin overdue'
        PROVE  /\ d \notin twice'
               /\ \A x, y \in Solvers : Hashing(x, d)' /\ Hashing(y, d)' => x = y
               /\ d \in passed' => \A q \in Solvers : ~Hashing(q, d)'
               /\ d \in passed' \/ (\E q \in Solvers : Hashing(q, d)') => d \in spent' \/ TooOld(d)'
    <3>1. d \notin overdue
      BY <1>1, <2>3
    <3>2. CASE d # c
      BY <1>1, <1>3, <1>4, <2>1, <3>1, <3>2 DEF ChallengeInv
    <3>3. CASE d = c
      <4>1. d \notin passed /\ d \notin twice
        BY <1>1, <2>1, <3>1, <3>3 DEF ChallengeInv
      <4>2. \A q \in Solvers : ~Hashing(q, d)'
        BY <1>1, <1>3, <2>1, <3>1, <3>3 DEF ChallengeInv
      <4>3. d \in spent \/ TooOld(d)
        BY <1>1, <2>1, <3>1, <3>3 DEF ChallengeInv
      <4> QED
        BY <1>1, <1>4, <4>1, <4>2, <4>3
    <3> QED
      BY <3>2, <3>3
  <2> QED
    BY <2>2, <2>3 DEF ChallengeInv
<1> QED
  BY <1>1, <1>2, <1>5 DEF ChallengesInv, ChallengesTypeOK

\* Challenges are issued, forgotten, and grow old.
LEMMA ChallengesAge ==
    ASSUME ChallengesInv, (\E c \in Challenges : Issue(c)) \/ ForgetSpent \/ NextSecond
    PROVE  ChallengesInv'
<1> USE ChallengeConstants
<1>1. /\ second \in Nat /\ mintedAt \in [Challenges -> Nat \union {-1}]
      /\ UNCHANGED <<solver, passed, twice, overdue>>
  BY DEF Issue, ForgetSpent, NextSecond, ChallengesInv, ChallengesTypeOK
<1>2. \A q, d : Hashing(q, d)' = Hashing(q, d)
  BY <1>1 DEF Hashing
<1>3. ASSUME NEW c \in Challenges, Issue(c) PROVE ChallengesInv'
  <2>1. /\ mintedAt[c] = -1 /\ mintedAt' = [mintedAt EXCEPT ![c] = second]
        /\ UNCHANGED <<second, spent>>
    BY <1>3 DEF Issue
  <2>2. mintedAt' \in [Challenges -> Nat \union {-1}]
    BY <1>1, <2>1
  <2>3. ASSUME NEW d \in Challenges PROVE ChallengeInv(d)'
    <3>1. ChallengeInv(d)
      BY DEF ChallengesInv
    <3>2. CASE d # c
      <4>1. mintedAt'[d] = mintedAt[d] /\ TooOld(d)' = TooOld(d)
        BY <1>1, <2>1, <3>2 DEF TooOld, Age
      <4> QED
        BY <1>1, <1>2, <2>1, <3>1, <4>1 DEF ChallengeInv
    <3>3. CASE d = c
      <4>1. c \notin passed /\ \A q \in Solvers : ~Hashing(q, c)
        BY <2>1, <3>1, <3>3 DEF ChallengeInv, Hashing
      <4>2. mintedAt'[c] # -1
        BY <1>1, <2>1
      <4> QED
        BY <1>1, <1>2, <3>1, <3>3, <4>1, <4>2 DEF ChallengeInv
    <3> QED
      BY <3>2, <3>3
  <2> QED
    BY <1>1, <2>1, <2>2, <2>3 DEF ChallengesInv, ChallengesTypeOK
<1>4. CASE ForgetSpent
  <2>1. spent' = spent \ Overage /\ UNCHANGED <<second, mintedAt>>
    BY <1>4 DEF ForgetSpent
  <2>2. ASSUME NEW d \in Challenges PROVE ChallengeInv(d)'
    <3>1. ChallengeInv(d)
      BY DEF ChallengesInv
    <3>2. TooOld(d)' = TooOld(d) /\ (d \in spent => d \in spent' \/ TooOld(d))
      BY <2>1 DEF TooOld, Age, Overage
    <3> QED
      BY <1>1, <1>2, <2>1, <3>1, <3>2 DEF ChallengeInv
  <2> QED
    BY <1>1, <2>1, <2>2 DEF ChallengesInv, ChallengesTypeOK
<1>5. CASE NextSecond
  <2>1. second' = second + 1 /\ UNCHANGED <<mintedAt, spent>>
    BY <1>5 DEF NextSecond
  <2>2. ASSUME NEW d \in Challenges PROVE ChallengeInv(d)'
    <3>1. ChallengeInv(d)
      BY DEF ChallengesInv
    <3>2. mintedAt[d] \in Int
      BY <1>1
    <3>3. TooOld(d) => TooOld(d)'
      BY <1>1, <2>1, <3>2 DEF TooOld, Age
    <3> QED
      BY <1>1, <1>2, <2>1, <3>1, <3>3 DEF ChallengeInv
  <2> QED
    BY <1>1, <2>1, <2>2 DEF ChallengesInv, ChallengesTypeOK
<1> QED
  BY <1>3, <1>4, <1>5

LEMMA ChallengesKept ==
    ASSUME ChallengesInv, [ChallengesNext]_challengeVars
    PROVE  ChallengesInv'
<1>1. CASE ChallengesNext
  BY <1>1, BeginVerifyStep, SpendStep, CheckSolutionStep, ChallengesAge DEF ChallengesNext
<1>2. CASE UNCHANGED challengeVars
  BY <1>2 DEF challengeVars, ChallengesInv, ChallengesTypeOK, ChallengeInv, Hashing, TooOld, Age
<1> QED
  BY <1>1, <1>2

LEMMA ChallengesInitially == ChallengesInit => ChallengesInv
<1> SUFFICES ASSUME ChallengesInit PROVE ChallengesInv
  OBVIOUS
<1>1. \A p \in Solvers : solver[p] = NoSolver
  BY DEF ChallengesInit
<1>2. ChallengesTypeOK
  BY <1>1, NoSolverTyped DEF ChallengesInit, ChallengesTypeOK
<1>3. \A c \in Challenges, p \in Solvers : ~Hashing(p, c) /\ solver[p].challenge # c
  BY <1>1, NoSolverTyped, ChallengeConstants DEF Hashing
<1>4. \A c \in Challenges : ChallengeInv(c)
  BY <1>3 DEF ChallengesInit, ChallengeInv
<1> QED
  BY <1>2, <1>4 DEF ChallengesInv

\* No challenge pays for two uploads, for any number of requests that bring it, but
\* for one whose age was tested in time and that was looked for too late.
THEOREM WorkPaysOnce == ChallengesSpec => []ChallengePaysOnce
<1>1. ChallengesInit => ChallengesInv
  BY ChallengesInitially
<1>2. ChallengesInv /\ [ChallengesNext]_challengeVars => ChallengesInv'
  BY ChallengesKept
<1>3. ChallengesInv => ChallengePaysOnce
  BY DEF ChallengesInv, ChallengesTypeOK, ChallengeInv, ChallengePaysOnce
<1> QED
  BY <1>1, <1>2, <1>3, PTL DEF ChallengesSpec
-----------------------------------------------------------------------------
(* The fixed window. What was let through since the window began is what the *)
(* entry counts; with as much again before it, no stretch as long as the     *)
(* window holds more than two windows' worth. When the window is over, the   *)
(* entry may be forgotten: the last stretch holds at most one.               *)

Since(a) == {u \in Minutes : u >= a}
Recent(k, a) == SumFunctionOnSet(allowed[k], Since(a))

WindowInv(k) ==
    /\ \A u \in Minutes : u > minute => allowed[k][u] = 0
    /\ WindowOver(k) => /\ allowed[k][minute] = 0
                        /\ Recent(k, minute - WindowLength) <= Limit
    /\ ~WindowOver(k) =>
          LET start == attempts[k].at - WindowLength
          IN  /\ start <= minute /\ attempts[k].count <= Limit
              /\ Recent(k, start) <= attempts[k].count
              /\ Recent(k, start - WindowLength) <= Limit + attempts[k].count

Stretch(t) == {u \in Minutes : u \in t..(t + WindowLength)}
StretchInv(k) ==
    \A t \in Minutes : SumFunctionOnSet(allowed[k], Stretch(t)) <= 2 * Limit

RateInv == \A k \in Keys : WindowInv(k) /\ StretchInv(k)

LEMMA MinutesAreFinite ==
    /\ IsFiniteSet(Minutes) /\ Minutes \subseteq Nat
    /\ \A a : IsFiniteSet(Since(a)) /\ Since(a) \subseteq Minutes
    /\ \A t : IsFiniteSet(Stretch(t)) /\ Stretch(t) \subseteq Minutes
<1>1. IsFiniteSet(Minutes) /\ Minutes \subseteq Nat
  BY LimiterConstants, FS_Interval DEF Minutes
<1>2. \A a : Since(a) \subseteq Minutes
  BY DEF Since
<1>3. \A t : Stretch(t) \subseteq Minutes
  BY DEF Stretch
<1> QED
  BY <1>1, <1>2, <1>3, FS_Subset

LEMMA RecentIsNat ==
    ASSUME LimitsTypeOK, NEW k \in Keys, NEW a
    PROVE  Recent(k, a) \in Nat
<1>1. \A u \in Since(a) : allowed[k][u] \in Nat
  BY MinutesAreFinite DEF LimitsTypeOK
<1> QED
  BY <1>1, MinutesAreFinite, SumIsNat DEF Recent

\* A later start counts less.
LEMMA RecentFalls ==
    ASSUME LimitsTypeOK, NEW k \in Keys, NEW a \in Int, NEW b \in Int, a <= b
    PROVE  Recent(k, b) <= Recent(k, a)
<1>1. Since(b) \subseteq Since(a)
  <2> SUFFICES ASSUME NEW u \in Minutes, u >= b PROVE u >= a
    BY DEF Since
  <2>1. u \in Nat
    BY MinutesAreFinite
  <2> QED
    BY <2>1
<1>2. \A u \in Since(a) : allowed[k][u] \in Nat
  BY MinutesAreFinite DEF LimitsTypeOK
<1>3. \A u \in Since(b) : allowed[k][u] <= allowed[k][u]
  BY <1>1, <1>2
<1> QED
  BY <1>1, <1>2, <1>3, MinutesAreFinite, SumOfFewer DEF Recent

\* No stretch holds more than what was let through since it began.
LEMMA StretchIsRecent ==
    ASSUME LimitsTypeOK, NEW k \in Keys, NEW t \in Minutes
    PROVE  SumFunctionOnSet(allowed[k], Stretch(t)) <= Recent(k, t)
<1>1. Stretch(t) \subseteq Since(t)
  BY MinutesAreFinite, LimiterConstants DEF Since, Stretch
<1>2. \A u \in Since(t) : allowed[k][u] \in Nat
  BY MinutesAreFinite DEF LimitsTypeOK
<1>3. \A u \in Stretch(t) : allowed[k][u] <= allowed[k][u]
  BY <1>1, <1>2
<1> QED
  BY <1>1, <1>2, <1>3, MinutesAreFinite, SumOfFewer DEF Recent

\* What one request that is let through adds.
LEMMA RecentRises ==
    ASSUME LimitsTypeOK, NEW k \in Keys,
           allowed' = [allowed EXCEPT ![k][minute] = @ + 1]
    PROVE  /\ \A a \in Int : a <= minute => Recent(k, a)' = Recent(k, a) + 1
           /\ allowed' \in [Keys -> [Minutes -> Nat]]
           /\ \A u \in Minutes \ {minute} : allowed'[k][u] = allowed[k][u]
           /\ allowed'[k][minute] = allowed[k][minute] + 1
           /\ \A j \in Keys \ {k} : allowed'[j] = allowed[j]
<1>1. /\ minute \in Minutes /\ allowed \in [Keys -> [Minutes -> Nat]]
  BY DEF LimitsTypeOK
<1>2. allowed[k] \in [Minutes -> Nat] /\ allowed'[k] = [allowed[k] EXCEPT ![minute] = @ + 1]
  BY <1>1
<1>3. /\ \A u \in Minutes \ {minute} : allowed'[k][u] = allowed[k][u]
      /\ allowed'[k][minute] = allowed[k][minute] + 1
      /\ allowed'[k] \in [Minutes -> Nat]
  BY <1>1, <1>2
<1>4. allowed' \in [Keys -> [Minutes -> Nat]] /\ \A j \in Keys \ {k} : allowed'[j] = allowed[j]
  BY <1>1, <1>3
<1>5. ASSUME NEW a \in Int, a <= minute PROVE Recent(k, a)' = Recent(k, a) + 1
  <2>1. minute \in Since(a) /\ IsFiniteSet(Since(a)) /\ Since(a) \subseteq Minutes
    BY <1>1, <1>5, MinutesAreFinite DEF Since
  <2>2. \A u \in Since(a) : allowed[k][u] \in Int /\ allowed'[k][u] \in Int
    BY <1>2, <1>3, <2>1
  <2>3. \A u \in Since(a) \ {minute} : allowed[k][u] = allowed'[k][u]
    BY <1>3, <2>1
  <2>4. SumFunctionOnSet(allowed'[k], Since(a))
          = SumFunctionOnSet(allowed[k], Since(a)) - allowed[k][minute] + allowed'[k][minute]
    <3> DEFINE S == Since(a)  f == allowed[k]  g == allowed'[k]  m == minute
    <3>1. /\ IsFiniteSet(S) /\ m \in S
          /\ \A u \in S : f[u] \in Int /\ g[u] \in Int
          /\ \A u \in S \ {m} : f[u] = g[u]
      BY <2>1, <2>2, <2>3
    <3> HIDE DEF S, f, g, m
    <3>2. SumFunctionOnSet(g, S) = SumFunctionOnSet(f, S) - f[m] + g[m]
      BY <3>1, SumChanges
    <3> QED
      BY <3>2 DEF S, f, g, m
  <2>5. SumFunctionOnSet(allowed[k], Since(a)) \in Int /\ allowed[k][minute] \in Int
    BY <2>1, <2>2, SumIsInt
  <2>6. SumFunctionOnSet(allowed'[k], Since(a)) = SumFunctionOnSet(allowed[k], Since(a)) + 1
    BY <1>3, <2>4, <2>5
  <2> QED
    BY <2>6 DEF Recent, Since, Minutes
<1> QED
  BY <1>3, <1>4, <1>5

\* A key that lets nothing through keeps its part of the invariant.
LEMMA OtherKeys ==
    ASSUME NEW k \in Keys, WindowInv(k), StretchInv(k), UNCHANGED minute,
           allowed'[k] = allowed[k], attempts'[k] = attempts[k]
    PROVE  WindowInv(k)' /\ StretchInv(k)'
<1>1. \A a : Recent(k, a)' = Recent(k, a)
  BY DEF Recent, Since, Minutes
<1>2. WindowOver(k)' = WindowOver(k)
  BY DEF WindowOver
<1>3. WindowInv(k)'
  BY <1>1, <1>2 DEF WindowInv, Minutes
<1> QED
  BY <1>3 DEF StretchInv, Stretch, Minutes

\* One more is let through, and what was let through in the last stretch was less
\* than two windows' worth.
LEMMA StretchStep ==
    ASSUME LimitsTypeOK, NEW k \in Keys, StretchInv(k),
           allowed' = [allowed EXCEPT ![k][minute] = @ + 1],
           Recent(k, minute - WindowLength) < 2 * Limit
    PROVE  StretchInv(k)'
<1> DEFINE S(t) == SumFunctionOnSet(allowed[k], Stretch(t))
<1>0. /\ minute \in Minutes /\ minute \in Nat /\ Minutes \subseteq Nat
      /\ WindowLength \in Nat /\ Limit \in Nat
  BY MinutesAreFinite, LimiterConstants DEF LimitsTypeOK
<1>1. /\ allowed' \in [Keys -> [Minutes -> Nat]]
      /\ \A u \in Minutes \ {minute} : allowed'[k][u] = allowed[k][u]
      /\ allowed'[k][minute] = allowed[k][minute] + 1
  BY RecentRises
<1>2. ASSUME NEW t \in Minutes
      PROVE  SumFunctionOnSet(allowed'[k], Stretch(t)) <= 2 * Limit
  <2>0. /\ IsFiniteSet(Stretch(t)) /\ Stretch(t) \subseteq Minutes
        /\ \A u \in Stretch(t) : allowed[k][u] \in Int /\ allowed'[k][u] \in Int
        /\ \A u \in Stretch(t) : allowed[k][u] \in Nat
    <3>1. IsFiniteSet(Stretch(t)) /\ Stretch(t) \subseteq Minutes
      BY MinutesAreFinite
    <3>2. \A u \in Minutes : allowed[k][u] \in Nat /\ allowed'[k][u] \in Nat
      BY <1>1 DEF LimitsTypeOK
    <3> QED
      BY <3>1, <3>2
  <2>00. S(t) <= 2 * Limit /\ S(t) \in Nat
    BY <2>0, SumIsNat DEF StretchInv
  <2>1. CASE minute \notin Stretch(t)
    <3>1. \A u \in Stretch(t) : allowed'[k][u] = allowed[k][u]
      BY <1>1, <2>0, <2>1
    <3>2. SumFunctionOnSet(allowed'[k], Stretch(t)) = S(t)
      <4> DEFINE R == Stretch(t)  f == allowed[k]  g == allowed'[k]
      <4>1. IsFiniteSet(R) /\ \A u \in R : g[u] = f[u]
        BY <2>0, <3>1
      <4> HIDE DEF R, f, g
      <4>2. SumFunctionOnSet(g, R) = SumFunctionOnSet(f, R)
        BY <4>1, SumOfSame
      <4> QED
        BY <4>2 DEF R, f, g
    <3> QED
      BY <2>00, <3>2
  <2>2. CASE minute \in Stretch(t)
    <3>1. \A u \in Stretch(t) \ {minute} : allowed[k][u] = allowed'[k][u]
      BY <1>1, <2>0
    <3>2. SumFunctionOnSet(allowed'[k], Stretch(t))
            = S(t) - allowed[k][minute] + allowed'[k][minute]
      <4> DEFINE R == Stretch(t)  f == allowed[k]  g == allowed'[k]  m == minute
      <4>1. /\ IsFiniteSet(R) /\ m \in R
            /\ \A u \in R : f[u] \in Int /\ g[u] \in Int
            /\ \A u \in R \ {m} : f[u] = g[u]
        BY <2>0, <2>2, <3>1
      <4> HIDE DEF R, f, g, m
      <4>2. SumFunctionOnSet(g, R) = SumFunctionOnSet(f, R) - f[m] + g[m]
        BY <4>1, SumChanges
      <4> QED
        BY <4>2 DEF R, f, g, m
    <3>3. allowed[k][minute] \in Int /\ allowed'[k][minute] = allowed[k][minute] + 1
      BY <1>1, <2>0, <2>2
    <3>4. SumFunctionOnSet(allowed'[k], Stretch(t)) = S(t) + 1
      BY <2>00, <3>2, <3>3
    <3>5. minute <= t + WindowLength
      BY <1>0, <2>2 DEF Stretch
    <3>6. S(t) <= Recent(k, t)
      BY StretchIsRecent
    <3>7. Recent(k, t) <= Recent(k, minute - WindowLength)
      <4>1. minute - WindowLength <= t /\ minute - WindowLength \in Int /\ t \in Int
        BY <1>0, <3>5
      <4> QED
        BY <4>1, RecentFalls
    <3>8. Recent(k, t) \in Nat /\ Recent(k, minute - WindowLength) \in Nat
      BY RecentIsNat
    <3> HIDE DEF S
    <3>9. S(t) < 2 * Limit
      BY <1>0, <2>00, <3>6, <3>7, <3>8
    <3> QED
      BY <1>0, <2>00, <3>4, <3>9
  <2> QED
    BY <2>1, <2>2
<1> QED
  BY <1>2 DEF StretchInv, Stretch, Minutes

LEMMA NewWindowStep ==
    ASSUME LimitsTypeOK, NEW k \in Keys, WindowInv(k), StretchInv(k), NewWindow(k)
    PROVE  WindowInv(k)' /\ StretchInv(k)'
<1>0. /\ minute \in Nat /\ minute \in Minutes /\ Minutes \subseteq Nat
      /\ WindowLength \in Nat /\ Limit \in Nat /\ Limit >= 1
  BY MinutesAreFinite, LimiterConstants DEF LimitsTypeOK
<1>1. /\ WindowOver(k) /\ UNCHANGED minute
      /\ allowed' = [allowed EXCEPT ![k][minute] = @ + 1]
      /\ attempts'[k] = [count |-> 1, at |-> minute + WindowLength]
  BY DEF NewWindow, LetThrough, LimitsTypeOK
<1>2. allowed[k][minute] = 0 /\ Recent(k, minute - WindowLength) <= Limit
  BY <1>1 DEF WindowInv
<1>3. Recent(k, minute - WindowLength) \in Nat
  BY RecentIsNat
<1>4. StretchInv(k)'
  <2>1. Recent(k, minute - WindowLength) < 2 * Limit
    BY <1>0, <1>2, <1>3
  <2> QED
    BY <1>1, <2>1, StretchStep
<1>5. \A u \in Minutes : u > minute => allowed'[k][u] = 0
  BY <1>0, <1>1, RecentRises DEF WindowInv
<1>6. ~WindowOver(k)'
  BY <1>0, <1>1 DEF WindowOver
<1>7. Recent(k, minute - WindowLength)' = Recent(k, minute - WindowLength) + 1
  <2>1. \A a \in Int : a <= minute => Recent(k, a)' = Recent(k, a) + 1
    BY <1>1, RecentRises
  <2>2. PICK a \in Int : a = minute - WindowLength /\ a <= minute
    BY <1>0
  <2> QED
    BY <1>1, <2>1, <2>2
<1>8. Recent(k, minute)' = 1
  <2>1. Recent(k, minute) = 0
    <3>1. \A u \in Since(minute) : allowed[k][u] = 0
      <4> SUFFICES ASSUME NEW u \in Minutes, u >= minute PROVE allowed[k][u] = 0
        BY DEF Since
      <4>1. u \in Nat /\ (u = minute \/ u > minute)
        BY <1>0
      <4> QED
        BY <1>2, <4>1 DEF WindowInv
    <3> QED
      BY <3>1, MinutesAreFinite, SumOfZeros DEF Recent
  <2>2. \A a \in Int : a <= minute => Recent(k, a)' = Recent(k, a) + 1
    BY <1>1, RecentRises
  <2>3. PICK a \in Int : a = minute /\ a <= minute
    BY <1>0
  <2> QED
    BY <1>1, <2>1, <2>2, <2>3
<1>9. attempts'[k].at - WindowLength = minute /\ attempts'[k].count = 1
  BY <1>0, <1>1
<1>10. WindowInv(k)'
  BY <1>0, <1>1, <1>2, <1>3, <1>5, <1>6, <1>7, <1>8, <1>9 DEF WindowInv, Minutes
<1> QED
  BY <1>4, <1>10

LEMMA SameWindowStep ==
    ASSUME LimitsTypeOK, NEW k \in Keys, WindowInv(k), StretchInv(k), SameWindow(k)
    PROVE  WindowInv(k)' /\ StretchInv(k)'
<1>0. /\ minute \in Nat /\ minute \in Minutes /\ Minutes \subseteq Nat
      /\ WindowLength \in Nat /\ Limit \in Nat /\ attempts[k] \in Entry
  BY MinutesAreFinite, LimiterConstants DEF LimitsTypeOK
<1>1. /\ ~WindowOver(k) /\ UNCHANGED minute /\ attempts[k].count < Limit
      /\ allowed' = [allowed EXCEPT ![k][minute] = @ + 1]
      /\ attempts'[k] = [attempts[k] EXCEPT !.count = @ + 1]
  BY DEF SameWindow, LetThrough, LimitsTypeOK
<1>2. PICK start \in Int, n \in Nat :
         /\ start = attempts[k].at - WindowLength /\ n = attempts[k].count
         /\ attempts'[k].at = attempts[k].at /\ attempts'[k].count = n + 1
  BY <1>0, <1>1 DEF Entry
<1>3. /\ start <= minute /\ n < Limit
      /\ Recent(k, start) <= n /\ Recent(k, start - WindowLength) <= Limit + n
  BY <1>1, <1>2 DEF WindowInv
<1>4. PICK before \in Int : before = start - WindowLength /\ before <= minute
                            /\ before <= minute - WindowLength
  BY <1>0, <1>2, <1>3
<1>5. Recent(k, start) \in Nat /\ Recent(k, before) \in Nat
      /\ Recent(k, minute - WindowLength) \in Nat
  BY RecentIsNat
<1>6. StretchInv(k)'
  <2>1. Recent(k, minute - WindowLength) <= Recent(k, before)
    <3>1. minute - WindowLength \in Int
      BY <1>0
    <3> QED
      BY <1>4, <3>1, RecentFalls
  <2>2. Recent(k, minute - WindowLength) < 2 * Limit
    BY <1>0, <1>2, <1>3, <1>4, <1>5, <2>1
  <2> QED
    BY <1>1, <2>2, StretchStep
<1>7. \A a \in Int : a <= minute => Recent(k, a)' = Recent(k, a) + 1
  BY <1>1, RecentRises
<1>8. Recent(k, start)' = Recent(k, start) + 1 /\ Recent(k, before)' = Recent(k, before) + 1
  BY <1>2, <1>3, <1>4, <1>7
<1>9. \A u \in Minutes : u > minute => allowed'[k][u] = 0
  BY <1>0, <1>1, RecentRises DEF WindowInv
<1>10. ~WindowOver(k)'
  BY <1>0, <1>1, <1>2 DEF WindowOver
<1>11. WindowInv(k)'
  <2>1. /\ Recent(k, start)' <= n + 1 /\ Recent(k, before)' <= Limit + (n + 1)
        /\ n + 1 <= Limit
    BY <1>0, <1>2, <1>3, <1>4, <1>5, <1>8
  <2>2. attempts'[k].at - WindowLength = start
    BY <1>2
  <2> QED
    BY <1>1, <1>2, <1>3, <1>4, <1>9, <1>10, <2>1, <2>2 DEF WindowInv, Minutes
<1> QED
  BY <1>6, <1>11

LEMMA CleanupStep ==
    ASSUME LimitsTypeOK, NEW k \in Keys, WindowInv(k), StretchInv(k), CleanupAttempts
    PROVE  WindowInv(k)' /\ StretchInv(k)'
<1>1. /\ UNCHANGED <<minute, allowed>>
      /\ attempts'[k] = IF k \in Forgotten THEN NoEntry ELSE attempts[k]
  BY DEF CleanupAttempts
<1>2. CASE k \notin Forgotten
  BY <1>1, <1>2, OtherKeys
<1>3. CASE k \in Forgotten
  <2>1. WindowOver(k) /\ WindowOver(k)'
    BY <1>1, <1>3 DEF Forgotten, WindowOver, NoEntry
  <2>2. \A a : Recent(k, a)' = Recent(k, a)
    BY <1>1 DEF Recent, Since, Minutes
  <2>3. StretchInv(k)'
    BY <1>1 DEF StretchInv, Stretch, Minutes
  <2> QED
    BY <1>1, <2>1, <2>2, <2>3 DEF WindowInv, Minutes
<1> QED
  BY <1>2, <1>3

LEMMA NextMinuteStep ==
    ASSUME LimitsTypeOK, NEW k \in Keys, WindowInv(k), StretchInv(k), NextMinute
    PROVE  WindowInv(k)' /\ StretchInv(k)'
<1>0. /\ minute \in Nat /\ minute + 1 \in Minutes /\ Minutes \subseteq Nat
      /\ WindowLength \in Nat /\ Limit \in Nat
      /\ attempts[k].count \in Nat /\ attempts[k].at \in Nat
  BY LimiterConstants DEF LimitsTypeOK, NextMinute, Minutes, Entry
<1>1. minute' = minute + 1 /\ UNCHANGED <<attempts, allowed>>
  BY DEF NextMinute
<1>2. \A a : Recent(k, a)' = Recent(k, a)
  BY <1>1 DEF Recent, Since, Minutes
<1>3. StretchInv(k)'
  BY <1>1 DEF StretchInv, Stretch, Minutes
<1>4. \A u \in Minutes : u > minute + 1 => allowed[k][u] = 0
  BY <1>0 DEF WindowInv
<1>5. allowed[k][minute + 1] = 0
  BY <1>0 DEF WindowInv
<1>6. PICK a \in Int, b \in Int : a = minute - WindowLength /\ b = minute + 1 - WindowLength
                                  /\ a <= b
  BY <1>0
<1>7. Recent(k, a) \in Nat /\ Recent(k, b) \in Nat /\ Recent(k, b) <= Recent(k, a)
  BY <1>6, RecentIsNat, RecentFalls
<1>8. CASE WindowOver(k)
  <2>1. WindowOver(k)' /\ Recent(k, a) <= Limit
    BY <1>0, <1>1, <1>6, <1>8 DEF WindowOver, WindowInv
  <2>2. Recent(k, b) <= Limit
    BY <1>0, <1>7, <2>1
  <2>3. Recent(k, b)' <= Limit
    BY <1>2, <2>2
  <2>4. allowed'[k][minute'] = 0 /\ \A u \in Minutes : u > minute' => allowed'[k][u] = 0
    BY <1>1, <1>4, <1>5
  <2>5. b = minute' - WindowLength
    BY <1>0, <1>1, <1>6
  <2> QED
    BY <1>3, <2>1, <2>3, <2>4, <2>5 DEF WindowInv, Recent, Since, Minutes
<1>9. CASE ~WindowOver(k)
  <2>1. PICK start \in Int : start = attempts[k].at - WindowLength
    BY <1>0
  <2>2. /\ start <= minute /\ attempts[k].count <= Limit
        /\ Recent(k, start) <= attempts[k].count
        /\ Recent(k, start - WindowLength) <= Limit + attempts[k].count
    BY <1>9, <2>1 DEF WindowInv
  <2>3. CASE ~WindowOver(k)'
    <3>1. start <= minute + 1
      BY <1>0, <2>2
    <3> QED
      BY <1>1, <1>2, <1>3, <1>4, <2>1, <2>2, <2>3, <3>1 DEF WindowInv, Minutes
  <2>4. CASE WindowOver(k)'
    <3>1. start <= b
      BY <1>0, <1>1, <1>6, <1>9, <2>1, <2>4 DEF WindowOver
    <3>2. Recent(k, start) \in Nat /\ Recent(k, b) <= Recent(k, start)
      BY <3>1, RecentIsNat, RecentFalls
    <3>3. Recent(k, b) <= Limit
      BY <1>0, <1>7, <2>2, <3>2
    <3>4. Recent(k, b)' <= Limit
      BY <1>2, <3>3
    <3>5. allowed'[k][minute'] = 0 /\ \A u \in Minutes : u > minute' => allowed'[k][u] = 0
      BY <1>1, <1>4, <1>5
    <3>6. b = minute' - WindowLength
      BY <1>0, <1>1, <1>6
    <3> QED
      BY <1>3, <2>4, <3>4, <3>5, <3>6 DEF WindowInv, Recent, Since, Minutes
  <2> QED
    BY <2>3, <2>4
<1> QED
  BY <1>8, <1>9

LEMMA TypesStep ==
    ASSUME LimitsTypeOK, [LimitsNext]_limiterVars
    PROVE  LimitsTypeOK'
<1>0. /\ minute \in Minutes /\ minute \in Nat
      /\ attempts \in [Keys -> Entry] /\ wrong \in Entry
      /\ guesser \in [Guessers -> {"idle", "comparing"}]
      /\ allowed \in [Keys -> [Minutes -> Nat]]
      /\ NoEntry \in Entry /\ WindowLength \in Nat
  BY LimiterConstants DEF LimitsTypeOK, Minutes, NoEntry, Entry
<1>1. ASSUME NEW k \in Keys, NEW entry \in Entry, LetThrough(k, entry) PROVE LimitsTypeOK'
  <2>1. allowed' \in [Keys -> [Minutes -> Nat]]
    BY <1>1, RecentRises DEF LetThrough
  <2>2. attempts' \in [Keys -> Entry]
    BY <1>0, <1>1 DEF LetThrough
  <2> QED
    BY <1>0, <1>1, <2>1, <2>2 DEF LetThrough, LimitsTypeOK, Minutes
<1>2. ASSUME NEW k \in Keys, NewWindow(k) \/ SameWindow(k) PROVE LimitsTypeOK'
  <2>1. [count |-> 1, at |-> minute + WindowLength] \in Entry
    BY <1>0 DEF Entry
  <2>2. [attempts[k] EXCEPT !.count = @ + 1] \in Entry
    BY <1>0 DEF Entry
  <2> QED
    BY <1>1, <1>2, <2>1, <2>2 DEF NewWindow, SameWindow
<1>3. CASE CleanupAttempts
  BY <1>0, <1>3 DEF CleanupAttempts, LimitsTypeOK, Minutes
<1>4. ASSUME NEW g \in Guessers, BeginGuess(g) PROVE LimitsTypeOK'
  BY <1>0, <1>4 DEF BeginGuess, LimitsTypeOK, Minutes
<1>5. ASSUME NEW g \in Guessers, RecordFailure(g) \/ ResetAttempts(g) PROVE LimitsTypeOK'
  <2>1. /\ UNCHANGED <<minute, attempts, allowed>>
        /\ guesser' = [guesser EXCEPT ![g] = "idle"]
    BY <1>5 DEF RecordFailure, ResetAttempts, EndGuess
  <2>2. wrong' \in Entry
    BY <1>0, <1>5 DEF RecordFailure, ResetAttempts, EndGuess, Entry
  <2> QED
    BY <1>0, <2>1, <2>2 DEF LimitsTypeOK, Minutes
<1>6. CASE CleanupGuesses
  BY <1>0, <1>6 DEF CleanupGuesses, LimitsTypeOK, Minutes
<1>7. CASE NextMinute
  <2>1. minute' \in Minutes
    BY <1>0, <1>7, LimiterConstants DEF NextMinute, Minutes
  <2> QED
    BY <1>0, <1>7, <2>1 DEF NextMinute, LimitsTypeOK, Minutes
<1>8. CASE UNCHANGED limiterVars
  BY <1>0, <1>8 DEF limiterVars, LimitsTypeOK, Minutes
<1> QED
  BY <1>2, <1>3, <1>4, <1>5, <1>6, <1>7, <1>8 DEF LimitsNext

LEMMA TypesInitially == LimitsInit => LimitsTypeOK
<1> SUFFICES ASSUME LimitsInit PROVE LimitsTypeOK
  OBVIOUS
<1>1. 0 \in Minutes /\ NoEntry \in Entry
  BY LimiterConstants DEF Minutes, NoEntry, Entry
<1> QED
  BY <1>1 DEF LimitsInit, LimitsTypeOK

LEMMA RateStep ==
    ASSUME LimitsTypeOK, RateInv, [LimitsNext]_limiterVars
    PROVE  RateInv'
<1> SUFFICES ASSUME NEW k \in Keys PROVE WindowInv(k)' /\ StretchInv(k)'
  BY DEF RateInv
<1>0. WindowInv(k) /\ StretchInv(k)
  BY DEF RateInv
<1>1. ASSUME NEW j \in Keys, NewWindow(j) \/ SameWindow(j)
      PROVE  WindowInv(k)' /\ StretchInv(k)'
  <2>1. CASE j = k
    BY <1>0, <1>1, <2>1, NewWindowStep, SameWindowStep
  <2>2. CASE j # k
    <3>1. PICK entry : LetThrough(j, entry)
      BY <1>1 DEF NewWindow, SameWindow
    <3>2. /\ UNCHANGED minute /\ attempts'[k] = attempts[k]
          /\ allowed' = [allowed EXCEPT ![j][minute] = @ + 1]
      BY <2>2, <3>1 DEF LetThrough, LimitsTypeOK
    <3>3. allowed'[k] = allowed[k]
      BY <2>2, <3>2, RecentRises
    <3> QED
      BY <1>0, <3>2, <3>3, OtherKeys
  <2> QED
    BY <2>1, <2>2
<1>2. ASSUME UNCHANGED <<minute, allowed, attempts>>
      PROVE  WindowInv(k)' /\ StretchInv(k)'
  BY <1>0, <1>2, OtherKeys
<1>3. ASSUME \/ \E g \in Guessers : BeginGuess(g) \/ RecordFailure(g) \/ ResetAttempts(g)
             \/ CleanupGuesses \/ UNCHANGED limiterVars
      PROVE  UNCHANGED <<minute, allowed, attempts>>
  BY <1>3 DEF BeginGuess, RecordFailure, ResetAttempts, EndGuess, CleanupGuesses, limiterVars
<1> QED
  BY <1>0, <1>1, <1>2, <1>3, CleanupStep, NextMinuteStep DEF LimitsNext

\* No stretch of time as long as a window sees more than two windows' worth, for any
\* number of keys, any limit and any window: the windows of a key never overlap, and
\* the clean-up forgets only what no longer counts.
THEOREM RateIsHeld == LimitsSpec => []RateHeld
<1>1. LimitsInit => LimitsTypeOK /\ RateInv
  <2> SUFFICES ASSUME LimitsInit, NEW k \in Keys PROVE WindowInv(k) /\ StretchInv(k)
    BY TypesInitially DEF RateInv
  <2>1. /\ \A u \in Minutes : allowed[k][u] = 0
        /\ attempts[k] = NoEntry /\ minute = 0 /\ minute \in Minutes
        /\ Limit \in Nat
    BY LimiterConstants DEF LimitsInit, Minutes
  <2>2. \A a : Recent(k, a) = 0
    BY <2>1, MinutesAreFinite, SumOfZeros DEF Recent
  <2>3. \A t : SumFunctionOnSet(allowed[k], Stretch(t)) = 0
    BY <2>1, MinutesAreFinite, SumOfZeros
  <2>4. WindowOver(k)
    BY <2>1 DEF WindowOver, NoEntry
  <2>5. WindowInv(k)
    BY <2>1, <2>2, <2>4 DEF WindowInv
  <2> QED
    BY <2>1, <2>3, <2>5 DEF StretchInv
<1>2. LimitsTypeOK /\ RateInv /\ [LimitsNext]_limiterVars => (LimitsTypeOK /\ RateInv)'
  BY TypesStep, RateStep
<1>3. RateInv => RateHeld
  <2> SUFFICES ASSUME RateInv, NEW k \in Keys, NEW t \in Minutes
               PROVE  MapThenSumSet(LAMBDA u : allowed[k][u], Stretch(t)) <= 2 * Limit
    BY DEF RateHeld, Stretch
  <2>1. MapThenSumSet(LAMBDA u : allowed[k][u], Stretch(t))
          = SumFunctionOnSet(allowed[k], Stretch(t))
    BY SumOfValues
  <2> QED
    BY <2>1 DEF RateInv, StretchInv
<1> QED
  BY <1>1, <1>2, <1>3, PTL DEF LimitsSpec
=============================================================================
