-------------------------- MODULE ReceiveChallenges --------------------------
(***************************************************************************)
(* The proof of work asked of an upload to a receive link: a signed        *)
(* challenge that carries the time of its issue. Verify tests the age      *)
(* before it takes the mutex under which it looks for the challenge among  *)
(* the spent ones; a challenge that is too old to pass is forgotten. A     *)
(* restart makes a new secret, so no challenge is good before and after.   *)
(***************************************************************************)
EXTENDS Integers

CONSTANTS
    Challenges,         \* challenges; each is issued once
    Solvers,            \* concurrent request goroutines
    NoChallenge,        \* a goroutine that handles no request
    ChallengeTTL,
    LastSecond          \* bound: the clock stops here

ASSUME ChallengeConstants ==
    /\ NoChallenge \notin Challenges
    /\ ChallengeTTL \in Nat /\ LastSecond \in Nat

VARIABLES
    second,             \* the clock
    mintedAt,           \* [Challenges -> time, or -1]: the time in the challenge
    spent,              \* Manager.used
    solver,             \* [Solvers -> Solver]
    passed,             \* history: challenges an upload went ahead with
    twice,              \* history: challenges two uploads went ahead with
    overdue             \* history: challenges that were too old when they were looked
                        \* for among the spent ones

challengeVars == <<second, mintedAt, spent, solver, passed, twice, overdue>>

Solver == [pc : {"idle", "fresh", "hashing"}, challenge : Challenges \union {NoChallenge}]
NoSolver == [pc |-> "idle", challenge |-> NoChallenge]

ChallengesTypeOK ==
    /\ second \in Nat
    /\ mintedAt \in [Challenges -> Nat \union {-1}]
    /\ spent \subseteq Challenges
    /\ solver \in [Solvers -> Solver]
    /\ \A p \in Solvers : solver[p].pc # "idle" => solver[p].challenge \in Challenges
    /\ passed \subseteq Challenges /\ twice \subseteq Challenges
    /\ overdue \subseteq Challenges

ChallengesInit ==
    /\ second = 0
    /\ mintedAt = [c \in Challenges |-> -1]
    /\ spent = {}
    /\ solver = [p \in Solvers |-> NoSolver]
    /\ passed = {} /\ twice = {} /\ overdue = {}

Age(c) == second - mintedAt[c]

-----------------------------------------------------------------------------
Issue(c) ==
    /\ mintedAt[c] = -1
    /\ mintedAt' = [mintedAt EXCEPT ![c] = second]
    /\ UNCHANGED <<second, spent, solver, passed, twice, overdue>>

\* Verify, up to the mutex: signature, age and difficulty
BeginVerify(p, c) ==
    /\ solver[p] = NoSolver
    /\ mintedAt[c] # -1
    /\ Age(c) <= ChallengeTTL
    /\ solver' = [solver EXCEPT ![p] = [pc |-> "fresh", challenge |-> c]]
    /\ UNCHANGED <<second, mintedAt, spent, passed, twice, overdue>>

\* ErrReplay, or the challenge is spent, whether the solution is right or not
Spend(p) ==
    LET c == solver[p].challenge
    IN  /\ solver[p].pc = "fresh"
        /\ overdue' = IF Age(c) > ChallengeTTL THEN overdue \union {c} ELSE overdue
        /\ IF c \in spent
           THEN solver' = [solver EXCEPT ![p] = NoSolver] /\ UNCHANGED spent
           ELSE solver' = [solver EXCEPT ![p].pc = "hashing"] /\ spent' = spent \union {c}
        /\ UNCHANGED <<second, mintedAt, passed, twice>>

\* The solution solves the challenge or not
CheckSolution(p, solved) ==
    LET c == solver[p].challenge
    IN  /\ solver[p].pc = "hashing"
        /\ passed' = IF solved THEN passed \union {c} ELSE passed
        /\ twice' = IF solved THEN twice \union ({c} \intersect passed) ELSE twice
        /\ solver' = [solver EXCEPT ![p] = NoSolver]
        /\ UNCHANGED <<second, mintedAt, spent, overdue>>

\* mutant: forgotten in the last second in which it passes
Overage_Early == {c \in spent : Age(c) >= ChallengeTTL}

Overage == {c \in spent : Age(c) > ChallengeTTL}

\* cleanupLoop
ForgetSpent ==
    /\ Overage # {}
    /\ spent' = spent \ Overage
    /\ UNCHANGED <<second, mintedAt, solver, passed, twice, overdue>>

NextSecond ==
    /\ second < LastSecond
    /\ second' = second + 1
    /\ UNCHANGED <<mintedAt, spent, solver, passed, twice, overdue>>

-----------------------------------------------------------------------------
ChallengesNext ==
    \/ \E c \in Challenges : Issue(c)
    \/ \E p \in Solvers :
        \/ \E c \in Challenges : BeginVerify(p, c)
        \/ Spend(p)
        \/ \E solved \in BOOLEAN : CheckSolution(p, solved)
    \/ ForgetSpent
    \/ NextSecond

ChallengesSpec == ChallengesInit /\ [][ChallengesNext]_challengeVars

-----------------------------------------------------------------------------
(* What it guarantees *)

\* No challenge pays for two uploads, also when it is verified in the very second
\* it runs out: except one that had passed the test of its age in time and had run
\* out by the time it was looked for among the spent ones.
ChallengePaysOnce == twice \subseteq overdue
=============================================================================
