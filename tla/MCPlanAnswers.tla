--------------------------- MODULE MCPlanAnswers ---------------------------
\* Two interviews of one repository: the first asks Q1 and Q2, the second Q1.
EXTENDS PlanAnswers, TLC

CONSTANTS s1, s2, z1,               \* questions
          interviewA, interviewB    \* sessions

AskedIn == (s1 :> interviewA) @@ (s2 :> interviewA) @@ (z1 :> interviewB)
IdsOf == (s1 :> 1) @@ (s2 :> 2) @@ (z1 :> 1)

\* One question of each round parked and one not, or one tentative.
TwoRounds == {(s1 :> "parked") @@ (s2 :> "none") @@ (z1 :> "parked"),
              (s1 :> "tentative") @@ (s2 :> "parked") @@ (z1 :> "none")}
=============================================================================
