--------------------------- MODULE MCPlanService ---------------------------
\* The plan of a repository and an interview's turns, which share no state with
\* one another, checked in one run: the initial state picks whose steps are taken.
EXTENDS MCPlanStore, InterviewSession

VARIABLE subject

\* Mutations, and queries, are interchangeable.
ServiceSymmetry == Symmetry \cup Permutations(Query)

ServiceInit ==
  /\ subject \in {"plan", "interview"}
  /\ Init /\ InterviewInit
  /\ subject # "plan" => \A f \in Files : disk[f].text = OneRecord

ServiceNext ==
  \/ subject = "plan" /\ Next /\ UNCHANGED <<subject, interviewVars>>
  \/ subject = "interview" /\ InterviewNext /\ UNCHANGED <<subject, vars>>

ServiceSpec == ServiceInit /\ [][ServiceNext]_<<subject, vars, interviewVars>>
=============================================================================
