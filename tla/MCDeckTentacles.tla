-------------------------- MODULE MCDeckTentacles --------------------------
\* Instances of DeckTentacles for TLC.
EXTENDS DeckTentacles, TLC

CONSTANTS x1, x2

\* Two exports of one task, reworded by the second and twice in the first; one
\* line that people add.
Words == {<<"a", 0>>, <<"a", 1>>}
Notes == {<<"h", 0>>}
TasksOf == x1 :> <<<<"a", 0>>, <<"a", 1>>>> @@ x2 :> <<<<"a", 1>>>>
=============================================================================
