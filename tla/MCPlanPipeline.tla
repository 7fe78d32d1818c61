--------------------------- MODULE MCPlanPipeline ---------------------------
\* One plan in miniature: three done items, one of which only a finished product
\* passes and one worded like a generic check, and an aim that cites a decision.
EXTENDS PlanPipeline, TLC

CONSTANTS build, ship, suite, aim,   \* texts
          parser, screen,             \* wave items
          web, api                    \* folders

SomeGoals == {[goals |-> <<aim>>, done |-> <<build, ship>>], [goals |-> << >>, done |-> <<suite>>],
              [goals |-> <<build>>, done |-> <<suite, build, ship>>],
              [goals |-> <<aim, build>>, done |-> <<ship, ship>>]}
TextWords == build :> {"parse", "file"} @@ ship :> {"release"} @@ suite :> {"test"}
             @@ aim :> {"show"} @@ parser :> {"parse", "file"} @@ screen :> {"show"}
             @@ 1 :> {"parse", "file"} @@ 2 :> {"show"}
TextCites == build :> {} @@ ship :> {} @@ suite :> {} @@ aim :> {2}
TextTitles == build :> <<"title", 1>> @@ ship :> <<"title", 2>> @@ suite :> <<"title", 1>>
              @@ aim :> <<"title", 3>>
TextMentions == build :> {web} @@ ship :> {} @@ suite :> {api} @@ aim :> {}
                @@ parser :> {} @@ screen :> {api} @@ 1 :> {} @@ 2 :> {}

Unordered == {[id |-> 1, deps |-> {}, waves |-> << >>]}
InWaves == Unordered \cup
  {[id |-> 2, deps |-> {1}, waves |-> <<[number |-> 1, items |-> <<parser>>],
                                        [number |-> 2, items |-> <<screen>>]>>]}
SomeDecisions == {Unordered, InWaves}
SomeDecks == {<< >>, <<[id |-> <<"deck", 0>>, owns |-> {web}]>>,
              <<[id |-> <<"title", 1>>, owns |-> {api}], [id |-> <<"wave", 1>>, owns |-> {web}]>>}

ByClaude(id) == [id |-> id, owns |-> {web}, existing |-> FALSE,
                 todos |-> <<[text |-> build, wave |-> id]>>]
SomeProposals == {<< >>, <<ByClaude(<<"title", 1>>), ByClaude(<<"title", 1>>)>>}
=============================================================================
