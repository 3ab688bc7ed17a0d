-------------------------------- MODULE MCSong --------------------------------
EXTENDS Song
MCOrder == <<10, 6, 0, 1>>
No == [on |-> FALSE, note |-> "none", cmds |-> <<>>]
Cell(note, cmds) == [on |-> TRUE, note |-> note, cmds |-> cmds]
Row(w, p, a, b) ==
  [v \in Voices |-> CASE v = 10 -> w [] v = 6 -> p [] v = 0 -> a [] v = 1 -> b]
Full == Row(No, Cell("on", <<>>), Cell("on", <<<<"0F", 3>>, <<"1A", 0>>>>),
            Cell("hard", <<<<"0F", 4>>>>))
Rest == Row(No, No, Cell("soft", <<>>), No)
Moves(c) == Row(Cell("on", <<c>>), No, Cell("on", <<<<"0F", 5>>>>), No)
MCMods ==
  <<[npos |-> 2, rows |-> 1, loop |-> 1, speed |-> 2,
     cell |-> <<<<Full>>, <<Rest>>>>],
    [npos |-> 2, rows |-> 0, loop |-> 0, speed |-> 1,
     cell |-> <<<<Moves(<<"FC", 1>>), Moves(<<"FB", 0>>)>>,
                <<Moves(<<"FE", 2>>), Moves(<<"FD", 2>>)>>>>]>>
MCDirect == {<<0, 3>>}
===============================================================================
