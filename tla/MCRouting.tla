------------------------------ MODULE MCRouting ------------------------------
(* Paths and query strings of one or two characters, the special ones among *)
(* them, and a few longer paths; three registrations for one table.        *)
EXTENDS Routing, TLC

A == <<97>>
MCMime == (<<Dot, 97>> :> "a type")
MCBaseDir == <<98, Slash>>
MCIndex == <<105>>

PathA == <<Slash, 97>>
PathDot == <<Slash, 98, Dot, 97>>
PathDir == <<Slash, 97, Slash>>
Away == <<Slash, Dot, Dot, Slash, 97>>
Out == <<Slash, Dot, Slash, Dot, Dot, Slash, 97>>
There == <<Slash, 97, Slash, Dot, Dot, Slash, 98, Dot, 97>>

MCFiles == {MCBaseDir \o p : p \in {PathDot, PathDir \o MCIndex, Away, Out, There}}

MCRegistrations ==
    { [method |-> "GET",  pattern |-> {PathA, <<>>}, handler |-> "echo"],
      [method |-> "GET",  pattern |-> {PathA, PathDot}, handler |-> "moved"],
      [method |-> "PUT",  pattern |-> {PathA}, handler |-> "put"],
      [method |-> "POST", pattern |-> {PathA}, handler |-> "echo"] }

Chars == {0, 97, Space, Plus, Percent, Amp, Equals, Question, 127}
Texts == {<<>>} \union {<<c>> : c \in Chars} \union {<<Percent, 50>>, <<Percent, 50, 54>>}

MCMeant ==
    [method : Methods, params : {<<>>},
     path : {PathA, PathDot, PathDir, Away, Out, There, <<>>, <<Percent, 50, 54>>,
             <<Space, Plus, Question>>}] \union
    [method : {"GET"}, path : {PathA},
     params : {<<<<k, v>>>> : k, v \in Texts} \union
              {<<<<k, A>>, <<A, <<Equals>>>>>> : k \in Texts}]

MCRawTargets ==
    {PathA \o <<Question>> \o q :
        q \in {<<Amp, 97, Equals, Amp>>, <<97, Equals, Amp, 97>>,
               <<97, Equals, Percent, 50>>, <<Percent, 122, 122, Equals>>}}
=============================================================================
