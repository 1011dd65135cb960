----------------------------- MODULE MCFrontend -----------------------------
EXTENDS Frontend, TLC

CONSTANTS c1, c2, i1, i2

Base == [api |-> "chat", http |-> FALSE, stream |-> TRUE, include_usage |-> FALSE,
         n |-> 1, max_tokens |-> 1, echo |-> FALSE, suffix |-> FALSE, tools |-> FALSE]

Echoing == [Base EXCEPT !.api = "completion", !.stream = FALSE,
                        !.echo = TRUE, !.suffix = TRUE]
Twofold == [Base EXCEPT !.n = 2, !.include_usage = TRUE]
Calling == [Base EXCEPT !.stream = FALSE, !.tools = TRUE]

Long == [Base EXCEPT !.max_tokens = 2]

Pair(k, ids, first, second) == [kind |-> k, id |-> ids, req |-> (c1 :> first @@ c2 :> second)]

Distinct == (c1 :> i1 @@ c2 :> i2)
Same == (c1 :> i1 @@ c2 :> i1)

\* A long stream beside an echoing completion, with random ids and with one given
\* id; parallel generation beside a tool call; and parallel generation and an echoing
\* completion of generators that share the output queue.
MainScenarios ==
  {Pair("async", Distinct, Long, Echoing), Pair("async", Same, Long, Echoing),
   Pair("async", Distinct, Twofold, Calling), Pair("sync", Distinct, Twofold, Echoing)}

\* Two streams of the same user over HTTP.
UserScenarios == {Pair("async", Same, [Base EXCEPT !.http = TRUE], [Base EXCEPT !.http = TRUE])}
=============================================================================
