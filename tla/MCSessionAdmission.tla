------------------------- MODULE MCSessionAdmission -------------------------
EXTENDS SessionAdmission

Ref(p, s) == [provider |-> p, source |-> s]
Op     == Ref("op", None)
Entry(r, acc, s) == [ref |-> r, account |-> acc, source |-> s]
Item(a, r) == [alias |-> a, ref |-> r, account |-> None, source |-> None]
Line(k, r) == [key |-> k, ref |-> r]
Just(f, v) == [x \in {f} |-> v]

Depth(n)  == [mode |-> "ancestor", depth |-> n]
MCAuto    == [mode |-> "auto"]
MCPolicies == {Depth(2), Depth(4), [mode |-> "name", names |-> {"shell"}],
               [mode |-> "name", names |-> {}], [mode |-> "name", names |-> {None, "cli"}]}

Profile(acc, inc, set, sec) ==
    [account |-> acc, include |-> inc, settings |-> set, secrets |-> sec]

\* Three profiles: p, which the commands ask for or get by default; q, which may define
\* secrets, include r, include p again or one that is not there; and r.
MCDocs ==
    {[account |-> top[1], sources |-> top[2], default |-> IF top[1] = None THEN "p" ELSE NoName,
      order |-> <<"p", "q", "r">>, profiles |-> [n \in {"p", "q", "r"} |->
          CASE n = "p" -> p [] n = "q" -> q [] n = "r" -> r]] :
      top \in {<<None, {}>>, <<"top", {"s"}>>, <<None, {"s", "t"}>>},
      p \in {Profile(None, inc, set, sec) :
                inc \in {<<>>, <<"q">>, <<"q", "r">>, <<"r", "q">>},
                set \in {Nothing, Just("reason", "padded")},
                sec \in {Nothing, Just("A", Entry(Op, None, None))}},
      q \in {Profile(None, <<"r">>, Just("bind", Depth(1)), Just("A", Entry(Ref("bws", None), None, None))),
             Profile("mine", <<>>, Just("reason", "plain"), Just("B", Entry(Ref("bws", "s"), None, "s"))),
             Profile(None, <<"p">>, Just("ttl", "off"), Just("B", Entry(Ref("bws", "t"), None, "s"))),
             Profile(None, <<"gone">>, Nothing, Nothing)},
      r \in {Profile("other", <<>>, Just("reason", "padded"), Just("B", Entry(Op, "own", None))),
             Profile(None, <<NoName>>, Just("ttl", "bad"), Just("B", Entry(Ref("badop", None), None, None)))}}

MCFlagSecrets ==
    {<<>>, <<Item("A", Ref("bws", None)), Item("B", Op)>>}
    \cup {<<Item("A", r)>> : r \in {Op, Ref("bws", "t")}} \cup {<<Item("lower", Op)>>}

MCEnvFiles ==
    {<<>>, <<Line("A", Op)>>, <<Line("A", Plain)>>,
     <<Line("A", Op), Line("A", Plain)>>, <<Line("A", Plain), Line("A", Ref("bws", "s"))>>,
     <<Line("B", Ref("badbws", None)), Line("lower", Plain)>>}

MCFlagAliases == {<<>>, <<"B", "A">>, <<"A", "A">>, <<"lower">>}
=============================================================================
