------------------------- MODULE MCDecisionInputs ------------------------
EXTENDS DecisionInputs

Strings(alphabet, n) == UNION {[1 .. k -> alphabet] : k \in 1 .. n}

MCNames == Strings({"a", "b"}, 2)
MCPatterns == Strings({"a", "b", "*"}, 2)
\* Single-character wildcards, which fnmatch honours as well.
MCWildPatterns == Strings({"a", "*", "?"}, 2)
MCResourceNames == {<<"a">>, <<"b">>}
MCResourcePatterns == {<<"a">>, <<"*">>}
MCAmounts == {1}
MCScores == {0, 24, 25, 50, 74, 75, 96, 100}
MCFactorNames == {"f1", "f2", "f3"}

Field(name, type, required, max) ==
  [name |-> name, type |-> type, required |-> required, max |-> max]

Schemas ==
  {{}, {Field("amount", "number", TRUE, Unknown)},
   {Field("amount", "number", FALSE, Unknown), Field("count", "integer", FALSE, Unknown),
    Field("note", "string", FALSE, 1)}}

MCDefinitions ==
  {[action |-> <<"a">>, consequence |-> 1, schema |-> s,
    exposure |-> [blast |-> b, monetary |-> m, records |-> r]] :
     s \in Schemas, b \in {0, 2}, m \in {"amount", "none"}, r \in {"count", "none"}}

MCMandates ==
  {[actions |-> {<<"*">>}, resources |-> {<<"a">>}, scoped |-> s, consequence |-> 2,
    exposure |-> [blast |-> 1, monetary |-> m, records |-> r],
    from |-> 0, until |-> Unknown, revoked |-> Unknown] :
     s \in {{}, {<< <<"a">>, <<"a">> >>}}, m \in {Unknown, 2}, r \in {Unknown, 1}}

MCValues ==
  {[type |-> t, amount |-> n] : t \in {"int", "float"}, n \in {-2, 0, 2, 3}}
    \cup {[type |-> "str", amount |-> n] : n \in {1, 2}}
    \cup {[type |-> "bool", amount |-> 1]}

MCKeys == [k1 |-> [type |-> "rsa", id |-> 1], k2 |-> [type |-> "ec", id |-> 2]]

\* A good credential, and what may be different about one: at most two things.
Good ==
  [kid |-> "k1", alg |-> "RS256", signer |-> MCKeys["k1"], iss |-> Issuer, aud |-> {Audience},
   exp |-> 4, nbf |-> Absent, iat |-> 1, tenant |-> "t1", sub |-> "agent", act |-> Absent]

Odd(f) ==
  {[f EXCEPT !.kid = k] : k \in {"k1", "k2", "k3"}}
    \cup {[f EXCEPT !.alg = a] : a \in {"RS256", "ES256", "none"}}
    \cup {[f EXCEPT !.signer = s] : s \in {MCKeys["k2"], [type |-> "rsa", id |-> 3]}}
    \cup {[f EXCEPT !.iss = "other"]}
    \cup {[f EXCEPT !.aud = a] : a \in {{}, {"other"}, {"other", "third"}, {"other", Audience}}}
    \cup {[f EXCEPT !.exp = e] : e \in {Absent, 0, 1, 2}}
    \cup {[f EXCEPT !.nbf = n] : n \in {0, 2, 6}}
    \cup {[f EXCEPT !.iat = i] : i \in {Absent, 0, 3}}
    \cup {[f EXCEPT !.tenant = Absent], [f EXCEPT !.sub = Absent], [f EXCEPT !.act = "alice"]}

MCTokens == UNION {Odd(t) : t \in Odd(Good)}

MCHopTokens ==
  {[kid |-> "k1", alg |-> "RS256", signer |-> MCKeys["k1"], sub |-> "agent", type |-> "agent",
    capabilities |-> c, iat |-> i, exp |-> e] :
      c \in SUBSET {"read", "pay"}, i \in {0, 2}, e \in {Absent, 2, 3, 4}}
    \cup {[kid |-> "k2", alg |-> "RS256", signer |-> MCKeys["k2"], sub |-> "alice", type |-> "human",
           capabilities |-> {"read"}, iat |-> 0, exp |-> 3]}
    \cup {[kid |-> "k2", alg |-> "ES256", signer |-> MCKeys["k2"], sub |-> "alice", type |-> t,
           capabilities |-> {"read", "pay"}, iat |-> 0, exp |-> 4] : t \in {"human", "robot"}}
==========================================================================
