-------------------------- MODULE MCControlPlane --------------------------
EXTENDS ControlPlane

Name == <<"a">>

Definition(consequence, attestation) ==
  [action |-> Name, consequence |-> consequence, attestation |-> attestation,
   schema |-> {[name |-> "amount", type |-> "number", required |-> FALSE, max |-> Unknown]},
   exposure |-> [blast |-> 1, monetary |-> "amount", records |-> "none"]]

MCResource == <<"b">>
MCDigests == {"d1", "d2", "d3"}
MCDefinitionOf == [d \in MCDigests |-> IF d = "d1" THEN Definition(3, FALSE) ELSE Definition(1, TRUE)]
MCCatalogue == {Definition(0, FALSE), Definition(1, TRUE)}

Amount(n) == [amount |-> [type |-> "int", amount |-> n]]

ToolInputs ==
  {[path |-> "tool", digest |-> d, action |-> Name, parameters |-> Amount(3), flagged |-> FALSE] :
     d \in {"d1", "d2"}}
CatalogueInputs ==
  {[path |-> "catalogue", digest |-> "d1", action |-> Name, parameters |-> p, flagged |-> f] :
     p \in {<< >>, Amount(3), Amount(9), Amount(-2)}, f \in {FALSE}}
    \cup {[path |-> "catalogue", digest |-> "d1", action |-> MCResource,
           parameters |-> << >>, flagged |-> FALSE],
          [path |-> "catalogue", digest |-> "d1", action |-> Name,
           parameters |-> [text |-> [type |-> "str", amount |-> 1]], flagged |-> FALSE],
          [path |-> "catalogue", digest |-> "d1", action |-> Name,
           parameters |-> << >>, flagged |-> TRUE]}
MCInputs == ToolInputs \cup CatalogueInputs

Ceiling(m) == [blast |-> 2, monetary |-> m, records |-> Unknown]
MCMandates ==
  {[actions |-> {<<"*">>}, resources |-> {<<"*">>}, scoped |-> {},
    consequence |-> IF m = Unknown THEN 3 ELSE 2,
    exposure |-> Ceiling(m), from |-> 0, until |-> Unknown, revoked |-> Unknown] :
     m \in {Unknown, 1}}

Rule(effect, monetary) ==
  [effect |-> effect, action |-> <<"*">>, resource |-> <<"*">>, consequence |-> Unknown,
   monetary |-> monetary, priority |-> 1]
MCPolicies == {<<Rule("allow", Unknown)>>, <<Rule("deny", 2), Rule("approve", Unknown)>>}

MCOwnSeeds == {<< >>, <<3>>, <<2, 3, 4>>}
MCPeerSeeds == {<< >>, <<1, 4>>}
===========================================================================
