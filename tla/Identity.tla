------------------------------ MODULE Identity ------------------------------
(***************************************************************************)
(* How a credential becomes a principal and how authority is delegated:    *)
(* the OIDC verifier with its JWS check (adapters/outbound/identity), the  *)
(* validity window of the principal it makes, and attenuating delegation   *)
(* chains (domain/identity.py).  A token is a record of its header and     *)
(* claims, Absent where a claim is missing; a key is a record of its type  *)
(* and id, and a token names the key that really signed it.                *)
(***************************************************************************)
EXTENDS Integers, Sequences, SequencesExt

CONSTANTS Keys,              \* the provisioned keys, by kid
          Issuer, Audience,
          Skew,              \* _CLOCK_SKEW_TOLERANCE_S
          Absent, Rejected

\* SUPPORTED_ALGORITHMS, with the type of key each of them takes.
KeyType == [RS256 |-> "rsa", ES256 |-> "ec"]

\* verify_compact_jws: the algorithm is allowed, the key is of its type, and the
\* signature is that key's.
SignatureHolds(token, key) ==
  /\ token.alg \in DOMAIN KeyType
  /\ key.type = KeyType[token.alg]
  /\ token.signer = key

\* Mutant: any list of audiences will do.
IssuerAndAnyList(token) ==
  token.iss = Issuer /\ (Audience \in token.aud \/ \E a, b \in token.aud : a # b)

\* The claim aud is one audience or a list of them: here, their set.
IssuerAndAudience(token) == token.iss = Issuer /\ Audience \in token.aud

TemporallyValid(token, now) ==
  /\ token.exp # Absent
  /\ now <= token.exp + Skew
  /\ token.nbf # Absent => now >= token.nbf - Skew

\* The principal the claims give; a token without iat is taken as issued now.
PrincipalOf(token, now) ==
  [tenant |-> token.tenant, agent |-> token.sub, subject |-> token.act,
   issued |-> IF token.iat = Absent THEN now ELSE token.iat, expires |-> token.exp]

\* OidcIdentityVerifier.verify
Verify(token, now) ==
  IF /\ token.kid \in DOMAIN Keys
     /\ SignatureHolds(token, Keys[token.kid])
     /\ IssuerAndAudience(token)
     /\ TemporallyValid(token, now)
     /\ Absent \notin {token.tenant, token.sub}
     /\ PrincipalOf(token, now).expires > PrincipalOf(token, now).issued
  THEN PrincipalOf(token, now)
  ELSE Rejected

-----------------------------------------------------------------------------
(* Delegation.                                                             *)

SubjectTypes == {"human", "agent", "service"}

\* _verify_hop: a signed hop with every claim it needs, in force for some time
\* (DelegationHop.__post_init__).
VerifyHop(token) ==
  IF /\ token.kid \in DOMAIN Keys
     /\ SignatureHolds(token, Keys[token.kid])
     /\ Absent \notin {token.sub, token.iat, token.exp}
     /\ token.type \in SubjectTypes
     /\ token.exp > token.iat
  THEN [subject |-> token.sub, capabilities |-> token.capabilities,
        issued |-> token.iat, expires |-> token.exp]
  ELSE Rejected

\* Mutant: every hop is held against the root of the chain.
AttenuatesRoot(hops) ==
  \A i \in 2 .. Len(hops) :
    /\ hops[i].capabilities \subseteq hops[1].capabilities
    /\ hops[i].expires <= hops[1].expires

\* DelegationChain._require_attenuating
Attenuates(hops) ==
  \A i \in 2 .. Len(hops) :
    /\ hops[i].capabilities \subseteq hops[i - 1].capabilities
    /\ hops[i].expires <= hops[i - 1].expires

\* verify_delegation_chain, root first.
VerifyDelegationChain(tokens) ==
  LET hops == [i \in DOMAIN tokens |-> VerifyHop(tokens[i])]
  IN  IF Rejected \notin Range(hops) /\ Attenuates(hops) THEN hops ELSE Rejected

HopLive(hop, now) == hop.issued <= now /\ now < hop.expires

\* DelegationChain.is_valid_at
ChainLive(hops, now) == hops # << >> /\ \A i \in DOMAIN hops : HopLive(hops[i], now)

\* VerifiedPrincipal.has_capability: nothing is held by way of an empty chain.
EffectiveCapabilities(hops) ==
  IF hops = << >> THEN {}
  ELSE FoldLeft(LAMBDA held, hop : held \cap hop.capabilities, Head(hops).capabilities, Tail(hops))

\* VerifiedPrincipal.require_valid_at, which knows no tolerance.
RequireValidAt(principal, hops, now) ==
  /\ principal.issued <= now /\ now < principal.expires
  /\ hops # << >> => ChainLive(hops, now)

\* The first two steps of every decision: the verifier, whose principals carry no
\* chain, and the validity of the principal at the same instant.
Accepted(token, now) ==
  LET principal == Verify(token, now)
  IN  principal # Rejected /\ RequireValidAt(principal, << >>, now)
=============================================================================
