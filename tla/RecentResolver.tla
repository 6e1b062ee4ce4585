--------------------------- MODULE RecentResolver ---------------------------
(***************************************************************************)
(* The pure part of Recent intelligence (sf/recent_runtime.rs): identity   *)
(* normalisation, which edges are authoritative, how candidate relations   *)
(* are resolved from graph nodes and edges, and dependency groups.         *)
(*                                                                         *)
(* A key is [chain, id]: the text before and after the first colon, with   *)
(* chain "" when there is no colon.  A time is an integer, Malformed when   *)
(* it does not parse, Open when it is absent.                              *)
(***************************************************************************)
EXTENDS Integers, Sequences, FiniteSets, Functions

NoKey == [chain |-> "", id |-> ""]
Malformed == -1
Open == 1000

-----------------------------------------------------------------------------
(* Identities.                                                             *)

ChainAliases ==
  [sol |-> "solana", solana |-> "solana", rh |-> "robinhood", robinhood |-> "robinhood",
   eth |-> "ethereum", ethereum |-> "ethereum", base |-> "base", bsc |-> "bsc"]

\* canonical_chain: defined for a qualified key of a known chain.
Qualified(k) == k.chain \in DOMAIN ChainAliases /\ k.id # ""
CanonicalChain(k) == ChainAliases[k.chain]
Canonical(k) == [chain |-> CanonicalChain(k), id |-> k.id]

\* Mutant: aliases are compared as they are spelled.
SameRawKey(a, b) == Qualified(a) /\ Qualified(b) /\ a = b

\* same_wallet, same_token and same_actor: an unqualified key matches nothing.
SameKey(a, b) == Qualified(a) /\ Qualified(b) /\ Canonical(a) = Canonical(b)

LowerPlatform(p) == IF p = "X" THEN "x" ELSE p
SocialQualified(k) == k.chain # "" /\ k.id # ""

\* The platform is folded, the account id is verbatim.
SameSocialIdentity(a, b) ==
  /\ SocialQualified(a) /\ SocialQualified(b)
  /\ LowerPlatform(a.chain) = LowerPlatform(b.chain)
  /\ a.id = b.id

\* normalize_identity: NoKey stands for None.
NormalizeIdentity(kind, k) ==
  CASE kind \in {"token", "wallet"} -> IF Qualified(k) THEN Canonical(k) ELSE NoKey
    [] kind \in {"social", "telegram"} -> IF SocialQualified(k) THEN k ELSE NoKey

\* is_immutable_social_identity: an account id on record, never a handle.
IsImmutableSocialIdentity(k, bindings) ==
  /\ SocialQualified(k)
  /\ \E b \in bindings : /\ LowerPlatform(b.platform) = LowerPlatform(k.chain)
                         /\ b.user = k.id
                         /\ k.id \notin b.handles

-----------------------------------------------------------------------------
(* Edges.                                                                  *)

Within(t, from, until) == /\ from # Malformed
                          /\ until # Malformed
                          /\ from <= t /\ t <= until

EdgeIsAuthoritative(e, now) ==
  /\ e.truth = "confirmed"
  /\ e.evidence # {}
  /\ Within(now, e.validFrom, e.validUntil)

\* The one edge that corroborates a funding: authority, identity and the
\* funding's time all on the same edge.
CorroboratesFunding(re, funding, anchor, bindings, now) ==
  /\ re.type = "reused_social_link"
  /\ SameKey(re.from, funding.to)
  /\ EdgeIsAuthoritative(re, now)
  /\ \E s \in Range(anchor.socials) : /\ SameSocialIdentity(re.to, s)
                                      /\ IsImmutableSocialIdentity(s, bindings)
  /\ funding.occurred # Malformed
  /\ funding.occurred >= re.validFrom
  /\ funding.occurred <= re.validUntil

IsNode(nodes, k, type) == \E n \in Range(nodes) : n.type = type /\ SameKey(n.key, k)

-----------------------------------------------------------------------------
(* resolve_candidates of an input [anchor, nodes, edges, bindings, now].   *)
(* Edges are given by their place in the order they are read.              *)

CrossChain(anchor, e, now) ==
  /\ e.type = "cross_chain_deployment"
  /\ SameKey(e.from, anchor.token)
  /\ Qualified(e.to)
  /\ CanonicalChain(e.to) # CanonicalChain(anchor.token)
  /\ EdgeIsAuthoritative(e, now)

OtherToken(anchor, n) == n.type = "token" /\ ~SameKey(n.key, anchor.token) /\ Qualified(n.key)

\* Which actor of the anchor an edge type speaks about.
ActorOf(anchor, type) ==
  CASE type = "deployed_by"    -> anchor.deployer
    [] type = "funded_by"      -> anchor.funder
    [] type = "same_authority" -> anchor.authority
    [] type = "same_fee_payer" -> anchor.feePayer
    [] OTHER                   -> NoKey

RelationOf(type) ==
  CASE type = "deployed_by"    -> "same_deployer"
    [] type = "funded_by"      -> "same_funder"
    [] OTHER                   -> type

\* A factory or launchpad is never a project deployer.
SharedActor(anchor, node, e) ==
  /\ SameKey(e.to, node.key)
  /\ ~SameKey(anchor.factory, e.from)
  /\ SameKey(ActorOf(anchor, e.type), e.from)

FundedWallet(anchor, nodes, e) ==
  /\ e.type = "funded_by"
  /\ SameKey(anchor.deployer, e.from)
  /\ IsNode(nodes, e.to, "wallet")

FundingConfidence(e, anchor, edges, bindings, now) ==
  IF ~EdgeIsAuthoritative(e, now) THEN "insufficient"
  ELSE IF \E re \in Range(edges) : CorroboratesFunding(re, e, anchor, bindings, now)
       THEN "reconstructed" ELSE "estimated"

\* The relation is to the other token that uses the identity.
SocialReuse(nodes, identity, e) ==
  /\ e.type = "reused_social_link"
  /\ SameSocialIdentity(e.to, identity)
  /\ IsNode(nodes, e.from, "token")

\* The four paths, each in its order: over the edges, over the nodes and the
\* edges, over the edges, over the identities and the edges.  A place is
\* <<path, node or identity, edge>>.
EmitsAt(x, p) ==
  LET e == x.edges[p[3]]
  IN \/ p[1] = 1 /\ p[2] = 0 /\ CrossChain(x.anchor, e, x.now)
     \/ /\ p[1] = 2 /\ p[2] \in DOMAIN x.nodes
        /\ OtherToken(x.anchor, x.nodes[p[2]]) /\ SharedActor(x.anchor, x.nodes[p[2]], e)
     \/ p[1] = 3 /\ p[2] = 0 /\ FundedWallet(x.anchor, x.nodes, e)
     \/ p[1] = 4 /\ p[2] \in DOMAIN x.anchor.socials /\ SocialReuse(x.nodes, x.anchor.socials[p[2]], e)

Places(x) ==
  {p \in (1..4) \X (0..(Len(x.nodes) + Len(x.anchor.socials))) \X DOMAIN x.edges : EmitsAt(x, p)}

Emit(kind, k, relation, confidence, e) ==
  [to |-> NormalizeIdentity(kind, k), kind |-> kind, relation |-> relation,
   confidence |-> confidence, evidence |-> e.evidence]

Emission(x, p) ==
  LET e == x.edges[p[3]]
  IN CASE p[1] = 1 -> Emit("token", e.to, "cross_chain_deployment", "exact", e)
       [] p[1] = 2 -> Emit("token", x.nodes[p[2]].key, RelationOf(e.type),
                           IF EdgeIsAuthoritative(e, x.now) THEN "exact" ELSE "insufficient", e)
       [] p[1] = 3 -> Emit("wallet", e.to, "funded_by_known_deployer",
                           FundingConfidence(e, x.anchor, x.edges, x.bindings, x.now), e)
       [] p[1] = 4 -> Emit("token", e.from, "reused_social_link", "insufficient", e)

Earlier(p, q) == \E i \in 1..3 : p[i] < q[i] /\ \A j \in 1..(i - 1) : p[j] = q[j]

\* One emit boundary: unqualified targets are dropped, and the first emission
\* of a (target, kind, relation) is kept.
SameTarget(a, b) == a.to = b.to /\ a.kind = b.kind /\ a.relation = b.relation

Kept(x) ==
  {p \in Places(x) :
     /\ Emission(x, p).to # NoKey
     /\ \A q \in Places(x) : Earlier(q, p) => ~SameTarget(Emission(x, q), Emission(x, p))}

ResolveCandidates(x) ==
  IF ~Qualified(x.anchor.token) THEN {} ELSE {Emission(x, p) : p \in Kept(x)}

-----------------------------------------------------------------------------
(* Dependency groups.                                                      *)

\* dependency_roots: the last pair wins as a ref's upstream, and the chain is
\* followed to a ref without one.  (On a cycle the code does not return.)
Upstream(deps, r) ==
  LET pairs == {i \in DOMAIN deps : deps[i][2] = r}
  IN IF pairs = {} THEN r ELSE deps[CHOOSE i \in pairs : \A j \in pairs : j <= i][1]

\* The refs on the way up from r; each step uses a pair of its own.
Walk(deps, r) ==
  LET walk[n \in 0..Len(deps)] == IF n = 0 THEN r ELSE Upstream(deps, walk[n - 1])
  IN walk

DependencyRoot(deps, r) == Walk(deps, r)[Len(deps)]

\* assign_dependency_group: by the first cited ref that any pair mentions, or
\* by the first ref.
DependencyGroup(deps, refs) ==
  LET known == {i \in DOMAIN refs : \E d \in Range(deps) : refs[i] \in {d[1], d[2]}}
  IN IF refs = <<>> THEN "none"
     ELSE IF known = {} THEN refs[1]
     ELSE DependencyRoot(deps, refs[CHOOSE i \in known : \A j \in known : i <= j])

-----------------------------------------------------------------------------
(* What the resolver must satisfy on an input.                             *)

Respell(k) == IF Qualified(k) THEN Canonical(k) ELSE k
\* A reused social link leads from a key to an identity, which is no chain's.
RespellEdge(e) ==
  [e EXCEPT !.from = Respell(@), !.to = IF e.type = "reused_social_link" THEN @ ELSE Respell(@)]
RespellNode(n) == [n EXCEPT !.key = Respell(@)]
RespellAnchor(a) == [a EXCEPT !.token = Respell(@), !.deployer = Respell(@), !.funder = Respell(@),
                              !.authority = Respell(@), !.feePayer = Respell(@),
                              !.factory = Respell(@)]
RespellInput(x) == [x EXCEPT !.anchor = RespellAnchor(@),
                             !.nodes = [i \in DOMAIN @ |-> RespellNode(@[i])],
                             !.edges = [i \in DOMAIN @ |-> RespellEdge(@[i])]]

\* How a chain is spelled decides nothing: every join of the resolver (self
\* exclusion, factory exclusion, actor, wallet and token joins, and the emitted
\* target) sees through the aliases.
AliasesAgree(x) == ResolveCandidates(x) = ResolveCandidates(RespellInput(x))

Strong(cs) == {c \in cs : c.confidence # "insufficient"}
WithoutWeakEdges(x) ==
  [x EXCEPT !.edges = Restrict(@, {i \in DOMAIN @ : EdgeIsAuthoritative(@[i], x.now)})]

\* Disputed, expired or evidence-free edges never lift a relation: whatever is
\* better than insufficient is resolved from the authoritative edges alone.
WeakEdgesNeverPromote(x) == Strong(ResolveCandidates(x)) \subseteq Strong(ResolveCandidates(WithoutWeakEdges(x)))

\* No token shares an actor with itself, and a launchpad is no common deployer.
NoSelfOrFactoryRelation(x) ==
  \A c \in ResolveCandidates(x) :
    c.relation \in {"same_deployer", "same_funder", "same_authority", "same_fee_payer"} =>
      /\ c.to # Respell(x.anchor.token)
      /\ Respell(ActorOf(x.anchor, IF c.relation = "same_deployer" THEN "deployed_by"
                                   ELSE IF c.relation = "same_funder" THEN "funded_by"
                                   ELSE c.relation)) # Respell(x.anchor.factory)

\* up lies on the chain of upstreams that starts at r
ReachesUp(deps, r, up) == \E n \in 0..Len(deps) : Walk(deps, r)[n] = up

Mentioned(deps, r) == \E d \in Range(deps) : r \in {d[1], d[2]}

\* Copies of one source end in one group: two refs of the same tree of reposts
\* give their events the same group, and refs of different trees never do.
CopiesShareAGroup(deps, r1, r2) ==
  Mentioned(deps, r1) /\ Mentioned(deps, r2) =>
    (DependencyGroup(deps, <<r1>>) = DependencyGroup(deps, <<r2>>)
       <=> \E r \in {deps[i][1] : i \in DOMAIN deps} :
             ReachesUp(deps, r1, r) /\ ReachesUp(deps, r2, r))
=============================================================================
