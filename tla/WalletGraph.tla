---------------------------- MODULE WalletGraph -----------------------------
(***************************************************************************)
(* The soft clustering graph (graph.rs): funding edges with a confidence,  *)
(* and the cluster membership rebuilt from the edges that reach the        *)
(* threshold.  Edges are only added; memberships are revoked, not deleted. *)
(* Confidence is in hundredths.                                            *)
(***************************************************************************)
EXTENDS Naturals, FiniteSets, FiniteSetsExt

CONSTANTS WgWallets,
          WgEvidence,   \* what record_edge_evidence is given: sets of components
          WgMaxEdges    \* bound on the edges

VARIABLES wgEdges,     \* set of [from, to, sig, kind, confidence]
          wgMembers,   \* cluster -> [wallet -> "none" | "active" | "revoked"]
          wgRead       \* rebuild: wallet and the members it collected, or empty

wgVars == <<wgEdges, wgMembers, wgRead>>

Weights == [funding |-> 35, token_account |-> 25, repeated |-> 15, close_time |-> 15, style |-> 10]
MembershipThreshold == 70

ASSUME WgAssumption == WgEvidence \subseteq SUBSET DOMAIN Weights /\ WgMaxEdges \in Nat

\* EdgeComponents::confidence: the sum of the observed kinds, at most one.
EdgeConfidence(components) ==
  LET Seen(c) == IF c \in components THEN Weights[c] ELSE 0
  IN Min({100, Seen("funding") + Seen("token_account") + Seen("repeated")
                 + Seen("close_time") + Seen("style")})

\* update_funding_edges: one transfer is one component.  ON CONFLICT DO NOTHING
\* on (from, to, signature, kind).
UpdateFundingEdges(from, to, sig) ==
  /\ Cardinality(wgEdges) < WgMaxEdges
  /\ ~\E e \in wgEdges : e.from = from /\ e.to = to /\ e.sig = sig /\ e.kind = "funding"
  /\ wgEdges' = wgEdges \cup {[from |-> from, to |-> to, sig |-> sig, kind |-> "funding",
                               confidence |-> EdgeConfidence({"funding"})]}
  /\ UNCHANGED <<wgMembers, wgRead>>

\* record_edge_evidence: a row of its own (its signature is a timestamp); it is
\* not added to what the pair's other rows already show.
RecordEdgeEvidence(from, to, components) ==
  /\ Cardinality(wgEdges) < WgMaxEdges
  /\ wgEdges' = wgEdges \cup {[from |-> from, to |-> to, sig |-> Cardinality(wgEdges),
                               kind |-> "evidence", confidence |-> EdgeConfidence(components)]}
  /\ UNCHANGED <<wgMembers, wgRead>>

\* The wallet and both ends of its promoted edges (one hop, not a closure).
Component(w) ==
  {w} \cup UNION {{e.from, e.to} : e \in {x \in wgEdges :
      w \in {x.from, x.to} /\ x.confidence >= MembershipThreshold}}

\* The edges are read before the transaction; without any nothing happens.
RebuildRead(w) ==
  /\ wgRead = {}
  /\ Component(w) # {w}
  /\ wgRead' = Component(w)
  /\ UNCHANGED <<wgEdges, wgMembers>>

Active(c) == {w \in WgWallets : wgMembers[c][w] = "active"}
Clusters == DOMAIN wgMembers
NewCluster == Cardinality(Clusters) + 1

Existing(members) == {c \in Clusters : Active(c) \cap members # {}}

\* Revoked in every superseded cluster, active in the kept one.
Rejoin(keep, folded, joining) ==
  [c \in Clusters \cup {keep} |-> [w \in WgWallets |->
     IF c = keep THEN (IF w \in joining THEN "active"
                       ELSE IF c \in Clusters THEN wgMembers[c][w] ELSE "none")
     ELSE IF c \in folded /\ wgMembers[c][w] = "active" THEN "revoked"
     ELSE wgMembers[c][w]]]

\* Mutant: the first cluster found takes the component, the others stay.
RebuildFirstOnly ==
  /\ wgRead # {}
  /\ LET found == Existing(wgRead)
         keep == IF found = {} THEN NewCluster ELSE Min(found)
     IN wgMembers' = Rejoin(keep, {}, wgRead)
  /\ wgRead' = {}
  /\ UNCHANGED wgEdges

\* rebuild_cluster_for, its transaction: every cluster any member is active in
\* is folded into the smallest one, members outside the component included.
Rebuild ==
  /\ wgRead # {}
  /\ LET found == Existing(wgRead)
         keep == IF found = {} THEN NewCluster ELSE Min(found)
         moved == UNION {Active(c) : c \in found \ {keep}}
     IN wgMembers' = Rejoin(keep, found \ {keep}, moved \cup wgRead)
  /\ wgRead' = {}
  /\ UNCHANGED wgEdges

-----------------------------------------------------------------------------
WgInit == wgEdges = {} /\ wgMembers = <<>> /\ wgRead = {}

WgNext ==
  \/ \E from, to \in WgWallets : from # to /\
       (UpdateFundingEdges(from, to, 100)
        \/ \E components \in WgEvidence : RecordEdgeEvidence(from, to, components))
  \/ \E w \in WgWallets : RebuildRead(w)
  \/ Rebuild

WgSpec == WgInit /\ [][WgNext]_wgVars

-----------------------------------------------------------------------------
(* Properties.                                                             *)

\* A wallet is active in at most one cluster, whatever order edges and rebuilds
\* come in: the entry gate counts clusters as independent buyers (REV-072-F06).
OneActiveCluster ==
  \A w \in WgWallets : Cardinality({c \in Clusters : w \in Active(c)}) <= 1

\* Rebuilding moves wallets between clusters and never drops one, and wallets
\* that shared a cluster still share one.
ClusteredStaysClustered ==
  \A w, v \in WgWallets :
    (\E c \in Clusters : {w, v} \subseteq Active(c)) =>
      \E c \in DOMAIN wgMembers' : wgMembers'[c][w] = "active" /\ wgMembers'[c][v] = "active"

\* One transfer never merges wallets: who shares a cluster is connected by
\* edges that each reach the threshold, and a funding edge alone does not.
ClustersNeedEvidence ==
  \A c \in Clusters : \A w \in Active(c) :
    \E e \in wgEdges : w \in {e.from, e.to} /\ e.kind = "evidence"
                       /\ e.confidence >= MembershipThreshold

\* Every step leaves clusters the gate can count: disjoint, evidenced, and
\* holding everybody they held together.
ClustersAreSound ==
  [][OneActiveCluster' /\ ClustersNeedEvidence' /\ ClusteredStaysClustered]_wgVars

-----------------------------------------------------------------------------
(* The inductive invariant: what a rebuild has read is still evidenced     *)
(* when its transaction runs, since edges are only added.                  *)

Strong(e) == e.confidence >= MembershipThreshold
Evidenced(w) ==
  \E e \in wgEdges : w \in {e.from, e.to} /\ e.kind = "evidence" /\ Strong(e)

EdgesAreEdges ==
  \A e \in wgEdges : /\ e.from \in WgWallets /\ e.to \in WgWallets
                     /\ e.kind \in {"funding", "evidence"}
                     /\ e.kind = "funding" => ~Strong(e)
MembersAreNumbered ==
  \E n \in Nat : wgMembers \in [1 .. n -> [WgWallets -> {"none", "active", "revoked"}]]
ReadIsEvidenced == wgRead \subseteq WgWallets /\ \A w \in wgRead : Evidenced(w)
ActiveOnce ==
  \A c, d \in Clusters : \A w \in WgWallets : w \in Active(c) /\ w \in Active(d) => c = d

WgIndInv ==
  EdgesAreEdges /\ MembersAreNumbered /\ ReadIsEvidenced /\ ActiveOnce /\ ClustersNeedEvidence
=============================================================================
