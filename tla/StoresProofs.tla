---------------------------- MODULE StoresProofs ----------------------------
(***************************************************************************)
(* Proofs about the stores that people and evidence edit, the clusters of  *)
(* the wallet graph, the operator panel and the labels of wallets, and     *)
(* about what fills them: the GMGN client's bucket, the Telegram poll loop *)
(* and the raw-first ingest of webhooks and histories.                     *)
(***************************************************************************)
EXTENDS WalletPolicy, WalletGraph, AdminPanel, GmgnBucket, TelegramIngest, Ingest,
        FiniteSetTheorems, SequenceTheorems, WellFoundedInduction, TLAPS

(***************************************************************************)
(* WalletGraph.                                                            *)
(***************************************************************************)

\* Min is a member and a bound of any nonempty set of naturals.
LEMMA MinOfNaturals ==
  ASSUME NEW S, S \subseteq Nat, S # {}
  PROVE  Min(S) \in S /\ \A s \in S : Min(S) <= s
<1> DEFINE Before == {p \in Nat \X Nat : p[1] < p[2]}
<1>1. IsWellFoundedOn(Before, Nat)
  BY NatLessThanWellFounded DEF OpToRel
<1>2. PICK m \in S : \A s \in S : ~(<<s, m>> \in Before)
  <2> HIDE DEF Before
  <2> QED
    BY <1>1, WFMin
<1>3. \A j, k \in Nat : ~(<<j, k>> \in Before) => k <= j
  OBVIOUS
<1>4. \A s \in S : m <= s
  <2> HIDE DEF Before
  <2> QED
    BY <1>2, <1>3
<1> QED
  BY <1>4 DEF Min

\* A transfer is one component and stays below the threshold.
LEMMA FundingIsWeak == EdgeConfidence({"funding"}) = 35 /\ MembershipThreshold = 70
<1>1. EdgeConfidence({"funding"}) = Min({100, 35})
  BY DEF EdgeConfidence, Weights
<1>2. Min({100, 35}) = 35
  BY MinOfNaturals
<1> QED
  BY <1>1, <1>2 DEF MembershipThreshold

LEMMA WgInitial == ASSUME WgInit PROVE WgIndInv
<1>1. wgMembers \in [1 .. 0 -> [WgWallets -> {"none", "active", "revoked"}]] /\ Clusters = {}
  BY DEF WgInit, Clusters
<1> QED
  BY <1>1 DEF WgInit, WgIndInv, EdgesAreEdges, MembersAreNumbered, ReadIsEvidenced, ActiveOnce,
              ClustersNeedEvidence

\* One more edge: nothing that was evidenced ceases to be.
LEMMA EdgesOnlyAdd ==
  ASSUME WgIndInv, NEW e, wgEdges' = wgEdges \cup {e}, UNCHANGED <<wgMembers, wgRead>>,
         e.from \in WgWallets, e.to \in WgWallets, e.kind \in {"funding", "evidence"},
         e.kind = "funding" => ~Strong(e)
  PROVE  WgIndInv' /\ ClusteredStaysClustered
<1>1. EdgesAreEdges'
  BY DEF WgIndInv, EdgesAreEdges, Strong
<1>2. \A w : Evidenced(w) => Evidenced(w)'
  BY DEF Evidenced, Strong
<1>3. ReadIsEvidenced'
  BY <1>2 DEF WgIndInv, ReadIsEvidenced
<1>4. MembersAreNumbered' /\ ActiveOnce' /\ Clusters' = Clusters /\ \A c : Active(c)' = Active(c)
  BY DEF WgIndInv, MembersAreNumbered, ActiveOnce, Clusters, Active
<1>5. ClustersNeedEvidence'
  BY <1>2, <1>4 DEF WgIndInv, ClustersNeedEvidence, Evidenced, Strong
<1>6. ClusteredStaysClustered
  BY DEF ClusteredStaysClustered, Clusters, Active
<1> QED
  BY <1>1, <1>3, <1>4, <1>5, <1>6 DEF WgIndInv

LEMMA FundingEdgesAdd ==
  ASSUME WgIndInv, NEW from \in WgWallets, NEW to \in WgWallets, NEW sig,
         UpdateFundingEdges(from, to, sig)
  PROVE  WgIndInv' /\ ClusteredStaysClustered
<1> DEFINE e == [from |-> from, to |-> to, sig |-> sig, kind |-> "funding",
                 confidence |-> EdgeConfidence({"funding"})]
<1>1. wgEdges' = wgEdges \cup {e} /\ UNCHANGED <<wgMembers, wgRead>>
  BY DEF UpdateFundingEdges
<1>2. e.from \in WgWallets /\ e.to \in WgWallets /\ e.kind = "funding" /\ ~Strong(e)
  BY FundingIsWeak DEF Strong
<1> HIDE DEF e
<1> QED
  BY <1>1, <1>2, EdgesOnlyAdd

LEMMA EvidenceEdgesAdd ==
  ASSUME WgIndInv, NEW from \in WgWallets, NEW to \in WgWallets, NEW components,
         RecordEdgeEvidence(from, to, components)
  PROVE  WgIndInv' /\ ClusteredStaysClustered
<1> DEFINE e == [from |-> from, to |-> to, sig |-> Cardinality(wgEdges), kind |-> "evidence",
                 confidence |-> EdgeConfidence(components)]
<1>1. wgEdges' = wgEdges \cup {e} /\ UNCHANGED <<wgMembers, wgRead>>
  BY DEF RecordEdgeEvidence
<1>2. e.from \in WgWallets /\ e.to \in WgWallets /\ e.kind = "evidence"
  OBVIOUS
<1> HIDE DEF e
<1> QED
  BY <1>1, <1>2, EdgesOnlyAdd

\* The component read is made of ends of promoted edges; a promoted edge is one of
\* evidence, and a wallet without any is not read at all.
LEMMA ReadsAreEvidenced ==
  ASSUME WgIndInv, NEW w \in WgWallets, RebuildRead(w)
  PROVE  WgIndInv' /\ ClusteredStaysClustered
<1> DEFINE mine == {x \in wgEdges : w \in {x.from, x.to} /\ x.confidence >= MembershipThreshold}
<1>1. Component(w) = {w} \cup UNION {{e.from, e.to} : e \in mine}
  BY DEF Component
<1>2. \A e \in mine : /\ e \in wgEdges /\ w \in {e.from, e.to} /\ e.kind = "evidence" /\ Strong(e)
                      /\ e.from \in WgWallets /\ e.to \in WgWallets
  BY DEF WgIndInv, EdgesAreEdges, Strong
<1>3. mine # {}
  BY <1>1 DEF RebuildRead
<1> HIDE DEF mine
<1>4. ASSUME NEW v \in Component(w) PROVE v \in WgWallets /\ Evidenced(v)
  <2>1. CASE v = w
    BY <1>2, <1>3, <2>1 DEF Evidenced
  <2>2. CASE v # w
    <3>1. PICK e \in mine : v \in {e.from, e.to}
      BY <1>1, <2>2
    <3> QED
      BY <1>2, <3>1 DEF Evidenced
  <2> QED
    BY <2>1, <2>2
<1>5. wgRead' = Component(w) /\ wgEdges' = wgEdges /\ wgMembers' = wgMembers
  BY DEF RebuildRead
<1>6. ReadIsEvidenced'
  BY <1>4, <1>5 DEF ReadIsEvidenced, Evidenced, Strong
<1> QED
  BY <1>5, <1>6 DEF WgIndInv, EdgesAreEdges, MembersAreNumbered, ActiveOnce, ClustersNeedEvidence,
                    Clusters, Active, ClusteredStaysClustered, Strong

\* Where the fold leaves everybody: who was in a folded cluster or was read is in
\* the kept one, with whoever was there; the folded ones are empty, and the
\* clusters no member was active in are as they were.
LEMMA FoldMoves ==
  ASSUME WgIndInv, Rebuild
  PROVE  \E keep \in Nat, found \in SUBSET Clusters :
           /\ found = Existing(wgRead)
           /\ keep \in found \/ (found = {} /\ keep \notin Clusters)
           /\ Clusters' = Clusters \cup {keep} /\ MembersAreNumbered'
           /\ \A w \in WgWallets :
                w \in Active(keep)' <=> (w \in wgRead \/ \E c \in found \cup {keep} : c \in Clusters /\ w \in Active(c))
           /\ \A c \in found \ {keep} : Active(c)' = {}
           /\ \A c \in Clusters \ (found \cup {keep}) : Active(c)' = Active(c)
<1>1. PICK n \in Nat : wgMembers \in [1 .. n -> [WgWallets -> {"none", "active", "revoked"}]]
  BY DEF WgIndInv, MembersAreNumbered
<1>2. Clusters = 1 .. n /\ NewCluster = n + 1
  <2>1. Clusters = 1 .. n
    BY <1>1 DEF Clusters
  <2>2. Cardinality(1 .. n) = n
    BY FS_Interval
  <2> QED
    BY <2>1, <2>2 DEF NewCluster
<1> DEFINE found == Existing(wgRead)
           keep == IF found = {} THEN NewCluster ELSE Min(found)
           moved == UNION {Active(c) : c \in found \ {keep}}
           joining == moved \cup wgRead
<1>3. found \subseteq Clusters
  BY DEF Existing
<1>4. keep \in Nat /\ (keep \in found \/ (found = {} /\ keep = n + 1 /\ keep \notin Clusters))
  <2>1. found # {} => Min(found) \in found
    <3>1. found \subseteq Nat
      BY <1>2, <1>3
    <3> HIDE DEF found
    <3> QED
      BY <3>1, MinOfNaturals
  <2> QED
    BY <1>2, <1>3, <2>1
<1>5. wgMembers' = Rejoin(keep, found \ {keep}, joining)
  BY DEF Rebuild
<1>6. \A w \in WgWallets : w \in joining <=> (w \in wgRead \/ \E c \in found \ {keep} : w \in Active(c))
  OBVIOUS
<1> HIDE DEF found, keep, moved, joining
<1>7. \A c \in Clusters \cup {keep}, w \in WgWallets :
        wgMembers'[c][w] = IF c = keep THEN (IF w \in joining THEN "active"
                                             ELSE IF c \in Clusters THEN wgMembers[c][w] ELSE "none")
                           ELSE IF c \in found \ {keep} /\ wgMembers[c][w] = "active" THEN "revoked"
                           ELSE wgMembers[c][w]
  BY <1>5 DEF Rejoin
<1>8. Clusters' = Clusters \cup {keep}
  BY <1>5 DEF Rejoin, Clusters
<1>9. MembersAreNumbered'
  <2>1. PICK m \in Nat : 1 .. m = Clusters \cup {keep}
    <3>1. CASE keep \in found
      BY <1>2, <1>3, <3>1
    <3>2. CASE keep = n + 1
      <4>1. 1 .. (n + 1) = (1 .. n) \cup {n + 1}
        OBVIOUS
      <4> QED
        BY <1>2, <3>2, <4>1
    <3> QED
      BY <1>4, <3>1, <3>2
  <2>2. wgMembers' \in [1 .. m -> [WgWallets -> {"none", "active", "revoked"}]]
    BY <1>1, <1>2, <1>5, <2>1 DEF Rejoin
  <2> QED
    BY <2>2 DEF MembersAreNumbered
<1>10. PICK k \in Nat, old \in SUBSET Clusters : k = keep /\ old = found
  BY <1>3, <1>4
<1>11. ASSUME NEW w \in WgWallets
       PROVE  w \in Active(k)' <=> (w \in wgRead \/ \E c \in old \cup {k} : c \in Clusters /\ w \in Active(c))
  <2>1. wgMembers'[k][w] = IF w \in joining THEN "active"
                           ELSE IF k \in Clusters THEN wgMembers[k][w] ELSE "none"
    BY <1>7, <1>10
  <2>2. w \in Active(k)' <=> (w \in joining \/ (k \in Clusters /\ w \in Active(k)))
    BY <2>1 DEF Active
  <2> QED
    BY <1>3, <1>6, <1>10, <2>2
<1>12. ASSUME NEW c \in old \ {k} PROVE Active(c)' = {}
  BY <1>3, <1>7, <1>10 DEF Active
<1>13. ASSUME NEW c \in Clusters \ (old \cup {k}) PROVE Active(c)' = Active(c)
  BY <1>7, <1>10 DEF Active
<1>14. old = Existing(wgRead) /\ (k \in old \/ (old = {} /\ k \notin Clusters)) /\ Clusters' = Clusters \cup {k}
  BY <1>4, <1>8, <1>10 DEF found
<1> QED
  BY <1>9, <1>11, <1>12, <1>13, <1>14

LEMMA RebuildsAreSound ==
  ASSUME WgIndInv, Rebuild
  PROVE  WgIndInv' /\ ClusteredStaysClustered
<1>1. PICK keep \in Nat, found \in SUBSET Clusters :
           /\ found = Existing(wgRead)
           /\ keep \in found \/ (found = {} /\ keep \notin Clusters)
           /\ Clusters' = Clusters \cup {keep} /\ MembersAreNumbered'
           /\ \A w \in WgWallets :
                w \in Active(keep)' <=> (w \in wgRead \/ \E c \in found \cup {keep} : c \in Clusters /\ w \in Active(c))
           /\ \A c \in found \ {keep} : Active(c)' = {}
           /\ \A c \in Clusters \ (found \cup {keep}) : Active(c)' = Active(c)
  BY FoldMoves
<1>2. /\ \A c : Active(c) \subseteq WgWallets /\ Active(c)' \subseteq WgWallets
      /\ \A c \in Clusters : \A w \in Active(c) : Evidenced(w)
      /\ \A c \in Clusters \ found : Active(c) \cap wgRead = {}
      /\ wgRead \subseteq WgWallets /\ \A w \in wgRead : Evidenced(w)
  BY <1>1 DEF WgIndInv, Active, ClustersNeedEvidence, Evidenced, Strong, Existing, ReadIsEvidenced
<1>3. wgEdges' = wgEdges /\ wgRead' = {}
  BY DEF Rebuild
<1>4. ASSUME NEW d \in Clusters', NEW w \in WgWallets, w \in Active(keep)', w \in Active(d)'
      PROVE  d = keep
  <2> SUFFICES ASSUME d # keep PROVE FALSE
    OBVIOUS
  <2>1. d \in Clusters \ found /\ w \in Active(d)
    BY <1>1, <1>4
  <2>2. w \notin wgRead
    BY <1>2, <2>1
  <2>3. PICK c \in found \cup {keep} : c \in Clusters /\ w \in Active(c)
    BY <1>1, <1>4, <2>2
  <2>4. c = d
    BY <2>1, <2>3 DEF WgIndInv, ActiveOnce
  <2> QED
    BY <2>1, <2>4
<1>5. ActiveOnce'
  <2> SUFFICES ASSUME NEW c \in Clusters', NEW d \in Clusters', NEW w \in WgWallets,
                      w \in Active(c)', w \in Active(d)'
               PROVE  c = d
    BY DEF ActiveOnce
  <2>1. CASE c = keep \/ d = keep
    BY <1>4, <2>1
  <2>2. CASE c # keep /\ d # keep
    <3>1. c \in Clusters /\ d \in Clusters /\ w \in Active(c) /\ w \in Active(d)
      BY <1>1, <2>2
    <3> QED
      BY <3>1 DEF WgIndInv, ActiveOnce
  <2> QED
    BY <2>1, <2>2
<1>6. ClustersNeedEvidence'
  <2>1. ASSUME NEW c \in Clusters', NEW w \in Active(c)' PROVE Evidenced(w)
    <3>1. w \in WgWallets
      BY <1>2
    <3>2. CASE c = keep
      BY <1>1, <1>2, <2>1, <3>1, <3>2
    <3>3. CASE c # keep
      BY <1>1, <1>2, <2>1, <3>3
    <3> QED
      BY <3>2, <3>3
  <2> QED
    BY <1>3, <2>1 DEF ClustersNeedEvidence, Evidenced, Strong
<1>7. ClusteredStaysClustered
  <2> SUFFICES ASSUME NEW w \in WgWallets, NEW v \in WgWallets, NEW c \in Clusters,
                      w \in Active(c), v \in Active(c)
               PROVE  \E d \in Clusters' : w \in Active(d)' /\ v \in Active(d)'
    BY DEF ClusteredStaysClustered, Clusters, Active
  <2>1. CASE c \in found \cup {keep}
    BY <1>1, <2>1
  <2>2. CASE c \notin found \cup {keep}
    BY <1>1, <2>2
  <2> QED
    BY <2>1, <2>2
<1> QED
  BY <1>1, <1>3, <1>5, <1>6, <1>7 DEF WgIndInv, EdgesAreEdges, ReadIsEvidenced, Strong

LEMMA WgInductive ==
  ASSUME WgIndInv, [WgNext]_wgVars
  PROVE  WgIndInv' /\ [ClusteredStaysClustered]_wgVars
<1>1. CASE WgNext
  BY <1>1, FundingEdgesAdd, EvidenceEdgesAdd, ReadsAreEvidenced, RebuildsAreSound DEF WgNext
<1>2. CASE UNCHANGED wgVars
  BY <1>2 DEF wgVars, WgIndInv, EdgesAreEdges, MembersAreNumbered, ReadIsEvidenced, Evidenced,
              ActiveOnce, ClustersNeedEvidence, Clusters, Active, Strong
<1> QED
  BY <1>1, <1>2

LEMMA OnceIsAtMostOne == ASSUME WgIndInv PROVE OneActiveCluster
<1> SUFFICES ASSUME NEW w \in WgWallets
             PROVE  Cardinality({c \in Clusters : w \in Active(c)}) <= 1
  BY DEF OneActiveCluster
<1> DEFINE in == {c \in Clusters : w \in Active(c)}
<1>1. \A c, d \in in : c = d
  BY DEF WgIndInv, ActiveOnce
<1> HIDE DEF in
<1>2. in = {} \/ \E c : in = {c}
  BY <1>1
<1>3. Cardinality(in) = 0 \/ Cardinality(in) = 1
  BY <1>2, FS_EmptySet, FS_Singleton
<1> QED
  BY <1>3 DEF in

\* After every step of update_funding_edges, record_edge_evidence and
\* rebuild_cluster_for a wallet is active in one cluster at most, every member is an
\* end of an edge that alone reaches the threshold, and wallets that shared a
\* cluster share one, for any wallets, any evidence and any number of edges.
THEOREM SoundClusters == WgSpec => ClustersAreSound
<1>1. WgIndInv => OneActiveCluster /\ ClustersNeedEvidence
  BY OnceIsAtMostOne DEF WgIndInv
<1>2. WgIndInv /\ [WgNext]_wgVars
        => [OneActiveCluster' /\ ClustersNeedEvidence' /\ ClusteredStaysClustered]_wgVars
  <2> SUFFICES ASSUME WgIndInv, [WgNext]_wgVars
               PROVE  [OneActiveCluster' /\ ClustersNeedEvidence' /\ ClusteredStaysClustered]_wgVars
    OBVIOUS
  <2>1. WgIndInv' /\ [ClusteredStaysClustered]_wgVars
    BY WgInductive
  <2>2. OneActiveCluster' /\ ClustersNeedEvidence'
    BY <1>1, <2>1, PTL
  <2> QED
    BY <2>1, <2>2
<1>3. WgIndInv /\ [WgNext]_wgVars => WgIndInv'
  BY WgInductive
<1> QED
  BY <1>2, <1>3, WgInitial, PTL DEF WgSpec, ClustersAreSound

(***************************************************************************)
(* AdminPanel.                                                             *)
(***************************************************************************)

\* Idle is a request, and so is an answer.
LEMMA AnswersAreRequests ==
  ASSUME NEW status \in {0, 200, 303, 400, 401, 403, 429, 500}
  PROVE  LET r == [Idle EXCEPT !.status = status]
         IN r \in ApRequests /\ r.pc = "idle" /\ r.token = NoToken /\ r.status = status
BY DEF Idle, ApRequests, NoToken

\* A request that goes on is a request.
LEMMA RequestsGoOn ==
  ASSUME NEW q \in ApRequests
  PROVE  /\ \A pc \in {"login", "validate", "write"} :
              LET r == [q EXCEPT !.pc = pc, !.status = 0]
              IN /\ r \in ApRequests /\ r.pc = pc /\ r.status = 0
                 /\ r.token = q.token /\ r.batch = q.batch /\ r.done = q.done
         /\ LET r == [q EXCEPT !.done = q.done + 1]
            IN /\ r \in ApRequests /\ r.pc = q.pc /\ r.status = q.status
               /\ r.token = q.token /\ r.batch = q.batch /\ r.done = q.done + 1
<1>1. ASSUME NEW pc \in {"login", "validate", "write"}
      PROVE  LET r == [q EXCEPT !.pc = pc, !.status = 0]
             IN /\ r \in ApRequests /\ r.pc = pc /\ r.status = 0
                /\ r.token = q.token /\ r.batch = q.batch /\ r.done = q.done
  <2> DEFINE to == {0, 200, 303, 400, 401, 403, 429, 500}
  <2>1. 0 \in to
    OBVIOUS
  <2>2. q \in [pc : {"idle", "login", "workspace", "validate", "write"},
               token : Tokens \union {NoToken}, batch : ApBatches \union {NoBatch},
               done : Nat, status : to]
    BY DEF ApRequests
  <2> HIDE DEF to
  <2>3. LET r == [q EXCEPT !.pc = pc, !.status = 0]
        IN /\ r \in [pc : {"idle", "login", "workspace", "validate", "write"},
                      token : Tokens \union {NoToken}, batch : ApBatches \union {NoBatch},
                      done : Nat, status : to]
           /\ r.pc = pc /\ r.status = 0
           /\ r.token = q.token /\ r.batch = q.batch /\ r.done = q.done
    BY <2>1, <2>2
  <2> QED
    BY <2>3 DEF to, ApRequests
<1>2. LET r == [q EXCEPT !.done = q.done + 1]
      IN /\ r \in ApRequests /\ r.pc = q.pc /\ r.status = q.status
         /\ r.token = q.token /\ r.batch = q.batch /\ r.done = q.done + 1
  <2>1. q.done \in Nat /\ q.done + 1 \in Nat
    BY DEF ApRequests
  <2> QED
    BY <2>1 DEF ApRequests
<1> QED
  BY <1>1, <1>2

\* What the step of one client's handler does to the requests: that client's is
\* replaced by r, which is idle, or logging in, or authorised by a token that is
\* valid now or was during the request.
Moves(c, r) ==
  /\ apReq' = [apReq EXCEPT ![c] = r] /\ r \in ApRequests
  /\ r.pc # "idle" => r.status = 0
  /\ r.pc \in Authorised => /\ apConf /\ r.token # NoToken
                            /\ \/ Valid(r.token)
                               \/ apReq[c].pc \in Authorised /\ r.token = apReq[c].token
  /\ r.pc \in {"workspace", "validate"} => r.done = 0
  /\ r.pc = "write" => AllValid(r.batch) /\ r.done < Len(r.batch)
  /\ r.status = 401 => \/ ~Valid(apCookie[c])
                       \/ apReq[c].pc = "workspace" /\ WorkspaceFor(apReq[c].token) = Unbound

\* No client's request moves.
NobodyMoves == apReq' = apReq

\* The history variable keeps what a request held.
LEMMA HeldIsKept ==
  ASSUME ApIndInv, Remember, NEW c \in ApClients, apReq'[c].token # NoToken,
         Valid(apReq'[c].token) \/ (apReq[c].token # NoToken /\ apHeld[c])
  PROVE  apHeld'[c]
BY DEF Remember

LEMMA OneRequestMoves ==
  ASSUME ApIndInv, Remember, UNCHANGED apConf, NEW c \in ApClients, NEW r, Moves(c, r)
  PROVE  /\ apReq' \in [ApClients -> ApRequests]
         /\ \A d \in ApClients : RequestIsSound(d)'
         /\ RefusalsAreReal
<1>1. apReq \in [ApClients -> ApRequests] /\ \A d \in ApClients : RequestIsSound(d)
  BY DEF ApIndInv
<1>2. /\ apReq' \in [ApClients -> ApRequests] /\ apReq'[c] = r
      /\ \A d \in ApClients : d # c => apReq'[d] = apReq[d]
  BY <1>1 DEF Moves
<1>3. ASSUME NEW d \in ApClients, d # c PROVE RequestIsSound(d)'
  <2>1. apReq'[d] = apReq[d] /\ RequestIsSound(d)
    BY <1>1, <1>2, <1>3
  <2>2. apReq[d].pc \in Authorised => apHeld'[d]
    BY <2>1, HeldIsKept DEF RequestIsSound
  <2> QED
    BY <2>1, <2>2 DEF RequestIsSound
<1>4. RequestIsSound(c)'
  <2>1. r.pc \in Authorised => apHeld'[c]
    <3>1. apReq[c].pc \in Authorised => apReq[c].token # NoToken /\ apHeld[c]
      BY <1>1 DEF RequestIsSound
    <3> QED
      BY <1>2, <3>1, HeldIsKept DEF Moves
  <2> QED
    BY <1>2, <2>1 DEF Moves, RequestIsSound
<1>5. RefusalsAreReal
  BY <1>2 DEF Moves, RefusalsAreReal
<1> QED
  BY <1>2, <1>3, <1>4, <1>5

LEMMA NoRequestMoves ==
  ASSUME ApIndInv, Remember, UNCHANGED apConf, NobodyMoves
  PROVE  /\ apReq' \in [ApClients -> ApRequests]
         /\ \A d \in ApClients : RequestIsSound(d)'
         /\ RefusalsAreReal
<1>1. apReq \in [ApClients -> ApRequests] /\ \A d \in ApClients : RequestIsSound(d)
  BY DEF ApIndInv
<1>2. ASSUME NEW d \in ApClients PROVE RequestIsSound(d)'
  <2>1. apReq[d].pc \in Authorised => apHeld'[d]
    BY <1>1, HeldIsKept DEF RequestIsSound, NobodyMoves
  <2> QED
    BY <1>1, <2>1 DEF RequestIsSound, NobodyMoves
<1> QED
  BY <1>1, <1>2 DEF NobodyMoves, RefusalsAreReal

LEMMA AnswerMoves ==
  ASSUME NEW c \in ApClients, NEW status \in {0, 200, 303, 400, 401, 403, 429, 500}, Answer(c, status),
         status = 401 => \/ ~Valid(apCookie[c])
                         \/ apReq[c].pc = "workspace" /\ WorkspaceFor(apReq[c].token) = Unbound
  PROVE  \E r : Moves(c, r) /\ r.pc = "idle"
<1> DEFINE r == [Idle EXCEPT !.status = status]
<1>1. r \in ApRequests /\ r.pc = "idle" /\ r.status = status
  BY AnswersAreRequests
<1>2. apReq' = [apReq EXCEPT ![c] = r]
  BY DEF Answer
<1> HIDE DEF r
<1>3. Moves(c, r)
  BY <1>1, <1>2 DEF Moves, Authorised
<1> QED
  BY <1>1, <1>3

\* A handler that goes on keeps its token and its body.
LEMMA ProceedMoves ==
  ASSUME ApIndInv, NEW c \in ApClients, NEW pc \in {"login", "validate", "write"}, Proceed(c, pc),
         pc # "login" => apReq[c].pc \in Authorised,
         pc = "validate" => apReq[c].pc = "workspace",
         pc = "write" => AllValid(apReq[c].batch) /\ apReq[c].done < Len(apReq[c].batch)
  PROVE  \E r : Moves(c, r) /\ r.pc = pc
<1> DEFINE r == [apReq[c] EXCEPT !.pc = pc, !.status = 0]
<1>1. apReq[c] \in ApRequests /\ apReq' = [apReq EXCEPT ![c] = r]
  BY DEF ApIndInv, Proceed
<1>2. /\ r \in ApRequests /\ r.pc = pc /\ r.status = 0
      /\ r.token = apReq[c].token /\ r.batch = apReq[c].batch /\ r.done = apReq[c].done
  BY <1>1, RequestsGoOn
<1>3. /\ apReq[c].pc \in Authorised => apConf /\ apReq[c].token # NoToken
      /\ apReq[c].pc = "workspace" => apReq[c].done = 0
  BY DEF ApIndInv, RequestIsSound
<1> HIDE DEF r
<1>4. Moves(c, r)
  BY <1>1, <1>2, <1>3 DEF Moves, Authorised
<1> QED
  BY <1>2, <1>4

(* The limiter.                                                            *)

LEMMA CountsAreFinite ==
  ASSUME FailuresAreRows, NEW k \in ApKeys
  PROVE  /\ IsFiniteSet(RecentFailures(k)) /\ Cardinality(RecentFailures(k)) \in Nat
         /\ IsFiniteSet(Sharing(k)) /\ Cardinality(Sharing(k)) \in Nat
         /\ IsFiniteSet(InLogin(k)) /\ Cardinality(InLogin(k)) \in Nat
         /\ Cardinality(InLogin(k)) <= Cardinality(Sharing(k))
         /\ ApMaxFailures \in Nat /\ ApMaxFailures >= 1
<1>1. IsFiniteSet(apFailures[k]) /\ RecentFailures(k) \subseteq apFailures[k]
  BY DEF FailuresAreRows, RecentFailures
<1>2. IsFiniteSet(ApClients) /\ Sharing(k) \subseteq ApClients /\ InLogin(k) \subseteq Sharing(k)
  BY ApAssumption DEF Sharing, InLogin
<1>3. IsFiniteSet(RecentFailures(k)) /\ IsFiniteSet(Sharing(k))
  BY <1>1, <1>2, FS_Subset
<1>4. IsFiniteSet(InLogin(k)) /\ Cardinality(InLogin(k)) <= Cardinality(Sharing(k))
  BY <1>2, <1>3, FS_Subset
<1> QED
  BY <1>3, <1>4, FS_CardinalityType, ApAssumption

\* Fewer failures in the window and nobody new past the read: the bound stays.
LEMMA FewerStayBounded ==
  ASSUME FailuresAreRows, FailuresAreRows', NEW k \in ApKeys,
         Cardinality(RecentFailures(k)) + Cardinality(InLogin(k))
           <= ApMaxFailures - 1 + Cardinality(Sharing(k)),
         RecentFailures(k)' \subseteq RecentFailures(k), InLogin(k)' \subseteq InLogin(k)
  PROVE  Cardinality(RecentFailures(k)') + Cardinality(InLogin(k)')
           <= ApMaxFailures - 1 + Cardinality(Sharing(k))
<1>1. /\ Cardinality(RecentFailures(k)) \in Nat /\ Cardinality(InLogin(k)) \in Nat
      /\ Cardinality(Sharing(k)) \in Nat /\ ApMaxFailures \in Nat
      /\ IsFiniteSet(RecentFailures(k)) /\ IsFiniteSet(InLogin(k))
  BY CountsAreFinite
<1>2. /\ Cardinality(RecentFailures(k)') \in Nat
      /\ Cardinality(RecentFailures(k)') <= Cardinality(RecentFailures(k))
  BY <1>1, FS_Subset, FS_CardinalityType
<1>3. Cardinality(InLogin(k)') \in Nat /\ Cardinality(InLogin(k)') <= Cardinality(InLogin(k))
  BY <1>1, FS_Subset, FS_CardinalityType
<1> QED
  BY <1>1, <1>2, <1>3

LEMMA SharingIsFixed == ASSUME NEW k \in ApKeys PROVE Sharing(k)' = Sharing(k)
BY DEF Sharing

\* A request that does not enter the login leaves the others in it.
LEMMA LoginsLeave ==
  ASSUME ApIndInv, NEW c \in ApClients, NEW r, Moves(c, r), r.pc # "login", NEW k \in ApKeys
  PROVE  InLogin(k)' = InLogin(k) \ {c}
<1>1. \A d \in ApClients : apReq'[d] = IF d = c THEN r ELSE apReq[d]
  BY DEF Moves, ApIndInv
<1> QED
  BY <1>1 DEF InLogin, Sharing

LEMMA LimiterStays ==
  ASSUME ApIndInv, FailuresAreRows', \A k \in ApKeys : RecentFailures(k)' \subseteq RecentFailures(k),
         NobodyMoves \/ \E c \in ApClients : \E r : Moves(c, r) /\ r.pc # "login"
  PROVE  LimiterBound'
<1> SUFFICES ASSUME NEW k \in ApKeys
             PROVE  Cardinality(RecentFailures(k)') + Cardinality(InLogin(k)')
                      <= ApMaxFailures - 1 + Cardinality(Sharing(k))
  BY SharingIsFixed DEF LimiterBound
<1>1. InLogin(k)' \subseteq InLogin(k)
  <2>1. CASE NobodyMoves
    BY <2>1 DEF NobodyMoves, InLogin, Sharing
  <2>2. CASE \E c \in ApClients : \E r : Moves(c, r) /\ r.pc # "login"
    BY <2>2, LoginsLeave
  <2> QED
    BY <2>1, <2>2
<1> QED
  BY <1>1, FewerStayBounded DEF ApIndInv, LimiterBound

\* The attempt that enters read fewer failures than the threshold, and those in
\* the login are at most all who share the key.
LEMMA LimiterAdmits ==
  ASSUME ApIndInv, NEW c \in ApClients, NEW r, Moves(c, r), r.pc = "login",
         ~RateLimited(ApKeyOf[c]), UNCHANGED <<apFailures, apNow>>
  PROVE  LimiterBound'
<1>1. FailuresAreRows /\ FailuresAreRows' /\ \A k \in ApKeys : RecentFailures(k)' = RecentFailures(k)
  BY DEF ApIndInv, FailuresAreRows, RecentFailures
<1> SUFFICES ASSUME NEW k \in ApKeys
             PROVE  Cardinality(RecentFailures(k)') + Cardinality(InLogin(k)')
                      <= ApMaxFailures - 1 + Cardinality(Sharing(k))
  BY SharingIsFixed DEF LimiterBound
<1>2. CASE k = ApKeyOf[c]
  <2>1. Cardinality(RecentFailures(k)) \in Nat /\ Cardinality(RecentFailures(k)) < ApMaxFailures
    BY <1>1, <1>2, CountsAreFinite DEF RateLimited, ThresholdReached
  <2>2. /\ InLogin(k)' \subseteq Sharing(k) /\ IsFiniteSet(Sharing(k))
        /\ ApMaxFailures \in Nat /\ Cardinality(Sharing(k)) \in Nat
    <3>1. InLogin(k)' \subseteq Sharing(k)
      BY DEF InLogin, Sharing
    <3> QED
      BY <1>1, <3>1, CountsAreFinite
  <2>3. Cardinality(InLogin(k)') \in Nat /\ Cardinality(InLogin(k)') <= Cardinality(Sharing(k))
    BY <2>2, FS_Subset, FS_CardinalityType
  <2> QED
    BY <1>1, <2>1, <2>2, <2>3
<1>3. CASE k # ApKeyOf[c]
  <2>1. \A d \in ApClients : d # c => apReq'[d] = apReq[d]
    BY DEF Moves, ApIndInv
  <2>2. InLogin(k)' \subseteq InLogin(k)
    BY <1>3, <2>1 DEF InLogin, Sharing
  <2> QED
    BY <1>1, <2>2, FewerStayBounded DEF ApIndInv, LimiterBound
<1> QED
  BY <1>2, <1>3

\* A recorded failure replaces an attempt that was past the read.
LEMMA LimiterCounts ==
  ASSUME ApIndInv, FailuresAreRows', NEW c \in ApClients, NEW r, Moves(c, r), r.pc = "idle",
         apReq[c].pc = "login", NEW f, UNCHANGED apNow,
         apFailures' = [apFailures EXCEPT ![ApKeyOf[c]] = @ \cup {f}]
  PROVE  LimiterBound'
<1>1. FailuresAreRows
  BY DEF ApIndInv
<1> SUFFICES ASSUME NEW k \in ApKeys
             PROVE  Cardinality(RecentFailures(k)') + Cardinality(InLogin(k)')
                      <= ApMaxFailures - 1 + Cardinality(Sharing(k))
  BY SharingIsFixed DEF LimiterBound
<1>2. InLogin(k)' = InLogin(k) \ {c}
  BY LoginsLeave
<1>3. CASE k = ApKeyOf[c]
  <2>1. RecentFailures(k)' \subseteq RecentFailures(k) \cup {f}
    BY <1>1, <1>3 DEF RecentFailures, FailuresAreRows
  <2>2. c \in InLogin(k)
    BY <1>3 DEF InLogin, Sharing
  <2>3. /\ IsFiniteSet(RecentFailures(k)) /\ Cardinality(RecentFailures(k)) \in Nat
        /\ IsFiniteSet(InLogin(k)) /\ Cardinality(InLogin(k)) \in Nat
        /\ Cardinality(Sharing(k)) \in Nat /\ ApMaxFailures \in Nat
    BY <1>1, CountsAreFinite
  <2>4. /\ IsFiniteSet(RecentFailures(k) \cup {f})
        /\ Cardinality(RecentFailures(k) \cup {f}) <= Cardinality(RecentFailures(k)) + 1
    <3> DEFINE S == RecentFailures(k)
    <3>1. IsFiniteSet(S) /\ Cardinality(S) \in Nat
      BY <2>3
    <3> HIDE DEF S
    <3>2. IsFiniteSet(S \cup {f})
      BY <3>1, FS_AddElement
    <3>3. Cardinality(S \cup {f}) = IF f \in S THEN Cardinality(S) ELSE Cardinality(S) + 1
      BY <3>1, FS_AddElement
    <3> QED
      BY <3>1, <3>2, <3>3 DEF S
  <2>5. /\ Cardinality(RecentFailures(k)') \in Nat
        /\ Cardinality(RecentFailures(k)') <= Cardinality(RecentFailures(k)) + 1
    <3>1. /\ IsFiniteSet(RecentFailures(k)')
          /\ Cardinality(RecentFailures(k)') <= Cardinality(RecentFailures(k) \cup {f})
      BY <2>1, <2>4, FS_Subset
    <3> QED
      BY <2>3, <2>4, <3>1, FS_CardinalityType
  <2>6. Cardinality(InLogin(k)') = Cardinality(InLogin(k)) - 1
    BY <1>2, <2>2, <2>3, FS_RemoveElement
  <2>7. Cardinality(RecentFailures(k)) + Cardinality(InLogin(k)) <= ApMaxFailures - 1 + Cardinality(Sharing(k))
    BY DEF ApIndInv, LimiterBound
  <2> QED
    BY <2>3, <2>5, <2>6, <2>7
<1>4. CASE k # ApKeyOf[c]
  <2>1. RecentFailures(k)' = RecentFailures(k)
    BY <1>1, <1>4 DEF RecentFailures, FailuresAreRows
  <2> QED
    BY <1>1, <1>2, <2>1, FewerStayBounded DEF ApIndInv, LimiterBound
<1> QED
  BY <1>3, <1>4

(* The steps.                                                              *)

\* What every step owes: the invariant, and both parts of PanelIsGuarded.
PanelHolds == ApIndInv' /\ RefusalsAreReal /\ WritesHeldASession

LEMMA SessionsStay ==
  ASSUME ApIndInv, UNCHANGED <<apSessions, apIssued, apSuccesses, apCookie, apOut>>
  PROVE  SessionsAreIssued'
BY DEF ApIndInv, SessionsAreIssued, LogoutIsHonest

LEMMA FailuresStay ==
  ASSUME ApIndInv, UNCHANGED <<apFailures, apNow>>
  PROVE  FailuresAreRows' /\ \A k \in ApKeys : RecentFailures(k)' = RecentFailures(k)
BY DEF ApIndInv, FailuresAreRows, RecentFailures

LEMMA StoredStays ==
  ASSUME ApIndInv, UNCHANGED apStored
  PROVE  StoredIsValid' /\ WritesHeldASession
BY DEF ApIndInv, StoredIsValid, WritesHeldASession, AllValid

\* A step that only moves its request.
LEMMA MovesOnly ==
  ASSUME ApIndInv, Remember, UNCHANGED <<apConf, apActive, apNow>>, NEW c \in ApClients,
         NEW r, Moves(c, r), r.pc = "login" => ~RateLimited(ApKeyOf[c]),
         UNCHANGED <<apStore, apCookie, apStored, apOut>>
  PROVE  PanelHolds
<1>1. UNCHANGED <<apSessions, apIssued, apSuccesses, apFailures>>
  BY DEF apStore
<1>2. SessionsAreIssued' /\ StoredIsValid' /\ WritesHeldASession
  BY <1>1, SessionsStay, StoredStays
<1>3. FailuresAreRows' /\ \A k \in ApKeys : RecentFailures(k)' = RecentFailures(k)
  BY <1>1, FailuresStay
<1>4. LimiterBound'
  <2>1. CASE r.pc = "login"
    BY <1>1, <2>1, LimiterAdmits
  <2>2. CASE r.pc # "login"
    BY <1>3, <2>2, LimiterStays
  <2> QED
    BY <2>1, <2>2
<1>5. /\ apReq' \in [ApClients -> ApRequests] /\ \A d \in ApClients : RequestIsSound(d)'
      /\ RefusalsAreReal
  BY OneRequestMoves
<1>6. apActive' \subseteq ApSpaces /\ apNow' \in Nat
  BY DEF ApIndInv
<1> QED
  BY <1>2, <1>3, <1>4, <1>5, <1>6 DEF PanelHolds, ApIndInv

LEMMA LoginCheckHolds ==
  ASSUME ApIndInv, Remember, UNCHANGED <<apConf, apActive, apNow>>, NEW c \in ApClients, LoginCheck(c)
  PROVE  PanelHolds
<1>1. UNCHANGED <<apStore, apCookie, apStored, apOut>>
  BY DEF LoginCheck
<1>2. CASE Answer(c, 403) \/ Answer(c, 500) \/ Answer(c, 429)
  <2>1. \E r : Moves(c, r) /\ r.pc = "idle"
    BY <1>2, AnswerMoves
  <2> QED
    BY <1>1, <2>1, MovesOnly
<1>3. CASE ~RateLimited(ApKeyOf[c]) /\ Proceed(c, "login")
  <2>1. \E r : Moves(c, r) /\ r.pc = "login"
    BY <1>3, ProceedMoves
  <2> QED
    BY <1>1, <1>3, <2>1, MovesOnly
<1> QED
  BY <1>2, <1>3 DEF LoginCheck

LEMMA LoginWrongHolds ==
  ASSUME ApIndInv, Remember, UNCHANGED <<apConf, apActive, apNow>>, NEW c \in ApClients, LoginWrong(c)
  PROVE  PanelHolds
<1>1. UNCHANGED <<apSessions, apIssued, apSuccesses, apCookie, apStored, apOut>> /\ apReq[c].pc = "login"
  BY DEF LoginWrong
<1>2. PICK r : Moves(c, r) /\ r.pc = "idle"
  BY AnswerMoves DEF LoginWrong
<1>3. CASE UNCHANGED apFailures
  <2>1. UNCHANGED <<apStore, apCookie, apStored, apOut>>
    BY <1>1, <1>3 DEF apStore
  <2> QED
    BY <1>2, <2>1, MovesOnly
<1>4. CASE apFailures' = [apFailures EXCEPT ![ApKeyOf[c]] = @ \cup {NewFailure(ApKeyOf[c])}]
  <2> DEFINE k == ApKeyOf[c]
             f == NewFailure(k)
  <2>1. k \in ApKeys /\ IsFiniteSet(apFailures[k]) /\ apFailures \in [ApKeys -> SUBSET [at : Nat, n : Nat]]
    BY DEF ApKeys, ApIndInv, FailuresAreRows
  <2>2. f \in [at : Nat, n : Nat]
    <3> DEFINE same == {g \in apFailures[k] : g.at = apNow}
    <3>1. Cardinality(same) \in Nat
      <4>1. same \subseteq apFailures[k]
        OBVIOUS
      <4> HIDE DEF same
      <4> QED
        BY <2>1, <4>1, FS_Subset, FS_CardinalityType
    <3>2. f = [at |-> apNow, n |-> Cardinality(same)] /\ apNow \in Nat
      BY DEF NewFailure, ApIndInv
    <3> HIDE DEF same, f
    <3> QED
      BY <3>1, <3>2
  <2>3. apFailures' = [apFailures EXCEPT ![k] = apFailures[k] \cup {f}]
    BY <1>4, <2>1
  <2> HIDE DEF f
  <2>4. IsFiniteSet(apFailures[k] \cup {f})
    BY <2>1, FS_AddElement
  <2>5. FailuresAreRows'
    <3>1. \A j \in ApKeys : apFailures'[j] = IF j = k THEN apFailures[k] \cup {f} ELSE apFailures[j]
      BY <2>1, <2>3
    <3>2. apFailures' \in [ApKeys -> SUBSET [at : Nat, n : Nat]]
      BY <2>1, <2>2, <2>3
    <3> QED
      BY <2>4, <3>1, <3>2 DEF ApIndInv, FailuresAreRows
  <2>6. LimiterBound'
    BY <1>1, <1>2, <2>3, <2>5, LimiterCounts
  <2>7. SessionsAreIssued' /\ StoredIsValid' /\ WritesHeldASession
    BY <1>1, SessionsStay, StoredStays
  <2>8. /\ apReq' \in [ApClients -> ApRequests] /\ \A d \in ApClients : RequestIsSound(d)'
        /\ RefusalsAreReal
    BY <1>2, OneRequestMoves
  <2>9. apActive' \subseteq ApSpaces /\ apNow' \in Nat
    BY DEF ApIndInv
  <2> QED
    BY <2>5, <2>6, <2>7, <2>8, <2>9 DEF PanelHolds, ApIndInv
<1> QED
  BY <1>3, <1>4 DEF LoginWrong

\* The workspace of a new session is one of the workspaces or none.
LEMMA NewSessionIsTyped ==
  ASSUME ApIndInv
  PROVE  NewSession \in [expires : Nat, ws : ApSpaces \union {Unbound}]
<1>1. SelectWorkspace(apActive) \in ApSpaces \union {Unbound}
  <2>1. CASE Cardinality(apActive) = 1
    <3>1. apActive = {} \/ (CHOOSE w \in apActive : TRUE) \in apActive
      OBVIOUS
    <3>2. apActive # {}
      BY <2>1, FS_EmptySet
    <3> QED
      BY <3>1, <3>2 DEF ApIndInv, SelectWorkspace
  <2>2. CASE Cardinality(apActive) # 1
    BY <2>2 DEF ApIndInv, SelectWorkspace
  <2> QED
    BY <2>1, <2>2
<1>2. apNow + ApTtl \in Nat
  BY ApAssumption DEF ApIndInv
<1> QED
  BY <1>1, <1>2 DEF NewSession

\* A step that ends its request and records no failure: the parts about requests,
\* the clock and the limiter hold, whatever it does to sessions and settings.
LEMMA EndsOnly ==
  ASSUME ApIndInv, Remember, UNCHANGED <<apConf, apActive, apNow>>, NEW c \in ApClients,
         NEW r, Moves(c, r), r.pc # "login", FailuresAreRows',
         \A k \in ApKeys : RecentFailures(k)' \subseteq RecentFailures(k),
         SessionsAreIssued', StoredIsValid', WritesHeldASession
  PROVE  PanelHolds
<1>1. LimiterBound'
  BY LimiterStays
<1>2. /\ apReq' \in [ApClients -> ApRequests] /\ \A d \in ApClients : RequestIsSound(d)'
      /\ RefusalsAreReal
  BY OneRequestMoves
<1>3. apActive' \subseteq ApSpaces /\ apNow' \in Nat
  BY DEF ApIndInv
<1> QED
  BY <1>1, <1>2, <1>3 DEF PanelHolds, ApIndInv

LEMMA EstablishHolds ==
  ASSUME ApIndInv, Remember, UNCHANGED <<apConf, apActive, apNow>>, NEW c \in ApClients,
         EstablishSession(c)
  PROVE  PanelHolds
<1>1. UNCHANGED <<apStored, apOut>>
  BY DEF EstablishSession
<1>2. PICK r : Moves(c, r) /\ r.pc = "idle"
  BY AnswerMoves DEF EstablishSession
<1>3. CASE UNCHANGED <<apStore, apCookie>>
  BY <1>1, <1>2, <1>3, MovesOnly
<1>4. CASE /\ apSuccesses' = apSuccesses + 1 /\ apIssued' = apIssued + 1
           /\ apFailures' = [apFailures EXCEPT ![ApKeyOf[c]] = {}]
           /\ apSessions' = [apSessions EXCEPT ![apIssued'] = NewSession]
           /\ apCookie' = [apCookie EXCEPT ![c] = apIssued'] \/ apCookie' = apCookie
  <2>1. /\ apFailures \in [ApKeys -> SUBSET [at : Nat, n : Nat]] /\ ApKeyOf[c] \in ApKeys
        /\ \A k \in ApKeys : apFailures'[k] = IF k = ApKeyOf[c] THEN {} ELSE apFailures[k]
    BY <1>4 DEF ApIndInv, FailuresAreRows, ApKeys
  <2>2. FailuresAreRows'
    BY <1>4, <2>1, FS_EmptySet DEF ApIndInv, FailuresAreRows
  <2>3. \A k \in ApKeys : RecentFailures(k)' \subseteq RecentFailures(k)
    BY <2>1 DEF RecentFailures
  <2>4. SessionsAreIssued'
    <3>1. /\ apIssued \in Nat /\ apIssued < ApMaxTokens /\ ApMaxTokens \in Nat
          /\ apIssued + 1 \in Tokens /\ apIssued' \in 0 .. ApMaxTokens
      BY <1>4, ApAssumption DEF ApIndInv, SessionsAreIssued, EstablishSession, Tokens
    <3>2. apSessions' \in [Tokens -> [expires : Nat, ws : ApSpaces \union {Unbound}]]
      BY <1>4, <3>1, NewSessionIsTyped DEF ApIndInv, SessionsAreIssued
    <3>3. \A t \in Tokens : t # apIssued + 1 => apSessions'[t] = apSessions[t]
      BY <1>4 DEF ApIndInv, SessionsAreIssued
    <3>4. \A t \in Tokens : t > apIssued' => apSessions'[t] = NoSession
      BY <1>4, <3>1, <3>3 DEF ApIndInv, SessionsAreIssued, Tokens
    <3>5. apCookie' \in [ApClients -> 0 .. apIssued']
      BY <1>4, <3>1 DEF ApIndInv, SessionsAreIssued
    <3>6. apOut' \subseteq 1 .. apIssued'
      BY <1>1, <1>4, <3>1 DEF ApIndInv, SessionsAreIssued
    <3>7. LogoutIsHonest'
      <4>1. \A t \in apOut : t \in Tokens /\ t # apIssued + 1 /\ apSessions[t] = NoSession
        BY <3>1 DEF ApIndInv, SessionsAreIssued, LogoutIsHonest, Tokens
      <4> QED
        BY <1>1, <3>3, <4>1 DEF LogoutIsHonest, NoSession
    <3> QED
      BY <1>4, <3>1, <3>2, <3>4, <3>5, <3>6, <3>7 DEF ApIndInv, SessionsAreIssued
  <2> QED
    BY <1>1, <1>2, <2>2, <2>3, <2>4, StoredStays, EndsOnly
<1> QED
  BY <1>3, <1>4 DEF EstablishSession

LEMMA LogoutHolds ==
  ASSUME ApIndInv, Remember, UNCHANGED <<apConf, apActive, apNow>>, NEW c \in ApClients, Logout(c)
  PROVE  PanelHolds
<1>1. UNCHANGED <<apIssued, apFailures, apSuccesses, apStored>>
  BY DEF Logout
<1>2. PICK r : Moves(c, r) /\ r.pc = "idle"
  BY AnswerMoves DEF Logout
<1>3. SessionsAreIssued'
  <2>1. CASE UNCHANGED <<apSessions, apCookie, apOut>>
    BY <1>1, <2>1, SessionsStay
  <2>2. CASE /\ apSessions' = IF apCookie[c] = NoToken THEN apSessions
                              ELSE [apSessions EXCEPT ![apCookie[c]] = NoSession]
             /\ apOut' = apOut \union ({apCookie[c]} \ {NoToken})
             /\ apCookie' = [apCookie EXCEPT ![c] = NoToken]
    <3>1. /\ apIssued \in Nat /\ ApMaxTokens \in Nat /\ apIssued <= ApMaxTokens
          /\ apCookie[c] \in 0 .. apIssued
      BY ApAssumption DEF ApIndInv, SessionsAreIssued
    <3>2. apCookie[c] # NoToken => apCookie[c] \in Tokens /\ apCookie[c] \in 1 .. apIssued
      BY <3>1 DEF Tokens, NoToken
    <3>3. NoSession \in [expires : Nat, ws : ApSpaces \union {Unbound}]
      BY DEF NoSession
    <3>4. /\ apSessions' \in [Tokens -> [expires : Nat, ws : ApSpaces \union {Unbound}]]
          /\ \A t \in Tokens : apSessions'[t] = apSessions[t] \/ apSessions'[t] = NoSession
          /\ apCookie[c] # NoToken => apSessions'[apCookie[c]] = NoSession
      <4>1. apSessions \in [Tokens -> [expires : Nat, ws : ApSpaces \union {Unbound}]]
        BY DEF ApIndInv, SessionsAreIssued
      <4> HIDE DEF NoSession
      <4> QED
        BY <2>2, <3>2, <3>3, <4>1
    <3>5. apCookie' \in [ApClients -> 0 .. apIssued']
      BY <1>1, <2>2, <3>1 DEF ApIndInv, SessionsAreIssued, NoToken
    <3>6. apOut' \subseteq 1 .. apIssued' /\ apOut' \subseteq Tokens
      <4>1. apOut \subseteq 1 .. apIssued
        BY DEF ApIndInv, SessionsAreIssued
      <4>2. apOut' \subseteq 1 .. apIssued
        BY <2>2, <3>2, <4>1
      <4>3. 1 .. apIssued \subseteq Tokens
        BY <3>1 DEF Tokens
      <4> QED
        BY <1>1, <4>2, <4>3
    <3>7. LogoutIsHonest'
      <4>1. \A t \in apOut : t \in Tokens /\ apSessions[t] = NoSession
        BY <2>2, <3>6 DEF ApIndInv, SessionsAreIssued, LogoutIsHonest
      <4>2. ASSUME NEW t \in apOut' PROVE apSessions'[t] = NoSession
        BY <2>2, <3>4, <4>1
      <4> QED
        BY <4>2 DEF LogoutIsHonest, NoSession
    <3>8. \A t \in Tokens : t > apIssued' => apSessions'[t] = NoSession
      BY <1>1, <3>4 DEF ApIndInv, SessionsAreIssued
    <3> QED
      BY <1>1, <3>4, <3>5, <3>6, <3>7, <3>8 DEF ApIndInv, SessionsAreIssued
  <2> QED
    BY <2>1, <2>2 DEF Logout
<1>4. FailuresAreRows' /\ \A k \in ApKeys : RecentFailures(k)' = RecentFailures(k)
  BY <1>1, FailuresStay
<1> QED
  BY <1>1, <1>2, <1>3, <1>4, StoredStays, EndsOnly

\* require_auth: who goes on has a valid session, who is refused has none.
LEMMA AuthMoves ==
  ASSUME NEW c \in ApClients, NEW next \in ApRequests, RequireAuth(c, apCookie[c], next),
         next.status # 401, next.pc # "idle" => next.status = 0 /\ apConf /\ next.token = apCookie[c] /\ next.done = 0,
         next.pc \notin {"login", "write"}
  PROVE  \E r : Moves(c, r) /\ r.pc # "login"
<1>1. CASE ~Valid(apCookie[c]) /\ Answer(c, 401)
  BY <1>1, AnswerMoves
<1>2. CASE Answer(c, 500)
  BY <1>2, AnswerMoves
<1>3. CASE Valid(apCookie[c]) /\ apReq' = [apReq EXCEPT ![c] = next]
  <2>1. apCookie[c] # NoToken
    BY <1>3 DEF Valid
  <2>2. Moves(c, next)
    BY <1>3, <2>1 DEF Moves, Authorised
  <2> QED
    BY <2>2
<1> QED
  BY <1>1, <1>2, <1>3 DEF RequireAuth

\* A write begins with the cookie's token, the body, and nothing done.
LEMMA StartedIsARequest ==
  ASSUME NEW c \in ApClients, NEW batch \in ApBatches, NEW scoped \in BOOLEAN,
         apCookie[c] \in Tokens \union {NoToken}
  PROVE  LET r == Started(c, batch, scoped)
         IN /\ r \in ApRequests /\ r.pc \in {"workspace", "validate"} /\ r.status = 0
            /\ r.token = apCookie[c] /\ r.done = 0
<1> DEFINE pc == IF scoped THEN "workspace" ELSE "validate"
           r == [pc |-> pc, token |-> apCookie[c], batch |-> batch, done |-> 0, status |-> 0]
<1>1. pc \in {"workspace", "validate"}
  OBVIOUS
<1>2. Started(c, batch, scoped) = r
  BY DEF Started
<1> HIDE DEF pc
<1>3. r \in ApRequests
  BY <1>1 DEF ApRequests
<1>4. r.pc \in {"workspace", "validate"} /\ r.status = 0 /\ r.token = apCookie[c] /\ r.done = 0
  BY <1>1
<1> HIDE DEF r
<1> QED
  BY <1>2, <1>3, <1>4

LEMMA ReadHolds ==
  ASSUME ApIndInv, Remember, UNCHANGED <<apConf, apActive, apNow>>, NEW c \in ApClients, ReadRequest(c)
  PROVE  PanelHolds
<1>1. UNCHANGED <<apStore, apCookie, apStored, apOut>>
  BY DEF ReadRequest
<1>2. \E r : Moves(c, r) /\ r.pc # "login"
  <2>1. CASE apConf
    <3> DEFINE next == [Idle EXCEPT !.status = 200]
    <3>1. next \in ApRequests /\ next.pc = "idle" /\ next.status = 200 /\ RequireAuth(c, apCookie[c], next)
      BY <2>1, AnswersAreRequests DEF ReadRequest
    <3> HIDE DEF next
    <3> QED
      BY <3>1, AuthMoves
  <2>2. CASE ~apConf
    BY <2>2, AnswerMoves DEF ReadRequest
  <2> QED
    BY <2>1, <2>2
<1> QED
  BY <1>1, <1>2, MovesOnly

LEMMA WriteRequestHolds ==
  ASSUME ApIndInv, Remember, UNCHANGED <<apConf, apActive, apNow>>, NEW c \in ApClients,
         NEW batch \in ApBatches, NEW scoped \in BOOLEAN, WriteRequest(c, batch, scoped)
  PROVE  PanelHolds
<1>1. UNCHANGED <<apStore, apCookie, apStored, apOut>>
  BY DEF WriteRequest
<1>2. \E r : Moves(c, r) /\ r.pc # "login"
  <2>1. CASE apConf
    <3> DEFINE next == Started(c, batch, scoped)
    <3>1. apCookie[c] \in Tokens \union {NoToken}
      BY ApAssumption DEF ApIndInv, SessionsAreIssued, Tokens, NoToken
    <3>2. /\ next \in ApRequests /\ next.pc \in {"workspace", "validate"} /\ next.status = 0
          /\ next.token = apCookie[c] /\ next.done = 0
      BY <3>1, StartedIsARequest
    <3>3. RequireAuth(c, apCookie[c], next)
      BY <2>1 DEF WriteRequest
    <3> HIDE DEF next
    <3> QED
      BY <2>1, <3>2, <3>3, AuthMoves
  <2>2. CASE ~apConf
    BY <2>2, AnswerMoves DEF WriteRequest
  <2> QED
    BY <2>1, <2>2
<1> QED
  BY <1>1, <1>2, MovesOnly

LEMMA WorkspaceHolds ==
  ASSUME ApIndInv, Remember, UNCHANGED <<apConf, apActive, apNow>>, NEW c \in ApClients,
         RequireWorkspace(c)
  PROVE  PanelHolds
<1>1. UNCHANGED <<apStore, apCookie, apStored, apOut>> /\ apReq[c].pc = "workspace"
  BY DEF RequireWorkspace
<1>2. \E r : Moves(c, r) /\ r.pc # "login"
  <2>1. CASE WorkspaceFor(apReq[c].token) = Unbound /\ Answer(c, 401)
    BY <1>1, <2>1, AnswerMoves
  <2>2. CASE Answer(c, 500)
    BY <2>2, AnswerMoves
  <2>3. CASE Proceed(c, "validate")
    BY <1>1, <2>3, ProceedMoves DEF Authorised
  <2> QED
    BY <2>1, <2>2, <2>3 DEF RequireWorkspace
<1> QED
  BY <1>1, <1>2, MovesOnly

LEMMA ValidateHolds ==
  ASSUME ApIndInv, Remember, UNCHANGED <<apConf, apActive, apNow>>, NEW c \in ApClients,
         ValidateBatch(c)
  PROVE  PanelHolds
<1>1. UNCHANGED <<apStore, apCookie, apStored, apOut>> /\ apReq[c].pc = "validate"
  BY DEF ValidateBatch
<1>2. CASE apReq[c].batch # NoBatch /\ AllValid(apReq[c].batch) /\ Proceed(c, "write")
  <2>1. apReq[c].batch \in Seq(Pairs) /\ apReq[c].batch # <<>> /\ apReq[c].done = 0
    BY <1>1, <1>2, ApAssumption DEF ApIndInv, ApRequests, NoBatch, RequestIsSound
  <2>2. apReq[c].done < Len(apReq[c].batch)
    BY <2>1
  <2>3. \E r : Moves(c, r) /\ r.pc = "write"
    BY <1>1, <1>2, <2>2, ProceedMoves DEF Authorised
  <2> QED
    BY <1>1, <2>3, MovesOnly
<1>3. CASE Answer(c, 400)
  <2>1. \E r : Moves(c, r) /\ r.pc = "idle"
    BY <1>3, AnswerMoves
  <2> QED
    BY <1>1, <2>1, MovesOnly
<1> QED
  BY <1>2, <1>3 DEF ValidateBatch, AllValid

LEMMA WritePairHolds ==
  ASSUME ApIndInv, Remember, UNCHANGED <<apConf, apActive, apNow>>, NEW c \in ApClients, WritePair(c)
  PROVE  PanelHolds
<1>1. UNCHANGED <<apStore, apCookie, apOut>> /\ apReq[c].pc = "write"
  BY DEF WritePair
<1>2. /\ apReq[c] \in ApRequests /\ apReq[c].batch \in ApBatches /\ apReq[c].batch \in Seq(Pairs)
      /\ AllValid(apReq[c].batch) /\ apReq[c].done \in Nat /\ apReq[c].done < Len(apReq[c].batch)
      /\ apConf /\ apHeld[c] /\ apReq[c].token # NoToken /\ apReq[c].status = 0
  <2>1. /\ apReq[c] \in ApRequests /\ AllValid(apReq[c].batch) /\ apReq[c].done < Len(apReq[c].batch)
        /\ apConf /\ apHeld[c] /\ apReq[c].token # NoToken /\ apReq[c].status = 0
    BY <1>1 DEF ApIndInv, RequestIsSound, Authorised
  <2>2. apReq[c].done \in Nat /\ apReq[c].batch \in ApBatches \union {NoBatch}
    BY <2>1 DEF ApRequests
  <2>3. apReq[c].batch # NoBatch
    BY <2>1, <2>2 DEF NoBatch
  <2> QED
    BY <2>1, <2>2, <2>3, ApAssumption
<1> DEFINE i == apReq[c].done + 1
<1>3. apReq[c].batch[i].key \in BatchKeys
  <2>1. i \in 1 .. Len(apReq[c].batch)
    BY <1>2
  <2> HIDE DEF i
  <2>2. apReq[c].batch[i] \in Pairs
    BY <1>2, <2>1
  <2> QED
    BY <2>2 DEF Pairs
<1>4. CASE Answer(c, 500) /\ UNCHANGED apStored
  <2>1. \E r : Moves(c, r) /\ r.pc = "idle"
    BY <1>4, AnswerMoves
  <2> QED
    BY <1>1, <1>4, <2>1, MovesOnly
<1>5. CASE /\ apStored' = [apStored EXCEPT ![apReq[c].batch[i].key] = apReq[c].batch]
           /\ IF i = Len(apReq[c].batch) THEN Answer(c, 200)
              ELSE apReq' = [apReq EXCEPT ![c] = [apReq[c] EXCEPT !.done = i]]
  <2>1. \E r : Moves(c, r) /\ r.pc # "login"
    <3>1. CASE Answer(c, 200)
      BY <3>1, AnswerMoves
    <3>2. CASE i # Len(apReq[c].batch) /\ apReq' = [apReq EXCEPT ![c] = [apReq[c] EXCEPT !.done = i]]
      <4> DEFINE r == [apReq[c] EXCEPT !.done = i]
      <4>1. /\ r \in ApRequests /\ r.pc = "write" /\ r.status = 0 /\ r.token = apReq[c].token
            /\ r.batch = apReq[c].batch /\ r.done = i
        BY <1>1, <1>2, RequestsGoOn
      <4>2. i < Len(apReq[c].batch)
        BY <1>2, <3>2
      <4>3. apReq' = [apReq EXCEPT ![c] = r]
        BY <3>2
      <4> HIDE DEF r, i
      <4>4. Moves(c, r)
        BY <1>1, <1>2, <4>1, <4>2, <4>3 DEF Moves, Authorised
      <4> QED
        BY <4>1, <4>4
    <3> QED
      BY <1>5, <3>1, <3>2
  <2>2. WritesHeldASession
    BY <1>1, <1>2 DEF WritesHeldASession
  <2>3. StoredIsValid'
    <3> HIDE DEF i
    <3>1. apStored \in [BatchKeys -> ApBatches \union {NoBatch}] /\ \A k \in BatchKeys : AllValid(apStored[k])
      BY DEF ApIndInv, StoredIsValid
    <3>2. /\ apStored' \in [BatchKeys -> ApBatches \union {NoBatch}]
          /\ \A k \in BatchKeys : apStored'[k] = apStored[k] \/ apStored'[k] = apReq[c].batch
      BY <1>2, <1>3, <1>5, <3>1
    <3>3. \A k \in BatchKeys : AllValid(apStored'[k])
      BY <1>2, <3>1, <3>2
    <3> QED
      BY <3>2, <3>3 DEF StoredIsValid, AllValid
  <2>4. UNCHANGED <<apSessions, apIssued, apSuccesses, apFailures>>
    BY <1>1 DEF apStore
  <2>5. SessionsAreIssued' /\ FailuresAreRows' /\ \A k \in ApKeys : RecentFailures(k)' = RecentFailures(k)
    BY <1>1, <2>4, SessionsStay, FailuresStay
  <2> QED
    BY <2>1, <2>2, <2>3, <2>5, EndsOnly
<1> QED
  BY <1>4, <1>5 DEF WritePair

LEMMA PruneHolds ==
  ASSUME ApIndInv, Remember, UNCHANGED <<apConf, apActive, apNow>>, PruneAttempts
  PROVE  PanelHolds
<1>1. UNCHANGED <<apSessions, apIssued, apSuccesses, apCookie, apReq, apStored, apOut>>
  BY DEF PruneAttempts
<1>2. \A k \in ApKeys : apFailures'[k] \subseteq apFailures[k]
  BY DEF PruneAttempts
<1>3. FailuresAreRows'
  <2>1. apFailures' \in [ApKeys -> SUBSET [at : Nat, n : Nat]]
    BY DEF PruneAttempts, ApIndInv, FailuresAreRows
  <2>2. \A k \in ApKeys : IsFiniteSet(apFailures'[k])
    BY <1>2, FS_Subset DEF ApIndInv, FailuresAreRows
  <2> QED
    BY <2>1, <2>2 DEF FailuresAreRows
<1>4. \A k \in ApKeys : RecentFailures(k)' \subseteq RecentFailures(k)
  BY <1>2 DEF RecentFailures
<1>5. LimiterBound'
  BY <1>1, <1>3, <1>4, LimiterStays DEF NobodyMoves
<1>6. /\ apReq' \in [ApClients -> ApRequests] /\ \A d \in ApClients : RequestIsSound(d)'
      /\ RefusalsAreReal
  BY <1>1, NoRequestMoves DEF NobodyMoves
<1>7. SessionsAreIssued' /\ StoredIsValid' /\ WritesHeldASession
  BY <1>1, SessionsStay, StoredStays
<1>8. apActive' \subseteq ApSpaces /\ apNow' \in Nat
  BY DEF ApIndInv
<1> QED
  BY <1>3, <1>5, <1>6, <1>7, <1>8 DEF PanelHolds, ApIndInv

\* Time takes failures out of the window and puts none in.
LEMMA TickHolds ==
  ASSUME ApIndInv, Remember, UNCHANGED <<apConf, apActive>>, ApTick
  PROVE  PanelHolds
<1>1. UNCHANGED <<apSessions, apIssued, apSuccesses, apFailures, apCookie, apReq, apStored, apOut>>
  BY DEF ApTick, apStore
<1>2. apNow \in Nat /\ apNow' = apNow + 1 /\ apNow' \in Nat
  BY DEF ApTick, ApIndInv
<1>3. FailuresAreRows'
  BY <1>1 DEF ApIndInv, FailuresAreRows
<1>4. ASSUME NEW k \in ApKeys PROVE RecentFailures(k)' \subseteq RecentFailures(k)
  <2>1. \A f \in apFailures[k] : f.at \in Nat
    BY DEF ApIndInv, FailuresAreRows
  <2>2. \A f \in apFailures[k] : f.at + ApWindow > apNow' => f.at + ApWindow > apNow
    BY <1>2, <2>1, ApAssumption
  <2> QED
    BY <1>1, <2>2 DEF RecentFailures
<1>5. LimiterBound'
  BY <1>1, <1>3, <1>4, LimiterStays DEF NobodyMoves
<1>6. /\ apReq' \in [ApClients -> ApRequests] /\ \A d \in ApClients : RequestIsSound(d)'
      /\ RefusalsAreReal
  BY <1>1, NoRequestMoves DEF NobodyMoves
<1>7. SessionsAreIssued' /\ StoredIsValid' /\ WritesHeldASession
  BY <1>1, SessionsStay, StoredStays
<1> QED
  BY <1>2, <1>3, <1>5, <1>6, <1>7 DEF PanelHolds, ApIndInv

LEMMA ApSteps ==
  ASSUME ApIndInv, ApNext
  PROVE  PanelHolds
<1>1. Remember /\ UNCHANGED <<apConf, apActive>>
  BY DEF ApNext
<1>2. CASE (\E c \in ApClients : Request(c)) /\ UNCHANGED apNow
  <2>1. PICK c \in ApClients : Request(c)
    BY <1>2
  <2>2. UNCHANGED <<apConf, apActive, apNow>>
    BY <1>1, <1>2
  <2> QED
    BY <1>1, <2>1, <2>2, LoginCheckHolds, LoginWrongHolds, EstablishHolds, LogoutHolds, ReadHolds,
       WriteRequestHolds, WorkspaceHolds, ValidateHolds, WritePairHolds DEF Request
<1>3. CASE PruneAttempts /\ UNCHANGED apNow
  BY <1>1, <1>3, PruneHolds
<1>4. CASE ApTick
  BY <1>1, <1>4, TickHolds
<1> QED
  BY <1>2, <1>3, <1>4 DEF ApNext

LEMMA ApInitial == ASSUME ApInit PROVE ApIndInv
<1>1. apReq \in [ApClients -> ApRequests] /\ \A c \in ApClients : apReq[c] = Idle
  <2>1. Idle \in ApRequests
    BY DEF Idle, ApRequests, NoToken, NoBatch
  <2> HIDE DEF Idle
  <2> QED
    BY <2>1 DEF ApInit
<1>2. \A c \in ApClients : RequestIsSound(c)
  BY <1>1 DEF RequestIsSound, Idle, Authorised
<1>3. SessionsAreIssued
  <2>1. NoSession \in [expires : Nat, ws : ApSpaces \union {Unbound}]
    BY DEF NoSession
  <2> HIDE DEF NoSession
  <2> QED
    BY <2>1, ApAssumption DEF ApInit, SessionsAreIssued, LogoutIsHonest, NoToken
<1>4. FailuresAreRows /\ \A k \in ApKeys : apFailures[k] = {}
  BY FS_EmptySet DEF ApInit, FailuresAreRows
<1>5. LimiterBound
  <2> SUFFICES ASSUME NEW k \in ApKeys
               PROVE  Cardinality(RecentFailures(k)) + Cardinality(InLogin(k))
                        <= ApMaxFailures - 1 + Cardinality(Sharing(k))
    BY DEF LimiterBound
  <2>1. RecentFailures(k) = {}
    BY <1>4 DEF RecentFailures
  <2> QED
    BY <1>4, <2>1, CountsAreFinite, FS_EmptySet
<1>6. StoredIsValid
  BY DEF ApInit, StoredIsValid, NoBatch, AllValid
<1>7. apActive \subseteq ApSpaces /\ apNow \in Nat
  BY DEF ApInit
<1> QED
  BY <1>1, <1>2, <1>3, <1>4, <1>5, <1>6, <1>7 DEF ApIndInv

LEMMA ApStutters == ASSUME ApIndInv, UNCHANGED apVars PROVE ApIndInv'
<1>1. SessionsAreIssued' /\ FailuresAreRows' /\ StoredIsValid'
  BY SessionsStay, FailuresStay, StoredStays DEF apVars
<1>2. LimiterBound'
  BY <1>1, FailuresStay, LimiterStays DEF apVars, NobodyMoves
<1> QED
  BY <1>1, <1>2 DEF apVars, ApIndInv, RequestIsSound

LEMMA ApInductive == ApSpec => []ApIndInv
<1>1. ApIndInv /\ [ApNext]_apVars => ApIndInv'
  BY ApSteps, ApStutters DEF PanelHolds
<1> QED
  BY <1>1, ApInitial, PTL DEF ApSpec

\* What the panel's tables say is what happened, for any clients, keys, bodies,
\* thresholds and number of sessions, with every statement able to fail and every
\* answer able to be lost: auth.rs's limiter is overshot only by attempts already
\* past its read, logins are audited, logout is honest, and settings_runtime_save
\* leaves nothing of a refused body.
THEOREM HonestPanel == ApSpec => []PanelIsHonest
<1>1. ASSUME ApIndInv PROVE PanelIsHonest
  <2>1. SessionsAreIssued /\ StoredIsValid /\ LimiterBound
    BY <1>1 DEF ApIndInv
  <2>2. ApTypeOK
    <3>1. apCookie \in [ApClients -> Tokens \union {NoToken}]
      BY <2>1, ApAssumption DEF SessionsAreIssued, Tokens, NoToken
    <3>2. \A t \in Tokens : apSessions[t] # NoSession => t <= apIssued
      BY <2>1 DEF SessionsAreIssued, Tokens
    <3>3. apReq \in [ApClients -> ApRequests]
          /\ \A c \in ApClients : apReq[c].pc = "write" => apReq[c].done < Len(apReq[c].batch)
      BY <1>1 DEF ApIndInv, RequestIsSound
    <3> QED
      BY <2>1, <3>1, <3>2, <3>3 DEF SessionsAreIssued, ApTypeOK
  <2> QED
    BY <2>1, <2>2 DEF PanelIsHonest, SessionsAreIssued, LoginsAreAudited, StoredIsValid, AllValid,
                      RejectedBatchWritesNothing
<1> QED
  BY <1>1, ApInductive, PTL

\* Who is answered 401 by require_auth or require_workspace had no live session
\* then, and whoever writes held one during the request, on a panel with a password.
THEOREM GuardedPanel == ApSpec => PanelIsGuarded
<1>1. ApIndInv /\ [ApNext]_apVars => [RefusalsAreReal /\ WritesHeldASession]_apVars
  BY ApSteps DEF PanelHolds
<1> QED
  BY <1>1, ApInductive, PTL DEF ApSpec, PanelIsGuarded

(***************************************************************************)
(* WalletPolicy: the scan, by induction over the rows.                     *)
(***************************************************************************)

LEMMA Ranks ==
  /\ Rank["skip"] = 0 /\ Rank["flow_only"] = 1 /\ Rank["watch"] = 2 /\ Rank["score"] = 3
  /\ \A d \in Dispositions : Rank[d] \in 0 .. 3
  /\ \A d, e \in Dispositions : Rank[d] = Rank[e] => d = e
<1>1. Rank["skip"] = 0 /\ Rank["flow_only"] = 1 /\ Rank["watch"] = 2 /\ Rank["score"] = 3
  BY DEF Rank
<1> QED
  BY <1>1 DEF Dispositions

\* What the row of position n does to the best of the rows before it.
After(labels, rows, n, best) ==
  IF n \in rows /\ Better(labels[n], best) THEN labels[n] ELSE best

\* A set of naturals that has 0 and every successor of its members up to n has n.
LEMMA UpToN ==
  ASSUME NEW n \in Nat, NEW S, 0 \in S, \A k \in Nat : k < n /\ k \in S => k + 1 \in S
  PROVE  \A k \in 0 .. n : k \in S
<1> DEFINE out == {k \in 0 .. n : k \notin S}
<1> SUFFICES ASSUME out # {} PROVE FALSE
  OBVIOUS
<1>1. out \subseteq Nat
  OBVIOUS
<1>2. Min(out) \in out /\ \A k \in out : Min(out) <= k
  <2> HIDE DEF out
  <2> QED
    BY <1>1, MinOfNaturals
<1>3. PICK m \in out : \A k \in out : m <= k
  BY <1>2
<1>4. m \in Nat /\ m # 0 /\ m <= n /\ m \notin S
  OBVIOUS
<1>5. m - 1 \in 0 .. n /\ m - 1 < n /\ (m - 1) + 1 = m /\ m - 1 \in Nat
  BY <1>4
<1>6. m - 1 \in S
  BY <1>3, <1>5
<1> QED
  BY <1>4, <1>5, <1>6

\* The scan is what its recursion says.
LEMMA ScanRuns ==
  ASSUME NEW labels \in Seq(LabelRows), NEW rows
  PROVE  /\ Scan(labels, rows)[0] = NoLabel
         /\ \A n \in 1 .. Len(labels) :
              Scan(labels, rows)[n] = After(labels, rows, n, Scan(labels, rows)[n - 1])
<1> DEFINE Runs(g, n) == g = [k \in 0 .. n |-> IF k = 0 THEN NoLabel
                                               ELSE After(labels, rows, k, g[k - 1])]
           N == Len(labels)
           good == {n \in Nat : \E g : Runs(g, n)}
<1>1. N \in Nat
  OBVIOUS
<1>2. 0 \in good
  <2>1. Runs([k \in 0 .. 0 |-> NoLabel], 0)
    <3>1. \A k \in 0 .. 0 : k = 0
      OBVIOUS
    <3> QED
      BY <3>1
  <2> QED
    BY <2>1
<1>3. ASSUME NEW n \in Nat, n \in good PROVE n + 1 \in good
  <2>1. PICK g : Runs(g, n)
    BY <1>3
  <2> DEFINE h == [k \in 0 .. (n + 1) |-> IF k = n + 1 THEN After(labels, rows, n + 1, g[n]) ELSE g[k]]
  <2>2. \A k \in 0 .. n : g[k] = IF k = 0 THEN NoLabel ELSE After(labels, rows, k, g[k - 1])
    BY <2>1
  <2>3. ASSUME NEW k \in 0 .. (n + 1)
        PROVE  h[k] = IF k = 0 THEN NoLabel ELSE After(labels, rows, k, h[k - 1])
    <3>1. CASE k = n + 1
      <4>1. h[k] = After(labels, rows, n + 1, g[n]) /\ k - 1 = n /\ k # 0
        BY <3>1
      <4>2. h[n] = g[n]
        OBVIOUS
      <4> QED
        BY <3>1, <4>1, <4>2
    <3>2. CASE k = 0
      BY <2>2, <3>2
    <3>3. CASE k # n + 1 /\ k # 0
      <4>1. k \in 0 .. n /\ k - 1 \in 0 .. n /\ k - 1 \in 0 .. (n + 1) /\ k - 1 # n + 1
        BY <3>3
      <4>2. h[k] = g[k] /\ h[k - 1] = g[k - 1]
        BY <3>3, <4>1
      <4> QED
        BY <2>2, <3>3, <4>1, <4>2
    <3> QED
      BY <3>1, <3>2, <3>3
  <2>4. Runs(h, n + 1)
    <3>1. h = [k \in 0 .. (n + 1) |-> h[k]]
      OBVIOUS
    <3> HIDE DEF h
    <3> QED
      BY <2>3, <3>1
  <2> HIDE DEF h, Runs
  <2> QED
    BY <2>4
<1>4. N \in good
  <2> HIDE DEF good, N
  <2>1. \A k \in Nat : k < N /\ k \in good => k + 1 \in good
    BY <1>3
  <2>2. \A k \in 0 .. N : k \in good
    BY <1>1, <1>2, <2>1, UpToN
  <2> QED
    BY <1>1, <2>2
<1>5. Runs(Scan(labels, rows), N)
  <2> DEFINE f == CHOOSE g : Runs(g, N)
  <2>1. Runs(f, N)
    BY <1>4
  <2>2. Scan(labels, rows) = f
    BY DEF Scan, After
  <2> HIDE DEF f
  <2> QED
    BY <2>1, <2>2
<1> HIDE DEF good
<1>6. \A n \in 1 .. N : n \in 0 .. N /\ n # 0
  OBVIOUS
<1> QED
  BY <1>1, <1>5, <1>6

\* The order in which rows decide: manual first, then the more restrictive.
Decides(l, m) ==
  \/ l.manual /\ ~m.manual
  \/ (l.manual <=> m.manual) /\ Rank[l.disp] <= Rank[m.disp]

LEMMA RowsAreRanked ==
  ASSUME NEW l \in LabelRows
  PROVE  l.disp \in Dispositions /\ l.manual \in BOOLEAN /\ Rank[l.disp] \in Nat /\ l # NoLabel
         /\ l.ws \in WpSpaces
<1>1. l.disp \in Dispositions /\ l.manual \in BOOLEAN /\ l.ws \in WpSpaces
  BY DEF LabelRows
<1>2. NoLabel.disp \notin Dispositions
  BY DEF NoLabel, NoDisposition, Dispositions
<1>3. l # NoLabel
  BY <1>1, <1>2
<1> QED
  BY <1>1, <1>3, Ranks

LEMMA DecidesIsAnOrder ==
  ASSUME NEW l \in LabelRows, NEW m \in LabelRows, NEW n \in LabelRows
  PROVE  /\ Decides(l, l)
         /\ Decides(l, m) /\ Decides(m, n) => Decides(l, n)
         /\ Better(l, m) => Decides(l, m)
         /\ ~Better(l, m) => Decides(m, l)
         /\ Decides(l, m) /\ Decides(m, l) => l.disp = m.disp
<1>1. /\ l.manual \in BOOLEAN /\ m.manual \in BOOLEAN /\ n.manual \in BOOLEAN
      /\ Rank[l.disp] \in Nat /\ Rank[m.disp] \in Nat /\ Rank[n.disp] \in Nat
      /\ l.disp \in Dispositions /\ m.disp \in Dispositions /\ m # NoLabel
  BY RowsAreRanked
<1>2. Rank[l.disp] = Rank[m.disp] => l.disp = m.disp
  BY <1>1, Ranks
<1> QED
  BY <1>1, <1>2 DEF Decides, Better

\* Of the rows among the first n the scan has the one that decides.
LEMMA ScanDecides ==
  ASSUME NEW labels \in Seq(LabelRows), NEW rows, rows \subseteq DOMAIN labels, rows # {}
  PROVE  \E k \in rows : BestRow(labels, rows) = labels[k] /\ \A i \in rows : Decides(labels[k], labels[i])
<1> DEFINE best == Scan(labels, rows)
           N == Len(labels)
           upTo(n) == {i \in rows : i <= n}
           Best(n) == \/ upTo(n) = {} /\ best[n] = NoLabel
                      \/ \E k \in upTo(n) : best[n] = labels[k] /\ \A i \in upTo(n) : Decides(labels[k], labels[i])
           good == {n \in 0 .. N : Best(n)}
<1>1. /\ N \in Nat /\ DOMAIN labels = 1 .. N /\ \A i \in 1 .. N : labels[i] \in LabelRows
      /\ rows \subseteq 1 .. N
  OBVIOUS
<1>2. best[0] = NoLabel /\ \A n \in 1 .. N : best[n] = After(labels, rows, n, best[n - 1])
  BY ScanRuns
<1> HIDE DEF best, N
<1>3. 0 \in good
  BY <1>1, <1>2
<1>4. ASSUME NEW n \in Nat, n < N, n \in good PROVE n + 1 \in good
  <2>1. n + 1 \in 1 .. N /\ n + 1 \in 0 .. N /\ (n + 1) - 1 = n /\ labels[n + 1] \in LabelRows
    BY <1>1, <1>4
  <2>2. best[n + 1] = After(labels, rows, n + 1, best[n]) /\ Best(n)
    BY <1>2, <1>4, <2>1
  <2>3. upTo(n + 1) = IF n + 1 \in rows THEN upTo(n) \cup {n + 1} ELSE upTo(n)
    BY <1>1
  <2>4. CASE n + 1 \notin rows
    <3>1. best[n + 1] = best[n] /\ upTo(n + 1) = upTo(n)
      BY <2>2, <2>3, <2>4 DEF After
    <3> HIDE DEF upTo
    <3> QED
      BY <2>1, <2>2, <3>1
  <2>5. CASE n + 1 \in rows
    <3> DEFINE l == labels[n + 1]
    <3>1. \A i \in upTo(n) : i \in 1 .. N /\ labels[i] \in LabelRows
      BY <1>1
    <3>2. upTo(n + 1) = upTo(n) \cup {n + 1}
      BY <2>3, <2>5
    <3>3. l \in LabelRows /\ best[n + 1] = IF Better(l, best[n]) THEN l ELSE best[n]
      BY <2>1, <2>2, <2>5 DEF After
    <3>4. Decides(l, l)
      BY <3>3, DecidesIsAnOrder
    <3> HIDE DEF upTo
    <3>5. CASE upTo(n) = {} /\ best[n] = NoLabel
      <4>1. best[n + 1] = l
        BY <3>3, <3>5 DEF Better
      <4> QED
        BY <2>1, <3>2, <3>4, <3>5, <4>1
    <3>6. CASE \E k \in upTo(n) : best[n] = labels[k] /\ \A i \in upTo(n) : Decides(labels[k], labels[i])
      <4>1. PICK k \in upTo(n) : best[n] = labels[k] /\ \A i \in upTo(n) : Decides(labels[k], labels[i])
        BY <3>6
      <4>2. CASE Better(l, best[n])
        <5>1. Decides(l, labels[k])
          BY <3>1, <3>3, <4>1, <4>2, DecidesIsAnOrder
        <5>2. \A i \in upTo(n) : Decides(l, labels[i])
          BY <3>1, <3>3, <4>1, <5>1, DecidesIsAnOrder
        <5> QED
          BY <2>1, <3>2, <3>3, <3>4, <4>2, <5>2
      <4>3. CASE ~Better(l, best[n])
        <5>1. Decides(labels[k], l)
          BY <3>1, <3>3, <4>1, <4>3, DecidesIsAnOrder
        <5> QED
          BY <2>1, <3>2, <3>3, <4>1, <4>3, <5>1
      <4> QED
        BY <4>2, <4>3
    <3> QED
      BY <2>2, <3>5, <3>6
  <2> QED
    BY <2>4, <2>5
<1>5. N \in good
  <2>1. \A k \in Nat : k < N /\ k \in good => k + 1 \in good
    BY <1>4
  <2> HIDE DEF good
  <2>2. \A k \in 0 .. N : k \in good
    BY <1>1, <1>3, <2>1, UpToN
  <2> QED
    BY <1>1, <2>2
<1>6. upTo(N) = rows
  BY <1>1
<1>7. Best(N)
  BY <1>5
<1>8. BestRow(labels, rows) = best[N]
  BY DEF BestRow, best, N
<1> HIDE DEF upTo
<1> QED
  BY <1>6, <1>7, <1>8

\* active_disposition answers with the disposition of the row that decides.
LEMMA DispositionDecides ==
  ASSUME NEW labels \in Seq(LabelRows), NEW ws, NEW w, NEW now
  PROVE  LET rows == ActiveRows(labels, ws, w, now)
             d == ActiveDisposition(labels, ws, w, now)
         IN /\ rows = {} => d = NoDisposition
            /\ rows # {} => \E k \in rows : /\ d = labels[k].disp
                                            /\ \A i \in rows : Decides(labels[k], labels[i])
<1> DEFINE rows == ActiveRows(labels, ws, w, now)
<1>1. rows \subseteq DOMAIN labels
  BY DEF ActiveRows
<1>2. \A i \in DOMAIN labels : labels[i] \in LabelRows
  OBVIOUS
<1>3. \A i \in rows : labels[i].disp \in Dispositions
  BY <1>1, <1>2, RowsAreRanked
<1>4. ActiveDisposition(labels, ws, w, now) = IF rows = {} THEN NoDisposition ELSE BestRow(labels, rows).disp
  BY <1>3 DEF ActiveDisposition, ScanRows
<1> HIDE DEF rows
<1>5. rows # {} => \E k \in rows : BestRow(labels, rows) = labels[k] /\ \A i \in rows : Decides(labels[k], labels[i])
  BY <1>1, ScanDecides
<1> QED
  BY <1>4, <1>5 DEF rows

\* The least of finitely or infinitely many naturals is the one below all others.
LEMMA MinIsTheLeast ==
  ASSUME NEW S, S \subseteq Nat, NEW m \in S, \A s \in S : m <= s
  PROVE  Min(S) = m
<1>1. Min(S) \in S /\ Min(S) <= m
  BY MinOfNaturals
<1>2. PICK n \in S : n = Min(S) /\ n <= m
  BY <1>1
<1>3. n = m
  BY <1>2
<1> QED
  BY <1>2, <1>3

LEMMA ManualDecides == ASSUME WpIndInv PROVE ManualIsAuthoritative
<1> SUFFICES ASSUME NEW ws \in WpSpaces, NEW w \in Wallets
             PROVE  LET rows == ActiveRows(wpLabels, ws, w, wpNow)
                        manual == {i \in rows : wpLabels[i].manual}
                        top == IF manual # {} THEN manual ELSE rows
                        d == ActiveDisposition(wpLabels, ws, w, wpNow)
                    IN /\ top = {} <=> d = NoDisposition
                       /\ top # {} => Rank[d] = Min({Rank[wpLabels[i].disp] : i \in top})
  BY DEF ManualIsAuthoritative
<1> DEFINE rows == ActiveRows(wpLabels, ws, w, wpNow)
           manual == {i \in rows : wpLabels[i].manual}
           top == IF manual # {} THEN manual ELSE rows
           d == ActiveDisposition(wpLabels, ws, w, wpNow)
           ranks == {Rank[wpLabels[i].disp] : i \in top}
<1>1. wpLabels \in Seq(LabelRows) /\ \A i \in rows : wpLabels[i] \in LabelRows
  BY DEF WpIndInv, ActiveRows
<1>2. /\ rows = {} => d = NoDisposition
      /\ rows # {} => \E k \in rows : d = wpLabels[k].disp /\ \A i \in rows : Decides(wpLabels[k], wpLabels[i])
  BY <1>1, DispositionDecides
<1>3. /\ \A i \in rows : /\ wpLabels[i].manual \in BOOLEAN /\ wpLabels[i].disp \in Dispositions
                         /\ Rank[wpLabels[i].disp] \in Nat
      /\ NoDisposition \notin Dispositions
  BY <1>1, RowsAreRanked DEF NoDisposition, Dispositions
<1> HIDE DEF rows, d
<1>4. top \subseteq rows /\ (top = {} <=> rows = {})
  OBVIOUS
<1>5. CASE rows = {}
  BY <1>2, <1>4, <1>5 DEF rows, d
<1>6. CASE rows # {}
  <2>1. PICK k \in rows : d = wpLabels[k].disp /\ \A i \in rows : Decides(wpLabels[k], wpLabels[i])
    BY <1>2, <1>6
  <2>2. k \in top /\ \A i \in top : Rank[wpLabels[k].disp] <= Rank[wpLabels[i].disp]
    BY <1>3, <2>1 DEF Decides
  <2>3. ranks \subseteq Nat /\ Rank[d] \in ranks /\ \A n \in ranks : Rank[d] <= n
    BY <1>3, <1>4, <2>1, <2>2
  <2>4. Min(ranks) = Rank[d]
    <3> HIDE DEF ranks
    <3> QED
      BY <2>3, MinIsTheLeast
  <2>5. d # NoDisposition /\ top # {}
    BY <1>3, <2>1, <2>2
  <2> QED
    BY <2>4, <2>5 DEF rows, d
<1> QED
  BY <1>5, <1>6

\* The answer depends on the set of active rows alone, not on their order: two
\* tables whose active rows say the same give the same answer.
LEMMA SameRowsSamePolicy ==
  ASSUME NEW labels \in Seq(LabelRows), NEW other \in Seq(LabelRows), NEW ws, NEW w, NEW now,
         \A i \in ActiveRows(labels, ws, w, now) : \E j \in ActiveRows(other, ws, w, now) : other[j] = labels[i],
         \A j \in ActiveRows(other, ws, w, now) : \E i \in ActiveRows(labels, ws, w, now) : labels[i] = other[j]
  PROVE  ActiveDisposition(labels, ws, w, now) = ActiveDisposition(other, ws, w, now)
<1> DEFINE rows == ActiveRows(labels, ws, w, now)
           others == ActiveRows(other, ws, w, now)
<1>1. /\ \A i \in rows : labels[i] \in LabelRows
      /\ \A j \in others : other[j] \in LabelRows
  BY DEF ActiveRows
<1>2. CASE rows = {}
  BY <1>2, DispositionDecides
<1>3. CASE rows # {}
  <2>1. others # {}
    BY <1>3
  <2>2. PICK k \in rows : /\ ActiveDisposition(labels, ws, w, now) = labels[k].disp
                          /\ \A i \in rows : Decides(labels[k], labels[i])
    BY <1>3, DispositionDecides
  <2>3. PICK m \in others : /\ ActiveDisposition(other, ws, w, now) = other[m].disp
                            /\ \A j \in others : Decides(other[m], other[j])
    BY <2>1, DispositionDecides
  <2>4. Decides(labels[k], other[m]) /\ Decides(other[m], labels[k])
    BY <2>2, <2>3
  <2>5. labels[k].disp = other[m].disp
    BY <1>1, <2>4, DecidesIsAnOrder
  <2> QED
    BY <2>2, <2>3, <2>5
<1> QED
  BY <1>2, <1>3

(* The steps on labels.                                                    *)

\* A statement of one workspace: rows are revoked in it, once, and added to it.
Edits(ws) ==
  /\ wpLabels' \in Seq(LabelRows) /\ DOMAIN wpLabels \subseteq DOMAIN wpLabels'
  /\ \A i \in DOMAIN wpLabels :
       \/ wpLabels'[i] = wpLabels[i]
       \/ wpLabels[i].ws = ws /\ wpLabels'[i].ws = ws /\ wpLabels[i].revoked = Never
  /\ \A i \in DOMAIN wpLabels' \ DOMAIN wpLabels : wpLabels'[i].ws = ws

LEMMA EditsAreSafe ==
  ASSUME WpIndInv, NEW ws, Edits(ws)
  PROVE  TenantsKeepTheirPolicy /\ LabelsKeepTheirHistory
<1>1. LabelsKeepTheirHistory
  BY DEF Edits, LabelsKeepTheirHistory
<1>2. ASSUME NEW t \in WpSpaces, t # ws, NEW w \in Wallets
      PROVE  ActiveDisposition(wpLabels', t, w, wpNow) = ActiveDisposition(wpLabels, t, w, wpNow)
  <2>1. wpLabels \in Seq(LabelRows) /\ wpLabels' \in Seq(LabelRows)
    BY DEF WpIndInv, Edits
  <2>2. \A i \in ActiveRows(wpLabels, t, w, wpNow) :
          i \in ActiveRows(wpLabels', t, w, wpNow) /\ wpLabels'[i] = wpLabels[i]
    BY <1>2 DEF Edits, ActiveRows, ActiveRow
  <2>3. \A i \in ActiveRows(wpLabels', t, w, wpNow) :
          i \in ActiveRows(wpLabels, t, w, wpNow) /\ wpLabels'[i] = wpLabels[i]
    BY <1>2 DEF Edits, ActiveRows, ActiveRow
  <2> QED
    BY <2>1, <2>2, <2>3, SameRowsSamePolicy
<1> DEFINE changed == {t \in WpSpaces : \E w \in Wallets :
             ActiveDisposition(wpLabels', t, w, wpNow) # ActiveDisposition(wpLabels, t, w, wpNow)}
<1>3. changed \subseteq {ws}
  BY <1>2
<1> HIDE DEF changed
<1>4. Cardinality(changed) = 0 \/ Cardinality(changed) = 1
  <2>1. changed = {} \/ changed = {ws}
    BY <1>3
  <2> QED
    BY <2>1, FS_EmptySet, FS_Singleton
<1>5. TenantsKeepTheirPolicy
  BY <1>4 DEF changed, TenantsKeepTheirPolicy
<1> QED
  BY <1>1, <1>5

LEMMA NewLabelIsARow ==
  ASSUME NEW ws \in WpSpaces, NEW w \in Wallets, NEW kind \in {"manual", "manual_block", "mev_bot"},
         NEW disp \in Dispositions, NEW manual \in BOOLEAN, NEW expires \in Nat
  PROVE  Label(ws, w, kind, disp, manual, expires) \in LabelRows
         /\ Label(ws, w, kind, disp, manual, expires).ws = ws
BY DEF Label, LabelRows, Never

LEMMA AppendEdits ==
  ASSUME WpIndInv, NEW ws, NEW l \in LabelRows, l.ws = ws, wpLabels' = Append(wpLabels, l)
  PROVE  Edits(ws)
BY DEF WpIndInv, Edits

LEMMA AddEdits ==
  ASSUME WpIndInv, NEW ws \in WpSpaces, NEW w \in Wallets, AddWalletLabel(ws, w)
  PROVE  Edits(ws)
<1>1. PICK disp \in Dispositions, expires \in {wpNow + 1, Never} :
         wpLabels' = Append(wpLabels, Label(ws, w, "manual", disp, TRUE, expires))
  BY DEF AddWalletLabel
<1>2. expires \in Nat
  BY DEF WpIndInv, Never
<1>3. /\ Label(ws, w, "manual", disp, TRUE, expires) \in LabelRows
      /\ Label(ws, w, "manual", disp, TRUE, expires).ws = ws
  BY <1>2, NewLabelIsARow
<1> QED
  BY <1>1, <1>3, AppendEdits

LEMMA ImportEdits ==
  ASSUME WpIndInv, NEW ws \in WpSpaces, ImportBlocklist(ws)
  PROVE  Edits(ws)
<1>0. PICK n \in 1 .. WpMaxLabels : \E list \in [1 .. n -> Wallets] :
        wpLabels' = wpLabels \o [i \in 1 .. n |-> Label(ws, list[i], "manual_block", "skip", TRUE, Never)]
  BY DEF ImportBlocklist
<1>1. PICK list \in [1 .. n -> Wallets] :
        wpLabels' = wpLabels \o [i \in 1 .. n |-> Label(ws, list[i], "manual_block", "skip", TRUE, Never)]
  BY <1>0
<1> DEFINE more == [i \in 1 .. n |-> Label(ws, list[i], "manual_block", "skip", TRUE, Never)]
<1>2. \A i \in 1 .. n : more[i] \in LabelRows /\ more[i].ws = ws
  <2>1. "skip" \in Dispositions /\ Never \in Nat
    BY DEF Dispositions, Never
  <2> QED
    BY <2>1, NewLabelIsARow
<1>3. n \in Nat /\ more \in Seq(LabelRows) /\ Len(more) = n
  <2>1. n \in Nat /\ more \in [1 .. n -> LabelRows]
    <3>1. n \in Nat
      BY WpAssumption
    <3>2. DOMAIN more = 1 .. n /\ more = [i \in 1 .. n |-> more[i]]
      OBVIOUS
    <3> HIDE DEF more
    <3> QED
      BY <1>2, <3>1, <3>2
  <2> HIDE DEF more
  <2> QED
    BY <2>1, SeqDef
<1> HIDE DEF more
<1>4. wpLabels \in Seq(LabelRows) /\ wpLabels' = wpLabels \o more
  BY <1>1 DEF WpIndInv, more
<1>5. /\ wpLabels' \in Seq(LabelRows) /\ Len(wpLabels') = Len(wpLabels) + n
      /\ \A i \in 1 .. Len(wpLabels) : wpLabels'[i] = wpLabels[i]
      /\ \A i \in 1 .. Len(wpLabels') : i \notin 1 .. Len(wpLabels) =>
           i - Len(wpLabels) \in 1 .. n /\ wpLabels'[i] = more[i - Len(wpLabels)]
  <2>1. /\ wpLabels' \in Seq(LabelRows) /\ Len(wpLabels') = Len(wpLabels) + n
        /\ \A i \in 1 .. Len(wpLabels) + n :
             wpLabels'[i] = IF i <= Len(wpLabels) THEN wpLabels[i] ELSE more[i - Len(wpLabels)]
    BY <1>3, <1>4, ConcatProperties
  <2>2. Len(wpLabels) \in Nat
    BY <1>4
  <2> QED
    BY <1>3, <2>1, <2>2
<1>6. DOMAIN wpLabels = 1 .. Len(wpLabels) /\ DOMAIN wpLabels' = 1 .. Len(wpLabels') /\ Len(wpLabels) \in Nat
  BY <1>4, <1>5
<1> QED
  BY <1>2, <1>3, <1>5, <1>6 DEF Edits

LEMMA RevokeEdits ==
  ASSUME WpIndInv, NEW ws \in WpSpaces, NEW w, NEW kinds, RevokeWalletLabel(ws, w, kinds)
  PROVE  Edits(ws)
<1>1. wpLabels \in Seq(LabelRows) /\ wpNow \in Nat
  BY DEF WpIndInv
<1> DEFINE N == Len(wpLabels)
<1>2. N \in Nat /\ DOMAIN wpLabels = 1 .. N /\ \A i \in 1 .. N : wpLabels[i] \in LabelRows
  BY <1>1
<1>3. \A l \in LabelRows : [l EXCEPT !.revoked = wpNow] \in LabelRows /\ [l EXCEPT !.revoked = wpNow].ws = l.ws
  BY <1>1 DEF LabelRows
<1>4. wpLabels' = [i \in 1 .. N |->
         IF wpLabels[i].ws = ws /\ wpLabels[i].wallet = w /\ wpLabels[i].kind \in kinds
            /\ wpLabels[i].revoked = Never
         THEN [wpLabels[i] EXCEPT !.revoked = wpNow] ELSE wpLabels[i]]
  BY <1>2 DEF RevokeWalletLabel
<1> HIDE DEF N
<1>5. ASSUME NEW i \in 1 .. N
      PROVE  /\ wpLabels'[i] \in LabelRows
             /\ \/ wpLabels'[i] = wpLabels[i]
                \/ wpLabels[i].ws = ws /\ wpLabels'[i].ws = ws /\ wpLabels[i].revoked = Never
  BY <1>2, <1>3, <1>4
<1>6. wpLabels' \in Seq(LabelRows) /\ DOMAIN wpLabels' = 1 .. N
  BY <1>2, <1>4, <1>5
<1> QED
  BY <1>2, <1>5, <1>6 DEF Edits

LEMMA AutomaticEdits ==
  ASSUME WpIndInv, NEW r \in WpReaders, WriteAutomatic(r)
  PROVE  Edits(wpR[r].ws)
<1>1. PICK w \in wpR[r].left :
         wpLabels' = Append(wpLabels, Label(wpR[r].ws, w, "mev_bot", "skip", FALSE, Never))
  BY DEF WriteAutomatic
<1>2. wpR[r].ws \in WpSpaces /\ w \in Wallets
  BY DEF WpIndInv, ReaderIsSound, Readers, WriteAutomatic
<1>3. "skip" \in Dispositions /\ Never \in Nat
  BY DEF Dispositions, Never
<1>4. /\ Label(wpR[r].ws, w, "mev_bot", "skip", FALSE, Never) \in LabelRows
      /\ Label(wpR[r].ws, w, "mev_bot", "skip", FALSE, Never).ws = wpR[r].ws
  BY <1>2, <1>3 DEF Label, LabelRows
<1> QED
  BY <1>1, <1>4, AppendEdits

LEMMA NothingEdits ==
  ASSUME WpIndInv, UNCHANGED wpLabels
  PROVE  \A ws : Edits(ws)
BY DEF WpIndInv, Edits

(* The steps of readers.                                                   *)

\* What a reader's record x may become: nothing new is collected but what the
\* policy allows now, and only by a reader of buyers.
Moved(x, y) ==
  /\ y.pc # "idle" => y.ws \in WpSpaces
  /\ y.pc \in {"auto", "score"} => y.out = {}
  /\ \/ y = x \/ y.out = {}
     \/ x.pc = "buyers" /\ y.pc = "idle" /\ y.out \subseteq x.out
     \/ /\ x.pc = "buyers" /\ y.pc = "buyers"
        /\ y.out \subseteq x.out \union Scorable(wpLabels', y.ws, wpNow')

ReadersMove ==
  wpR' \in [WpReaders -> Readers] /\ \A r \in WpReaders : Moved(wpR[r], wpR'[r])

LEMMA NoReaderMoves == ASSUME WpIndInv, UNCHANGED wpR PROVE ReadersMove
BY DEF WpIndInv, ReaderIsSound, ReadersMove, Moved

LEMMA OneReaderMoves ==
  ASSUME WpIndInv, NEW r \in WpReaders, NEW y \in Readers, Moved(wpR[r], y),
         wpR' = [wpR EXCEPT ![r] = y]
  PROVE  ReadersMove
<1>1. \A q \in WpReaders : Moved(wpR[q], wpR[q])
  BY DEF WpIndInv, ReaderIsSound, Moved
<1>2. wpR \in [WpReaders -> Readers]
  BY DEF WpIndInv
<1> QED
  BY <1>1, <1>2 DEF ReadersMove

\* A reader that ends with what it collected, or with nothing.
LEMMA EndMoves ==
  ASSUME WpIndInv, NEW r \in WpReaders, NEW out, out \subseteq Wallets, End(r, out),
         out = {} \/ (wpR[r].pc = "buyers" /\ out \subseteq wpR[r].out)
  PROVE  ReadersMove
<1> DEFINE y == [IdleReader EXCEPT !.out = out]
<1>1. y \in Readers /\ y.pc = "idle" /\ y.out = out
  BY DEF IdleReader, Readers
<1>2. wpR' = [wpR EXCEPT ![r] = y]
  BY DEF End
<1> HIDE DEF y
<1>3. Moved(wpR[r], y)
  BY <1>1 DEF Moved
<1> QED
  BY <1>1, <1>2, <1>3, OneReaderMoves

\* A reader that starts.
LEMMA StartMoves ==
  ASSUME WpIndInv, NEW r \in WpReaders, NEW pc \in {"auto", "score", "buyers"}, NEW ws \in WpSpaces,
         NEW left, left \subseteq Wallets,
         wpR' = [wpR EXCEPT ![r] = [pc |-> pc, ws |-> ws, left |-> left, out |-> {}]]
  PROVE  ReadersMove
<1> DEFINE y == [pc |-> pc, ws |-> ws, left |-> left, out |-> {}]
<1>1. y \in Readers /\ y.ws = ws /\ y.out = {}
  BY DEF Readers
<1> HIDE DEF y
<1>2. Moved(wpR[r], y)
  BY <1>1 DEF Moved
<1> QED
  BY <1>1, <1>2, OneReaderMoves DEF y

LEMMA ReadBuyerMoves ==
  ASSUME WpIndInv, NEW r \in WpReaders, ReadBuyer(r)
  PROVE  ReadersMove
<1>1. PICK w \in wpR[r].left :
        LET d == EffectiveDisposition(wpLabels, wpR[r].ws, w, wpNow)
        IN IF d = PolicyError THEN End(r, {})
           ELSE wpR' = [wpR EXCEPT ![r] = Collect(wpR[r], w, AllowsScoring(d))]
  BY DEF ReadBuyer
<1>2. /\ wpR[r] \in Readers /\ wpR[r].pc = "buyers" /\ wpR[r].ws \in WpSpaces /\ w \in Wallets
      /\ wpLabels' = wpLabels /\ wpNow' = wpNow /\ wpR \in [WpReaders -> Readers]
  BY DEF WpIndInv, ReaderIsSound, Readers, ReadBuyer
<1>3. CASE EffectiveDisposition(wpLabels, wpR[r].ws, w, wpNow) = PolicyError
  BY <1>1, <1>3, EndMoves
<1>4. CASE EffectiveDisposition(wpLabels, wpR[r].ws, w, wpNow) # PolicyError
  <2> DEFINE allowed == AllowsScoring(EffectiveDisposition(wpLabels, wpR[r].ws, w, wpNow))
             y == Collect(wpR[r], w, allowed)
  <2>1. wpR' = [wpR EXCEPT ![r] = y]
    BY <1>1, <1>2, <1>4
  <2>2. allowed => w \in Scorable(wpLabels', wpR[r].ws, wpNow')
    BY <1>2 DEF Scorable
  <2> HIDE DEF allowed
  <2>3. /\ y \in Readers /\ y.pc = "buyers" /\ y.ws = wpR[r].ws
        /\ y.out = IF allowed THEN wpR[r].out \cup {w} ELSE wpR[r].out
    BY <1>2 DEF Readers, Collect
  <2> HIDE DEF y
  <2>4. Moved(wpR[r], y)
    BY <1>2, <2>2, <2>3 DEF Moved
  <2> QED
    BY <2>1, <2>3, <2>4, OneReaderMoves
<1> QED
  BY <1>3, <1>4

LEMMA ClassifyMoves ==
  ASSUME WpIndInv, NEW r \in WpReaders, NEW ws \in WpSpaces, NEW w \in Wallets, Classify(r, ws, w)
  PROVE  ReadersMove
<1>1. \/ wpR' = [wpR EXCEPT ![r] = [pc |-> "auto", ws |-> ws, left |-> {w}, out |-> {}]]
      \/ End(r, {})
  BY DEF Classify
<1> QED
  BY <1>1, EndMoves, StartMoves

\* Every step is a statement of one workspace on labels, or leaves them; and it
\* moves readers soundly.
PolicyMoves ==
  /\ ReadersMove /\ wpNow' \in Nat
  /\ \E ws : Edits(ws)

LEMMA WpSteps == ASSUME WpIndInv, WpStep PROVE PolicyMoves
<1>0. wpNow \in Nat
  BY DEF WpIndInv
<1>1. ASSUME NEW ws \in WpSpaces, NEW w \in Wallets, AddWalletLabel(ws, w)
      PROVE  PolicyMoves
  BY <1>0, <1>1, AddEdits, NoReaderMoves DEF AddWalletLabel, PolicyMoves
<1>2. ASSUME NEW ws \in WpSpaces, NEW w \in Wallets, NEW kinds, RevokeWalletLabel(ws, w, kinds)
      PROVE  PolicyMoves
  <2>1. Edits(ws)
    BY <1>2, RevokeEdits
  <2> QED
    BY <1>0, <1>2, <2>1, NoReaderMoves DEF RevokeWalletLabel, PolicyMoves
<1>3. ASSUME NEW ws \in WpSpaces, ImportBlocklist(ws)
      PROVE  PolicyMoves
  BY <1>0, <1>3, ImportEdits, NoReaderMoves DEF ImportBlocklist, PolicyMoves
<1>4. ASSUME NEW ws \in WpSpaces, NEW w \in Wallets, NEW r \in WpReaders, Classify(r, ws, w)
      PROVE  PolicyMoves
  BY <1>0, <1>4, ClassifyMoves, NothingEdits DEF Classify, PolicyMoves
<1>5. ASSUME NEW ws \in WpSpaces, NEW w \in Wallets, NEW r \in WpReaders, StartScore(r, ws, w)
      PROVE  PolicyMoves
  <2>1. ReadersMove
    <3>1. wpR' = [wpR EXCEPT ![r] = [pc |-> "score", ws |-> ws, left |-> {w}, out |-> {}]]
      BY <1>5 DEF StartScore
    <3> DEFINE left == {w}
    <3>2. left \subseteq Wallets /\ wpR' = [wpR EXCEPT ![r] = [pc |-> "score", ws |-> ws, left |-> left, out |-> {}]]
      BY <3>1
    <3> HIDE DEF left
    <3> QED
      BY <3>2, StartMoves
  <2> QED
    BY <1>0, <1>5, <2>1, NothingEdits DEF StartScore, PolicyMoves
<1>6. ASSUME NEW ws \in WpSpaces, NEW r \in WpReaders, StartBuyers(r, ws)
      PROVE  PolicyMoves
  BY <1>0, <1>6, StartMoves, NothingEdits DEF StartBuyers, PolicyMoves
<1>7. ASSUME NEW r \in WpReaders, WriteAutomatic(r)
      PROVE  PolicyMoves
  BY <1>0, <1>7, AutomaticEdits, EndMoves DEF WriteAutomatic, PolicyMoves
<1>8. ASSUME NEW r \in WpReaders, StoreScore(r)
      PROVE  PolicyMoves
  BY <1>0, <1>8, NothingEdits, EndMoves DEF StoreScore, PolicyMoves
<1>9. ASSUME NEW r \in WpReaders, ReadBuyer(r)
      PROVE  PolicyMoves
  BY <1>0, <1>9, NothingEdits, ReadBuyerMoves DEF ReadBuyer, PolicyMoves
<1>10. ASSUME NEW r \in WpReaders, BuyersDone(r)
       PROVE  PolicyMoves
  <2>1. wpR[r].out \subseteq Wallets
    BY DEF WpIndInv, Readers
  <2> QED
    BY <1>0, <1>10, <2>1, NothingEdits, EndMoves DEF BuyersDone, PolicyMoves
<1>11. ASSUME WpTick
       PROVE  PolicyMoves
  BY <1>0, <1>11, NothingEdits, NoReaderMoves DEF WpTick, PolicyMoves
<1> QED
  BY <1>1, <1>2, <1>3, <1>4, <1>5, <1>6, <1>7, <1>8, <1>9, <1>10, <1>11 DEF WpStep

\* The history variable keeps up with what readers collect.
LEMMA PolicyHolds ==
  ASSUME WpIndInv, PolicyMoves, Observe
  PROVE  WpIndInv'
<1>1. wpLabels' \in Seq(LabelRows) /\ wpNow' \in Nat /\ wpR' \in [WpReaders -> Readers]
  BY DEF PolicyMoves, Edits, ReadersMove
<1>2. \A r \in WpReaders : ReaderIsSound(r)'
  BY DEF PolicyMoves, ReadersMove, Moved, ReaderIsSound
<1>3. \A r \in WpReaders :
        wpAllowed'[r] = IF wpR'[r].pc = "idle" THEN (IF wpR'[r].out = {} THEN {} ELSE wpAllowed[r])
                        ELSE IF wpR'[r].pc # "buyers" THEN {}
                        ELSE (IF wpR[r].pc = "idle" THEN {} ELSE wpAllowed[r])
                             \cup Scorable(wpLabels', wpR'[r].ws, wpNow')
  BY DEF Observe
<1>4. wpAllowed' \in [WpReaders -> SUBSET Wallets]
  <2>1. \A r \in WpReaders : wpAllowed'[r] \subseteq Wallets
    BY <1>3 DEF WpIndInv, Scorable
  <2>2. DOMAIN wpAllowed' = WpReaders /\ wpAllowed' = [r \in WpReaders |-> wpAllowed'[r]]
    BY DEF Observe
  <2> QED
    BY <2>1, <2>2
<1>5. ASSUME NEW r \in WpReaders
      PROVE  wpR'[r].out \subseteq wpAllowed'[r]
  <2>1. /\ Moved(wpR[r], wpR'[r]) /\ wpR[r].out \subseteq wpAllowed[r]
        /\ wpR[r] \in Readers /\ wpR'[r] \in Readers
    BY <1>1 DEF WpIndInv, PolicyMoves, ReadersMove, ContributorsWereAllowed
  <2>2. wpR'[r].pc \in {"idle", "auto", "score", "buyers"}
    BY <2>1 DEF Readers
  <2>3. CASE wpR'[r].pc \in {"auto", "score"}
    BY <2>1, <2>3 DEF Moved
  <2>4. CASE wpR'[r].pc = "idle"
    BY <1>3, <2>1, <2>4 DEF Moved
  <2>5. CASE wpR'[r].pc = "buyers"
    BY <1>3, <2>1, <2>5 DEF Moved
  <2> QED
    BY <2>2, <2>3, <2>4, <2>5
<1> QED
  BY <1>1, <1>2, <1>4, <1>5 DEF WpIndInv, ContributorsWereAllowed

LEMMA WpInitial == ASSUME WpInit PROVE WpIndInv
<1>1. IdleReader \in Readers /\ IdleReader.pc = "idle" /\ IdleReader.out = {}
  BY DEF IdleReader, Readers
<1> HIDE DEF IdleReader
<1>2. wpR \in [WpReaders -> Readers] /\ \A r \in WpReaders : wpR[r] = IdleReader /\ wpAllowed[r] = {}
  BY <1>1 DEF WpInit
<1> QED
  BY <1>1, <1>2 DEF WpInit, WpIndInv, ReaderIsSound, ContributorsWereAllowed

LEMMA WpInductive == WpSpec => []WpIndInv
<1>1. WpIndInv /\ UNCHANGED wpVars => WpIndInv'
  BY DEF wpVars, WpIndInv, ReaderIsSound, ContributorsWereAllowed
<1>2. WpIndInv /\ [WpNext]_wpVars => WpIndInv'
  BY <1>1, WpSteps, PolicyHolds DEF WpNext
<1> QED
  BY <1>2, WpInitial, PTL DEF WpSpec

\* db.rs's active_disposition answers with the most restrictive manual label, or
\* the most restrictive automatic one where there is none, whatever order any
\* number of concurrent writers inserted the rows in; and whoever the buyers'
\* reader of workers.rs lets contribute was allowed during that evaluation.
THEOREM PolicyRespected == WpSpec => []PolicyIsRespected
<1>1. WpIndInv => PolicyIsRespected
  BY ManualDecides DEF PolicyIsRespected, WpIndInv
<1> QED
  BY <1>1, WpInductive, PTL

\* No statement on wallet_labels changes the policy of a second workspace or the
\* history of a row already revoked, for any workspaces, wallets, labels and readers.
THEOREM SafeLabels == WpSpec => LabelsAreSafe
<1>1. WpIndInv /\ [WpNext]_wpVars => [TenantsKeepTheirPolicy /\ LabelsKeepTheirHistory]_wpVars
  BY WpSteps, EditsAreSafe DEF WpNext, PolicyMoves
<1> QED
  BY <1>1, WpInductive, PTL DEF WpSpec, LabelsAreSafe


(***************************************************************************)
(* GmgnBucket.                                                             *)
(***************************************************************************)

LEMMA AtMostIsBounded ==
  ASSUME NEW x \in Int, NEW limit \in Int
  PROVE  /\ AtMost(x, limit) \in Int
         /\ AtMost(x, limit) <= x /\ AtMost(x, limit) <= limit
         /\ AtMost(x, limit) = x \/ AtMost(x, limit) = limit
BY DEF AtMost

\* One more tick earns one more GmRate; fewer ticks earn no more.
LEMMA EarningsGrow ==
  ASSUME NEW m \in Nat, NEW n \in Nat, NEW r \in Nat
  PROVE  /\ m * r \in Nat
         /\ (m + 1) * r = m * r + r
         /\ m <= n => m * r <= n * r
OBVIOUS

LEMMA RefillEarns ==
  ASSUME GmIndInv
  PROVE  /\ Refill.tokens \in 0..GmCapacity
         /\ Refill.elapsed \in Nat
         /\ Refill.pause \in Int
         /\ gmCredit >= Refill.tokens + (IF Refill.elapsed * GmRate < GmCapacity
                          THEN Refill.elapsed * GmRate - GmCapacity ELSE 0)
         /\ gmPause > 0 => Refill = Unrefilled
         /\ gmPause <= 0 => Refill.pause <= 0
<1>1. gmElapsed * GmRate \in Nat /\ 0 * GmRate = 0
  BY EarningsGrow, GmAssumption DEF GmIndInv, GmTypeOK
<1>2. CASE gmPause > 0
  BY <1>2, <1>1, GmAssumption DEF Refill, Unrefilled, GmIndInv, GmTypeOK, AheadByOneBucket
<1>3. CASE ~(gmPause > 0)
  BY <1>3, <1>1, GmAssumption
     DEF Refill, EarnedSince, AtMost, NoPause, GmIndInv, GmTypeOK, AheadByOneBucket
<1> QED
  BY <1>2, <1>3

LEMMA MaxOfTwo ==
  ASSUME NEW a \in Int, NEW b \in Int
  PROVE  Max({a, b}) \in Int
<1>1. \E x \in {a, b} : \A y \in {a, b} : x >= y
  OBVIOUS
<1> QED
  BY <1>1 DEF Max

LEMMA GmInitial == GmInit => GmIndInv
<1> SUFFICES ASSUME GmInit PROVE GmIndInv
  OBVIOUS
<1>1. 0 * GmRate = 0
  BY GmAssumption
<1> QED
  BY <1>1, GmAssumption
     DEF GmInit, GmIndInv, GmTypeOK, GmIdle, NoPause, AheadByOneBucket,
         PauseSpendsTokens, PausedSpendIsBounded

LEMMA QueryKeepsBudget ==
  ASSUME GmIndInv, NEW cost \in GmCosts, Query(cost)
  PROVE  GmIndInv'
BY GmAssumption
   DEF GmIndInv, GmTypeOK, Query, AheadByOneBucket, PauseSpendsTokens, PausedSpendIsBounded

\* The bucket is refilled and either pays for the request or is left alone.
LEMMA TryAcquireKeepsBudget ==
  ASSUME GmIndInv, TryAcquire
  PROVE  GmIndInv'
<1>1. /\ gmElapsed' = Refill.elapsed /\ gmPause' = Refill.pause
      /\ gmLimited' = gmLimited
  BY DEF TryAcquire
<1>2. CASE Refill.tokens >= gmQuery.cost
  <2>1. /\ gmTokens' = Refill.tokens - gmQuery.cost
        /\ gmQuery' = [gmQuery EXCEPT !.pc = "sent"]
        /\ gmCredit' = gmCredit - gmQuery.cost
        /\ gmPaused' = IF gmPause > 0 THEN gmPaused + gmQuery.cost ELSE 0
    BY <1>2 DEF TryAcquire
  <2>2. Refill.elapsed * GmRate \in Nat
    BY RefillEarns, EarningsGrow, GmAssumption
  <2>3. GmTypeOK' /\ AheadByOneBucket'
    BY <1>1, <1>2, <2>1, <2>2, RefillEarns, GmAssumption
       DEF GmIndInv, GmTypeOK, AheadByOneBucket
  <2>4. PauseSpendsTokens' /\ PausedSpendIsBounded'
    BY <1>1, <1>2, <2>1, RefillEarns, GmAssumption
       DEF GmIndInv, GmTypeOK, PauseSpendsTokens, PausedSpendIsBounded, Unrefilled
  <2> QED
    BY <2>3, <2>4 DEF GmIndInv
<1>3. CASE ~(Refill.tokens >= gmQuery.cost)
  <2> DEFINE wait == Max({CeilDiv(gmQuery.cost - Refill.tokens, GmRate), Refill.pause})
  <2>1. /\ gmTokens' = Refill.tokens
        /\ gmQuery' = [gmQuery EXCEPT !.sleep = AtMost(wait, GmMaxSleep)]
        /\ UNCHANGED <<gmCredit, gmPaused>>
    BY <1>3 DEF TryAcquire
  <2>2. AtMost(wait, GmMaxSleep) \in Int
    <3>1. CeilDiv(gmQuery.cost - Refill.tokens, GmRate) \in Int
      BY RefillEarns, GmAssumption DEF CeilDiv, GmIndInv, GmTypeOK
    <3>2. wait \in Int
      BY <3>1, RefillEarns, MaxOfTwo
    <3> QED
      BY <3>2, AtMostIsBounded, GmAssumption
  <2>3. GmTypeOK' /\ AheadByOneBucket'
    BY <1>1, <2>1, <2>2, RefillEarns, GmAssumption
       DEF GmIndInv, GmTypeOK, AheadByOneBucket
  <2>4. PauseSpendsTokens' /\ PausedSpendIsBounded'
    BY <1>1, <2>1, RefillEarns, GmAssumption
       DEF GmIndInv, GmTypeOK, PauseSpendsTokens, PausedSpendIsBounded, Unrefilled
  <2> QED
    BY <2>3, <2>4 DEF GmIndInv
<1> QED
  BY <1>2, <1>3

LEMMA AnswersKeepBudget ==
  ASSUME GmIndInv, Answered \/ TooManyRequests
  PROVE  GmIndInv'
<1>1. CASE Answered
  BY <1>1, GmAssumption
     DEF Answered, GmIdle, GmIndInv, GmTypeOK, AheadByOneBucket, PauseSpendsTokens,
         PausedSpendIsBounded
<1>2. CASE TooManyRequests
  <2>1. GmTypeOK' /\ AheadByOneBucket'
    BY <1>2, GmAssumption DEF TooManyRequests, GmIndInv, GmTypeOK, AheadByOneBucket
  <2>2. PauseSpendsTokens' /\ PausedSpendIsBounded'
    BY <1>2, GmAssumption
       DEF TooManyRequests, GmIndInv, GmTypeOK, PauseSpendsTokens, PausedSpendIsBounded
  <2> QED
    BY <2>1, <2>2 DEF GmIndInv
<1> QED
  BY <1>1, <1>2

\* A tick credits both sides alike, up to a full bucket on each.
LEMMA TickKeepsBudget ==
  ASSUME GmIndInv, GmTick
  PROVE  GmIndInv'
<1> DEFINE full == CeilDiv(GmCapacity, GmRate)
<1>1. full \in Nat
  BY GmAssumption DEF CeilDiv
<1>2. /\ gmElapsed' \in Nat /\ gmElapsed' <= gmElapsed + 1
      /\ gmElapsed * GmRate \in Nat /\ gmElapsed' * GmRate \in Nat
      /\ gmElapsed' * GmRate <= gmElapsed * GmRate + GmRate
  <2>1. gmElapsed' \in Nat /\ gmElapsed' <= gmElapsed + 1
    BY <1>1, AtMostIsBounded, GmAssumption DEF GmTick, GmIndInv, GmTypeOK
  <2>2. gmElapsed + 1 \in Nat /\ GmRate \in Nat /\ gmElapsed \in Nat
    BY GmAssumption DEF GmIndInv, GmTypeOK
  <2>3. gmElapsed * GmRate \in Nat /\ (gmElapsed + 1) * GmRate = gmElapsed * GmRate + GmRate
    BY <2>2, EarningsGrow
  <2>4. gmElapsed' * GmRate \in Nat /\ gmElapsed' * GmRate <= (gmElapsed + 1) * GmRate
    BY <2>1, <2>2, EarningsGrow
  <2> QED
    BY <2>1, <2>3, <2>4
<1>3. /\ gmPause' = IF gmPause > 0 THEN gmPause - 1 ELSE gmPause
      /\ gmQuery' = [gmQuery EXCEPT !.sleep = IF @ > 0 THEN @ - 1 ELSE 0]
      /\ gmCredit' = AtMost(gmCredit + GmRate, GmCapacity)
      /\ UNCHANGED <<gmTokens, gmLimited, gmPaused>>
  BY DEF GmTick
<1>4. GmTypeOK'
  BY <1>2, <1>3, AtMostIsBounded, GmAssumption DEF GmIndInv, GmTypeOK
<1>5. AheadByOneBucket'
  BY <1>2, <1>3, GmAssumption DEF AtMost, GmIndInv, GmTypeOK, AheadByOneBucket
<1>6. PauseSpendsTokens' /\ PausedSpendIsBounded'
  BY <1>3, GmAssumption DEF GmIndInv, GmTypeOK, PauseSpendsTokens, PausedSpendIsBounded
<1> QED
  BY <1>4, <1>5, <1>6 DEF GmIndInv

LEMMA GmInductive == GmSpec => []GmIndInv
<1>1. GmIndInv /\ [GmNext]_gmVars => GmIndInv'
  <2> SUFFICES ASSUME GmIndInv, [GmNext]_gmVars PROVE GmIndInv'
    OBVIOUS
  <2>1. CASE UNCHANGED gmVars
    BY <2>1 DEF gmVars, GmIndInv, GmTypeOK, AheadByOneBucket, PauseSpendsTokens,
                PausedSpendIsBounded
  <2> QED
    BY <2>1, QueryKeepsBudget, TryAcquireKeepsBudget, AnswersKeepBudget, TickKeepsBudget
       DEF GmNext, GmWork
<1> QED
  BY <1>1, GmInitial, PTL DEF GmSpec

\* The rate GMGN sees stays bounded (gmgn.rs, try_acquire and pause_for): for any
\* capacity, rate, costs and any number of pauses that follow each other the
\* client is ahead of a bucket that never pauses by at most one capacity, and
\* spends at most one capacity in a pause.
THEOREM BoundedRate == GmSpec => []GmRateIsBounded
<1>1. GmIndInv => GmRateIsBounded
  <2> SUFFICES ASSUME GmIndInv PROVE GmRateIsBounded
    OBVIOUS
  <2>1. gmElapsed * GmRate \in Nat
    BY EarningsGrow, GmAssumption DEF GmIndInv, GmTypeOK
  <2> QED
    BY <2>1, GmAssumption
       DEF GmIndInv, GmTypeOK, AheadByOneBucket, PausedSpendIsBounded, GmRateIsBounded,
           GmWithinBudget
<1> QED
  BY <1>1, GmInductive, PTL

(***************************************************************************)
(* TelegramIngest.                                                         *)
(***************************************************************************)

LEMMA TgInitial == TgInit => TgIndInv
<1> SUFFICES ASSUME TgInit PROVE TgIndInv
  OBVIOUS
<1>1. TgTypeOK
  BY DEF TgInit, TgTypeOK, TgIdle, NoMessage, TgStatuses, TgPcs, TgChans, TgPosts, TgStored,
         TgPolls, TgMessages
<1>2. PollIsPlaced /\ LeftIsStored /\ LateIsInFlight
  BY DEF TgInit, TgIdle, PollIsPlaced, LeftIsStored, LateIsInFlight
<1>3. MentionsAreEvidenced /\ RemovalTakesHold
  BY DEF TgInit, MentionsAreEvidenced, RemovalTakesHold
<1> QED
  BY <1>1, <1>2, <1>3 DEF TgIndInv

LEMMA FeedHasLength ==
  ASSUME TgTypeOK, NEW c \in TgChannels
  PROVE  Len(tgFeed[c]) \in Nat /\ DOMAIN tgFeed[c] = 1..Len(tgFeed[c])
<1>1. tgFeed[c] \in Seq(TgPosts)
  BY DEF TgTypeOK
<1> QED
  BY <1>1

LEMMA IdleIsAPoll == TgIdle \in TgPolls
BY DEF TgIdle, NoMessage, TgPolls, TgMessages, TgPcs

LEMMA GotoKeepsType ==
  ASSUME tgPoll \in TgPolls, NEW pc \in TgPcs, TgGoto(pc)
  PROVE  /\ tgPoll' \in TgPolls /\ tgPoll'.pc = pc
         /\ tgPoll'.chan = tgPoll.chan /\ tgPoll'.at = tgPoll.at
BY DEF TgGoto, TgPolls

\* The poll moves to where it has nothing half done, and the tables that the
\* properties compare stay as they are.
LEMMA PollMoves ==
  ASSUME TgIndInv, UNCHANGED <<tgFeed, tgRows, tgMentions, tgLate>>,
         tgChan' \in [TgChannels -> TgChans],
         \A c \in TgChannels : tgChan'[c].allowed = tgChan[c].allowed,
         tgPoll' \in TgPolls, PollIsPlaced', tgPoll'.pc \notin {"insert", "mention"}
  PROVE  TgIndInv'
<1>1. TgTypeOK'
  BY DEF TgIndInv, TgTypeOK
<1> QED
  BY <1>1 DEF TgIndInv, LeftIsStored, LateIsInFlight, MentionsAreEvidenced, RemovalTakesHold

LEMMA StatusKeepsAllowlist ==
  ASSUME TgTypeOK, NEW c \in TgChannels, NEW e \in TgErrors,
         SetStatus(c, StatusAfter(e, tgChan[c].status))
  PROVE  /\ tgChan' \in [TgChannels -> TgChans]
         /\ \A d \in TgChannels : tgChan'[d].allowed = tgChan[d].allowed
<1>1. StatusAfter(e, tgChan[c].status) \in TgStatuses
  BY DEF StatusAfter, TgErrors, TgStatuses, TgTypeOK, TgChans
<1> QED
  BY <1>1 DEF SetStatus, TgTypeOK, TgChans

LEMMA PassesKeepEvidence ==
  ASSUME TgIndInv, PollTick \/ NextChannel \/ Finish
  PROVE  TgIndInv'
<1> USE DEF TgIndInv
<1>1. CASE PollTick
  <2>1. tgPoll' \in TgPolls /\ tgPoll'.pc = "pass"
    BY <1>1, IdleIsAPoll DEF PollTick, TgPolls, TgPcs, TgIdle
  <2> QED
    BY <1>1, <2>1, PollMoves DEF PollTick, TgTypeOK, PollIsPlaced
<1>2. CASE NextChannel
  <2>1. CASE tgPoll' = TgIdle
    <3>1. tgPoll'.pc = "idle"
      BY <2>1 DEF TgIdle
    <3> QED
      BY <1>2, <2>1, <3>1, IdleIsAPoll, PollMoves DEF NextChannel, TgTypeOK, PollIsPlaced
  <2>2. ASSUME NEW c \in tgPoll.keys,
               tgPoll' = [TgIdle EXCEPT !.pc = "resolve", !.keys = tgPoll.keys \ {c}, !.chan = c]
        PROVE  TgIndInv'
    <3>1. c \in TgChannels /\ tgPoll.keys \ {c} \in SUBSET TgChannels
      BY DEF TgTypeOK, TgPolls
    <3>2. /\ tgPoll' \in TgPolls /\ tgPoll'.pc = "resolve" /\ tgPoll'.chan = c
          /\ tgPoll'.at = 0
      BY <2>2, <3>1, IdleIsAPoll DEF TgPolls, TgPcs, TgIdle
    <3>3. PollIsPlaced'
      <4>1. tgFeed' = tgFeed /\ Len(tgFeed[c]) \in Nat
        BY <1>2, <3>1, FeedHasLength DEF NextChannel
      <4> QED
        BY <3>1, <3>2, <4>1 DEF PollIsPlaced
    <3> QED
      BY <1>2, <3>2, <3>3, PollMoves DEF NextChannel, TgTypeOK
  <2> QED
    BY <1>2, <2>1, <2>2 DEF NextChannel
<1>3. CASE Finish
  <2>1. tgPoll.chan \in TgChannels /\ tgPoll.max \in Nat
    BY <1>3 DEF Finish, PollIsPlaced, TgTypeOK, TgPolls
  <2>2. tgPoll' \in TgPolls /\ tgPoll'.pc = "pass"
    BY <1>3, GotoKeepsType DEF Finish, TgPcs, TgTypeOK
  <2>3. /\ tgChan' \in [TgChannels -> TgChans]
        /\ \A c \in TgChannels : tgChan'[c].allowed = tgChan[c].allowed
    <3>1. /\ tgChan \in [TgChannels -> TgChans] /\ "active" \in TgStatuses
          /\ tgChan' = [tgChan EXCEPT ![tgPoll.chan].status = "active",
                                      ![tgPoll.chan].cursor = tgPoll.max]
      BY <1>3 DEF Finish, TgTypeOK, TgStatuses
    <3> DEFINE c == tgPoll.chan
               r == [tgChan[c] EXCEPT !.status = "active", !.cursor = tgPoll.max]
    <3>2. tgChan' = [tgChan EXCEPT ![c] = r]
      BY <3>1
    <3>3. r \in TgChans /\ r.allowed = tgChan[c].allowed
      <4>1. tgChan[c] \in TgChans
        BY <2>1, <3>1
      <4> QED
        BY <2>1, <3>1, <4>1 DEF TgChans
    <3> HIDE DEF r
    <3> QED
      BY <2>1, <3>1, <3>2, <3>3
  <2> QED
    BY <1>3, <2>2, <2>3, PollMoves DEF Finish, PollIsPlaced
<1> QED
  BY <1>1, <1>2, <1>3

LEMMA FetchesKeepEvidence ==
  ASSUME TgIndInv, ResolveUsername \/ IterNext
  PROVE  TgIndInv'
<1> USE DEF TgIndInv
<1>1. tgPoll.chan \in TgChannels /\ Len(tgFeed[tgPoll.chan]) \in Nat
  BY FeedHasLength DEF ResolveUsername, IterNext, PollIsPlaced
<1>2. CASE ResolveUsername
  <2>1. /\ tgPoll' \in TgPolls /\ tgPoll'.pc = "iter" /\ tgPoll'.chan = tgPoll.chan
        /\ tgPoll'.at = Len(tgFeed[tgPoll.chan]) + 1
    <3> DEFINE n == Len(tgFeed[tgPoll.chan]) + 1
    <3>1. n \in Nat /\ tgPoll' = [tgPoll EXCEPT !.pc = "iter", !.at = n]
      BY <1>1, <1>2 DEF ResolveUsername
    <3> HIDE DEF n
    <3>2. /\ tgPoll' \in TgPolls /\ tgPoll'.pc = "iter" /\ tgPoll'.chan = tgPoll.chan
          /\ tgPoll'.at = n
      BY <3>1 DEF TgTypeOK, TgPolls, TgPcs
    <3> QED
      BY <3>2 DEF n
  <2> QED
    BY <1>1, <1>2, <2>1, PollMoves DEF ResolveUsername, TgTypeOK, PollIsPlaced
<1>3. CASE IterNext
  <2>1. CASE tgPoll.fetched = TgLimit \/ tgPoll.at <= 1
    <3>1. /\ tgPoll' \in TgPolls /\ tgPoll'.pc = "finish"
          /\ tgPoll'.chan = tgPoll.chan /\ tgPoll'.at = tgPoll.at
      BY <1>3, <2>1, GotoKeepsType DEF IterNext, TgTypeOK, TgPcs
    <3> QED
      BY <1>3, <3>1, PollMoves DEF IterNext, TgTypeOK, PollIsPlaced
  <2>2. CASE ~(tgPoll.fetched = TgLimit \/ tgPoll.at <= 1)
    <3> DEFINE id == tgPoll.at - 1
               msg == Message(tgPoll.chan, id)
    <3>1. id \in Nat /\ id \in DOMAIN tgFeed[tgPoll.chan]
      BY <1>1, <1>3, <2>2, FeedHasLength DEF IterNext, TgTypeOK, TgPolls, PollIsPlaced
    <3>2. tgFeed[tgPoll.chan][id] \in TgPosts
      <4>1. tgFeed[tgPoll.chan] \in Seq(TgPosts)
        BY <1>1 DEF TgTypeOK
      <4> QED
        BY <3>1, <4>1
    <3>3. msg \in TgMessages
      BY <3>1, <3>2 DEF Message, TgMessages, TgPosts
    <3>4. tgPoll' = [tgPoll EXCEPT !.pc = "allow", !.at = id, !.msg = msg,
                                   !.max = IF id > @ THEN id ELSE @]
      BY <1>3, <2>2 DEF IterNext
    <3> HIDE DEF msg
    <3>5. /\ tgPoll' \in TgPolls /\ tgPoll'.pc = "allow" /\ tgPoll'.chan = tgPoll.chan
          /\ tgPoll'.at = id
      BY <3>1, <3>3, <3>4 DEF TgTypeOK, TgPolls, TgPcs
    <3> QED
      BY <1>1, <1>3, <3>1, <3>5, FeedHasLength, PollMoves DEF IterNext, TgTypeOK, PollIsPlaced
  <2> QED
    BY <2>1, <2>2
<1> QED
  BY <1>2, <1>3

LEMMA FaultsKeepEvidence ==
  ASSUME TgIndInv, ResolveFails \/ IterFails \/ StatusLost \/ TgCrash
  PROVE  TgIndInv'
<1> USE DEF TgIndInv
<1>1. CASE ResolveFails \/ IterFails
  <2>1. tgPoll.chan \in TgChannels
    BY <1>1 DEF ResolveFails, IterFails, PollIsPlaced
  <2>2. /\ tgChan' \in [TgChannels -> TgChans]
        /\ \A d \in TgChannels : tgChan'[d].allowed = tgChan[d].allowed
    BY <1>1, <2>1, StatusKeepsAllowlist DEF ResolveFails, IterFails
  <2>3. /\ tgPoll' \in TgPolls /\ tgPoll'.pc \in {"pass", "finish"}
        /\ tgPoll'.chan = tgPoll.chan /\ tgPoll'.at = tgPoll.at
    BY <1>1, GotoKeepsType DEF ResolveFails, IterFails, TgPcs, TgTypeOK
  <2>4. PollIsPlaced'
    BY <1>1, <2>1, <2>3 DEF ResolveFails, IterFails, PollIsPlaced
  <2> QED
    BY <1>1, <2>2, <2>3, <2>4, PollMoves DEF ResolveFails, IterFails
<1>2. CASE StatusLost \/ TgCrash
  <2>1. tgPoll' \in TgPolls /\ tgPoll'.pc \in {"pass", "idle"}
    <3>1. CASE tgPoll' = TgIdle
      BY <3>1, IdleIsAPoll DEF TgIdle
    <3>2. CASE TgGoto("pass")
      BY <3>2, GotoKeepsType DEF TgPcs, TgTypeOK
    <3> QED
      BY <1>2, <3>1, <3>2 DEF StatusLost, TgCrash
  <2> QED
    BY <1>2, <2>1, PollMoves DEF StatusLost, TgCrash, PollIsPlaced, TgTypeOK
<1> QED
  BY <1>1, <1>2

LEMMA MessageEnds ==
  ASSUME tgPoll \in TgPolls
  PROVE  /\ NextMessage \in TgPolls /\ NextMessage.pc = "iter"
         /\ NextMessage.chan = tgPoll.chan /\ NextMessage.at = tgPoll.at
<1>1. NoMessage \in TgMessages
  BY DEF NoMessage, TgMessages
<1>2. tgPoll.fetched + 1 \in Nat /\ {} \in SUBSET TgValues /\ "iter" \in TgPcs
  BY DEF TgPolls, TgPcs
<1> DEFINE n == tgPoll.fetched + 1
<1>3. NextMessage = [tgPoll EXCEPT !.pc = "iter", !.fetched = n, !.msg = NoMessage, !.left = {}]
  BY DEF NextMessage, TgPolls
<1> HIDE DEF n
<1> QED
  BY <1>1, <1>2, <1>3 DEF TgPolls, n

\* ingest_message: the allowlist is asked, the message is stored under its key
\* once, and only what was stored is mined for mentions.
LEMMA IngestKeepsEvidence ==
  ASSUME TgIndInv, Allowed \/ InsertMessage \/ InsertMention \/ IngestFails
  PROVE  TgIndInv'
<1> USE DEF TgIndInv
<1>1. tgPoll.chan \in TgChannels /\ tgPoll \in TgPolls
  BY DEF Allowed, InsertMessage, InsertMention, IngestFails, PollIsPlaced, TgTypeOK
<1>2. ASSUME tgPoll' = NextMessage,
             UNCHANGED <<tgChan, tgFeed, tgRows, tgMentions, tgLate>>,
             tgPoll.pc \notin {"idle", "pass"}
      PROVE  TgIndInv'
  BY <1>1, <1>2, MessageEnds, PollMoves DEF PollIsPlaced, TgTypeOK
<1>3. CASE Allowed
  <2>1. CASE tgChan[tgPoll.chan].allowed
    <3>1. tgPoll' = [tgPoll EXCEPT !.pc = "insert"]
      BY <1>3, <2>1 DEF Allowed
    <3>2. /\ tgPoll' \in TgPolls /\ tgPoll'.pc = "insert" /\ tgPoll'.chan = tgPoll.chan
          /\ tgPoll'.at = tgPoll.at
      BY <1>1, <3>1 DEF TgPolls, TgPcs
    <3>3. TgTypeOK' /\ PollIsPlaced' /\ LeftIsStored'
      BY <1>1, <1>3, <3>2 DEF Allowed, TgTypeOK, PollIsPlaced, LeftIsStored
    <3>4. LateIsInFlight' /\ MentionsAreEvidenced' /\ RemovalTakesHold'
      BY <1>1, <1>3, <2>1, <3>2
         DEF Allowed, LateIsInFlight, MentionsAreEvidenced, RemovalTakesHold
    <3> QED
      BY <3>3, <3>4
  <2>2. CASE ~tgChan[tgPoll.chan].allowed
    BY <1>2, <1>3, <2>2 DEF Allowed
  <2> QED
    BY <2>1, <2>2
<1>4. CASE InsertMessage
  <2>1. CASE Stored(tgPoll.chan, tgPoll.msg.id, tgPoll.msg.version)
    BY <1>2, <1>4, <2>1 DEF InsertMessage
  <2>2. CASE ~Stored(tgPoll.chan, tgPoll.msg.id, tgPoll.msg.version)
    <3>1. /\ tgRows' = tgRows \cup {MessageRow}
          /\ tgLate' = [tgLate EXCEPT ![tgPoll.chan] =
                          IF tgChan[tgPoll.chan].allowed THEN 0 ELSE @ + 1]
          /\ tgPoll' = [tgPoll EXCEPT !.pc = "mention", !.left = tgPoll.msg.text]
          /\ UNCHANGED <<tgChan, tgFeed, tgMentions>>
      BY <1>4, <2>2 DEF InsertMessage
    <3>2. /\ MessageRow \in TgStored /\ MessageRow.chan = tgPoll.chan
          /\ MessageRow.id = tgPoll.msg.id /\ MessageRow.version = tgPoll.msg.version
          /\ MessageRow.text = tgPoll.msg.text
      BY <1>1 DEF MessageRow, TgStored, TgPolls, TgMessages
    <3>3. /\ tgPoll' \in TgPolls /\ tgPoll'.pc = "mention" /\ tgPoll'.chan = tgPoll.chan
          /\ tgPoll'.at = tgPoll.at /\ tgPoll'.msg = tgPoll.msg /\ tgPoll'.left = tgPoll.msg.text
      BY <1>1, <3>1 DEF TgPolls, TgPcs, TgMessages
    <3>4. tgLate \in [TgChannels -> Nat] /\ tgLate[tgPoll.chan] = 0
      BY <1>4 DEF InsertMessage, LateIsInFlight, TgTypeOK
    <3>5. tgLate' \in [TgChannels -> Nat] /\ LateIsInFlight' /\ RemovalTakesHold'
      BY <1>1, <3>1, <3>3, <3>4 DEF LateIsInFlight, RemovalTakesHold
    <3>6. TgTypeOK' /\ PollIsPlaced' /\ LeftIsStored'
      BY <1>1, <1>4, <3>1, <3>2, <3>3, <3>5
         DEF InsertMessage, TgTypeOK, PollIsPlaced, LeftIsStored
    <3>7. MentionsAreEvidenced'
      BY <3>1 DEF MentionsAreEvidenced
    <3> QED
      BY <3>5, <3>6, <3>7
  <2> QED
    BY <2>1, <2>2
<1>5. CASE InsertMention
  <2>1. CASE tgPoll.left = {}
    BY <1>2, <1>5, <2>1 DEF InsertMention
  <2>2. CASE tgPoll.left # {}
    <3>1. PICK v \in tgPoll.left :
            /\ tgMentions' = tgMentions \cup {<<tgPoll.chan, tgPoll.msg.id, tgPoll.msg.version, v>>}
            /\ tgPoll' = [tgPoll EXCEPT !.left = @ \ {v}]
      BY <1>5, <2>2 DEF InsertMention
    <3>2. /\ tgPoll' \in TgPolls /\ tgPoll'.pc = tgPoll.pc /\ tgPoll'.chan = tgPoll.chan
          /\ tgPoll'.at = tgPoll.at /\ tgPoll'.msg = tgPoll.msg
          /\ tgPoll'.left = tgPoll.left \ {v}
      BY <1>1, <3>1 DEF TgPolls
    <3>3. TgTypeOK' /\ PollIsPlaced'
      BY <1>5, <3>2 DEF InsertMention, TgTypeOK, PollIsPlaced
    <3>4. LeftIsStored' /\ LateIsInFlight' /\ RemovalTakesHold'
      BY <1>5, <3>2 DEF InsertMention, LeftIsStored, LateIsInFlight, RemovalTakesHold
    <3>5. MentionsAreEvidenced'
      <4>1. PICK r \in tgRows : /\ r.chan = tgPoll.chan /\ r.id = tgPoll.msg.id
                                /\ r.version = tgPoll.msg.version /\ tgPoll.left \subseteq r.text
        BY <1>5 DEF InsertMention, LeftIsStored
      <4> QED
        BY <1>5, <3>1, <4>1 DEF InsertMention, MentionsAreEvidenced
    <3> QED
      BY <3>3, <3>4, <3>5
  <2> QED
    BY <2>1, <2>2
<1>6. CASE IngestFails
  BY <1>2, <1>6 DEF IngestFails
<1> QED
  BY <1>3, <1>4, <1>5, <1>6

LEMMA OperatorsKeepEvidence ==
  ASSUME TgIndInv, NEW c \in TgChannels, AddChannel(c) \/ RemoveChannel(c)
  PROVE  TgIndInv'
<1> USE DEF TgIndInv
<1>1. /\ tgChan' \in [TgChannels -> TgChans]
      /\ \A d \in TgChannels \ {c} : tgChan'[d].allowed = tgChan[d].allowed
      /\ RemoveChannel(c) => ~tgChan'[c].allowed
  <2>1. tgChan \in [TgChannels -> TgChans] /\ "active" \in TgStatuses /\ "disabled" \in TgStatuses
    BY DEF TgTypeOK, TgStatuses
  <2>2. ~(AddChannel(c) /\ RemoveChannel(c))
    <3>1. SUFFICES ASSUME AddChannel(c), RemoveChannel(c) PROVE FALSE
      OBVIOUS
    <3>2. tgChan'[c].allowed = TRUE
      BY <2>1, <3>1 DEF AddChannel, TgChans
    <3>3. tgChan'[c].allowed = FALSE
      BY <2>1, <3>1 DEF RemoveChannel, TgChans
    <3> QED
      BY <3>2, <3>3
  <2>3. CASE AddChannel(c)
    <3> DEFINE r == [tgChan[c] EXCEPT !.allowed = TRUE, !.status = "active"]
    <3>1. tgChan' = [tgChan EXCEPT ![c] = r]
      BY <2>1, <2>3 DEF AddChannel
    <3>2. r \in TgChans /\ r.allowed = TRUE
      <4>1. tgChan[c] \in TgChans
        BY <2>1
      <4> QED
        BY <2>1, <4>1 DEF TgChans
    <3> HIDE DEF r
    <3> QED
      BY <2>1, <2>2, <2>3, <3>1, <3>2
  <2>4. CASE RemoveChannel(c)
    <3> DEFINE r == [tgChan[c] EXCEPT !.allowed = FALSE, !.status = "disabled"]
    <3>1. tgChan' = [tgChan EXCEPT ![c] = r]
      BY <2>1, <2>4 DEF RemoveChannel
    <3>2. r \in TgChans /\ r.allowed = FALSE
      <4>1. tgChan[c] \in TgChans
        BY <2>1
      <4> QED
        BY <2>1, <4>1 DEF TgChans
    <3> HIDE DEF r
    <3> QED
      BY <2>1, <2>2, <2>4, <3>1, <3>2
  <2> QED
    BY <2>3, <2>4
<1>2. /\ UNCHANGED <<tgFeed, tgRows, tgMentions, tgPoll>>
      /\ \/ tgLate' = [tgLate EXCEPT ![c] = 0]
         \/ RemoveChannel(c) /\ tgLate' = tgLate
  BY DEF AddChannel, RemoveChannel
<1>3. TgTypeOK'
  BY <1>1, <1>2 DEF TgTypeOK
<1>4. PollIsPlaced' /\ LeftIsStored' /\ MentionsAreEvidenced'
  BY <1>2 DEF PollIsPlaced, LeftIsStored, MentionsAreEvidenced
<1>5. LateIsInFlight' /\ RemovalTakesHold'
  <2>1. tgLate \in [TgChannels -> Nat]
    BY DEF TgTypeOK
  <2>2. tgPoll.pc = "insert" => tgPoll.chan \in TgChannels
    BY DEF PollIsPlaced
  <2>3. CASE tgLate' = [tgLate EXCEPT ![c] = 0]
    BY <1>1, <1>2, <2>1, <2>2, <2>3 DEF LateIsInFlight, RemovalTakesHold
  <2>4. CASE RemoveChannel(c) /\ tgLate' = tgLate
    BY <1>1, <1>2, <2>1, <2>2, <2>4 DEF LateIsInFlight, RemovalTakesHold
  <2> QED
    BY <1>2, <2>3, <2>4
<1> QED
  BY <1>3, <1>4, <1>5

LEMMA ChannelKeepsEvidence ==
  ASSUME TgIndInv, NEW c \in TgChannels, NEW text \in TgTexts,
         Post(c, text) \/ \E id \in DOMAIN tgFeed[c] : Edit(c, id, text)
  PROVE  TgIndInv'
<1> USE DEF TgIndInv
<1>1. ASSUME tgFeed' \in [TgChannels -> Seq(TgPosts)],
             \A d \in TgChannels : Len(tgFeed[d]) <= Len(tgFeed'[d]),
             UNCHANGED <<tgChan, tgRows, tgMentions, tgPoll, tgLate>>
      PROVE  TgIndInv'
  <2>1. TgTypeOK'
    BY <1>1 DEF TgTypeOK
  <2>2. PollIsPlaced'
    BY <1>1, <2>1, FeedHasLength DEF PollIsPlaced, TgTypeOK, TgPolls
  <2> QED
    BY <1>1, <2>1, <2>2
       DEF LeftIsStored, LateIsInFlight, MentionsAreEvidenced, RemovalTakesHold
<1>2. [edited |-> FALSE, text |-> text] \in TgPosts /\ [edited |-> TRUE, text |-> text] \in TgPosts
  BY DEF TgPosts, TgValues
<1>3. tgFeed[c] \in Seq(TgPosts) /\ tgFeed \in [TgChannels -> Seq(TgPosts)]
  BY DEF TgTypeOK
<1>4. CASE Post(c, text)
  <2>1. /\ tgFeed' = [tgFeed EXCEPT ![c] = Append(@, [edited |-> FALSE, text |-> text])]
        /\ UNCHANGED <<tgChan, tgRows, tgMentions, tgPoll, tgLate>>
    BY <1>4 DEF Post
  <2>2. /\ Append(tgFeed[c], [edited |-> FALSE, text |-> text]) \in Seq(TgPosts)
        /\ Len(Append(tgFeed[c], [edited |-> FALSE, text |-> text])) = Len(tgFeed[c]) + 1
    BY <1>2, <1>3
  <2>3. tgFeed' \in [TgChannels -> Seq(TgPosts)]
    BY <1>3, <2>1, <2>2
  <2>4. \A d \in TgChannels : Len(tgFeed[d]) <= Len(tgFeed'[d])
    BY <1>3, <2>1, <2>2, FeedHasLength
  <2> QED
    BY <1>1, <2>1, <2>3, <2>4
<1>5. CASE \E id \in DOMAIN tgFeed[c] : Edit(c, id, text)
  <2>1. PICK id \in DOMAIN tgFeed[c] : Edit(c, id, text)
    BY <1>5
  <2> DEFINE edited == [tgFeed[c] EXCEPT ![id] = [edited |-> TRUE, text |-> text]]
  <2>2. edited \in Seq(TgPosts) /\ Len(edited) = Len(tgFeed[c])
    BY <1>2, <1>3
  <2>3. /\ tgFeed' = [tgFeed EXCEPT ![c] = edited]
        /\ UNCHANGED <<tgChan, tgRows, tgMentions, tgPoll, tgLate>>
    BY <2>1 DEF Edit
  <2> HIDE DEF edited
  <2>4. tgFeed' \in [TgChannels -> Seq(TgPosts)]
    BY <1>3, <2>2, <2>3
  <2>5. \A d \in TgChannels : Len(tgFeed[d]) <= Len(tgFeed'[d])
    BY <1>3, <2>2, <2>3, FeedHasLength
  <2> QED
    BY <1>1, <2>3, <2>4, <2>5
<1> QED
  BY <1>4, <1>5

\* What the Telegram loop stores was allowed and supports its mentions
\* (telegram_client.rs, poll_channel; telegram_ingest.rs, ingest_message): for
\* any channels, texts and limits, and any number of edits, removals, failed
\* statements and restarts between the statements of a poll.
THEOREM EvidencedMentions == TgSpec => []StoredIsEvidence
<1>1. TgIndInv /\ [TgNext]_tgVars => TgIndInv'
  <2> SUFFICES ASSUME TgIndInv, [TgNext]_tgVars PROVE TgIndInv'
    OBVIOUS
  <2>1. CASE UNCHANGED tgVars
    BY <2>1 DEF tgVars, TgIndInv, TgTypeOK, PollIsPlaced, LeftIsStored, LateIsInFlight,
                MentionsAreEvidenced, RemovalTakesHold
  <2> QED
    BY <2>1, PassesKeepEvidence, FetchesKeepEvidence, FaultsKeepEvidence,
       IngestKeepsEvidence, OperatorsKeepEvidence, ChannelKeepsEvidence
       DEF TgNext, TgWork
<1>2. TgIndInv => StoredIsEvidence
  BY DEF TgIndInv, StoredIsEvidence
<1> QED
  BY <1>1, <1>2, TgInitial, PTL DEF TgSpec

(***************************************************************************)
(* Ingest.                                                                 *)
(***************************************************************************)

\* Job j goes to pc and stays at its transaction; the other jobs stay.
JobMoves(j, pc) ==
  /\ inJob' \in [Jobs -> InJobs]
  /\ \A k \in Jobs \ {j} : inJob'[k] = inJob[k]
  /\ inJob'[j].pc = pc /\ inJob'[j].body = inJob[j].body /\ inJob'[j].at = inJob[j].at

\* The tables only gain rows.
Grows ==
  inRaw \subseteq inRaw' /\ inWallets \subseteq inWallets' /\ inEdges \subseteq inEdges'

LEMMA PcsOfJobs ==
  InWorking \union {"idle", "fetch"} \union Ended
    = {"raw", "normalize", "wallets", "store", "edges", "next", "idle", "fetch",
       "completed", "stopped", "failed", "panicked"}
BY DEF InWorking, Ended

LEMMA StepMoves ==
  ASSUME inJob \in [Jobs -> InJobs], NEW j \in Jobs,
         NEW pc \in InWorking \union {"idle", "fetch"} \union Ended,
         Step(j, pc) \/ \E new \in BOOLEAN : FoundNew(j, pc, new)
  PROVE  JobMoves(j, pc)
<1>1. inJob[j] \in InJobs
  OBVIOUS
<1>2. CASE Step(j, pc)
  <2> DEFINE r == [inJob[j] EXCEPT !.pc = pc]
  <2>1. inJob' = [inJob EXCEPT ![j] = r]
    BY <1>2 DEF Step
  <2>2. r \in InJobs /\ r.pc = pc /\ r.body = inJob[j].body /\ r.at = inJob[j].at
    BY <1>1 DEF InJobs
  <2> HIDE DEF r
  <2> QED
    BY <2>1, <2>2 DEF JobMoves
<1>3. ASSUME NEW new \in BOOLEAN, FoundNew(j, pc, new) PROVE JobMoves(j, pc)
  <2> DEFINE found == inJob[j].new \/ new
             r == [inJob[j] EXCEPT !.pc = pc, !.new = found]
  <2>1. found \in BOOLEAN
    OBVIOUS
  <2>2. inJob' = [inJob EXCEPT ![j] = r]
    BY <1>3 DEF FoundNew
  <2> HIDE DEF found
  <2>3. r \in InJobs /\ r.pc = pc /\ r.body = inJob[j].body /\ r.at = inJob[j].at
    BY <1>1, <2>1 DEF InJobs
  <2> HIDE DEF r
  <2> QED
    BY <2>2, <2>3 DEF JobMoves
<1> QED
  BY <1>2, <1>3

LEMMA CurrentIsASignature ==
  ASSUME inJob \in [Jobs -> InJobs], NEW j \in Jobs, JobIsPlaced(j), inJob[j].pc \in InWorking
  PROVE  /\ Current(j) \in Sigs /\ inJob[j].at \in 1 .. Len(inJob[j].body)
         /\ inJob[j].body \in Seq(Sigs) /\ Len(inJob[j].body) \in Nat
<1>1. inJob[j].body \in Seq(Sigs)
  BY DEF InJobs
<1>2. inJob[j].at \in 1 .. Len(inJob[j].body)
  BY DEF JobIsPlaced
<1> QED
  BY <1>1, <1>2 DEF Current

\* A job that does not move stays sound while the tables grow.
LEMMA OthersStaySound ==
  ASSUME NEW k \in Jobs, JobIsSound(k), Grows, inJob'[k] = inJob[k]
  PROVE  JobIsSound(k)'
<1>1. JobIsPlaced(k)'
  BY DEF JobIsSound, JobIsPlaced
<1>2. JobIsRawFirst(k)' /\ JobKnowsWallets(k)'
  BY DEF JobIsSound, JobIsRawFirst, JobKnowsWallets, Grows, Current, Source
<1>3. HookLeavesNothing(k)'
  <2>1. ASSUME NEW s, Arrived(s) PROVE Arrived(s)'
    BY <2>1 DEF Arrived, Grows
  <2> QED
    BY <2>1 DEF JobIsSound, HookLeavesNothing
<1> QED
  BY <1>1, <1>2, <1>3 DEF JobIsSound

\* So a step of one handler is about that handler, and about RawFirst.
LEMMA OneJobMoves ==
  ASSUME InIndInv, NEW j \in Jobs, inJob' \in [Jobs -> InJobs],
         \A k \in Jobs \ {j} : inJob'[k] = inJob[k],
         Grows, inAcked' = inAcked, RawFirst', JobIsSound(j)'
  PROVE  InIndInv'
<1>1. \A k \in Jobs : JobIsSound(k)'
  BY OthersStaySound DEF InIndInv
<1>2. AcknowledgedReachesGraph'
  BY DEF InIndInv, AcknowledgedReachesGraph, Arrived, Grows
<1> QED
  BY <1>1, <1>2 DEF InIndInv

LEMMA IdleIsAJob == NoJob \in InJobs /\ \A pc \in Ended : [NoJob EXCEPT !.pc = pc] \in InJobs
<1>1. <<>> \in Seq(Sigs) /\ NoSig \in Sigs \union {NoSig}
  OBVIOUS
<1> QED
  BY <1>1, PcsOfJobs DEF NoJob, InJobs, Ended

\* A handler that ended owes nothing.
LEMMA EndedIsSound ==
  ASSUME NEW j \in Jobs, inJob'[j].pc \in {"idle", "fetch"} \union Ended
  PROVE  JobIsSound(j)'
BY PcsOfJobs DEF JobIsSound, JobIsPlaced, JobIsRawFirst, JobKnowsWallets, HookLeavesNothing,
                 InWorking, Ended

LEMMA InInitial == ASSUME InInit PROVE InIndInv
<1>1. inJob \in [Jobs -> InJobs]
  BY IdleIsAJob DEF InInit
<1>2. \A j \in Jobs : JobIsSound(j)
  BY DEF InInit, NoJob, JobIsSound, JobIsPlaced, JobIsRawFirst, JobKnowsWallets,
         HookLeavesNothing, InWorking
<1>3. RawFirst /\ AcknowledgedReachesGraph
  BY DEF InInit, RawFirst, AcknowledgedReachesGraph
<1> QED
  BY <1>1, <1>2, <1>3 DEF InIndInv

\* What a statement of ingest_transaction owes where it goes.
LEMMA MovedIsSound ==
  ASSUME InIndInv, NEW j \in Jobs, NEW pc \in InWorking, inJob[j].pc \in InWorking,
         JobMoves(j, pc), Grows,
         pc # "raw" => <<Source(j), Current(j)>> \in inRaw',
         pc \in {"store", "edges"} => Current(j) \in inWallets',
         pc = "next" /\ j \in InHooks => \A s : s = Current(j) => Arrived(s)'
  PROVE  JobIsSound(j)'
<1>1. JobIsPlaced(j) /\ HookLeavesNothing(j) /\ inJob \in [Jobs -> InJobs]
  BY DEF InIndInv, JobIsSound
<1>2. /\ inJob'[j].pc = pc /\ inJob'[j].body = inJob[j].body /\ inJob'[j].at = inJob[j].at
      /\ Current(j)' = Current(j)
  BY DEF JobMoves, Current
<1>3. JobIsPlaced(j)'
  BY <1>1, <1>2 DEF JobIsPlaced
<1>4. JobIsRawFirst(j)' /\ JobKnowsWallets(j)'
  BY <1>2 DEF JobIsRawFirst, JobKnowsWallets, Source
<1>5. HookLeavesNothing(j)'
  <2>1. ASSUME NEW s, Arrived(s) PROVE Arrived(s)'
    BY <2>1 DEF Arrived, Grows
  <2>2. SUFFICES ASSUME j \in InHooks, NEW i \in 1 .. Len(inJob[j].body),
                        i < inJob[j].at \/ (i = inJob[j].at /\ pc = "next")
                 PROVE  Arrived(inJob[j].body[i])'
    BY <1>2 DEF HookLeavesNothing
  <2>3. CASE i < inJob[j].at
    <3>1. Arrived(inJob[j].body[i])
      BY <1>1, <2>2, <2>3 DEF HookLeavesNothing
    <3>2. \A s : s = inJob[j].body[i] => Arrived(s)'
      BY <2>1, <3>1
    <3> QED
      BY <1>2, <3>2 DEF Arrived
  <2>4. CASE i = inJob[j].at /\ pc = "next"
    <3>1. \A s : s = inJob[j].body[i] => Arrived(s)'
      BY <2>2, <2>4 DEF Current
    <3> QED
      BY <1>2, <3>1 DEF Arrived
  <2> QED
    BY <2>2, <2>3, <2>4
<1> QED
  BY <1>3, <1>4, <1>5 DEF JobIsSound

\* ingest_transaction: each statement leaves the raw payload stored, and on the
\* way to the next transaction the wallets and the edge.
LEMMA StatementsAreDurable ==
  ASSUME InIndInv, NEW j \in Jobs,
         StoreRaw(j) \/ Normalize(j) \/ UpsertWallets(j) \/ StoreEvent(j) \/ UpdateEdges(j)
  PROVE  InIndInv'
<1> DEFINE s == Current(j)
<1>1. /\ inJob \in [Jobs -> InJobs] /\ JobIsPlaced(j) /\ JobIsRawFirst(j) /\ JobKnowsWallets(j)
      /\ inJob[j].pc \in InWorking
  BY DEF InIndInv, JobIsSound, StoreRaw, Normalize, UpsertWallets, StoreEvent, UpdateEdges, InWorking
<1>2. j \in InHooks => Source(j) = "helius_webhook"
  BY InAssumption DEF Source
<1>3. ASSUME NEW pc \in InWorking, JobMoves(j, pc), Grows, inAcked' = inAcked, RawFirst',
             pc # "raw" => <<Source(j), s>> \in inRaw',
             pc \in {"store", "edges"} => s \in inWallets',
             pc = "next" /\ j \in InHooks => \A t : t = s => Arrived(t)'
      PROVE  InIndInv'
  <2>1. JobIsSound(j)'
    BY <1>1, <1>3, MovedIsSound
  <2> QED
    BY <1>3, <2>1, OneJobMoves DEF JobMoves
<1>4. CASE StoreRaw(j)
  <2>1. JobMoves(j, "normalize")
    BY <1>1, <1>4, StepMoves, PcsOfJobs DEF StoreRaw
  <2>2. Grows /\ inAcked' = inAcked /\ <<Source(j), s>> \in inRaw'
    BY <1>4 DEF StoreRaw, Grows
  <2>3. RawFirst'
    BY <1>4 DEF StoreRaw, RawFirst, InIndInv
  <2> QED
    BY <1>3, <2>1, <2>2, <2>3 DEF InWorking
<1>5. CASE Normalize(j)
  <2> DEFINE pc == IF InKind[s] = "malformed" THEN "next" ELSE "wallets"
  <2>1. JobMoves(j, pc)
    BY <1>1, <1>5, StepMoves, PcsOfJobs DEF Normalize
  <2>2. Grows /\ inAcked' = inAcked /\ <<Source(j), s>> \in inRaw' /\ RawFirst'
    BY <1>1, <1>5 DEF Normalize, Grows, JobIsRawFirst, InWorking, InIndInv, RawFirst
  <2>3. pc = "next" /\ j \in InHooks => \A t : t = s => Arrived(t)'
    BY <1>2, <2>2 DEF Arrived
  <2> QED
    BY <1>3, <2>1, <2>2, <2>3 DEF InWorking
<1>6. CASE UpsertWallets(j)
  <2>1. JobMoves(j, "store")
    BY <1>1, <1>6, StepMoves, PcsOfJobs DEF UpsertWallets
  <2>2. Grows /\ inAcked' = inAcked /\ <<Source(j), s>> \in inRaw' /\ s \in inWallets'
    BY <1>1, <1>6 DEF UpsertWallets, Grows, JobIsRawFirst, InWorking
  <2>3. RawFirst'
    BY <1>6, <2>2 DEF UpsertWallets, RawFirst, InIndInv
  <2> QED
    BY <1>3, <2>1, <2>2, <2>3 DEF InWorking
<1>7. CASE StoreEvent(j)
  <2> DEFINE pc == IF InKind[s] = "transfer" THEN "edges" ELSE "next"
  <2>1. JobMoves(j, pc)
    BY <1>1, <1>7, StepMoves, PcsOfJobs DEF StoreEvent
  <2>2. Grows /\ inAcked' = inAcked /\ <<Source(j), s>> \in inRaw' /\ s \in inWallets'
    BY <1>1, <1>7 DEF StoreEvent, Grows, JobIsRawFirst, JobKnowsWallets, InWorking
  <2>3. RawFirst'
    BY <1>7, <2>2 DEF StoreEvent, RawFirst, InIndInv
  <2>4. pc = "next" /\ j \in InHooks => \A t : t = s => Arrived(t)'
    BY <1>2, <2>2 DEF Arrived
  <2> QED
    BY <1>3, <2>1, <2>2, <2>3, <2>4 DEF InWorking
<1>8. CASE UpdateEdges(j)
  <2>1. JobMoves(j, "next")
    BY <1>1, <1>8, StepMoves, PcsOfJobs DEF UpdateEdges
  <2>2. /\ Grows /\ inAcked' = inAcked /\ <<Source(j), s>> \in inRaw'
        /\ s \in inWallets' /\ s \in inEdges'
    BY <1>1, <1>8 DEF UpdateEdges, Grows, JobIsRawFirst, JobKnowsWallets, InWorking
  <2>3. RawFirst'
    BY <1>8, <2>2 DEF UpdateEdges, RawFirst, InIndInv
  <2>4. j \in InHooks => \A t : t = s => Arrived(t)'
    BY <1>2, <2>2 DEF Arrived
  <2> QED
    BY <1>3, <2>1, <2>2, <2>3, <2>4 DEF InWorking
<1> QED
  BY <1>4, <1>5, <1>6, <1>7, <1>8

\* The next transaction of a body: the one before it has arrived.
LEMMA NextIsDurable ==
  ASSUME InIndInv, NEW j \in Jobs, NextTransaction(j)
  PROVE  InIndInv'
<1> DEFINE n == inJob[j].at + 1
           r == [inJob[j] EXCEPT !.pc = "raw", !.at = n]
<1>1. /\ inJob \in [Jobs -> InJobs] /\ inJob[j] \in InJobs
      /\ inJob[j].at \in 1 .. Len(inJob[j].body) /\ Len(inJob[j].body) \in Nat
      /\ HookLeavesNothing(j) /\ inJob[j].pc = "next"
  BY CurrentIsASignature DEF InIndInv, JobIsSound, NextTransaction, InWorking
<1>2. n \in 1 .. Len(inJob[j].body) /\ n \in Nat
  BY <1>1 DEF NextTransaction
<1>3. inJob' = [inJob EXCEPT ![j] = r]
  BY <1>1 DEF NextTransaction
<1>4. r \in InJobs /\ r.pc = "raw" /\ r.body = inJob[j].body /\ r.at = n
  <2> HIDE DEF n
  <2> QED
    BY <1>1, <1>2, PcsOfJobs DEF InJobs
<1>5. /\ inJob' \in [Jobs -> InJobs] /\ inJob'[j] = r
      /\ \A k \in Jobs \ {j} : inJob'[k] = inJob[k]
  <2> HIDE DEF r
  <2> QED
    BY <1>1, <1>3, <1>4
<1>6. Grows /\ inAcked' = inAcked /\ RawFirst'
  BY DEF NextTransaction, Grows, InIndInv, RawFirst
<1>7. JobIsSound(j)'
  <2>1. JobIsPlaced(j)' /\ JobIsRawFirst(j)' /\ JobKnowsWallets(j)'
    BY <1>2, <1>4, <1>5 DEF JobIsPlaced, JobIsRawFirst, JobKnowsWallets
  <2>2. ASSUME j \in InHooks, NEW i \in 1 .. Len(inJob[j].body), i < n
        PROVE  Arrived(inJob[j].body[i])
    BY <1>1, <2>2 DEF HookLeavesNothing, InWorking
  <2>3. HookLeavesNothing(j)'
    <3>1. ASSUME NEW t, Arrived(t) PROVE Arrived(t)'
      BY <3>1 DEF Arrived, NextTransaction
    <3> HIDE DEF n, r
    <3> QED
      BY <1>4, <1>5, <2>2, <3>1 DEF HookLeavesNothing
  <2> QED
    BY <2>1, <2>3 DEF JobIsSound
<1> QED
  BY <1>5, <1>6, <1>7, OneJobMoves

\* A handler that is over, for whatever reason, or has not begun: nothing is owed.
LEMMA EndsAreDurable ==
  ASSUME InIndInv, NEW j \in Jobs, NEW r \in InJobs, r.pc \in {"idle", "fetch"} \union Ended,
         inJob' = [inJob EXCEPT ![j] = r],
         UNCHANGED <<inRaw, inWallets, inEvents, inEdges, inAcked>>
  PROVE  InIndInv'
<1>1. /\ inJob' \in [Jobs -> InJobs] /\ inJob'[j].pc \in {"idle", "fetch"} \union Ended
      /\ \A k \in Jobs \ {j} : inJob'[k] = inJob[k]
  BY DEF InIndInv
<1>2. Grows /\ RawFirst'
  BY DEF Grows, InIndInv, RawFirst
<1> QED
  BY <1>1, <1>2, EndedIsSound, OneJobMoves

LEMMA FailuresAreDurable ==
  ASSUME InIndInv, NEW j \in Jobs, NEW pcs, FailsAt(j, pcs)
  PROVE  InIndInv'
<1> DEFINE r == IF j = SyncJob THEN [NoJob EXCEPT !.pc = "failed"] ELSE NoJob
<1>1. inJob' = [inJob EXCEPT ![j] = r] /\ UNCHANGED <<inRaw, inWallets, inEvents, inEdges, inAcked>>
  BY DEF FailsAt, Fails
<1>2. r \in InJobs /\ r.pc \in {"idle", "fetch"} \union Ended
  BY IdleIsAJob DEF NoJob, Ended
<1> HIDE DEF r
<1> QED
  BY <1>1, <1>2, EndsAreDurable

LEMMA ABodyBegins ==
  ASSUME InIndInv, NEW j \in Jobs, NEW r \in InJobs, r.pc = "raw", r.at = 1,
         r.body # <<>>, inJob' = [inJob EXCEPT ![j] = r],
         UNCHANGED <<inRaw, inWallets, inEvents, inEdges, inAcked>>
  PROVE  InIndInv'
<1>1. /\ inJob' \in [Jobs -> InJobs] /\ inJob'[j] = r
      /\ \A k \in Jobs \ {j} : inJob'[k] = inJob[k]
  BY DEF InIndInv
<1>2. Grows /\ RawFirst'
  BY DEF Grows, InIndInv, RawFirst
<1>3. 1 \in 1 .. Len(r.body) /\ \A i \in 1 .. Len(r.body) : ~(i < 1)
  <2>1. r.body \in Seq(Sigs)
    BY DEF InJobs
  <2> QED
    BY <2>1
<1>4. JobIsSound(j)'
  BY <1>1, <1>3 DEF JobIsSound, JobIsPlaced, JobIsRawFirst, JobKnowsWallets, HookLeavesNothing
<1> QED
  BY <1>1, <1>2, <1>4, OneJobMoves

\* Webhooks: a delivery begins, and is acknowledged when its last transaction is
\* through.
LEMMA HooksAreDurable ==
  ASSUME InIndInv, NEW h \in InHooks, Acknowledge(h) \/ \E body \in InPayloads : Deliver(h, body)
  PROVE  InIndInv'
<1>1. h \in Jobs /\ inJob \in [Jobs -> InJobs]
  BY DEF Jobs, InIndInv
<1>2. ASSUME NEW body \in InPayloads, Deliver(h, body) PROVE InIndInv'
  <2> DEFINE r == Begin(body)
  <2>1. body \in Seq(Sigs) /\ body # <<>>
    BY InAssumption
  <2>2. r \in InJobs /\ r.pc = "raw" /\ r.at = 1 /\ r.body = body
    BY <2>1, IdleIsAJob, PcsOfJobs DEF Begin, NoJob, InJobs
  <2>3. /\ inJob' = [inJob EXCEPT ![h] = r]
        /\ UNCHANGED <<inRaw, inWallets, inEvents, inEdges, inAcked>>
    BY <1>2 DEF Deliver
  <2> HIDE DEF r
  <2> QED
    BY <1>1, <2>1, <2>2, <2>3, ABodyBegins
<1>3. CASE Acknowledge(h)
  <2>1. /\ inJob' = [inJob EXCEPT ![h] = NoJob] /\ inAcked' = inAcked \union Range(inJob[h].body)
        /\ UNCHANGED <<inRaw, inWallets, inEvents, inEdges>>
    BY <1>3 DEF Acknowledge
  <2>2. /\ inJob' \in [Jobs -> InJobs] /\ inJob'[h].pc = "idle"
        /\ \A k \in Jobs \ {h} : inJob'[k] = inJob[k]
    BY <1>1, <2>1, IdleIsAJob DEF NoJob
  <2>3. \A k \in Jobs : JobIsSound(k)'
    <3>1. Grows
      BY <2>1 DEF Grows
    <3> QED
      BY <2>2, <3>1, EndedIsSound, OthersStaySound DEF InIndInv
  <2>4. \A s \in Range(inJob[h].body) : Arrived(s)
    <3>1. /\ inJob[h].pc = "next" /\ inJob[h].at = Len(inJob[h].body)
          /\ HookLeavesNothing(h) /\ JobIsPlaced(h)
      BY <1>1, <1>3 DEF Acknowledge, LastTransaction, InIndInv, JobIsSound
    <3>2. inJob[h].body \in Seq(Sigs) /\ Len(inJob[h].body) \in Nat
      BY <1>1, <3>1, CurrentIsASignature DEF InWorking
    <3>3. \A i \in 1 .. Len(inJob[h].body) : Arrived(inJob[h].body[i])
      BY <3>1, <3>2 DEF HookLeavesNothing, InWorking
    <3> QED
      BY <3>2, <3>3 DEF Range
  <2>5. RawFirst' /\ AcknowledgedReachesGraph'
    <3>1. ASSUME NEW s, Arrived(s) PROVE Arrived(s)'
      BY <2>1, <3>1 DEF Arrived
    <3> QED
      BY <2>1, <2>4, <3>1 DEF InIndInv, RawFirst, AcknowledgedReachesGraph
  <2> QED
    BY <2>2, <2>3, <2>5 DEF InIndInv
<1> QED
  BY <1>2, <1>3

\* sync_wallet: its pages are bodies like the webhooks'.
LEMMA SyncIsDurable ==
  ASSUME InIndInv, SyncStart \/ SyncFetch \/ SyncEndPage
  PROVE  InIndInv'
<1> DEFINE j == inJob[SyncJob]
<1>1. /\ SyncJob \in Jobs /\ inJob \in [Jobs -> InJobs] /\ j \in InJobs
      /\ UNCHANGED <<inRaw, inWallets, inEvents, inEdges, inAcked>>
  BY DEF Jobs, InIndInv, SyncStart, SyncFetch, SyncEndPage
<1>2. ASSUME NEW pc \in Ended, SyncEnds(pc) PROVE InIndInv'
  <2>1. [NoJob EXCEPT !.pc = pc] \in InJobs /\ [NoJob EXCEPT !.pc = pc].pc = pc
    BY IdleIsAJob DEF NoJob
  <2> DEFINE r == [NoJob EXCEPT !.pc = pc]
  <2>2. inJob' = [inJob EXCEPT ![SyncJob] = r]
    BY <1>2 DEF SyncEnds
  <2> HIDE DEF r
  <2> QED
    BY <1>1, <2>1, <2>2, EndsAreDurable DEF r
<1>3. CASE SyncStart
  <2>1. CASE Step(SyncJob, "fetch")
    <3> DEFINE r == [j EXCEPT !.pc = "fetch"]
    <3>1. inJob' = [inJob EXCEPT ![SyncJob] = r]
      BY <2>1 DEF Step
    <3>2. r \in InJobs /\ r.pc = "fetch"
      BY <1>1, PcsOfJobs DEF InJobs
    <3> HIDE DEF r
    <3> QED
      BY <1>1, <3>1, <3>2, EndsAreDurable
  <2> QED
    BY <1>2, <1>3, <2>1 DEF SyncStart, Ended
<1>4. CASE SyncFetch
  <2> DEFINE size == IF InPageSize < Len(InHistory) THEN InPageSize ELSE Len(InHistory)
             page == SubSeq(InHistory, 1, size)
             r == [j EXCEPT !.pc = "raw", !.body = page, !.at = 1, !.new = FALSE]
  <2>1. CASE inJob' = [inJob EXCEPT ![SyncJob].pc = "raw", ![SyncJob].body = page,
                                    ![SyncJob].at = 1, ![SyncJob].new = FALSE] /\ page # <<>>
    <3>1. inJob' = [inJob EXCEPT ![SyncJob] = r] /\ page # <<>>
      <4> HIDE DEF page
      <4> QED
        BY <1>1, <2>1
    <3>2. page \in Seq(Sigs)
      <4>1. InHistory \in Seq(Sigs) /\ size \in Nat /\ size <= Len(InHistory)
        BY InAssumption
      <4>2. \A i \in 1 .. size : InHistory[i] \in Sigs
        BY <4>1
      <4> HIDE DEF size
      <4> QED
        BY <4>1, <4>2
    <3>3. r \in InJobs /\ r.pc = "raw" /\ r.at = 1 /\ r.body = page
      <4> HIDE DEF page
      <4> QED
        BY <1>1, <3>2, PcsOfJobs DEF InJobs
    <3> HIDE DEF r, page
    <3> QED
      BY <1>1, <3>1, <3>3, ABodyBegins
  <2> QED
    BY <1>2, <1>4, <2>1 DEF SyncFetch, Ended
<1>5. CASE SyncEndPage
  <2> DEFINE first == Head(j.body)
             pages == j.pages + 1
             r == [j EXCEPT !.pc = "fetch", !.pages = pages, !.before = first]
  <2>1. CASE inJob' = [inJob EXCEPT ![SyncJob].pc = "fetch", ![SyncJob].pages = @ + 1,
                                    ![SyncJob].before = first]
    <3>1. inJob' = [inJob EXCEPT ![SyncJob] = r]
      <4> HIDE DEF first
      <4> QED
        BY <1>1, <2>1
    <3>2. first \in Sigs /\ pages \in Nat
      <4>1. j.body \in Seq(Sigs) /\ j.at \in 1 .. Len(j.body) /\ Len(j.body) \in Nat
        BY <1>1, <1>5, CurrentIsASignature
           DEF SyncEndPage, LastTransaction, InIndInv, JobIsSound, InWorking
      <4>2. j.pages \in Nat
        BY <1>1 DEF InJobs
      <4> QED
        BY <4>1, <4>2
    <3>3. r \in InJobs /\ r.pc = "fetch"
      <4> HIDE DEF first, pages
      <4> QED
        BY <1>1, <3>2, PcsOfJobs DEF InJobs
    <3> HIDE DEF r
    <3> QED
      BY <1>1, <3>1, <3>3, EndsAreDurable
  <2> QED
    BY <1>2, <1>5, <2>1 DEF SyncEndPage, Ended
<1> QED
  BY <1>3, <1>4, <1>5

\* Raw-first ingestion is durable (ingest.rs): for any number of overlapping
\* deliveries, any bodies, any history and page size, with every statement free to
\* fail, what is derived has its raw payload, and what the provider was told to
\* stop repeating is in the funding graph.
THEOREM DurableIngest == InSpec => []IngestIsDurable
<1>1. ASSUME InIndInv, [InNext]_inVars PROVE InIndInv'
  <2>1. CASE UNCHANGED inVars
    BY <1>1, <2>1 DEF inVars, InIndInv, JobIsSound, JobIsPlaced, JobIsRawFirst, JobKnowsWallets,
                HookLeavesNothing, RawFirst, AcknowledgedReachesGraph, Arrived, Current
  <2>2. ASSUME NEW j \in Jobs, IngestStep(j) PROVE InIndInv'
    BY <1>1, <2>2, StatementsAreDurable, NextIsDurable, FailuresAreDurable DEF IngestStep
  <2>3. ASSUME FailsAt(SyncJob, {"fetch"}) PROVE InIndInv'
    BY <1>1, <2>3, FailuresAreDurable DEF Jobs
  <2> QED
    BY <1>1, <2>1, <2>2, <2>3, HooksAreDurable, SyncIsDurable DEF InNext
<1>2. InIndInv => IngestIsDurable
  BY DEF InIndInv, IngestIsDurable
<1> QED
  BY <1>1, <1>2, InInitial, PTL DEF InSpec
=============================================================================
