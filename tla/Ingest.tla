------------------------------- MODULE Ingest -------------------------------
(***************************************************************************)
(* Raw-first ingestion (ingest.rs): webhook deliveries, which the provider *)
(* repeats until it is answered 200, and the history sync of one wallet.   *)
(* Each statement is its own commit and may fail; deliveries and the sync  *)
(* interleave between statements.                                          *)
(***************************************************************************)
EXTENDS Naturals, Sequences, SequencesExt

CONSTANTS InHooks,      \* concurrent webhook requests
          InKind,       \* signature -> "transfer", "trade" or "malformed"
          InPayloads,   \* webhook bodies: sequences of signatures (an empty one does nothing)
          InHistory,    \* the wallet's history at the provider, newest first
          InPageSize, InMaxPages

Sigs == DOMAIN InKind
SyncJob == "sync"
ASSUME InAssumption == /\ SyncJob \notin InHooks
                       /\ InPayloads \subseteq Seq(Sigs) \ {<<>>} /\ InHistory \in Seq(Sigs)
                       /\ InPageSize \in Nat \ {0} /\ InMaxPages \in Nat

VARIABLES inRaw,      \* raw_events: <<source, signature>>
          inWallets,  \* signatures whose wallets are known
          inEvents,   \* transfers and trades
          inEdges,    \* funding_edges
          inJob,      \* per hook and for the sync, the handler in flight
          inAcked     \* history: signatures of deliveries answered 200

inVars == <<inRaw, inWallets, inEvents, inEdges, inJob, inAcked>>
Jobs == InHooks \union {SyncJob}
NoSig == "none"
NoJob == [pc |-> "idle", body |-> <<>>, at |-> 0, new |-> FALSE, before |-> NoSig, pages |-> 0]
Source(j) == IF j = SyncJob THEN "helius_history" ELSE "helius_webhook"
Current(j) == inJob[j].body[inJob[j].at]

-----------------------------------------------------------------------------
(* ingest_transaction, one statement a step.                               *)

Step(j, pc) == inJob' = [inJob EXCEPT ![j].pc = pc]
FoundNew(j, pc, new) == inJob' = [inJob EXCEPT ![j].pc = pc, ![j].new = @ \/ new]

\* `?`: a webhook answers 500 and will be repeated, a sync returns the error.
Fails(j) ==
  /\ inJob' = [inJob EXCEPT ![j] = IF j = SyncJob THEN [NoJob EXCEPT !.pc = "failed"] ELSE NoJob]
  /\ UNCHANGED <<inRaw, inWallets, inEvents, inEdges, inAcked>>

FailsAt(j, pcs) == inJob[j].pc \in pcs /\ Fails(j)

\* store_raw_event; ON CONFLICT tells whether the row is new.
StoreRaw(j) ==
  /\ inJob[j].pc = "raw"
  /\ inRaw' = inRaw \union {<<Source(j), Current(j)>>}
  /\ FoundNew(j, "normalize", inRaw' # inRaw)
  /\ UNCHANGED <<inWallets, inEvents, inEdges, inAcked>>

\* The adapter: a malformed payload is counted and kept raw, never fatal.
Normalize(j) ==
  /\ inJob[j].pc = "normalize"
  /\ Step(j, IF InKind[Current(j)] = "malformed" THEN "next" ELSE "wallets")
  /\ UNCHANGED <<inRaw, inWallets, inEvents, inEdges, inAcked>>

UpsertWallets(j) ==
  /\ inJob[j].pc = "wallets"
  /\ inWallets' = inWallets \union {Current(j)}
  /\ Step(j, "store")
  /\ UNCHANGED <<inRaw, inEvents, inEdges, inAcked>>

\* store_transfer / store_trade: `.is_ok()`, so a conflict counts as new and a
\* failure is neither counted nor returned.
StoreEvent(j) ==
  /\ inJob[j].pc = "store"
  /\ LET next == IF InKind[Current(j)] = "transfer" THEN "edges" ELSE "next" IN
       \/ inEvents' = inEvents \union {Current(j)} /\ FoundNew(j, next, TRUE)
       \/ UNCHANGED inEvents /\ Step(j, next)
  /\ UNCHANGED <<inRaw, inWallets, inEdges, inAcked>>

\* Mutant: this failure is swallowed as well.
UpdateEdgesIfOk(j) ==
  /\ inJob[j].pc = "edges"
  /\ inEdges' \in {inEdges, inEdges \union {Current(j)}}
  /\ Step(j, "next")
  /\ UNCHANGED <<inRaw, inWallets, inEvents, inAcked>>

UpdateEdges(j) ==
  /\ inJob[j].pc = "edges"
  /\ inEdges' = inEdges \union {Current(j)}
  /\ Step(j, "next")
  /\ UNCHANGED <<inRaw, inWallets, inEvents, inAcked>>

NextTransaction(j) ==
  /\ inJob[j].pc = "next" /\ inJob[j].at < Len(inJob[j].body)
  /\ inJob' = [inJob EXCEPT ![j].pc = "raw", ![j].at = @ + 1]
  /\ UNCHANGED <<inRaw, inWallets, inEvents, inEdges, inAcked>>

LastTransaction(j) == inJob[j].pc = "next" /\ inJob[j].at = Len(inJob[j].body)

-----------------------------------------------------------------------------
(* ingest_webhook and its handler.                                         *)

Begin(body) == [NoJob EXCEPT !.pc = "raw", !.body = body, !.at = 1]

Deliver(h, body) ==
  /\ inJob[h].pc = "idle"
  /\ inJob' = [inJob EXCEPT ![h] = Begin(body)]
  /\ UNCHANGED <<inRaw, inWallets, inEvents, inEdges, inAcked>>

Acknowledge(h) ==
  /\ LastTransaction(h)
  /\ inAcked' = inAcked \union Range(inJob[h].body)
  /\ inJob' = [inJob EXCEPT ![h] = NoJob]
  /\ UNCHANGED <<inRaw, inWallets, inEvents, inEdges>>

-----------------------------------------------------------------------------
(* sync_wallet.                                                            *)

Ended == {"completed", "stopped", "failed", "panicked"}
SyncEnds(pc) == inJob' = [inJob EXCEPT ![SyncJob] = [NoJob EXCEPT !.pc = pc]]

\* A policy that forbids the deep sync ends it at once.
SyncStart ==
  /\ inJob[SyncJob].pc = "idle"
  /\ \/ SyncEnds("completed")
     \/ IF InMaxPages = 0 THEN SyncEnds("stopped") ELSE Step(SyncJob, "fetch")
  /\ UNCHANGED <<inRaw, inWallets, inEvents, inEdges, inAcked>>

\* get_transactions_for_address: a cursor is assigned into params[0], which is
\* a JSON string, so the call with a cursor panics before it is sent.
SyncFetch ==
  /\ inJob[SyncJob].pc = "fetch"
  /\ LET size == IF InPageSize < Len(InHistory) THEN InPageSize ELSE Len(InHistory)
         page == SubSeq(InHistory, 1, size) IN
       IF inJob[SyncJob].before # NoSig THEN SyncEnds("panicked")
       ELSE IF page = <<>> THEN SyncEnds("completed")
       ELSE inJob' = [inJob EXCEPT ![SyncJob].pc = "raw", ![SyncJob].body = page,
                                   ![SyncJob].at = 1, ![SyncJob].new = FALSE]
  /\ UNCHANGED <<inRaw, inWallets, inEvents, inEdges, inAcked>>

\* The cursor is the first signature of the page, that is the newest.
SyncEndPage ==
  /\ LastTransaction(SyncJob)
  /\ LET j == inJob[SyncJob] IN
       IF ~j.new THEN SyncEnds("completed")
       ELSE IF j.pages + 1 = InMaxPages THEN SyncEnds("stopped")
       ELSE inJob' = [inJob EXCEPT ![SyncJob].pc = "fetch", ![SyncJob].pages = @ + 1,
                                   ![SyncJob].before = Head(j.body)]
  /\ UNCHANGED <<inRaw, inWallets, inEvents, inEdges, inAcked>>

-----------------------------------------------------------------------------

InInit ==
  /\ inRaw = {} /\ inWallets = {} /\ inEvents = {} /\ inEdges = {} /\ inAcked = {}
  /\ inJob = [j \in Jobs |-> NoJob]

IngestStep(j) ==
  \/ StoreRaw(j) \/ Normalize(j) \/ UpsertWallets(j) \/ StoreEvent(j) \/ UpdateEdges(j)
  \/ NextTransaction(j)
  \/ FailsAt(j, {"raw", "wallets", "edges"})

InNext ==
  \/ \E j \in Jobs : IngestStep(j)
  \/ \E h \in InHooks : Acknowledge(h) \/ \E body \in InPayloads : Deliver(h, body)
  \/ SyncStart \/ SyncFetch \/ SyncEndPage \/ FailsAt(SyncJob, {"fetch"})

InSpec == InInit /\ [][InNext]_inVars

-----------------------------------------------------------------------------
(* Properties.                                                             *)

\* Raw first: nothing derived from a payload is in the store without the
\* payload itself, whoever stored it and whatever failed in between.
RawFirst ==
  inWallets \union inEvents \union inEdges
    \subseteq {r[2] : r \in inRaw}

\* The provider is told 200 only when every transfer of the body has reached
\* the funding graph and every payload its raw row, so nothing it will not
\* repeat is missing there.  (The event row itself may be: StoreEvent.)
Arrived(s) ==
  /\ <<"helius_webhook", s>> \in inRaw
  /\ InKind[s] = "transfer" => s \in inEdges
  /\ InKind[s] # "malformed" => s \in inWallets
AcknowledgedReachesGraph == \A s \in inAcked : Arrived(s)

\* Ingestion is durable at every statement: raw before derived, and everything
\* in the graph before the provider is told to stop repeating it.
IngestIsDurable == RawFirst /\ AcknowledgedReachesGraph

\* `Fetch and ingest wallet history page by page`: a sync ends with a result or
\* a provider or store error, never by a panic.
SyncPagesOn == inJob[SyncJob].pc # "panicked"

\* `Raw-first persistence and idempotency`: a delivery answered 200 has its
\* transfers and trades in the store.
AcknowledgedIsStored == \A s \in inAcked : InKind[s] # "malformed" => s \in inEvents

-----------------------------------------------------------------------------
(* The inductive invariant behind IngestIsDurable.                         *)

InWorking == {"raw", "normalize", "wallets", "store", "edges", "next"}
InJobs == [pc : InWorking \union {"idle", "fetch"} \union Ended, body : Seq(Sigs), at : Nat,
           new : BOOLEAN, before : Sigs \union {NoSig}, pages : Nat]

\* A handler at work is at one of the transactions of its body.
JobIsPlaced(j) == inJob[j].pc \in InWorking => inJob[j].at \in 1 .. Len(inJob[j].body)

\* What a handler derives from is stored raw, under the handler's own source.
JobIsRawFirst(j) ==
  inJob[j].pc \in InWorking \ {"raw"} => <<Source(j), Current(j)>> \in inRaw

\* Past the wallets, the wallets are there.
JobKnowsWallets(j) == inJob[j].pc \in {"store", "edges"} => Current(j) \in inWallets

\* A webhook has left nothing behind of the transactions it is through with.
HookLeavesNothing(j) ==
  j \in InHooks /\ inJob[j].pc \in InWorking =>
    \A i \in 1 .. Len(inJob[j].body) :
      i < inJob[j].at \/ (i = inJob[j].at /\ inJob[j].pc = "next") => Arrived(inJob[j].body[i])

JobIsSound(j) == JobIsPlaced(j) /\ JobIsRawFirst(j) /\ JobKnowsWallets(j) /\ HookLeavesNothing(j)

InIndInv ==
  /\ inJob \in [Jobs -> InJobs]
  /\ \A j \in Jobs : JobIsSound(j)
  /\ RawFirst /\ AcknowledgedReachesGraph
=============================================================================
