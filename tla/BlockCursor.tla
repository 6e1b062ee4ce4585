---------------------------- MODULE BlockCursor -----------------------------
(***************************************************************************)
(* robinhood_funding_loop of src/workers.rs and the sync cursor of         *)
(* src/db.rs: a loop that walks the blocks of the chain in windows and     *)
(* keeps its place in chain_sync_state.  What a block holds is left out;   *)
(* a block is stored when every transfer in it was ingested.               *)
(***************************************************************************)
EXTENDS Integers

CONSTANTS
    Loops,      \* processes that run the loop
    MaxBlock,   \* bound on the length of the chain
    Span,       \* the 100 blocks of one round
    MaxFaults   \* bound on provider errors, SQL errors and crashes

ASSUME BoundsAssumption == MaxBlock \in Nat /\ Span \in Nat \ {0} /\ MaxFaults \in Nat

VARIABLES
    head,     \* the chain's current block
    cursor,   \* chain_sync_state.cursor; 0 stands for no row
    tried,    \* blocks some loop has fetched or failed to fetch
    stored,   \* blocks whose transfers were all ingested
    pc,       \* where each loop is
    block,    \* the block it is on
    last,     \* the last block of its round
    faults    \* errors and crashes so far

vars == <<head, cursor, tried, stored, pc, block, last, faults>>

Blocks == 1..MaxBlock

TypeOK ==
    /\ head \in 0..MaxBlock
    /\ cursor \in 0..MaxBlock
    /\ tried \subseteq Blocks
    /\ stored \subseteq Blocks
    /\ pc \in [Loops -> {"idle", "fetch", "ingest", "save", "fail"}]
    /\ block \in [Loops -> 0..MaxBlock]
    /\ last \in [Loops -> 0..MaxBlock]
    /\ faults \in 0..MaxFaults

Init ==
    /\ head = 0
    /\ cursor = 0
    /\ tried = {}
    /\ stored = {}
    /\ pc = [p \in Loops |-> "idle"]
    /\ block = [p \in Loops |-> 0]
    /\ last = [p \in Loops |-> 0]
    /\ faults = 0

Min2(a, b) == IF a <= b THEN a ELSE b

Fault ==
    /\ faults < MaxFaults
    /\ faults' = faults + 1

\* A block is produced.
Grow ==
    /\ head < MaxBlock
    /\ head' = head + 1
    /\ UNCHANGED <<cursor, tried, stored, pc, block, last, faults>>

\* Faulty variants of the definitions that follow: the properties must tell
\* them from the code.
SkipOne(from) == from + 2

StartOf(from) == from + 1

EndOf(from) == Min2(head, from + Span)

\* One round begins from a cursor value; there is a block to do.
Round(p, from) ==
    /\ pc[p] = "idle"
    /\ StartOf(from) <= EndOf(from)
    /\ block' = [block EXCEPT ![p] = StartOf(from)]
    /\ last' = [last EXCEPT ![p] = EndOf(from)]
    /\ pc' = [pc EXCEPT ![p] = "fetch"]
    /\ UNCHANGED <<head, cursor, tried, stored>>

Begin(p) == Round(p, cursor) /\ UNCHANGED faults

\* The cursor cannot be read or parsed: unwrap_or(0).
BeginUnread(p) == Round(p, 0) /\ Fault

Fetch(p) ==
    /\ pc[p] = "fetch"
    /\ tried' = tried \cup {block[p]}
    /\ pc' = [pc EXCEPT ![p] = "ingest"]
    /\ UNCHANGED <<head, cursor, stored, block, last, faults>>

FetchFails(p) ==
    /\ Fault
    /\ pc[p] = "fetch"
    /\ tried' = tried \cup {block[p]}
    /\ pc' = [pc EXCEPT ![p] = "fail"]
    /\ UNCHANGED <<head, cursor, stored, block, last>>

Ingest(p) ==
    /\ pc[p] = "ingest"
    /\ stored' = stored \cup {block[p]}
    /\ pc' = [pc EXCEPT ![p] = "save"]
    /\ UNCHANGED <<head, cursor, tried, block, last, faults>>

\* The result of ingest_funding_transfer is dropped: let _.
IngestFails(p) ==
    /\ Fault
    /\ pc[p] = "ingest"
    /\ pc' = [pc EXCEPT ![p] = "save"]
    /\ UNCHANGED <<head, cursor, tried, stored, block, last>>

\* The loop goes on with the next block of its round, or ends it.
Advance(p) ==
    IF block[p] < last[p]
    THEN /\ block' = [block EXCEPT ![p] = @ + 1]
         /\ pc' = [pc EXCEPT ![p] = "fetch"]
         /\ UNCHANGED last
    ELSE /\ block' = [block EXCEPT ![p] = 0]
         /\ last' = [last EXCEPT ![p] = 0]
         /\ pc' = [pc EXCEPT ![p] = "idle"]

Stop(p) ==
    /\ block' = [block EXCEPT ![p] = 0]
    /\ last' = [last EXCEPT ![p] = 0]
    /\ pc' = [pc EXCEPT ![p] = "idle"]

NotSaved(b) == cursor

Saved(b) == b

\* set_sync_cursor, an unconditional upsert.
Save(p) ==
    /\ pc[p] = "save"
    /\ cursor' = Saved(block[p])
    /\ Advance(p)
    /\ UNCHANGED <<head, tried, stored, faults>>

\* Its result is dropped too.
SaveFails(p) ==
    /\ Fault
    /\ pc[p] = "save"
    /\ Advance(p)
    /\ UNCHANGED <<head, cursor, tried, stored>>

\* After a failed fetch the cursor is set to the failed block, and the round
\* ends.
SaveFailed(p) ==
    /\ pc[p] = "fail"
    /\ cursor' = Saved(block[p])
    /\ Stop(p)
    /\ UNCHANGED <<head, tried, stored, faults>>

\* That upsert fails, or the process dies.
Abort(p) ==
    /\ Fault
    /\ pc[p] # "idle"
    /\ Stop(p)
    /\ UNCHANGED <<head, cursor, tried, stored>>

Work(p) ==
    \/ Begin(p)
    \/ Fetch(p)
    \/ Ingest(p)
    \/ Save(p)
    \/ SaveFailed(p)

Fails(p) ==
    \/ BeginUnread(p)
    \/ FetchFails(p)
    \/ IngestFails(p)
    \/ SaveFails(p)
    \/ Abort(p)

Next ==
    \/ Grow
    \/ \E p \in Loops : Work(p) \/ Fails(p)

Spec == Init /\ [][Next]_vars

(***************************************************************************)
(* The loop ticks every 15 seconds for ever.  Nothing makes the chain grow *)
(* or a step fail.                                                         *)
(***************************************************************************)
FairSpec == Spec /\ \A p \in Loops : WF_vars(Work(p))

----------------------------------------------------------------------------

\* No block is passed over unseen: every block up to the cursor was at least
\* asked for, although two processes write the cursor without looking, a
\* failed read restarts at the first block and the cursor may move back.
NoBlockUnseen == \A b \in Blocks : b <= cursor => b \in tried

\* "Persist a cursor ONLY after durable storage of the events it covers"
\* (db.rs, set_sync_cursor).
CursorCoversStored == \A b \in Blocks : b <= cursor => b \in stored

\* Every block of the chain is asked for in the end, whatever fails on the
\* way.
EveryBlockTried == \A b \in Blocks : head >= b ~> b \in tried

=============================================================================
