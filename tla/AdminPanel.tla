----------------------------- MODULE AdminPanel -----------------------------
(***************************************************************************)
(* The operator panel (auth.rs, admin.rs): login with a failure limiter,   *)
(* sessions bound to a workspace, and handlers that authorise first and    *)
(* write in later statements.  Every statement may fail (the store is      *)
(* unreachable), every response may be lost, and any number of requests    *)
(* interleave between two statements of one handler.                       *)
(***************************************************************************)
EXTENDS Naturals, Sequences, FiniteSets, FiniteSetsExt

CONSTANTS ApClients, ApKeyOf,      \* browsers and their rate_limit_key
          ApSpaces, ApDefault,     \* workspaces, and the one slugged `default`
          ApBatches,               \* request bodies: sequences of [key, valid]
          ApMaxFailures, ApWindow, ApKeep, ApTtl,
          ApMaxTime,               \* bound on the clock
          ApMaxTokens,             \* bound on the sessions ever created
          ApMaxFailed              \* bound on the failed attempts kept

BatchKeys == UNION {{b[i].key : i \in DOMAIN b} : b \in ApBatches}
Pairs == [key : BatchKeys, valid : BOOLEAN]

ASSUME ApAssumption == /\ {ApMaxFailures, ApWindow, ApTtl, ApMaxTokens} \subseteq Nat \ {0}
                       /\ ApKeep \in Nat /\ ApKeep >= ApWindow
                       /\ ApMaxTime \in Nat /\ ApMaxFailed \in Nat
                       /\ IsFiniteSet(ApClients) /\ ApBatches \subseteq Seq(Pairs)

VARIABLES apConf,      \* auth_configured()
          apActive,    \* the active workspaces
          apNow,
          apSessions,  \* admin_sessions: token -> [expires, ws] or NoSession
          apIssued,    \* tokens generated so far
          apFailures,  \* login_attempts that failed, per key: rows [at, n], numbered within a time
          apSuccesses, \* login_attempts that succeeded
          apCookie,    \* per client, the cookie it holds
          apReq,       \* per client, the request in flight
          apStored,    \* admin_settings and the other stores: key -> batch that wrote it
          apOut,       \* history: tokens whose holder was told it is logged out
          apHeld       \* history: per client, its session was valid during the request

apVars == <<apConf, apActive, apNow, apSessions, apIssued, apFailures, apSuccesses,
            apCookie, apReq, apStored, apOut, apHeld>>
apStore == <<apSessions, apIssued, apFailures, apSuccesses>>

Tokens == 1 .. ApMaxTokens
NoToken == 0
Unbound == "unbound"
NoSession == [expires |-> 0, ws |-> Unbound]
NoBatch == <<>>
ApKeys == {ApKeyOf[c] : c \in ApClients}

Idle == [pc |-> "idle", token |-> NoToken, batch |-> NoBatch, done |-> 0, status |-> 0]

-----------------------------------------------------------------------------
(* auth.rs.                                                                *)

\* `default` when it is active, else the only active workspace; never a guess.
SelectWorkspace(active) ==
  IF ApDefault \in active THEN ApDefault
  ELSE IF Cardinality(active) = 1 THEN CHOOSE w \in active : TRUE
  ELSE Unbound

Valid(t) == t # NoToken /\ apSessions[t].expires > apNow
WorkspaceFor(t) == IF Valid(t) THEN apSessions[t].ws ELSE Unbound

ThresholdReached(n) == n >= ApMaxFailures

RecentFailures(k) == {f \in apFailures[k] : f.at + ApWindow > apNow}
RateLimited(k) == ThresholdReached(Cardinality(RecentFailures(k)))

Answer(c, status) == apReq' = [apReq EXCEPT ![c] = [Idle EXCEPT !.status = status]]
Proceed(c, pc) == apReq' = [apReq EXCEPT ![c] = [@ EXCEPT !.pc = pc, !.status = 0]]

-----------------------------------------------------------------------------
(* login_submit: the limiter's read, the password check, the writes.       *)

LoginCheck(c) ==
  /\ apReq[c].pc = "idle"
  /\ \/ ~apConf /\ Answer(c, 403)
     \/ apConf /\ Answer(c, 500)
     \/ apConf /\ RateLimited(ApKeyOf[c]) /\ Answer(c, 429)
     \/ apConf /\ ~RateLimited(ApKeyOf[c]) /\ Proceed(c, "login")
  /\ UNCHANGED <<apStore, apCookie, apStored, apOut>>

NewFailure(k) == [at |-> apNow, n |-> Cardinality({f \in apFailures[k] : f.at = apNow})]

\* A failed attempt that cannot be recorded is a 500, never a free guess.
LoginWrong(c) ==
  /\ apReq[c].pc = "login"
  /\ \/ Answer(c, 500) /\ UNCHANGED apFailures
     \/ /\ Cardinality(apFailures[ApKeyOf[c]]) < ApMaxFailed
        /\ Answer(c, 200)
        /\ apFailures' = [apFailures EXCEPT ![ApKeyOf[c]] = @ \cup {NewFailure(ApKeyOf[c])}]
  /\ UNCHANGED <<apSessions, apIssued, apSuccesses, apCookie, apStored, apOut>>

NewSession == [expires |-> apNow + ApTtl, ws |-> SelectWorkspace(apActive)]

\* establish_session: one transaction; the client may still lose the answer.
EstablishSession(c) ==
  /\ apReq[c].pc = "login" /\ apIssued < ApMaxTokens
  /\ \/ Answer(c, 500) /\ UNCHANGED <<apStore, apCookie>>
     \/ /\ apSuccesses' = apSuccesses + 1
        /\ apFailures' = [apFailures EXCEPT ![ApKeyOf[c]] = {}]
        /\ apIssued' = apIssued + 1
        /\ apSessions' = [apSessions EXCEPT ![apIssued'] = NewSession]
        /\ \/ apCookie' = [apCookie EXCEPT ![c] = apIssued'] /\ Answer(c, 303)
           \/ UNCHANGED apCookie /\ Answer(c, 0)
  /\ UNCHANGED <<apStored, apOut>>

-----------------------------------------------------------------------------
(* logout: the cookie is cleared only when the row is gone.                *)

\* Mutant: a failed destroy_session is ignored.
LogoutRegardless(c) ==
  /\ apReq[c].pc = "idle"
  /\ \/ UNCHANGED apSessions
     \/ /\ apCookie[c] # NoToken
        /\ apSessions' = [apSessions EXCEPT ![apCookie[c]] = NoSession]
  /\ Answer(c, 303)
  /\ apOut' = apOut \union ({apCookie[c]} \ {NoToken})
  /\ apCookie' = [apCookie EXCEPT ![c] = NoToken]
  /\ UNCHANGED <<apIssued, apFailures, apSuccesses, apStored>>

Logout(c) ==
  /\ apReq[c].pc = "idle"
  /\ \/ /\ apCookie[c] # NoToken /\ Answer(c, 500)
        /\ UNCHANGED <<apSessions, apCookie, apOut>>
     \/ /\ apSessions' = IF apCookie[c] = NoToken THEN apSessions
                         ELSE [apSessions EXCEPT ![apCookie[c]] = NoSession]
        /\ apOut' = apOut \union ({apCookie[c]} \ {NoToken})
        /\ apCookie' = [apCookie EXCEPT ![c] = NoToken]
        /\ Answer(c, 303)
  /\ UNCHANGED <<apIssued, apFailures, apSuccesses, apStored>>

-----------------------------------------------------------------------------
(* Authorised handlers.                                                    *)

\* Mutant: a store failure reads as a bad session.
RequireAuthOutageIs401(c, t, next) ==
  \/ ~Valid(t) /\ Answer(c, 401)
  \/ t # NoToken /\ Answer(c, 401)
  \/ Valid(t) /\ apReq' = [apReq EXCEPT ![c] = next]

\* require_auth: no cookie or no live row is 401, a store failure is 500.
RequireAuth(c, t, next) ==
  \/ ~Valid(t) /\ Answer(c, 401)
  \/ t # NoToken /\ Answer(c, 500)
  \/ Valid(t) /\ apReq' = [apReq EXCEPT ![c] = next]

\* Reads are open while no password is configured.
ReadRequest(c) ==
  /\ apReq[c].pc = "idle"
  /\ IF apConf THEN RequireAuth(c, apCookie[c], [Idle EXCEPT !.status = 200])
               ELSE Answer(c, 200)
  /\ UNCHANGED <<apStore, apCookie, apStored, apOut>>

Started(c, batch, scoped) ==
  [pc |-> IF scoped THEN "workspace" ELSE "validate",
   token |-> apCookie[c], batch |-> batch, done |-> 0, status |-> 0]

\* require_write_auth: no mutation at all without a configured password.
WriteRequest(c, batch, scoped) ==
  /\ apReq[c].pc = "idle"
  /\ IF apConf THEN RequireAuth(c, apCookie[c], Started(c, batch, scoped))
               ELSE Answer(c, 403)
  /\ UNCHANGED <<apStore, apCookie, apStored, apOut>>

\* require_workspace: a second read of the session, by label and list handlers.
RequireWorkspace(c) ==
  /\ apReq[c].pc = "workspace"
  /\ \/ WorkspaceFor(apReq[c].token) = Unbound /\ Answer(c, 401)
     \/ Answer(c, 500)
     \/ WorkspaceFor(apReq[c].token) # Unbound /\ Proceed(c, "validate")
  /\ UNCHANGED <<apStore, apCookie, apStored, apOut>>

\* Every pair is validated before any is written, and an empty body is refused.
ValidateBatch(c) ==
  /\ apReq[c].pc = "validate"
  /\ IF apReq[c].batch # NoBatch /\ \A i \in DOMAIN apReq[c].batch : apReq[c].batch[i].valid
     THEN Proceed(c, "write") ELSE Answer(c, 400)
  /\ UNCHANGED <<apStore, apCookie, apStored, apOut>>

\* One upsert per pair, each its own commit: a failure leaves a prefix behind.
WritePair(c) ==
  /\ apReq[c].pc = "write"
  /\ LET r == apReq[c] IN
       \/ Answer(c, 500) /\ UNCHANGED apStored
       \/ /\ apStored' = [apStored EXCEPT ![r.batch[r.done + 1].key] = r.batch]
          /\ IF r.done + 1 = Len(r.batch) THEN Answer(c, 200)
             ELSE apReq' = [apReq EXCEPT ![c] = [r EXCEPT !.done = r.done + 1]]
  /\ UNCHANGED <<apStore, apCookie, apOut>>

\* prune_attempts, every half hour: rows a day old, long out of the window.
PruneAttempts ==
  /\ apFailures' = [k \in ApKeys |-> {f \in apFailures[k] : f.at + ApKeep >= apNow}]
  /\ apFailures' # apFailures
  /\ UNCHANGED <<apSessions, apIssued, apSuccesses, apCookie, apReq, apStored, apOut>>

ApTick ==
  /\ apNow < ApMaxTime /\ apNow' = apNow + 1
  /\ UNCHANGED <<apStore, apCookie, apReq, apStored, apOut>>

-----------------------------------------------------------------------------

ApInit ==
  /\ apConf \in BOOLEAN
  /\ apActive \in SUBSET ApSpaces
  /\ apNow = 0
  /\ apSessions = [t \in Tokens |-> NoSession]
  /\ apIssued = 0
  /\ apFailures = [k \in ApKeys |-> {}]
  /\ apSuccesses = 0
  /\ apCookie = [c \in ApClients |-> NoToken]
  /\ apReq = [c \in ApClients |-> Idle]
  /\ apStored = [k \in BatchKeys |-> NoBatch]
  /\ apOut = {}
  /\ apHeld = [c \in ApClients |-> FALSE]

Request(c) ==
  \/ LoginCheck(c) \/ LoginWrong(c) \/ EstablishSession(c) \/ Logout(c)
  \/ ReadRequest(c) \/ RequireWorkspace(c) \/ ValidateBatch(c) \/ WritePair(c)
  \/ \E batch \in ApBatches, scoped \in BOOLEAN : WriteRequest(c, batch, scoped)

\* History: the session a request carries was valid at its start or later.
Remember == apHeld' = [c \in ApClients |->
  apReq'[c].token # NoToken
    /\ (Valid(apReq'[c].token) \/ (apReq[c].token # NoToken /\ apHeld[c]))]

ApNext ==
  /\ \/ (\E c \in ApClients : Request(c)) /\ UNCHANGED apNow
     \/ PruneAttempts /\ UNCHANGED apNow
     \/ ApTick
  /\ Remember
  /\ UNCHANGED <<apConf, apActive>>

ApSpec == ApInit /\ [][ApNext]_apVars

-----------------------------------------------------------------------------
(* Properties.                                                             *)

ApRequests == [pc : {"idle", "login", "workspace", "validate", "write"},
               token : Tokens \union {NoToken}, batch : ApBatches \union {NoBatch},
               done : Nat, status : {0, 200, 303, 400, 401, 403, 429, 500}]

\* The stores, cookies and requests have their types; only issued tokens have rows,
\* and a write in flight has a pair left to write.
ApTypeOK ==
  /\ apSessions \in [Tokens -> [expires : Nat, ws : ApSpaces \union {Unbound}]]
  /\ apReq \in [ApClients -> ApRequests]
  /\ apCookie \in [ApClients -> Tokens \union {NoToken}]
  /\ \A t \in Tokens : apSessions[t] # NoSession => t <= apIssued
  /\ \A c \in ApClients : apReq[c].pc = "write" => apReq[c].done < Len(apReq[c].batch)

Sharing(k) == {c \in ApClients : ApKeyOf[c] = k}
InLogin(k) == {c \in Sharing(k) : apReq[c].pc = "login"}

\* The limiter reads outside the transaction that records, so concurrent
\* attempts overshoot it, but only by the attempts already past the read:
\* failures inside the window never exceed MAX_FAILURES - 1 plus the clients
\* that share the key.
LimiterBound ==
  \A k \in ApKeys : Cardinality(RecentFailures(k)) + Cardinality(InLogin(k))
                      <= ApMaxFailures - 1 + Cardinality(Sharing(k))

\* Login is one transaction: every session ever created has its audit row and
\* every audited success its session, whatever failed on the way.
LoginsAreAudited == apSuccesses = apIssued

\* Logout never claims more than the server did: once a client has been sent
\* away with a cleared cookie its token is in no row.
LogoutIsHonest == \A t \in apOut : apSessions[t] = NoSession

\* An outage is never reported as a bad session: whoever is answered 401 had
\* no live session, or one bound to no workspace, at that moment.
RefusalsAreReal ==
  \A c \in ApClients :
    (apReq'[c].status = 401 /\ apReq'[c] # apReq[c]) =>
      \/ ~Valid(apCookie[c])
      \/ apReq[c].pc = "workspace" /\ WorkspaceFor(apReq[c].token) = Unbound

\* A statement that writes belongs to a request whose session was alive at some
\* moment of it, and no panel without a password is ever written to.
WritesHeldASession ==
  apStored' # apStored =>
    apConf /\ \E c \in ApClients : apReq[c].pc = "write" /\ apHeld[c]

\* Who is refused had no session and who writes had one, with a store that may
\* be away at every statement.
PanelIsGuarded == [][RefusalsAreReal /\ WritesHeldASession]_apVars

\* A request with one bad pair leaves nothing behind, although the pairs of a
\* good one are separate commits.
RejectedBatchWritesNothing ==
  \A k \in BatchKeys : \A i \in DOMAIN apStored[k] : apStored[k][i].valid

\* What the panel's tables say is what happened: of failures, logins, logouts
\* and settings, however requests and outages interleave.
PanelIsHonest ==
  ApTypeOK /\ LimiterBound /\ LoginsAreAudited /\ LogoutIsHonest /\ RejectedBatchWritesNothing

-----------------------------------------------------------------------------
(* The inductive invariant: what a handler has established by its earlier  *)
(* statements still holds of its request when the next one runs.           *)

Authorised == {"workspace", "validate", "write"}
AllValid(batch) == \A i \in DOMAIN batch : batch[i].valid

\* A request past the guard has a token that was valid during it, and one that
\* writes has a valid pair left.
RequestIsSound(c) ==
  LET r == apReq[c] IN
    /\ r.pc # "idle" => r.status = 0
    /\ r.pc \in Authorised => apConf /\ apHeld[c] /\ r.token # NoToken
    /\ r.pc \in {"workspace", "validate"} => r.done = 0
    /\ r.pc = "write" => AllValid(r.batch) /\ r.done < Len(r.batch)

\* Tokens are numbered in the order of their issue; one that was handed out, and
\* so one that was logged out, is never issued again.
SessionsAreIssued ==
  /\ apIssued \in 0 .. ApMaxTokens /\ apSuccesses = apIssued
  /\ apSessions \in [Tokens -> [expires : Nat, ws : ApSpaces \union {Unbound}]]
  /\ \A t \in Tokens : t > apIssued => apSessions[t] = NoSession
  /\ apCookie \in [ApClients -> 0 .. apIssued]
  /\ apOut \subseteq 1 .. apIssued /\ LogoutIsHonest

FailuresAreRows ==
  /\ apFailures \in [ApKeys -> SUBSET [at : Nat, n : Nat]]
  /\ \A k \in ApKeys : IsFiniteSet(apFailures[k])

StoredIsValid ==
  /\ apStored \in [BatchKeys -> ApBatches \union {NoBatch}]
  /\ \A k \in BatchKeys : AllValid(apStored[k])

ApIndInv ==
  /\ apActive \subseteq ApSpaces /\ apNow \in Nat
  /\ apReq \in [ApClients -> ApRequests] /\ \A c \in ApClients : RequestIsSound(c)
  /\ SessionsAreIssued /\ FailuresAreRows /\ LimiterBound /\ StoredIsValid
=============================================================================
