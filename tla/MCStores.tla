------------------------------ MODULE MCStores ------------------------------
(***************************************************************************)
(* The stores the intelligence reads, the panel that edits them and the    *)
(* sources that fill them: wallet policy, the wallet graph, the admin      *)
(* panel, ingest, Telegram and GMGN.  The components share no state, so    *)
(* `mode` chooses the one that runs and the others stay in an initial      *)
(* state.  Fair are the work of the Telegram poll loop, and the GMGN       *)
(* client with the clock it sleeps on.                                     *)
(***************************************************************************)
EXTENDS WalletPolicy, WalletGraph, AdminPanel, Ingest, TelegramIngest, GmgnBucket

VARIABLE mode
stVars == <<mode, wpVars, wgVars, apVars, inVars, tgVars, gmVars>>
Modes == {"policy", "graph", "panel", "ingest", "channels", "bucket"}

\* Two browsers behind one address; a batch of two settings, one whose second
\* pair is refused, and an empty one.
MCKeyOf == [c \in ApClients |-> "k"]
Pair(k, v) == [key |-> k, valid |-> v]
MCBatches == {<<Pair("s1", TRUE), Pair("s2", TRUE)>>, <<Pair("s1", TRUE), Pair("s2", FALSE)>>, <<>>}

\* Evidence that reaches the threshold of the graph, and evidence that does not.
MCEvidence == {{"funding", "token_account", "style"}, {"funding", "repeated", "style"}}

\* A transfer, a trade and a transaction that does not parse; two webhooks
\* that overlap in the transfer, and an address with two pages of history.
MCKind == [s \in {"s1", "s2", "s3"} |->
             CASE s = "s1" -> "transfer" [] s = "s2" -> "trade" [] s = "s3" -> "malformed"]
MCPayloads == {<<"s1", "s2">>, <<"s3", "s1">>}
MCHistory == <<"s1", "s2">>

\* What a Telegram message mentions: one of two tokens.
MCTexts == {{1}, {2}}

StoresInit ==
  /\ mode \in Modes
  /\ WpInit /\ WgInit /\ InInit /\ TgInit /\ GmInit
  /\ ApInit /\ (mode # "panel" => apConf /\ apActive = ApSpaces)

Runs(m) == mode = m
StoresNext ==
  /\ mode' = mode
  /\ \/ Runs("policy") /\ WpNext /\ UNCHANGED <<wgVars, apVars, inVars, tgVars, gmVars>>
     \/ Runs("graph")  /\ WgNext /\ UNCHANGED <<wpVars, apVars, inVars, tgVars, gmVars>>
     \/ Runs("panel")  /\ ApNext /\ UNCHANGED <<wpVars, wgVars, inVars, tgVars, gmVars>>
     \/ Runs("ingest") /\ InNext /\ UNCHANGED <<wpVars, wgVars, apVars, tgVars, gmVars>>
     \/ Runs("channels") /\ TgNext /\ UNCHANGED <<wpVars, wgVars, apVars, inVars, gmVars>>
     \/ Runs("bucket") /\ GmNext /\ UNCHANGED <<wpVars, wgVars, apVars, inVars, tgVars>>

StoresSpec ==
  /\ StoresInit /\ [][StoresNext]_stVars
  /\ WF_tgVars(Runs("channels") /\ TgWork)
  /\ WF_gmVars(Runs("bucket") /\ GmWork) /\ WF_gmVars(Runs("bucket") /\ GmTick)
=============================================================================
