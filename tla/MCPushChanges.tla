--------------------------- MODULE MCPushChanges ---------------------------
(* The trusted push for TLC: one operation's activity is retried, the other's *)
(* is not.                                                                    *)
EXTENDS PushChanges, TLC

MCOperations == {"k1", "k2"}
MCMaxAttempts == "k1" :> 2 @@ "k2" :> 1
=============================================================================
