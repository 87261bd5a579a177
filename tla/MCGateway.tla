----------------------------- MODULE MCGateway -----------------------------
(* The gateway for TLC: two pull requests of allowed repositories that share *)
(* a workflow id, one of a repository that is not allowed, and what GitHub   *)
(* tells about them.                                                         *)
EXTENDS Gateway

Pr1 == [owner |-> <<"acme">>, name |-> <<"web", "app">>, number |-> "1"]
Pr2 == [owner |-> <<"acme", "web">>, name |-> <<"app">>, number |-> "1"]
Pr3 == [owner |-> <<"acme">>, name |-> <<"lib">>, number |-> "1"]
MCPRs == {Pr1, Pr2, Pr3}
MCAllowed == {<<p.owner, p.name>> : p \in {Pr1, Pr2}}

Hook(kind, p, author, bot) ==
    [kind |-> kind, pr |-> p, author |-> author, bot |-> bot]
MCWebhooks ==
    { Hook("opened", Pr1, "ann", FALSE), Hook("synchronize", Pr3, "ann", FALSE),
      Hook("synchronize", Pr1, "bot", TRUE), Hook("review_comment", Pr2, "bob", FALSE),
      Hook("command", Pr1, "ann", FALSE), Hook("command", Pr1, "bob", FALSE) }
=============================================================================
