------------------------------- MODULE MCManager -------------------------------
(***************************************************************************)
(* Small instances of Manager: environments a user may deploy, with one    *)
(* spelling for each way a switch is read.                                 *)
(***************************************************************************)
EXTENDS Manager

Unset == Word("", "lower")

\* Nothing but credentials for both channels.
Plain ==
    [flags |-> [v \in Booleans |-> Unset], numbers |-> [v \in Numbers |-> ""],
     texts |-> [v \in Texts |-> TRUE], addresses |-> [v \in Addresses |-> TRUE]]
Muted(word) == [Plain EXCEPT !.flags["NOTIFICATION_ENABLED"] = word]
Unelected(word) == [Plain EXCEPT !.flags["LEADER_ELECT"] = word]

MCEnvs ==
    [plain |-> Plain,
     muted |-> Muted(Word("no", "miXed")),
     misspelt |-> [Muted(Word("off", "lower"))
                     EXCEPT !.flags["LEADER_ELECT"] = Word("off", "UPPER")],
     unelected |-> [Unelected(Word("f", "UPPER")) EXCEPT !.texts["TELEGRAM_CHAT_ID"] = FALSE],
     malformed |-> [Plain EXCEPT !.numbers["FAILOVER_THRESHOLD"] = "malformed",
                                 !.numbers["HEALTH_CHECK_TIMEOUT"] = "negative"],
     unbound |-> [Plain EXCEPT !.addresses["METRICS_BIND_ADDRESS"] = FALSE]]

\* One rule under which a completion is not severe enough, one for it alone.
MCRules == {[enabled |-> FALSE, on |-> Kinds, severity |-> 2],
            [enabled |-> TRUE, on |-> {"complete"}, severity |-> 0]}

================================================================================
