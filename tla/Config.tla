-------------------------------- MODULE Config --------------------------------
(***************************************************************************)
(* The configuration loader (pkg/config): from the environment variables   *)
(* of the process to the configuration the manager is started with.        *)
(*                                                                         *)
(* A boolean variable holds a word, spelled in lower case, with a capital, *)
(* in capitals or, if it is long enough, in a mixture of both; the empty   *)
(* word is an unset variable.                                              *)
(* Of a number or a duration only its sign matters here, of a text whether *)
(* there is one, of an address whether one can listen there; an address    *)
(* that is not set has a default.                                          *)
(***************************************************************************)

Booleans == {"NOTIFICATION_ENABLED", "SHARED_ENDPOINT_ENABLED",
             "SHARED_ENDPOINT_AUTO_FAILBACK", "LEADER_ELECT"}
Numbers == {"HEALTH_CHECK_INTERVAL", "HEALTH_CHECK_TIMEOUT", "FAILOVER_THRESHOLD"}
Texts == {"TELEGRAM_BOT_TOKEN", "TELEGRAM_CHAT_ID", "DISCORD_WEBHOOK_URL"}
Addresses == {"METRICS_BIND_ADDRESS", "HEALTH_PROBE_BIND_ADDRESS"}

Letters == {"", "true", "t", "yes", "y", "on", "1", "false", "f", "no", "n", "off", "0"}
Word(letters, form) == [letters |-> letters, form |-> form]
Words ==
    {Word(l, f) : l \in Letters, f \in {"lower", "Title", "UPPER"}}
    \cup {Word(l, "miXed") : l \in {"true", "yes", "on", "false", "no", "off"}}
NumberTexts == {"", "malformed", "negative", "zero", "positive"}

\* The environment of a process.
EnvType == [flags : [Booleans -> Words], numbers : [Numbers -> NumberTexts],
            texts : [Texts -> BOOLEAN], addresses : [Addresses -> BOOLEAN]]

\* strconv.ParseBool: words it knows, but not in mixed case; and the lower-case
\* words the loader tries next.
Parsed(word) ==
    IF word.letters \in {"true", "t", "1"} /\ word.form # "miXed" THEN {TRUE}
    ELSE IF word.letters \in {"false", "f", "0"} /\ word.form # "miXed" THEN {FALSE}
    ELSE {}
Lowered(word) ==
    IF word.letters \in {"true", "yes", "1"} THEN {TRUE}
    ELSE IF word.letters \in {"false", "no", "0"} THEN {FALSE}
    ELSE {}

\* Mutants: only ParseBool is asked; what is not understood is false.
StrictBool(word, default) ==
    IF Parsed(word) = {} THEN default ELSE TRUE \in Parsed(word)
TrueOrFalse(word, default) == TRUE \in (Parsed(word) \cup Lowered(word))

\* parseBoolWithWarning: anything else is the default, with a warning in the log.
ParseBool(word, default) ==
    LET found == IF Parsed(word) # {} THEN Parsed(word) ELSE Lowered(word)
    IN  IF found = {} THEN default ELSE TRUE \in found

\* parseDuration and parseInt accept any number, whatever its sign.
Parsable(number) == number # "malformed"

\* Mutant: a switch that cannot be understood is an error too.
LoadsStrictly(env) ==
    /\ \A v \in Numbers : Parsable(env.numbers[v])
    /\ \A v \in Booleans : env.flags[v].letters = "" \/ Lowered(env.flags[v]) # {}

\* Load: nothing but a malformed number is an error; addresses are not looked at.  Every
\* boolean defaults to true.
Loads(env) == \A v \in Numbers : Parsable(env.numbers[v])
Load(env) ==
    [flags |-> [v \in Booleans |-> ParseBool(env.flags[v], TRUE)], texts |-> env.texts]

===============================================================================
