----------------------------- MODULE Manager_proofs -----------------------------
(***************************************************************************)
(* Theorems about Manager, for any processes, environments and rules, and  *)
(* about how Config reads the switches of an environment.                  *)
(***************************************************************************)
EXTENDS Manager, SequenceTheorems, TLAPS

----------------------------------------------------------------------------
(* The inductive invariant, by what it says of each process. *)

TypeInv ==
    /\ env \in DOMAIN Envs
    /\ phase \in [Processes -> {"absent", "loading", "waiting", "active"}]
    /\ environ \in [Processes -> DOMAIN Envs \cup {None}]
    /\ config \in [Processes -> ConfigType \cup {None}]
    /\ notifiers \in [Processes -> Seq(NotifierType)]
    /\ lease \in Processes \cup {None}
    /\ worker \in [Processes -> [at : {"idle"} \cup Kinds, rule : Rules \cup {None}]]
    /\ call \in [Processes -> CallType]
    /\ channel \in [Channels -> {"up", "refuses", "hangs"}]

\* What a process has loaded is what its environment says, and only an active one works.
SetupOK(p) ==
    /\ phase[p] # "absent" => environ[p] \in DOMAIN Envs
    /\ IF phase[p] \in {"waiting", "active"}
         THEN /\ config[p] = Load(Envs[environ[p]])
              /\ notifiers[p] = SetupNotifications(config[p])
         ELSE config[p] = None /\ notifiers[p] = << >>
    /\ phase[p] # "active" => worker[p].at = "idle"

\* A Notify call in progress: the channels tried so far and those still to be tried
\* are those of the environment.
CallOK(p, c) ==
    LET on == config[p].flags["NOTIFICATION_ENABLED"]
    IN  /\ \A i \in DOMAIN c.todo : c.todo[i].enabled = on
        /\ c.reached \cup c.confirmed \cup c.failed \cup Names(c.todo) \subseteq NoticeTried(p)
        /\ c.reached # {} => on
        /\ on => c.confirmed \cup c.failed \cup Names(c.todo) = NoticeTried(p)
        /\ c.confirmed \subseteq c.reached
NoticeOK(p) ==
    IF worker[p].at = "idle" THEN call[p] = NoCall
    ELSE /\ worker[p].rule \in Rules
         /\ IF Listed(worker[p].rule, worker[p].at) THEN CallOK(p, call[p])
            ELSE call[p] = NoCall

\* A process that was told to elect a leader runs the controllers only with the lease.
LeaseOK(p) == phase[p] = "active" /\ config[p].flags["LEADER_ELECT"] => lease = p

ProcessInv(p) == SetupOK(p) /\ NoticeOK(p) /\ LeaseOK(p)
Inv == TypeInv /\ \A p \in Processes : ProcessInv(p)

----------------------------------------------------------------------------
(* How switches are read. *)

\* A switch reads as off only if its word says so, and as on only if no word that says
\* off is there: what is missing or cannot be understood is on.
LEMMA SwitchRead ==
    ASSUME NEW word \in Words
    PROVE  /\ ParseBool(word, TRUE) \in BOOLEAN
           /\ ~ParseBool(word, TRUE) <=> Off(word)
  <1>1. PICK l, f : word = [letters |-> l, form |-> f] /\ (f = "miXed" => l # "f")
    BY DEF Words, Word
  <1>2. word.letters = l /\ word.form = f
    BY <1>1
  <1>3. {TRUE} # {} /\ {FALSE} # {} /\ TRUE \in {TRUE} /\ (TRUE \in {FALSE}) = FALSE
    <2>1. {TRUE} # {} /\ {FALSE} # {} /\ TRUE \in {TRUE}
      BY Zenon
    <2>2. (TRUE \in {FALSE}) = FALSE
      BY SMT
    <2> QED
      BY <2>1, <2>2
  <1>4. CASE l \in {"true", "t", "1"} /\ f # "miXed"
    <2>1. Parsed(word) = {TRUE}
      BY <1>2, <1>4 DEF Parsed
    <2>2. ParseBool(word, TRUE) = (TRUE \in {TRUE})
      BY <1>3, <2>1 DEF ParseBool
    <2>3. ~Off(word)
      BY <1>2, <1>4 DEF Off
    <2> QED
      BY <1>3, <2>2, <2>3
  <1>5. CASE l \in {"false", "f", "0"} /\ f # "miXed"
    <2>1. Parsed(word) = {FALSE}
      BY <1>2, <1>5 DEF Parsed
    <2>2. ParseBool(word, TRUE) = FALSE
      BY <1>3, <2>1 DEF ParseBool
    <2>3. Off(word)
      BY <1>2, <1>5 DEF Off
    <2> QED
      BY <1>3, <2>2, <2>3
  <1>6. ASSUME ~(l \in {"true", "t", "1"} /\ f # "miXed"),
               ~(l \in {"false", "f", "0"} /\ f # "miXed")
        PROVE  /\ ParseBool(word, TRUE) \in BOOLEAN
               /\ ~ParseBool(word, TRUE) <=> Off(word)
    <2>1. Parsed(word) = {}
      BY <1>2, <1>6 DEF Parsed
    <2>2. CASE l \in {"true", "yes", "1"}
      <3>1. Lowered(word) = {TRUE}
        BY <1>2, <2>2 DEF Lowered
      <3>2. ParseBool(word, TRUE) = (TRUE \in {TRUE})
        BY <1>3, <2>1, <3>1 DEF ParseBool
      <3>3. ~Off(word)
        BY <1>2, <2>2 DEF Off
      <3> QED
        BY <1>3, <3>2, <3>3
    <2>3. CASE l \in {"false", "no", "0"}
      <3>1. Lowered(word) = {FALSE}
        BY <1>2, <2>3 DEF Lowered
      <3>2. ParseBool(word, TRUE) = FALSE
        BY <1>3, <2>1, <3>1 DEF ParseBool
      <3>3. Off(word)
        BY <1>2, <2>3 DEF Off
      <3> QED
        BY <1>3, <3>2, <3>3
    <2>4. CASE l \notin {"true", "yes", "1"} /\ l \notin {"false", "no", "0"}
      <3>1. Lowered(word) = {}
        BY <1>2, <2>4 DEF Lowered
      <3>2. ParseBool(word, TRUE) = TRUE
        BY <2>1, <3>1 DEF ParseBool
      <3>3. ~Off(word)
        BY <1>1, <1>2, <1>6, <2>4 DEF Off
      <3> QED
        BY <3>2, <3>3
    <2> QED
      BY <2>2, <2>3, <2>4
  <1> QED
    BY <1>4, <1>5, <1>6

\* A loaded configuration is well formed.
LEMMA LoadType ==
    ASSUME NEW e \in EnvType
    PROVE  /\ Load(e) \in ConfigType
           /\ \A v \in Booleans : Load(e).flags[v] \in BOOLEAN
           /\ \A v \in Booleans : ~Load(e).flags[v] <=> Off(e.flags[v])
           /\ Load(e).texts = e.texts
  <1>1. \A v \in Booleans : e.flags[v] \in Words
    BY DEF EnvType
  <1>2. \A v \in Booleans : ParseBool(e.flags[v], TRUE) \in BOOLEAN
    BY <1>1, SwitchRead
  <1>3. e.texts \in [Texts -> BOOLEAN]
    BY DEF EnvType
  <1>4. Load(e).flags = [v \in Booleans |-> ParseBool(e.flags[v], TRUE)]
        /\ Load(e).texts = e.texts
    BY DEF Load
  <1>5. Load(e).flags \in [Booleans -> BOOLEAN]
    BY <1>2, <1>4
  <1>6. Load(e) \in ConfigType
    BY <1>3, <1>4, <1>5 DEF ConfigType, Load
  <1>7. \A v \in Booleans : ~Load(e).flags[v] <=> Off(e.flags[v])
    BY <1>1, <1>4, SwitchRead
  <1> QED
    BY <1>4, <1>5, <1>6, <1>7

----------------------------------------------------------------------------
(* Notifiers. *)

\* The list of one notifier, with another one at its end.
LEMMA PairAppended ==
    ASSUME NEW S, NEW a \in S, NEW b \in S
    PROVE  Append(<<a>>, b) = <<a, b>>
  <1>1. /\ <<a>> \in Seq(S) /\ Len(<<a>>) = 1
        /\ <<a, b>> \in Seq(S) /\ Len(<<a, b>>) = 2
    OBVIOUS
  <1>2. /\ Append(<<a>>, b) \in Seq(S) /\ Len(Append(<<a>>, b)) = 2
        /\ Append(<<a>>, b)[1] = a /\ Append(<<a>>, b)[2] = b
    BY <1>1
  <1>3. \A i \in 1 .. 2 : Append(<<a>>, b)[i] = <<a, b>>[i]
    <2>1. \A i \in 1 .. 2 : i = 1 \/ i = 2
      OBVIOUS
    <2>2. <<a, b>>[1] = a /\ <<a, b>>[2] = b
      OBVIOUS
    <2> QED
      BY <1>2, <2>1, <2>2
  <1>4. \A s, t \in Seq(S) : Len(s) = Len(t) /\ (\A i \in 1 .. Len(s) : s[i] = t[i]) => s = t
    BY SeqEqual
  <1> QED
    BY <1>1, <1>2, <1>3, <1>4, Zenon

\* A notifier is registered once for each channel the configuration names in full.
LEMMA NotifiersType ==
    ASSUME NEW c \in ConfigType
    PROVE  LET list == SetupNotifications(c)
               on == c.flags["NOTIFICATION_ENABLED"]
           IN  /\ list \in Seq(NotifierType)
               /\ \A i \in DOMAIN list : list[i].enabled = on
               /\ \A i, j \in DOMAIN list : list[i].name = list[j].name => i = j
               /\ "telegram" \in Names(list) <=>
                     c.texts["TELEGRAM_BOT_TOKEN"] /\ c.texts["TELEGRAM_CHAT_ID"]
               /\ "discord" \in Names(list) <=> c.texts["DISCORD_WEBHOOK_URL"]
               /\ Names(list) \subseteq Channels
  <1> DEFINE on == c.flags["NOTIFICATION_ENABLED"]
             telegram == [name |-> "telegram", enabled |-> on]
             discord == [name |-> "discord", enabled |-> on]
  <1>0. on \in BOOLEAN
    BY DEF ConfigType, Booleans
  <1>1. telegram \in NotifierType /\ discord \in NotifierType
    BY <1>0 DEF NotifierType, Channels
  <1>2. CASE ~c.texts["DISCORD_WEBHOOK_URL"]
             /\ ~(c.texts["TELEGRAM_BOT_TOKEN"] /\ c.texts["TELEGRAM_CHAT_ID"])
    BY <1>2 DEF SetupNotifications, WithTelegram, Names
  <1>a. RegisterNotifier(<< >>, telegram) = <<telegram>>
        /\ RegisterNotifier(<< >>, discord) = <<discord>>
        /\ RegisterNotifier(<<telegram>>, discord) = <<telegram, discord>>
    <2>1. Names(<< >>) = {} /\ Names(<<telegram>>) = {"telegram"}
      BY DEF Names
    <2>2. Append(<< >>, telegram) = <<telegram>> /\ Append(<< >>, discord) = <<discord>>
      OBVIOUS
    <2>3. Append(<<telegram>>, discord) = <<telegram, discord>>
      BY <1>1, PairAppended
    <2> QED
      BY <2>1, <2>2, <2>3 DEF RegisterNotifier
  <1>b. Notifier("telegram", on) = telegram /\ Notifier("discord", on) = discord
    BY DEF Notifier
  <1> HIDE DEF on
  <1>3. CASE ~c.texts["DISCORD_WEBHOOK_URL"]
             /\ c.texts["TELEGRAM_BOT_TOKEN"] /\ c.texts["TELEGRAM_CHAT_ID"]
    <2>1. SetupNotifications(c) = <<telegram>>
      BY <1>3, <1>a, <1>b DEF SetupNotifications, WithTelegram, on
    <2> QED
      BY <1>1, <1>3, <2>1 DEF Names, on, Channels
  <1>4. CASE c.texts["DISCORD_WEBHOOK_URL"]
             /\ ~(c.texts["TELEGRAM_BOT_TOKEN"] /\ c.texts["TELEGRAM_CHAT_ID"])
    <2>1. SetupNotifications(c) = <<discord>>
      BY <1>4, <1>a, <1>b DEF SetupNotifications, WithTelegram, on
    <2> QED
      BY <1>1, <1>4, <2>1 DEF Names, on, Channels
  <1>5. CASE c.texts["DISCORD_WEBHOOK_URL"]
             /\ c.texts["TELEGRAM_BOT_TOKEN"] /\ c.texts["TELEGRAM_CHAT_ID"]
    <2>1. SetupNotifications(c) = <<telegram, discord>>
      BY <1>5, <1>a, <1>b DEF SetupNotifications, WithTelegram, on
    <2> QED
      BY <1>1, <1>5, <2>1 DEF Names, on, Channels
  <1> QED
    BY <1>2, <1>3, <1>4, <1>5

\* What is still to be tried: the first one and the rest.
LEMMA TailType ==
    ASSUME NEW list \in Seq(NotifierType), list # << >>
    PROVE  /\ Head(list) \in NotifierType /\ Head(list) = list[1] /\ 1 \in DOMAIN list
           /\ Tail(list) \in Seq(NotifierType)
           /\ Names(list) = {Head(list).name} \cup Names(Tail(list))
           /\ \A i \in DOMAIN Tail(list) : i + 1 \in DOMAIN list /\ Tail(list)[i] = list[i + 1]
  <1>1. /\ Head(list) \in NotifierType /\ Head(list) = list[1] /\ 1 \in DOMAIN list
        /\ Tail(list) \in Seq(NotifierType)
    OBVIOUS
  <1>2. \A i \in DOMAIN Tail(list) : i + 1 \in DOMAIN list /\ Tail(list)[i] = list[i + 1]
    OBVIOUS
  <1>3. \A i \in DOMAIN list : i = 1 \/ (i - 1 \in DOMAIN Tail(list) /\ list[i] = Tail(list)[i - 1])
    OBVIOUS
  <1>4. Names(list) = {Head(list).name} \cup Names(Tail(list))
    <2>1. ASSUME NEW x \in Names(list) PROVE x \in {Head(list).name} \cup Names(Tail(list))
      BY <1>1, <1>3, ZenonT(60) DEF Names
    <2>2. ASSUME NEW x \in {Head(list).name} \cup Names(Tail(list)) PROVE x \in Names(list)
      BY <1>1, <1>2 DEF Names
    <2> QED
      BY <2>1, <2>2
  <1> QED
    BY <1>1, <1>2, <1>4

----------------------------------------------------------------------------
(* The steps. *)

\* A process whose part of the state does not change is as good as it was.
LEMMA SameProcess ==
    ASSUME NEW p \in Processes, SetupOK(p), NoticeOK(p),
           phase'[p] = phase[p], environ'[p] = environ[p], config'[p] = config[p],
           notifiers'[p] = notifiers[p], worker'[p] = worker[p], call'[p] = call[p]
    PROVE  SetupOK(p)' /\ NoticeOK(p)'
  <1>1. SetupOK(p)'
    BY DEF SetupOK
  <1>2. NoticeTried(p)' = NoticeTried(p)
    BY DEF NoticeTried
  <1>3. CallOK(p, call[p])' <=> CallOK(p, call[p])
    BY <1>2 DEF CallOK
  <1>4. NoticeOK(p)'
    BY <1>3 DEF NoticeOK
  <1> QED
    BY <1>1, <1>4

\* A step of one process.
LEMMA OneProcess ==
    ASSUME Inv, NEW p \in Processes, TypeInv', ProcessInv(p)',
           lease' = lease,
           \A q \in Processes \ {p} :
              /\ phase'[q] = phase[q] /\ environ'[q] = environ[q] /\ config'[q] = config[q]
              /\ notifiers'[q] = notifiers[q] /\ worker'[q] = worker[q] /\ call'[q] = call[q]
    PROVE  Inv'
  <1>1. ASSUME NEW q \in Processes \ {p} PROVE ProcessInv(q)'
    <2>1. SetupOK(q)' /\ NoticeOK(q)'
      BY SameProcess DEF Inv, ProcessInv
    <2>2. LeaseOK(q)'
      BY DEF Inv, ProcessInv, LeaseOK
    <2> QED
      BY <2>1, <2>2 DEF ProcessInv
  <1> QED
    BY <1>1 DEF Inv

\* What an active process would send to.
LEMMA ChannelsNamed ==
    ASSUME Inv, NEW p \in Processes, phase[p] \in {"waiting", "active"}
    PROVE  /\ config[p] \in ConfigType /\ Envs[environ[p]] \in EnvType
           /\ config[p] = Load(Envs[environ[p]])
           /\ notifiers[p] \in Seq(NotifierType)
           /\ Names(notifiers[p]) = NoticeTried(p)
           /\ \A i \in DOMAIN notifiers[p] :
                 notifiers[p][i].enabled = config[p].flags["NOTIFICATION_ENABLED"]
  <1>1. /\ environ[p] \in DOMAIN Envs /\ config[p] = Load(Envs[environ[p]])
        /\ notifiers[p] = SetupNotifications(config[p])
    BY DEF Inv, ProcessInv, SetupOK
  <1>2. Envs[environ[p]] \in EnvType
    BY <1>1, ManagerAssumption
  <1>3. config[p] \in ConfigType /\ config[p].texts = Envs[environ[p]].texts
    BY <1>1, <1>2, LoadType
  <1>4. \A c \in Channels : c \in Names(notifiers[p]) <=> c \in NoticeTried(p)
    <2>1. "telegram" \in Names(notifiers[p]) <=>
             config[p].texts["TELEGRAM_BOT_TOKEN"] /\ config[p].texts["TELEGRAM_CHAT_ID"]
      BY <1>1, <1>3, NotifiersType
    <2>2. "discord" \in Names(notifiers[p]) <=> config[p].texts["DISCORD_WEBHOOK_URL"]
      BY <1>1, <1>3, NotifiersType
    <2> QED
      BY <1>3, <2>1, <2>2 DEF NoticeTried, CredentialsFor, Channels
  <1>5. Names(notifiers[p]) \subseteq Channels
    BY <1>1, <1>3, NotifiersType
  <1>6. Names(notifiers[p]) = NoticeTried(p)
    BY <1>4, <1>5 DEF NoticeTried
  <1> QED
    BY <1>1, <1>2, <1>3, <1>6, NotifiersType

\* No call is well formed, and so is one that begins.
LEMMA CallTypes ==
    /\ NoCall \in CallType
    /\ \A list \in Seq(NotifierType) : Begin(list) \in CallType
  <1>1. << >> \in Seq(NotifierType)
    OBVIOUS
  <1> QED
    BY <1>1 DEF NoCall, Begin, CallType

\* No process runs at first.
LEMMA InitInv == Init => Inv
  <1> SUFFICES ASSUME Init PROVE Inv
    OBVIOUS
  <1>1. << >> \in Seq(NotifierType)
    OBVIOUS
  <1>2. TypeInv
    BY <1>1, CallTypes DEF Init, TypeInv
  <1>3. \A p \in Processes : ProcessInv(p)
    BY DEF Init, ProcessInv, SetupOK, NoticeOK, LeaseOK
  <1> QED
    BY <1>2, <1>3 DEF Inv

\* A process starts with the environment of the moment.
LEMMA StartInv ==
    ASSUME Inv, NEW p \in Processes, Start(p)
    PROVE  Inv'
  <1>1. TypeInv'
    BY DEF Start, Inv, TypeInv, bounds, notifying
  <1>2. /\ phase[p] = "absent" /\ phase'[p] = "loading" /\ environ'[p] = env
        /\ env \in DOMAIN Envs
        /\ UNCHANGED <<config, notifiers, lease, worker, call>>
        /\ \A q \in Processes \ {p} : phase'[q] = phase[q] /\ environ'[q] = environ[q]
    BY DEF Start, Inv, TypeInv, bounds, notifying
  <1>3. ProcessInv(p)'
    BY <1>2 DEF Inv, ProcessInv, SetupOK, NoticeOK, LeaseOK
  <1> QED
    BY <1>1, <1>2, <1>3, OneProcess

\* A process that is gone leaves nothing but its lease.
LEMMA ExitInv ==
    ASSUME Inv, NEW p \in Processes, Exit(p), UNCHANGED <<env, lease, channel>>
    PROVE  Inv'
  <1>0. << >> \in Seq(NotifierType)
    OBVIOUS
  <1>1. TypeInv'
    BY <1>0, CallTypes DEF Exit, Inv, TypeInv
  <1>2. /\ phase'[p] = "absent" /\ config'[p] = None /\ notifiers'[p] = << >>
        /\ worker'[p] = [at |-> "idle", rule |-> None] /\ call'[p] = NoCall
        /\ \A q \in Processes \ {p} :
              /\ phase'[q] = phase[q] /\ environ'[q] = environ[q] /\ config'[q] = config[q]
              /\ notifiers'[q] = notifiers[q] /\ worker'[q] = worker[q] /\ call'[q] = call[q]
    BY DEF Exit, Inv, TypeInv
  <1>3. ProcessInv(p)'
    BY <1>2 DEF Inv, ProcessInv, SetupOK, NoticeOK, LeaseOK
  <1> QED
    BY <1>1, <1>2, <1>3, OneProcess

\* It loads its configuration; without elections it is active at once.
LEMMA SetUpInv ==
    ASSUME Inv, NEW p \in Processes, SetUp(p)
    PROVE  Inv'
  <1>1. CASE Exit(p)
    BY <1>1, ExitInv DEF SetUp
  <1>2. CASE /\ config' = [config EXCEPT ![p] = Load(Envs[environ[p]])]
             /\ notifiers' = [notifiers EXCEPT ![p] = SetupNotifications(config'[p])]
             /\ phase' = [phase EXCEPT ![p] =
                   IF config'[p].flags["LEADER_ELECT"] THEN "waiting" ELSE "active"]
             /\ UNCHANGED <<environ, notifying>>
    <2>1. phase[p] = "loading" /\ UNCHANGED <<env, lease, channel>>
      BY DEF SetUp
    <2>2. environ[p] \in DOMAIN Envs /\ Envs[environ[p]] \in EnvType
      BY <2>1, ManagerAssumption DEF Inv, ProcessInv, SetupOK
    <2>3. Load(Envs[environ[p]]) \in ConfigType
      BY <2>2, LoadType
    <2>4. config'[p] = Load(Envs[environ[p]])
      BY <1>2 DEF Inv, TypeInv
    <2>5. SetupNotifications(config'[p]) \in Seq(NotifierType)
      BY <2>3, <2>4, NotifiersType
    <2>6. TypeInv'
      BY <1>2, <2>1, <2>3, <2>5 DEF Inv, TypeInv, notifying
    <2>7. /\ notifiers'[p] = SetupNotifications(config'[p])
          /\ phase'[p] = IF config'[p].flags["LEADER_ELECT"] THEN "waiting" ELSE "active"
          /\ UNCHANGED <<environ, worker, call>>
          /\ \A q \in Processes \ {p} :
                phase'[q] = phase[q] /\ config'[q] = config[q] /\ notifiers'[q] = notifiers[q]
      BY <1>2 DEF Inv, TypeInv, notifying
    <2>8. worker[p].at = "idle"
      BY <2>1 DEF Inv, ProcessInv, SetupOK
    <2>9. SetupOK(p)'
      BY <2>2, <2>4, <2>7, <2>8 DEF SetupOK
    <2>10. NoticeOK(p)' /\ LeaseOK(p)'
      BY <2>7, <2>8 DEF Inv, ProcessInv, NoticeOK, LeaseOK
    <2> QED
      BY <2>1, <2>6, <2>7, <2>9, <2>10, OneProcess DEF ProcessInv
  <1> QED
    BY <1>1, <1>2 DEF SetUp

\* The lease is taken when it is free, so that nobody else holds it.
LEMMA AcquireInv ==
    ASSUME Inv, NEW p \in Processes, Acquire(p)
    PROVE  Inv'
  <1>1. TypeInv'
    BY DEF Acquire, Inv, TypeInv, setup, notifying
  <1>2. /\ phase[p] = "waiting" /\ phase'[p] = "active" /\ lease = None /\ lease' = p
        /\ UNCHANGED <<environ, config, notifiers, worker, call>>
        /\ \A q \in Processes \ {p} : phase'[q] = phase[q]
    BY DEF Acquire, Inv, TypeInv, setup, notifying
  <1>3. SetupOK(p)' /\ NoticeOK(p)' /\ LeaseOK(p)'
    <2>1. SetupOK(p)' /\ LeaseOK(p)'
      BY <1>2 DEF Inv, ProcessInv, SetupOK, LeaseOK
    <2>2. worker[p].at = "idle"
      BY <1>2 DEF Inv, ProcessInv, SetupOK
    <2>3. NoticeOK(p)'
      BY <1>2, <2>2 DEF Inv, ProcessInv, NoticeOK
    <2> QED
      BY <2>1, <2>3
  <1>4. ASSUME NEW q \in Processes \ {p} PROVE ProcessInv(q)'
    <2>1. SetupOK(q)' /\ NoticeOK(q)'
      BY <1>2, SameProcess DEF Inv, ProcessInv
    <2>2. LeaseOK(q)'
      BY <1>2, ManagerAssumption DEF Inv, ProcessInv, LeaseOK
    <2> QED
      BY <2>1, <2>2 DEF ProcessInv
  <1> QED
    BY <1>1, <1>3, <1>4 DEF Inv, ProcessInv

\* The lease of a process that runs the controllers with it does not expire.
LEMMA ExpireInv ==
    ASSUME Inv, Expire
    PROVE  Inv'
  <1>1. TypeInv'
    BY DEF Expire, Inv, TypeInv, setup, notifying
  <1>2. ASSUME NEW q \in Processes PROVE ProcessInv(q)'
    <2>1. SetupOK(q)' /\ NoticeOK(q)'
      BY SameProcess DEF Expire, Inv, ProcessInv, setup, notifying
    <2>2. LeaseOK(q)'
      BY DEF Expire, Inv, ProcessInv, LeaseOK, setup
    <2> QED
      BY <2>1, <2>2 DEF ProcessInv
  <1> QED
    BY <1>1, <1>2 DEF Inv

\* A notice begins: all channels are still to be tried.
LEMMA SendInv ==
    ASSUME Inv, NEW p \in Processes, phase[p] = "active", NEW kind \in Kinds,
           NEW rule \in Rules, Send(p, kind, rule),
           worker' = [worker EXCEPT ![p] = [at |-> kind, rule |-> rule]],
           UNCHANGED <<env, phase, setup, lease, channel>>
    PROVE  Inv'
  <1>1. UNCHANGED <<environ, config, notifiers>>
    BY DEF setup
  <1>2. notifiers[p] \in Seq(NotifierType)
    BY ChannelsNamed
  <1>3. TypeInv'
    BY <1>1, <1>2, CallTypes DEF Send, Inv, TypeInv
  <1>4. /\ worker'[p] = [at |-> kind, rule |-> rule]
        /\ call'[p] = IF Listed(rule, kind) THEN Begin(notifiers[p]) ELSE NoCall
        /\ \A q \in Processes \ {p} : worker'[q] = worker[q] /\ call'[q] = call[q]
    BY DEF Send, Inv, TypeInv
  <1>5. SetupOK(p)' /\ LeaseOK(p)'
    BY <1>1, <1>4 DEF Inv, ProcessInv, SetupOK, LeaseOK
  <1>6. NoticeTried(p)' = NoticeTried(p)
    BY <1>1 DEF NoticeTried
  <1>7. NoticeOK(p)'
    <2>1. kind # "idle"
      BY DEF Kinds
    <2>2. CASE Listed(rule, kind)
      <3>1. call'[p] = [todo |-> notifiers[p], reached |-> {}, confirmed |-> {}, failed |-> {}]
        BY <1>4, <2>2 DEF Begin, NoCall
      <3>2. CallOK(p, call[p])'
        BY <1>1, <1>6, <3>1, ChannelsNamed DEF CallOK
      <3> QED
        BY <1>4, <2>1, <2>2, <3>2 DEF NoticeOK
    <2>3. CASE ~Listed(rule, kind)
      BY <1>4, <2>1, <2>3 DEF NoticeOK
    <2> QED
      BY <2>2, <2>3
  <1> QED
    BY <1>1, <1>3, <1>4, <1>5, <1>7, OneProcess DEF ProcessInv

\* A trigger is met, and the failover is executed.
LEMMA WorkInv ==
    ASSUME Inv, NEW p \in Processes, Trigger(p) \/ ExecuteFailover(p)
    PROVE  Inv'
  <1>1. CASE Trigger(p)
    <2>1. PICK rule \in Rules :
             /\ worker' = [worker EXCEPT ![p] = [at |-> "start", rule |-> rule]]
             /\ Send(p, "start", rule)
      BY <1>1 DEF Trigger
    <2>2. "start" \in Kinds
      BY DEF Kinds
    <2> QED
      BY <1>1, <2>1, <2>2, SendInv DEF Trigger
  <1>2. CASE ExecuteFailover(p)
    <2>1. PICK kind \in {"failed", "complete"} :
             /\ worker' = [worker EXCEPT ![p].at = kind]
             /\ Send(p, kind, worker[p].rule)
      BY <1>2 DEF ExecuteFailover
    <2>2. phase[p] = "active" /\ worker[p].rule \in Rules
      BY <1>2 DEF ExecuteFailover, Inv, ProcessInv, SetupOK, NoticeOK
    <2>3. worker[p] \in [at : {"idle"} \cup Kinds, rule : Rules \cup {None}]
      BY DEF Inv, TypeInv
    <2>4. [worker[p] EXCEPT !.at = kind] = [at |-> kind, rule |-> worker[p].rule]
      BY <2>3
    <2>5. worker' = [worker EXCEPT ![p] = [at |-> kind, rule |-> worker[p].rule]]
      BY <2>1, <2>4
    <2>6. kind \in Kinds
      BY DEF Kinds
    <2> QED
      BY <1>2, <2>1, <2>2, <2>5, <2>6, SendInv DEF ExecuteFailover
  <1> QED
    BY <1>1, <1>2

\* The failover is over.
LEMMA ReturnInv ==
    ASSUME Inv, NEW p \in Processes, Return(p)
    PROVE  Inv'
  <1>1. TypeInv'
    BY CallTypes DEF Return, Inv, TypeInv, setup
  <1>2. /\ UNCHANGED <<phase, environ, config, notifiers, lease>>
        /\ worker'[p] = [at |-> "idle", rule |-> None] /\ call'[p] = NoCall
        /\ \A q \in Processes \ {p} : worker'[q] = worker[q] /\ call'[q] = call[q]
    BY DEF Return, Inv, TypeInv, setup
  <1>3. ProcessInv(p)'
    BY <1>2 DEF Inv, ProcessInv, SetupOK, NoticeOK, LeaseOK
  <1> QED
    BY <1>1, <1>2, <1>3, OneProcess

\* The next channel has been tried, with whatever outcome.
LEMMA TriedType ==
    ASSUME NEW p, NEW c \in CallType, CallOK(p, c), c.todo # << >>,
           NEW d, d \in CallType,
           d.todo = Tail(c.todo),
           \/ /\ ~Head(c.todo).enabled
              /\ d.reached = c.reached /\ d.confirmed = c.confirmed /\ d.failed = c.failed
           \/ /\ Head(c.todo).enabled
              /\ \/ /\ d.confirmed = c.confirmed \cup {Head(c.todo).name}
                    /\ d.failed = c.failed
                    /\ d.reached = c.reached \cup {Head(c.todo).name}
                 \/ /\ d.confirmed = c.confirmed
                    /\ d.failed = c.failed \cup {Head(c.todo).name}
                    /\ d.reached \in {c.reached, c.reached \cup {Head(c.todo).name}}
    PROVE  CallOK(p, d)
  <1> DEFINE next == Head(c.todo)
  <1>1. c.todo \in Seq(NotifierType)
    BY DEF CallType
  <1>2. Names(c.todo) = {next.name} \cup Names(d.todo)
    BY <1>1, TailType
  <1>3. next.enabled = config[p].flags["NOTIFICATION_ENABLED"]
    BY <1>1, TailType DEF CallOK
  <1>4. \A i \in DOMAIN d.todo : d.todo[i].enabled = config[p].flags["NOTIFICATION_ENABLED"]
    BY <1>1, TailType DEF CallOK
  <1> HIDE DEF next
  <1>5. d.reached \cup d.confirmed \cup d.failed \cup Names(d.todo) \subseteq NoticeTried(p)
    BY <1>2 DEF CallOK, next
  <1>6. config[p].flags["NOTIFICATION_ENABLED"] =>
           d.confirmed \cup d.failed \cup Names(d.todo) = NoticeTried(p)
    BY <1>2, <1>3 DEF CallOK, next
  <1>7. d.confirmed \subseteq d.reached
    BY DEF CallOK
  <1>8. d.reached # {} => config[p].flags["NOTIFICATION_ENABLED"]
    BY <1>3 DEF CallOK, next
  <1> QED
    BY <1>4, <1>5, <1>6, <1>7, <1>8 DEF CallOK

\* A notifier is tried or passed over.
LEMMA SendNextInv ==
    ASSUME Inv, NEW p \in Processes, SendNext(p)
    PROVE  Inv'
  <1> DEFINE c == call[p]
             next == Head(c.todo)
             rest == [c EXCEPT !.todo = Tail(@)]
  <1>1. /\ c \in CallType /\ c.todo # << >> /\ c.todo \in Seq(NotifierType)
        /\ UNCHANGED <<env, phase, environ, config, notifiers, lease, worker, channel>>
    BY DEF SendNext, setup, Inv, TypeInv, CallType
  <1>2. next \in NotifierType /\ Tail(c.todo) \in Seq(NotifierType)
    BY <1>1, TailType
  <1>3. rest \in CallType /\ rest.todo = Tail(c.todo) /\ rest.reached = c.reached
        /\ rest.confirmed = c.confirmed /\ rest.failed = c.failed
    BY <1>1, <1>2 DEF CallType
  <1> HIDE DEF rest, next
  <1>4. PICK d : /\ call' = [call EXCEPT ![p] = d]
                 /\ \/ ~next.enabled /\ d = rest
                    \/ next.enabled /\ \E outcome \in Outcomes(next.name) :
                                          d = After(rest, next.name, outcome)
    BY DEF SendNext, next, rest
  <1>5. /\ d \in CallType /\ d.todo = Tail(c.todo)
        /\ \/ /\ ~next.enabled
              /\ d.reached = c.reached /\ d.confirmed = c.confirmed /\ d.failed = c.failed
           \/ /\ next.enabled
              /\ \/ /\ d.confirmed = c.confirmed \cup {next.name} /\ d.failed = c.failed
                    /\ d.reached = c.reached \cup {next.name}
                 \/ /\ d.confirmed = c.confirmed /\ d.failed = c.failed \cup {next.name}
                    /\ d.reached \in {c.reached, c.reached \cup {next.name}}
    <2>1. CASE ~next.enabled /\ d = rest
      BY <1>3, <2>1
    <2>2. ASSUME next.enabled, NEW outcome \in Outcomes(next.name),
                 d = After(rest, next.name, outcome)
          PROVE  /\ d \in CallType /\ d.todo = Tail(c.todo)
                 /\ \/ /\ d.confirmed = c.confirmed \cup {next.name} /\ d.failed = c.failed
                       /\ d.reached = c.reached \cup {next.name}
                    \/ /\ d.confirmed = c.confirmed /\ d.failed = c.failed \cup {next.name}
                       /\ d.reached \in {c.reached, c.reached \cup {next.name}}
      <3>1. next.name \in Channels /\ channel[next.name] \in {"up", "refuses", "hangs"}
        BY <1>2 DEF NotifierType, Inv, TypeInv
      <3>2. PICK got \in BOOLEAN :
               /\ outcome = [error |-> channel[next.name] # "up", delivered |-> got]
               /\ channel[next.name] = "up" => got
        BY <2>2, <3>1 DEF Outcomes
      <3>3. outcome.error <=> channel[next.name] # "up"
        BY <3>2
      <3>4. (outcome.delivered <=> got) /\ (~outcome.error => outcome.delivered)
        BY <3>2, <3>3
      <3>5. /\ d.confirmed = IF outcome.error THEN rest.confirmed
                                               ELSE rest.confirmed \cup {next.name}
            /\ d.failed = IF outcome.error THEN rest.failed \cup {next.name} ELSE rest.failed
            /\ d.reached = IF outcome.delivered THEN rest.reached \cup {next.name}
                                                ELSE rest.reached
            /\ d.todo = rest.todo
        BY <1>3, <2>2 DEF After, CallType
      <3>6. d \in CallType
        BY <1>3, <2>2, <3>1 DEF After, CallType
      <3> QED
        BY <1>3, <3>4, <3>5, <3>6
    <2> QED
      BY <1>4, <2>1, <2>2
  <1>6. TypeInv'
    BY <1>1, <1>4, <1>5 DEF Inv, TypeInv
  <1>7. call'[p] = d /\ \A q \in Processes \ {p} : call'[q] = call[q]
    BY <1>4 DEF Inv, TypeInv
  <1>8. SetupOK(p)' /\ LeaseOK(p)'
    BY <1>1 DEF Inv, ProcessInv, SetupOK, LeaseOK
  <1>9. NoticeOK(p)'
    <2>1. c # NoCall
      BY <1>1 DEF NoCall
    <2>2. /\ worker[p].at # "idle" /\ worker[p].rule \in Rules
          /\ Listed(worker[p].rule, worker[p].at) /\ CallOK(p, c)
      BY <2>1 DEF Inv, ProcessInv, NoticeOK
    <2>3. CallOK(p, d)
      BY <1>1, <1>5, <2>2, TriedType DEF next
    <2>4. CallOK(p, call[p])'
      BY <1>1, <1>7, <2>3 DEF CallOK, NoticeTried
    <2> QED
      BY <1>1, <2>2, <2>4 DEF NoticeOK
  <1> QED
    BY <1>1, <1>6, <1>7, <1>8, <1>9, OneProcess DEF ProcessInv

\* Environments are edited and channels fail without a process noticing.
LEMMA EnvironmentInv ==
    ASSUME Inv, EditEnv \/ \E c \in Channels : ChannelChanges(c)
    PROVE  Inv'
  <1>1. TypeInv'
    <2>1. env' \in DOMAIN Envs /\ channel' \in [Channels -> {"up", "refuses", "hangs"}]
      <3>1. CASE EditEnv
        BY <3>1 DEF EditEnv, Inv, TypeInv
      <3>2. ASSUME NEW c \in Channels, ChannelChanges(c)
            PROVE  UNCHANGED env /\ channel' \in [Channels -> {"up", "refuses", "hangs"}]
        BY <3>2 DEF ChannelChanges, Inv, TypeInv
      <3> QED
        BY <3>1, <3>2 DEF Inv, TypeInv
    <2>2. UNCHANGED <<phase, environ, config, notifiers, lease, worker, call>>
      BY DEF EditEnv, ChannelChanges, setup, notifying
    <2> QED
      BY <2>1, <2>2 DEF Inv, TypeInv
  <1>2. UNCHANGED <<phase, environ, config, notifiers, lease, worker, call>>
    BY DEF EditEnv, ChannelChanges, setup, notifying
  <1>3. ASSUME NEW q \in Processes PROVE ProcessInv(q)'
    <2>1. SetupOK(q)' /\ NoticeOK(q)'
      BY <1>2, SameProcess DEF Inv, ProcessInv
    <2>2. LeaseOK(q)'
      BY <1>2 DEF Inv, ProcessInv, LeaseOK
    <2> QED
      BY <2>1, <2>2 DEF ProcessInv
  <1> QED
    BY <1>1, <1>3 DEF Inv

\* Inv is an invariant.
LEMMA AlwaysInv == Spec => []Inv
<1>1. Inv /\ [Next]_vars => Inv'
  <2> SUFFICES ASSUME Inv, [Next]_vars PROVE Inv'
    OBVIOUS
  <2>1. CASE UNCHANGED vars
    <3>1. TypeInv'
      BY <2>1 DEF vars, Inv, TypeInv
    <3>2. ASSUME NEW q \in Processes PROVE ProcessInv(q)'
      <4>1. SetupOK(q)' /\ NoticeOK(q)'
        BY <2>1, SameProcess DEF vars, Inv, ProcessInv
      <4>2. LeaseOK(q)'
        BY <2>1 DEF vars, Inv, ProcessInv, LeaseOK
      <4> QED
        BY <4>1, <4>2 DEF ProcessInv
    <3> QED
      BY <3>1, <3>2 DEF Inv
  <2>2. ASSUME NEW p \in Processes, Stop(p) PROVE Inv'
    BY <2>2, ExitInv DEF Stop
  <2> QED
    BY <2>1, <2>2, StartInv, SetUpInv, AcquireInv, ExpireInv, WorkInv, ReturnInv,
       SendNextInv, EnvironmentInv
       DEF Next, Work
<1> QED
  BY <1>1, InitInv, PTL DEF Spec

----------------------------------------------------------------------------
(* The theorems. *)

\* The variables keep their types, whatever processes start, stop and load.
THEOREM TypeCorrect == Spec => []TypeOK
<1>1. Inv => TypeOK
  <2> SUFFICES ASSUME Inv PROVE TypeOK
    OBVIOUS
  <2>1. ASSUME NEW p \in Processes
        PROVE  /\ notifiers[p] \in Seq(NotifierType)
               /\ IsInjective([i \in DOMAIN notifiers[p] |-> notifiers[p][i].name])
               /\ config[p] # None <=> phase[p] \in {"waiting", "active"}
               /\ config[p] # None => config[p].flags \in [Booleans -> BOOLEAN]
               /\ call[p] \in CallType
               /\ worker[p].at \in {"idle"} \cup Kinds
               /\ phase[p] # "active" => worker[p].at = "idle" /\ call[p] = NoCall
    <3>1. notifiers[p] \in Seq(NotifierType) /\ call[p] \in CallType
          /\ worker[p].at \in {"idle"} \cup Kinds
      BY DEF Inv, TypeInv
    <3>2. phase[p] # "active" => worker[p].at = "idle" /\ call[p] = NoCall
      BY DEF Inv, ProcessInv, SetupOK, NoticeOK
    <3>3. CASE phase[p] \in {"waiting", "active"}
      <4>1. config[p] \in ConfigType /\ notifiers[p] = SetupNotifications(config[p])
        BY <3>3, ChannelsNamed DEF Inv, ProcessInv, SetupOK
      <4>2. \A i, j \in DOMAIN notifiers[p] : notifiers[p][i].name = notifiers[p][j].name => i = j
        BY <4>1, NotifiersType
      <4>3. IsInjective([i \in DOMAIN notifiers[p] |-> notifiers[p][i].name])
        BY <4>2 DEF IsInjective
      <4>4. config[p] # None /\ config[p].flags \in [Booleans -> BOOLEAN]
        BY <4>1, ManagerAssumption DEF ConfigType
      <4> QED
        BY <3>1, <3>2, <3>3, <4>3, <4>4
    <3>4. CASE phase[p] \notin {"waiting", "active"}
      <4>1. config[p] = None /\ notifiers[p] = << >>
        BY <3>4 DEF Inv, ProcessInv, SetupOK
      <4>2. IsInjective([i \in DOMAIN notifiers[p] |-> notifiers[p][i].name])
        BY <4>1 DEF IsInjective
      <4> QED
        BY <3>1, <3>2, <3>4, <4>1, <4>2
    <3> QED
      BY <3>3, <3>4
  <2> QED
    BY <2>1 DEF TypeOK, Inv, TypeInv
<1> QED
  BY <1>1, AlwaysInv, PTL

\* Two processes run the controllers at the same time only when the environment of one
\* turns elections off in so many words.
THEOREM OneLeader == Spec => []OneActive
<1>1. Inv => OneActive
  <2> SUFFICES ASSUME Inv, NEW p \in Processes, NEW q \in Processes, p # q,
                      phase[p] = "active", phase[q] = "active"
               PROVE  \E r \in {p, q} : Off(Envs[environ[r]].flags["LEADER_ELECT"])
    BY DEF OneActive
  <2>1. PICK r \in {p, q} : ~config[r].flags["LEADER_ELECT"]
    BY DEF Inv, ProcessInv, LeaseOK
  <2>2. r \in Processes /\ phase[r] = "active"
    OBVIOUS
  <2>3. Envs[environ[r]] \in EnvType /\ config[r] = Load(Envs[environ[r]])
    BY <2>2, ChannelsNamed
  <2>4. "LEADER_ELECT" \in Booleans
    BY DEF Booleans
  <2>5. Off(Envs[environ[r]].flags["LEADER_ELECT"])
    BY <2>1, <2>3, <2>4, LoadType
  <2> QED
    BY <2>5
<1> QED
  BY <1>1, AlwaysInv, PTL

\* A message goes out only over channels the environment names in full, only when it does
\* not turn notices off, and only when the policy's rule lists notices of this kind.
THEOREM OnlyListedNotices == Spec => []NoticesAsListed
<1>1. Inv => NoticesAsListed
  <2> SUFFICES ASSUME Inv, NEW p \in Processes, NEW c \in call[p].reached
               PROVE  /\ CredentialsFor(c, Envs[environ[p]])
                      /\ ~Off(Envs[environ[p]].flags["NOTIFICATION_ENABLED"])
                      /\ worker[p].at \in worker[p].rule.on
                      /\ worker[p].at = "complete" => worker[p].rule.severity <= 1
    BY DEF NoticesAsListed
  <2>1. call[p] # NoCall
    BY DEF NoCall
  <2>2. /\ worker[p].at # "idle" /\ worker[p].rule \in Rules
        /\ Listed(worker[p].rule, worker[p].at) /\ CallOK(p, call[p])
    BY <2>1 DEF Inv, ProcessInv, NoticeOK
  <2>3. phase[p] = "active"
    BY <2>2 DEF Inv, ProcessInv, SetupOK
  <2>4. c \in NoticeTried(p) /\ config[p].flags["NOTIFICATION_ENABLED"]
    BY <2>2 DEF CallOK
  <2>5. "NOTIFICATION_ENABLED" \in Booleans
    BY DEF Booleans
  <2>6. ~Off(Envs[environ[p]].flags["NOTIFICATION_ENABLED"])
    BY <2>3, <2>4, <2>5, ChannelsNamed, LoadType
  <2>7. worker[p].rule.severity \in 0 .. 3
    BY <2>2, ManagerAssumption DEF RuleType
  <2>8. worker[p].at = "complete" => worker[p].rule.severity <= 1
    BY <2>2, <2>7 DEF Listed, Severity
  <2> QED
    BY <2>2, <2>4, <2>6, <2>8 DEF NoticeTried, Listed
<1> QED
  BY <1>1, AlwaysInv, PTL

\* A listed notice ends with every channel the environment names tried, whatever became
\* of the others; it is reported as failed exactly if none confirmed it.
THEOREM AllChannelsTried == Spec => []EveryChannelTried
<1>1. Inv => EveryChannelTried
  <2> SUFFICES ASSUME Inv, NEW p \in Processes,
                      worker[p].at \in Kinds, call[p].todo = << >>,
                      Listed(worker[p].rule, worker[p].at),
                      config[p].flags["NOTIFICATION_ENABLED"]
               PROVE  /\ call[p].confirmed \cup call[p].failed = NoticeTried(p)
                      /\ call[p].confirmed \subseteq call[p].reached
                      /\ Fails(call[p]) <=> NoticeTried(p) # {} /\ call[p].confirmed = {}
    BY DEF EveryChannelTried
  <2>1. CallOK(p, call[p])
    BY DEF Inv, ProcessInv, NoticeOK, Kinds
  <2>2. Names(call[p].todo) = {}
    BY DEF Names
  <2> QED
    BY <2>1, <2>2 DEF CallOK, Fails
<1> QED
  BY <1>1, AlwaysInv, PTL

=================================================================================
