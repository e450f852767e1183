-------------------------------- MODULE Manager --------------------------------
(***************************************************************************)
(* The life of a manager process (cmd/manager/main.go) and its             *)
(* notifications (pkg/notification).  A process loads its configuration,   *)
(* registers the notifiers that are configured, waits to be elected leader *)
(* unless elections are off, and then runs the controllers.  What they do  *)
(* is modelled elsewhere; here the failover controller matters because its *)
(* only worker notifies in the middle of a reconcile: before the failover  *)
(* and after it, one channel after the other.                              *)
(*                                                                         *)
(* The deployment asks for one process, but a roll-out or a lost node runs *)
(* two for a while; users edit the environment new processes get; channels *)
(* fail, or answer too late.  The lease is client-go's: a leader that      *)
(* cannot renew it in time stops before it expires.                        *)
(***************************************************************************)
EXTENDS Config, Integers, Sequences, Functions

CONSTANTS
    Processes,
    None,
    Envs,       \* environments users may deploy, by name
    Rules,      \* notification rules of the policies, see RuleType
    MaxEdits,   \* bound: edits of the environment
    MaxStops,   \* bound: processes that stop or crash
    MaxOutages, \* bound: changes of a channel
    MaxActs     \* bound: all of these together

Channels == {"telegram", "discord"}
Kinds == {"start", "failed", "complete"}

\* A NotificationRule; nothing reads its own switch, enabled.
RuleType == [enabled : BOOLEAN, on : SUBSET Kinds, severity : 0 .. 3]
ConfigType == [flags : [Booleans -> BOOLEAN], texts : [Texts -> BOOLEAN]]

ASSUME ManagerAssumption ==
    /\ None \notin Processes \cup ConfigType
    /\ \A e \in DOMAIN Envs : Envs[e] \in EnvType
    /\ None \notin DOMAIN Envs
    /\ Rules \subseteq RuleType
    /\ MaxEdits \in Nat /\ MaxStops \in Nat /\ MaxOutages \in Nat
    /\ MaxActs \in Nat

VARIABLES
    env,       \* the environment the deployment gives to new processes
    phase,     \* phase[p]: absent, loading, waiting for the lease, or active
    environ,   \* environ[p]: the environment p was started with
    config,    \* config[p]: what it loaded of it
    notifiers, \* notifiers[p]: the registered notifiers, in order
    lease,     \* the process holding the lease
    worker,    \* worker[p]: where the failover worker of p is
    call,      \* call[p]: the Notify call it is in
    channel,   \* channel[c]: whether c is up, refuses, or hangs
    edits, stops, outages

bounds == <<edits, stops, outages>>
setup == <<environ, config, notifiers>>
notifying == <<worker, call>>
vars == <<env, phase, environ, config, notifiers, lease, worker, call, channel,
          edits, stops, outages>>

\* The environment may act once more.
MayAct == edits + stops + outages < MaxActs

----------------------------------------------------------------------------
(* The notifiers and their manager. *)

Notifier(name, enabled) == [name |-> name, enabled |-> enabled]
Names(list) == {list[i].name : i \in DOMAIN list}

\* RegisterNotifier: a second notifier of the same name is refused.
RegisterNotifier(list, notifier) ==
    IF notifier.name \in Names(list) THEN list ELSE Append(list, notifier)

\* setupNotificationManager: Telegram needs a token and a chat, Discord a URL.
WithTelegram(c) ==
    IF c.texts["TELEGRAM_BOT_TOKEN"] /\ c.texts["TELEGRAM_CHAT_ID"]
      THEN RegisterNotifier(<< >>, Notifier("telegram", c.flags["NOTIFICATION_ENABLED"]))
      ELSE << >>
SetupNotifications(c) ==
    IF c.texts["DISCORD_WEBHOOK_URL"]
      THEN RegisterNotifier(WithTelegram(c),
                            Notifier("discord", c.flags["NOTIFICATION_ENABLED"]))
      ELSE WithTelegram(c)

\* sendNotification: the rule must list this kind, and not ask for more severe ones.
Severity(kind) == IF kind = "complete" THEN 1 ELSE 3
Listed(rule, kind) == kind \in rule.on /\ Severity(kind) >= rule.severity

NoCall == [todo |-> << >>, reached |-> {}, confirmed |-> {}, failed |-> {}]
Begin(list) == [NoCall EXCEPT !.todo = list]

\* NotifyWithFilter returns an error when something failed and nothing was sent.
Fails(c) == c.confirmed = {} /\ c.failed # {}

----------------------------------------------------------------------------
Init ==
    /\ env \in DOMAIN Envs
    /\ phase = [p \in Processes |-> "absent"]
    /\ environ = [p \in Processes |-> None] /\ config = [p \in Processes |-> None]
    /\ notifiers = [p \in Processes |-> << >>]
    /\ lease = None
    /\ worker = [p \in Processes |-> [at |-> "idle", rule |-> None]]
    /\ call = [p \in Processes |-> NoCall]
    /\ channel = [c \in Channels |-> "up"]
    /\ edits = 0 /\ stops = 0 /\ outages = 0

\* The process is gone; the kubelet or the deployment will start another.
Exit(p) ==
    /\ phase' = [phase EXCEPT ![p] = "absent"]
    /\ environ' = [environ EXCEPT ![p] = None]
    /\ config' = [config EXCEPT ![p] = None]
    /\ notifiers' = [notifiers EXCEPT ![p] = << >>]
    /\ worker' = [worker EXCEPT ![p] = [at |-> "idle", rule |-> None]]
    /\ call' = [call EXCEPT ![p] = NoCall]

Start(p) ==
    /\ phase[p] = "absent"
    /\ phase' = [phase EXCEPT ![p] = "loading"]
    /\ environ' = [environ EXCEPT ![p] = env]
    /\ UNCHANGED <<env, config, notifiers, lease, notifying, channel, bounds>>

\* The manager can listen where the environment tells it to: for probes, or NewManager
\* fails; for metrics, or mgr.Start does, before it asks for the lease.
Listens(e) == \A v \in Addresses : e.addresses[v]

\* Mutant: the error is logged, and main goes on.
SetUpAnyway(p) ==
    /\ phase[p] = "loading"
    /\ \/ /\ ~Loads(Envs[environ[p]])
          /\ phase' = [phase EXCEPT ![p] = "waiting"]
          /\ UNCHANGED <<setup, notifying>>
       \/ /\ Loads(Envs[environ[p]])
          /\ config' = [config EXCEPT ![p] = Load(Envs[environ[p]])]
          /\ notifiers' = [notifiers EXCEPT ![p] = SetupNotifications(config'[p])]
          /\ phase' = [phase EXCEPT ![p] = "waiting"]
          /\ UNCHANGED <<environ, notifying>>
    /\ UNCHANGED <<env, lease, channel, bounds>>

\* main up to the election in mgr.Start: a configuration that does not load, or an
\* address that cannot be used, ends the process.  (Of main's other os.Exit calls some
\* answer to an API server out of reach, which Stop may do to a process that is loading;
\* the others to errors of the program itself, such as a controller of the same name.)
SetUp(p) ==
    /\ phase[p] = "loading"
    /\ \/ /\ ~(Loads(Envs[environ[p]]) /\ Listens(Envs[environ[p]]))
          /\ Exit(p)
       \/ /\ Loads(Envs[environ[p]]) /\ Listens(Envs[environ[p]])
          /\ config' = [config EXCEPT ![p] = Load(Envs[environ[p]])]
          /\ notifiers' = [notifiers EXCEPT ![p] = SetupNotifications(config'[p])]
          /\ phase' = [phase EXCEPT ![p] =
                IF config'[p].flags["LEADER_ELECT"] THEN "waiting" ELSE "active"]
          /\ UNCHANGED <<environ, notifying>>
    /\ UNCHANGED <<env, lease, channel, bounds>>

\* mgr.Start with LeaderElection: the controllers start once the lease is held.
Acquire(p) ==
    /\ phase[p] = "waiting"
    /\ lease = None
    /\ lease' = p
    /\ phase' = [phase EXCEPT ![p] = "active"]
    /\ UNCHANGED <<env, setup, notifying, channel, bounds>>

\* The lease of a process that is gone, and so did not renew it, expires.
Expire ==
    /\ lease # None
    /\ ~(phase[lease] = "active" /\ config[lease].flags["LEADER_ELECT"])
    /\ lease' = None
    /\ UNCHANGED <<env, phase, setup, notifying, channel, bounds>>

\* A process crashes, is stopped, or exits: it lost its lease, or a step of main failed.
Stop(p) ==
    /\ phase[p] # "absent"
    /\ MayAct /\ stops < MaxStops
    /\ stops' = stops + 1
    /\ Exit(p)
    /\ UNCHANGED <<env, lease, channel, edits, outages>>

----------------------------------------------------------------------------
(* The failover worker, with all that is not about notices left out.  *)

\* sendNotification at the given point of the reconcile, when the rule lists it.
Send(p, kind, rule) ==
    call' = [call EXCEPT ![p] = IF Listed(rule, kind) THEN Begin(notifiers[p]) ELSE NoCall]

\* A trigger is met.
Trigger(p) ==
    /\ phase[p] = "active" /\ worker[p].at = "idle"
    /\ \E rule \in Rules :
          /\ worker' = [worker EXCEPT ![p] = [at |-> "start", rule |-> rule]]
          /\ Send(p, "start", rule)
    /\ UNCHANGED <<env, phase, setup, lease, channel, bounds>>

\* Once the notice is out, or has failed, the failover is executed.
ExecuteFailover(p) ==
    /\ worker[p].at = "start"
    /\ call[p].todo = << >>
    /\ \E kind \in {"failed", "complete"} :
          /\ worker' = [worker EXCEPT ![p].at = kind]
          /\ Send(p, kind, worker[p].rule)
    /\ UNCHANGED <<env, phase, setup, lease, channel, bounds>>

Return(p) ==
    /\ worker[p].at \in {"failed", "complete"}
    /\ call[p].todo = << >>
    /\ worker' = [worker EXCEPT ![p] = [at |-> "idle", rule |-> None]]
    /\ call' = [call EXCEPT ![p] = NoCall]
    /\ UNCHANGED <<env, phase, setup, lease, channel, bounds>>

\* Send of either notifier over its channel: an answer that is no success, or none
\* within ten seconds, is an error; without an answer the message may have arrived.
Outcomes(c) ==
    {[error |-> channel[c] # "up", delivered |-> got] :
       got \in CASE channel[c] = "up" -> {TRUE}
                 [] channel[c] = "refuses" -> {FALSE}
                 [] channel[c] = "hangs" -> BOOLEAN}
After(c, name, outcome) ==
    [c EXCEPT !.confirmed = IF outcome.error THEN @ ELSE @ \cup {name},
              !.failed = IF outcome.error THEN @ \cup {name} ELSE @,
              !.reached = IF outcome.delivered THEN @ \cup {name} ELSE @]

\* Mutants: the first failure ends the call; there is no timeout.
SendUntilFailure(p) ==
    /\ call[p].todo # << >>
    /\ LET next == Head(call[p].todo)
           rest == [call[p] EXCEPT !.todo = Tail(@)]
       IN  \/ ~next.enabled /\ call' = [call EXCEPT ![p] = rest]
           \/ /\ next.enabled
              /\ \E outcome \in Outcomes(next.name) :
                    call' = [call EXCEPT ![p] =
                       [After(rest, next.name, outcome)
                          EXCEPT !.todo = IF outcome.error THEN << >> ELSE @]]
    /\ UNCHANGED <<env, phase, setup, lease, worker, channel, bounds>>
SendPatiently(p) ==
    /\ call[p].todo # << >>
    /\ LET next == Head(call[p].todo)
           rest == [call[p] EXCEPT !.todo = Tail(@)]
       IN  \/ ~next.enabled /\ call' = [call EXCEPT ![p] = rest]
           \/ /\ next.enabled /\ channel[next.name] # "hangs"
              /\ \E outcome \in Outcomes(next.name) :
                    call' = [call EXCEPT ![p] = After(rest, next.name, outcome)]
    /\ UNCHANGED <<env, phase, setup, lease, worker, channel, bounds>>

\* NotifyWithFilter, the next notifier: one that is not enabled is passed over, and
\* an error does not keep the others from being tried.
SendNext(p) ==
    /\ call[p].todo # << >>
    /\ LET next == Head(call[p].todo)
           rest == [call[p] EXCEPT !.todo = Tail(@)]
       IN  \/ ~next.enabled /\ call' = [call EXCEPT ![p] = rest]
           \/ /\ next.enabled
              /\ \E outcome \in Outcomes(next.name) :
                    call' = [call EXCEPT ![p] = After(rest, next.name, outcome)]
    /\ UNCHANGED <<env, phase, setup, lease, worker, channel, bounds>>

----------------------------------------------------------------------------
(* The environment. *)

EditEnv ==
    /\ MayAct /\ edits < MaxEdits
    /\ edits' = edits + 1
    /\ env' \in DOMAIN Envs \ {env}
    /\ UNCHANGED <<phase, setup, lease, notifying, channel, stops, outages>>

ChannelChanges(c) ==
    /\ MayAct /\ outages < MaxOutages
    /\ outages' = outages + 1
    /\ \E s \in {"up", "refuses", "hangs"} \ {channel[c]} : channel' = [channel EXCEPT ![c] = s]
    /\ UNCHANGED <<env, phase, setup, lease, notifying, edits, stops>>

Work(p) == ExecuteFailover(p) \/ Return(p) \/ SendNext(p)

Next ==
    \/ \E p \in Processes :
          Start(p) \/ SetUp(p) \/ Acquire(p) \/ Stop(p) \/ Trigger(p) \/ Work(p)
    \/ Expire
    \/ EditEnv
    \/ \E c \in Channels : ChannelChanges(c)

Spec == Init /\ [][Next]_vars

\* The deployment starts a process when there is none, a process that runs goes
\* on, leases expire.  A Send ends after ten seconds at the latest.
Fairness ==
    /\ WF_vars((\A p \in Processes : phase[p] = "absent") /\ \E p \in Processes : Start(p))
    /\ \A p \in Processes : WF_vars(SetUp(p)) /\ WF_vars(Acquire(p)) /\ WF_vars(Work(p))
    /\ WF_vars(Expire)

FairSpec == Spec /\ Fairness

----------------------------------------------------------------------------
(* Correctness. *)

NotifierType == [name : Channels, enabled : BOOLEAN]
CallType == [todo : Seq(NotifierType), reached : SUBSET Channels,
             confirmed : SUBSET Channels, failed : SUBSET Channels]

\* The variables keep their types; names of notifiers are unique, and only an
\* active process is in a failover.
TypeOK ==
    /\ env \in DOMAIN Envs
    /\ phase \in [Processes -> {"absent", "loading", "waiting", "active"}]
    /\ environ \in [Processes -> DOMAIN Envs \cup {None}]
    /\ lease \in Processes \cup {None}
    /\ channel \in [Channels -> {"up", "refuses", "hangs"}]
    /\ \A p \in Processes :
          /\ notifiers[p] \in Seq(NotifierType) /\ IsInjective([i \in DOMAIN notifiers[p] |-> notifiers[p][i].name])
          /\ config[p] # None <=> phase[p] \in {"waiting", "active"}
          /\ config[p] # None => config[p].flags \in [Booleans -> BOOLEAN]
          /\ call[p] \in CallType
          /\ worker[p].at \in {"idle"} \cup Kinds
          /\ phase[p] # "active" => worker[p].at = "idle" /\ call[p] = NoCall

\* Two processes run the controllers at the same time only when one of them was
\* started with an environment that turns elections off in so many words: not
\* when the variable is missing or cannot be understood, however processes stop,
\* start over and take over while the environment is edited.
Off(word) == word.letters \in {"false", "f", "no", "0"}
OneActive ==
    \A p, q \in Processes :
       p # q /\ phase[p] = "active" /\ phase[q] = "active" =>
          \E r \in {p, q} : Off(Envs[environ[r]].flags["LEADER_ELECT"])

\* A message is delivered only when the environment the sender was started with names the
\* channel in full and does not turn notifications off in any spelling, and when the rule
\* of the policy that fails over lists notices of this kind and asks for no higher
\* severity.  (It may be delivered though the rule's enabled is off.)
CredentialsFor(c, e) ==
    IF c = "telegram" THEN e.texts["TELEGRAM_BOT_TOKEN"] /\ e.texts["TELEGRAM_CHAT_ID"]
                      ELSE e.texts["DISCORD_WEBHOOK_URL"]
NoticesAsListed ==
    \A p \in Processes : \A c \in call[p].reached :
       /\ CredentialsFor(c, Envs[environ[p]])
       /\ ~Off(Envs[environ[p]].flags["NOTIFICATION_ENABLED"])
       /\ worker[p].at \in worker[p].rule.on
       /\ worker[p].at = "complete" => worker[p].rule.severity <= 1

\* When a notice the rule lists is over, every channel the environment names was tried,
\* whatever became of the others, the ones that were up have it, and an error is
\* reported exactly if none confirmed it.
NoticeTried(p) == {c \in Channels : CredentialsFor(c, Envs[environ[p]])}
EveryChannelTried ==
    \A p \in Processes :
       LET c == call[p]
       IN  /\ worker[p].at \in Kinds /\ c.todo = << >>
           /\ Listed(worker[p].rule, worker[p].at)
           /\ config[p].flags["NOTIFICATION_ENABLED"]
           => /\ c.confirmed \cup c.failed = NoticeTried(p)
              /\ c.confirmed \subseteq c.reached
              /\ Fails(c) <=> NoticeTried(p) # {} /\ c.confirmed = {}

\* Channels that refuse or hang hold a failover up, but not for ever: the worker
\* goes on to execute it, unless its process is stopped.
FailoverNotHeldUp ==
    \A p \in Processes : worker[p].at = "start" ~> worker[p].at # "start"

\* Once the numbers of the environment are numbers for good, and its addresses can be
\* used, some process eventually runs the controllers for good, whatever words the
\* switches hold, whoever held the lease and however many processes failed before.
EventuallyActive ==
    <>[](/\ \A v \in Numbers : Envs[env].numbers[v] # "malformed"
         /\ Listens(Envs[env])) =>
       <>[](\E p \in Processes : phase[p] = "active")

===============================================================================
