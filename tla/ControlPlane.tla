----------------------------- MODULE ControlPlane -----------------------------
(***************************************************************************)
(* The control-plane script (deployments/examples/control-plane-           *)
(* failover.sh).  Run by hand from a machine that can reach the hosts over *)
(* ssh, "failover" makes a standby a k3s server when the primary is down,  *)
(* "failback" makes the primary a server again and the standby an agent.   *)
(* Every ssh call may fail, and under set -e a failure outside a condition *)
(* ends the script where it is; nothing is undone.                         *)
(*                                                                         *)
(* Of a host the model keeps whether it is up, whether ssh gets through,   *)
(* its two systemd units, which of them start at boot, and the cluster its *)
(* datastore belongs to.  k3s and its installer are external: a server     *)
(* with a datastore starts with it, one without joins the server it is     *)
(* pointed to, which must be active, or founds a cluster; systemd keeps    *)
(* trying to start one that fails.  That a joined datastore needs a quorum *)
(* is left out.                                                            *)
(***************************************************************************)
EXTENDS Integers, Sequences

CONSTANTS
    Primary, Standbys,  \* Standbys in the order of preference
    None,
    MaxEvents,          \* bound: hosts, links and servers that fail or recover
    MaxFaults           \* bound: ssh calls and installers that fail on their own

Backups == {Standbys[i] : i \in DOMAIN Standbys}
Hosts == {Primary} \cup Backups

ASSUME ControlPlaneAssumption ==
    /\ Standbys \in Seq(Backups)
    /\ Primary \notin Backups /\ None \notin Hosts
    /\ MaxEvents \in Nat /\ MaxFaults \in Nat

VARIABLES
    up, link,   \* hosts that are up; hosts the script's machine can reach
    server,     \* server[h]: the k3s unit: absent, stopped, trying to start, or active
    joins,      \* joins[h]: the server that unit joins when it has no data, if any
    agent,      \* agent[h]: the k3s-agent unit: absent, stopped or active
    boot,       \* the units, <<host, "server" or "agent">>, that start at boot
    data,       \* data[h]: the host that founded the cluster h has the data of
    pc, mode,   \* where the script is, and its argument
    probe,      \* hosts select_standby_host, or the search for a server, still tries
    chosen,     \* the standby to promote, or the active one to demote
    token,      \* whether K3S_TOKEN is known
    script,     \* the commands still to be run on the hosts
    blind,      \* history: some run could not reach the primary and let a standby
                \* found a cluster
    crashed,    \* history: the primary's server failed during this run
    events, faults

hosts == <<up, link, server, joins, agent, boot, data>>
run == <<pc, mode, probe, chosen, token, script>>
bounds == <<events, faults>>
vars == <<up, link, server, joins, agent, boot, data, pc, mode, probe, chosen, token, script,
          blind, crashed, events, faults>>

Active(h) == h \in up /\ server[h] = "active"

\* ssh_run gets through to h; or it does not.
Ssh(h) == h \in up \cap link /\ UNCHANGED faults
SshFails(h) ==
    IF h \in up \cap link THEN faults < MaxFaults /\ faults' = faults + 1
                          ELSE UNCHANGED faults

ServerCommands == {"stop-server", "disable-server", "uninstall-server", "install-server",
                   "restart-server"}
AgentCommands == {"stop-agent", "disable-agent", "install-agent", "restart-agent"}
Command(h, what, from) == [host |-> h, what |-> what, from |-> from]

\* promote_host_to_server and demote_host_to_agent
Promote(h, from) ==
    <<Command(h, "stop-agent", None), Command(h, "disable-agent", None),
      Command(h, "install-server", from), Command(h, "restart-server", from)>>
Demote(h, from) ==
    <<Command(h, "stop-server", None), Command(h, "disable-server", None),
      Command(h, "uninstall-server", None), Command(h, "install-agent", from),
      Command(h, "restart-agent", None)>>

\* Mutant: the standby is demoted first.
DemoteFirst(h) ==
    Demote(h, Primary) \o <<Command(Primary, "get-ip", None)>> \o Promote(Primary, h)

\* A failback, with the get_ip between its two halves.
Failback(h) ==
    Promote(Primary, h) \o <<Command(Primary, "get-ip", None)>> \o Demote(h, Primary)

----------------------------------------------------------------------------
Init ==
    /\ up = Hosts /\ link = Hosts
    /\ server = [h \in Hosts |-> IF h = Primary THEN "active" ELSE "absent"]
    /\ joins = [h \in Hosts |-> None]
    /\ agent = [h \in Hosts |-> IF h = Primary THEN "absent" ELSE "active"]
    /\ boot = {<<Primary, "server">>} \cup Backups \X {"agent"}
    /\ data = [h \in Hosts |-> IF h = Primary THEN Primary ELSE None]
    /\ pc = "idle" /\ mode = "failover" /\ probe = << >> /\ chosen = None
    /\ token \in BOOLEAN /\ script = << >>
    /\ blind = FALSE /\ crashed = FALSE
    /\ events = 0 /\ faults = 0

Exit ==
    /\ pc' = "idle" /\ probe' = << >> /\ chosen' = None /\ script' = << >>
    /\ token' = FALSE
    /\ UNCHANGED mode

\* Someone runs the script, with K3S_TOKEN set or not.
Run(m) ==
    /\ pc = "idle"
    /\ mode' = m
    /\ pc' = "primary"
    /\ token' \in BOOLEAN
    /\ crashed' = FALSE
    /\ UNCHANGED <<hosts, probe, chosen, script, blind, bounds>>

\* host_up of the primary: without it there is no failback.
CheckPrimary ==
    /\ pc = "primary"
    /\ \/ /\ Ssh(Primary)
          /\ pc' = IF mode = "failover" THEN "service" ELSE "find"
          /\ probe' = IF mode = "failover" THEN << >> ELSE Standbys
          /\ UNCHANGED <<mode, chosen, token, script>>
       \/ /\ SshFails(Primary)
          /\ \/ /\ mode = "failover"
                /\ pc' = "select" /\ probe' = Standbys
                /\ UNCHANGED <<mode, chosen, token, script>>
             \/ mode = "failback" /\ Exit
    /\ UNCHANGED <<hosts, blind, crashed, events>>

\* service_active of the primary: a healthy primary ends a failover.
CheckService ==
    /\ pc = "service"
    /\ \/ Ssh(Primary) /\ Active(Primary) /\ Exit
       \/ /\ (Ssh(Primary) /\ ~Active(Primary)) \/ SshFails(Primary)
          /\ pc' = "select" /\ probe' = Standbys
          /\ UNCHANGED <<mode, chosen, token, script>>
    /\ UNCHANGED <<hosts, blind, crashed, events>>

\* Mutants: only the first standby is tried; that none was found is not noticed.
SelectPreferred ==
    /\ pc = "select"
    /\ \/ probe = << >> /\ Exit /\ UNCHANGED faults
       \/ /\ probe # << >>
          /\ \/ /\ Ssh(Head(probe))
                /\ chosen' = Head(probe)
                /\ pc' = IF token THEN "join" ELSE "token"
                /\ UNCHANGED probe
             \/ /\ SshFails(Head(probe))
                /\ probe' = << >>
                /\ UNCHANGED <<pc, chosen>>
          /\ UNCHANGED <<mode, token, script>>
    /\ UNCHANGED <<hosts, blind, crashed, events>>
SelectAnyway ==
    /\ pc = "select"
    /\ \/ /\ probe = << >>
          /\ pc' = IF token THEN "join" ELSE "token"
          /\ UNCHANGED <<probe, chosen, faults>>
       \/ /\ probe # << >>
          /\ \/ /\ Ssh(Head(probe))
                /\ chosen' = Head(probe)
                /\ pc' = IF token THEN "join" ELSE "token"
                /\ UNCHANGED probe
             \/ /\ SshFails(Head(probe))
                /\ probe' = Tail(probe)
                /\ UNCHANGED <<pc, chosen>>
    /\ UNCHANGED <<hosts, mode, token, script, blind, crashed, events>>

\* select_standby_host: the first that can be reached.
SelectStandby ==
    /\ pc = "select"
    /\ \/ probe = << >> /\ Exit /\ UNCHANGED faults
       \/ /\ probe # << >>
          /\ \/ /\ Ssh(Head(probe))
                /\ chosen' = Head(probe)
                /\ pc' = IF token THEN "join" ELSE "token"
                /\ UNCHANGED probe
             \/ /\ SshFails(Head(probe))
                /\ probe' = Tail(probe)
                /\ UNCHANGED <<pc, chosen>>
          /\ UNCHANGED <<mode, token, script>>
    /\ UNCHANGED <<hosts, blind, crashed, events>>

\* host_up of the primary once more: can the token be read from it?  Can the standby
\* join it?  Without a token or a primary that can be reached it founds a cluster.
ProbePrimary ==
    /\ pc \in {"token", "join"}
    /\ \/ /\ Ssh(Primary)
          /\ pc' = IF pc = "token" THEN "read" ELSE "ip"
          /\ UNCHANGED <<script, blind>>
       \/ /\ SshFails(Primary)
          /\ pc' = "commands"
          /\ script' = Promote(chosen, None)
          /\ blind' = TRUE
    /\ UNCHANGED <<hosts, mode, probe, chosen, token, crashed, events>>

\* Mutant: the address is not passed on.
FoundAnyway ==
    /\ pc \in {"read", "ip"}
    /\ \/ /\ Ssh(Primary)
          /\ \/ /\ pc = "read"
                /\ pc' = "join" /\ token' = TRUE
                /\ UNCHANGED script
             \/ /\ pc = "ip"
                /\ pc' = "commands" /\ script' = Promote(chosen, None)
                /\ UNCHANGED token
          /\ UNCHANGED <<mode, probe, chosen>>
       \/ SshFails(Primary) /\ Exit
    /\ UNCHANGED <<hosts, blind, crashed, events>>

\* Token and address are read from the primary; failing to read one ends the script.
ReadFromPrimary ==
    /\ pc \in {"read", "ip"}
    /\ \/ /\ Ssh(Primary)
          /\ \/ /\ pc = "read"
                /\ pc' = "join" /\ token' = TRUE
                /\ UNCHANGED script
             \/ /\ pc = "ip"
                /\ pc' = "commands" /\ script' = Promote(chosen, Primary)
                /\ UNCHANGED token
          /\ UNCHANGED <<mode, probe, chosen>>
       \/ SshFails(Primary) /\ Exit
    /\ UNCHANGED <<hosts, blind, crashed, events>>

\* Mutant: only the first standby is asked.
FindPreferred ==
    /\ pc = "find"
    /\ \/ probe = << >> /\ Exit /\ UNCHANGED faults
       \/ /\ probe # << >>
          /\ \/ /\ Ssh(Head(probe)) /\ Active(Head(probe))
                /\ chosen' = Head(probe)
                /\ pc' = "address"
                /\ UNCHANGED probe
             \/ /\ (Ssh(Head(probe)) /\ ~Active(Head(probe))) \/ SshFails(Head(probe))
                /\ probe' = << >>
                /\ UNCHANGED <<pc, chosen>>
          /\ UNCHANGED <<mode, token, script>>
    /\ UNCHANGED <<hosts, blind, crashed, events>>

\* failback: the standby to demote, the first whose server is found active, and its
\* token and address.
FindActive ==
    /\ pc = "find"
    /\ \/ probe = << >> /\ Exit /\ UNCHANGED faults
       \/ /\ probe # << >>
          /\ \/ /\ Ssh(Head(probe)) /\ Active(Head(probe))
                /\ chosen' = Head(probe)
                /\ pc' = "address"
                /\ UNCHANGED probe
             \/ /\ (Ssh(Head(probe)) /\ ~Active(Head(probe))) \/ SshFails(Head(probe))
                /\ probe' = Tail(probe)
                /\ UNCHANGED <<pc, chosen>>
          /\ UNCHANGED <<mode, token, script>>
    /\ UNCHANGED <<hosts, blind, crashed, events>>

ReadAddress ==
    /\ pc = "address"
    /\ \/ /\ Ssh(chosen)
          /\ script' = Failback(chosen)
          /\ pc' = "commands"
          /\ UNCHANGED <<mode, probe, chosen, token>>
       \/ SshFails(chosen) /\ Exit
    /\ UNCHANGED <<hosts, blind, crashed, events>>

----------------------------------------------------------------------------
(* The commands on the hosts. *)

Stopped(state) == IF state \in {"active", "trying"} THEN "stopped" ELSE state

\* A server of h told to join from can start: from its own data, by joining an
\* active one, or as the founder of a cluster.  With data and an active server to
\* join it may do either.
Startable(h, from) == data[h] # None \/ from = None \/ Active(from)
Datastore(h, from) ==
    (IF data[h] # None THEN {data[h]} ELSE IF from = None THEN {h} ELSE {})
    \cup {data[o] : o \in {from} \cap {o \in Hosts : Active(o)}}

\* The server of h starts, or keeps trying.
StartServer(h, from) ==
    \/ /\ Startable(h, from)
       /\ server' = [server EXCEPT ![h] = "active"]
       /\ \E d \in Datastore(h, from) : data' = [data EXCEPT ![h] = d]
    \/ /\ ~Startable(h, from)
       /\ server' = [server EXCEPT ![h] = "trying"]
       /\ UNCHANGED data

\* Whether a command that got through is successful, and what it does.
Succeeds(c) ==
    /\ c.what = "install-server" => Startable(c.host, c.from)
    /\ c.what = "restart-server" =>
          server[c.host] # "absent" /\ Startable(c.host, joins[c.host])
    /\ c.what = "restart-agent" => agent[c.host] # "absent"
ServerEffect(h, c) ==
    \/ /\ c.what \in {"stop-server", "disable-server"}
       /\ server' = [server EXCEPT ![h] = IF c.what = "stop-server" THEN Stopped(@) ELSE @]
       /\ UNCHANGED <<joins, data>>
    \/ /\ c.what = "uninstall-server"
       /\ server' = [server EXCEPT ![h] = "absent"]
       /\ data' = [data EXCEPT ![h] = None]
       /\ UNCHANGED joins
    \/ /\ c.what = "install-server"
       /\ joins' = [joins EXCEPT ![h] = c.from]
       /\ StartServer(h, c.from)
    \/ /\ c.what = "restart-server"
       /\ IF server[h] = "absent" THEN UNCHANGED <<server, data>> ELSE StartServer(h, joins[h])
       /\ UNCHANGED joins
AgentEffect(h, c) ==
    agent' = [agent EXCEPT ![h] =
        CASE c.what = "stop-agent" -> Stopped(@)
          [] c.what = "install-agent" \/ (c.what = "restart-agent" /\ @ # "absent") -> "active"
          [] OTHER -> @]

\* Disabling a unit that runs leaves it running; the installer and "enable" before a
\* restart, of a unit that is there, have it start at boot.
BootEffect(h, c) ==
    LET unit == IF c.what \in ServerCommands THEN <<h, "server">> ELSE <<h, "agent">>
    IN  boot' = CASE c.what \in {"disable-agent", "disable-server", "uninstall-server"} ->
                         boot \ {unit}
                  [] \/ c.what \in {"install-server", "install-agent"}
                     \/ c.what = "restart-server" /\ server[h] # "absent"
                     \/ c.what = "restart-agent" /\ agent[h] # "absent" -> boot \cup {unit}
                  [] OTHER -> boot
Effect(c) ==
    \/ /\ c.what \in AgentCommands
       /\ AgentEffect(c.host, c) /\ BootEffect(c.host, c)
       /\ UNCHANGED <<up, link, server, joins, data>>
    \/ /\ c.what \in ServerCommands
       /\ ServerEffect(c.host, c) /\ BootEffect(c.host, c)
       /\ UNCHANGED <<up, link, agent>>
    \/ c.what = "get-ip" /\ UNCHANGED hosts

Advance ==
    \/ /\ Tail(script) # << >>
       /\ script' = Tail(script)
       /\ UNCHANGED <<pc, mode, probe, chosen, token>>
    \/ Tail(script) = << >> /\ Exit

\* The next command gets through and succeeds.
RunCommand ==
    /\ pc = "commands"
    /\ Ssh(Head(script).host)
    /\ Succeeds(Head(script))
    /\ Effect(Head(script))
    /\ Advance
    /\ UNCHANGED <<blind, crashed, events>>

\* The download fails inside "curl | sh", or a command before "|| true" does: nothing
\* changes on the host, and the script goes on.
InstallSkipped ==
    /\ pc = "commands"
    /\ Head(script).what \in {"stop-agent", "disable-agent", "install-server", "stop-server",
                              "disable-server", "uninstall-server", "install-agent"}
    /\ Head(script).host \in up \cap link
    /\ faults < MaxFaults /\ faults' = faults + 1
    /\ Advance
    /\ UNCHANGED <<hosts, blind, crashed, events>>

\* The script ends when a command fails, when ssh does before it, and when the
\* answer of ssh is lost.
CommandFails ==
    /\ pc = "commands"
    /\ LET c == Head(script)
       IN  \/ SshFails(c.host) /\ UNCHANGED hosts
           \/ /\ c.host \in up \cap link
              /\ IF Succeeds(c) THEN faults < MaxFaults /\ faults' = faults + 1
                                ELSE UNCHANGED faults
              /\ Effect(c)
    /\ Exit
    /\ UNCHANGED <<blind, crashed, events>>

----------------------------------------------------------------------------
(* Hosts, links and servers fail and recover. *)

Event(h, servers) ==
    /\ events < MaxEvents
    /\ events' = events + 1
    /\ server' = servers
    /\ crashed' = (crashed \/ (h = Primary /\ server[h] = "active" /\ servers[h] # "active"))
    /\ UNCHANGED <<joins, boot, data, run, blind, faults>>

PowerFails(h) ==
    /\ h \in up
    /\ Event(h, [server EXCEPT ![h] = Stopped(@)])
    /\ up' = up \ {h}
    /\ agent' = [agent EXCEPT ![h] = Stopped(@)]
    /\ UNCHANGED link

\* Enabled units start at boot.
PowerReturns(h) ==
    /\ h \notin up
    /\ Event(h, [server EXCEPT ![h] =
                     IF @ = "stopped" /\ <<h, "server">> \in boot THEN "trying" ELSE @])
    /\ up' = up \cup {h}
    /\ agent' = [agent EXCEPT ![h] =
                     IF @ = "stopped" /\ <<h, "agent">> \in boot THEN "active" ELSE @]
    /\ UNCHANGED link

LinkChanges(h) ==
    /\ Event(h, server)
    /\ link' = IF h \in link THEN link \ {h} ELSE link \cup {h}
    /\ UNCHANGED <<up, agent>>

ServerFails(h) ==
    /\ Active(h)
    /\ Event(h, [server EXCEPT ![h] = "trying"])
    /\ UNCHANGED <<up, link, agent>>

\* systemd starts a server that can be started.
Systemd(h) ==
    /\ h \in up /\ server[h] = "trying"
    /\ Startable(h, joins[h])
    /\ StartServer(h, joins[h])
    /\ UNCHANGED <<up, link, joins, agent, boot, run, blind, crashed, bounds>>

Step ==
    \/ CheckPrimary \/ CheckService \/ SelectStandby \/ ProbePrimary \/ ReadFromPrimary
    \/ FindActive \/ ReadAddress
    \/ RunCommand \/ InstallSkipped \/ CommandFails

Next ==
    \/ \E m \in {"failover", "failback"} : Run(m)
    \/ Step
    \/ \E h \in Hosts :
          \/ PowerFails(h) \/ PowerReturns(h) \/ LinkChanges(h)
          \/ ServerFails(h) \/ Systemd(h)

Spec == Init /\ [][Next]_vars

\* Whoever runs the script runs it again until things are in order.
FairSpec == Spec /\ WF_vars(Step) /\ WF_vars(\E m \in {"failover", "failback"} : Run(m))

----------------------------------------------------------------------------
(* Correctness. *)

Units == {"absent", "stopped", "trying", "active"}

\* The variables keep their types; the script holds commands exactly while it runs
\* them, and an active server has data and runs on a host that is up.
TypeOK ==
    /\ up \subseteq Hosts /\ link \subseteq Hosts
    /\ server \in [Hosts -> Units] /\ agent \in [Hosts -> Units]
    /\ joins \in [Hosts -> Hosts \cup {None}]
    /\ boot \subseteq Hosts \X {"server", "agent"}
    /\ data \in [Hosts -> Hosts \cup {None}]
    /\ pc \in {"idle", "primary", "service", "select", "token", "read", "join", "ip", "find",
               "address", "commands"}
    /\ pc = "commands" <=> script # << >>
    /\ pc = "commands" => chosen \in Backups
    /\ blind \in BOOLEAN /\ crashed \in BOOLEAN
    /\ \A h \in Hosts : server[h] = "active" => data[h] # None /\ h \in up

\* No step of the script stops a server while it is the only one that is active,
\* unless the primary failed by itself after the run had begun: an ssh call that
\* fails, a download that is skipped or a run given up half-way never costs the
\* cluster its last server.
LastServerKept ==
    [][\A h \in Hosts :
          /\ Active(h) /\ ~(Active(h))' /\ events' = events
          => (\E o \in Hosts : Active(o))' \/ crashed]_vars

\* Servers of different clusters are active side by side only after some run could
\* not reach the primary.
SplitOnlyWhenBlind ==
    \A g, h \in Hosts : Active(g) /\ Active(h) /\ data[g] # data[h] => blind

\* With the primary down for good, and some standby there to be reached for good,
\* failovers run again and again make a server active, in whatever state earlier
\* runs, complete or not, left the hosts.
EventuallyServed ==
    /\ <>[](Primary \notin up) /\ <>[](mode = "failover")
    /\ \E h \in Backups : <>[](h \in up \cap link)
    => []<>(\E h \in Backups : Active(h))

\* With all hosts there to be reached for good, failbacks run again and again leave
\* the primary as the only server, if only some server keeps running.
EventuallyRestored ==
    /\ <>[](up = Hosts /\ link = Hosts) /\ <>[](mode = "failback")
    /\ []<>(\E h \in Hosts : Active(h))
    => <>[](Active(Primary) /\ \A h \in Backups : ~Active(h))

===============================================================================
