------------------------- MODULE ControlPlane_proofs -------------------------
(***************************************************************************)
(* What the control-plane script keeps, for every number of standbys and   *)
(* any number of failures: its types (TypeOK), that servers of different   *)
(* clusters run side by side only after a run that could not see the       *)
(* primary (SplitOnlyWhenBlind), and that it never stops the last active   *)
(* server (LastServerKept).                                                *)
(*                                                                         *)
(* Neither of the last two is inductive.  The first needs to know that,    *)
(* before any blind run, there is one cluster only, the primary's, and     *)
(* that each standby with a server joins the primary.  The second needs to *)
(* know how much of a failback is left: past its first half, the primary   *)
(* is active or has crashed.  Both rest on the script being the end of     *)
(* one of three programs.                                                  *)
(***************************************************************************)
EXTENDS ControlPlane, SequenceTheorems, TLAPS

----------------------------------------------------------------------------
(* The inductive invariant. *)

PCs == {"idle", "primary", "service", "select", "token", "read", "join", "ip", "find",
        "address", "commands"}

\* The types, with those that TypeOK leaves out.
HostsOK ==
    /\ up \subseteq Hosts /\ link \subseteq Hosts
    /\ server \in [Hosts -> Units] /\ agent \in [Hosts -> Units]
    /\ joins \in [Hosts -> Hosts \cup {None}]
    /\ boot \subseteq Hosts \X {"server", "agent"}
    /\ data \in [Hosts -> Hosts \cup {None}]
    /\ \A h \in Hosts : server[h] = "active" => data[h] # None /\ h \in up
HistoryOK ==
    /\ blind \in BOOLEAN /\ crashed \in BOOLEAN
    /\ events \in Nat

\* Where each mode takes the script, and from where on a standby is chosen.
RunOK ==
    /\ pc \in PCs
    /\ mode \in {"failover", "failback"}
    /\ probe \in Seq(Backups)
    /\ pc \in {"service", "select", "token", "read", "join", "ip"} => mode = "failover"
    /\ pc \in {"find", "address"} => mode = "failback"
    /\ pc \in {"token", "read", "join", "ip", "address", "commands"} => chosen \in Backups
    /\ pc # "commands" => script = << >>

\* The script is what is left of a program.
Commands == [host : Hosts, what : ServerCommands \cup AgentCommands \cup {"get-ip"},
             from : Hosts \cup {None}]
RestOf(rest, program) ==
    /\ rest \in Seq(Commands)
    /\ Len(rest) \in 1 .. Len(program)
    /\ \A i \in 1 .. Len(rest) : rest[i] = program[Len(program) - Len(rest) + i]
ScriptOK ==
    pc = "commands" =>
       /\ mode = "failover" =>
             \/ RestOf(script, Promote(chosen, Primary))
             \/ RestOf(script, Promote(chosen, None)) /\ blind
       /\ mode = "failback" => RestOf(script, Failback(chosen))

\* Before a blind run there is one cluster.
OneCluster ==
    ~blind =>
       /\ data[Primary] = Primary
       /\ \A h \in Backups : data[h] \in {None, Primary}
       /\ \A h \in Backups : server[h] # "absent" => joins[h] = Primary

\* In the second half of a failback the primary is active, or has crashed.
PrimaryFirst ==
    pc = "commands" /\ mode = "failback" /\ Len(script) <= 6 => Active(Primary) \/ crashed

IInv == HostsOK /\ HistoryOK /\ RunOK /\ ScriptOK /\ OneCluster /\ PrimaryFirst

----------------------------------------------------------------------------
(* The programs. *)

\* Sequences of four and of five elements.
LEMMA FourElements ==
    ASSUME NEW S, NEW a \in S, NEW b \in S, NEW c \in S, NEW d \in S
    PROVE  /\ <<a, b, c, d>> \in Seq(S) /\ Len(<<a, b, c, d>>) = 4
           /\ <<a, b, c, d>>[1] = a /\ <<a, b, c, d>>[2] = b
           /\ <<a, b, c, d>>[3] = c /\ <<a, b, c, d>>[4] = d
OBVIOUS

\* The same for five.
LEMMA FiveElements ==
    ASSUME NEW S, NEW a \in S, NEW b \in S, NEW c \in S, NEW d \in S, NEW e \in S
    PROVE  /\ <<a, b, c, d, e>> \in Seq(S) /\ Len(<<a, b, c, d, e>>) = 5
           /\ <<a, b, c, d, e>>[1] = a /\ <<a, b, c, d, e>>[2] = b
           /\ <<a, b, c, d, e>>[3] = c /\ <<a, b, c, d, e>>[4] = d
           /\ <<a, b, c, d, e>>[5] = e
OBVIOUS

\* promote_host_to_server: four commands.
LEMMA PromoteCommands ==
    ASSUME NEW h \in Hosts, NEW from \in Hosts \cup {None}
    PROVE  /\ Promote(h, from) \in Seq(Commands)
           /\ Len(Promote(h, from)) = 4
           /\ Promote(h, from)[1] = Command(h, "stop-agent", None)
           /\ Promote(h, from)[2] = Command(h, "disable-agent", None)
           /\ Promote(h, from)[3] = Command(h, "install-server", from)
           /\ Promote(h, from)[4] = Command(h, "restart-server", from)
<1>1. /\ Command(h, "stop-agent", None) \in Commands
      /\ Command(h, "disable-agent", None) \in Commands
      /\ Command(h, "install-server", from) \in Commands
      /\ Command(h, "restart-server", from) \in Commands
  BY DEF Command, Commands, ServerCommands, AgentCommands
<1> QED  BY <1>1, FourElements DEF Promote

\* demote_host_to_agent: five commands.
LEMMA DemoteCommands ==
    ASSUME NEW h \in Hosts, NEW from \in Hosts \cup {None}
    PROVE  /\ Demote(h, from) \in Seq(Commands)
           /\ Len(Demote(h, from)) = 5
           /\ Demote(h, from)[1] = Command(h, "stop-server", None)
           /\ Demote(h, from)[2] = Command(h, "disable-server", None)
           /\ Demote(h, from)[3] = Command(h, "uninstall-server", None)
           /\ Demote(h, from)[4] = Command(h, "install-agent", from)
           /\ Demote(h, from)[5] = Command(h, "restart-agent", None)
<1>1. /\ Command(h, "stop-server", None) \in Commands
      /\ Command(h, "disable-server", None) \in Commands
      /\ Command(h, "uninstall-server", None) \in Commands
      /\ Command(h, "install-agent", from) \in Commands
      /\ Command(h, "restart-agent", None) \in Commands
  BY DEF Command, Commands, ServerCommands, AgentCommands
<1> QED  BY <1>1, FiveElements DEF Demote

\* One program after another.
LEMMA TwoParts ==
    ASSUME NEW S, NEW s \in Seq(S), NEW t \in Seq(S)
    PROVE  /\ s \o t \in Seq(S) /\ Len(s \o t) = Len(s) + Len(t)
           /\ \A i \in 1 .. Len(s) : (s \o t)[i] = s[i]
           /\ \A i \in 1 .. Len(t) : (s \o t)[Len(s) + i] = t[i]
<1>1. Len(s) \in Nat /\ Len(t) \in Nat  BY LenProperties
<1>2. /\ s \o t \in Seq(S) /\ Len(s \o t) = Len(s) + Len(t)
      /\ \A i \in 1 .. Len(s) + Len(t) :
            (s \o t)[i] = IF i <= Len(s) THEN s[i] ELSE t[i - Len(s)]
  BY ConcatProperties, Zenon
<1>3. ASSUME NEW i \in 1 .. Len(s) PROVE (s \o t)[i] = s[i]
  <2>1. i \in 1 .. Len(s) + Len(t) /\ i <= Len(s)  BY <1>1
  <2> QED  BY <1>2, <2>1, Zenon
<1>4. ASSUME NEW i \in 1 .. Len(t) PROVE (s \o t)[Len(s) + i] = t[i]
  <2>1. /\ Len(s) + i \in 1 .. Len(s) + Len(t)
        /\ ~(Len(s) + i <= Len(s)) /\ (Len(s) + i) - Len(s) = i
    BY <1>1
  <2>2. (s \o t)[Len(s) + i] = t[(Len(s) + i) - Len(s)]  BY <1>2, <2>1, Zenon
  <2> QED  BY <2>1, <2>2
<1> QED  BY <1>2, <1>3, <1>4, Zenon

\* Three programs one after the other.
LEMMA ThreeParts ==
    ASSUME NEW S, NEW s \in Seq(S), NEW t \in Seq(S), NEW u \in Seq(S),
           Len(s) = 4, Len(t) = 1, Len(u) = 5
    PROVE  /\ s \o t \o u \in Seq(S) /\ Len(s \o t \o u) = 10
           /\ \A i \in 1 .. 4 : (s \o t \o u)[i] = s[i]
           /\ (s \o t \o u)[5] = t[1]
           /\ \A i \in 1 .. 5 : (s \o t \o u)[5 + i] = u[i]
<1>1. PICK st : st = s \o t  OBVIOUS
<1>2. /\ st \in Seq(S) /\ Len(st) = Len(s) + Len(t)
      /\ \A i \in 1 .. Len(s) : st[i] = s[i]
      /\ \A i \in 1 .. Len(t) : st[Len(s) + i] = t[i]
  <2>1. /\ s \o t \in Seq(S) /\ Len(s \o t) = Len(s) + Len(t)
        /\ \A i \in 1 .. Len(s) : (s \o t)[i] = s[i]
        /\ \A i \in 1 .. Len(t) : (s \o t)[Len(s) + i] = t[i]
    BY ONLY s \in Seq(S), t \in Seq(S), TwoParts
  <2> QED  BY <1>1, <2>1, Zenon
<1>3. /\ st \o u \in Seq(S) /\ Len(st \o u) = Len(st) + Len(u)
      /\ \A i \in 1 .. Len(st) : (st \o u)[i] = st[i]
      /\ \A i \in 1 .. Len(u) : (st \o u)[Len(st) + i] = u[i]
  <2>1. st \in Seq(S)  BY <1>2
  <2> QED  BY ONLY <2>1, u \in Seq(S), TwoParts
<1>4. Len(st) = 5 /\ st[5] = t[1]
  BY <1>2
<1>5. PICK stu : stu = st \o u  OBVIOUS
<1>6. /\ stu \in Seq(S) /\ Len(stu) = 10
      /\ \A i \in 1 .. 4 : stu[i] = s[i]
      /\ stu[5] = t[1]
      /\ \A i \in 1 .. 5 : stu[5 + i] = u[i]
  <2>1. /\ stu \in Seq(S) /\ Len(stu) = Len(st) + Len(u)
        /\ \A i \in 1 .. Len(st) : stu[i] = st[i]
        /\ \A i \in 1 .. Len(u) : stu[Len(st) + i] = u[i]
    BY <1>3, <1>5, Zenon
  <2> QED  BY <2>1, <1>2, <1>4
<1> QED  BY <1>1, <1>5, <1>6, Zenon

\* A failback: ten commands, those of a promotion, an address and a demotion.
LEMMA FailbackCommands ==
    ASSUME NEW h \in Hosts
    PROVE  /\ Failback(h) \in Seq(Commands)
           /\ Len(Failback(h)) = 10
           /\ \A i \in 1 .. 4 : Failback(h)[i] = Promote(Primary, h)[i]
           /\ Failback(h)[5] = Command(Primary, "get-ip", None)
           /\ \A i \in 1 .. 5 : Failback(h)[5 + i] = Demote(h, Primary)[i]
<1>0. Primary \in Hosts  BY DEF Hosts
<1>1. /\ Promote(Primary, h) \in Seq(Commands)
      /\ Len(Promote(Primary, h)) = 4
  BY <1>0, PromoteCommands
<1>2. /\ Demote(h, Primary) \in Seq(Commands)
      /\ Len(Demote(h, Primary)) = 5
  BY <1>0, DemoteCommands
<1>3. PICK c \in Commands : c = Command(Primary, "get-ip", None)
  BY <1>0 DEF Command, Commands
<1>4. PICK ip : ip = <<c>>  OBVIOUS
<1>5. ip \in Seq(Commands) /\ Len(ip) = 1 /\ ip[1] = c
  <2>1. <<c>> \in Seq(Commands) /\ Len(<<c>>) = 1 /\ <<c>>[1] = c  OBVIOUS
  <2> QED  BY <1>4, <2>1, Zenon
<1>6. PICK p, d : p = Promote(Primary, h) /\ d = Demote(h, Primary)  OBVIOUS
<1>7. /\ p \in Seq(Commands) /\ Len(p) = 4
      /\ d \in Seq(Commands) /\ Len(d) = 5
      /\ Failback(h) = p \o ip \o d
  BY <1>1, <1>2, <1>3, <1>4, <1>6 DEF Failback
<1>8. /\ p \o ip \o d \in Seq(Commands) /\ Len(p \o ip \o d) = 10
      /\ \A i \in 1 .. 4 : (p \o ip \o d)[i] = p[i]
      /\ (p \o ip \o d)[5] = ip[1]
      /\ \A i \in 1 .. 5 : (p \o ip \o d)[5 + i] = d[i]
  <2>1. /\ p \in Seq(Commands) /\ ip \in Seq(Commands) /\ d \in Seq(Commands)
        /\ Len(p) = 4 /\ Len(ip) = 1 /\ Len(d) = 5
    BY <1>5, <1>7, Zenon
  <2> QED  BY ONLY <2>1, ThreeParts, SMTT(60)
<1> QED  BY <1>3, <1>5, <1>6, <1>7, <1>8, Zenon

\* Running a command leaves the rest of the program.
LEMMA RestAdvances ==
    ASSUME NEW program \in Seq(Commands), NEW rest, RestOf(rest, program),
           Tail(rest) # << >>
    PROVE  RestOf(Tail(rest), program)
<1>1. rest \in Seq(Commands) /\ Len(rest) \in 1 .. Len(program)
  BY DEF RestOf
<1>2. rest # << >>  BY <1>1
<1>3. /\ Tail(rest) \in Seq(Commands) /\ Len(Tail(rest)) = Len(rest) - 1
      /\ \A i \in 1 .. Len(Tail(rest)) : Tail(rest)[i] = rest[i + 1]
  BY <1>1, <1>2, HeadTailProperties
<1>4. Len(Tail(rest)) # 0  BY <1>3, EmptySeq
<1>5. ASSUME NEW i \in 1 .. Len(Tail(rest))
      PROVE  Tail(rest)[i] = program[Len(program) - Len(Tail(rest)) + i]
  <2>1. i + 1 \in 1 .. Len(rest)  BY <1>1, <1>3
  <2>2. rest[i + 1] = program[Len(program) - Len(rest) + (i + 1)]  BY <2>1 DEF RestOf
  <2>3. Len(program) - Len(rest) + (i + 1) = Len(program) - Len(Tail(rest)) + i
    BY <1>1, <1>3, LenProperties
  <2> QED  BY <1>3, <2>2, <2>3
<1>6. Len(Tail(rest)) \in 1 .. Len(program)  BY <1>1, <1>3, <1>4, LenProperties
<1> QED  BY <1>3, <1>5, <1>6 DEF RestOf

----------------------------------------------------------------------------
(* The commands. *)

\* What the next command may be: a server is stopped only on a standby, while the
\* primary is active or has crashed; and before a blind run a standby is pointed to
\* the primary.
GoodCommand(c) ==
    /\ c \in Commands
    /\ c.what \in {"stop-server", "disable-server", "uninstall-server"} =>
          c.host \in Backups /\ (Active(Primary) \/ crashed)
    /\ c.what = "install-server" => c.host = Primary \/ c.from = Primary \/ blind

\* The first command of what is left of a program.
LEMMA FirstCommand ==
    ASSUME NEW program \in Seq(Commands), NEW rest, RestOf(rest, program)
    PROVE  /\ Head(rest) \in Commands
           /\ Len(rest) \in 1 .. Len(program)
           /\ Head(rest) = program[Len(program) - Len(rest) + 1]
<1>1. rest \in Seq(Commands) /\ Len(rest) \in 1 .. Len(program)
  BY DEF RestOf
<1>2. 1 \in 1 .. Len(rest)  BY <1>1, LenProperties
<1>3. rest # << >>  BY <1>1
<1>4. Head(rest) \in Commands  BY <1>1, <1>3, HeadTailProperties
<1>5. Head(rest) = rest[1]  BY <1>1, <1>3
<1> QED  BY <1>1, <1>2, <1>4, <1>5 DEF RestOf

\* Each command of a program is a good one.
LEMMA NextCommand ==
    ASSUME IInv, pc = "commands"
    PROVE  GoodCommand(Head(script))
<1>0. chosen \in Hosts /\ chosen \in Backups /\ Primary \in Hosts
  BY DEF IInv, RunOK, Hosts
<1>1. ASSUME NEW from \in Hosts \cup {None}, RestOf(script, Promote(chosen, from)),
             from = Primary \/ blind
      PROVE  GoodCommand(Head(script))
  <2> DEFINE p == Promote(chosen, from)
  <2>1. /\ p \in Seq(Commands) /\ Len(p) = 4
        /\ p[1] = Command(chosen, "stop-agent", None)
        /\ p[2] = Command(chosen, "disable-agent", None)
        /\ p[3] = Command(chosen, "install-server", from)
        /\ p[4] = Command(chosen, "restart-server", from)
    BY <1>0, PromoteCommands
  <2> HIDE DEF p
  <2>2. /\ Head(script) \in Commands
        /\ Len(script) \in 1 .. 4 /\ Head(script) = p[4 - Len(script) + 1]
    BY <1>1, <2>1, FirstCommand DEF p
  <2>3. \/ Head(script) = p[1] \/ Head(script) = p[2]
        \/ Head(script) = p[3] \/ Head(script) = p[4]
    <3>1. PICK k : k = Len(script)  OBVIOUS
    <3>2. k \in 1 .. 4 /\ Head(script) = p[4 - k + 1]  BY <2>2, <3>1, Zenon
    <3>3. 4 - k + 1 \in {1, 2, 3, 4}  BY <3>2
    <3> QED  BY <3>2, <3>3
  <2> QED  BY <1>1, <2>1, <2>2, <2>3 DEF GoodCommand, Command
<1>2. ASSUME mode = "failback"
      PROVE  GoodCommand(Head(script))
  <2> DEFINE p == Failback(chosen)
  <2>1. p \in Seq(Commands) /\ Len(p) = 10
    BY <1>0, FailbackCommands
  <2>2. /\ \A i \in 1 .. 4 : p[i] = Promote(Primary, chosen)[i]
        /\ p[5] = Command(Primary, "get-ip", None)
        /\ \A i \in 1 .. 5 : p[5 + i] = Demote(chosen, Primary)[i]
    BY <1>0, FailbackCommands
  <2>3. RestOf(script, p)  BY <1>2 DEF IInv, ScriptOK
  <2> HIDE DEF p
  <2>4. /\ Head(script) \in Commands
        /\ Len(script) \in 1 .. 10 /\ Head(script) = p[10 - Len(script) + 1]
    BY <2>1, <2>3, FirstCommand
  <2>n. Len(script) \in 1 .. 10  BY <2>4
  <2>5. CASE Len(script) > 6
    <3>1. 10 - Len(script) + 1 \in 1 .. 4
      <4>1. PICK k : k = Len(script)  OBVIOUS
      <4>2. k \in 1 .. 10 /\ k > 6  BY <2>n, <2>5, <4>1, Zenon
      <4>3. 10 - k + 1 \in 1 .. 4  BY <4>2
      <4> QED  BY <4>1, <4>3, Zenon
    <3>2. PICK i \in 1 .. 4 : Head(script) = Promote(Primary, chosen)[i]
      BY <2>2, <2>4, <3>1
    <3>3. \/ Head(script) = Promote(Primary, chosen)[1]
          \/ Head(script) = Promote(Primary, chosen)[2]
          \/ Head(script) = Promote(Primary, chosen)[3]
          \/ Head(script) = Promote(Primary, chosen)[4]
      BY <3>2
    <3>4. /\ Promote(Primary, chosen)[1] = Command(Primary, "stop-agent", None)
          /\ Promote(Primary, chosen)[2] = Command(Primary, "disable-agent", None)
          /\ Promote(Primary, chosen)[3] = Command(Primary, "install-server", chosen)
          /\ Promote(Primary, chosen)[4] = Command(Primary, "restart-server", chosen)
      BY <1>0, PromoteCommands
    <3> QED  BY <2>4, <3>3, <3>4 DEF GoodCommand, Command
  <2>6. CASE Len(script) <= 6
    <3>1. Active(Primary) \/ crashed  BY <1>2, <2>6 DEF IInv, PrimaryFirst
    <3>2. \/ Head(script) = p[5]
          \/ \E i \in 1 .. 5 : Head(script) = p[5 + i]
      <4>1. 10 - Len(script) + 1 = 5 \/ 10 - Len(script) + 1 - 5 \in 1 .. 5
        BY <2>4, <2>6
      <4>2. 10 - Len(script) + 1 = 5 + (10 - Len(script) + 1 - 5)  BY <2>4
      <4> QED  BY <2>4, <4>1, <4>2
    <3>3. \/ Head(script) = Command(Primary, "get-ip", None)
          \/ Head(script) = Demote(chosen, Primary)[1]
          \/ Head(script) = Demote(chosen, Primary)[2]
          \/ Head(script) = Demote(chosen, Primary)[3]
          \/ Head(script) = Demote(chosen, Primary)[4]
          \/ Head(script) = Demote(chosen, Primary)[5]
      BY <2>2, <3>2
    <3>4. /\ Demote(chosen, Primary)[1] = Command(chosen, "stop-server", None)
          /\ Demote(chosen, Primary)[2] = Command(chosen, "disable-server", None)
          /\ Demote(chosen, Primary)[3] = Command(chosen, "uninstall-server", None)
          /\ Demote(chosen, Primary)[4] = Command(chosen, "install-agent", Primary)
          /\ Demote(chosen, Primary)[5] = Command(chosen, "restart-agent", None)
      BY <1>0, DemoteCommands
    <3>5. PICK what \in {"get-ip", "stop-server", "disable-server", "uninstall-server",
                         "install-agent", "restart-agent"}, from \in {None, Primary} :
             \/ Head(script) = Command(chosen, what, from)
             \/ what = "get-ip" /\ Head(script) = Command(Primary, what, from)
      BY <3>3, <3>4
    <3> QED  BY <1>0, <2>4, <3>1, <3>5 DEF GoodCommand, Command
  <2> QED  BY <2>4, <2>5, <2>6
<1>3. CASE mode = "failover"
  <2>1. \/ RestOf(script, Promote(chosen, Primary))
        \/ RestOf(script, Promote(chosen, None)) /\ blind
    BY <1>3 DEF IInv, ScriptOK
  <2> QED  BY <1>0, <1>1, <2>1
<1> QED  BY <1>2, <1>3 DEF IInv, RunOK

\* Starting a server keeps the types; it never turns an active server off, and before
\* a blind run it can only give the host the primary's data.
LEMMA StartKeeps ==
    ASSUME HostsOK, OneCluster, NEW h \in up, NEW from \in Hosts \cup {None},
           StartServer(h, from), h = Primary \/ from = Primary \/ blind
    PROVE  /\ server' \in [Hosts -> Units] /\ data' \in [Hosts -> Hosts \cup {None}]
           /\ server'[h] \in {"active", "trying"}
           /\ server'[h] = "active" => data'[h] # None
           /\ \A g \in Hosts \ {h} : server'[g] = server[g] /\ data'[g] = data[g]
           /\ server[h] = "active" \/ Startable(h, from) => server'[h] = "active"
           /\ ~blind => /\ data'[Primary] = Primary
                        /\ \A b \in Backups : data'[b] \in {None, Primary}
<1>0. /\ h \in Hosts /\ Primary \in Hosts /\ Primary \notin Backups /\ None \notin Hosts
      /\ server \in [Hosts -> Units] /\ data \in [Hosts -> Hosts \cup {None}]
  BY ControlPlaneAssumption DEF HostsOK, Hosts
<1>1. CASE Startable(h, from)
  <2>1. server' = [server EXCEPT ![h] = "active"]
    BY <1>1 DEF StartServer
  <2>2. PICK d \in Datastore(h, from) : data' = [data EXCEPT ![h] = d]
    BY <1>1 DEF StartServer
  <2>3. \/ d = data[h] /\ data[h] # None
        \/ d = h /\ from = None /\ data[h] = None
        \/ d = data[from] /\ from \in Hosts /\ Active(from)
    BY <2>2 DEF Datastore
  <2>4. d \in Hosts
    BY <1>0, <2>3 DEF HostsOK, Active
  <2>5. ~blind => d = Primary
    <3>1. ~blind => data[Primary] = Primary /\ \A b \in Backups : data[b] \in {None, Primary}
      BY DEF OneCluster
    <3>2. ~blind => \A g \in Hosts : data[g] \in {None, Primary}
      BY <3>1 DEF Hosts
    <3> QED  BY <1>0, <2>3, <2>4, <3>1, <3>2
  <2>6. "active" \in Units  BY DEF Units
  <2>7. /\ server' \in [Hosts -> Units] /\ server'[h] = "active"
        /\ \A g \in Hosts \ {h} : server'[g] = server[g]
    BY <1>0, <2>1, <2>6
  <2>8. /\ data' \in [Hosts -> Hosts \cup {None}] /\ data'[h] = d
        /\ \A g \in Hosts \ {h} : data'[g] = data[g]
    BY <1>0, <2>2, <2>4
  <2>9. ~blind => /\ data'[Primary] = Primary
                  /\ \A b \in Backups : data'[b] \in {None, Primary}
    <3>1. Backups \subseteq Hosts  BY DEF Hosts
    <3> QED  BY <1>0, <2>5, <2>8, <3>1 DEF OneCluster
  <2> QED  BY <1>0, <2>4, <2>7, <2>8, <2>9
<1>2. CASE ~Startable(h, from)
  <2>1. server' = [server EXCEPT ![h] = "trying"] /\ data' = data
    BY <1>2 DEF StartServer
  <2>2. "trying" \in Units  BY DEF Units
  <2>3. server[h] # "active"
    BY <1>0, <1>2 DEF Startable, HostsOK
  <2>4. /\ server' \in [Hosts -> Units] /\ server'[h] = "trying"
        /\ \A g \in Hosts \ {h} : server'[g] = server[g]
    BY <1>0, <2>1, <2>2
  <2> QED  BY <1>0, <1>2, <2>1, <2>3, <2>4 DEF OneCluster
<1> QED  BY <1>1, <1>2

\* The units that start at boot are units of the hosts, whatever a command does.
LEMMA BootKept ==
    ASSUME boot \subseteq Hosts \X {"server", "agent"}, NEW h \in Hosts, NEW c,
           BootEffect(h, c)
    PROVE  boot' \subseteq Hosts \X {"server", "agent"}
<1>1. PICK unit \in {<<h, "server">>, <<h, "agent">>} :
         boot' \in {boot \ {unit}, boot \cup {unit}, boot}
  BY DEF BootEffect
<1>2. unit \in Hosts \X {"server", "agent"}  BY <1>1
<1> QED  BY <1>1, <1>2

\* A good command keeps the types, and before a blind run the one cluster; it turns a
\* server off only on a standby, while the primary is active or has crashed.
LEMMA EffectKeeps ==
    ASSUME HostsOK, OneCluster, blind' = blind,
           NEW c, GoodCommand(c), c.host \in up, Effect(c)
    PROVE  /\ HostsOK' /\ OneCluster' /\ up' = up
           /\ \A h \in Hosts : Active(h) =>
                 Active(h)' \/ (h \in Backups /\ (Active(Primary) \/ crashed))
           /\ c.what = "restart-server" /\ Succeeds(c) => server'[c.host] = "active"
<1> DEFINE h == c.host
<1>0. /\ h \in Hosts /\ Primary \in Hosts /\ Primary \notin Backups /\ None \notin Hosts
      /\ Backups \subseteq Hosts
      /\ c.from \in Hosts \cup {None}
      /\ server \in [Hosts -> Units] /\ data \in [Hosts -> Hosts \cup {None}]
      /\ joins \in [Hosts -> Hosts \cup {None}] /\ agent \in [Hosts -> Units]
      /\ h \in up /\ up \subseteq Hosts
      /\ boot \subseteq Hosts \X {"server", "agent"}
  BY ControlPlaneAssumption DEF HostsOK, Hosts, GoodCommand, Commands
<1>b. boot' \subseteq Hosts \X {"server", "agent"}
  <2>1. BootEffect(h, c) \/ UNCHANGED hosts  BY DEF Effect
  <2> QED  BY <1>0, <2>1, BootKept DEF hosts
<1>1. CASE /\ c.what \in AgentCommands
           /\ AgentEffect(c.host, c)
           /\ UNCHANGED <<up, link, server, joins, data>>
  <2>1. c.what # "restart-server"  BY <1>1 DEF AgentCommands
  <2>2. agent' \in [Hosts -> Units]
    <3>1. PICK u : agent' = [agent EXCEPT ![h] = u] /\ u \in {Stopped(agent[h]), "active", agent[h]}
      BY <1>1 DEF AgentEffect
    <3>2. u \in Units  BY <1>0, <3>1 DEF Stopped, Units
    <3> QED  BY <1>0, <3>1, <3>2
  <2>3. HostsOK'  BY <1>1, <1>b, <2>2 DEF HostsOK
  <2>4. OneCluster'  BY <1>1 DEF OneCluster
  <2> QED  BY <1>1, <2>1, <2>3, <2>4 DEF Active
<1>2. CASE c.what = "get-ip" /\ UNCHANGED hosts
  <2>1. UNCHANGED <<up, link, server, joins, agent, boot, data>>  BY <1>2 DEF hosts
  <2>2. HostsOK'  BY <2>1 DEF HostsOK
  <2>3. OneCluster'  BY <2>1 DEF OneCluster
  <2> QED  BY <1>2, <2>1, <2>2, <2>3 DEF Active
<1>3. CASE /\ c.what \in {"stop-server", "disable-server", "uninstall-server"}
           /\ ServerEffect(c.host, c)
           /\ UNCHANGED <<up, link, agent>>
  <2>1. h \in Backups /\ (Active(Primary) \/ crashed)  BY <1>3 DEF GoodCommand
  <2>2. /\ c.what # "restart-server" /\ c.what # "install-server"
        /\ joins' = joins
    BY <1>3 DEF ServerEffect
  <2>3. PICK s : /\ server' = [server EXCEPT ![h] = s]
                 /\ s \in {Stopped(server[h]), server[h], "absent"}
    BY <1>3 DEF ServerEffect
  <2>4. /\ s \in Units
        /\ server[h] = "absent" => s = "absent"
        /\ s = "active" => server[h] = "active" /\ data' = data
    <3>1. s \in Units /\ (server[h] = "absent" => s = "absent")
      BY <1>0, <2>3 DEF Stopped, Units
    <3>2. ASSUME s = "active" PROVE server[h] = "active" /\ data' = data
      <4>1. s = server'[h]  BY <1>0, <2>3
      <4>2. c.what # "uninstall-server"  BY <1>0, <1>3, <3>2, <4>1 DEF ServerEffect
      <4>3. Stopped(server[h]) # "active"  BY DEF Stopped
      <4> QED  BY <1>0, <1>3, <3>2, <4>1, <4>2, <4>3 DEF ServerEffect
    <3> QED  BY <3>1, <3>2
  <2>5. data' = data \/ data' = [data EXCEPT ![h] = None]
    BY <1>3 DEF ServerEffect
  <2>6. /\ server' \in [Hosts -> Units] /\ server'[h] = s
        /\ \A g \in Hosts \ {h} : server'[g] = server[g]
    BY <1>0, <2>3, <2>4
  <2>7. /\ data' \in [Hosts -> Hosts \cup {None}]
        /\ data'[h] \in {data[h], None}
        /\ \A g \in Hosts \ {h} : data'[g] = data[g]
    BY <1>0, <2>5
  <2>8. HostsOK'
    BY <1>0, <1>b, <1>3, <2>2, <2>4, <2>6, <2>7 DEF HostsOK
  <2>9. OneCluster'
    BY <1>0, <2>1, <2>2, <2>4, <2>6, <2>7 DEF OneCluster
  <2>10. \A g \in Hosts \ {h} : Active(g) => Active(g)'
    BY <1>3, <2>6 DEF Active
  <2> QED  BY <1>3, <2>1, <2>2, <2>8, <2>9, <2>10
<1>4. ASSUME NEW from \in Hosts \cup {None}, StartServer(h, from),
             joins' = [joins EXCEPT ![h] = from] \/ (joins' = joins /\ joins[h] = from),
             h = Primary \/ from = Primary \/ blind,
             UNCHANGED <<up, link, agent>>
      PROVE  /\ HostsOK' /\ OneCluster' /\ up' = up
             /\ \A g \in Hosts : Active(g) => Active(g)'
             /\ Startable(h, from) => server'[h] = "active"
  <2>1. /\ server' \in [Hosts -> Units] /\ data' \in [Hosts -> Hosts \cup {None}]
        /\ server'[h] \in {"active", "trying"}
        /\ server'[h] = "active" => data'[h] # None
        /\ \A g \in Hosts \ {h} : server'[g] = server[g] /\ data'[g] = data[g]
        /\ server[h] = "active" \/ Startable(h, from) => server'[h] = "active"
        /\ ~blind => /\ data'[Primary] = Primary
                     /\ \A b \in Backups : data'[b] \in {None, Primary}
    BY <1>0, <1>4, StartKeeps
  <2>2. /\ joins' \in [Hosts -> Hosts \cup {None}] /\ joins'[h] = from
        /\ \A g \in Hosts \ {h} : joins'[g] = joins[g]
    BY <1>0, <1>4
  <2>3. HostsOK'  BY <1>0, <1>b, <1>4, <2>1, <2>2 DEF HostsOK
  <2>4. OneCluster'  BY <1>0, <1>4, <2>1, <2>2 DEF OneCluster
  <2>5. \A g \in Hosts : Active(g) => Active(g)'  BY <1>4, <2>1 DEF Active
  <2> QED  BY <1>4, <2>1, <2>3, <2>4, <2>5
<1>5. CASE /\ c.what = "install-server"
           /\ ServerEffect(c.host, c)
           /\ UNCHANGED <<up, link, agent>>
  <2>1. joins' = [joins EXCEPT ![h] = c.from] /\ StartServer(h, c.from)
    BY <1>5 DEF ServerEffect
  <2>2. h = Primary \/ c.from = Primary \/ blind  BY <1>5 DEF GoodCommand
  <2>3. c.what # "restart-server"  BY <1>5
  <2> HIDE DEF h
  <2> QED  BY <1>0, <1>4, <1>5, <2>1, <2>2, <2>3
<1>6. CASE /\ c.what = "restart-server"
           /\ ServerEffect(c.host, c)
           /\ UNCHANGED <<up, link, agent>>
  <2>1. CASE server[h] = "absent"
    <3>1. UNCHANGED <<up, link, server, joins, agent, data>>
      BY <1>6, <2>1 DEF ServerEffect
    <3>2. HostsOK'  BY <1>b, <3>1 DEF HostsOK
    <3>3. OneCluster'  BY <3>1 DEF OneCluster
    <3>4. ~Succeeds(c)  BY <1>6, <2>1 DEF Succeeds
    <3> QED  BY <3>1, <3>2, <3>3, <3>4 DEF Active
  <2>2. CASE server[h] # "absent"
    <3>1. joins' = joins /\ StartServer(h, joins[h]) /\ joins[h] \in Hosts \cup {None}
      BY <1>0, <1>6, <2>2 DEF ServerEffect
    <3>2. h = Primary \/ joins[h] = Primary \/ blind
      BY <1>0, <2>2 DEF OneCluster, Hosts
    <3>3. Succeeds(c) => Startable(h, joins[h])  BY <1>6 DEF Succeeds
    <3> QED  BY <1>4, <1>6, <3>1, <3>2, <3>3
  <2> QED  BY <2>1, <2>2
<1>7. c.what \in ServerCommands =>
         \/ c.what \in {"stop-server", "disable-server", "uninstall-server"}
         \/ c.what = "install-server" \/ c.what = "restart-server"
  BY DEF ServerCommands
<1> QED  BY <1>1, <1>2, <1>3, <1>5, <1>6, <1>7 DEF Effect

----------------------------------------------------------------------------
(* The invariant. *)

\* A program is all that is left of it before its first command.
LEMMA WholeProgram ==
    ASSUME NEW program \in Seq(Commands), Len(program) > 0
    PROVE  RestOf(program, program)
<1>1. Len(program) \in Nat  BY LenProperties
<1>2. Len(program) \in 1 .. Len(program)  BY <1>1
<1>3. \A i \in 1 .. Len(program) : Len(program) - Len(program) + i = i  BY <1>1
<1> QED  BY <1>2, <1>3 DEF RestOf

\* Nothing about the hosts changes while the script looks around.
LEMMA HostsKept ==
    ASSUME IInv, UNCHANGED <<hosts, blind, crashed, events>>
    PROVE  HostsOK' /\ HistoryOK' /\ OneCluster'
<1>1. UNCHANGED <<up, link, server, joins, agent, boot, data>>  BY DEF hosts
<1>2. HostsOK'  BY <1>1 DEF IInv, HostsOK
<1>3. HistoryOK'  BY DEF IInv, HistoryOK
<1>4. OneCluster'  BY <1>1 DEF IInv, OneCluster
<1> QED  BY <1>2, <1>3, <1>4

\* A run that ends, from wherever it is.
LEMMA ExitKeeps ==
    ASSUME IInv, Exit
    PROVE  RunOK' /\ ScriptOK' /\ PrimaryFirst'
<1>1. /\ pc' = "idle" /\ probe' = << >> /\ script' = << >> /\ mode' = mode
  BY DEF Exit
<1>2. << >> \in Seq(Backups)  BY EmptySeq
<1>3. RunOK'  BY <1>1, <1>2 DEF IInv, RunOK, PCs
<1> QED  BY <1>1, <1>3 DEF ScriptOK, PrimaryFirst

\* A step that moves on without a script.
LEMMA SearchKeeps ==
    ASSUME IInv, pc' # "commands", pc' \in PCs, mode' = mode, script' = << >>,
           probe' \in Seq(Backups),
           pc' \in {"service", "select", "token", "read", "join", "ip"} => mode = "failover",
           pc' \in {"find", "address"} => mode = "failback",
           pc' \in {"token", "read", "join", "ip", "address"} => chosen' \in Backups
    PROVE  RunOK' /\ ScriptOK' /\ PrimaryFirst'
<1>1. RunOK'  BY DEF IInv, RunOK
<1> QED  BY <1>1 DEF ScriptOK, PrimaryFirst

\* A step to the next command, or to the end after the last; the one that enters the
\* second half of a failback leaves the primary active.
LEMMA AdvanceKeeps ==
    ASSUME IInv, pc = "commands", Advance, blind' = blind,
           mode = "failback" /\ Len(script) <= 7 => (Active(Primary) \/ crashed)'
    PROVE  RunOK' /\ ScriptOK' /\ PrimaryFirst'
<1>1. CASE Tail(script) = << >> /\ Exit
  BY <1>1, ExitKeeps
<1>2. CASE /\ Tail(script) # << >>
           /\ script' = Tail(script)
           /\ UNCHANGED <<pc, mode, probe, chosen, token>>
  <2>1. RunOK'  BY <1>2 DEF IInv, RunOK
  <2>2. chosen \in Backups /\ chosen \in Hosts /\ Primary \in Hosts
    BY DEF IInv, RunOK, Hosts
  <2>3. ASSUME NEW program \in Seq(Commands), RestOf(script, program)
        PROVE  RestOf(script', program) /\ Len(script') = Len(script) - 1 /\ Len(script) \in Nat
    <3>1. RestOf(Tail(script), program)  BY <1>2, <2>3, RestAdvances
    <3>2. script \in Seq(Commands) /\ Len(script) \in 1 .. Len(program)  BY <2>3 DEF RestOf
    <3>3. script # << >>  BY <3>2
    <3>4. Len(Tail(script)) = Len(script) - 1  BY <3>2, <3>3, HeadTailProperties
    <3>5. Len(script) \in Nat  BY <3>2, LenProperties
    <3> QED  BY <1>2, <3>1, <3>4, <3>5
  <2>4. CASE mode = "failover"
    <3>1. /\ Promote(chosen, Primary) \in Seq(Commands)
          /\ Promote(chosen, None) \in Seq(Commands)
      BY <2>2, PromoteCommands
    <3>2. \/ RestOf(script, Promote(chosen, Primary))
          \/ RestOf(script, Promote(chosen, None)) /\ blind
      BY <2>4 DEF IInv, ScriptOK
    <3>3. \/ RestOf(script', Promote(chosen, Primary))
          \/ RestOf(script', Promote(chosen, None)) /\ blind
      BY <2>3, <3>1, <3>2
    <3>4. ScriptOK'  BY <1>2, <2>4, <3>3 DEF ScriptOK
    <3>5. PrimaryFirst'  BY <1>2, <2>4 DEF PrimaryFirst
    <3> QED  BY <2>1, <3>4, <3>5
  <2>5. CASE mode = "failback"
    <3>1. Failback(chosen) \in Seq(Commands)  BY <2>2, FailbackCommands
    <3>2. RestOf(script, Failback(chosen))  BY <2>5 DEF IInv, ScriptOK
    <3>3. /\ RestOf(script', Failback(chosen))
          /\ Len(script') = Len(script) - 1 /\ Len(script) \in Nat
      BY <2>3, <3>1, <3>2
    <3>4. ScriptOK'  BY <1>2, <2>5, <3>3 DEF ScriptOK
    <3>5. Len(script') <= 6 => Len(script) <= 7  BY <3>3
    <3>6. PrimaryFirst'  BY <1>2, <2>5, <3>5 DEF PrimaryFirst
    <3> QED  BY <2>1, <3>4, <3>6
  <2> QED  BY <2>4, <2>5 DEF IInv, RunOK
<1> QED  BY <1>1, <1>2 DEF Advance

\* Where a failback has seven commands left, the next one restarts the primary's server.
LEMMA SeventhFromLast ==
    ASSUME IInv, pc = "commands", mode = "failback", Len(script) <= 7
    PROVE  \/ Len(script) <= 6
           \/ Head(script) = Command(Primary, "restart-server", chosen)
<1>0. chosen \in Hosts /\ Primary \in Hosts  BY DEF IInv, RunOK, Hosts
<1>1. PICK p : p = Failback(chosen)  OBVIOUS
<1>2. p \in Seq(Commands) /\ Len(p) = 10 /\ \A i \in 1 .. 4 : p[i] = Promote(Primary, chosen)[i]
  BY <1>0, <1>1, FailbackCommands
<1>3. RestOf(script, p)  BY <1>1 DEF IInv, ScriptOK
<1>4. /\ Len(script) \in 1 .. Len(p)
      /\ Head(script) = p[Len(p) - Len(script) + 1]
  BY <1>2, <1>3, FirstCommand
<1>5. CASE Len(script) = 7
  <2>1. Head(script) = p[4]
    <3>1. Len(p) - Len(script) + 1 = 4  BY <1>2, <1>5
    <3> QED  BY <1>4, <3>1, Zenon
  <2>2. Promote(Primary, chosen)[4] = Command(Primary, "restart-server", chosen)
    BY <1>0, PromoteCommands
  <2>3. p[4] = Promote(Primary, chosen)[4]  BY <1>2
  <2> QED  BY <2>1, <2>2, <2>3
<1>6. CASE Len(script) # 7
  <2>1. PICK k : k = Len(script)  OBVIOUS
  <2>2. k \in 1 .. 10  BY <1>2, <1>4, <2>1
  <2>3. k <= 7 /\ k # 7  BY <1>6, <2>1
  <2>4. k <= 6  BY <2>2, <2>3
  <2> QED  BY <2>1, <2>4
<1> QED  BY <1>5, <1>6

\* The primary runs the only server, and no script.
LEMMA InitInv == Init => IInv
<1> SUFFICES ASSUME Init PROVE IInv
  OBVIOUS
<1>0. Primary \in Hosts /\ Primary \notin Backups /\ None \notin Hosts /\ Backups \subseteq Hosts
  BY ControlPlaneAssumption DEF Hosts
<1>1. HostsOK
  <2>1. {"active", "absent"} \subseteq Units  BY DEF Units
  <2>2. server \in [Hosts -> Units] /\ agent \in [Hosts -> Units]  BY <2>1 DEF Init
  <2>3. data \in [Hosts -> Hosts \cup {None}] /\ joins \in [Hosts -> Hosts \cup {None}]
    BY <1>0 DEF Init
  <2>4. up = Hosts /\ link = Hosts  BY DEF Init
  <2>b. boot \subseteq Hosts \X {"server", "agent"}  BY <1>0 DEF Init
  <2>5. \A h \in Hosts : server[h] = "active" => data[h] # None
    <3>1. ASSUME NEW h \in Hosts, server[h] = "active" PROVE data[h] # None
      <4>1. h = Primary  BY <3>1 DEF Init
      <4> QED  BY <1>0, <4>1 DEF Init
    <3> QED  BY <3>1
  <2> QED  BY <2>2, <2>3, <2>4, <2>b, <2>5 DEF HostsOK
<1>2. HistoryOK  BY DEF Init, HistoryOK
<1>3. RunOK
  <2>1. << >> \in Seq(Backups)  BY EmptySeq
  <2> QED  BY <2>1 DEF Init, RunOK, PCs
<1>4. ScriptOK /\ PrimaryFirst  BY DEF Init, ScriptOK, PrimaryFirst
<1>5. OneCluster
  <2>1. data[Primary] = Primary  BY <1>0 DEF Init
  <2>2. \A h \in Backups : data[h] = None /\ server[h] = "absent"  BY <1>0 DEF Init
  <2> QED  BY <2>1, <2>2 DEF OneCluster
<1> QED  BY <1>1, <1>2, <1>3, <1>4, <1>5 DEF IInv

\* The steps before the commands: looking around, and beginning a script.
LEMMA SearchStep ==
    ASSUME IInv,
           \/ CheckPrimary \/ CheckService \/ SelectStandby \/ ProbePrimary
           \/ ReadFromPrimary \/ FindActive \/ ReadAddress
    PROVE  IInv'
<1>0. /\ pc \in PCs /\ mode \in {"failover", "failback"} /\ probe \in Seq(Backups)
      /\ pc # "commands" => script = << >>
      /\ pc \in {"service", "select", "token", "read", "join", "ip"} => mode = "failover"
      /\ pc \in {"find", "address"} => mode = "failback"
      /\ pc \in {"token", "read", "join", "ip", "address", "commands"} => chosen \in Backups
  BY DEF IInv, RunOK
<1>e. << >> \in Seq(Backups) /\ Standbys \in Seq(Backups)
  BY EmptySeq, ControlPlaneAssumption
<1>h. probe # << >> => Head(probe) \in Backups /\ Tail(probe) \in Seq(Backups)
  BY <1>0, HeadTailProperties
<1>b. Backups \subseteq Hosts /\ Primary \in Hosts  BY DEF Hosts
<1>1. CASE CheckPrimary
  <2>1. HostsOK' /\ HistoryOK' /\ OneCluster'
    BY <1>1, HostsKept DEF CheckPrimary, hosts
  <2>2. CASE Exit
    BY <2>1, <2>2, ExitKeeps DEF IInv
  <2>3. CASE /\ UNCHANGED <<mode, chosen, token, script>>
             /\ \/ pc' \in {"service", "select"} /\ mode = "failover"
                \/ pc' = "find" /\ mode = "failback"
             /\ probe' \in {<< >>, Standbys}
    <3>1. pc' \in PCs /\ pc' # "commands"  BY <2>3 DEF PCs
    <3>2. script' = << >>  BY <1>0, <1>1, <2>3 DEF CheckPrimary
    <3>3. RunOK' /\ ScriptOK' /\ PrimaryFirst'
      BY <1>e, <2>3, <3>1, <3>2, SearchKeeps
    <3> QED  BY <2>1, <3>3 DEF IInv
  <2> QED  BY <1>0, <1>1, <2>2, <2>3 DEF CheckPrimary
<1>2. CASE CheckService
  <2>1. HostsOK' /\ HistoryOK' /\ OneCluster'
    BY <1>2, HostsKept DEF CheckService
  <2>2. CASE Exit
    BY <2>1, <2>2, ExitKeeps DEF IInv
  <2>3. CASE pc' = "select" /\ probe' = Standbys /\ UNCHANGED <<mode, chosen, token, script>>
    <3>1. pc' \in PCs /\ pc' # "commands"  BY <2>3 DEF PCs
    <3>2. script' = << >> /\ mode = "failover"  BY <1>0, <1>2, <2>3 DEF CheckService
    <3>3. RunOK' /\ ScriptOK' /\ PrimaryFirst'
      BY <1>e, <2>3, <3>1, <3>2, SearchKeeps
    <3> QED  BY <2>1, <3>3 DEF IInv
  <2> QED  BY <1>2, <2>2, <2>3 DEF CheckService
<1>3. CASE SelectStandby
  <2>1. HostsOK' /\ HistoryOK' /\ OneCluster'
    BY <1>3, HostsKept DEF SelectStandby
  <2>2. CASE Exit
    BY <2>1, <2>2, ExitKeeps DEF IInv
  <2>3. CASE /\ probe # << >>
             /\ \/ chosen' = Head(probe) /\ pc' \in {"join", "token"} /\ UNCHANGED probe
                \/ probe' = Tail(probe) /\ UNCHANGED <<pc, chosen>>
             /\ UNCHANGED <<mode, token, script>>
    <3>0. pc = "select"  BY <1>3 DEF SelectStandby
    <3>1. pc' \in PCs /\ pc' # "commands"  BY <2>3, <3>0 DEF PCs
    <3>2. script' = << >> /\ mode = "failover"  BY <1>0, <3>0, <2>3
    <3>3. probe' \in Seq(Backups)  BY <1>0, <1>h, <2>3
    <3>4. pc' \in {"token", "read", "join", "ip", "address"} => chosen' \in Backups
      BY <1>h, <2>3, <3>0
    <3>5. pc' \notin {"find", "address"}  BY <2>3, <3>0
    <3>6. RunOK' /\ ScriptOK' /\ PrimaryFirst'
      BY <2>3, <3>1, <3>2, <3>3, <3>4, <3>5, SearchKeeps
    <3> QED  BY <2>1, <3>6 DEF IInv
  <2> QED  BY <1>3, <2>2, <2>3 DEF SelectStandby
<1>4. CASE ProbePrimary
  <2>0. pc \in {"token", "join"} /\ mode = "failover" /\ chosen \in Backups /\ script = << >>
    BY <1>0, <1>4 DEF ProbePrimary
  <2>1. CASE /\ pc' = IF pc = "token" THEN "read" ELSE "ip"
             /\ UNCHANGED <<script, blind>>
    <3>1. HostsOK' /\ HistoryOK' /\ OneCluster'
      BY <1>4, <2>1, HostsKept DEF ProbePrimary
    <3>2. /\ pc' \in PCs /\ pc' # "commands" /\ pc' \in {"read", "ip"}
          /\ mode' = mode /\ script' = << >> /\ probe' = probe /\ chosen' = chosen
      BY <1>4, <2>0, <2>1 DEF ProbePrimary, PCs
    <3>3. RunOK' /\ ScriptOK' /\ PrimaryFirst'
      BY <1>0, <2>0, <3>2, SearchKeeps
    <3> QED  BY <3>1, <3>3 DEF IInv
  <2>2. CASE /\ pc' = "commands"
             /\ script' = Promote(chosen, None)
             /\ blind' = TRUE
    <3>1. UNCHANGED <<up, link, server, joins, agent, boot, data, mode, probe, chosen, crashed,
                      events>>
      BY <1>4 DEF ProbePrimary, hosts
    <3>2. HostsOK' /\ HistoryOK' /\ OneCluster'
      BY <2>2, <3>1 DEF IInv, HostsOK, HistoryOK, OneCluster
    <3>3. RunOK'  BY <1>0, <2>0, <2>2, <3>1 DEF RunOK, PCs
    <3>4. Promote(chosen, None) \in Seq(Commands) /\ Len(Promote(chosen, None)) = 4
      BY <1>b, <2>0, PromoteCommands
    <3>5. RestOf(Promote(chosen, None), Promote(chosen, None))
      BY <3>4, WholeProgram
    <3>6. ScriptOK'  BY <2>0, <2>2, <3>1, <3>5 DEF ScriptOK
    <3>7. PrimaryFirst'  BY <2>0, <3>1 DEF PrimaryFirst
    <3> QED  BY <3>2, <3>3, <3>6, <3>7 DEF IInv
  <2> QED  BY <1>4, <2>1, <2>2 DEF ProbePrimary
<1>5. CASE ReadFromPrimary
  <2>0. pc \in {"read", "ip"} /\ mode = "failover" /\ chosen \in Backups /\ script = << >>
    BY <1>0, <1>5 DEF ReadFromPrimary
  <2>h. HostsOK' /\ HistoryOK' /\ OneCluster'
    BY <1>5, HostsKept DEF ReadFromPrimary
  <2>1. CASE Exit
    BY <2>h, <2>1, ExitKeeps DEF IInv
  <2>2. CASE pc' = "join" /\ UNCHANGED <<script, mode, probe, chosen>>
    <3>1. pc' \in PCs /\ pc' # "commands"  BY <2>2 DEF PCs
    <3>2. RunOK' /\ ScriptOK' /\ PrimaryFirst'
      BY <1>0, <2>0, <2>2, <3>1, SearchKeeps
    <3> QED  BY <2>h, <3>2 DEF IInv
  <2>3. CASE /\ pc' = "commands" /\ script' = Promote(chosen, Primary)
             /\ UNCHANGED <<mode, probe, chosen>>
    <3>1. RunOK'  BY <1>0, <2>0, <2>3 DEF RunOK, PCs
    <3>2. Promote(chosen, Primary) \in Seq(Commands) /\ Len(Promote(chosen, Primary)) = 4
      BY <1>b, <2>0, PromoteCommands
    <3>3. RestOf(Promote(chosen, Primary), Promote(chosen, Primary))
      BY <3>2, WholeProgram
    <3>4. ScriptOK'  BY <2>0, <2>3, <3>3 DEF ScriptOK
    <3>5. PrimaryFirst'  BY <2>0, <2>3 DEF PrimaryFirst
    <3> QED  BY <2>h, <3>1, <3>4, <3>5 DEF IInv
  <2> QED  BY <1>5, <2>1, <2>2, <2>3 DEF ReadFromPrimary
<1>6. CASE FindActive
  <2>1. HostsOK' /\ HistoryOK' /\ OneCluster'
    BY <1>6, HostsKept DEF FindActive
  <2>2. CASE Exit
    BY <2>1, <2>2, ExitKeeps DEF IInv
  <2>3. CASE /\ probe # << >>
             /\ \/ chosen' = Head(probe) /\ pc' = "address" /\ UNCHANGED probe
                \/ probe' = Tail(probe) /\ UNCHANGED <<pc, chosen>>
             /\ UNCHANGED <<mode, token, script>>
    <3>0. pc = "find"  BY <1>6 DEF FindActive
    <3>1. pc' \in PCs /\ pc' # "commands"  BY <2>3, <3>0 DEF PCs
    <3>2. script' = << >> /\ mode = "failback"  BY <1>0, <3>0, <2>3
    <3>3. probe' \in Seq(Backups)  BY <1>0, <1>h, <2>3
    <3>4. pc' \in {"token", "read", "join", "ip", "address"} => chosen' \in Backups
      BY <1>h, <2>3, <3>0
    <3>5. pc' \notin {"service", "select", "token", "read", "join", "ip"}  BY <2>3, <3>0
    <3>6. RunOK' /\ ScriptOK' /\ PrimaryFirst'
      BY <2>3, <3>1, <3>2, <3>3, <3>4, <3>5, SearchKeeps
    <3> QED  BY <2>1, <3>6 DEF IInv
  <2> QED  BY <1>6, <2>2, <2>3 DEF FindActive
<1>7. CASE ReadAddress
  <2>0. pc = "address" /\ mode = "failback" /\ chosen \in Backups
    BY <1>0, <1>7 DEF ReadAddress
  <2>h. HostsOK' /\ HistoryOK' /\ OneCluster'
    BY <1>7, HostsKept DEF ReadAddress
  <2>1. CASE Exit
    BY <2>h, <2>1, ExitKeeps DEF IInv
  <2>2. CASE /\ pc' = "commands" /\ script' = Failback(chosen)
             /\ UNCHANGED <<mode, probe, chosen>>
    <3>1. RunOK'  BY <1>0, <2>0, <2>2 DEF RunOK, PCs
    <3>2. Failback(chosen) \in Seq(Commands) /\ Len(Failback(chosen)) = 10
      BY <1>b, <2>0, FailbackCommands
    <3>3. RestOf(Failback(chosen), Failback(chosen))
      BY <3>2, WholeProgram, SMTT(30)
    <3>4. ScriptOK'  BY <2>0, <2>2, <3>3 DEF ScriptOK
    <3>5. Len(script') = 10  BY <2>2, <3>2
    <3>6. PrimaryFirst'  BY <3>5 DEF PrimaryFirst
    <3> QED  BY <2>h, <3>1, <3>4, <3>6 DEF IInv
  <2> QED  BY <1>7, <2>1, <2>2 DEF ReadAddress
<1> QED  BY <1>1, <1>2, <1>3, <1>4, <1>5, <1>6, <1>7

\* A command that runs, is skipped, or fails.
LEMMA CommandStep ==
    ASSUME IInv, RunCommand \/ InstallSkipped \/ CommandFails
    PROVE  /\ IInv'
           /\ \A h \in Hosts : Active(h) =>
                 Active(h)' \/ (h \in Backups /\ (Active(Primary) \/ crashed))
<1> DEFINE c == Head(script)
<1>0. /\ pc = "commands" /\ GoodCommand(c) /\ HostsOK /\ OneCluster /\ HistoryOK
      /\ blind' = blind /\ crashed' = crashed /\ events' = events
      /\ Primary \in Hosts /\ Primary \notin Backups
  BY NextCommand, ControlPlaneAssumption
     DEF IInv, RunCommand, InstallSkipped, CommandFails, Hosts
<1>1. HistoryOK'  BY <1>0 DEF HistoryOK
<1>2. ASSUME HostsOK', OneCluster', RunOK', ScriptOK', PrimaryFirst'
      PROVE  IInv'
  BY <1>1, <1>2 DEF IInv
<1>3. CASE InstallSkipped
  <2>1. UNCHANGED <<up, link, server, joins, agent, boot, data>>  BY <1>3 DEF InstallSkipped, hosts
  <2>2. HostsOK' /\ OneCluster'  BY <1>0, <2>1 DEF HostsOK, OneCluster
  <2>3. mode = "failback" /\ Len(script) <= 7 => (Active(Primary) \/ crashed)'
    <3>1. SUFFICES ASSUME mode = "failback", Len(script) <= 7
                   PROVE  (Active(Primary) \/ crashed)'
      OBVIOUS
    <3>2. c.what # "restart-server"  BY <1>3 DEF InstallSkipped
    <3>3. c # Command(Primary, "restart-server", chosen)  BY <3>2 DEF Command
    <3>4. Len(script) <= 6  BY <1>0, <3>1, <3>3, SeventhFromLast
    <3>5. Active(Primary) \/ crashed  BY <1>0, <3>1, <3>4 DEF IInv, PrimaryFirst
    <3> QED  BY <1>0, <2>1, <3>5 DEF Active
  <2>4. RunOK' /\ ScriptOK' /\ PrimaryFirst'
    BY <1>0, <1>3, <2>3, AdvanceKeeps DEF InstallSkipped
  <2>5. \A h \in Hosts : Active(h) => Active(h)'  BY <2>1 DEF Active
  <2> QED  BY <1>2, <2>2, <2>4, <2>5
<1>4. CASE RunCommand
  <2>1. c.host \in up /\ Effect(c) /\ Succeeds(c) /\ Advance
    BY <1>4 DEF RunCommand, Ssh
  <2> HIDE DEF c
  <2>2. /\ HostsOK' /\ OneCluster' /\ up' = up
        /\ \A h \in Hosts : Active(h) =>
              Active(h)' \/ (h \in Backups /\ (Active(Primary) \/ crashed))
        /\ c.what = "restart-server" => server'[c.host] = "active"
    BY <1>0, <2>1, EffectKeeps
  <2>3. mode = "failback" /\ Len(script) <= 7 => (Active(Primary) \/ crashed)'
    <3>1. SUFFICES ASSUME mode = "failback", Len(script) <= 7
                   PROVE  (Active(Primary) \/ crashed)'
      OBVIOUS
    <3>2. CASE Len(script) <= 6
      <4>1. Active(Primary) \/ crashed  BY <1>0, <3>1, <3>2 DEF IInv, PrimaryFirst
      <4> QED  BY <1>0, <2>2, <4>1
    <3>3. CASE c = Command(Primary, "restart-server", chosen)
      <4>1. c.what = "restart-server" /\ c.host = Primary  BY <3>3 DEF Command
      <4> QED  BY <2>1, <2>2, <4>1 DEF Active
    <3> QED  BY <1>0, <3>1, <3>2, <3>3, SeventhFromLast DEF c
  <2>4. RunOK' /\ ScriptOK' /\ PrimaryFirst'
    BY <1>0, <2>1, <2>3, AdvanceKeeps
  <2> QED  BY <1>2, <2>2, <2>4
<1>5. CASE CommandFails
  <2>1. Exit  BY <1>5 DEF CommandFails
  <2>2. RunOK' /\ ScriptOK' /\ PrimaryFirst'  BY <2>1, ExitKeeps
  <2>3. CASE UNCHANGED hosts
    <3>1. UNCHANGED <<up, link, server, joins, agent, boot, data>>  BY <2>3 DEF hosts
    <3>2. HostsOK' /\ OneCluster'  BY <1>0, <3>1 DEF HostsOK, OneCluster
    <3>3. \A h \in Hosts : Active(h) => Active(h)'  BY <3>1 DEF Active
    <3> QED  BY <1>2, <2>2, <3>2, <3>3
  <2>4. CASE c.host \in up /\ Effect(c)
    <3> HIDE DEF c
    <3>1. /\ HostsOK' /\ OneCluster'
          /\ \A h \in Hosts : Active(h) =>
                Active(h)' \/ (h \in Backups /\ (Active(Primary) \/ crashed))
      BY <1>0, <2>4, EffectKeeps
    <3> QED  BY <1>2, <2>2, <3>1
  <2> QED  BY <1>5, <2>3, <2>4 DEF CommandFails
<1> QED  BY <1>3, <1>4, <1>5

\* Hosts, links and servers that fail or recover.
LEMMA EventStep ==
    ASSUME IInv, NEW h \in Hosts,
           PowerFails(h) \/ PowerReturns(h) \/ LinkChanges(h) \/ ServerFails(h)
    PROVE  IInv' /\ events' # events
<1>0. /\ HostsOK /\ HistoryOK /\ OneCluster
      /\ Primary \in Hosts /\ Backups \subseteq Hosts
      /\ UNCHANGED <<joins, boot, data, pc, mode, probe, chosen, token, script, blind>>
      /\ events' = events + 1
  BY DEF IInv, PowerFails, PowerReturns, LinkChanges, ServerFails, Event, run, Hosts
<1>1. RunOK' /\ ScriptOK'  BY <1>0 DEF IInv, RunOK, ScriptOK
<1>2. events' # events /\ events' \in Nat  BY <1>0 DEF HistoryOK
<1>3. PICK s : /\ server' = [server EXCEPT ![h] = s]
               /\ \/ s = Stopped(server[h]) /\ up' = up \ {h} /\ PowerFails(h)
                  \/ /\ s \in {server[h], "trying"} /\ (s # server[h] => server[h] = "stopped")
                     /\ up' = up \cup {h} /\ h \notin up
                  \/ s = server[h] /\ up' = up
                  \/ s = "trying" /\ up' = up /\ Active(h)
  <2>1. server \in [Hosts -> Units]  BY <1>0 DEF HostsOK
  <2>2. CASE PowerFails(h)  BY <2>2 DEF PowerFails, Event
  <2>3. CASE PowerReturns(h)  BY <2>3 DEF PowerReturns, Event
  <2>4. CASE LinkChanges(h)
    <3>1. server' = server /\ up' = up  BY <2>4 DEF LinkChanges, Event
    <3> QED  BY <2>1, <3>1
  <2>5. CASE ServerFails(h)  BY <2>5 DEF ServerFails, Event
  <2> QED  BY <2>2, <2>3, <2>4, <2>5
<1>4. s \in Units /\ (server[h] = "absent" <=> s = "absent")
  BY <1>0, <1>3 DEF HostsOK, Stopped, Units, Active
<1>5. /\ server' \in [Hosts -> Units] /\ server'[h] = s
      /\ \A g \in Hosts \ {h} : server'[g] = server[g]
  BY <1>0, <1>3, <1>4 DEF HostsOK
<1>6. HostsOK'
  <2>1. up' \subseteq Hosts  BY <1>0, <1>3 DEF HostsOK
  <2>2. link' \subseteq Hosts
    BY <1>0 DEF HostsOK, PowerFails, PowerReturns, LinkChanges, ServerFails
  <2>3. agent' \in [Hosts -> Units]
    <3>1. PICK a : (agent' = [agent EXCEPT ![h] = a] /\ a \in {Stopped(agent[h]), "active", agent[h]})
                   \/ agent' = agent
      BY DEF PowerFails, PowerReturns, LinkChanges, ServerFails
    <3>2. agent \in [Hosts -> Units]  BY <1>0 DEF HostsOK
    <3>3. Stopped(agent[h]) \in Units /\ "active" \in Units /\ agent[h] \in Units
      BY <3>2 DEF Stopped, Units
    <3> QED  BY <3>1, <3>2, <3>3
  <2>4. ASSUME NEW g \in Hosts, server'[g] = "active"
        PROVE  data'[g] # None /\ g \in up'
    <3>1. CASE g # h
      <4>1. server[g] = "active"  BY <1>5, <2>4, <3>1
      <4> QED  BY <1>0, <1>3, <3>1, <4>1 DEF HostsOK
    <3>2. CASE g = h
      <4>1. s = "active"  BY <1>5, <2>4, <3>2
      <4>2. server[h] = "active" /\ h \in up'
        BY <1>0, <1>3, <4>1 DEF HostsOK, Stopped
      <4> QED  BY <1>0, <3>2, <4>2 DEF HostsOK
    <3> QED  BY <3>1, <3>2
  <2>5. joins' = joins /\ boot' = boot /\ data' = data  BY <1>0
  <2> QED  BY <1>0, <1>5, <2>1, <2>2, <2>3, <2>4, <2>5 DEF HostsOK
<1>7. OneCluster'  BY <1>0, <1>4, <1>5 DEF OneCluster
<1>8. crashed' = (crashed \/ (h = Primary /\ server[h] = "active" /\ server'[h] # "active"))
  <2>1. server \in [Hosts -> Units]  BY <1>0 DEF HostsOK
  <2> QED  BY <2>1 DEF PowerFails, PowerReturns, LinkChanges, ServerFails, Event
<1>9. crashed' \in BOOLEAN
  BY <1>0, <1>8 DEF HistoryOK
<1>10. HistoryOK'  BY <1>0, <1>2, <1>9 DEF HistoryOK
<1>11. PrimaryFirst'
  <2>1. Active(Primary) \/ crashed => (Active(Primary) \/ crashed)'
    <3>1. CASE crashed  BY <1>8, <3>1
    <3>2. CASE Active(Primary) /\ server'[Primary] = "active"
      <4>1. Primary \in up'  BY <1>0, <1>6, <3>2 DEF HostsOK
      <4> QED  BY <3>2, <4>1 DEF Active
    <3>3. CASE Active(Primary) /\ server'[Primary] # "active"
      <4>1. h = Primary  BY <1>0, <1>5, <3>3 DEF Active
      <4> QED  BY <1>8, <3>3, <4>1 DEF Active
    <3> QED  BY <3>1, <3>2, <3>3
  <2> QED  BY <1>0, <2>1 DEF IInv, PrimaryFirst
<1> QED  BY <1>1, <1>2, <1>6, <1>7, <1>10, <1>11 DEF IInv

\* systemd starts a server again, and turns none off.
LEMMA SystemdStep ==
    ASSUME IInv, NEW h \in Hosts, Systemd(h)
    PROVE  IInv' /\ \A g \in Hosts : Active(g) => Active(g)'
<1>0. /\ HostsOK /\ OneCluster /\ Primary \in Hosts /\ Backups \subseteq Hosts
      /\ h \in up /\ server[h] = "trying" /\ StartServer(h, joins[h])
      /\ UNCHANGED <<up, link, joins, agent, boot, pc, mode, probe, chosen, token, script,
                     blind, crashed, events>>
  BY DEF IInv, Systemd, run, bounds, Hosts
<1>1. joins[h] \in Hosts \cup {None}  BY <1>0 DEF HostsOK
<1>2. h = Primary \/ joins[h] = Primary \/ blind
  BY <1>0 DEF OneCluster, Hosts
<1>3. /\ server' \in [Hosts -> Units] /\ data' \in [Hosts -> Hosts \cup {None}]
      /\ server'[h] \in {"active", "trying"}
      /\ server'[h] = "active" => data'[h] # None
      /\ \A g \in Hosts \ {h} : server'[g] = server[g] /\ data'[g] = data[g]
      /\ server[h] = "active" \/ Startable(h, joins[h]) => server'[h] = "active"
      /\ ~blind => /\ data'[Primary] = Primary
                   /\ \A b \in Backups : data'[b] \in {None, Primary}
  BY <1>0, <1>1, <1>2, StartKeeps
<1>4. HostsOK'  BY <1>0, <1>3 DEF HostsOK
<1>5. OneCluster'  BY <1>0, <1>3 DEF OneCluster
<1>6. \A g \in Hosts : Active(g) => Active(g)'  BY <1>0, <1>3 DEF Active
<1>7. RunOK' /\ ScriptOK' /\ HistoryOK'  BY <1>0 DEF IInv, RunOK, ScriptOK, HistoryOK
<1>8. PrimaryFirst'  BY <1>0, <1>6 DEF IInv, PrimaryFirst
<1> QED  BY <1>4, <1>5, <1>6, <1>7, <1>8 DEF IInv

\* Each step keeps the invariant; one that is no event turns a server off only on a
\* standby, while the primary is active or has crashed.
LEMMA NextKeeps ==
    ASSUME IInv, [Next]_vars
    PROVE  /\ IInv'
           /\ events' = events =>
                 \A h \in Hosts : Active(h) =>
                    Active(h)' \/ (h \in Backups /\ (Active(Primary) \/ crashed))
<1>1. CASE UNCHANGED vars
  <2>1. UNCHANGED <<hosts, blind, crashed, events>>  BY <1>1 DEF vars, hosts
  <2>2. HostsOK' /\ HistoryOK' /\ OneCluster'  BY <2>1, HostsKept
  <2>3. RunOK' /\ ScriptOK' /\ PrimaryFirst'
    BY <1>1 DEF vars, IInv, RunOK, ScriptOK, PrimaryFirst, Active
  <2>4. \A h \in Hosts : Active(h) => Active(h)'  BY <1>1 DEF vars, Active
  <2> QED  BY <2>2, <2>3, <2>4 DEF IInv
<1>2. ASSUME NEW m \in {"failover", "failback"}, Run(m)
      PROVE  IInv' /\ \A h \in Hosts : Active(h) => Active(h)'
  <2>0. UNCHANGED <<up, link, server, joins, agent, boot, data, probe, chosen, script, blind,
                    events>>
        /\ mode' = m /\ pc' = "primary" /\ pc = "idle" /\ crashed' = FALSE
    BY <1>2 DEF Run, hosts, bounds
  <2>1. HostsOK' /\ HistoryOK' /\ OneCluster'
    BY <2>0 DEF IInv, HostsOK, HistoryOK, OneCluster
  <2>2. RunOK'  BY <2>0 DEF IInv, RunOK, PCs
  <2>3. ScriptOK' /\ PrimaryFirst'  BY <2>0 DEF ScriptOK, PrimaryFirst
  <2>4. \A h \in Hosts : Active(h) => Active(h)'  BY <2>0 DEF Active
  <2> QED  BY <2>1, <2>2, <2>3, <2>4 DEF IInv
<1>3. CASE \/ CheckPrimary \/ CheckService \/ SelectStandby \/ ProbePrimary
           \/ ReadFromPrimary \/ FindActive \/ ReadAddress
  <2>1. IInv'  BY <1>3, SearchStep
  <2>2. UNCHANGED <<up, server>>
    BY <1>3 DEF CheckPrimary, CheckService, SelectStandby, ProbePrimary, ReadFromPrimary,
                FindActive, ReadAddress, hosts
  <2>3. \A h \in Hosts : Active(h) => Active(h)'  BY <2>2 DEF Active
  <2> QED  BY <2>1, <2>3
<1>4. CASE RunCommand \/ InstallSkipped \/ CommandFails
  BY <1>4, CommandStep
<1>5. ASSUME NEW h \in Hosts,
             PowerFails(h) \/ PowerReturns(h) \/ LinkChanges(h) \/ ServerFails(h)
      PROVE  IInv' /\ events' # events
  BY <1>5, EventStep
<1>6. ASSUME NEW h \in Hosts, Systemd(h)
      PROVE  IInv' /\ \A g \in Hosts : Active(g) => Active(g)'
  BY <1>6, SystemdStep
<1> QED  BY <1>1, <1>2, <1>3, <1>4, <1>5, <1>6 DEF Next, Step

----------------------------------------------------------------------------
(* What the script keeps. *)

\* The invariant holds in every state.
LEMMA AlwaysIInv == Spec => []IInv
<1>1. IInv /\ [Next]_vars => IInv'  BY NextKeeps
<1> QED  BY InitInv, <1>1, PTL DEF Spec

\* The variables keep their types: whatever fails, the script holds commands exactly
\* while it runs them, has then chosen a standby, and an active server has data.
THEOREM TypeCorrect == Spec => []TypeOK
<1>1. IInv => TypeOK
  <2> SUFFICES ASSUME IInv PROVE TypeOK
    OBVIOUS
  <2>1. pc = "commands" <=> script # << >>
    <3>1. ASSUME pc = "commands" PROVE script # << >>
      <4>1. PICK program : RestOf(script, program)
        BY <3>1 DEF IInv, ScriptOK, RunOK
      <4>2. Len(script) \in 1 .. Len(program)  BY <4>1 DEF RestOf
      <4> QED  BY <4>2
    <3> QED  BY <3>1 DEF IInv, RunOK
  <2>2. pc = "commands" => chosen \in Backups  BY DEF IInv, RunOK
  <2> QED  BY <2>1, <2>2 DEF IInv, HostsOK, HistoryOK, RunOK, PCs, TypeOK
<1> QED  BY <1>1, AlwaysIInv, PTL

\* Servers of different clusters are active side by side only after some run could not
\* reach the primary and let a standby found a cluster of its own.
THEOREM OneClusterUnlessBlind == Spec => []SplitOnlyWhenBlind
<1>1. IInv => SplitOnlyWhenBlind
  <2> SUFFICES ASSUME IInv, NEW g \in Hosts, NEW h \in Hosts, Active(g), Active(h),
                      data[g] # data[h], ~blind
               PROVE  FALSE
    BY DEF SplitOnlyWhenBlind
  <2>1. data[g] # None /\ data[h] # None  BY DEF IInv, HostsOK, Active
  <2>2. data[g] = Primary /\ data[h] = Primary  BY <2>1 DEF IInv, OneCluster, Hosts
  <2> QED  BY <2>2
<1> QED  BY <1>1, AlwaysIInv, PTL

\* However often ssh, a download or a run fails half-way, no step of the script stops
\* the last active server, unless the primary crashed during that run.
THEOREM LastServerStays == Spec => LastServerKept
<1> DEFINE Kept == \A h \in Hosts :
                      /\ Active(h) /\ ~(Active(h))' /\ events' = events
                      => (\E o \in Hosts : Active(o))' \/ crashed
<1>1. IInv /\ [Next]_vars => [Kept]_vars
  <2> SUFFICES ASSUME IInv, [Next]_vars, NEW h \in Hosts,
                      Active(h), ~(Active(h))', events' = events, ~crashed
               PROVE  (\E o \in Hosts : Active(o))'
    OBVIOUS
  <2>1. h \in Backups /\ Active(Primary)  BY NextKeeps
  <2>2. Primary \in Hosts /\ Primary \notin Backups  BY ControlPlaneAssumption DEF Hosts
  <2>3. Active(Primary)'  BY <2>1, <2>2, NextKeeps
  <2> QED  BY <2>2, <2>3
<1> QED  BY <1>1, AlwaysIInv, PTL DEF Spec, LastServerKept

===============================================================================
