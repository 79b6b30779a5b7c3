---------------------------- MODULE Reach_proofs ----------------------------
(***************************************************************************)
(* Proofs about Reach, for every set of command lines.                      *)
(***************************************************************************)
EXTENDS Reach, TLAPS

SetUp == {"resolve", "ssh", "stage", "aborted"}
Booted == {"load", "tailnet", "sshd", "entrypoint", "running"}

----------------------------------------------------------------------------
(* The entrypoint.                                                         *)

\* The program carries the entrypoint it checked, in both its ways across.
Checked ==
  /\ pc \notin {"resolve", "aborted"} =>
       entry = ResolveEntrypoint(line) /\ ~DiesDetached(line, entry)
  /\ pc \in {"auth", "pivot", "load"} => staged.entry = entry
  /\ pc \in Booted => argv = entry
  /\ pc \in Booted \ {"load"} => conf = Nil \/ conf.entry = entry
  /\ pc = "running" => supervised = entry

LEMMA NextChecked == Checked /\ [Next]_vars => Checked'
<1> SUFFICES ASSUME Checked, [Next]_vars PROVE Checked'
  OBVIOUS
<1> USE DEF Checked, Booted
<1>1. CASE Resolve
  BY <1>1 DEF Resolve, Moves, MovesOnly
<1>2. CASE GeneratePassword
  BY <1>2 DEF GeneratePassword, Moves, MovesOnly
<1>3. CASE KeepCredentials
  BY <1>3 DEF KeepCredentials, Moves, MovesOnly, pivoting
<1>4. CASE WriteConfig
  <2>1. staged'.entry = entry
    BY <1>4 DEF WriteConfig, PostpivotConfig
  <2> QED
    BY <1>4, <2>1 DEF WriteConfig, Moves, MovesOnly
<1>5. CASE PreAuth
  BY <1>5 DEF PreAuth, Moves, MovesOnly, pivoting
<1>6. CASE Exec
  BY <1>6 DEF Exec, Moves, MovesOnly
<1>7. CASE Abort
  BY <1>7 DEF Abort, pivoting, loaded
<1>8. CASE LoadConfig
  BY <1>8 DEF LoadConfig, Moves, MovesOnly
<1>9. CASE JoinTailnet \/ TailnetFails
  BY <1>9 DEF JoinTailnet, TailnetFails, Moves, MovesOnly, pivoting, loaded
<1>10. CASE StartSSHServer
  BY <1>10 DEF StartSSHServer, Moves, MovesOnly, pivoting, loaded
<1>11. CASE Supervise
  BY <1>11 DEF Supervise, Moves, MovesOnly, pivoting
<1>12. CASE Server \/ Clients
  <2>1. Idle
    BY <1>12 DEF Server, Clients, Bind, Serve, Accept, EndConn, AcceptFails, ServeEnds
  <2> QED
    BY <2>1 DEF Idle, pivoting, loaded
<1>13. CASE Environment \/ UNCHANGED vars
  BY <1>13 DEF Environment, ControlChanges, LoginLapses, vars, outside, pivoting, loaded
<1> QED
  BY <1>1, <1>2, <1>3, <1>4, <1>5, <1>6, <1>7, <1>8, <1>9, <1>10, <1>11, <1>12, <1>13
     DEF Next, BeforePivot, AfterPivot

\* What the supervisor runs is what was resolved and checked before the pivot.
THEOREM SupervisesChecked == Spec => []SupervisesWhatWasChecked
<1>1. Init => Checked
  BY DEF Init, Checked, Booted
<1>2. Checked => SupervisesWhatWasChecked
  BY DEF Checked, SupervisesWhatWasChecked
<1> QED
  BY <1>1, <1>2, NextChecked, PTL DEF Spec

----------------------------------------------------------------------------
(* The credentials.                                                        *)

Port22 == MeantPort(SshPort(line))

\* Where the password comes from, and what is printed of it.
Credentials ==
  /\ line \in Lines
  /\ pc \in SetUp \union {"auth", "pivot"} \union Booted
  /\ password \in {line.password, "generated"}
  /\ password = "generated" => /\ line.keys = "none" /\ pc \notin {"resolve", "ssh"}
                              /\ Printed("generated", "before")
  /\ \A b \in shown : b.password = "generated" /\ b.port = Port22 /\ password = "generated"

\* The configuration says the same on both sides.
Delivered ==
  /\ pc \in {"auth", "pivot", "load"} => staged = PostpivotConfig
  /\ pc \notin Booted \ {"load"} => conf = Nil
  /\ conf = Nil \/ conf = PostpivotConfig

\* The server works from it, and the generated password was printed again.
Serving ==
  /\ sshd # "none" => /\ pc \in {"entrypoint", "running"}
                      /\ conf = PostpivotConfig /\ SSHEnabled(line)
                      /\ password = "generated" => Printed("generated", "after")
  /\ \A l \in bound : l.port = Port22
  /\ sshd \in {"none", "bind"} => bound = {}
  /\ sshd \in {"serving", "ended"} => accepts = Accepted(SSHConfig) /\ accepts # {}

LEMMA SSHOfConfig ==
  /\ PostpivotConfig # Nil
  /\ PostpivotConfig.ssh = IF SSHEnabled(line) THEN SSHConfig ELSE Nil
  /\ SSHConfig # Nil
  /\ SSHConfig.password = password
  /\ SSHConfig.generated = (password = "generated")
  /\ SSHConfig.port = SshPort(line)
  /\ SSHConfig.keys = line.keys
<1>1. PostpivotConfig.kind = "config" /\ Nil.kind = "nil"
  BY DEF PostpivotConfig, Nil
<1>2. SSHConfig # Nil
  <2>1. "kind" \in DOMAIN Nil /\ "kind" \notin DOMAIN SSHConfig
    BY DEF Nil, SSHConfig
  <2> QED
    BY <2>1
<1> QED
  BY <1>1, <1>2 DEF PostpivotConfig, SSHConfig

LEMMA BannerSays ==
  ASSUME NEW w, NEW pw, NEW port
  PROVE  /\ Banner(w, pw, port).when = w
         /\ Banner(w, pw, port).password = pw
         /\ Banner(w, pw, port).port = MeantPort(port)
  BY DEF Banner

LEMMA NextCredentials == Credentials /\ Delivered /\ [Next]_vars => Credentials'
<1> SUFFICES ASSUME Credentials, Delivered, [Next]_vars PROVE Credentials'
  OBVIOUS
<1> USE DEF Credentials, SetUp, Booted, Port22
<1>1. CASE Resolve
  BY <1>1 DEF Resolve, Moves, MovesOnly, Printed
<1>2. CASE GeneratePassword
  <2>1. /\ line' = line /\ pc' = "stage" /\ password' = "generated" /\ line.keys = "none"
        /\ shown' = shown \union {Banner("before", "generated", SshPort(line))}
    BY <1>2 DEF GeneratePassword, Moves, MovesOnly, NeedsPassword
  <2>2. SshPort(line)' = SshPort(line)
    BY <2>1 DEF SshPort, NormalPort
  <2>3. \A b \in shown' : b.password = "generated" /\ b.port = MeantPort(SshPort(line))
    BY <2>1, BannerSays
  <2>4. Printed("generated", "before")'
    BY <2>1, BannerSays DEF Printed
  <2> QED
    BY <2>1, <2>2, <2>3, <2>4
<1>3. CASE KeepCredentials
  BY <1>3 DEF KeepCredentials, Moves, MovesOnly, pivoting, Printed
<1>4. CASE WriteConfig
  BY <1>4 DEF WriteConfig, Moves, MovesOnly, Printed
<1>5. CASE PreAuth
  BY <1>5 DEF PreAuth, Moves, MovesOnly, pivoting, Printed
<1>6. CASE Exec
  BY <1>6 DEF Exec, Moves, MovesOnly, Printed
<1>7. CASE Abort
  BY <1>7 DEF Abort, pivoting, Printed
<1>8. CASE LoadConfig
  BY <1>8 DEF LoadConfig, Moves, MovesOnly, Printed
<1>9. CASE JoinTailnet \/ TailnetFails
  BY <1>9 DEF JoinTailnet, TailnetFails, Moves, MovesOnly, pivoting, loaded, Printed
<1>10. CASE StartSSHServer
  <2>1. line' = line /\ password' = password /\ pc' = "entrypoint" /\ pc = "sshd"
    BY <1>10 DEF StartSSHServer, Moves, MovesOnly, pivoting
  <2>2. SshPort(line)' = SshPort(line)
    BY <2>1 DEF SshPort, NormalPort
  <2>3. CASE WantsSSH /\ conf.ssh.generated /\ conf.ssh.password # None
    <3>1. conf = PostpivotConfig
      BY <2>3 DEF Delivered, WantsSSH
    <3>2. conf.ssh = SSHConfig
      BY <3>1, <2>3, SSHOfConfig DEF WantsSSH
    <3>3. password = "generated" /\ conf.ssh.password = password /\ conf.ssh.port = SshPort(line)
      BY <3>2, <2>3, SSHOfConfig
    <3>4. shown' = shown \union {Banner("after", password, SshPort(line))}
      BY <1>10, <2>3, <3>3 DEF StartSSHServer
    <3>5. \A b \in shown' : b.password = "generated" /\ b.port = MeantPort(SshPort(line))
      BY <3>3, <3>4, BannerSays
    <3>6. Printed("generated", "before")'
      BY <3>3, <3>4 DEF Printed
    <3> QED
      BY <2>1, <2>2, <3>3, <3>5, <3>6
  <2>4. CASE ~(WantsSSH /\ conf.ssh.generated /\ conf.ssh.password # None)
    <3>1. shown' = shown
      BY <1>10, <2>4 DEF StartSSHServer
    <3> QED
      BY <2>1, <2>2, <3>1 DEF Printed
  <2> QED
    BY <2>3, <2>4
<1>11. CASE Supervise
  BY <1>11 DEF Supervise, Moves, MovesOnly, pivoting, Printed
<1>12. CASE Server \/ Clients
  <2>1. Idle
    BY <1>12 DEF Server, Clients, Bind, Serve, Accept, EndConn, AcceptFails, ServeEnds
  <2> QED
    BY <2>1 DEF Idle, pivoting, Printed
<1>13. CASE Environment \/ UNCHANGED vars
  BY <1>13 DEF Environment, ControlChanges, LoginLapses, vars, outside, pivoting, Printed
<1> QED
  BY <1>1, <1>2, <1>3, <1>4, <1>5, <1>6, <1>7, <1>8, <1>9, <1>10, <1>11, <1>12, <1>13
     DEF Next, BeforePivot, AfterPivot

\* The configuration is a function of what no step changes once it is staged.
LEMMA ConfigStays ==
  ASSUME UNCHANGED <<line, entry, password>>
  PROVE  PostpivotConfig' = PostpivotConfig /\ SSHConfig' = SSHConfig /\ Port22' = Port22
         /\ SSHEnabled(line)' = SSHEnabled(line)
<1>1. SshPort(line)' = SshPort(line) /\ SSHEnabled(line)' = SSHEnabled(line)
  BY DEF SshPort, NormalPort, SSHEnabled
<1>2. SSHConfig' = SSHConfig /\ Port22' = Port22
  BY <1>1 DEF SSHConfig, Port22
<1> QED
  BY <1>1, <1>2 DEF PostpivotConfig

LEMMA NextDelivered == Credentials /\ Delivered /\ [Next]_vars => Delivered'
<1> SUFFICES ASSUME Credentials, Delivered, [Next]_vars PROVE Delivered'
  OBVIOUS
<1>1. CASE Resolve
  BY <1>1 DEF Delivered, Booted, Resolve, Moves, MovesOnly, loaded
<1>2. CASE GeneratePassword
  BY <1>2 DEF Delivered, Booted, GeneratePassword, Moves, MovesOnly, loaded
<1>3. CASE KeepCredentials
  BY <1>3 DEF Delivered, Booted, KeepCredentials, Moves, MovesOnly, loaded
<1>4. CASE WriteConfig
  <2>1. UNCHANGED <<line, entry, password>>
    BY <1>4 DEF WriteConfig, Moves, MovesOnly
  <2>2. PostpivotConfig' = PostpivotConfig
    BY <2>1, ConfigStays
  <2> QED
    BY <1>4, <2>2 DEF Delivered, Booted, WriteConfig, Moves, MovesOnly, loaded
<1>5. CASE PreAuth
  <2>1. UNCHANGED <<line, entry, password>>
    BY <1>5 DEF PreAuth, Moves, MovesOnly, pivoting
  <2>2. PostpivotConfig' = PostpivotConfig
    BY <2>1, ConfigStays
  <2> QED
    BY <1>5, <2>2 DEF Delivered, Booted, PreAuth, Moves, MovesOnly, pivoting, loaded
<1>6. CASE Exec
  <2>1. UNCHANGED <<line, entry, password>>
    BY <1>6 DEF Exec, Moves, MovesOnly
  <2>2. PostpivotConfig' = PostpivotConfig
    BY <2>1, ConfigStays
  <2> QED
    BY <1>6, <2>2 DEF Delivered, Booted, Exec, Moves, MovesOnly, loaded
<1>7. CASE Abort
  BY <1>7 DEF Abort, Delivered, Booted, loaded
<1>8. CASE LoadConfig
  <2>1. UNCHANGED <<line, entry, password>>
    BY <1>8 DEF LoadConfig, Moves, MovesOnly
  <2>2. PostpivotConfig' = PostpivotConfig
    BY <2>1, ConfigStays
  <2> QED
    BY <1>8, <2>2 DEF Delivered, Booted, LoadConfig, Moves, MovesOnly
<1>9. CASE (AfterPivot /\ ~LoadConfig) \/ TailnetFails
  <2>1. UNCHANGED <<line, entry, password, staged, conf>>
    BY <1>9 DEF AfterPivot, JoinTailnet, TailnetFails, StartSSHServer, Supervise, Moves, MovesOnly, pivoting, loaded
  <2>2. PostpivotConfig' = PostpivotConfig
    BY <2>1, ConfigStays
  <2>3. pc \in Booted \ {"load"} /\ pc' \in Booted \ {"load"}
    BY <1>9 DEF AfterPivot, JoinTailnet, TailnetFails, StartSSHServer, Supervise, Moves, MovesOnly, Booted
  <2> QED
    BY <2>1, <2>2, <2>3 DEF Delivered, Booted
<1>10. CASE Server \/ Clients \/ Environment \/ UNCHANGED vars
  <2>1. UNCHANGED <<line, entry, password, staged, conf, pc>>
    BY <1>10 DEF Server, Clients, Bind, Serve, Accept, EndConn, AcceptFails, ServeEnds, Idle,
                 Environment, ControlChanges, LoginLapses, vars, outside, pivoting, loaded
  <2>2. PostpivotConfig' = PostpivotConfig
    BY <2>1, ConfigStays
  <2> QED
    BY <2>1, <2>2 DEF Delivered
<1> QED
  BY <1>1, <1>2, <1>3, <1>4, <1>5, <1>6, <1>7, <1>8, <1>9, <1>10 DEF Next, BeforePivot

LEMMA NextServing == Credentials /\ Delivered /\ Serving /\ [Next]_vars => Serving'
<1> SUFFICES ASSUME Credentials, Delivered, Serving, [Next]_vars PROVE Serving'
  OBVIOUS
<1>1. CASE BeforePivot
  <2>1. sshd = "none" /\ UNCHANGED <<sshd, bound>>
    BY <1>1 DEF BeforePivot, Resolve, GeneratePassword, KeepCredentials, WriteConfig, PreAuth, Exec,
                Abort, Moves, MovesOnly, server, Serving
  <2> QED
    BY <2>1 DEF Serving
<1>2. CASE LoadConfig \/ JoinTailnet \/ TailnetFails
  <2>1. sshd = "none" /\ UNCHANGED <<sshd, bound>>
    BY <1>2 DEF LoadConfig, JoinTailnet, TailnetFails, Moves, MovesOnly, server, Serving
  <2> QED
    BY <2>1 DEF Serving
<1>3. CASE StartSSHServer
  <2>1. /\ UNCHANGED <<line, entry, password, conf, bound>> /\ pc' = "entrypoint" /\ pc = "sshd"
        /\ sshd = "none"
    BY <1>3 DEF StartSSHServer, Moves, MovesOnly, pivoting, loaded, Serving
  <2>2. PostpivotConfig' = PostpivotConfig /\ SSHConfig' = SSHConfig /\ Port22' = Port22
        /\ SSHEnabled(line)' = SSHEnabled(line)
    BY <2>1, ConfigStays
  <2>3. bound = {}
    BY <2>1 DEF Serving
  <2>4. CASE ~WantsSSH
    <3>1. sshd' = "none"
      BY <1>3, <2>1, <2>4 DEF StartSSHServer
    <3> QED
      BY <2>1, <2>3, <3>1 DEF Serving
  <2>5. CASE WantsSSH
    <3>1. conf = PostpivotConfig /\ SSHEnabled(line) /\ conf.ssh = SSHConfig
      BY <2>5, SSHOfConfig DEF WantsSSH, Delivered
    <3>2. sshd' = "bind"
      BY <1>3, <2>5 DEF StartSSHServer
    <3>3. password = "generated" => Printed("generated", "after")'
      <4> SUFFICES ASSUME password = "generated"
                   PROVE  Printed("generated", "after")'
        OBVIOUS
      <4>1. conf.ssh.generated /\ conf.ssh.password = "generated" /\ "generated" # None
        BY <3>1, SSHOfConfig DEF None
      <4>2. shown' = shown \union {Banner("after", "generated", conf.ssh.port)}
        BY <1>3, <2>5, <4>1 DEF StartSSHServer
      <4> QED
        BY <4>2, BannerSays DEF Printed
    <3> QED
      BY <2>1, <2>2, <2>3, <3>1, <3>2, <3>3 DEF Serving
  <2> QED
    BY <2>4, <2>5
<1>4. CASE Supervise
  <2>1. UNCHANGED <<line, entry, password, conf, sshd, bound, accepts, shown>> /\ pc' = "running"
    BY <1>4 DEF Supervise, Moves, MovesOnly, pivoting, server
  <2>2. PostpivotConfig' = PostpivotConfig /\ SSHConfig' = SSHConfig /\ Port22' = Port22
        /\ SSHEnabled(line)' = SSHEnabled(line)
    BY <2>1, ConfigStays
  <2>3. Accepted(SSHConfig)' = Accepted(SSHConfig)
    BY <2>2 DEF Accepted
  <2> QED
    BY <2>1, <2>2, <2>3 DEF Serving, Printed
<1>5. CASE Server \/ Clients \/ Environment \/ UNCHANGED vars
  <2>1. UNCHANGED <<line, pc, entry, password, conf, shown>>
    BY <1>5 DEF Server, Clients, Bind, Serve, Accept, EndConn, AcceptFails, ServeEnds, Idle,
                Environment, ControlChanges, LoginLapses, vars, outside, pivoting, loaded
  <2>2. PostpivotConfig' = PostpivotConfig /\ SSHConfig' = SSHConfig /\ Port22' = Port22
        /\ SSHEnabled(line)' = SSHEnabled(line)
    BY <2>1, ConfigStays
  <2>3. Accepted(SSHConfig)' = Accepted(SSHConfig)
    BY <2>2 DEF Accepted
  <2> USE DEF Serving, Printed
  <2>4. CASE Bind
    <3>1. conf.ssh = SSHConfig /\ sshd = "bind"
      BY <2>4, SSHOfConfig DEF Bind
    <3>2. \A n : Listener(n).port = Port22
      BY <3>1, SSHOfConfig DEF Listener, Port22
    <3>3. \A l \in bound' : l.port = Port22
      BY <2>4, <3>2 DEF Bind
    <3>4. sshd' \in {"unbound", "configure"}
      BY <2>4 DEF Bind
    <3> QED
      BY <2>1, <2>2, <3>1, <3>3, <3>4
  <2>5. CASE Serve
    <3>1. conf.ssh = SSHConfig /\ sshd = "configure"
      BY <2>5, SSHOfConfig DEF Serve
    <3>2. accepts' = Accepted(SSHConfig)
      BY <2>5, <3>1 DEF Serve
    <3>3. \/ sshd' = "refused" /\ bound' = {}
          \/ sshd' = "serving" /\ bound' = bound /\ accepts' # {}
      BY <2>5 DEF Serve
    <3> QED
      BY <2>1, <2>2, <2>3, <3>1, <3>2, <3>3
  <2>6. CASE Clients
    <3>1. /\ UNCHANGED <<bound, accepts>>
          /\ sshd' = sshd \/ (sshd = "serving" /\ sshd' = "ended")
      BY <2>6 DEF Clients, Accept, EndConn, AcceptFails, ServeEnds
    <3> QED
      BY <2>1, <2>2, <2>3, <3>1
  <2>7. CASE Environment \/ UNCHANGED vars
    <3>1. UNCHANGED <<sshd, bound, accepts>>
      BY <2>7 DEF Environment, ControlChanges, LoginLapses, vars, outside, server
    <3> QED
      BY <2>1, <2>2, <2>3, <3>1
  <2> QED
    BY <1>5, <2>4, <2>5, <2>6, <2>7 DEF Server
<1> QED
  BY <1>1, <1>2, <1>3, <1>4, <1>5 DEF Next, AfterPivot

LEMMA ServingHolds == Spec => [](Credentials /\ Delivered /\ Serving)
<1>1. Init => Credentials
  <2> SUFFICES ASSUME Init PROVE Credentials
    OBVIOUS
  <2>1. line \in Lines /\ pc = "resolve" /\ password = line.password /\ shown = {}
    BY DEF Init
  <2>2. password # "generated"
    BY <2>1, LinesAssumption DEF None
  <2> QED
    BY <2>1, <2>2 DEF Credentials, SetUp
<1>2. Init => Delivered /\ Serving
  BY DEF Init, Delivered, Serving, Booted
<1>3. Credentials /\ Delivered /\ Serving /\ [Next]_vars => (Credentials /\ Delivered /\ Serving)'
  BY NextCredentials, NextDelivered, NextServing
<1> QED
  BY <1>1, <1>2, <1>3, PTL DEF Spec

\* Whoever the SSH server lets in, the operator is one of them: by a credential they
\* gave, or by one that was printed before the pivot and after it.
THEOREM OperatorGetsIn == Spec => []LoginPossible
<1>1. Credentials /\ Serving => LoginPossible
  <2> SUFFICES ASSUME Credentials, Serving, sshd \in {"serving", "ended"}
               PROVE  \E c \in accepts :
                        Given(c) \/ (Printed(c, "before") /\ Printed(c, "after"))
    BY DEF LoginPossible
  <2>1. accepts = Accepted(SSHConfig) /\ accepts # {}
    BY DEF Serving
  <2>2. PICK k : k \in accepts
    BY <2>1
  <2>3. (k = "key" /\ line.keys = "good") \/ (k = password /\ k # None)
    BY <2>1, <2>2, SSHOfConfig DEF Accepted
  <2>4. (k = "own" /\ line.password = "own") \/ k = "generated" \/ Given(k)
    BY <2>3, LinesAssumption DEF Credentials, Given
  <2>5. k = "generated" => Printed(k, "before") /\ Printed(k, "after")
    BY <2>3 DEF Credentials, Serving
  <2> QED
    BY <2>2, <2>4, <2>5 DEF Given
<1> QED
  BY <1>1, ServingHolds, PTL

\* Every banner names a password that was generated, that the server accepts, and
\* the port it listens on.
THEOREM BannersAreTrue == Spec => []BannersTrue
<1>1. Credentials /\ Serving => BannersTrue
  <2> SUFFICES ASSUME Credentials, Serving, NEW b \in shown
               PROVE  /\ b.password = "generated"
                      /\ sshd \in {"serving", "ended"} =>
                           b.password \in accepts /\ \A l \in bound : l.port = b.port
    BY DEF BannersTrue
  <2>1. b.password = "generated" /\ b.port = Port22 /\ password = "generated" /\ line.keys = "none"
    BY DEF Credentials
  <2>2. sshd \in {"serving", "ended"} => "generated" \in accepts
    <3>1. "generated" \in Accepted(SSHConfig)
      BY <2>1, SSHOfConfig DEF Accepted, None
    <3> QED
      BY <3>1 DEF Serving
  <2>3. \A l \in bound : l.port = b.port
    BY <2>1 DEF Serving
  <2> QED
    BY <2>1, <2>2, <2>3
<1> QED
  BY <1>1, ServingHolds, PTL

----------------------------------------------------------------------------
(* Types.                                                                  *)

\* A port is named or is 22.
LEMMA PortsArePorts == ASSUME line \in Lines PROVE Port22 \in Ports
<1>1. 22 \in Ports
  BY DEF Ports
<1>2. line.port = {} \/ \E p \in Ports : line.port = {p}
  BY LinesAssumption
<1>3. NormalPort(line) = {} \/ \E p \in Ports : NormalPort(line) = {p}
  BY <1>1, <1>2 DEF NormalPort
<1>4. SshPort(line) \in Ports
  BY <1>1, <1>3 DEF SshPort
<1> QED
  BY <1>1, <1>4 DEF Port22, MeantPort

\* The types, and that nothing is accepted on before the server serves.
Typed ==
  /\ TypeOK
  /\ sshd \notin {"serving", "ended"} => loop = {} /\ busy = {}

LEMMA InitTyped == Init => Typed
  BY LinesAssumption DEF Init, Typed, TypeOK, None

LEMMA JoinsOrNot == WantsTailnet \in BOOLEAN
  BY DEF WantsTailnet

\* A step of the main thread, or of the tailnet, leaves the server alone.
LEMMA MainTyped ==
  ASSUME Typed, Serving, BeforePivot \/ AfterPivot \/ TailnetFails \/ Environment \/ UNCHANGED vars
  PROVE  Typed'
<1> USE DEF Typed, TypeOK
<1>1. CASE BeforePivot
  <2>1. line.tailscale \in BOOLEAN
    BY LinesAssumption
  <2> QED
    BY <1>1, <2>1 DEF BeforePivot, Resolve, GeneratePassword, KeepCredentials, WriteConfig,
       PreAuth, Exec, Abort, Moves, MovesOnly, pivoting, loaded, server, outside
<1>2. CASE StartSSHServer
  BY <1>2 DEF StartSSHServer, Moves, MovesOnly, pivoting, loaded, Serving
<1>3. CASE JoinTailnet
  BY <1>3, JoinsOrNot DEF JoinTailnet, Moves, MovesOnly, pivoting, server
<1>4. CASE LoadConfig \/ Supervise \/ TailnetFails
  BY <1>4 DEF LoadConfig, Supervise, TailnetFails, Moves, MovesOnly, pivoting, loaded, server
<1>5. CASE Environment \/ UNCHANGED vars
  BY <1>5 DEF Environment, ControlChanges, LoginLapses, vars, outside, pivoting, loaded, server
<1> QED
  BY <1>1, <1>2, <1>3, <1>4, <1>5 DEF AfterPivot

\* Binding and configuring: listeners are on the port of the configuration.
LEMMA ServerTyped ==
  ASSUME Credentials, Serving, Typed, Server
  PROVE  Typed'
<1> USE DEF Typed
<1>1. UNCHANGED <<line, pc, password, control, login, tailnet, busy, conf>>
  <2>1. Idle /\ UNCHANGED busy
    BY DEF Server, Bind, Serve
  <2> QED
    BY <2>1 DEF Idle, pivoting, loaded, outside
<1>2. CASE Bind
  <2>1. conf = PostpivotConfig /\ SSHEnabled(line) /\ bound = {}
    BY <1>2 DEF Bind, Serving
  <2>2. MeantPort(conf.ssh.port) = Port22
    BY <2>1, SSHOfConfig DEF Port22, MeantPort
  <2>3. Port22 \in Ports
    BY PortsArePorts DEF Credentials
  <2>4. \A n \in Networks : Listener(n) \in [net : Networks, port : Ports]
    BY <2>2, <2>3 DEF Listener
  <2>5. bound' \subseteq [net : Networks, port : Ports]
    BY <1>2, <2>4 DEF Bind
  <2>6. loop' = {} /\ busy' = {}
    BY <1>2, <1>1 DEF Bind
  <2> QED
    BY <1>1, <1>2, <2>5, <2>6 DEF Bind, TypeOK
<1>3. CASE Serve
  <2>1. busy = {}
    BY <1>3 DEF Serve
  <2> QED
    BY <1>1, <1>3, <2>1 DEF Serve, TypeOK
<1> QED
  BY <1>2, <1>3 DEF Server

\* Clients come and go on the listeners that are bound.
LEMMA ClientsTyped == ASSUME Typed, Clients PROVE Typed'
<1> USE DEF Typed, TypeOK
<1>1. UNCHANGED <<line, pc, password, control, login, tailnet, bound>>
  <2>1. Idle /\ UNCHANGED bound
    BY DEF Clients, Accept, EndConn, AcceptFails, ServeEnds
  <2> QED
    BY <2>1 DEF Idle, pivoting, loaded, outside
<1>2. CASE \E l \in bound : Accept(l) \/ EndConn(l) \/ AcceptFails(l)
  BY <1>1, <1>2 DEF Accept, EndConn, AcceptFails
<1>3. CASE ServeEnds
  BY <1>1, <1>3 DEF ServeEnds
<1> QED
  BY <1>2, <1>3 DEF Clients

\* Every variable of Reach keeps its type.
THEOREM ReachTypeOK == Spec => []TypeOK
<1>1. Credentials /\ Delivered /\ Serving /\ Typed /\ [Next]_vars => Typed'
  BY MainTyped, ServerTyped, ClientsTyped DEF Next
<1>2. Typed => TypeOK
  BY DEF Typed
<1> QED
  BY <1>1, <1>2, InitTyped, ServingHolds, PTL DEF Spec
=============================================================================
