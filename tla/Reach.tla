------------------------------- MODULE Reach -------------------------------
(***************************************************************************)
(* Whether the pivoted machine can be logged into: how a command line's     *)
(* entrypoint and SSH credentials travel from runPivot (internal/cli) over   *)
(* the staged configuration and the exec to xmorph --init, which brings up   *)
(* the tailnet and the SSH server and starts the entrypoint                 *)
(* (internal/postpivot).                                                    *)
(*                                                                         *)
(* The mounts, the init coordination and the watchdog in between are Pivot;  *)
(* what the supervisor does with the entrypoint is Supervisor; the commands  *)
(* of one connection are Sessions.                                          *)
(*                                                                         *)
(* Simplifications: a credential is the operator's password ("own"), one     *)
(* that was generated, or a key; the authorized keys are described by what   *)
(* their lines are; a program is a shell or a daemon; of a listener's        *)
(* connections only whether there are any; a handshake that fails is a       *)
(* connection that ends.                                                   *)
(***************************************************************************)
EXTENDS Naturals, FiniteSets

CONSTANT Lines  \* the command lines there are, each with the image's configuration

VARIABLES
  line,        \* the command line of this run
  pc,          \* how far the program is, before and after the exec
  entry,       \* the entrypoint and arguments resolved
  password,    \* SSHPassword: the operator's, a generated one or none
  staged,      \* the configuration staged in the new root
  argv,        \* what the supervisor was given on its command line
  conf,        \* the configuration the supervisor loaded
  tailnet,     \* the supervisor is on the tailnet
  supervised,  \* what it runs
  sshd,        \* how far the SSH server's goroutine is
  bound,       \* its listeners
  accepts,     \* the credentials it accepts
  loop,        \* the listeners that are being accepted on
  busy,        \* the listeners with open connections
  shown,       \* the banners printed on stderr, before the pivot and after it
  control,     \* the tailnet's control server can be reached
  login        \* the node PreAuth registered needs no new login

pivoting == <<entry, password, staged, argv>>
loaded   == <<conf, tailnet, supervised>>
server   == <<sshd, bound, accepts, loop, busy>>
outside  == <<control, login>>
vars     == <<line, pc, pivoting, loaded, server, shown, outside>>

Ports == 0..65535
Networks == {"kernel", "tailnet"}
Enables == {"unset", "on", "off"}
\* What the lines of --ssh.authorized-keys are.
KeyKinds == {"none", "comments", "good", "malformed"}
Programs == {"shell", "daemon"}
\* What stderr is: a console, which outlives the pivot, or a session, whose server
\* the pivot ends.
Stderrs == {"console", "session"}
\* The control server: the hosted one, or that of --tailscale.server.
Servers == {"hosted", "own"}
None == "none"
Nil == [kind |-> "nil"]
NoEntry == [program |-> None, args |-> None]

ASSUME LinesAssumption ==
  \A l \in Lines :
    /\ l.enable \in Enables /\ (l.port = {} \/ \E p \in Ports : l.port = {p})
    /\ l.password \in {None, "own"} /\ l.keys \in KeyKinds
    /\ l.tailscale \in BOOLEAN /\ l.server \in Servers
    /\ l.terminal \in BOOLEAN /\ l.stderr \in Stderrs
    /\ {l.entrypoint, l.imageEntrypoint, l.imageCmd} \subseteq Programs \union {None}

----------------------------------------------------------------------------
(* Configuration.                                                          *)

\* Normalize: asking for SSH, or giving it a credential, implies port 22.
NormalPort(l) ==
  IF l.port = {} /\ (l.enable = "on" \/ l.password # None \/ l.keys # "none")
  THEN {22} ELSE l.port

SSHEnabled(l) ==
  IF l.enable # "unset" THEN l.enable = "on"
  ELSE NormalPort(l) # {} \/ l.password # None \/ l.keys # "none"

SshPort(l) == IF NormalPort(l) = {} THEN 22 ELSE CHOOSE p \in NormalPort(l) : TRUE

\* The port meant by a configuration: none is 22.
MeantPort(port) == IF port = 0 THEN 22 ELSE port

\* The explicit flag, the image's Entrypoint, its Cmd, the default.
ResolveEntrypoint(l) ==
  CASE l.entrypoint # None      -> [program |-> l.entrypoint, args |-> "command"]
    [] l.entrypoint = None /\ l.imageEntrypoint # None
                                -> [program |-> l.imageEntrypoint, args |-> "image"]
    [] l.entrypoint = None /\ l.imageEntrypoint = None /\ l.imageCmd # None
                                -> [program |-> l.imageCmd, args |-> "cmdtail"]
    [] OTHER                    -> [program |-> "shell", args |-> "command"]

\* checkEntrypointSurvivesDetach: a shell reads EOF and ends at once.
DiesDetached(l, e) == e.program = "shell" /\ ~l.terminal

\* AnnounceSSHPassword, on the stderr that the exec hands on.
Banner(when, pw, port) == [when |-> when, password |-> pw, port |-> MeantPort(port)]

----------------------------------------------------------------------------

Init ==
  /\ line \in Lines
  /\ pc = "resolve"
  /\ entry = NoEntry /\ password = line.password /\ staged = Nil /\ argv = NoEntry
  /\ conf = Nil /\ tailnet = FALSE /\ supervised = NoEntry
  /\ sshd = "none" /\ bound = {} /\ accepts = {} /\ loop = {}
  /\ busy = {}
  /\ shown = {}
  /\ control = TRUE /\ login = FALSE

MovesOnly(from, to) == pc = from /\ pc' = to /\ UNCHANGED <<line, control>>
Moves(from, to) == MovesOnly(from, to) /\ UNCHANGED login

----------------------------------------------------------------------------
(* Before the pivot.                                                       *)

Resolve ==
  /\ Moves("resolve", IF DiesDetached(line, ResolveEntrypoint(line)) THEN "aborted" ELSE "ssh")
  /\ entry' = ResolveEntrypoint(line)
  /\ UNCHANGED <<password, staged, argv, loaded, server, shown>>

\* Mutant: only an explicit --ssh.enable counts as asking for SSH.
NeedsPasswordExplicit == line.enable = "on" /\ password = None /\ line.keys = "none"

NeedsPassword == SSHEnabled(line) /\ password = None /\ line.keys = "none"

\* ensureSSHUsable; what it generates is printed at once.
GeneratePassword ==
  /\ NeedsPassword
  /\ Moves("ssh", "stage")
  /\ password' = "generated"
  /\ shown' = shown \union {Banner("before", "generated", SshPort(line))}
  /\ UNCHANGED <<entry, staged, argv, loaded, server>>

KeepCredentials ==
  /\ ~NeedsPassword
  /\ Moves("ssh", "stage")
  /\ UNCHANGED <<pivoting, loaded, server, shown>>

\* Mutant: the flag that the password was generated is not handed on.
SSHConfigForgets == [password |-> password, generated |-> FALSE,
                     port |-> SshPort(line), keys |-> line.keys]

SSHConfig == [password |-> password, generated |-> password = "generated",
              port |-> SshPort(line), keys |-> line.keys]

PostpivotConfig ==
  [kind |-> "config", entry |-> entry, tailscale |-> line.tailscale,
   ssh |-> IF SSHEnabled(line) THEN SSHConfig ELSE Nil]

WriteConfig ==
  /\ Moves("stage", "auth")
  /\ staged' = PostpivotConfig
  /\ UNCHANGED <<entry, password, argv, loaded, server, shown>>

\* PreAuth, if there is a tailnet to join: the node registers, with the key and
\* the server of the command line.
PreAuth ==
  /\ MovesOnly("auth", "pivot")
  /\ line.tailscale => control
  /\ login' = line.tailscale
  /\ UNCHANGED <<pivoting, loaded, server, shown>>

\* Mutant: the supervisor is handed the command line's own entrypoint.
ExecFlag ==
  /\ Moves("pivot", "load")
  /\ argv' = [program |-> IF line.entrypoint = None THEN "shell" ELSE line.entrypoint,
              args |-> "command"]
  /\ UNCHANGED <<entry, password, staged, loaded, server, shown>>

\* The exec of the supervisor, with the entrypoint in its arguments too.
Exec ==
  /\ Moves("pivot", "load")
  /\ argv' = entry
  /\ UNCHANGED <<entry, password, staged, loaded, server, shown>>

\* No randomness, no room for the configuration, no authentication (also when
\* its 30 s are over), or anything Pivot has up to the exec.
Abort ==
  /\ \/ pc = "ssh" /\ NeedsPassword
     \/ pc \in {"stage", "pivot"}
     \/ pc = "auth" /\ line.tailscale
  /\ pc' = "aborted"
  /\ UNCHANGED <<line, outside, pivoting, loaded, server, shown>>

----------------------------------------------------------------------------
(* After the pivot: Run of xmorph --init.                                  *)

\* LoadConfig, which may find nothing it can read; then the file is removed.
LoadConfig ==
  /\ Moves("load", "tailnet")
  /\ conf' \in {staged, Nil}
  /\ staged' = Nil
  /\ UNCHANGED <<entry, password, argv, tailnet, supervised, server, shown>>

WantsTailnet == conf # Nil /\ conf.tailscale

\* NewPostPivotServer is given neither the key nor the server, and waits without a
\* limit: only a node that is still logged in comes up, with the hosted server.
NodeComesUp == control /\ login /\ line.server = "hosted"

JoinTailnet ==
  /\ Moves("tailnet", "sshd")
  /\ WantsTailnet => NodeComesUp
  /\ tailnet' = WantsTailnet
  /\ UNCHANGED <<pivoting, conf, supervised, server, shown>>

\* It returns an error, which is logged.
TailnetFails ==
  /\ Moves("tailnet", "sshd")
  /\ WantsTailnet
  /\ UNCHANGED <<pivoting, loaded, server, shown>>

WantsSSH == conf # Nil /\ conf.ssh # Nil

StartSSHServer ==
  /\ Moves("sshd", "entrypoint")
  /\ sshd' = IF WantsSSH THEN "bind" ELSE sshd
  /\ shown' = IF WantsSSH /\ conf.ssh.generated /\ conf.ssh.password # None
                THEN shown \union {Banner("after", conf.ssh.password, conf.ssh.port)}
                ELSE shown
  /\ UNCHANGED <<pivoting, loaded, bound, accepts, loop, busy>>

\* The configuration's entrypoint beats the command line's.
Supervise ==
  /\ Moves("entrypoint", "running")
  /\ supervised' = IF conf # Nil THEN conf.entry ELSE argv
  /\ UNCHANGED <<pivoting, conf, tailnet, server, shown>>

----------------------------------------------------------------------------
(* The goroutine of StartSSHServer.                                        *)

Idle == UNCHANGED <<line, pc, pivoting, loaded, shown, outside>>

\* Mutant: a port that was not named is left to the kernel.
ListenerAsIs(n) == [net |-> n, port |-> conf.ssh.port]

Listener(n) == [net |-> n, port |-> MeantPort(conf.ssh.port)]

\* Either network may refuse the port.
Bind ==
  /\ sshd = "bind"
  /\ \E nets \in SUBSET Networks :
       /\ "tailnet" \in nets => tailnet
       /\ bound' = {Listener(n) : n \in nets}
       /\ sshd' = IF nets = {} THEN "unbound" ELSE "configure"
  /\ UNCHANGED <<accepts, loop, busy>>
  /\ Idle

\* buildServerConfig: one malformed line and nothing is accepted.
Accepted(c) ==
  IF c.keys = "malformed" THEN {}
  ELSE {k \in {"key"} : c.keys = "good"} \union ({c.password} \ {None})

Serve ==
  /\ sshd = "configure"
  /\ accepts' = Accepted(conf.ssh)
  /\ IF accepts' = {}
       THEN sshd' = "refused" /\ bound' = {} /\ loop' = {}
       ELSE sshd' = "serving" /\ bound' = bound /\ loop' = bound
  /\ UNCHANGED busy
  /\ Idle

Accept(l) ==
  /\ l \in loop
  /\ busy' = busy \union {l}
  /\ UNCHANGED <<sshd, bound, accepts, loop>>
  /\ Idle

\* The last handleConn of a listener returns: a handshake failed, or the client
\* has gone.
EndConn(l) ==
  /\ l \in busy
  /\ busy' = busy \ {l}
  /\ UNCHANGED <<sshd, bound, accepts, loop>>
  /\ Idle

\* No descriptor is left, whoever holds them: the kernel's Accept returns an error,
\* which ends the loop; the listener is not closed.  The tailnet's connections are
\* the process's own and take none.
AcceptFails(l) ==
  /\ l \in loop /\ l.net = "kernel"
  /\ loop' = loop \ {l}
  /\ UNCHANGED <<sshd, bound, accepts, busy>>
  /\ Idle

\* serveSSH returns when both loops have, each after its connections.
ServeEnds ==
  /\ sshd = "serving"
  /\ loop = {} /\ busy = {}
  /\ sshd' = "ended"
  /\ UNCHANGED <<bound, accepts, loop, busy>>
  /\ Idle

----------------------------------------------------------------------------

ControlChanges ==
  /\ control' = ~control
  /\ UNCHANGED <<line, pc, pivoting, loaded, server, shown, login>>

\* The node's key expires, or the node is removed.
LoginLapses ==
  /\ login /\ login' = FALSE
  /\ UNCHANGED <<line, pc, pivoting, loaded, server, shown, control>>

BeforePivot == Resolve \/ GeneratePassword \/ KeepCredentials \/ WriteConfig \/ PreAuth \/ Exec \/ Abort
AfterPivot == LoadConfig \/ JoinTailnet \/ StartSSHServer \/ Supervise
Server == Bind \/ Serve
Clients == (\E l \in bound : Accept(l) \/ EndConn(l) \/ AcceptFails(l)) \/ ServeEnds
Environment == ControlChanges \/ LoginLapses

Next == BeforePivot \/ AfterPivot \/ TailnetFails \/ Server \/ Clients \/ Environment

\* The program's two threads go on; clients and the tailnet owe nothing, not even an
\* error.
Spec == Init /\ [][Next]_vars /\ WF_vars(BeforePivot) /\ WF_vars(AfterPivot) /\ WF_vars(Server)

----------------------------------------------------------------------------
(* Properties.                                                             *)

TypeOK ==
  /\ line \in Lines
  /\ pc \in {"resolve", "ssh", "stage", "auth", "pivot", "aborted",
             "load", "tailnet", "sshd", "entrypoint", "running"}
  /\ password \in {None, "own", "generated"}
  /\ sshd \in {"none", "bind", "unbound", "configure", "refused", "serving", "ended"}
  /\ bound \subseteq [net : Networks, port : Ports]
  /\ loop \subseteq bound /\ busy \subseteq bound
  /\ control \in BOOLEAN /\ login \in BOOLEAN /\ tailnet \in BOOLEAN

\* When the SSH server serves, the operator holds a credential it accepts: one they
\* gave; or a generated one, which was printed while the old system's stderr still
\* reached them, and printed again where stderr outlives the pivot.  (In a session
\* the second copy goes after the first one, to nobody.)
Printed(c, when) == \E b \in shown : b.password = c /\ b.when = when
Given(c) == (c = "own" /\ line.password = "own") \/ (c = "key" /\ line.keys = "good")
LoginPossible ==
  sshd \in {"serving", "ended"} =>
    \E c \in accepts :
      \/ Given(c)
      \/ Printed(c, "before") /\ (line.stderr = "console" => Printed(c, "after"))

\* What a banner says is true, before the pivot and after it: the password is a
\* generated one, never the operator's own, and it is accepted on the port that
\* is printed (none named, or zero, is 22 on both sides).
BannersTrue ==
  \A b \in shown :
    /\ b.password = "generated"
    /\ sshd \in {"serving", "ended"} =>
         b.password \in accepts /\ \A l \in bound : l.port = b.port

\* The supervisor runs the entrypoint that was resolved and checked while the
\* old system was alive, whichever of its two ways across the pivot it took.
SupervisesWhatWasChecked ==
  pc = "running" => supervised = ResolveEntrypoint(line) /\ ~DiesDetached(line, supervised)

\* While the control server stays reachable, a pivoted machine gets its entrypoint
\* running, and its SSH server serving if the command line asked for one: only an
\* unreadable configuration, ports that cannot be bound, or keys given that are
\* of no use keep it from serving; or it waits for a tailnet that the server after
\* the pivot cannot join, with --tailscale.server or a node that has to log in again.
KeysOfNoUse == line.keys = "malformed" \/ (line.keys = "comments" /\ line.password = None)
Reachable ==
  SSHEnabled(line) /\ ~KeysOfNoUse =>
    \/ sshd \in {"serving", "ended"}
    \/ conf = Nil
    \/ sshd = "unbound"
LeftWaiting == pc = "tailnet" /\ WantsTailnet /\ (~login \/ line.server = "own")
GetsReachable ==
  <>[]control => [](pc = "load" => <>((pc = "running" /\ Reachable) \/ []LeftWaiting))
=============================================================================
