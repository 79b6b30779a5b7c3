------------------------------ MODULE Sessions ------------------------------
(***************************************************************************)
(* The SSH sessions of `xmorph --init` and the reaping beside them:         *)
(* internal/postpivot/sshd_linux.go, with ServeUntilSignal, the end of      *)
(* Supervise and reapOrphans of supervise.go.                               *)
(*                                                                         *)
(* The sessions' goroutines, the commands they run, their clients and the   *)
(* main goroutine interleave.  A session waits for its command with         *)
(* cmd.Wait; reapOrphans waits for any child, so either may be first to a   *)
(* command that has ended, and whoever is second finds no such child.  A    *)
(* command may leave a descendant that holds its output.                    *)
(*                                                                         *)
(* Simplifications: a client has logged in and opened one session, and      *)
(* while it is there it takes what is sent to it; channel types, window     *)
(* changes, the environment and the bytes copied are left out, and an end   *)
(* of file on the client's stdin, which the command sees and the session    *)
(* does not.                                                                *)
(***************************************************************************)
EXTENDS Naturals

CONSTANTS
  Clients,    \* who logs in; a client has one session
  ChldCap     \* capacity of the SIGCHLD channel (8 in the code)

ASSUME ChldCapAssumption == ChldCap \in Nat \ {0}

VARIABLES
  main,       \* where the main goroutine is
  chld,       \* notifications of SIGCHLD not yet received
  at,         \* at[c]: where c's session is
  client,     \* client[c]: is it there, with its stdin open, or gone?
  pty,        \* pty[c]: was a terminal asked for?
  proc,       \* proc[c]: the command
  code,       \* code[c]: how the command ended
  heir,       \* heir[c]: does a descendant hold its output?
  out,        \* out[c]: the copying of the command's output to the client
  sent        \* sent[c]: the exit status reported to the client

command == <<proc, code, heir>>
vars == <<main, chld, at, client, pty, command, out, sent>>

\* main is "subscribe", "serve", "reap" in `xmorph idle`, "supervise" otherwise,
\* and in both cases "lastreap", "leaving" and "ended" in the end.
Alive == main # "ended"
Subscribed == main \in {"serve", "reap"}
Ended(c) == proc[c] \in {"zombie", "reaped", "lost"}

----------------------------------------------------------------------------
(* handleSession.                                                          *)

PtyRequest(c) ==
  /\ Alive
  /\ at[c] = "request" /\ client[c] # "gone"
  /\ pty' = [pty EXCEPT ![c] = TRUE]
  /\ UNCHANGED <<main, chld, at, client, command, out, sent>>

\* The requests end without one.
NoRequest(c) ==
  /\ Alive
  /\ at[c] = "request" /\ client[c] = "gone"
  /\ at' = [at EXCEPT ![c] = "closed"]
  /\ UNCHANGED <<main, chld, client, pty, command, out, sent>>

----------------------------------------------------------------------------
(* runSession.                                                             *)

\* "shell" or "exec"; a request may be handled after its client has gone.
StartFails(c) ==
  /\ Alive
  /\ at[c] = "request"
  /\ sent' = [sent EXCEPT ![c] = "127"]
  /\ at' = [at EXCEPT ![c] = "closed"]
  /\ UNCHANGED <<main, chld, client, pty, command, out>>

\* Mutant: the terminal's output is copied in the background.
StartInBackground(c) ==
  /\ Alive
  /\ at[c] = "request"
  /\ proc' = [proc EXCEPT ![c] = "running"]
  /\ out' = [out EXCEPT ![c] = "copying"]
  /\ at' = [at EXCEPT ![c] = "wait"]
  /\ UNCHANGED <<main, chld, client, pty, code, heir, sent>>

\* With a terminal the session copies its output itself and waits afterwards.
Start(c) ==
  /\ Alive
  /\ at[c] = "request"
  /\ proc' = [proc EXCEPT ![c] = "running"]
  /\ out' = [out EXCEPT ![c] = "copying"]
  /\ at' = [at EXCEPT ![c] = IF pty[c] THEN "copy" ELSE "wait"]
  /\ UNCHANGED <<main, chld, client, pty, code, heir, sent>>

\* End of file: the command and its descendants have closed the output.
OutputEnds(c) ==
  /\ Alive
  /\ out[c] = "copying"
  /\ Ended(c) /\ ~heir[c]
  /\ out' = [out EXCEPT ![c] = "done"]
  /\ UNCHANGED <<main, chld, at, client, pty, command, sent>>

\* Somebody writes, and there is no client to copy it to.
OutputRefused(c) ==
  /\ Alive
  /\ out[c] = "copying"
  /\ client[c] = "gone"
  /\ proc[c] = "running" \/ heir[c]
  /\ out' = [out EXCEPT ![c] = "refused"]
  /\ UNCHANGED <<main, chld, at, client, pty, command, sent>>

CopyReturns(c) ==
  /\ Alive
  /\ at[c] = "copy" /\ out[c] # "copying"
  /\ at' = [at EXCEPT ![c] = "wait"]
  /\ UNCHANGED <<main, chld, client, pty, command, out, sent>>

\* cmd.Wait, first half: the status is collected, or there is none any more.
WaitProcess(c) ==
  /\ Alive
  /\ at[c] = "wait"
  /\ proc[c] \in {"zombie", "lost"}
  /\ proc' = [proc EXCEPT ![c] = IF @ = "zombie" THEN "reaped" ELSE "lost"]
  /\ at' = [at EXCEPT ![c] = "drain"]
  /\ UNCHANGED <<main, chld, client, pty, code, heir, out, sent>>

\* What a client is told of a command that ended so.  "code" stands for every
\* status but 0, and for -1 as a uint32, which is what a signal comes to.
Status == [ok |-> "0", fail |-> "code"]

\* What cmd.Wait makes of it: no status where the process was lost, and an error of the
\* copying, which it waits for without a terminal, in place of a success.
Waited(c) ==
  IF proc[c] = "lost" \/ (~pty[c] /\ out[c] = "refused" /\ code[c] = "ok")
    THEN "1" ELSE Status[code[c]]

\* Mutant: only an ExitError counts.
ReportOnlyExitErrors(c) ==
  /\ Alive
  /\ at[c] = "drain"
  /\ pty[c] \/ out[c] # "copying"
  /\ sent' = [sent EXCEPT ![c] = IF proc[c] = "reaped" THEN Status[code[c]] ELSE "0"]
  /\ at' = [at EXCEPT ![c] = "closed"]
  /\ UNCHANGED <<main, chld, client, pty, command, out>>

\* Mutant: cmd.Stdin = ch.
ReportAfterStdin(c) ==
  /\ Alive
  /\ at[c] = "drain"
  /\ pty[c] \/ (out[c] # "copying" /\ client[c] # "typing")
  /\ sent' = [sent EXCEPT ![c] = Waited(c)]
  /\ at' = [at EXCEPT ![c] = "closed"]
  /\ UNCHANGED <<main, chld, client, pty, command, out>>

\* cmd.Wait, second half: the goroutines it started for the output have
\* returned; with a terminal there are none.  Stdin is not waited for.
Report(c) ==
  /\ Alive
  /\ at[c] = "drain"
  /\ pty[c] \/ out[c] # "copying"
  /\ sent' = [sent EXCEPT ![c] = Waited(c)]
  /\ at' = [at EXCEPT ![c] = "closed"]
  /\ UNCHANGED <<main, chld, client, pty, command, out>>

----------------------------------------------------------------------------
(* The main goroutine.                                                     *)

\* ServeUntilSignal subscribes to SIGCHLD; the SSH server is up by then.
Subscribe ==
  /\ main = "subscribe"
  /\ main' = "serve"
  /\ UNCHANGED <<chld, at, client, pty, command, out, sent>>

ChildSignal ==
  /\ main = "serve"
  /\ chld > 0
  /\ chld' = chld - 1
  /\ main' = "reap"
  /\ UNCHANGED <<at, client, pty, command, out, sent>>

\* TERM or INT ends the service; TERM is fatal before Notify.
Terminate ==
  /\ \/ main = "serve" /\ main' = "lastreap"
     \/ main \in {"subscribe", "supervise", "leaving"} /\ main' = "ended"
  /\ UNCHANGED <<chld, at, client, pty, command, out, sent>>

\* Supervise: the entrypoint's end has been waited for.
EntrypointDone ==
  /\ main = "supervise"
  /\ main' = "lastreap"
  /\ UNCHANGED <<chld, at, client, pty, command, out, sent>>

\* Mutant: one wait4 for each SIGCHLD.
ReapOnlyOne(c) ==
  /\ main \in {"reap", "lastreap"}
  /\ proc[c] = "zombie"
  /\ proc' = [proc EXCEPT ![c] = "lost"]
  /\ main' = IF main = "reap" THEN "serve" ELSE "leaving"
  /\ UNCHANGED <<chld, at, client, pty, code, heir, out, sent>>

\* Mutant: a reaper that runs beside Supervise, too.
ReapAlways(c) ==
  /\ main \in {"reap", "lastreap", "supervise"}
  /\ proc[c] = "zombie"
  /\ proc' = [proc EXCEPT ![c] = "lost"]
  /\ UNCHANGED <<main, chld, at, client, pty, code, heir, out, sent>>

\* reapOrphans, one turn of its loop.
ReapOne(c) ==
  /\ main \in {"reap", "lastreap"}
  /\ proc[c] = "zombie"
  /\ proc' = [proc EXCEPT ![c] = "lost"]
  /\ UNCHANGED <<main, chld, at, client, pty, code, heir, out, sent>>

ReapReturns ==
  /\ main \in {"reap", "lastreap"}
  /\ \A c \in Clients : proc[c] # "zombie"
  /\ main' = IF main = "reap" THEN "serve" ELSE "leaving"
  /\ UNCHANGED <<chld, at, client, pty, command, out, sent>>

\* Run returns, or the machine restarts after Supervise's five seconds.
Leave ==
  /\ main = "leaving"
  /\ main' = "ended"
  /\ UNCHANGED <<chld, at, client, pty, command, out, sent>>

----------------------------------------------------------------------------
(* Commands and clients.                                                   *)

\* A full channel drops the notification.
CommandExits(c) ==
  /\ Alive
  /\ proc[c] = "running"
  /\ proc' = [proc EXCEPT ![c] = "zombie"]
  /\ \E how \in DOMAIN Status : code' = [code EXCEPT ![c] = how]
  /\ \E left \in BOOLEAN : heir' = [heir EXCEPT ![c] = left]
  /\ chld' = IF Subscribed /\ chld < ChldCap THEN chld + 1 ELSE chld
  /\ UNCHANGED <<main, at, client, pty, out, sent>>

HeirExits(c) ==
  /\ Alive
  /\ heir[c]
  /\ heir' = [heir EXCEPT ![c] = FALSE]
  /\ UNCHANGED <<main, chld, at, client, pty, proc, code, out, sent>>

\* Only a session that is open notices.
Disconnect(c) ==
  /\ Alive
  /\ client[c] = "typing" /\ at[c] # "closed"
  /\ client' = [client EXCEPT ![c] = "gone"]
  /\ UNCHANGED <<main, chld, at, pty, command, out, sent>>

----------------------------------------------------------------------------
(* Specification.                                                          *)

SessionStep(c) ==
  \/ NoRequest(c) \/ OutputEnds(c) \/ CopyReturns(c)
  \/ WaitProcess(c) \/ Report(c)

MainStep ==
  \/ Subscribe \/ ChildSignal \/ ReapReturns \/ Leave
  \/ \E c \in Clients : ReapOne(c)

Environment(c) ==
  \/ PtyRequest(c) \/ StartFails(c) \/ Start(c) \/ OutputRefused(c)
  \/ CommandExits(c) \/ HeirExits(c) \/ Disconnect(c)

Next ==
  \/ \E c \in Clients : SessionStep(c) \/ Environment(c)
  \/ MainStep \/ Terminate \/ EntrypointDone

Init ==
  /\ main \in {"subscribe", "supervise"} /\ chld = 0
  /\ at = [c \in Clients |-> "request"]
  /\ client = [c \in Clients |-> "typing"]
  /\ pty = [c \in Clients |-> FALSE]
  /\ proc = [c \in Clients |-> "none"]
  /\ code = [c \in Clients |-> "none"]
  /\ heir = [c \in Clients |-> FALSE]
  /\ out = [c \in Clients |-> "none"]
  /\ sent = [c \in Clients |-> "none"]

Spec == Init /\ [][Next]_vars

\* Goroutines are scheduled.  Nothing makes a client, a command, a descendant or
\* the entrypoint end.
Fairness == WF_vars(MainStep) /\ \A c \in Clients : WF_vars(SessionStep(c))

FairSpec == Spec /\ Fairness

----------------------------------------------------------------------------
(* Properties.                                                             *)

TypeOK ==
  /\ main \in {"subscribe", "serve", "reap", "supervise", "lastreap", "leaving", "ended"}
  /\ chld \in 0..ChldCap
  /\ at \in [Clients -> {"request", "copy", "wait", "drain", "closed"}]
  /\ client \in [Clients -> {"typing", "gone"}]
  /\ pty \in [Clients -> BOOLEAN]
  /\ proc \in [Clients -> {"none", "running", "zombie", "reaped", "lost"}]
  /\ code \in [Clients -> {"none"} \union DOMAIN Status]
  /\ heir \in [Clients -> BOOLEAN]
  /\ out \in [Clients -> {"none", "copying", "done", "refused"}]
  /\ sent \in [Clients -> {"none", "0", "1", "127", "code"}]

\* Whoever is first to a command that has ended, runSession or reapOrphans, a
\* client is told of success only when the command succeeded.
SuccessIsReal == \A c \in Clients : sent[c] = "0" => code[c] = "ok"

\* The exit status, after which a client hangs up, comes behind the last byte of
\* the command's output and of its descendants'.
OutputBeforeStatus ==
  \A c \in Clients :
    sent[c] \notin {"none", "127"} /\ client[c] # "gone" => out[c] = "done" /\ ~heir[c]

\* Under an entrypoint reapOrphans runs when that has ended: until then a client
\* that is still there is told its command's own status.
TruthfulUnderSupervision ==
  main = "supervise" =>
    \A c \in Clients :
      sent[c] \notin {"none", "127"} /\ client[c] # "gone" => sent[c] = Status[code[c]]

\* A command that has ended, and holds on to nothing, ends its session: whether or
\* not the client's stdin ever does, and even when its status is lost.
SessionEnds ==
  \A c \in Clients : Ended(c) /\ ~heir[c] ~> at[c] = "closed" \/ ~Alive

\* While `xmorph idle` serves, no command that ends stays a zombie, even when its
\* terminal is held open and its session is not yet waiting for it, and even when
\* several end at once and notifications are dropped.
NoZombieStays ==
  \A c \in Clients :
    []((Subscribed /\ proc[c] = "running")
         => [](proc[c] = "zombie" => <>(proc[c] # "zombie" \/ ~Alive)))

----------------------------------------------------------------------------
(* What a test or comment of the code says, and the code does not do        *)
(* (README, "Disagreements").                                               *)

\* sshd_linux_test.go: the status of a command that exits with 42 is 42.
StatusPropagates ==
  \A c \in Clients :
    sent[c] \notin {"none", "127"} /\ client[c] # "gone" => sent[c] = Status[code[c]]
=============================================================================
