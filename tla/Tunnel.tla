------------------------------- MODULE Tunnel -------------------------------
(***************************************************************************)
(* `edc tunnel': up, down, restart and test.  Every command is a process   *)
(* of its own; the commands share the state files, the control sockets and *)
(* the ports with ssh masters that outlive them, and there is no lock.     *)
(* One action is one file operation or one call of ssh.                    *)
(***************************************************************************)
EXTENDS Integers, Sequences, FiniteSets

CONSTANTS
    Cmds,        \* the processes that run tunnel commands, one after another
    Names,       \* the names of the tunnels; load sorts by them
    SpecOf,      \* SpecOf[n]: the kind and the port of a definition
    Ports,       \* port numbers
    AutoPort,    \* the port `auto'
    Attempts,    \* tunnelAutoAttempts
    Overlap,     \* whether commands for one name may run at the same time
    Faults,      \* the calls that may fail
    MaxMasters,  \* bound: ssh masters started
    MaxKills,    \* bound: commands killed
    MaxTaken     \* bound: ports taken by other programs

FaultNames == {"pick", "check", "ssh", "save", "stop"}
Spec1      == [kind : {"forward", "reverse"}, port : Ports \cup {AutoPort}]
NoPort     == <<"none", 0>>

ASSUME NameAssumption  == Names \subseteq Nat
ASSUME SpecAssumption  == SpecOf \in [Names -> Spec1]
ASSUME PortAssumption  == Ports \subseteq Nat \ {0} /\ AutoPort \notin Ports
ASSUME BoundAssumption == /\ Attempts \in Nat \ {0} /\ MaxMasters \in Nat
                          /\ MaxKills \in Nat /\ MaxTaken \in Nat
ASSUME FaultAssumption == Faults \subseteq FaultNames /\ Overlap \in BOOLEAN

VARIABLES
    rec,        \* rec[n]: the port in the state file of n, NoPort without a file
    sock,       \* sock[n]: the master that made the control socket of n, 0 without one
    masters,    \* the ssh masters that were started: name and port
    alive,      \* those that still run
    taken,      \* the ports of other programs
    cmd,        \* cmd[c]: what a process does
    excused,    \* ghost: masters that a command lost without a fault of its own
    kills, takes

vars == <<rec, sock, masters, alive, taken, cmd, excused, kills, takes>>

Sides  == {"local", "remote"}
Places == Sides \X Ports
Resting == {"ready", "down"}   \* nothing under way; "down": it has said that a tunnel stopped
Working == {"load", "check", "stop", "remove", "plan", "conflicts", "port", "socket",
            "start", "save", "undo", "test"}

Side(n)    == IF SpecOf[n].kind = "reverse" THEN "remote" ELSE "local"
IsAuto(n)  == SpecOf[n].port = AutoPort
Held(p)    == p \in taken \/ \E m \in alive : masters[m].port = p
Free(side) == {p \in {side} \X Ports : ~Held(p)}

\* `ssh -O check' and `ssh -O exit' reach the master behind the socket
Answers(n) == sock[n] \in alive

NoCmd(l) == [op |-> "none", name |-> 0, pc |-> l, todo |-> {}, port |-> NoPort, tries |-> 0, mine |-> 0]

Init ==
    /\ rec = [n \in Names |-> NoPort]
    /\ sock = [n \in Names |-> 0]
    /\ masters = <<>> /\ alive = {} /\ taken = {}
    /\ cmd = [c \in Cmds |-> NoCmd("ready")]
    /\ excused = {} /\ kills = 0 /\ takes = 0

MayFail(f)  == f \in Faults
At(c, l)    == cmd[c].pc = l
Goto(c, l)  == cmd' = [cmd EXCEPT ![c].pc = l]
End(c)      == cmd' = [cmd EXCEPT ![c] = NoCmd("ready")]
Name(c)     == cmd[c].name
Active(c)   == cmd[c].pc \in Working
files       == <<rec, sock>>
ssh         == <<masters, alive>>
others      == <<taken, kills, takes>>

-----------------------------------------------------------------------------
\* runTunnel, or a key on the tunnel screen; `r' stops and starts
Begin(c, op, n) ==
    /\ ~Active(c)
    /\ Overlap \/ \A d \in Cmds : Active(d) => Name(d) # n
    /\ cmd' = [cmd EXCEPT ![c] = [op |-> op, name |-> n, todo |-> {}, port |-> NoPort,
                                  tries |-> 0, mine |-> 0,
                                  pc |-> CASE op = "up"   -> "plan"
                                           [] op = "test" -> "test"
                                           [] OTHER       -> "load"]]
    /\ UNCHANGED <<files, ssh, others, excused>>

\* A check: the answer, or a failure that says nothing of the master
CheckSays(n, answer) ==
    \/ answer = Answers(n)
    \/ answer = FALSE /\ MayFail("check")

\* store.remove: the state file and the socket
RemoveFiles(n) ==
    /\ rec' = [rec EXCEPT ![n] = NoPort]
    /\ sock' = [sock EXCEPT ![n] = 0]

\* The check failed although the master runs
Misread(n) == excused' = excused \cup ({sock[n]} \cap alive)

-----------------------------------------------------------------------------
(* down                                                                    *)

LoadDown(c) ==
    /\ At(c, "load")
    /\ IF rec[Name(c)] # NoPort THEN Goto(c, "check")
       ELSE IF cmd[c].op = "restart" THEN Goto(c, "plan") ELSE End(c)
    /\ UNCHANGED <<files, ssh, others, excused>>

CheckDown(c) ==
    /\ At(c, "check")
    /\ \/ CheckSays(Name(c), TRUE) /\ Goto(c, "stop") /\ UNCHANGED excused
       \/ CheckSays(Name(c), FALSE) /\ Goto(c, "remove") /\ Misread(Name(c))
    /\ UNCHANGED <<files, ssh, others>>

\* `ssh -O exit': the master ends and removes its socket
Exits(n) ==
    /\ Answers(n)
    /\ alive' = alive \ {sock[n]}
    /\ sock' = [sock EXCEPT ![n] = 0]

StopDownReported(c) ==
    /\ At(c, "stop")
    /\ \/ Exits(Name(c)) /\ Goto(c, "remove")
       \/ /\ MayFail("stop") \/ ~Answers(Name(c))
          /\ cmd' = [cmd EXCEPT ![c] = NoCmd("down")]
          /\ UNCHANGED <<alive, sock>>
    /\ UNCHANGED <<rec, masters, others, excused>>

\* A failed stop keeps the state file
StopDown(c) ==
    /\ At(c, "stop")
    /\ \/ Exits(Name(c)) /\ Goto(c, "remove")
       \/ (MayFail("stop") \/ ~Answers(Name(c))) /\ End(c) /\ UNCHANGED <<alive, sock>>
    /\ UNCHANGED <<rec, masters, others, excused>>

RemoveDown(c) ==
    /\ At(c, "remove")
    /\ RemoveFiles(Name(c))
    /\ IF cmd[c].op = "restart" THEN Goto(c, "plan")
       ELSE cmd' = [cmd EXCEPT ![c] = NoCmd("down")]
    /\ UNCHANGED <<ssh, others, excused>>

-----------------------------------------------------------------------------
(* up                                                                      *)

\* buildTunnelPlan: the port of the definition, or one that is free just now
PlannedPorts(n) == IF IsAuto(n) THEN Free(Side(n)) ELSE {<<Side(n), SpecOf[n].port>>}

\* rejectConflicts: the state files with the same name or the same port
Rivals(n, p) == {r \in Names : rec[r] # NoPort /\ (r = n \/ rec[r] = p)}

PlanUp(c) ==
    /\ At(c, "plan")
    /\ \/ \E p \in PlannedPorts(Name(c)) :
            cmd' = [cmd EXCEPT ![c].port = p, ![c].todo = Rivals(Name(c), p), ![c].pc = "conflicts"]
       \/ MayFail("pick") /\ End(c)
    /\ UNCHANGED <<files, ssh, others, excused>>

First(S)  == CHOOSE n \in S : \A k \in S : n <= k
NextRival(c) == First(cmd[c].todo)

\* A running rival refuses the start; a dead one of the same name is removed
CheckConflict(c) ==
    /\ At(c, "conflicts") /\ cmd[c].todo # {}
    /\ \/ CheckSays(NextRival(c), TRUE) /\ End(c) /\ UNCHANGED <<files, excused>>
       \/ /\ CheckSays(NextRival(c), FALSE)
          /\ IF NextRival(c) = Name(c)
             THEN RemoveFiles(Name(c)) /\ Misread(Name(c))
             ELSE UNCHANGED <<files, excused>>
          /\ cmd' = [cmd EXCEPT ![c].todo = @ \ {NextRival(c)}]
    /\ UNCHANGED <<ssh, others>>

\* up goes on, test has its answer
NoConflict(c) ==
    /\ At(c, "conflicts") /\ cmd[c].todo = {}
    /\ IF cmd[c].op = "test" THEN End(c) ELSE Goto(c, "port")
    /\ UNCHANGED <<files, ssh, others, excused>>

\* available: a port that is busy now ends the start, also an automatic one
CheckPort(c) ==
    /\ At(c, "port")
    /\ IF Side(Name(c)) = "local" /\ Held(cmd[c].port) THEN End(c) ELSE Goto(c, "socket")
    /\ UNCHANGED <<files, ssh, others, excused>>

\* os.Remove(socket)
RemoveSocket(c) ==
    /\ At(c, "socket")
    /\ sock' = [sock EXCEPT ![Name(c)] = 0]
    /\ Goto(c, "start")
    /\ UNCHANGED <<rec, ssh, others, excused>>

MayRetryAlways(c) == IsAuto(Name(c))
\* A port taken between the choice and ssh: another one, three times at most
MayRetry(c) == IsAuto(Name(c)) /\ cmd[c].tries + 1 < Attempts

RetryUp(c) ==
    IF MayRetry(c)
    THEN \/ \E p \in PlannedPorts(Name(c)) :
              cmd' = [cmd EXCEPT ![c].port = p, ![c].tries = @ + 1, ![c].pc = "port"]
         \/ (MayFail("pick") \/ PlannedPorts(Name(c)) = {}) /\ End(c)
    ELSE End(c)

\* ssh -f -M: it takes the port first, then makes the socket; when a socket is
\* there already it goes on without one
StartSsh(c) ==
    LET n == Name(c)
        m == Len(masters) + 1
    IN
    /\ At(c, "start")
    /\ \/ /\ ~Held(cmd[c].port) /\ m <= MaxMasters
          /\ masters' = Append(masters, [name |-> n, port |-> cmd[c].port])
          /\ alive' = alive \cup {m}
          /\ sock' = IF sock[n] = 0 THEN [sock EXCEPT ![n] = m] ELSE sock
          /\ cmd' = [cmd EXCEPT ![c].mine = m, ![c].pc = "save"]
       \/ Held(cmd[c].port) /\ RetryUp(c) /\ UNCHANGED <<ssh, sock>>
       \/ MayFail("ssh") /\ End(c) /\ UNCHANGED <<ssh, sock>>
    /\ UNCHANGED <<rec, others, excused>>

SaveUpOrGiveUp(c) ==
    /\ At(c, "save")
    /\ \/ rec' = [rec EXCEPT ![Name(c)] = cmd[c].port] /\ End(c)
       \/ MayFail("save") /\ End(c) /\ UNCHANGED rec
    /\ UNCHANGED <<sock, ssh, others, excused>>

\* The process number is asked for and the state file written
SaveUp(c) ==
    /\ At(c, "save")
    /\ \/ rec' = [rec EXCEPT ![Name(c)] = cmd[c].port] /\ End(c)
       \/ MayFail("save") /\ Goto(c, "undo") /\ UNCHANGED rec
    /\ UNCHANGED <<sock, ssh, others, excused>>

\* No state file, no tunnel; when it cannot be stopped the user is told how to
UndoUp(c) ==
    /\ At(c, "undo")
    /\ \/ Exits(Name(c)) /\ UNCHANGED excused
       \/ /\ MayFail("stop") \/ ~Answers(Name(c))
          /\ excused' = excused \cup {cmd[c].mine}
          /\ UNCHANGED <<alive, sock>>
    /\ End(c)
    /\ UNCHANGED <<rec, masters, others>>

-----------------------------------------------------------------------------
\* test: a tunnel that runs passes; else the port is looked at as up does
TestRunning(c) ==
    LET n == Name(c) IN
    /\ At(c, "test")
    /\ \/ rec[n] # NoPort /\ CheckSays(n, TRUE) /\ End(c)
       \/ /\ rec[n] = NoPort \/ CheckSays(n, FALSE)
          /\ IF IsAuto(n) THEN End(c)
             ELSE \E p \in PlannedPorts(n) :
                    cmd' = [cmd EXCEPT ![c].port = p, ![c].todo = Rivals(n, p),
                                       ![c].pc = "conflicts"]
    /\ UNCHANGED <<files, ssh, others, excused>>

-----------------------------------------------------------------------------
(* Around the commands                                                     *)

\* A command is killed; a master that it had not recorded yet stays
Kill(c) ==
    /\ Active(c) /\ kills < MaxKills
    /\ kills' = kills + 1
    /\ End(c)
    /\ excused' = IF cmd[c].pc \in {"save", "undo"} THEN excused \cup {cmd[c].mine} ELSE excused
    /\ UNCHANGED <<files, ssh, taken, takes>>

\* A master ends by itself, with or without its socket
MasterDies(m) ==
    /\ m \in alive
    /\ alive' = alive \ {m}
    /\ \/ UNCHANGED sock
       \/ sock' = [n \in Names |-> IF sock[n] = m THEN 0 ELSE sock[n]]
    /\ UNCHANGED <<rec, masters, others, cmd, excused>>

OtherTakes(p) ==
    /\ ~Held(p) /\ takes < MaxTaken
    /\ taken' = taken \cup {p} /\ takes' = takes + 1
    /\ UNCHANGED <<files, ssh, cmd, excused, kills>>

OtherReleases(p) ==
    /\ p \in taken
    /\ taken' = taken \ {p}
    /\ UNCHANGED <<files, ssh, cmd, excused, kills, takes>>

DownStep(c) == LoadDown(c) \/ CheckDown(c) \/ StopDown(c) \/ RemoveDown(c)
UpStep(c)   == \/ PlanUp(c) \/ CheckConflict(c) \/ NoConflict(c) \/ CheckPort(c)
               \/ RemoveSocket(c) \/ StartSsh(c) \/ SaveUp(c) \/ UndoUp(c)
Step(c)     == DownStep(c) \/ UpStep(c) \/ TestRunning(c)

Next ==
    \/ \E c \in Cmds :
         \/ \E op \in {"up", "down", "restart", "test"}, n \in Names : Begin(c, op, n)
         \/ Step(c) \/ Kill(c)
    \/ \E m \in alive : MasterDies(m)
    \/ \E p \in {Side(n) : n \in Names} \X Ports : OtherTakes(p) \/ OtherReleases(p)

Spec == Init /\ [][Next]_vars

-----------------------------------------------------------------------------
(* Properties                                                              *)

TypeOK ==
    /\ rec \in [Names -> Places \cup {NoPort}]
    /\ masters \in Seq([name : Names, port : Places])
    /\ sock \in [Names -> 0 .. Len(masters)]
    /\ alive \subseteq 1 .. Len(masters) /\ excused \subseteq 1 .. Len(masters)
    /\ taken \subseteq Places
    /\ cmd \in [Cmds -> [op : {"up", "down", "restart", "test", "none"}, name : Names \cup {0},
                         pc : Working \cup Resting, todo : SUBSET Names,
                         port : Places \cup {NoPort}, tries : 0 .. Attempts - 1,
                         mine : 0 .. Len(masters)]]
    /\ kills \in 0 .. MaxKills /\ takes \in 0 .. MaxTaken

\* The command that has started m but not yet recorded it
Unrecorded(m) == \E c \in Cmds : cmd[c].mine = m /\ cmd[c].pc \in {"save", "undo"}
\* list shows m as up, and down reaches it
Reachable(m)  == rec[masters[m].name] # NoPort /\ sock[masters[m].name] = m

\* "A tunnel whose record could not be saved must be ended, since edc cannot find
\* it again": every ssh process that a command left running is in the list and
\* can be stopped by its name, unless the command was killed before it could
\* record it, told the user so, or was given a wrong answer by a check.
NoOrphan == \A m \in alive : Reachable(m) \/ Unrecorded(m) \/ m \in excused

\* When down says that a tunnel has stopped, no ssh process of it runs on.
DownMeansStopped ==
    [][\A c \in Cmds : ~At(c, "down") /\ At(c, "down")' =>
          \A m \in alive' : masters'[m].name = Name(c) => m \in excused']_vars
=============================================================================
