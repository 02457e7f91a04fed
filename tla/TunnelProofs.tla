---------------------------- MODULE TunnelProofs ----------------------------
(***************************************************************************)
(* Proofs about Tunnel: for any number of commands, names, ports and ssh   *)
(* masters, as long as no two commands for one name run at the same time,  *)
(* no ssh process is left that edc cannot find again.                      *)
(***************************************************************************)
EXTENDS Tunnel, SequenceTheorems, TLAPS

Cmd == [op : {"up", "down", "restart", "test", "none"}, name : Names \cup {0},
        pc : Working \cup Resting, todo : SUBSET Names, port : Places \cup {NoPort},
        tries : Nat, mine : Nat]

Types ==
    /\ rec \in [Names -> Places \cup {NoPort}]
    /\ masters \in Seq([name : Names, port : Places])
    /\ sock \in [Names -> Nat]
    /\ alive \subseteq 1 .. Len(masters)
    /\ cmd \in [Cmds -> Cmd]

\* Only one command works on a name
Alone == \A c, d \in Cmds : Active(c) /\ Active(d) /\ Name(c) = Name(d) => c = d

\* Every master of n that still runs has an excuse
Loose(n) == \A m \in alive : masters[m].name = n => m \in excused

\* What a command may rely on at each of its steps
PcOf(c) ==
    /\ Active(c) => Name(c) \in Names
    /\ At(c, "conflicts") => Name(c) \in cmd[c].todo \/ Loose(Name(c))
    /\ cmd[c].pc \in {"remove", "port", "socket", "start"} => Loose(Name(c))
    /\ At(c, "start") => sock[Name(c)] = 0
    /\ cmd[c].pc \in {"conflicts", "port", "socket", "start", "save", "undo"} => cmd[c].port # NoPort
    /\ cmd[c].pc \in {"save", "undo"} =>
         /\ cmd[c].mine \in 1 .. Len(masters) /\ masters[cmd[c].mine].name = Name(c)
         /\ cmd[c].mine \in alive => sock[Name(c)] = cmd[c].mine \/ cmd[c].mine \in excused

Found(m) == Reachable(m) \/ Unrecorded(m) \/ m \in excused

Inv == Types /\ Alone /\ (\A c \in Cmds : PcOf(c)) /\ (\A m \in alive : Found(m))

USE DEF At, Name, Active, Goto, End, Found

-----------------------------------------------------------------------------
LEMMA NoPortNotAPlace == NoPort \notin Places
  BY DEF NoPort, Places, Sides

LEMMA MasterTyped == ASSUME Types, NEW m \in alive PROVE masters[m].name \in Names
  <1>1. m \in 1 .. Len(masters) /\ masters \in Seq([name : Names, port : Places])
    BY DEF Types
  <1>2. masters[m] \in [name : Names, port : Places]  BY <1>1, ElementOfSeq
  <1> QED  BY <1>2

LEMMA InitInv == Init => Inv
  <1> SUFFICES ASSUME Init PROVE Inv  OBVIOUS
  <1>1. Types
    <2>1. masters \in Seq([name : Names, port : Places])  BY DEF Init
    <2>2. rec \in [Names -> Places \cup {NoPort}] /\ sock \in [Names -> Nat]  BY DEF Init
    <2>3. NoCmd("ready") \in Cmd  BY DEF NoCmd, Cmd, Resting
    <2>4. cmd \in [Cmds -> Cmd]  BY <2>3 DEF Init
    <2> QED  BY <2>1, <2>2, <2>4 DEF Types, Init
  <1>2. \A c \in Cmds : cmd[c].pc = "ready"  BY DEF Init, NoCmd
  <1>3. Alone /\ \A c \in Cmds : PcOf(c)  BY <1>2 DEF Alone, PcOf, Working
  <1>4. \A m \in alive : Found(m)  BY DEF Init
  <1> QED  BY <1>1, <1>3, <1>4 DEF Inv

\* A step of one command touches the files of its own name only.  What is left to
\* show for it: its own step, and the masters of its own name.
LEMMA Frame ==
  ASSUME Inv, NEW c \in Cmds, Active(c), NEW r \in Cmd, cmd' = [cmd EXCEPT ![c] = r],
         r.pc \in Working => r.name = Name(c),
         rec' \in [Names -> Places \cup {NoPort}], sock' \in [Names -> Nat],
         \A k \in Names : k # Name(c) => rec'[k] = rec[k] /\ sock'[k] = sock[k],
         masters' = masters, alive' \subseteq alive, excused \subseteq excused',
         PcOf(c)', \A m \in alive' : masters[m].name = Name(c) => Found(m)'
  PROVE  Inv'
  <1> USE DEF Inv
  <1>0. /\ cmd'[c] = r /\ \A d \in Cmds : d # c => cmd'[d] = cmd[d]
        /\ cmd' \in [Cmds -> Cmd]
    BY DEF Types
  <1>1. Types'  BY <1>0 DEF Types
  <1>2. Alone'  BY <1>0 DEF Alone
  <1>3. \A d \in Cmds : PcOf(d)'
    <2> SUFFICES ASSUME NEW d \in Cmds, d # c PROVE PcOf(d)'  OBVIOUS
    <2>1. PcOf(d) /\ cmd'[d] = cmd[d]  BY <1>0
    <2>2. CASE ~Active(d)  BY <2>1, <2>2 DEF PcOf, Working
    <2>3. CASE Active(d)
      <3>1. Name(d) # Name(c) /\ Name(d) \in Names  BY <2>1, <2>3 DEF Alone, PcOf
      <3>2. sock'[Name(d)] = sock[Name(d)]  BY <3>1
      <3>3. Loose(Name(d)) => Loose(Name(d))'  BY <2>1 DEF Loose
      <3> QED  BY <2>1, <3>1, <3>2, <3>3 DEF PcOf
    <2> QED  BY <2>2, <2>3
  <1>4. \A m \in alive' : Found(m)'
    <2> SUFFICES ASSUME NEW m \in alive', masters[m].name # Name(c) PROVE Found(m)'  OBVIOUS
    <2>1. masters[m].name \in Names  BY MasterTyped DEF Types
    <2>2. CASE Reachable(m)  BY <2>1, <2>2 DEF Reachable
    <2>3. CASE Unrecorded(m)
      <3>1. PICK d \in Cmds : cmd[d].mine = m /\ cmd[d].pc \in {"save", "undo"}
        BY <2>3 DEF Unrecorded
      <3>2. d # c  BY <3>1 DEF PcOf
      <3> QED  BY <1>0, <3>1, <3>2 DEF Unrecorded
    <2>4. CASE m \in excused  BY <2>4
    <2> QED  BY <2>2, <2>3, <2>4
  <1> QED  BY <1>1, <1>2, <1>3, <1>4

\* The running masters of a command's name, outside the end of a start
LEMMA OwnMasters ==
  ASSUME Inv, NEW c \in Cmds, Active(c), cmd[c].pc \notin {"save", "undo"},
         NEW m \in alive, masters[m].name = Name(c)
  PROVE  Reachable(m) \/ m \in excused
  <1>1. ASSUME Unrecorded(m) PROVE FALSE
    <2>1. PICK d \in Cmds : cmd[d].mine = m /\ cmd[d].pc \in {"save", "undo"}
      BY <1>1 DEF Unrecorded
    <2>2. Active(d) /\ Name(d) = Name(c)  BY <2>1 DEF Inv, PcOf, Working
    <2> QED  BY <2>1, <2>2 DEF Inv, Alone
  <1> QED  BY <1>1 DEF Inv

\* A step that changes nothing but where the command is
LEMMA Move ==
  ASSUME Inv, NEW c \in Cmds, Active(c), cmd[c].pc \notin {"save", "undo"},
         NEW r \in Cmd, cmd' = [cmd EXCEPT ![c] = r], r.pc \in Working => r.name = Name(c),
         UNCHANGED <<rec, sock, masters, alive, excused>>, PcOf(c)'
  PROVE  Inv'
  <1>1. \A m \in alive' : masters[m].name = Name(c) => Found(m)'
    BY OwnMasters DEF Reachable
  <1> QED  BY <1>1, Frame DEF Inv, Types

LEMMA GotoCmd ==
  ASSUME Types, NEW c \in Cmds, NEW l \in Working \cup Resting, Goto(c, l)
  PROVE  /\ [cmd[c] EXCEPT !.pc = l] \in Cmd
         /\ cmd' = [cmd EXCEPT ![c] = [cmd[c] EXCEPT !.pc = l]]
         /\ cmd'[c] = [cmd[c] EXCEPT !.pc = l]
  BY DEF Types, Cmd

LEMMA NoCmdTyped == ASSUME NEW l \in Resting PROVE NoCmd(l) \in Cmd /\ NoCmd(l).pc = l
  BY DEF NoCmd, Cmd

\* A command that rests relies on nothing
LEMMA RestingPc ==
  ASSUME NEW c \in Cmds, NEW l \in Resting, Types, cmd' = [cmd EXCEPT ![c] = NoCmd(l)]
  PROVE  PcOf(c)' /\ cmd'[c] = NoCmd(l) /\ cmd'[c].pc = l
  <1>1. cmd'[c] = NoCmd(l) /\ cmd'[c].pc = l  BY NoCmdTyped DEF Types
  <1> QED  BY <1>1 DEF PcOf, Resting, Working

LEMMA EndMove ==
  ASSUME Inv, NEW c \in Cmds, Active(c), cmd[c].pc \notin {"save", "undo"}, End(c),
         UNCHANGED <<rec, sock, masters, alive, excused>>
  PROVE  Inv'
  <1>1. "ready" \in Resting  BY DEF Resting
  <1> QED  BY <1>1, RestingPc, NoCmdTyped, Move DEF Inv, Resting, Working

\* A move to a step that relies on nothing
LEMMA PlainMove ==
  ASSUME Inv, NEW c \in Cmds, Active(c), cmd[c].pc \notin {"save", "undo"},
         NEW l \in {"check", "stop", "plan"}, Goto(c, l),
         UNCHANGED <<rec, sock, masters, alive, excused>>
  PROVE  Inv'
  <1>1. l \in Working \cup Resting /\ l \in Working  BY DEF Working
  <1>2. PcOf(c)'  BY <1>1, GotoCmd DEF PcOf, Inv, Types
  <1>3. [cmd[c] EXCEPT !.pc = l].name = Name(c)  BY DEF Inv, Types, Cmd
  <1> QED  BY <1>1, <1>2, <1>3, GotoCmd, Move DEF Inv

-----------------------------------------------------------------------------
LEMMA LoadDownStep == ASSUME Inv, NEW c \in Cmds, LoadDown(c) PROVE Inv'
  <1>1. Active(c) /\ cmd[c].pc \notin {"save", "undo"}  BY DEF LoadDown, Working
  <1> QED  BY <1>1, PlainMove, EndMove DEF LoadDown, files, ssh

\* A check that fails leaves no running master of the name without an excuse
LEMMA MisreadLoosens ==
  ASSUME Inv, NEW c \in Cmds, Active(c), cmd[c].pc \notin {"save", "undo"},
         Misread(Name(c)), UNCHANGED <<masters, alive>>
  PROVE  (\A m \in alive : masters[m].name = Name(c) => m \in excused') /\ excused \subseteq excused'
  <1>1. \A m \in alive : masters[m].name = Name(c) => m \in excused \/ m = sock[Name(c)]
    BY OwnMasters DEF Reachable
  <1>2. excused \subseteq excused' /\ (sock[Name(c)] \in alive => sock[Name(c)] \in excused')
    BY DEF Misread
  <1> QED  BY <1>1, <1>2

LEMMA CheckDownStep == ASSUME Inv, NEW c \in Cmds, CheckDown(c) PROVE Inv'
  <1>1. Active(c) /\ cmd[c].pc \notin {"save", "undo"}  BY DEF CheckDown, Working
  <1>2. CASE Goto(c, "stop") /\ UNCHANGED excused
    BY <1>1, <1>2, PlainMove DEF CheckDown, files, ssh
  <1>3. CASE Goto(c, "remove") /\ Misread(Name(c))
    <2>1. UNCHANGED <<rec, sock, masters, alive>>  BY DEF CheckDown, files, ssh
    <2>2. (\A m \in alive : masters[m].name = Name(c) => m \in excused') /\ excused \subseteq excused'
      BY <1>1, <1>3, <2>1, MisreadLoosens
    <2>3. "remove" \in Working \cup Resting  BY DEF Working
    <2>4. cmd'[c].pc = "remove" /\ cmd'[c].name = Name(c) /\ Name(c) \in Names
      BY <1>1, <1>3, <2>3, GotoCmd DEF Inv, Types, Cmd, PcOf
    <2>5. PcOf(c)'  BY <2>1, <2>2, <2>4 DEF PcOf, Loose
    <2>6. \A m \in alive' : masters[m].name = Name(c) => Found(m)'
      BY <2>1, <2>2 DEF Loose
    <2> QED  BY <1>1, <1>3, <2>1, <2>2, <2>3, <2>4, <2>5, <2>6, GotoCmd, Frame DEF Inv, Types
  <1> QED  BY <1>2, <1>3 DEF CheckDown

\* Where the command is after a Goto
LEMMA GotoIs ==
  ASSUME Inv, NEW c \in Cmds, Active(c), NEW l \in Working, Goto(c, l)
  PROVE  /\ [cmd[c] EXCEPT !.pc = l] \in Cmd /\ [cmd[c] EXCEPT !.pc = l].name = Name(c)
         /\ cmd' = [cmd EXCEPT ![c] = [cmd[c] EXCEPT !.pc = l]]
         /\ cmd'[c].pc = l /\ cmd'[c].name = Name(c) /\ Name(c) \in Names
         /\ cmd'[c].port = cmd[c].port /\ cmd'[c].mine = cmd[c].mine /\ cmd'[c].todo = cmd[c].todo
  <1>1. Types /\ l \in Working \cup Resting /\ cmd[c] \in Cmd /\ Name(c) \in Names
    BY DEF Inv, Types, PcOf
  <1>2. /\ [cmd[c] EXCEPT !.pc = l] \in Cmd
        /\ cmd' = [cmd EXCEPT ![c] = [cmd[c] EXCEPT !.pc = l]]
        /\ cmd'[c] = [cmd[c] EXCEPT !.pc = l]
    BY <1>1, GotoCmd
  <1>3. LET r == [cmd[c] EXCEPT !.pc = l]
        IN  /\ r.pc = l /\ r.name = Name(c) /\ r.port = cmd[c].port /\ r.mine = cmd[c].mine
            /\ r.todo = cmd[c].todo
    BY <1>1 DEF Cmd
  <1> QED  BY <1>1, <1>2, <1>3

LEMMA StopDownStep == ASSUME Inv, NEW c \in Cmds, StopDown(c) PROVE Inv'
  <1>1. Active(c) /\ cmd[c].pc \notin {"save", "undo"} /\ "remove" \in Working
    BY DEF StopDown, Working
  <1>2. CASE End(c) /\ UNCHANGED <<alive, sock>>
    BY <1>1, <1>2, EndMove DEF StopDown
  <1>3. CASE Exits(Name(c)) /\ Goto(c, "remove")
    <2>1. UNCHANGED <<rec, masters, excused>>  BY DEF StopDown
    <2>2. /\ cmd'[c].pc = "remove" /\ cmd'[c].name = Name(c) /\ Name(c) \in Names
      BY <1>1, <1>3, GotoIs
    <2>3. /\ alive' = alive \ {sock[Name(c)]} /\ sock' \in [Names -> Nat]
          /\ \A k \in Names : k # Name(c) => sock'[k] = sock[k]
      BY <1>3, <2>2 DEF Exits, Inv, Types
    <2>4. \A m \in alive' : masters[m].name = Name(c) => m \in excused
      BY <1>1, <2>3, OwnMasters DEF Reachable
    <2>5. PcOf(c)'  BY <2>1, <2>2, <2>4 DEF PcOf, Loose
    <2>6. \A m \in alive' : masters[m].name = Name(c) => Found(m)'  BY <2>1, <2>4
    <2>7. rec' \in [Names -> Places \cup {NoPort}]  BY <2>1 DEF Inv, Types
    <2>8. alive' \subseteq alive  BY <2>3
    <2> QED  BY <1>1, <1>3, <2>1, <2>2, <2>3, <2>5, <2>6, <2>7, <2>8, GotoIs, Frame
  <1> QED  BY <1>2, <1>3 DEF StopDown

\* The files of a name whose masters all have an excuse may go
LEMMA RemovedFiles ==
  ASSUME Inv, NEW c \in Cmds, Name(c) \in Names, RemoveFiles(Name(c))
  PROVE  /\ rec' \in [Names -> Places \cup {NoPort}] /\ sock' \in [Names -> Nat]
         /\ \A k \in Names : k # Name(c) => rec'[k] = rec[k] /\ sock'[k] = sock[k]
  BY DEF RemoveFiles, Inv, Types

LEMMA RemoveDownStep == ASSUME Inv, NEW c \in Cmds, RemoveDown(c) PROVE Inv'
  <1>1. Active(c) /\ "plan" \in Working /\ "down" \in Resting
    BY DEF RemoveDown, Working, Resting
  <1>2. Name(c) \in Names /\ Loose(Name(c))  BY <1>1 DEF Inv, PcOf, RemoveDown
  <1>3. UNCHANGED <<masters, alive, excused>>  BY DEF RemoveDown, ssh
  <1>4. \A m \in alive' : masters[m].name = Name(c) => Found(m)'
    BY <1>2, <1>3 DEF Loose
  <1>5. CASE Goto(c, "plan")
    <2>1. PcOf(c)'  BY <1>1, <1>5, GotoIs DEF PcOf
    <2> QED  BY <1>1, <1>2, <1>3, <1>4, <1>5, <2>1, RemovedFiles, GotoIs, Frame DEF RemoveDown
  <1>6. CASE cmd' = [cmd EXCEPT ![c] = NoCmd("down")]
    <2>1. PcOf(c)'  BY <1>1, <1>6, RestingPc DEF Inv
    <2>2. NoCmd("down") \in Cmd /\ NoCmd("down").pc \notin Working
      BY <1>1, NoCmdTyped DEF Resting, Working
    <2> QED  BY <1>1, <1>2, <1>3, <1>4, <1>6, <2>1, <2>2, RemovedFiles, Frame DEF RemoveDown
  <1> QED  BY <1>5, <1>6 DEF RemoveDown

-----------------------------------------------------------------------------
LEMMA PlannedTyped == ASSUME NEW n \in Names, NEW p \in PlannedPorts(n) PROVE p \in Places
  BY SpecAssumption DEF PlannedPorts, Free, Places, Sides, Side, Spec1, IsAuto

\* The look for rivals, by up and by test
LEMMA ToConflicts ==
  ASSUME Inv, NEW c \in Cmds, Active(c), cmd[c].pc \notin {"save", "undo"},
         NEW p \in PlannedPorts(Name(c)),
         cmd' = [cmd EXCEPT ![c].port = p, ![c].todo = Rivals(Name(c), p), ![c].pc = "conflicts"],
         UNCHANGED <<rec, sock, masters, alive, excused>>
  PROVE  Inv'
  <1> DEFINE r == [cmd[c] EXCEPT !.port = p, !.todo = Rivals(Name(c), p), !.pc = "conflicts"]
  <1>1. Name(c) \in Names /\ cmd[c] \in Cmd  BY DEF Inv, PcOf, Types
  <1>2. p \in Places /\ p # NoPort  BY <1>1, PlannedTyped, NoPortNotAPlace
  <1>3. Rivals(Name(c), p) \subseteq Names  BY DEF Rivals
  <1>4. r \in Cmd /\ r.name = Name(c) /\ r.pc = "conflicts" /\ r.port = p
        /\ r.todo = Rivals(Name(c), p)
    BY <1>1, <1>2, <1>3 DEF Cmd, Working
  <1>5. cmd' = [cmd EXCEPT ![c] = r] /\ cmd'[c] = r  BY DEF Inv, Types
  <1>6. Name(c) \in Rivals(Name(c), p) \/ Loose(Name(c))
    BY <1>1, OwnMasters DEF Rivals, Reachable, Loose
  <1>7. PcOf(c)'  BY <1>1, <1>2, <1>4, <1>5, <1>6 DEF PcOf, Loose
  <1> QED  BY <1>4, <1>5, <1>7, Move

LEMMA PlanUpStep == ASSUME Inv, NEW c \in Cmds, PlanUp(c) PROVE Inv'
  <1>1. Active(c) /\ cmd[c].pc \notin {"save", "undo"}  BY DEF PlanUp, Working
  <1> QED  BY <1>1, ToConflicts, EndMove DEF PlanUp, files, ssh

LEMMA TestRunningStep == ASSUME Inv, NEW c \in Cmds, TestRunning(c) PROVE Inv'
  <1>1. Active(c) /\ cmd[c].pc \notin {"save", "undo"}  BY DEF TestRunning, Working
  <1> QED  BY <1>1, ToConflicts, EndMove DEF TestRunning, files, ssh

LEMMA CheckConflictStep == ASSUME Inv, NEW c \in Cmds, CheckConflict(c) PROVE Inv'
  <1>1. Active(c) /\ cmd[c].pc = "conflicts" /\ cmd[c].pc \notin {"save", "undo"}
    BY DEF CheckConflict, Working
  <1>2. UNCHANGED <<masters, alive>>  BY DEF CheckConflict, ssh
  <1>3. CASE End(c) /\ UNCHANGED <<files, excused>>
    BY <1>1, <1>2, <1>3, EndMove DEF files
  <1>4. CASE cmd' = [cmd EXCEPT ![c].todo = @ \ {NextRival(c)}]
    <2> DEFINE r == [cmd[c] EXCEPT !.todo = @ \ {NextRival(c)}]
    <2>1. Name(c) \in Names /\ cmd[c] \in Cmd  BY <1>1 DEF Inv, PcOf, Types
    <2>2. r \in Cmd /\ r.name = Name(c) /\ r.pc = "conflicts" /\ r.port = cmd[c].port
          /\ r.todo = cmd[c].todo \ {NextRival(c)}
      BY <2>1, <1>1 DEF Cmd
    <2>3. cmd' = [cmd EXCEPT ![c] = r] /\ cmd'[c] = r  BY <1>4 DEF Inv, Types
    <2>4. CASE NextRival(c) # Name(c) /\ UNCHANGED <<files, excused>>
      <3>1. PcOf(c)'  BY <1>1, <1>2, <2>1, <2>2, <2>3, <2>4 DEF PcOf, Loose, Inv
      <3> QED  BY <1>1, <1>2, <2>2, <2>3, <2>4, <3>1, Move DEF files
    <2>5. CASE RemoveFiles(Name(c)) /\ Misread(Name(c))
      <3>1. (\A m \in alive : masters[m].name = Name(c) => m \in excused') /\ excused \subseteq excused'
        BY <1>1, <1>2, <2>5, MisreadLoosens
      <3>2. PcOf(c)'  BY <1>1, <1>2, <2>1, <2>2, <2>3, <3>1 DEF PcOf, Loose, Inv
      <3> QED  BY <1>1, <1>2, <2>1, <2>2, <2>3, <2>5, <3>1, <3>2, RemovedFiles, Frame
    <2> QED  BY <1>1, <1>3, <1>4, <2>4, <2>5 DEF CheckConflict
  <1> QED  BY <1>3, <1>4 DEF CheckConflict

LEMMA NoConflictStep == ASSUME Inv, NEW c \in Cmds, NoConflict(c) PROVE Inv'
  <1>1. Active(c) /\ cmd[c].pc \notin {"save", "undo"} /\ "port" \in Working
    BY DEF NoConflict, Working
  <1>2. UNCHANGED <<rec, sock, masters, alive, excused>>  BY DEF NoConflict, files, ssh
  <1>3. Loose(Name(c)) /\ cmd[c].port # NoPort  BY DEF NoConflict, Inv, PcOf
  <1>4. CASE Goto(c, "port")
    <2>1. PcOf(c)'  BY <1>1, <1>2, <1>3, <1>4, GotoIs DEF PcOf, Loose
    <2> QED  BY <1>1, <1>2, <1>4, <2>1, GotoIs, Move
  <1> QED  BY <1>1, <1>2, <1>4, EndMove DEF NoConflict

LEMMA CheckPortStep == ASSUME Inv, NEW c \in Cmds, CheckPort(c) PROVE Inv'
  <1>1. Active(c) /\ cmd[c].pc \notin {"save", "undo"} /\ "socket" \in Working
    BY DEF CheckPort, Working
  <1>2. UNCHANGED <<rec, sock, masters, alive, excused>>  BY DEF CheckPort, files, ssh
  <1>3. Loose(Name(c)) /\ cmd[c].port # NoPort  BY DEF CheckPort, Inv, PcOf
  <1>4. CASE Goto(c, "socket")
    <2>1. PcOf(c)'  BY <1>1, <1>2, <1>3, <1>4, GotoIs DEF PcOf, Loose
    <2> QED  BY <1>1, <1>2, <1>4, <2>1, GotoIs, Move
  <1> QED  BY <1>1, <1>2, <1>4, EndMove DEF CheckPort

LEMMA RemoveSocketStep == ASSUME Inv, NEW c \in Cmds, RemoveSocket(c) PROVE Inv'
  <1>1. Active(c) /\ "start" \in Working /\ Goto(c, "start")  BY DEF RemoveSocket, Working
  <1>2. UNCHANGED <<rec, masters, alive, excused>> /\ sock' = [sock EXCEPT ![Name(c)] = 0]
    BY DEF RemoveSocket, ssh
  <1>3. Loose(Name(c)) /\ cmd[c].port # NoPort /\ Name(c) \in Names
    BY <1>1 DEF RemoveSocket, Inv, PcOf
  <1>4. /\ sock' \in [Names -> Nat] /\ sock'[Name(c)] = 0
        /\ \A k \in Names : k # Name(c) => sock'[k] = sock[k]
    BY <1>2, <1>3 DEF Inv, Types
  <1>5. PcOf(c)'  BY <1>1, <1>2, <1>3, <1>4, GotoIs DEF PcOf, Loose
  <1>6. \A m \in alive' : masters[m].name = Name(c) => Found(m)'
    BY <1>2, <1>3 DEF Loose
  <1> QED  BY <1>1, <1>2, <1>4, <1>5, <1>6, GotoIs, Frame DEF Inv, Types

LEMMA Appended ==
  ASSUME NEW R, masters \in Seq(R), NEW e \in R, masters' = Append(masters, e)
  PROVE  /\ masters' \in Seq(R) /\ Len(masters) \in Nat /\ Len(masters') = Len(masters) + 1
         /\ \A m \in 1 .. Len(masters) : masters'[m] = masters[m]
         /\ masters'[Len(masters) + 1] = e
  BY AppendProperties

\* ssh has the port and, since nothing is at its path, the socket
LEMMA Started ==
  ASSUME Inv, NEW c \in Cmds, At(c, "start"),
         masters' = Append(masters, [name |-> Name(c), port |-> cmd[c].port]),
         alive' = alive \cup {Len(masters) + 1},
         sock' = IF sock[Name(c)] = 0 THEN [sock EXCEPT ![Name(c)] = Len(masters) + 1] ELSE sock,
         cmd' = [cmd EXCEPT ![c].mine = Len(masters) + 1, ![c].pc = "save"],
         UNCHANGED <<rec, excused>>
  PROVE  Inv'
  <1>0. PICK m0 : m0 = Len(masters) + 1  OBVIOUS
  <1> DEFINE r == [cmd[c] EXCEPT !.mine = m0, !.pc = "save"]
             e == [name |-> Name(c), port |-> cmd[c].port]
             R == [name : Names, port : Places]
  <1>1. /\ Active(c) /\ Name(c) \in Names /\ cmd[c].port # NoPort /\ sock[Name(c)] = 0
        /\ cmd[c] \in Cmd /\ Loose(Name(c))
    BY DEF Inv, Types, PcOf, Working
  <1>2. cmd[c].port \in Places /\ masters \in Seq([name : Names, port : Places])
    BY <1>1 DEF Cmd, Inv, Types
  <1>3. e \in R /\ masters' = Append(masters, e) /\ masters \in Seq(R)  BY <1>1, <1>2
  <1>4. /\ masters' \in Seq([name : Names, port : Places])
        /\ Len(masters) \in Nat /\ Len(masters') = m0
        /\ \A m \in 1 .. Len(masters) : masters'[m] = masters[m]
        /\ masters'[m0] = [name |-> Name(c), port |-> cmd[c].port]
    <2> HIDE DEF e
    <2>1. /\ masters' \in Seq(R) /\ Len(masters) \in Nat /\ Len(masters') = Len(masters) + 1
          /\ \A m \in 1 .. Len(masters) : masters'[m] = masters[m]
          /\ masters'[Len(masters) + 1] = e
      BY <1>3, Appended
    <2> QED  BY <1>0, <2>1 DEF e
  <1>5. masters'[m0].name = Name(c)  BY <1>4
  <1>6. /\ r \in Cmd /\ r.pc = "save" /\ r.name = Name(c) /\ r.mine = m0 /\ r.port = cmd[c].port
    <2>1. m0 \in Nat /\ cmd[c] \in Cmd  BY <1>0, <1>1, <1>4
    <2> QED  BY <2>1 DEF Cmd, Working
  <1>7. /\ cmd' = [cmd EXCEPT ![c] = r] /\ cmd'[c] = r /\ cmd' \in [Cmds -> Cmd]
        /\ \A d \in Cmds : d # c => cmd'[d] = cmd[d]
    BY <1>0, <1>6 DEF Inv, Types
  <1>8. /\ sock' \in [Names -> Nat] /\ sock'[Name(c)] = m0
        /\ \A k \in Names : k # Name(c) => sock'[k] = sock[k]
    BY <1>0, <1>1, <1>4 DEF Inv, Types
  <1>9. alive \subseteq 1 .. Len(masters)  BY DEF Inv, Types
  <1>10. Types'
    BY <1>0, <1>4, <1>7, <1>8, <1>9 DEF Inv, Types
  <1>11. Alone'  BY <1>1, <1>6, <1>7 DEF Inv, Alone
  <1>12. \A d \in Cmds : PcOf(d)'
    <2>1. PcOf(c)'
      BY <1>0, <1>1, <1>4, <1>5, <1>6, <1>7, <1>8 DEF PcOf
    <2>2. ASSUME NEW d \in Cmds, d # c PROVE PcOf(d)'
      <3>1. PcOf(d) /\ cmd'[d] = cmd[d]  BY <1>7, <2>2 DEF Inv
      <3>2. CASE ~Active(d)
        <4>1. cmd[d].pc \notin {"conflicts", "remove", "port", "socket", "start", "save", "undo"}
          BY <3>2 DEF Working
        <4> QED  BY <3>1, <3>2, <4>1 DEF PcOf
      <3>3. CASE Active(d)
        <4>1. Name(d) # Name(c) /\ Name(d) \in Names
          BY <1>1, <2>2, <3>1, <3>3 DEF Alone, PcOf, Inv
        <4>2. sock'[Name(d)] = sock[Name(d)]  BY <1>8, <4>1
        <4>3. Loose(Name(d)) => \A m \in alive' : masters'[m].name = Name(d) => m \in excused
          BY <1>0, <1>4, <1>5, <1>9, <4>1 DEF Loose
        <4>4. Loose(Name(d)) => Loose(Name(d))'  BY <3>1, <4>3 DEF Loose
        <4>5. cmd[d].pc \in {"save", "undo"} =>
                /\ cmd[d].mine \in 1 .. Len(masters') /\ masters'[cmd[d].mine].name = Name(d)
                /\ cmd[d].mine \in alive' => sock'[Name(d)] = cmd[d].mine \/ cmd[d].mine \in excused
          BY <1>0, <1>4, <1>9, <3>1, <4>2 DEF PcOf
        <4> QED  BY <3>1, <4>1, <4>2, <4>4, <4>5 DEF PcOf
      <3> QED  BY <3>2, <3>3
    <2> QED  BY <2>1, <2>2
  <1>13. \A m \in alive' : Found(m)'
    <2>1. Unrecorded(m0)'  BY <1>6, <1>7 DEF Unrecorded
    <2>2. ASSUME NEW m \in alive PROVE Found(m)'
      <3>1. masters'[m] = masters[m]  BY <1>4, <1>9
      <3>5. masters[m].name \in Names  BY MasterTyped DEF Inv
      <3>2. CASE Reachable(m)
        <4>1. masters[m].name # Name(c)  BY <3>2, <1>1, <1>9 DEF Reachable
        <4> QED  BY <3>1, <3>2, <3>5, <4>1, <1>8 DEF Reachable
      <3>3. CASE Unrecorded(m)
        <4>1. PICK d \in Cmds : cmd[d].mine = m /\ cmd[d].pc \in {"save", "undo"}
          BY <3>3 DEF Unrecorded
        <4>2. d # c  BY <4>1
        <4> QED  BY <1>7, <4>1, <4>2 DEF Unrecorded
      <3>4. CASE m \in excused  BY <3>4
      <3> QED  BY <3>2, <3>3, <3>4 DEF Inv
    <2> QED  BY <1>0, <2>1, <2>2
  <1> QED  BY <1>10, <1>11, <1>12, <1>13 DEF Inv

LEMMA StartSshStep == ASSUME Inv, NEW c \in Cmds, StartSsh(c) PROVE Inv'
  <1>1. /\ Active(c) /\ cmd[c].pc = "start" /\ cmd[c].pc \notin {"save", "undo"}
        /\ UNCHANGED <<rec, excused>>
    BY DEF StartSsh, Working
  <1>2. CASE UNCHANGED <<ssh, sock>> /\ End(c)
    BY <1>1, <1>2, EndMove DEF ssh
  <1>3. ASSUME UNCHANGED <<ssh, sock>>, NEW p \in PlannedPorts(Name(c)),
               cmd' = [cmd EXCEPT ![c].port = p, ![c].tries = @ + 1, ![c].pc = "port"]
        PROVE  Inv'
    <2> DEFINE r == [cmd[c] EXCEPT !.port = p, !.tries = @ + 1, !.pc = "port"]
    <2>1. Name(c) \in Names /\ cmd[c] \in Cmd /\ Loose(Name(c))
      BY <1>1 DEF Inv, PcOf, Types
    <2>2. p \in Places /\ p # NoPort  BY <2>1, PlannedTyped, NoPortNotAPlace
    <2>6. cmd[c].tries + 1 \in Nat  BY <2>1 DEF Cmd
    <2>3. r \in Cmd /\ r.name = Name(c) /\ r.pc = "port" /\ r.port = p
      BY <2>1, <2>2, <2>6 DEF Cmd, Working
    <2>4. cmd' = [cmd EXCEPT ![c] = r] /\ cmd'[c] = r  BY <1>3 DEF Inv, Types
    <2>5. PcOf(c)'  BY <1>1, <1>3, <2>1, <2>2, <2>3, <2>4 DEF PcOf, Loose, ssh
    <2> QED  BY <1>1, <1>3, <2>3, <2>4, <2>5, Move DEF ssh
  <1>4. CASE UNCHANGED <<ssh, sock>> /\ RetryUp(c)
    BY <1>2, <1>3, <1>4 DEF RetryUp
  <1> QED  BY <1>1, <1>2, <1>4, Started DEF StartSsh

\* At the end of a start the only master of the name without an excuse is its own
LEMMA OwnMaster ==
  ASSUME Inv, NEW c \in Cmds, cmd[c].pc \in {"save", "undo"},
         NEW m \in alive, masters[m].name = Name(c)
  PROVE  Reachable(m) \/ m \in excused \/ (m = cmd[c].mine /\ sock[Name(c)] = m)
  <1>1. Active(c)  BY DEF Working
  <1>2. CASE Unrecorded(m)
    <2>1. PICK d \in Cmds : cmd[d].mine = m /\ cmd[d].pc \in {"save", "undo"}
      BY <1>2 DEF Unrecorded
    <2>2. d = c  BY <1>1, <2>1 DEF Inv, PcOf, Alone, Working
    <2> QED  BY <2>1, <2>2 DEF Inv, PcOf
  <1> QED  BY <1>2 DEF Inv

LEMMA SaveUpStep == ASSUME Inv, NEW c \in Cmds, SaveUp(c) PROVE Inv'
  <1>1. /\ Active(c) /\ Name(c) \in Names /\ cmd[c].port # NoPort /\ cmd[c].port \in Places
        /\ cmd[c].pc \in {"save", "undo"} /\ UNCHANGED <<sock, masters, alive, excused>>
    BY DEF SaveUp, Inv, Types, Cmd, PcOf, Working, ssh
  <1>2. ASSUME NEW m \in alive', masters[m].name = Name(c)
        PROVE  /\ Reachable(m) \/ m \in excused \/ (m = cmd[c].mine /\ sock[Name(c)] = m)
               /\ masters'[m].name = Name(c) /\ sock' = sock /\ excused' = excused
    BY <1>1, <1>2, OwnMaster
  <1>3. CASE rec' = [rec EXCEPT ![Name(c)] = cmd[c].port] /\ End(c)
    <2>1. /\ rec' \in [Names -> Places \cup {NoPort}] /\ rec'[Name(c)] # NoPort
          /\ \A k \in Names : k # Name(c) => rec'[k] = rec[k]
      BY <1>1, <1>3 DEF Inv, Types
    <2>2. \A m \in alive' : masters[m].name = Name(c) => Found(m)'
      BY <1>2, <2>1 DEF Reachable
    <2>3. "ready" \in Resting /\ NoCmd("ready") \in Cmd /\ NoCmd("ready").pc \notin Working
      BY NoCmdTyped DEF Resting, Working
    <2>4. PcOf(c)'  BY <1>3, <2>3, RestingPc DEF Inv
    <2> QED  BY <1>1, <1>3, <2>1, <2>2, <2>3, <2>4, Frame DEF Inv, Types
  <1>4. CASE Goto(c, "undo") /\ UNCHANGED rec
    <2>1. "undo" \in Working  BY DEF Working
    <2>2. PcOf(c)'  BY <1>1, <1>4, <2>1, GotoIs DEF PcOf, SaveUp, Inv
    <2>3. ASSUME NEW m \in alive', masters[m].name = Name(c) PROVE Found(m)'
      <3>1. CASE m = cmd[c].mine
        <4>1. cmd'[c].mine = m /\ cmd'[c].pc = "undo"  BY <1>1, <1>4, <2>1, <3>1, GotoIs
        <4> QED  BY <4>1 DEF Unrecorded
      <3>2. CASE m # cmd[c].mine  BY <1>2, <1>4, <2>3, <3>2 DEF Reachable
      <3> QED  BY <3>1, <3>2
    <2> QED  BY <1>1, <1>4, <2>1, <2>2, <2>3, GotoIs, Frame DEF Inv, Types
  <1> QED  BY <1>3, <1>4 DEF SaveUp

\* The end of a command that had a master of its own: by undo, or killed
LEMMA EndOfStart ==
  ASSUME Inv, NEW c \in Cmds, cmd[c].pc \in {"save", "undo"}, End(c),
         sock' \in [Names -> Nat], \A k \in Names : k # Name(c) => sock'[k] = sock[k],
         alive' \subseteq alive, excused \subseteq excused', UNCHANGED <<rec, masters>>,
         \A m \in alive' : masters[m].name = Name(c) =>
             m \in excused' \/ (Reachable(m) /\ sock'[Name(c)] = sock[Name(c)])
  PROVE  Inv'
  <1>1. Active(c)  BY DEF Working
  <1>2. "ready" \in Resting /\ NoCmd("ready") \in Cmd /\ NoCmd("ready").pc \notin Working
    BY NoCmdTyped DEF Resting, Working
  <1>3. PcOf(c)'  BY <1>2, RestingPc DEF Inv
  <1>4. \A m \in alive' : masters[m].name = Name(c) => Found(m)'
    BY DEF Reachable
  <1> QED  BY <1>1, <1>2, <1>3, <1>4, Frame DEF Inv, Types

LEMMA UndoUpStep == ASSUME Inv, NEW c \in Cmds, UndoUp(c) PROVE Inv'
  <1>1. /\ cmd[c].pc \in {"save", "undo"} /\ End(c) /\ UNCHANGED <<rec, masters>>
        /\ Name(c) \in Names /\ sock \in [Names -> Nat]
    BY DEF UndoUp, Inv, PcOf, Types, Working
  <1>2. CASE Exits(Name(c)) /\ UNCHANGED excused
    <2>1. /\ alive' = alive \ {sock[Name(c)]} /\ sock' \in [Names -> Nat]
          /\ \A k \in Names : k # Name(c) => sock'[k] = sock[k]
      BY <1>1, <1>2 DEF Exits
    <2>2. \A m \in alive' : masters[m].name = Name(c) => m \in excused'
      BY <1>1, <1>2, <2>1, OwnMaster DEF Reachable
    <2> QED  BY <1>1, <1>2, <2>1, <2>2, EndOfStart
  <1>3. CASE excused' = excused \cup {cmd[c].mine} /\ UNCHANGED <<alive, sock>>
    <2>1. \A m \in alive' : masters[m].name = Name(c) => m \in excused' \/ Reachable(m)
      BY <1>1, <1>3, OwnMaster
    <2> QED  BY <1>1, <1>3, <2>1, EndOfStart
  <1> QED  BY <1>2, <1>3 DEF UndoUp

LEMMA KillStep == ASSUME Inv, NEW c \in Cmds, Kill(c) PROVE Inv'
  <1>1. /\ Active(c) /\ End(c) /\ UNCHANGED <<rec, sock, masters, alive>>
        /\ sock \in [Names -> Nat]
    BY DEF Kill, files, ssh, Inv, Types
  <1>2. CASE cmd[c].pc \in {"save", "undo"}
    <2>1. excused' = excused \cup {cmd[c].mine}  BY <1>2 DEF Kill
    <2>2. \A m \in alive' : masters[m].name = Name(c) => m \in excused' \/ Reachable(m)
      BY <1>1, <1>2, <2>1, OwnMaster
    <2> QED  BY <1>1, <1>2, <2>1, <2>2, EndOfStart
  <1>3. CASE cmd[c].pc \notin {"save", "undo"}
    BY <1>1, <1>3, EndMove DEF Kill
  <1> QED  BY <1>2, <1>3

-----------------------------------------------------------------------------
LEMMA MasterDiesStep == ASSUME Inv, NEW m \in alive, MasterDies(m) PROVE Inv'
  <1>1. /\ alive' = alive \ {m} /\ UNCHANGED <<rec, masters, cmd, excused>>
        /\ m # 0 /\ sock \in [Names -> Nat]
    BY DEF MasterDies, Inv, Types
  <1>2. /\ sock' \in [Names -> Nat]
        /\ \A k \in Names : sock'[k] = sock[k] \/ (sock[k] = m /\ sock'[k] = 0)
    BY <1>1 DEF MasterDies
  <1>3. Types' /\ Alone'  BY <1>1, <1>2 DEF Inv, Types, Alone
  <1>4. ASSUME NEW d \in Cmds PROVE PcOf(d)'
    <2>1. PcOf(d) /\ cmd' = cmd /\ (Active(d) => Name(d) \in Names)  BY <1>1 DEF Inv, PcOf
    <2>2. Loose(Name(d)) => Loose(Name(d))'  BY <1>1 DEF Loose
    <2>3. At(d, "start") => sock'[Name(d)] = 0  BY <1>1, <1>2, <2>1 DEF PcOf, Working
    <2>4. cmd[d].pc \in {"save", "undo"} /\ cmd[d].mine \in alive' =>
            sock'[Name(d)] = cmd[d].mine \/ cmd[d].mine \in excused
      BY <1>1, <1>2, <2>1 DEF PcOf, Working
    <2> QED  BY <1>1, <2>1, <2>2, <2>3, <2>4 DEF PcOf
  <1>5. ASSUME NEW k \in alive' PROVE Found(k)'
    <2>1. k \in alive /\ k # m /\ masters[k].name \in Names  BY <1>1, MasterTyped DEF Inv
    <2>2. CASE Reachable(k)  BY <1>1, <1>2, <2>1, <2>2 DEF Reachable
    <2>3. CASE Unrecorded(k)  BY <1>1, <2>3 DEF Unrecorded
    <2> QED  BY <1>1, <2>1, <2>2, <2>3 DEF Inv
  <1> QED  BY <1>3, <1>4, <1>5 DEF Inv

LEMMA Unmoved == ASSUME Inv, UNCHANGED <<rec, sock, masters, alive, cmd, excused>> PROVE Inv'
  BY DEF Inv, Types, Alone, PcOf, Loose, Reachable, Unrecorded

\* The only place where Overlap matters: nobody else works on the name
LEMMA BeginStep ==
  ASSUME Overlap = FALSE, Inv, NEW c \in Cmds, NEW n \in Names,
         NEW op \in {"up", "down", "restart", "test"}, Begin(c, op, n)
  PROVE  Inv'
  <1>1. /\ ~Active(c) /\ (\A d \in Cmds : Active(d) => Name(d) # n)
        /\ UNCHANGED <<rec, sock, masters, alive, excused>>
    BY DEF Begin, files, ssh
  <1>2. PICK l \in {"plan", "test", "load"} :
           cmd' = [cmd EXCEPT ![c] = [op |-> op, name |-> n, todo |-> {}, port |-> NoPort,
                                      tries |-> 0, mine |-> 0, pc |-> l]]
    BY DEF Begin
  <1> DEFINE r == [op |-> op, name |-> n, todo |-> {}, port |-> NoPort,
                   tries |-> 0, mine |-> 0, pc |-> l]
  <1>3. r \in Cmd  BY <1>2 DEF Cmd, Working
  <1>4. /\ cmd' \in [Cmds -> Cmd] /\ cmd'[c] = r /\ \A d \in Cmds : d # c => cmd'[d] = cmd[d]
    BY <1>2, <1>3 DEF Inv, Types
  <1>5. r.pc = l /\ r.name = n  OBVIOUS
  <1>6. Types'  BY <1>1, <1>4 DEF Inv, Types
  <1>7. Alone'  BY <1>1, <1>4, <1>5 DEF Inv, Alone
  <1>8. ASSUME NEW d \in Cmds PROVE PcOf(d)'
    <2>1. CASE d = c  BY <1>2, <1>4, <1>5, <2>1 DEF PcOf
    <2>2. CASE d # c  BY <1>1, <1>4, <2>2 DEF Inv, PcOf, Loose
    <2> QED  BY <2>1, <2>2
  <1>9. ASSUME NEW m \in alive' PROVE Found(m)'
    <2>1. CASE Unrecorded(m)
      <3>1. PICK d \in Cmds : cmd[d].mine = m /\ cmd[d].pc \in {"save", "undo"}
        BY <2>1 DEF Unrecorded
      <3>2. d # c  BY <1>1, <3>1 DEF Working
      <3> QED  BY <1>4, <3>1, <3>2 DEF Unrecorded
    <2> QED  BY <1>1, <2>1 DEF Inv, Reachable
  <1> QED  BY <1>6, <1>7, <1>8, <1>9 DEF Inv

LEMMA NextInv == ASSUME Overlap = FALSE, Inv, [Next]_vars PROVE Inv'
  <1>1. ASSUME NEW c \in Cmds, DownStep(c) PROVE Inv'
    BY <1>1, LoadDownStep, CheckDownStep, StopDownStep, RemoveDownStep DEF DownStep
  <1>2. ASSUME NEW c \in Cmds, UpStep(c) PROVE Inv'
    BY <1>2, PlanUpStep, CheckConflictStep, NoConflictStep, CheckPortStep, RemoveSocketStep,
       StartSshStep, SaveUpStep, UndoUpStep DEF UpStep
  <1>3. ASSUME NEW c \in Cmds, Step(c) PROVE Inv'
    BY <1>1, <1>2, <1>3, TestRunningStep DEF Step
  <1>4. ASSUME NEW p, OtherTakes(p) \/ OtherReleases(p) PROVE Inv'
    BY <1>4, Unmoved DEF OtherTakes, OtherReleases, files, ssh
  <1>5. CASE UNCHANGED vars  BY <1>5, Unmoved DEF vars
  <1> QED  BY <1>3, <1>4, <1>5, BeginStep, KillStep, MasterDiesStep DEF Next

\* What NoOrphan and DownMeansStopped rest on, in every reachable state
LEMMA InvAlways == ASSUME Overlap = FALSE PROVE Spec => []Inv
  <1>1. Init => Inv  BY InitInv
  <1>2. Inv /\ [Next]_vars => Inv'  BY NextInv
  <1> QED  BY <1>1, <1>2, PTL DEF Spec

\* However many tunnels, ports and commands there are, and whichever of them are
\* killed or fail: if commands for one name do not overlap, every ssh process
\* that edc left running can be found again (runTunnel, up, down, restart).
THEOREM NoOrphanAlways == ASSUME Overlap = FALSE PROVE Spec => []NoOrphan
  <1>1. Inv => NoOrphan  BY DEF Inv, NoOrphan
  <1> QED  BY <1>1, InvAlways, PTL

\* "down" is said in one place
LEMMA OnlyRemoveSays ==
  ASSUME Types, [Next]_vars, NEW c \in Cmds, cmd[c].pc # "down", cmd'[c].pc = "down"
  PROVE  RemoveDown(c)
  <1>1. cmd \in [Cmds -> Cmd] /\ cmd' # cmd  BY DEF Types
  <1>2. ASSUME NEW d \in Cmds, End(d) PROVE FALSE
    <2>1. NoCmd("ready").pc = "ready"  BY DEF NoCmd
    <2> QED  BY <1>1, <1>2, <2>1
  <1>3. ASSUME NEW d \in Cmds, NEW l, l # "down", Goto(d, l) PROVE FALSE
    BY <1>1, <1>3 DEF Cmd
  <1>4. ASSUME NEW d \in Cmds, NEW S, NEW p,
               cmd' = [cmd EXCEPT ![d].port = p, ![d].todo = S, ![d].pc = "conflicts"]
        PROVE  FALSE
    BY <1>1, <1>4 DEF Cmd
  <1>5. ASSUME NEW d \in Cmds, DownStep(d) PROVE RemoveDown(c)
    <2>1. CASE RemoveDown(d)
      <3>1. d = c  BY <1>1, <1>3, <2>1 DEF RemoveDown
      <3> QED  BY <2>1, <3>1
    <2> QED  BY <1>2, <1>3, <1>5, <2>1 DEF DownStep, LoadDown, CheckDown, StopDown
  <1>6. ASSUME NEW d \in Cmds, UpStep(d) PROVE FALSE
    <2>1. CASE PlanUp(d)  BY <1>2, <1>4, <2>1 DEF PlanUp
    <2>2. CASE CheckConflict(d)
      <3>1. CASE cmd' = [cmd EXCEPT ![d].todo = @ \ {NextRival(d)}]
        BY <1>1, <3>1 DEF Cmd
      <3> QED  BY <1>2, <2>2, <3>1 DEF CheckConflict
    <2>3. CASE RetryUp(d)
      <3>1. ASSUME NEW p, cmd' = [cmd EXCEPT ![d].port = p, ![d].tries = @ + 1, ![d].pc = "port"]
            PROVE  FALSE
        BY <1>1, <3>1 DEF Cmd
      <3> QED  BY <1>2, <2>3, <3>1 DEF RetryUp
    <2>4. CASE StartSsh(d)
      <3>1. CASE cmd' = [cmd EXCEPT ![d].mine = Len(masters) + 1, ![d].pc = "save"]
        BY <1>1, <3>1 DEF Cmd
      <3> QED  BY <1>2, <2>3, <2>4, <3>1 DEF StartSsh
    <2>5. CASE NoConflict(d) \/ CheckPort(d) \/ RemoveSocket(d) \/ SaveUp(d) \/ UndoUp(d)
      BY <1>2, <1>3, <2>5 DEF NoConflict, CheckPort, RemoveSocket, SaveUp, UndoUp
    <2> QED  BY <1>6, <2>1, <2>2, <2>4, <2>5 DEF UpStep
  <1>7. ASSUME NEW d \in Cmds, TestRunning(d) PROVE FALSE
    BY <1>2, <1>4, <1>7 DEF TestRunning
  <1>8. ASSUME NEW d \in Cmds, NEW n, NEW op, Begin(d, op, n) PROVE FALSE
    <2>1. PICK l \in {"plan", "test", "load"} :
             cmd' = [cmd EXCEPT ![d] = [op |-> op, name |-> n, todo |-> {}, port |-> NoPort,
                                        tries |-> 0, mine |-> 0, pc |-> l]]
      BY <1>8 DEF Begin
    <2> QED  BY <1>1, <2>1
  <1>9. ASSUME NEW d \in Cmds, Kill(d) PROVE FALSE  BY <1>2, <1>9 DEF Kill
  <1>10. ~ \E m \in alive : MasterDies(m)  BY <1>1 DEF MasterDies
  <1>11. ~ \E p : OtherTakes(p) \/ OtherReleases(p)
    BY <1>1 DEF OtherTakes, OtherReleases
  <1> QED  BY <1>1, <1>5, <1>6, <1>7, <1>8, <1>9, <1>10, <1>11 DEF Next, Step, vars

\* A command that says "stopped" has removed the record of a name of which no
\* process is left that it could have known of (tunnelManager.down).
THEOREM DownMeansStoppedAlways == ASSUME Overlap = FALSE PROVE Spec => DownMeansStopped
  <1> DEFINE Said == \A c \in Cmds : ~At(c, "down") /\ At(c, "down")' =>
                       \A m \in alive' : masters'[m].name = Name(c) => m \in excused'
  <1>1. Inv /\ [Next]_vars => [Said]_vars
    <2> SUFFICES ASSUME Inv, [Next]_vars, NEW c \in Cmds, ~At(c, "down"), At(c, "down")'
                 PROVE  \A m \in alive' : masters'[m].name = Name(c) => m \in excused'
      OBVIOUS
    <2>1. RemoveDown(c)  BY OnlyRemoveSays DEF Inv
    <2>2. Loose(Name(c))  BY <2>1 DEF RemoveDown, Inv, PcOf
    <2>3. UNCHANGED <<masters, alive, excused>>  BY <2>1 DEF RemoveDown, ssh
    <2> QED  BY <2>2, <2>3 DEF Loose
  <1>2. Spec => [][Said]_vars  BY <1>1, InvAlways, PTL DEF Spec
  <1> QED  BY <1>2 DEF DownMeansStopped

-----------------------------------------------------------------------------
(* The types, also when commands for one name overlap                      *)

CmdType(k) == [op : {"up", "down", "restart", "test", "none"}, name : Names \cup {0},
               pc : Working \cup Resting, todo : SUBSET Names, port : Places \cup {NoPort},
               tries : 0 .. Attempts - 1, mine : 0 .. k]

HasPort   == {"conflicts", "port", "socket", "start", "save", "undo"}
HasMaster == {"save", "undo"}

\* A command works on a name; it has a port once it has planned, and a master once
\* ssh has started
GoodCmds(k) ==
    {r \in CmdType(k) : /\ r.pc \in Working => r.name \in Names
                        /\ r.pc \in HasPort => r.port \in Places
                        /\ r.pc \in HasMaster => r.mine \in 1 .. k}

StoreOK ==
    /\ rec \in [Names -> Places \cup {NoPort}]
    /\ masters \in Seq([name : Names, port : Places])
    /\ sock \in [Names -> 0 .. Len(masters)]
    /\ alive \subseteq 1 .. Len(masters) /\ excused \subseteq 1 .. Len(masters)
    /\ taken \subseteq Places
    /\ kills \in 0 .. MaxKills /\ takes \in 0 .. MaxTaken

CmdsOK == cmd \in [Cmds -> GoodCmds(Len(masters))]

TypeInv == StoreOK /\ CmdsOK

LEMMA TypeInvType == TypeInv => TypeOK
  BY DEF TypeInv, StoreOK, CmdsOK, GoodCmds, CmdType, TypeOK

LEMMA RestGood == ASSUME NEW l \in Resting, NEW k \in Nat PROVE NoCmd(l) \in GoodCmds(k)
  <1>1. NoCmd(l) \in CmdType(k)
    <2>1. 0 \in 0 .. Attempts - 1 /\ 0 \in 0 .. k  BY BoundAssumption
    <2> QED  BY <2>1 DEF NoCmd, CmdType
  <1>2. NoCmd(l).pc = l  BY DEF NoCmd
  <1> QED  BY <1>1, <1>2 DEF GoodCmds, Resting, Working, HasPort, HasMaster

LEMMA InitType == Init => TypeInv
  <1> SUFFICES ASSUME Init PROVE TypeInv  OBVIOUS
  <1>1. masters \in Seq([name : Names, port : Places]) /\ Len(masters) = 0  BY DEF Init
  <1>2. StoreOK  BY <1>1, BoundAssumption DEF Init, StoreOK
  <1>3. NoCmd("ready") \in GoodCmds(Len(masters))  BY <1>1, RestGood DEF Resting
  <1> QED  BY <1>2, <1>3 DEF TypeInv, CmdsOK, Init

\* A step to another label
LEMMA GotoGood ==
  ASSUME NEW k \in Nat, cmd \in [Cmds -> GoodCmds(k)], NEW c \in Cmds, Active(c), NEW l \in Working,
         Goto(c, l),
         l \in HasPort => cmd[c].pc \in HasPort, l \in HasMaster => cmd[c].pc \in HasMaster
  PROVE  cmd' \in [Cmds -> GoodCmds(k)]
  <1> DEFINE r == [cmd[c] EXCEPT !.pc = l]
  <1>1. cmd[c] \in CmdType(k) /\ cmd[c].name \in Names
    BY DEF GoodCmds
  <1>2. r \in CmdType(k) /\ r.pc = l /\ r.name = cmd[c].name /\ r.port = cmd[c].port
        /\ r.mine = cmd[c].mine
    BY <1>1 DEF CmdType
  <1>3. (l \in HasPort => cmd[c].port \in Places) /\ (l \in HasMaster => cmd[c].mine \in 1 .. k)
    BY DEF GoodCmds
  <1>4. r \in GoodCmds(k)  BY <1>1, <1>2, <1>3 DEF GoodCmds
  <1> QED  BY <1>4

\* The look for a port, by up and by test
LEMMA PlannedGood ==
  ASSUME NEW k \in Nat, cmd \in [Cmds -> GoodCmds(k)], NEW c \in Cmds, Active(c),
         NEW p \in PlannedPorts(Name(c)), NEW S \in SUBSET Names,
         cmd' = [cmd EXCEPT ![c].port = p, ![c].todo = S, ![c].pc = "conflicts"]
  PROVE  cmd' \in [Cmds -> GoodCmds(k)]
  <1> DEFINE r == [cmd[c] EXCEPT !.port = p, !.todo = S, !.pc = "conflicts"]
  <1>1. cmd[c] \in CmdType(k) /\ cmd[c].name \in Names  BY DEF GoodCmds
  <1>2. p \in Places  BY <1>1, PlannedTyped
  <1>3. r \in CmdType(k) /\ r.pc = "conflicts" /\ r.name = cmd[c].name /\ r.port = p
    BY <1>1, <1>2 DEF CmdType, Working
  <1>4. r \in GoodCmds(k)  BY <1>1, <1>2, <1>3 DEF GoodCmds, HasMaster
  <1> QED  BY <1>4

LEMMA EndGood ==
  ASSUME NEW k \in Nat, cmd \in [Cmds -> GoodCmds(k)], NEW c \in Cmds, NEW l \in Resting,
         cmd' = [cmd EXCEPT ![c] = NoCmd(l)]
  PROVE  cmd' \in [Cmds -> GoodCmds(k)]
  BY RestGood

LEMMA DownStepType == ASSUME TypeInv, NEW c \in Cmds, DownStep(c) PROVE TypeInv'
  <1>k. PICK k \in Nat : k = Len(masters)  BY DEF TypeInv, StoreOK
  <1>c. cmd \in [Cmds -> GoodCmds(k)]  BY <1>k DEF TypeInv, CmdsOK
  <1>a. Active(c) /\ Name(c) \in Names
    BY <1>c DEF DownStep, LoadDown, CheckDown, StopDown, RemoveDown, Working, GoodCmds
  <1>m. UNCHANGED <<masters, taken, kills, takes>>
    BY DEF DownStep, LoadDown, CheckDown, StopDown, RemoveDown, ssh, others
  <1>w. {"check", "stop", "remove", "plan"} \subseteq Working \ (HasPort \cup HasMaster)
        /\ {"ready", "down"} \subseteq Resting
    BY DEF Working, HasPort, HasMaster, Resting
  <1>g. ASSUME NEW l \in {"check", "stop", "remove", "plan"}, Goto(c, l) PROVE CmdsOK'
    BY <1>g, <1>k, <1>c, <1>a, <1>m, <1>w, GotoGood DEF CmdsOK
  <1>e. ASSUME NEW l \in {"ready", "down"}, cmd' = [cmd EXCEPT ![c] = NoCmd(l)] PROVE CmdsOK'
    BY <1>e, <1>k, <1>c, <1>m, <1>w, EndGood DEF CmdsOK
  <1>1. CmdsOK'
    BY <1>g, <1>e DEF DownStep, LoadDown, CheckDown, StopDown, RemoveDown
  <1>2. StoreOK'
    <2>1. alive' \subseteq alive /\ excused' \subseteq excused \cup alive
      BY DEF DownStep, LoadDown, CheckDown, StopDown, RemoveDown, Exits, Misread, ssh
    <2>2. rec' \in [Names -> Places \cup {NoPort}]
      BY DEF DownStep, LoadDown, CheckDown, StopDown, RemoveDown, RemoveFiles, files, TypeInv, StoreOK
    <2>3. sock' \in [Names -> 0 .. Len(masters)]
      <3>1. UNCHANGED sock \/ sock' = [sock EXCEPT ![Name(c)] = 0]
        BY DEF DownStep, LoadDown, CheckDown, StopDown, RemoveDown, RemoveFiles, Exits, files
      <3> QED  BY <3>1, <1>k DEF TypeInv, StoreOK
    <2> QED  BY <2>1, <2>2, <2>3, <1>m DEF TypeInv, StoreOK
  <1> QED  BY <1>1, <1>2 DEF TypeInv

LEMMA UpStepType == ASSUME TypeInv, NEW c \in Cmds, UpStep(c) \/ TestRunning(c) PROVE TypeInv'
  <1>k. PICK k \in Nat : k = Len(masters)  BY DEF TypeInv, StoreOK
  <1>c. cmd \in [Cmds -> GoodCmds(k)]  BY <1>k DEF TypeInv, CmdsOK
  <1>a. Active(c) /\ Name(c) \in Names
    BY <1>c DEF UpStep, PlanUp, CheckConflict, NoConflict, CheckPort, RemoveSocket, StartSsh, SaveUp,
       UndoUp, TestRunning, Working, GoodCmds
  <1>p. cmd[c].pc \in HasPort => cmd[c].port \in Places  BY <1>c DEF GoodCmds
  <1>o. UNCHANGED <<taken, kills, takes>>
    BY DEF UpStep, PlanUp, CheckConflict, NoConflict, CheckPort, RemoveSocket, StartSsh, SaveUp,
       UndoUp, TestRunning, others
  <1>r. "ready" \in Resting  BY DEF Resting
  <1>e. ASSUME End(c), UNCHANGED masters PROVE CmdsOK'
    BY <1>e, <1>k, <1>c, <1>r, EndGood DEF CmdsOK
  <1>g. ASSUME NEW l \in Working, Goto(c, l), UNCHANGED masters, l \in HasPort => cmd[c].pc \in HasPort,
               l \in HasMaster => cmd[c].pc \in HasMaster
        PROVE  CmdsOK'
    BY <1>g, <1>k, <1>c, <1>a, GotoGood DEF CmdsOK
  <1>q. ASSUME NEW p \in PlannedPorts(Name(c)), UNCHANGED masters,
               cmd' = [cmd EXCEPT ![c].port = p, ![c].todo = Rivals(Name(c), p), ![c].pc = "conflicts"]
        PROVE  CmdsOK'
    <2>1. Rivals(Name(c), p) \in SUBSET Names  BY DEF Rivals
    <2> QED  BY <1>q, <2>1, <1>k, <1>c, <1>a, PlannedGood DEF CmdsOK
  <1>s. ASSUME UNCHANGED <<rec, sock, masters, alive, excused>> PROVE StoreOK'
    BY <1>s, <1>o DEF TypeInv, StoreOK
  <1>1. CASE PlanUp(c)
    BY <1>1, <1>e, <1>q, <1>s DEF PlanUp, files, ssh, TypeInv
  <1>2. CASE TestRunning(c)
    BY <1>2, <1>e, <1>q, <1>s DEF TestRunning, files, ssh, TypeInv
  <1>3. CASE CheckConflict(c)
    <2>1. UNCHANGED <<masters, alive>>  BY <1>3 DEF CheckConflict, ssh
    <2>2. CmdsOK'
      <3>1. CASE cmd' = [cmd EXCEPT ![c].todo = @ \ {NextRival(c)}]
        <4> DEFINE r == [cmd[c] EXCEPT !.todo = @ \ {NextRival(c)}]
        <4>1. cmd[c] \in GoodCmds(k) /\ cmd[c] \in CmdType(k)  BY <1>c DEF GoodCmds
        <4>2. r \in CmdType(k) /\ r.pc = cmd[c].pc /\ r.name = cmd[c].name /\ r.port = cmd[c].port
              /\ r.mine = cmd[c].mine
          BY <4>1 DEF CmdType
        <4>3. r \in GoodCmds(k)  BY <4>1, <4>2 DEF GoodCmds
        <4> QED  BY <3>1, <4>3, <1>k, <1>c, <2>1 DEF CmdsOK
      <3> QED  BY <1>3, <2>1, <3>1, <1>e DEF CheckConflict
    <2>3. UNCHANGED files \/ RemoveFiles(Name(c))  BY <1>3 DEF CheckConflict
    <2>r. rec' \in [Names -> Places \cup {NoPort}]
      BY <2>3 DEF RemoveFiles, files, TypeInv, StoreOK
    <2>4. sock' \in [Names -> 0 .. Len(masters)]
      <3>1. UNCHANGED sock \/ sock' = [sock EXCEPT ![Name(c)] = 0]
        BY <2>3 DEF RemoveFiles, files
      <3> QED  BY <3>1, <1>k DEF TypeInv, StoreOK
    <2>5. excused' \subseteq excused \cup alive  BY <1>3 DEF CheckConflict, Misread
    <2> QED  BY <2>1, <2>2, <2>r, <2>4, <2>5, <1>o DEF TypeInv, StoreOK
  <1>4. CASE NoConflict(c)
    <2>1. "port" \in Working /\ cmd[c].pc \in HasPort /\ "port" \notin HasMaster
      BY <1>4 DEF NoConflict, Working, HasPort, HasMaster
    <2> QED  BY <1>4, <2>1, <1>e, <1>g, <1>s DEF NoConflict, files, ssh, TypeInv
  <1>5. CASE CheckPort(c)
    <2>1. "socket" \in Working /\ cmd[c].pc \in HasPort /\ "socket" \notin HasMaster
      BY <1>5 DEF CheckPort, Working, HasPort, HasMaster
    <2> QED  BY <1>5, <2>1, <1>e, <1>g, <1>s DEF CheckPort, files, ssh, TypeInv
  <1>6. CASE RemoveSocket(c)
    <2>1. "start" \in Working /\ cmd[c].pc \in HasPort /\ "start" \notin HasMaster
      BY <1>6 DEF RemoveSocket, Working, HasPort, HasMaster
    <2>2. CmdsOK'  BY <1>6, <2>1, <1>g DEF RemoveSocket, ssh
    <2>3. UNCHANGED <<rec, masters, alive, excused>>  BY <1>6 DEF RemoveSocket, ssh
    <2>4. sock' \in [Names -> 0 .. Len(masters)]
      <3>1. sock' = [sock EXCEPT ![Name(c)] = 0]  BY <1>6 DEF RemoveSocket
      <3>2. sock \in [Names -> 0 .. k] /\ 0 \in 0 .. k  BY <1>k DEF TypeInv, StoreOK
      <3>3. sock' \in [Names -> 0 .. k]  BY <3>1, <3>2
      <3> QED  BY <3>3, <1>k
    <2> QED  BY <2>2, <2>3, <2>4, <1>o DEF TypeInv, StoreOK
  <1>7. CASE StartSsh(c)
    <2>0. cmd[c].pc = "start" /\ cmd[c].port \in Places /\ UNCHANGED <<rec, excused>>
      BY <1>7, <1>p DEF StartSsh, HasPort
    <2>1. CASE UNCHANGED <<ssh, sock>> /\ End(c)
      BY <2>0, <2>1, <1>e, <1>s DEF ssh, TypeInv
    <2>2. CASE UNCHANGED <<ssh, sock>> /\ RetryUp(c)
      <3>1. ASSUME NEW p \in PlannedPorts(Name(c)), MayRetry(c),
                   cmd' = [cmd EXCEPT ![c].port = p, ![c].tries = @ + 1, ![c].pc = "port"]
            PROVE  CmdsOK'
        <4> DEFINE r == [cmd[c] EXCEPT !.port = p, !.tries = @ + 1, !.pc = "port"]
        <4>1. cmd[c] \in CmdType(k)  BY <1>c DEF GoodCmds
        <4>2. p \in Places  BY <1>a, <3>1, PlannedTyped
        <4>3. cmd[c].tries + 1 \in 0 .. Attempts - 1
          BY <4>1, <3>1, BoundAssumption DEF CmdType, MayRetry
        <4>4. r \in CmdType(k) /\ r.pc = "port" /\ r.name = cmd[c].name /\ r.port = p
          BY <4>1, <4>2, <4>3 DEF CmdType, Working
        <4>5. r \in GoodCmds(k)  BY <1>a, <4>2, <4>4 DEF GoodCmds, HasMaster
        <4> QED  BY <3>1, <4>5, <2>2, <1>k, <1>c DEF CmdsOK, ssh
      <3>2. CmdsOK'  BY <2>2, <3>1, <1>e DEF RetryUp, ssh
      <3> QED  BY <2>0, <2>2, <3>2, <1>s DEF ssh, TypeInv
    <2>3. CASE /\ masters' = Append(masters, [name |-> Name(c), port |-> cmd[c].port])
               /\ alive' = alive \cup {Len(masters) + 1}
               /\ sock' = IF sock[Name(c)] = 0 THEN [sock EXCEPT ![Name(c)] = Len(masters) + 1] ELSE sock
               /\ cmd' = [cmd EXCEPT ![c].mine = Len(masters) + 1, ![c].pc = "save"]
      <3> DEFINE r == [cmd[c] EXCEPT !.mine = k + 1, !.pc = "save"]
      <3>1. PICK e \in [name : Names, port : Places] : e = [name |-> Name(c), port |-> cmd[c].port]
        BY <1>a, <2>0
      <3>2. masters' \in Seq([name : Names, port : Places]) /\ Len(masters') = k + 1
        BY <2>3, <3>1, <1>k, Appended DEF TypeInv, StoreOK
      <3>3. 0 .. k \subseteq 0 .. k + 1 /\ 1 .. k \subseteq 1 .. k + 1 /\ k + 1 \in 1 .. k + 1
            /\ k + 1 \in 0 .. k + 1
        BY <1>k
      <3>4. sock' \in [Names -> 0 .. Len(masters')]
        BY <2>3, <3>2, <3>3, <1>k DEF TypeInv, StoreOK
      <3>5. GoodCmds(k) \subseteq GoodCmds(k + 1)
        BY <3>3 DEF GoodCmds, CmdType
      <3>6. cmd[c] \in CmdType(k + 1)  BY <1>c, <3>5 DEF GoodCmds
      <3>7. r \in CmdType(k + 1) /\ r.pc = "save" /\ r.name = cmd[c].name /\ r.port = cmd[c].port
            /\ r.mine = k + 1
        BY <3>3, <3>6 DEF CmdType, Working
      <3>8. r \in GoodCmds(k + 1)  BY <1>a, <2>0, <3>3, <3>7 DEF GoodCmds
      <3>9. CmdsOK'
        <4>1. cmd' = [cmd EXCEPT ![c] = r]  BY <2>3, <1>k, <1>c
        <4>2. cmd \in [Cmds -> GoodCmds(k + 1)]  BY <3>5, <1>c
        <4>3. cmd' \in [Cmds -> GoodCmds(k + 1)]  BY <3>8, <4>1, <4>2
        <4> QED  BY <4>3, <3>2 DEF CmdsOK
      <3>10. alive' \subseteq 1 .. Len(masters') /\ excused' \subseteq 1 .. Len(masters')
        BY <2>0, <2>3, <3>2, <3>3, <1>k DEF TypeInv, StoreOK
      <3> QED  BY <2>0, <3>2, <3>4, <3>9, <3>10, <1>o DEF TypeInv, StoreOK
    <2> QED  BY <1>7, <2>1, <2>2, <2>3 DEF StartSsh
  <1>8. CASE SaveUp(c)
    <2>1. cmd[c].pc \in HasPort /\ cmd[c].pc \in HasMaster /\ "undo" \in Working
      BY <1>8 DEF SaveUp, HasPort, HasMaster, Working
    <2>2. UNCHANGED <<sock, masters, alive, excused>>  BY <1>8 DEF SaveUp, ssh
    <2>3. CmdsOK'  BY <1>8, <2>1, <2>2, <1>e, <1>g DEF SaveUp
    <2>4. rec' \in [Names -> Places \cup {NoPort}]
      BY <1>8, <2>1, <1>p DEF SaveUp, TypeInv, StoreOK
    <2> QED  BY <2>2, <2>3, <2>4, <1>o DEF TypeInv, StoreOK
  <1>9. CASE UndoUp(c)
    <2>1. cmd[c].mine \in 1 .. Len(masters)
      BY <1>9, <1>k, <1>c DEF UndoUp, GoodCmds, HasMaster
    <2>2. UNCHANGED <<rec, masters>> /\ CmdsOK'  BY <1>9, <1>e DEF UndoUp
    <2>3. alive' \subseteq alive /\ excused' \subseteq excused \cup {cmd[c].mine}
      BY <1>9 DEF UndoUp, Exits
    <2>4. sock' \in [Names -> 0 .. Len(masters)]
      BY <1>9, <1>k DEF UndoUp, Exits, TypeInv, StoreOK
    <2> QED  BY <2>1, <2>2, <2>3, <2>4, <1>o DEF TypeInv, StoreOK
  <1> QED
    BY <1>1, <1>2, <1>3, <1>4, <1>5, <1>6, <1>7, <1>8, <1>9 DEF UpStep

LEMMA NextType == TypeInv /\ [Next]_vars => TypeInv'
  <1> SUFFICES ASSUME TypeInv, [Next]_vars PROVE TypeInv'  OBVIOUS
  <1>k. PICK k \in Nat : k = Len(masters)  BY DEF TypeInv, StoreOK
  <1>c. cmd \in [Cmds -> GoodCmds(k)]  BY <1>k DEF TypeInv, CmdsOK
  <1>1. ASSUME NEW c \in Cmds, Step(c) PROVE TypeInv'
    BY <1>1, DownStepType, UpStepType DEF Step
  <1>2. ASSUME NEW c \in Cmds, NEW op \in {"up", "down", "restart", "test"}, NEW n \in Names,
               Begin(c, op, n)
        PROVE  TypeInv'
    <2>1. UNCHANGED <<rec, sock, masters, alive, taken, kills, takes, excused>>
      BY <1>2 DEF Begin, files, ssh, others
    <2>2. PICK l \in {"plan", "test", "load"} :
             cmd' = [cmd EXCEPT ![c] = [op |-> op, name |-> n, todo |-> {}, port |-> NoPort,
                                        tries |-> 0, mine |-> 0, pc |-> l]]
      BY <1>2 DEF Begin
    <2> DEFINE r == [op |-> op, name |-> n, todo |-> {}, port |-> NoPort,
                     tries |-> 0, mine |-> 0, pc |-> l]
    <2>3. 0 \in 0 .. Attempts - 1 /\ 0 \in 0 .. k  BY BoundAssumption
    <2>4. r \in CmdType(k)  BY <2>2, <2>3 DEF CmdType, Working
    <2>5. r \in GoodCmds(k)  BY <2>2, <2>4 DEF GoodCmds, HasPort, HasMaster
    <2>6. CmdsOK'  BY <2>1, <2>2, <2>5, <1>k, <1>c DEF CmdsOK
    <2> QED  BY <2>1, <2>6 DEF TypeInv, StoreOK
  <1>3. ASSUME NEW c \in Cmds, Kill(c) PROVE TypeInv'
    <2>1. UNCHANGED <<rec, sock, masters, alive, taken, takes>>  BY <1>3 DEF Kill, files, ssh
    <2>2. kills' \in 0 .. MaxKills  BY <1>3, BoundAssumption DEF Kill, TypeInv, StoreOK
    <2>3. excused' \subseteq 1 .. Len(masters)
      <3>1. cmd[c].pc \in HasMaster => cmd[c].mine \in 1 .. Len(masters)
        BY <1>k, <1>c DEF GoodCmds
      <3> QED  BY <1>3, <3>1 DEF Kill, HasMaster, TypeInv, StoreOK
    <2>4. CmdsOK'  BY <1>3, <2>1, <1>k, <1>c, EndGood DEF Kill, CmdsOK, Resting
    <2> QED  BY <2>1, <2>2, <2>3, <2>4 DEF TypeInv, StoreOK
  <1>4. ASSUME NEW m \in alive, MasterDies(m) PROVE TypeInv'
    <2>1. UNCHANGED <<rec, masters, taken, kills, takes, cmd, excused>> /\ alive' \subseteq alive
      BY <1>4 DEF MasterDies, others
    <2>2. sock' \in [Names -> 0 .. Len(masters)]
      BY <1>4, <1>k DEF MasterDies, TypeInv, StoreOK
    <2> QED  BY <2>1, <2>2 DEF TypeInv, StoreOK, CmdsOK
  <1>5. ASSUME NEW p \in {Side(n) : n \in Names} \X Ports, OtherTakes(p) \/ OtherReleases(p)
        PROVE  TypeInv'
    <2>1. UNCHANGED <<rec, sock, masters, alive, cmd, excused, kills>>
      BY <1>5 DEF OtherTakes, OtherReleases, files, ssh
    <2>2. p \in Places  BY DEF Places, Sides, Side
    <2>3. taken' \subseteq Places  BY <1>5, <2>2 DEF OtherTakes, OtherReleases, TypeInv, StoreOK
    <2>4. takes' \in 0 .. MaxTaken
      BY <1>5, BoundAssumption DEF OtherTakes, OtherReleases, TypeInv, StoreOK
    <2> QED  BY <2>1, <2>3, <2>4 DEF TypeInv, StoreOK, CmdsOK
  <1>6. CASE UNCHANGED vars  BY <1>6 DEF vars, TypeInv, StoreOK, CmdsOK
  <1> QED  BY <1>1, <1>2, <1>3, <1>4, <1>5, <1>6 DEF Next

\* Every state file names a port of its tunnel's range, every socket a master that
\* was started, an automatic port is tried Attempts times at most: also when
\* commands for one name overlap.
THEOREM TunnelTypeCorrect == Spec => []TypeOK
  BY InitType, NextType, TypeInvType, PTL DEF Spec
=============================================================================
