----------------------------- MODULE XrayConfig -----------------------------
(***************************************************************************)
(* The two commands that change xray and restart it: xray_set_dest         *)
(* (command/xray_set_dest.go), which replaces the REALITY destination in   *)
(* config.json, tests the egress and rolls back, and xray_update           *)
(* (command/xray_update.go), which downloads a release of the binary,      *)
(* merges top-level fields into config.json, or both.                      *)
(*                                                                         *)
(* Every read and write of a file, and every restart, is a step.  A binary  *)
(* is downloaded to one .new file and renamed: a command that opens it      *)
(* truncates what another one is writing or about to rename.                *)
(***************************************************************************)
EXTENDS Dispatcher

CONSTANTS Dests,       \* REALITY destinations
          Others,      \* what the other fields of the file may be
          Versions,    \* releases of the xray binary
          Dest0, Other0, Version0

\* The values that stand for the lack of one are no values.
ASSUME ConfigAssumption ==
  /\ Dest0 \in Dests /\ Other0 \in Others /\ Version0 \in Versions
  /\ {"torn", "down"} \cap Dests = {} /\ "none" \notin Others
  /\ {"none", "damaged"} \cap Versions = {}

VARIABLES
  disk,      \* config.json
  binary,    \* the installed binary: a release, or Damaged
  new,       \* the .new file, or None
  running,   \* the configuration xray runs with
  runbin,    \* and the binary
  mixed,     \* history: two downloads have overlapped
  alone,     \* history: no other command has run since this one began
  before     \* history: the file when the command began

binVars == <<binary, new, mixed>>
runVars == <<running, runbin>>
historyVars == <<alone, before>>
vars == <<disk, binVars, runVars, cmd, boundVars, historyVars>>

Config(dest, other) == [dest |-> dest, other |-> other]
Configs == [dest : Dests, other : Others]

\* os.WriteFile truncates before it writes; a truncated file does not parse, and
\* xray does not run with it.
Torn == Config("torn", "torn")
Down == Config("down", "down")

None == "none"
Damaged == "damaged"   \* a binary that is truncated, or a mixture

\* fd is what the open descriptor of a download refers to, shared whether another
\* one was open on the same file.
Idle(op, ret) == [pc |-> "idle", op |-> op, dest |-> Dest0, other |-> None,
                  version |-> None, fd |-> "none", shared |-> FALSE,
                  backup |-> Torn, out |-> Torn, ret |-> ret]

Init ==
  /\ disk = Config(Dest0, Other0) /\ running = disk
  /\ binary = Version0 /\ runbin = Version0 /\ new = None /\ mixed = FALSE
  /\ cmd = [s \in Subs |-> Idle("none", "none")]
  /\ commands = 0 /\ faults = 0 /\ crashes = 0
  /\ alone = [s \in Subs |-> FALSE]
  /\ before = [s \in Subs |-> disk]

-----------------------------------------------------------------------------
(* pc: "fetch", "open", "copy", "install" and "unlink" for the download of  *)
(* a binary, "read" before the file is parsed, "truncate" and "write" for the two *)
(* halves of its write, "restart" before systemctl, "test" before the egress *)
(* self-test, "undo" and "restore" for the two halves of the write of the   *)
(* backup, "again" before the restart that follows it.                      *)

Return(s, ret) == cmd' = [cmd EXCEPT ![s] = [@ EXCEPT !.pc = "idle", !.ret = ret]]

Begin(s, record) ==
  /\ Dispatch(s, record)
  /\ alone' = [r \in Subs |-> r = s /\ \A q \in Subs \ {s} : ~Busy(q)]
  /\ before' = [before EXCEPT ![s] = disk]
  /\ UNCHANGED <<disk, binVars, runVars, faults, crashes>>

\* xray_set_dest begins with the backup of whatever the file holds.
SetDest(s, dest) ==
  Begin(s, [Idle("set_dest", "none") EXCEPT !.pc = "read", !.dest = dest,
                                            !.backup = disk])

Update(s, version, other) ==
  Begin(s, [Idle("update", "none") EXCEPT !.version = version, !.other = other,
              !.pc = IF version = None THEN "read" ELSE "fetch"])

-----------------------------------------------------------------------------
(* downloadXrayBinary. *)

\* The archive is complete and has the binary, or the command ends.
Fetch(s) ==
  /\ At(s, "fetch")
  /\ \/ Goto(s, "open") /\ UNCHANGED faults
     \/ Fault /\ Return(s, "err")
  /\ UNCHANGED <<disk, binVars, runVars, commands, crashes, historyVars>>

Sharing(s) == {r \in Subs \ {s} : cmd[r].fd = "new"}

\* The file is created, or truncated under a command that has it open or has
\* written it and not yet renamed it.
Open(s) ==
  /\ At(s, "open")
  /\ new' = Damaged
  /\ mixed' = (mixed \/ \E r \in Subs \ {s} : cmd[r].pc \in {"copy", "install"})
  /\ cmd' = [r \in Subs |->
               IF r = s THEN [cmd[s] EXCEPT !.pc = "copy", !.fd = "new",
                                            !.shared = (Sharing(s) # {})]
               ELSE IF r \in Sharing(s) THEN [cmd[r] EXCEPT !.shared = TRUE] ELSE cmd[r]]
  /\ UNCHANGED <<disk, binary, runVars, boundVars, historyVars>>

\* Two copies into one file leave one of them or a mixture.
Copy(s) ==
  /\ At(s, "copy")
  /\ \E content \in {cmd[s].version} \cup (IF cmd[s].shared THEN {Damaged} ELSE {}) :
       /\ new' = IF cmd[s].fd = "new" THEN content ELSE new
       /\ binary' = IF cmd[s].fd = "installed" THEN content ELSE binary
  /\ cmd' = [cmd EXCEPT ![s].pc = "install", ![s].fd = "none"]
  /\ UNCHANGED <<disk, mixed, runVars, boundVars, historyVars>>

\* Mutant: a copy that fails is installed.
CopyFailsInstalls(s) ==
  /\ At(s, "copy")
  /\ Fault
  /\ cmd' = [cmd EXCEPT ![s].pc = "install", ![s].fd = "none"]
  /\ UNCHANGED <<disk, binVars, runVars, commands, crashes, historyVars>>

CopyFails(s) ==
  /\ At(s, "copy")
  /\ Fault
  /\ cmd' = [cmd EXCEPT ![s].pc = "unlink", ![s].fd = "none"]
  /\ UNCHANGED <<disk, binVars, runVars, commands, crashes, historyVars>>

\* The rename, which fails if another command has renamed or removed the file; a
\* command that still has it open goes on writing into the installed binary.
Install(s) ==
  /\ At(s, "install")
  /\ IF new = None THEN Goto(s, "unlink") /\ UNCHANGED <<binary, new>>
     ELSE /\ binary' = new /\ new' = None
          /\ cmd' = [r \in Subs |->
               IF r = s THEN [cmd[s] EXCEPT !.pc = IF cmd[s].other = None THEN "restart"
                                                   ELSE "read"]
               ELSE IF cmd[r].fd = "new" THEN [cmd[r] EXCEPT !.fd = "installed"]
               ELSE IF cmd[r].fd = "installed" THEN [cmd[r] EXCEPT !.fd = "lost"]
               ELSE cmd[r]]
  /\ UNCHANGED <<disk, mixed, runVars, boundVars, historyVars>>

\* After a copy or a rename that failed: what is removed may be another's file.
Unlink(s) ==
  /\ At(s, "unlink")
  /\ new' = None
  /\ cmd' = [r \in Subs |->
               IF r = s THEN [cmd[s] EXCEPT !.pc = "idle", !.ret = "err"]
               ELSE IF cmd[r].fd = "new" THEN [cmd[r] EXCEPT !.fd = "lost"] ELSE cmd[r]]
  /\ UNCHANGED <<disk, binary, mixed, runVars, boundVars, historyVars>>

-----------------------------------------------------------------------------
(* The configuration and the restart. *)

\* setXrayDest and mergeXrayConfig read the file, and replace only their fields.
Changed(s) == IF cmd[s].op = "set_dest" THEN [disk EXCEPT !.dest = cmd[s].dest]
                                        ELSE [disk EXCEPT !.other = cmd[s].other]

\* Mutant: a file that does not parse is not an error.
ReadUnparsed(s) ==
  /\ At(s, "read")
  /\ cmd' = [cmd EXCEPT ![s].pc = "truncate", ![s].out = Changed(s)]
  /\ UNCHANGED <<disk, binVars, runVars, boundVars, historyVars>>

Read(s) ==
  /\ At(s, "read")
  /\ IF disk = Torn THEN Return(s, "err")
     ELSE cmd' = [cmd EXCEPT ![s].pc = "truncate", ![s].out = Changed(s)]
  /\ UNCHANGED <<disk, binVars, runVars, boundVars, historyVars>>

Truncate(s) ==
  /\ At(s, "truncate") \/ At(s, "undo")
  /\ disk' = Torn
  /\ Goto(s, IF At(s, "truncate") THEN "write" ELSE "restore")
  /\ UNCHANGED <<binVars, runVars, boundVars, historyVars>>

Write(s) ==
  /\ At(s, "write")
  /\ disk' = cmd[s].out
  /\ Goto(s, "restart")
  /\ UNCHANGED <<binVars, runVars, boundVars, historyVars>>

\* A write that fails ends the command at once.
WriteFails(s) ==
  /\ At(s, "write")
  /\ Fault
  /\ Return(s, "err")
  /\ UNCHANGED <<disk, binVars, runVars, commands, crashes, historyVars>>

\* systemctl restart: xray runs with what the files hold now, if it can.
StopXray == running' = Down /\ runbin' = binary
Restarted ==
  /\ running' = IF disk = Torn \/ binary = Damaged THEN Down ELSE disk
  /\ runbin' = binary

Restart(s) ==
  /\ At(s, "restart")
  /\ Restarted
  /\ IF cmd[s].op = "set_dest" THEN Goto(s, "test") ELSE Return(s, "ok")
  /\ UNCHANGED <<disk, binVars, boundVars, historyVars>>

\* systemctl fails, or finds xray not active: xray_set_dest rolls back.
RestartFails(s) ==
  /\ At(s, "restart")
  /\ \/ Restarted /\ running' = Down /\ UNCHANGED faults
     \/ Fault /\ (Restarted \/ StopXray)
  /\ IF cmd[s].op = "set_dest" THEN Goto(s, "undo") ELSE Return(s, "err")
  /\ UNCHANGED <<disk, binVars, commands, crashes, historyVars>>

\* The self-test presents the destination it reads from the file, and can only
\* pass if that is what xray runs with; the network decides the rest.
TestPasses(s) ==
  /\ At(s, "test")
  /\ disk # Torn /\ running.dest = disk.dest
  /\ Return(s, "ok")
  /\ UNCHANGED <<disk, binVars, runVars, boundVars, historyVars>>

\* Mutant: the rollback is reported and not made.
TestFailsKeeps(s) ==
  /\ At(s, "test")
  /\ Return(s, "rolled_back")
  /\ UNCHANGED <<disk, binVars, runVars, boundVars, historyVars>>

TestFails(s) ==
  /\ At(s, "test")
  /\ Goto(s, "undo")
  /\ UNCHANGED <<disk, binVars, runVars, boundVars, historyVars>>

Restore(s) ==
  /\ At(s, "restore")
  /\ disk' = cmd[s].backup
  /\ Goto(s, "again")
  /\ UNCHANGED <<binVars, runVars, boundVars, historyVars>>

\* A rollback whose write fails is only logged: the reply is the same.
RestoreFails(s) ==
  /\ At(s, "restore")
  /\ Fault
  /\ Return(s, "rolled_back")
  /\ UNCHANGED <<disk, binVars, runVars, commands, crashes, historyVars>>

\* Mutant: a rollback is taken for success.
RestartAgainOk(s) ==
  /\ At(s, "again")
  /\ \/ Restarted /\ UNCHANGED faults
     \/ Fault /\ StopXray
  /\ Return(s, "ok")
  /\ UNCHANGED <<disk, binVars, commands, crashes, historyVars>>

\* So is one whose restart fails.
RestartAgain(s) ==
  /\ At(s, "again")
  /\ \/ Restarted /\ UNCHANGED faults
     \/ Fault /\ StopXray
  /\ Return(s, "rolled_back")
  /\ UNCHANGED <<disk, binVars, commands, crashes, historyVars>>

Step(s) ==
  \/ Fetch(s) \/ Open(s) \/ Copy(s) \/ CopyFails(s) \/ Install(s) \/ Unlink(s)
  \/ Read(s) \/ Truncate(s) \/ Write(s) \/ WriteFails(s)
  \/ Restart(s) \/ RestartFails(s) \/ TestPasses(s) \/ TestFails(s)
  \/ Restore(s) \/ RestoreFails(s) \/ RestartAgain(s)

\* The agent stops: an update of its own, or update_config.
AgentCrash ==
  /\ crashes < MaxCrash /\ \E s \in Subs : Busy(s)
  /\ crashes' = crashes + 1
  /\ cmd' = [s \in Subs |-> IF Busy(s) THEN Idle(cmd[s].op, "none") ELSE cmd[s]]
  /\ UNCHANGED <<disk, binVars, runVars, commands, faults, historyVars>>

Next ==
  \/ \E s \in Subs : Step(s)
  \/ \E s \in Subs, d \in Dests : SetDest(s, d)
  \/ \E s \in Subs, v \in Versions \cup {None}, o \in Others \cup {None} :
       (v # None \/ o # None) /\ Update(s, v, o)
  \/ AgentCrash

Spec == Init /\ [][Next]_vars

-----------------------------------------------------------------------------
(* Properties. *)

Files == Configs \cup {Torn}

Binaries == Versions \cup {Damaged}

CommandRecord ==
  [pc : {"idle", "fetch", "open", "copy", "install", "unlink", "read", "truncate",
         "write", "restart", "test", "undo", "restore", "again"},
   op : {"none", "set_dest", "update"}, dest : Dests, other : Others \cup {None},
   version : Versions \cup {None}, fd : {"none", "new", "installed", "lost"},
   shared : BOOLEAN, backup : Files, out : Files,
   ret : {"none", "ok", "err", "rolled_back"}]

TypeOK ==
  /\ disk \in Files /\ running \in Configs \cup {Down}
  /\ {binary, runbin} \subseteq Binaries /\ new \in Binaries \cup {None}
  /\ cmd \in [Subs -> CommandRecord]
  /\ commands \in 0..MaxCommand /\ faults \in 0..MaxFault /\ crashes \in 0..MaxCrash
  /\ mixed \in BOOLEAN /\ alone \in [Subs -> BOOLEAN] /\ before \in [Subs -> Files]

Wanted(s) ==
  IF cmd[s].op = "set_dest" THEN [before[s] EXCEPT !.dest = cmd[s].dest]
  ELSE IF cmd[s].other # None THEN [before[s] EXCEPT !.other = cmd[s].other]
  ELSE before[s]

\* A command that has replied and that no other one has overlapped.
RepliedAlone(s) == ~Busy(s) /\ alone[s] /\ cmd[s].ret # "none"

AllOrNothing(s) ==
  (RepliedAlone(s) /\ faults = 0 /\ ~mixed) =>
    /\ disk = IF cmd[s].ret = "ok" THEN Wanted(s) ELSE before[s]
    /\ (cmd[s].ret # "err" /\ disk # Torn) => running = disk

\* A command that no other one overlapped, and whose writes and restarts did not
\* fail, is all or nothing for config.json: after "ok" the file is the one it found
\* with its own fields replaced, and xray runs with it; after an error the file is
\* the one it found, and after a rollback xray runs with that one again
\* (xray_set_dest.go:36, xray_update.go:151).  An update of the binary alone does not
\* look at the file, and can leave xray down with one that a crash had truncated.
AloneIsAtomic == \A s \in Subs : AllOrNothing(s)

Served(s) ==
  (RepliedAlone(s) /\ cmd[s].ret = "ok") =>
    /\ cmd[s].op = "set_dest" => running.dest = cmd[s].dest /\ disk.dest = cmd[s].dest
    /\ (cmd[s].op = "update" /\ cmd[s].version # None) =>
         runbin = cmd[s].version /\ binary = cmd[s].version

\* Once a command has replied "ok", and until another one begins, xray runs with the
\* destination or the release that it named, installed: even if writes, downloads
\* and restarts failed before, and whatever earlier commands that overlapped or were
\* cut short by a crash of the agent left behind.
OkMeansServed == \A s \in Subs : Served(s)

\* The installed binary is a whole release at every moment, through failed copies
\* and crashes in the middle of a download, as long as no two downloads overlapped:
\* a restart of xray by systemd at any time finds one it can run (xray_update.go:145).
BinaryIsWhole == ~mixed => {binary, runbin} \subseteq Versions

=============================================================================
