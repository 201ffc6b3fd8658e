------------------------------ MODULE AgentEnv ------------------------------
(***************************************************************************)
(* The two files that configure the agent: the systemd unit with its       *)
(* Environment= lines and /etc/node-agent.env, which a new bootstrap reads.*)
(* update_config (command/update_config.go) rewrites both and schedules a  *)
(* restart of the agent; set_tier (command/set_tier.go) rewrites the second *)
(* and runs rate_limit.sh.                                                  *)
(*                                                                         *)
(* A file is rewritten through <file>.tmp and a rename, but the temporary  *)
(* name is the same for every command: a command that opens it truncates   *)
(* what another one is about to rename, and one that holds it open when it  *)
(* is renamed writes into the installed file.  A file is the function from *)
(* its keys to their values; a truncated one has no key.  Of two writes to *)
(* one file the last one is what it holds.                                 *)
(***************************************************************************)
EXTENDS Dispatcher, Functions

CONSTANTS Keys,        \* keys of the unit that update_config may change
          Mapped,      \* those that serviceKeyToEnvKey names and the env file has
          Tier,        \* NODE_SVIP_ONLY, which only the env file may have
          Values, Value0,
          Requests     \* the env of update_config requests: keys and values

ASSUME EnvAssumption ==
  /\ Requests \subseteq UNION {[ks -> Values] : ks \in (SUBSET Keys) \ {{}}}
  /\ Mapped \subseteq Keys /\ Tier \notin Keys /\ Value0 \in Values

VARIABLES
  files,     \* the installed files
  tmp,       \* the temporary files that exist
  timers,    \* goroutines of update_config, before daemon-reload and after it
  loaded,    \* the unit as systemd knows it
  started,   \* the unit the agent was started with
  tc,        \* the tier of the tc rules
  overlap,   \* history: files that two commands were rewriting at a time
  spaced,    \* history: no update_config began before an earlier one's restart
  acked      \* history: the value of the last command on a key, if it succeeded

systemVars == <<timers, loaded, started>>
ackVars == <<overlap, spaced, acked>>
envVars == <<files, tmp, cmd, systemVars, tc, boundVars, ackVars>>

\* f, and g where f has no value; f with v at k.
Over(f, g) ==
  [x \in DOMAIN f \cup DOMAIN g |-> IF x \in DOMAIN f THEN f[x] ELSE g[x]]
Put(f, k, v) == [x \in DOMAIN f \cup {k} |-> IF x = k THEN v ELSE f[x]]

FileNames == {"service", "env"}
Empty == [k \in {} |-> Value0]
Unknown == "unknown"

\* A command that is not running; file is the one it works on, fd what its open
\* descriptor refers to.
NoCommand(ret) == [pc |-> "idle", op |-> "none", file |-> "env", want |-> Empty,
                   out |-> Empty, fd |-> "none", ret |-> ret]

EnvInit ==
  /\ files = [service |-> [k \in Keys |-> Value0], env |-> [k \in Mapped |-> Value0]]
  /\ tmp = [f \in {} |-> Empty]
  /\ cmd = [s \in Subs |-> NoCommand("none")]
  /\ timers = [sleeping |-> 0, reloaded |-> 0]
  /\ loaded = files.service /\ started = files.service
  /\ tc = Value0
  /\ commands = 0 /\ faults = 0 /\ crashes = 0
  /\ overlap = {} /\ spaced = TRUE
  /\ acked = Put([k \in Keys |-> Value0], Tier, Unknown)

-----------------------------------------------------------------------------
Pending == timers.sleeping + timers.reloaded > 0

\* Two commands of the same kind rewrite the same files, others only share the
\* env file.
Shared(op) ==
  (IF \E s \in Subs : Busy(s) THEN {"env"} ELSE {})
    \cup (IF op = "config" /\ \E s \in Subs : Busy(s) /\ cmd[s].op = "config"
          THEN {"service"} ELSE {})

BeginEnv(s, op, file, want) ==
  /\ Dispatch(s, [NoCommand("none") EXCEPT !.pc = "read", !.op = op, !.file = file,
                                           !.want = want])
  /\ overlap' = overlap \cup Shared(op)
  /\ spaced' = (spaced /\ (op = "config" => ~Pending))
  /\ acked' = Over([k \in DOMAIN want |-> Unknown], acked)
  /\ UNCHANGED <<files, tmp, systemVars, tc, faults, crashes>>

\* A request names allowed keys and values without line breaks: the others are
\* refused before anything is read.
UpdateConfig(s, want) == BeginEnv(s, "config", "service", want)

SetTier(s, value) == BeginEnv(s, "tier", "env", [k \in {Tier} |-> value])

\* update_config replies, and a goroutine will restart the agent.  c is cmd with
\* what the last step did to the others.
Reply(s, c, ret) ==
  /\ cmd' = [c EXCEPT ![s] = NoCommand(ret)]
  /\ acked' = IF ret = "ok" THEN Over(cmd[s].want, acked) ELSE acked
  /\ timers' = IF ret = "ok" /\ cmd[s].op = "config"
                 THEN [timers EXCEPT !.sleeping = timers.sleeping + 1] ELSE timers

\* A rewrite has failed: the sync of the env file is not fatal to update_config.
GiveUp(s, c) ==
  Reply(s, c, IF cmd[s].op = "config" /\ cmd[s].file = "env" THEN "ok" ELSE "err")

-----------------------------------------------------------------------------
(* updateServiceEnv, syncAgentEnvFile and upsertNodeAgentEnv: read the file, *)
(* open the temporary one, write it and rename it.                          *)

\* Mutant: update_config leaves the env file's values.
EditedUnitOnly(s) ==
  IF cmd[s].op = "tier" \/ cmd[s].file = "service"
    THEN Over(cmd[s].want, files[cmd[s].file]) ELSE files.env

\* Only set_tier adds a key that the file does not have.
Edited(s) ==
  LET old == files[cmd[s].file]
      want == cmd[s].want
  IN  IF cmd[s].op = "tier" THEN Over(want, old)
      ELSE Over(Restrict(want, DOMAIN want \cap DOMAIN old), old)

\* updateServiceEnv refuses a key that the unit does not have.
ReadFile(s) ==
  /\ At(s, "read")
  /\ IF cmd[s].file = "service" /\ ~(DOMAIN cmd[s].want \subseteq DOMAIN files.service)
       THEN Reply(s, cmd, "err")
       ELSE /\ cmd' = [cmd EXCEPT ![s].pc = "open", ![s].out = Edited(s)]
            /\ UNCHANGED <<timers, acked>>
  /\ UNCHANGED <<files, tmp, loaded, started, tc, boundVars, overlap, spaced>>

\* Mutant: the file itself is opened and truncated.
OpenInPlace(s) ==
  /\ At(s, "open")
  /\ files' = [files EXCEPT ![cmd[s].file] = Empty]
  /\ tmp' = Put(tmp, cmd[s].file, Empty)
  /\ cmd' = [cmd EXCEPT ![s].pc = "write", ![s].fd = "tmp"]
  /\ UNCHANGED <<systemVars, tc, boundVars, ackVars>>

\* os.WriteFile creates or truncates the temporary file, then writes it.
OpenTmp(s) ==
  /\ At(s, "open")
  /\ tmp' = Put(tmp, cmd[s].file, Empty)
  /\ cmd' = [cmd EXCEPT ![s].pc = "write", ![s].fd = "tmp"]
  /\ UNCHANGED <<files, systemVars, tc, boundVars, ackVars>>

\* Mutant: the descriptor stays open.
WriteLeaks(s) ==
  /\ At(s, "write")
  /\ tmp' = Put(tmp, cmd[s].file, cmd[s].out)
  /\ Goto(s, "rename")
  /\ UNCHANGED <<files, systemVars, tc, boundVars, ackVars>>

WriteTmp(s) ==
  LET file == cmd[s].file
  IN  /\ At(s, "write")
      /\ tmp' = IF cmd[s].fd = "tmp" THEN Put(tmp, file, cmd[s].out) ELSE tmp
      /\ files' = IF cmd[s].fd = "installed" THEN [files EXCEPT ![file] = cmd[s].out] ELSE files
      /\ cmd' = [cmd EXCEPT ![s].pc = "rename", ![s].fd = "none"]
      /\ UNCHANGED <<systemVars, tc, boundVars, ackVars>>

\* A read, a creation or a write fails; the temporary file is left as it is.
FileFails(s) ==
  /\ At(s, "read") \/ At(s, "open") \/ At(s, "write")
  /\ Fault
  /\ GiveUp(s, cmd)
  /\ UNCHANGED <<files, tmp, loaded, started, tc, commands, crashes, overlap, spaced>>

\* The descriptors on the temporary file when it becomes the installed one, and
\* those on the installed one, which no name refers to any more.
Moved(s, moves) ==
  [r \in Subs |-> IF r # s /\ cmd[r].file = cmd[s].file /\ cmd[r].fd \in DOMAIN moves
                    THEN [cmd[r] EXCEPT !.fd = moves[cmd[r].fd]] ELSE cmd[r]]

NoTmp(s) == tmp' = Restrict(tmp, DOMAIN tmp \ {cmd[s].file})

\* set_tier goes on with the script, update_config with the env file.
Rename(s) ==
  LET file == cmd[s].file
      moved == Moved(s, [tmp |-> "installed", installed |-> "lost"])
  IN  /\ At(s, "rename") /\ file \in DOMAIN tmp
      /\ files' = [files EXCEPT ![file] = tmp[file]]
      /\ NoTmp(s)
      /\ IF cmd[s].op = "config" /\ file = "env" THEN Reply(s, moved, "ok")
         ELSE /\ cmd' = [moved EXCEPT
                           ![s].pc = IF cmd[s].op = "tier" THEN "script" ELSE "read",
                           ![s].file = "env"]
              /\ UNCHANGED <<timers, acked>>
      /\ UNCHANGED <<loaded, started, tc, boundVars, overlap, spaced>>

\* Another command has renamed or removed the temporary file.
RenameFails(s) ==
  /\ At(s, "rename") /\ cmd[s].file \notin DOMAIN tmp
  /\ Goto(s, "remove")
  /\ UNCHANGED <<files, tmp, systemVars, tc, boundVars, ackVars>>

\* After a rename that failed: what is removed may be another command's file.
Remove(s) ==
  /\ At(s, "remove")
  /\ NoTmp(s)
  /\ GiveUp(s, Moved(s, [tmp |-> "lost"]))
  /\ UNCHANGED <<files, loaded, started, tc, boundVars, overlap, spaced>>

\* rate_limit.sh applies the tier that the request named.
RunScript(s) ==
  /\ At(s, "script")
  /\ tc' = cmd[s].want[Tier]
  /\ Reply(s, cmd, "ok")
  /\ UNCHANGED <<files, tmp, loaded, started, boundVars, overlap, spaced>>

\* Mutant: a script that fails is only logged.
ScriptFailsOk(s) ==
  /\ At(s, "script")
  /\ Fault
  /\ tc' \in {tc, cmd[s].want[Tier]}
  /\ Reply(s, cmd, "ok")
  /\ UNCHANGED <<files, tmp, loaded, started, commands, crashes, overlap, spaced>>

ScriptFails(s) ==
  /\ At(s, "script")
  /\ Fault
  /\ tc' \in {tc, cmd[s].want[Tier]}
  /\ Reply(s, cmd, "err")
  /\ UNCHANGED <<files, tmp, loaded, started, commands, crashes, overlap, spaced>>

-----------------------------------------------------------------------------
(* The goroutine of update_config: 500 ms after the reply, daemon-reload,   *)
(* then the restart of the agent, which ends every command and every other  *)
(* goroutine of this kind.                                                  *)

\* Mutant: the agent is restarted without daemon-reload.
ReloadSkipped ==
  /\ timers.sleeping > 0
  /\ timers' = [sleeping |-> timers.sleeping - 1, reloaded |-> timers.reloaded + 1]
  /\ UNCHANGED <<files, tmp, cmd, loaded, started, tc, boundVars, ackVars>>

Reload ==
  /\ timers.sleeping > 0
  /\ \/ /\ loaded' = files.service
        /\ timers' = [sleeping |-> timers.sleeping - 1, reloaded |-> timers.reloaded + 1]
        /\ UNCHANGED faults
     \/ /\ Fault
        /\ timers' = [timers EXCEPT !.sleeping = timers.sleeping - 1]
        /\ UNCHANGED loaded
  /\ UNCHANGED <<files, tmp, cmd, started, tc, commands, crashes, ackVars>>

Stopped ==
  /\ cmd' = [s \in Subs |-> IF Busy(s) THEN NoCommand("killed") ELSE cmd[s]]
  /\ timers' = [sleeping |-> 0, reloaded |-> 0]

RestartAgent ==
  /\ timers.reloaded > 0
  /\ \/ Stopped /\ started' = loaded /\ UNCHANGED faults
     \/ /\ Fault
        /\ timers' = [timers EXCEPT !.reloaded = timers.reloaded - 1]
        /\ UNCHANGED <<cmd, started>>
  /\ UNCHANGED <<files, tmp, loaded, tc, commands, crashes, ackVars>>

\* The agent stops and systemd starts it again, or the node reboots and systemd
\* reads the unit as well.
Crash ==
  /\ crashes < MaxCrash
  /\ crashes' = crashes + 1
  /\ Stopped
  /\ loaded' \in {loaded, files.service} /\ started' = loaded'
  /\ UNCHANGED <<files, tmp, tc, commands, faults, ackVars>>

EnvStep(s) ==
  \/ ReadFile(s) \/ OpenTmp(s) \/ WriteTmp(s) \/ FileFails(s) \/ Rename(s) \/ RenameFails(s)
  \/ Remove(s) \/ RunScript(s) \/ ScriptFails(s)

EnvNext ==
  \/ \E s \in Subs : EnvStep(s)
  \/ \E s \in Subs, want \in Requests : UpdateConfig(s, want)
  \/ \E s \in Subs, value \in Values : SetTier(s, value)
  \/ Reload \/ RestartAgent \/ Crash

\* A command and a goroutine that have begun go on: file operations end, and the
\* script and systemctl have timeouts.
Fairness == WF_envVars(Reload) /\ WF_envVars(RestartAgent) /\ \A s \in Subs : WF_envVars(EnvStep(s))

EnvSpec == EnvInit /\ [][EnvNext]_envVars /\ Fairness

-----------------------------------------------------------------------------
(* Properties. *)

Contents == UNION {[ks -> Values] : ks \in SUBSET (Keys \cup {Tier})}

EnvRecord ==
  [pc : {"idle", "read", "open", "write", "rename", "remove", "script"},
   op : {"none", "config", "tier"}, file : FileNames, want : Contents, out : Contents,
   fd : {"none", "tmp", "installed", "lost"}, ret : {"none", "ok", "err", "killed"}]

EnvTypeOK ==
  /\ files \in [FileNames -> Contents] /\ DOMAIN tmp \subseteq FileNames
  /\ \A f \in DOMAIN tmp : tmp[f] \in Contents
  /\ cmd \in [Subs -> EnvRecord]
  /\ \A s \in Subs : cmd[s].fd # "none" <=> At(s, "write")
  /\ timers \in [sleeping : Nat, reloaded : Nat]
  /\ {loaded, started} \subseteq Contents /\ tc \in Values
  /\ commands \in 0..MaxCommand /\ faults \in 0..MaxFault /\ crashes \in 0..MaxCrash
  /\ overlap \subseteq FileNames /\ spaced \in BOOLEAN
  /\ acked \in [Keys \cup {Tier} -> Values \cup {Unknown}]

\* The files are replaced as a whole: whatever fails and whenever the agent stops,
\* the unit, on disk, known to systemd or run with, has all its keys as long as no
\* two update_config overlapped, and the env file as long as no two commands did;
\* and neither gains a key that is not its own (update_config.go:94, set_tier.go:67).
FilesWhole ==
  /\ "service" \notin overlap => \A u \in {files.service, loaded, started} : DOMAIN u = Keys
  /\ overlap = {} => DOMAIN files.env \in {Mapped, Mapped \cup {Tier}}

\* What a command that succeeded has set stays until a later command on the same
\* key: failed rewrites, restarts and crashes in the middle of other commands do not
\* bring an old value back, in the unit, in the env file or in the tc rules.
AckedStays ==
  /\ "service" \notin overlap =>
       \A k \in Keys : acked[k] \in {Unknown, files.service[k]}
  /\ (overlap = {} /\ acked[Tier] # Unknown) =>
       Tier \in DOMAIN files.env /\ files.env[Tier] = acked[Tier] /\ tc = acked[Tier]

\* A bootstrap that reads the env file finds what update_config has set, so that it
\* does not bring the old values back (update_config.go:140): the two files agree on
\* every key whose last command succeeded, in the middle of other commands and after
\* crashes too, unless commands overlapped or the write of the env file failed.
FilesAgree ==
  (overlap = {} /\ faults = 0) =>
    \A k \in Mapped : acked[k] # Unknown => files.env[k] = files.service[k]

\* "config updated, restarting" (update_config.go:93): when commands do not overlap
\* and none begins before the restart of an earlier one, and no systemctl fails and
\* nothing else stops the agent, the agent ends up running with the unit on disk.
ConfigTakesEffect ==
  <>[](("service" \notin overlap /\ spaced /\ faults = 0 /\ crashes = 0)
         => started = files.service)
=============================================================================
