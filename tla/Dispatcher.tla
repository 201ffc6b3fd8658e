----------------------------- MODULE Dispatcher -----------------------------
(***************************************************************************)
(* The commands of the node (main.go, command/dispatcher.go).  The agent   *)
(* has two NATS subscriptions with the same dispatcher, and NATS delivers  *)
(* the messages of a subscription one after the other: so each of them     *)
(* runs one command at a time, and nothing else excludes commands.         *)
(*                                                                         *)
(* XrayConfig and AgentEnv extend this module, each with the commands of   *)
(* one kind; a command is a record with at least its place pc.             *)
(***************************************************************************)
EXTENDS Naturals

CONSTANTS Subs,        \* the subscriptions
          MaxCommand,  \* bound: commands
          MaxFault,    \* bound: file operations, downloads, scripts, systemctl that fail
          MaxCrash     \* bound: stops of the agent that no command asked for

ASSUME DispatchAssumption == {MaxCommand, MaxFault, MaxCrash} \subseteq Nat

VARIABLES
  cmd,       \* the command of each subscription
  commands, faults, crashes

boundVars == <<commands, faults, crashes>>

At(s, pc) == cmd[s].pc = pc
Busy(s) == ~At(s, "idle")
Goto(s, pc) == cmd' = [cmd EXCEPT ![s].pc = pc]

Fault == faults < MaxFault /\ faults' = faults + 1

\* A message arrives on a subscription whose last command has ended.
Dispatch(s, record) ==
  /\ ~Busy(s) /\ commands < MaxCommand
  /\ commands' = commands + 1
  /\ cmd' = [cmd EXCEPT ![s] = record]
=============================================================================
