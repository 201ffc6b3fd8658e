---------------------------- MODULE CommandProofs ----------------------------
(***************************************************************************)
(* What the commands guarantee for any number of subscriptions, values and *)
(* commands.  XrayConfig: a command that nothing overlapped is all or      *)
(* nothing, an ok means that xray serves what was asked for, and the       *)
(* installed binary is a whole release as long as no two downloads         *)
(* overlapped.  AgentEnv: as long as no commands overlapped the files are  *)
(* whole and agree, and what was acknowledged stays; and a new unit always *)
(* has a restart of the agent before it.                                   *)
(***************************************************************************)
EXTENDS XrayConfig, AgentEnv, TLAPS

-----------------------------------------------------------------------------
(* XrayConfig: the inductive invariant. *)

\* What a command at each place is about.
Purpose ==
  \A s \in Subs :
    /\ cmd[s].pc \in {"fetch", "open", "copy", "install", "unlink"} =>
         cmd[s].op = "update" /\ cmd[s].version \in Versions
    /\ cmd[s].pc \in {"read", "truncate", "write"} =>
         \/ cmd[s].op = "set_dest"
         \/ cmd[s].op = "update" /\ cmd[s].other \in Others
    /\ At(s, "restart") => cmd[s].op \in {"set_dest", "update"}
    /\ cmd[s].pc \in {"test", "undo", "restore", "again"} => cmd[s].op = "set_dest"
    /\ cmd[s].pc \in {"truncate", "write"} => cmd[s].out \in Configs
    /\ cmd[s].fd # "none" <=> At(s, "copy")

\* As long as no two downloads overlapped, one command at most has the .new file to
\* itself, from the moment it opens it until it installs it or another removes it.
OneDownload ==
  ~mixed =>
    /\ {binary, runbin} \subseteq Versions
    /\ \A r, s \in Subs :
         (cmd[r].pc \in {"copy", "install"} /\ cmd[s].pc \in {"copy", "install"}) => r = s
    /\ \A s \in Subs :
         /\ At(s, "copy") => /\ ~cmd[s].shared /\ cmd[s].fd # "installed"
                             /\ cmd[s].fd = "lost" => new = None
         /\ At(s, "install") => new \in Versions \cup {None}

\* What a command that runs alone has done to the file when it is at each place: what
\* it found, what it will write, what it wrote, or its backup again.
FileOfAlone(s) ==
  /\ cmd[s].pc \in {"fetch", "open", "copy", "install", "unlink", "read", "truncate"} =>
       disk = before[s]
  /\ cmd[s].pc \in {"truncate", "write"} => cmd[s].out = Wanted(s)
  /\ cmd[s].pc \in {"restart", "test"} =>
       /\ disk = Wanted(s)
       /\ cmd[s].op = "set_dest" \/ cmd[s].other \in Others => disk \in Configs
  /\ At(s, "again") => disk = cmd[s].backup
  /\ Busy(s) /\ cmd[s].op = "set_dest" => cmd[s].backup = before[s]
  /\ (At(s, "test") /\ faults = 0 /\ ~mixed) => running = disk

\* The same for the binary.
BinaryOfAlone(s) ==
  /\ At(s, "copy") => cmd[s].fd = "new" /\ ~cmd[s].shared
  /\ At(s, "install") => new = cmd[s].version
  /\ (cmd[s].pc \in {"read", "truncate", "write", "restart"} /\ cmd[s].op = "update"
       /\ cmd[s].version # None) => binary = cmd[s].version

AloneRuns ==
  \A s \in Subs : alone[s] =>
    (\A r \in Subs \ {s} : ~Busy(r)) /\ FileOfAlone(s) /\ BinaryOfAlone(s)

ConfigInv ==
  TypeOK /\ Purpose /\ OneDownload /\ AloneRuns /\ OkMeansServed /\ AloneIsAtomic

-----------------------------------------------------------------------------
(* XrayConfig: the initial states and the types. *)

\* No value of a file is the mark of a truncated file or of a stopped xray, and no
\* release is the mark of a damaged binary.
LEMMA ConfigMarks ==
  /\ Torn \notin Configs /\ Down \notin Files
  /\ None \notin Others /\ None \notin Versions /\ Damaged \notin Versions
  /\ None # Damaged
BY ConfigAssumption DEF Configs, Config, Torn, Down, Files, None, Damaged

\* The invariant holds at the start.
LEMMA ConfigStarts == Init => ConfigInv
<1> SUFFICES ASSUME Init PROVE ConfigInv
  OBVIOUS
<1>1. disk \in Configs
  BY ConfigAssumption DEF Init, Config, Configs
<1>2. \A s \in Subs : cmd[s] = Idle("none", "none") /\ cmd[s] \in CommandRecord
  BY ConfigAssumption DEF Init, Idle, CommandRecord, Files, None
<1>3. TypeOK
  <2>1. cmd \in [Subs -> CommandRecord] /\ before \in [Subs -> Files]
    BY <1>1, <1>2 DEF Init, Files
  <2>2. {binary, runbin} \subseteq Binaries /\ new \in Binaries \cup {None}
    BY ConfigAssumption DEF Init, Binaries
  <2>3. commands \in 0..MaxCommand /\ faults \in 0..MaxFault /\ crashes \in 0..MaxCrash
    BY DispatchAssumption DEF Init
  <2>4. mixed \in BOOLEAN /\ alone \in [Subs -> BOOLEAN]
    BY DEF Init
  <2> QED
    BY <1>1, <2>1, <2>2, <2>3, <2>4 DEF Init, TypeOK, Files
<1>4. Purpose /\ OneDownload /\ AloneRuns /\ OkMeansServed /\ AloneIsAtomic
  BY <1>2, ConfigAssumption
  DEF Init, Idle, Purpose, OneDownload, AloneRuns, OkMeansServed, AloneIsAtomic,
      RepliedAlone, Served, AllOrNothing, At
<1> QED
  BY <1>3, <1>4 DEF ConfigInv

\* A step that gives one command a new record, and leaves the counters of the bounds
\* and the history alone or within their ranges, keeps the types of the commands.
LEMMA RecordStep ==
  ASSUME TypeOK, NEW s \in Subs, NEW record \in CommandRecord,
         cmd' = [cmd EXCEPT ![s] = record]
  PROVE  cmd' \in [Subs -> CommandRecord]
BY DEF TypeOK

\* What the steps do to the record of their command.
LEMMA GotoRecord ==
  ASSUME TypeOK, NEW s \in Subs,
         NEW pc \in {"idle", "fetch", "open", "copy", "install", "unlink", "read",
                     "truncate", "write", "restart", "test", "undo", "restore", "again"}
  PROVE  Goto(s, pc) => /\ cmd' \in [Subs -> CommandRecord]
                        /\ cmd' = [cmd EXCEPT ![s] = [cmd[s] EXCEPT !.pc = pc]]
<1> DEFINE record == [cmd[s] EXCEPT !.pc = pc]
<1>1. record \in CommandRecord
  BY DEF TypeOK, CommandRecord
<1> QED
  BY <1>1 DEF Goto, TypeOK

\* The same for a reply.
LEMMA ReturnRecord ==
  ASSUME TypeOK, NEW s \in Subs, NEW ret \in {"none", "ok", "err", "rolled_back"}
  PROVE  Return(s, ret) =>
           /\ cmd' \in [Subs -> CommandRecord]
           /\ cmd' = [cmd EXCEPT ![s] = [cmd[s] EXCEPT !.pc = "idle", !.ret = ret]]
<1> DEFINE record == [cmd[s] EXCEPT !.pc = "idle", !.ret = ret]
<1>1. cmd[s] \in CommandRecord
  BY DEF TypeOK
<1>2. record \in CommandRecord
  BY <1>1 DEF CommandRecord
<1> QED
  BY <1>2 DEF Return, TypeOK

\* A fault keeps to its bound, and there has been one then.
LEMMA FaultCounts ==
  ASSUME TypeOK, Fault PROVE faults' \in 0..MaxFault /\ faults' # 0
<1>1. faults \in 0..MaxFault
  BY DEF TypeOK
<1>2. MaxFault \in Nat
  BY DispatchAssumption
<1>3. faults < MaxFault /\ faults' = faults + 1
  BY DEF Fault
<1> QED
  BY <1>1, <1>2, <1>3

\* While a command runs, no other one is alone: what has to be shown of a step is
\* what it does when its own command is.
LEMMA OnlyAlone ==
  ASSUME ConfigInv, NEW s \in Subs, Busy(s), UNCHANGED historyVars,
         alone[s] => /\ \A r \in Subs \ {s} : cmd'[r] = cmd[r]
                     /\ FileOfAlone(s)' /\ BinaryOfAlone(s)'
                     /\ Served(s)' /\ AllOrNothing(s)'
  PROVE  AloneRuns' /\ OkMeansServed' /\ AloneIsAtomic'
<1>1. \A r \in Subs \ {s} : ~alone[r] /\ ~alone'[r]
  BY DEF ConfigInv, AloneRuns, historyVars
<1>2. alone'[s] = alone[s]
  BY DEF historyVars
<1>3. \A r \in Subs \ {s} : Served(r)' /\ AllOrNothing(r)'
  BY <1>1 DEF Served, AllOrNothing, RepliedAlone
<1>4. Served(s)' /\ AllOrNothing(s)'
  BY <1>2 DEF Served, AllOrNothing, RepliedAlone
<1>5. alone[s] => \A r \in Subs \ {s} : ~Busy(r)'
  BY DEF ConfigInv, AloneRuns, Busy, At
<1> QED
  BY <1>1, <1>2, <1>3, <1>4, <1>5 DEF AloneRuns, OkMeansServed, AloneIsAtomic

\* A step after which the command goes on.
LEMMA AloneGoesOn ==
  ASSUME ConfigInv, NEW s \in Subs, Busy(s), UNCHANGED historyVars, Busy(s)',
         alone[s] => /\ \A r \in Subs \ {s} : cmd'[r] = cmd[r]
                     /\ FileOfAlone(s)' /\ BinaryOfAlone(s)'
  PROVE  AloneRuns' /\ OkMeansServed' /\ AloneIsAtomic'
<1>1. Served(s)' /\ AllOrNothing(s)'
  BY DEF Served, AllOrNothing, RepliedAlone
<1> QED
  BY <1>1, OnlyAlone

\* A step with which the command ends: it is at no place that the invariant is about.
LEMMA AloneReplies ==
  ASSUME ConfigInv, NEW s \in Subs, Busy(s), UNCHANGED historyVars, ~Busy(s)',
         alone[s] => /\ \A r \in Subs \ {s} : cmd'[r] = cmd[r]
                     /\ Served(s)' /\ AllOrNothing(s)'
  PROVE  AloneRuns' /\ OkMeansServed' /\ AloneIsAtomic'
<1>1. FileOfAlone(s)' /\ BinaryOfAlone(s)'
  BY DEF FileOfAlone, BinaryOfAlone, Busy, At
<1> QED
  BY <1>1, OnlyAlone

-----------------------------------------------------------------------------
(* The steps of a download. *)

\* The archive is fetched, or the command ends with an error.
LEMMA FetchKeeps ==
  ASSUME ConfigInv, NEW s \in Subs, Fetch(s) PROVE ConfigInv'
<1>0. /\ TypeOK /\ Busy(s) /\ UNCHANGED historyVars /\ cmd[s] \in CommandRecord
      /\ alone[s] => FileOfAlone(s)
  BY DEF ConfigInv, Fetch, Busy, At, TypeOK, AloneRuns
<1>1. CASE Goto(s, "open") /\ UNCHANGED faults
  <2>1. /\ cmd' \in [Subs -> CommandRecord]
        /\ cmd' = [cmd EXCEPT ![s] = [cmd[s] EXCEPT !.pc = "open"]]
    BY <1>0, <1>1, GotoRecord
  <2>2. TypeOK'
    BY <1>0, <1>1, <2>1 DEF Fetch, TypeOK, binVars, runVars, historyVars
  <2>3. Purpose' /\ OneDownload'
    BY <1>0, <1>1, <2>1
    DEF ConfigInv, Fetch, TypeOK, CommandRecord, Purpose, OneDownload, At, binVars, runVars
  <2>4. alone[s] => FileOfAlone(s)' /\ BinaryOfAlone(s)'
    BY <1>0, <2>1
    DEF Fetch, CommandRecord, FileOfAlone, BinaryOfAlone, Busy, At, binVars, runVars,
        historyVars
  <2>5. AloneRuns' /\ OkMeansServed' /\ AloneIsAtomic'
    BY <1>0, <2>1, <2>4, AloneGoesOn DEF Busy, At
  <2> QED
    BY <2>2, <2>3, <2>5 DEF ConfigInv
<1>2. CASE Fault /\ Return(s, "err")
  <2>1. /\ cmd' \in [Subs -> CommandRecord]
        /\ cmd' = [cmd EXCEPT ![s] = [cmd[s] EXCEPT !.pc = "idle", !.ret = "err"]]
    BY <1>0, <1>2, ReturnRecord
  <2>2. faults' \in 0..MaxFault /\ faults' # 0
    BY <1>0, <1>2, FaultCounts
  <2>3. TypeOK'
    BY <1>0, <2>1, <2>2 DEF Fetch, TypeOK, binVars, runVars, historyVars
  <2>4. Purpose' /\ OneDownload'
    BY <1>0, <1>2, <2>1
    DEF ConfigInv, Fetch, TypeOK, CommandRecord, Purpose, OneDownload, At, binVars, runVars
  <2>5. Served(s)' /\ AllOrNothing(s)'
    BY <1>0, <2>1, <2>2 DEF CommandRecord, Served, AllOrNothing
  <2>6. AloneRuns' /\ OkMeansServed' /\ AloneIsAtomic'
    BY <1>0, <2>1, <2>5, AloneReplies DEF Busy, At
  <2> QED
    BY <2>3, <2>4, <2>6 DEF ConfigInv
<1> QED
  BY <1>1, <1>2 DEF Fetch

\* The .new file is created, or truncated: two downloads overlap if another one has it.
LEMMA OpenKeeps ==
  ASSUME ConfigInv, NEW s \in Subs, Open(s) PROVE ConfigInv'
<1>0. /\ TypeOK /\ Busy(s) /\ UNCHANGED historyVars
      /\ \A r \in Subs : cmd[r] \in CommandRecord
      /\ alone[s] => FileOfAlone(s) /\ \A r \in Subs \ {s} : ~Busy(r)
  BY DEF ConfigInv, Open, Busy, At, TypeOK, AloneRuns
<1>i. At(s, "open") /\ UNCHANGED <<disk, binary, runbin>>
  BY DEF Open, runVars
<1> DEFINE shares == Sharing(s) # {}
           record == [cmd[s] EXCEPT !.pc = "copy", !.fd = "new", !.shared = shares]
<1>a. shares \in BOOLEAN
  OBVIOUS
<1>b. /\ cmd'[s] = record
      /\ \A r \in Subs \ {s} :
           cmd'[r] = IF r \in Sharing(s) THEN [cmd[r] EXCEPT !.shared = TRUE] ELSE cmd[r]
  BY Zenon DEF Open
<1>c. Sharing(s) = {} => shares = FALSE
  OBVIOUS
<1> HIDE DEF shares
<1>d. record \in CommandRecord
  BY <1>0, <1>a DEF CommandRecord
<1>e. /\ record.pc = "copy" /\ record.fd = "new" /\ record.op = cmd[s].op
      /\ record.version = cmd[s].version /\ record.other = cmd[s].other
      /\ record.backup = cmd[s].backup
  BY <1>0 DEF CommandRecord
<1>f. Sharing(s) = {} => ~record.shared
  BY <1>0, <1>c DEF CommandRecord
<1> HIDE DEF record
<1>g. ASSUME NEW r \in Subs PROVE [cmd[r] EXCEPT !.shared = TRUE] \in CommandRecord
  <2>1. cmd[r] \in CommandRecord
    BY <1>0
  <2> QED
    BY <2>1 DEF CommandRecord
<1>1. /\ cmd'[s] \in CommandRecord /\ cmd'[s].pc = "copy" /\ cmd'[s].fd = "new"
      /\ cmd'[s].op = cmd[s].op /\ cmd'[s].version = cmd[s].version
      /\ cmd'[s].other = cmd[s].other /\ cmd'[s].backup = cmd[s].backup
  BY <1>b, <1>d, <1>e
<1>h. \A r \in Subs \ {s} : cmd'[r] \in CommandRecord /\ (r \notin Sharing(s) => cmd'[r] = cmd[r])
  BY <1>0, <1>b, <1>g
<1>2. TypeOK'
  <2>1. cmd' \in [Subs -> CommandRecord]
    BY <1>1, <1>h DEF Open
  <2> QED
    BY <1>0, <2>1 DEF Open, TypeOK, Binaries, boundVars, runVars, historyVars
<1>3. Purpose'
  <2>1. \A r \in Subs \ {s} :
          /\ cmd'[r].pc = cmd[r].pc /\ cmd'[r].op = cmd[r].op /\ cmd'[r].out = cmd[r].out
          /\ cmd'[r].version = cmd[r].version /\ cmd'[r].other = cmd[r].other
          /\ cmd'[r].fd = cmd[r].fd
    BY <1>0, <1>b DEF CommandRecord
  <2> QED
    BY <1>0, <1>1, <1>i, <2>1 DEF ConfigInv, Purpose, At
<1>4. OneDownload'
  <2>1. SUFFICES ASSUME ~mixed' PROVE OneDownload'
    BY DEF OneDownload
  <2>2. ~mixed /\ \A r \in Subs \ {s} : cmd[r].pc \notin {"copy", "install"}
    BY <1>0, <2>1 DEF Open
  <2>3. Sharing(s) = {}
    BY <2>2 DEF ConfigInv, Purpose, Sharing, At
  <2>4. /\ cmd'[s].pc = "copy" /\ ~cmd'[s].shared /\ cmd'[s].fd = "new"
        /\ \A r \in Subs \ {s} : cmd'[r] = cmd[r]
    BY <1>1, <1>b, <1>f, <1>h, <2>3
  <2> QED
    BY <1>i, <2>2, <2>4 DEF ConfigInv, OneDownload, At
<1>5. alone[s] => /\ \A r \in Subs \ {s} : cmd'[r] = cmd[r]
                  /\ FileOfAlone(s)' /\ BinaryOfAlone(s)'
  <2>1. SUFFICES ASSUME alone[s]
                 PROVE  /\ \A r \in Subs \ {s} : cmd'[r] = cmd[r]
                        /\ FileOfAlone(s)' /\ BinaryOfAlone(s)'
    OBVIOUS
  <2>2. Sharing(s) = {}
    BY <1>0, <2>1 DEF ConfigInv, Purpose, Sharing, Busy, At
  <2>3. ~cmd'[s].shared /\ \A r \in Subs \ {s} : cmd'[r] = cmd[r]
    BY <1>b, <1>f, <1>h, <2>2
  <2> QED
    BY <1>0, <1>1, <1>i, <2>1, <2>3
    DEF FileOfAlone, BinaryOfAlone, Busy, At, historyVars
<1>6. AloneRuns' /\ OkMeansServed' /\ AloneIsAtomic'
  BY <1>0, <1>1, <1>5, AloneGoesOn DEF CommandRecord, Busy, At
<1> QED
  BY <1>2, <1>3, <1>4, <1>6 DEF ConfigInv

\* The binary is written to wherever the descriptor leads.
LEMMA CopyKeeps ==
  ASSUME ConfigInv, NEW s \in Subs, Copy(s) PROVE ConfigInv'
<1>0. /\ TypeOK /\ Busy(s) /\ UNCHANGED historyVars /\ cmd[s] \in CommandRecord
      /\ cmd[s].version \in Versions
      /\ alone[s] => FileOfAlone(s) /\ BinaryOfAlone(s)
  BY DEF ConfigInv, Copy, Busy, At, TypeOK, AloneRuns, Purpose
<1>1. /\ cmd' = [cmd EXCEPT ![s] = [cmd[s] EXCEPT !.pc = "install", !.fd = "none"]]
      /\ cmd' \in [Subs -> CommandRecord]
  <2>1. [cmd[s] EXCEPT !.pc = "install", !.fd = "none"] \in CommandRecord
    BY <1>0 DEF CommandRecord
  <2> QED
    BY <1>0, <2>1 DEF Copy, TypeOK
<1>2. PICK content \in {cmd[s].version} \cup (IF cmd[s].shared THEN {Damaged} ELSE {}) :
        /\ new' = IF cmd[s].fd = "new" THEN content ELSE new
        /\ binary' = IF cmd[s].fd = "installed" THEN content ELSE binary
  BY DEF Copy
<1>3. content \in Binaries /\ (~cmd[s].shared => content = cmd[s].version)
  BY <1>0, <1>2 DEF Binaries
<1>4. TypeOK'
  BY <1>0, <1>1, <1>2, <1>3 DEF Copy, TypeOK, boundVars, runVars, historyVars
<1>5. Purpose'
  BY <1>0, <1>1 DEF ConfigInv, Copy, CommandRecord, Purpose, At
<1>6. OneDownload'
  BY <1>0, <1>1, <1>2, <1>3
  DEF ConfigInv, Copy, CommandRecord, Purpose, OneDownload, At, runVars
<1>7. alone[s] => FileOfAlone(s)' /\ BinaryOfAlone(s)'
  BY <1>0, <1>1, <1>2, <1>3
  DEF Copy, CommandRecord, FileOfAlone, BinaryOfAlone, Wanted, Busy, At, runVars, historyVars
<1>8. AloneRuns' /\ OkMeansServed' /\ AloneIsAtomic'
  BY <1>0, <1>1, <1>7, AloneGoesOn DEF Busy, At
<1> QED
  BY <1>4, <1>5, <1>6, <1>8 DEF ConfigInv

\* A copy that fails is not installed.
LEMMA CopyFailsKeeps ==
  ASSUME ConfigInv, NEW s \in Subs, CopyFails(s) PROVE ConfigInv'
<1>0. /\ TypeOK /\ Busy(s) /\ UNCHANGED historyVars /\ cmd[s] \in CommandRecord
      /\ faults' \in 0..MaxFault
      /\ alone[s] => FileOfAlone(s)
  BY FaultCounts DEF ConfigInv, CopyFails, Busy, At, TypeOK, AloneRuns
<1>1. /\ cmd' = [cmd EXCEPT ![s] = [cmd[s] EXCEPT !.pc = "unlink", !.fd = "none"]]
      /\ cmd' \in [Subs -> CommandRecord]
  <2>1. [cmd[s] EXCEPT !.pc = "unlink", !.fd = "none"] \in CommandRecord
    BY <1>0 DEF CommandRecord
  <2> QED
    BY <1>0, <2>1 DEF CopyFails, TypeOK
<1>2. TypeOK'
  BY <1>0, <1>1 DEF CopyFails, TypeOK, binVars, runVars, historyVars
<1>3. Purpose'
  BY <1>0, <1>1 DEF ConfigInv, CopyFails, CommandRecord, Purpose, At
<1>4. OneDownload'
  BY <1>0, <1>1 DEF ConfigInv, CopyFails, CommandRecord, OneDownload, At, binVars, runVars
<1>5. alone[s] => FileOfAlone(s)' /\ BinaryOfAlone(s)'
  BY <1>0, <1>1
  DEF CopyFails, CommandRecord, FileOfAlone, BinaryOfAlone, Busy, At, binVars, runVars,
      historyVars
<1>6. AloneRuns' /\ OkMeansServed' /\ AloneIsAtomic'
  BY <1>0, <1>1, <1>5, AloneGoesOn DEF Busy, At
<1> QED
  BY <1>2, <1>3, <1>4, <1>6 DEF ConfigInv

\* A descriptor that another command moves.
LEMMA FdRecord ==
  ASSUME NEW record \in CommandRecord, NEW fd \in {"none", "new", "installed", "lost"}
  PROVE  /\ [record EXCEPT !.fd = fd] \in CommandRecord
         /\ [record EXCEPT !.fd = fd].pc = record.pc
         /\ [record EXCEPT !.fd = fd].op = record.op
         /\ [record EXCEPT !.fd = fd].out = record.out
         /\ [record EXCEPT !.fd = fd].version = record.version
         /\ [record EXCEPT !.fd = fd].other = record.other
         /\ [record EXCEPT !.fd = fd].shared = record.shared
         /\ [record EXCEPT !.fd = fd].fd = fd
BY DEF CommandRecord

\* The .new file becomes the binary, or is no longer there.
LEMMA InstallKeeps ==
  ASSUME ConfigInv, NEW s \in Subs, Install(s) PROVE ConfigInv'
<1>0. /\ TypeOK /\ Busy(s) /\ At(s, "install") /\ UNCHANGED historyVars
      /\ \A r \in Subs : cmd[r] \in CommandRecord
      /\ cmd[s].op = "update" /\ cmd[s].version \in Versions
      /\ alone[s] => FileOfAlone(s) /\ BinaryOfAlone(s) /\ \A r \in Subs \ {s} : ~Busy(r)
  BY DEF ConfigInv, Install, Busy, At, TypeOK, AloneRuns, Purpose
<1>1. CASE new = None
  <2>1. /\ cmd' \in [Subs -> CommandRecord] /\ UNCHANGED <<binary, new>>
        /\ cmd' = [cmd EXCEPT ![s] = [cmd[s] EXCEPT !.pc = "unlink"]]
    BY <1>0, <1>1, GotoRecord DEF Install
  <2>2. TypeOK'
    BY <1>0, <2>1 DEF Install, TypeOK, boundVars, runVars, historyVars
  <2>3. Purpose' /\ OneDownload'
    BY <1>0, <2>1
    DEF ConfigInv, Install, TypeOK, CommandRecord, Purpose, OneDownload, At, runVars
  <2>4. alone[s] => FileOfAlone(s)' /\ BinaryOfAlone(s)'
    BY <1>0, <2>1
    DEF Install, CommandRecord, FileOfAlone, BinaryOfAlone, Busy, At, runVars, historyVars
  <2>5. AloneRuns' /\ OkMeansServed' /\ AloneIsAtomic'
    BY <1>0, <2>1, <2>4, AloneGoesOn DEF Busy, At
  <2> QED
    BY <2>2, <2>3, <2>5 DEF ConfigInv
<1>2. CASE new # None
  <2> DEFINE next == IF cmd[s].other = None THEN "restart" ELSE "read"
             record == [cmd[s] EXCEPT !.pc = next]
             Fd(r, fd) == [cmd[r] EXCEPT !.fd = fd]
  <2>1. record \in CommandRecord
    BY <1>0 DEF CommandRecord
  <2>2. ASSUME NEW r \in Subs, NEW fd \in {"installed", "lost"}
        PROVE  /\ Fd(r, fd) \in CommandRecord
               /\ Fd(r, fd).pc = cmd[r].pc /\ Fd(r, fd).op = cmd[r].op
               /\ Fd(r, fd).out = cmd[r].out /\ Fd(r, fd).version = cmd[r].version
               /\ Fd(r, fd).other = cmd[r].other /\ Fd(r, fd).fd = fd
    <3>1. cmd[r] \in CommandRecord /\ fd \in {"none", "new", "installed", "lost"}
      BY <1>0
    <3> QED
      BY <3>1, FdRecord
  <2>3. /\ binary' = new /\ new' = None /\ cmd'[s] = record
        /\ \A r \in Subs \ {s} :
             cmd'[r] = IF cmd[r].fd = "new" THEN Fd(r, "installed")
                       ELSE IF cmd[r].fd = "installed" THEN Fd(r, "lost") ELSE cmd[r]
    BY <1>2 DEF Install
  <2>4. cmd' \in [Subs -> CommandRecord]
    <3> HIDE DEF Fd, record, next
    <3>1. \A r \in Subs : cmd'[r] \in CommandRecord
      BY <1>0, <2>1, <2>2, <2>3
    <3> QED
      BY <1>2, <3>1 DEF Install
  <2>5. TypeOK'
    BY <1>0, <1>2, <2>3, <2>4 DEF Install, TypeOK, boundVars, runVars, historyVars
  <2>6. \A r \in Subs \ {s} :
          /\ cmd'[r].pc = cmd[r].pc /\ cmd'[r].op = cmd[r].op /\ cmd'[r].out = cmd[r].out
          /\ cmd'[r].version = cmd[r].version /\ cmd'[r].other = cmd[r].other
          /\ (cmd'[r].fd = "none" <=> cmd[r].fd = "none")
          /\ cmd[r].fd = "none" => cmd'[r] = cmd[r]
    <3> HIDE DEF Fd, record, next
    <3>1. ASSUME NEW r \in Subs \ {s}
          PROVE  \/ cmd[r].fd = "new" /\ cmd'[r] = Fd(r, "installed")
                 \/ cmd[r].fd = "installed" /\ cmd'[r] = Fd(r, "lost")
                 \/ cmd[r].fd \notin {"new", "installed"} /\ cmd'[r] = cmd[r]
      BY <2>3
    <3> QED
      BY <2>2, <3>1
  <2>7. /\ cmd'[s].pc = next /\ cmd'[s].op = "update" /\ cmd'[s].version = cmd[s].version
        /\ cmd'[s].other = cmd[s].other /\ cmd'[s].fd = cmd[s].fd
        /\ cmd[s].fd = "none" /\ next \in {"read", "restart"}
        /\ next = "read" => cmd[s].other \in Others
    BY <1>0, <2>3 DEF CommandRecord, ConfigInv, Purpose, At
  <2>8. cmd[s].other = None => next = "restart"
    OBVIOUS
  <2> HIDE DEF next, record, Fd
  <2>9. Purpose'
    BY <1>0, <2>6, <2>7 DEF ConfigInv, Purpose, At
  <2>10. OneDownload'
    <3>1. SUFFICES ASSUME ~mixed PROVE OneDownload'
      BY DEF OneDownload, Install
    <3>2. \A r \in Subs \ {s} : cmd[r].pc \notin {"copy", "install"} /\ cmd'[r] = cmd[r]
      BY <1>0, <3>1, <2>6 DEF ConfigInv, OneDownload, Purpose, At
    <3>3. new \in Versions
      BY <1>0, <1>2, <3>1 DEF ConfigInv, OneDownload
    <3> QED
      BY <2>3, <2>7, <3>1, <3>2, <3>3 DEF ConfigInv, OneDownload, Install, At, runVars
  <2>11. alone[s] => /\ \A r \in Subs \ {s} : cmd'[r] = cmd[r]
                     /\ FileOfAlone(s)' /\ BinaryOfAlone(s)'
    <3>1. SUFFICES ASSUME alone[s]
                   PROVE  /\ \A r \in Subs \ {s} : cmd'[r] = cmd[r]
                          /\ FileOfAlone(s)' /\ BinaryOfAlone(s)'
      OBVIOUS
    <3>2. \A r \in Subs \ {s} : cmd'[r] = cmd[r]
      BY <1>0, <2>6, <3>1 DEF ConfigInv, Purpose, Busy, At
    <3>3. BinaryOfAlone(s)'
      BY <1>0, <2>3, <2>7, <3>1 DEF BinaryOfAlone, At
    <3>4. /\ UNCHANGED <<disk, before>> /\ disk = before[s]
          /\ next = "restart" => cmd[s].other = None
      BY <1>0, <3>1 DEF Install, historyVars, FileOfAlone, At, next
    <3>5. next = "restart" => Wanted(s)' = before[s] /\ cmd'[s].other \notin Others
      BY <2>7, <3>4, ConfigMarks DEF Wanted
    <3>6. FileOfAlone(s)'
      BY <2>7, <3>4, <3>5 DEF FileOfAlone, Busy, At
    <3> QED
      BY <3>2, <3>3, <3>6
  <2>12. AloneRuns' /\ OkMeansServed' /\ AloneIsAtomic'
    BY <1>0, <2>7, <2>11, AloneGoesOn DEF Busy, At
  <2> QED
    BY <2>5, <2>9, <2>10, <2>12 DEF ConfigInv
<1> QED
  BY <1>1, <1>2

\* The .new file is removed, another command's too.
LEMMA UnlinkKeeps ==
  ASSUME ConfigInv, NEW s \in Subs, Unlink(s) PROVE ConfigInv'
<1>0. /\ TypeOK /\ Busy(s) /\ At(s, "unlink") /\ UNCHANGED historyVars
      /\ \A r \in Subs : cmd[r] \in CommandRecord
      /\ alone[s] => FileOfAlone(s) /\ \A r \in Subs \ {s} : ~Busy(r)
  BY DEF ConfigInv, Unlink, Busy, At, TypeOK, AloneRuns
<1> DEFINE record == [cmd[s] EXCEPT !.pc = "idle", !.ret = "err"]
           Lost(r) == [cmd[r] EXCEPT !.fd = "lost"]
<1>1. record \in CommandRecord /\ record.pc = "idle" /\ record.ret = "err"
      /\ record.fd = cmd[s].fd
  <2>1. cmd[s] \in CommandRecord
    BY <1>0
  <2> QED
    BY <2>1 DEF CommandRecord
<1>2. ASSUME NEW r \in Subs
      PROVE  /\ Lost(r) \in CommandRecord /\ Lost(r).shared = cmd[r].shared
             /\ Lost(r).pc = cmd[r].pc /\ Lost(r).op = cmd[r].op /\ Lost(r).out = cmd[r].out
             /\ Lost(r).version = cmd[r].version /\ Lost(r).other = cmd[r].other
             /\ Lost(r).fd = "lost"
  BY <1>0, FdRecord
<1>3. /\ new' = None /\ cmd'[s] = record
      /\ \A r \in Subs \ {s} : cmd'[r] = IF cmd[r].fd = "new" THEN Lost(r) ELSE cmd[r]
  BY DEF Unlink
<1>4. cmd' \in [Subs -> CommandRecord]
  <2>1. \A r \in Subs : cmd'[r] \in CommandRecord
    BY <1>0, <1>1, <1>2, <1>3
  <2> QED
    BY <2>1 DEF Unlink
<1> HIDE DEF record, Lost
<1>5. \A r \in Subs \ {s} :
        /\ cmd'[r].pc = cmd[r].pc /\ cmd'[r].op = cmd[r].op /\ cmd'[r].out = cmd[r].out
        /\ cmd'[r].version = cmd[r].version /\ cmd'[r].other = cmd[r].other
        /\ cmd'[r].shared = cmd[r].shared
        /\ cmd'[r].fd = IF cmd[r].fd = "new" THEN "lost" ELSE cmd[r].fd
        /\ cmd[r].fd = "none" => cmd'[r] = cmd[r]
  BY <1>2, <1>3
<1>6. TypeOK'
  BY <1>0, <1>3, <1>4 DEF Unlink, TypeOK, boundVars, runVars, historyVars
<1>7. Purpose'
  BY <1>0, <1>1, <1>3, <1>5 DEF ConfigInv, Purpose, At
<1>8. OneDownload'
  BY <1>0, <1>1, <1>3, <1>5 DEF ConfigInv, OneDownload, Unlink, At, runVars
<1>9. alone[s] => /\ \A r \in Subs \ {s} : cmd'[r] = cmd[r]
                  /\ Served(s)' /\ AllOrNothing(s)'
  <2>1. SUFFICES ASSUME alone[s]
                 PROVE  /\ \A r \in Subs \ {s} : cmd'[r] = cmd[r]
                        /\ Served(s)' /\ AllOrNothing(s)'
    OBVIOUS
  <2>2. \A r \in Subs \ {s} : cmd'[r] = cmd[r]
    BY <1>0, <1>5, <2>1 DEF ConfigInv, Purpose, Busy, At
  <2>3. Served(s)' /\ AllOrNothing(s)'
    BY <1>0, <1>1, <1>3, <2>1
    DEF Unlink, historyVars, FileOfAlone, Served, AllOrNothing, At
  <2> QED
    BY <2>2, <2>3
<1>10. AloneRuns' /\ OkMeansServed' /\ AloneIsAtomic'
  BY <1>0, <1>1, <1>3, <1>9, AloneReplies DEF Busy, At
<1> QED
  BY <1>6, <1>7, <1>8, <1>10 DEF ConfigInv

-----------------------------------------------------------------------------
(* The steps on config.json, and the restarts. *)

\* Steps of a command that has no download left it to the others.
LEMMA DownloadsUnmoved ==
  ASSUME ConfigInv, NEW s \in Subs, NEW record, cmd' = [cmd EXCEPT ![s] = record],
         cmd[s].pc \notin {"copy", "install"}, record.pc \notin {"copy", "install"},
         UNCHANGED binVars, runbin' \in {binary, runbin}
  PROVE  OneDownload'
BY DEF ConfigInv, TypeOK, OneDownload, At, binVars

\* What is replaced in the file makes a configuration of a configuration.
LEMMA ChangedIsConfig ==
  ASSUME TypeOK, Purpose, NEW s \in Subs, At(s, "read"), disk # Torn
  PROVE  Changed(s) \in Configs
<1>1. disk \in Configs /\ cmd[s] \in CommandRecord
  BY DEF TypeOK, Files
<1>2. cmd[s].dest \in Dests /\ (cmd[s].op # "set_dest" => cmd[s].other \in Others)
  BY <1>1 DEF CommandRecord, Purpose, At
<1> QED
  BY <1>1, <1>2 DEF Changed, Configs

\* The file is parsed, or the command ends with an error.
LEMMA ReadKeeps ==
  ASSUME ConfigInv, NEW s \in Subs, Read(s) PROVE ConfigInv'
<1>0. /\ TypeOK /\ Purpose /\ Busy(s) /\ At(s, "read") /\ UNCHANGED historyVars
      /\ cmd[s] \in CommandRecord
      /\ alone[s] => FileOfAlone(s) /\ BinaryOfAlone(s)
  BY DEF ConfigInv, Read, Busy, At, TypeOK, AloneRuns
<1>1. CASE disk = Torn
  <2>1. /\ cmd' \in [Subs -> CommandRecord]
        /\ cmd' = [cmd EXCEPT ![s] = [cmd[s] EXCEPT !.pc = "idle", !.ret = "err"]]
    BY <1>0, <1>1, ReturnRecord DEF Read
  <2>2. TypeOK'
    BY <1>0, <2>1 DEF Read, TypeOK, binVars, runVars, boundVars, historyVars
  <2>3. Purpose'
    BY <1>0, <2>1 DEF Purpose, CommandRecord, At
  <2>4. OneDownload'
    BY <1>0, <2>1, DownloadsUnmoved DEF CommandRecord, Read, runVars, At
  <2>5. alone[s] => Served(s)' /\ AllOrNothing(s)'
    BY <1>0, <2>1
    DEF Read, CommandRecord, FileOfAlone, Served, AllOrNothing, At, historyVars
  <2>6. AloneRuns' /\ OkMeansServed' /\ AloneIsAtomic'
    BY <1>0, <2>1, <2>5, AloneReplies DEF Busy, At
  <2> QED
    BY <2>2, <2>3, <2>4, <2>6 DEF ConfigInv
<1>2. CASE disk # Torn
  <2> DEFINE out == Changed(s)
             record == [cmd[s] EXCEPT !.pc = "truncate", !.out = out]
  <2>1. out \in Configs /\ out \in Files
    BY <1>0, <1>2, ChangedIsConfig DEF Files
  <2>2. alone[s] => out = Wanted(s)
    BY <1>0, ConfigMarks DEF Changed, Wanted, FileOfAlone, Purpose, At
  <2> HIDE DEF out
  <2>3. record \in CommandRecord
    BY <1>0, <2>1 DEF CommandRecord
  <2>4. cmd' = [cmd EXCEPT ![s] = record] /\ cmd' \in [Subs -> CommandRecord]
    BY <1>0, <1>2, <2>3 DEF Read, TypeOK, out
  <2>5. TypeOK'
    BY <1>0, <2>4 DEF Read, TypeOK, binVars, runVars, boundVars, historyVars
  <2>6. Purpose'
    BY <1>0, <2>1, <2>4 DEF Purpose, CommandRecord, At
  <2>7. OneDownload'
    BY <1>0, <2>4, DownloadsUnmoved DEF CommandRecord, Read, runVars, At
  <2>8. alone[s] => FileOfAlone(s)' /\ BinaryOfAlone(s)'
    BY <1>0, <2>2, <2>4
    DEF Read, CommandRecord, FileOfAlone, BinaryOfAlone, Wanted, Busy, At, binVars, historyVars
  <2>9. AloneRuns' /\ OkMeansServed' /\ AloneIsAtomic'
    BY <1>0, <2>4, <2>8, AloneGoesOn DEF Busy, At
  <2> QED
    BY <2>5, <2>6, <2>7, <2>9 DEF ConfigInv
<1> QED
  BY <1>1, <1>2

\* The file is truncated before it is written, by a change or by a rollback.
LEMMA TruncateKeeps ==
  ASSUME ConfigInv, NEW s \in Subs, Truncate(s) PROVE ConfigInv'
<1>0. /\ TypeOK /\ Purpose /\ Busy(s) /\ (At(s, "truncate") \/ At(s, "undo"))
      /\ UNCHANGED historyVars /\ cmd[s] \in CommandRecord /\ disk' = Torn
      /\ alone[s] => FileOfAlone(s) /\ BinaryOfAlone(s)
  BY DEF ConfigInv, Truncate, Busy, At, TypeOK, AloneRuns
<1> DEFINE next == IF At(s, "truncate") THEN "write" ELSE "restore"
<1>1. /\ cmd' \in [Subs -> CommandRecord]
      /\ cmd' = [cmd EXCEPT ![s] = [cmd[s] EXCEPT !.pc = next]]
  BY <1>0, GotoRecord DEF Truncate
<1>2. TypeOK'
  BY <1>0, <1>1 DEF Truncate, TypeOK, Files, binVars, runVars, boundVars, historyVars
<1>3. Purpose'
  BY <1>0, <1>1 DEF Purpose, CommandRecord, At
<1>4. OneDownload'
  BY <1>0, <1>1, DownloadsUnmoved DEF CommandRecord, Truncate, runVars, At
<1>5. alone[s] => FileOfAlone(s)' /\ BinaryOfAlone(s)'
  BY <1>0, <1>1
  DEF Truncate, CommandRecord, FileOfAlone, BinaryOfAlone, Wanted, Busy, At, binVars,
      historyVars
<1>6. AloneRuns' /\ OkMeansServed' /\ AloneIsAtomic'
  BY <1>0, <1>1, <1>5, AloneGoesOn DEF Busy, At
<1> QED
  BY <1>2, <1>3, <1>4, <1>6 DEF ConfigInv

\* The new file is written.
LEMMA WriteKeeps ==
  ASSUME ConfigInv, NEW s \in Subs, Write(s) PROVE ConfigInv'
<1>0. /\ TypeOK /\ Purpose /\ Busy(s) /\ At(s, "write")
      /\ UNCHANGED historyVars /\ cmd[s] \in CommandRecord /\ disk' = cmd[s].out
      /\ alone[s] => FileOfAlone(s) /\ BinaryOfAlone(s)
  BY DEF ConfigInv, Write, Busy, At, TypeOK, AloneRuns
<1>1. /\ cmd' \in [Subs -> CommandRecord]
      /\ cmd' = [cmd EXCEPT ![s] = [cmd[s] EXCEPT !.pc = "restart"]]
  BY <1>0, GotoRecord DEF Write
<1>2. TypeOK'
  BY <1>0, <1>1 DEF Write, TypeOK, CommandRecord, binVars, runVars, boundVars, historyVars
<1>3. Purpose'
  BY <1>0, <1>1 DEF Purpose, CommandRecord, At
<1>4. OneDownload'
  BY <1>0, <1>1, DownloadsUnmoved DEF CommandRecord, Write, runVars, At
<1>5. alone[s] => FileOfAlone(s)' /\ BinaryOfAlone(s)'
  BY <1>0, <1>1
  DEF Write, CommandRecord, FileOfAlone, BinaryOfAlone, Wanted, Purpose, Busy, At, binVars,
      historyVars
<1>6. AloneRuns' /\ OkMeansServed' /\ AloneIsAtomic'
  BY <1>0, <1>1, <1>5, AloneGoesOn DEF Busy, At
<1> QED
  BY <1>2, <1>3, <1>4, <1>6 DEF ConfigInv

\* A write that fails.
LEMMA WriteFailsKeeps ==
  ASSUME ConfigInv, NEW s \in Subs, WriteFails(s) PROVE ConfigInv'
<1>0. /\ TypeOK /\ Purpose /\ Busy(s) /\ At(s, "write")
      /\ UNCHANGED historyVars /\ cmd[s] \in CommandRecord
      /\ faults' \in 0..MaxFault /\ faults' # 0
  BY FaultCounts DEF ConfigInv, WriteFails, Busy, At, TypeOK
<1>1. /\ cmd' \in [Subs -> CommandRecord]
      /\ cmd' = [cmd EXCEPT ![s] = [cmd[s] EXCEPT !.pc = "idle", !.ret = "err"]]
  BY <1>0, ReturnRecord DEF WriteFails
<1>2. TypeOK'
  BY <1>0, <1>1 DEF WriteFails, TypeOK, binVars, runVars, historyVars
<1>3. Purpose'
  BY <1>0, <1>1 DEF Purpose, CommandRecord, At
<1>4. OneDownload'
  BY <1>0, <1>1, DownloadsUnmoved DEF CommandRecord, WriteFails, runVars, At
<1>5. Served(s)' /\ AllOrNothing(s)'
  BY <1>0, <1>1 DEF CommandRecord, Served, AllOrNothing
<1>6. AloneRuns' /\ OkMeansServed' /\ AloneIsAtomic'
  BY <1>0, <1>1, <1>5, AloneReplies DEF Busy, At
<1> QED
  BY <1>2, <1>3, <1>4, <1>6 DEF ConfigInv

\* xray restarts with what the files hold.
LEMMA RestartedTypes ==
  ASSUME TypeOK, Restarted \/ StopXray
  PROVE  running' \in Configs \cup {Down} /\ runbin' = binary /\ runbin' \in Binaries
BY DEF TypeOK, Files, Restarted, StopXray

\* The restart succeeds: xray_update has done what it was asked for, xray_set_dest goes
\* on to test it.
LEMMA RestartKeeps ==
  ASSUME ConfigInv, NEW s \in Subs, Restart(s) PROVE ConfigInv'
<1>0. /\ TypeOK /\ Purpose /\ Busy(s) /\ At(s, "restart")
      /\ UNCHANGED historyVars /\ cmd[s] \in CommandRecord
      /\ running' \in Configs \cup {Down} /\ runbin' = binary /\ runbin' \in Binaries
      /\ alone[s] => FileOfAlone(s) /\ BinaryOfAlone(s)
  BY RestartedTypes DEF ConfigInv, Restart, Busy, At, TypeOK, AloneRuns
<1>1. ~mixed => (disk # Torn => running' = disk)
  BY <1>0, ConfigMarks DEF ConfigInv, OneDownload, Restart, Restarted
<1>2. CASE cmd[s].op = "set_dest"
  <2>1. /\ cmd' \in [Subs -> CommandRecord]
        /\ cmd' = [cmd EXCEPT ![s] = [cmd[s] EXCEPT !.pc = "test"]]
    BY <1>0, <1>2, GotoRecord DEF Restart
  <2>2. TypeOK'
    BY <1>0, <2>1 DEF Restart, TypeOK, binVars, boundVars, historyVars
  <2>3. Purpose'
    BY <1>0, <1>2, <2>1 DEF Purpose, CommandRecord, At
  <2>4. OneDownload'
    BY <1>0, <2>1, DownloadsUnmoved DEF CommandRecord, Restart, At
  <2>5. alone[s] => FileOfAlone(s)' /\ BinaryOfAlone(s)'
    BY <1>0, <1>1, <1>2, <2>1, ConfigMarks
    DEF Restart, CommandRecord, FileOfAlone, BinaryOfAlone, Wanted, Busy, At, binVars,
        boundVars, historyVars
  <2>6. AloneRuns' /\ OkMeansServed' /\ AloneIsAtomic'
    BY <1>0, <2>1, <2>5, AloneGoesOn DEF Busy, At
  <2> QED
    BY <2>2, <2>3, <2>4, <2>6 DEF ConfigInv
<1>3. CASE cmd[s].op # "set_dest"
  <2>1. /\ cmd' \in [Subs -> CommandRecord]
        /\ cmd' = [cmd EXCEPT ![s] = [cmd[s] EXCEPT !.pc = "idle", !.ret = "ok"]]
    BY <1>0, <1>3, ReturnRecord DEF Restart
  <2>2. TypeOK'
    BY <1>0, <2>1 DEF Restart, TypeOK, binVars, boundVars, historyVars
  <2>3. Purpose'
    BY <1>0, <2>1 DEF Purpose, CommandRecord, At
  <2>4. OneDownload'
    BY <1>0, <2>1, DownloadsUnmoved DEF CommandRecord, Restart, At
  <2>5. alone[s] => Served(s)' /\ AllOrNothing(s)'
    BY <1>0, <1>1, <1>3, <2>1
    DEF Restart, CommandRecord, FileOfAlone, BinaryOfAlone, Wanted, Served, AllOrNothing,
        At, binVars, boundVars, historyVars
  <2>6. AloneRuns' /\ OkMeansServed' /\ AloneIsAtomic'
    BY <1>0, <2>1, <2>5, AloneReplies DEF Busy, At
  <2> QED
    BY <2>2, <2>3, <2>4, <2>6 DEF ConfigInv
<1> QED
  BY <1>2, <1>3

\* The restart fails.  Without a fault of systemctl the file does not parse, and then
\* an update had no field to change in it.
LEMMA RestartFailsKeeps ==
  ASSUME ConfigInv, NEW s \in Subs, RestartFails(s) PROVE ConfigInv'
<1>0. /\ TypeOK /\ Purpose /\ Busy(s) /\ At(s, "restart")
      /\ UNCHANGED historyVars /\ cmd[s] \in CommandRecord
      /\ running' \in Configs \cup {Down} /\ runbin' = binary /\ runbin' \in Binaries
      /\ alone[s] => FileOfAlone(s) /\ BinaryOfAlone(s)
  BY RestartedTypes DEF ConfigInv, RestartFails, Busy, At, TypeOK, AloneRuns
<1>1. faults' \in 0..MaxFault /\ (faults' = 0 => Restarted /\ running' = Down /\ faults = 0)
  BY <1>0, FaultCounts DEF RestartFails, TypeOK
<1>2. (~mixed /\ faults' = 0) => disk = Torn
  BY <1>0, <1>1, ConfigMarks DEF ConfigInv, TypeOK, OneDownload, Restarted
<1>3. CASE cmd[s].op = "set_dest"
  <2>1. /\ cmd' \in [Subs -> CommandRecord]
        /\ cmd' = [cmd EXCEPT ![s] = [cmd[s] EXCEPT !.pc = "undo"]]
    BY <1>0, <1>3, GotoRecord DEF RestartFails
  <2>2. TypeOK'
    BY <1>0, <1>1, <2>1 DEF RestartFails, TypeOK, binVars, historyVars
  <2>3. Purpose'
    BY <1>0, <1>3, <2>1 DEF Purpose, CommandRecord, At
  <2>4. OneDownload'
    BY <1>0, <2>1, DownloadsUnmoved DEF CommandRecord, RestartFails, At
  <2>5. alone[s] => FileOfAlone(s)' /\ BinaryOfAlone(s)'
    BY <1>0, <1>3, <2>1
    DEF RestartFails, CommandRecord, FileOfAlone, BinaryOfAlone, Busy, At, historyVars
  <2>6. AloneRuns' /\ OkMeansServed' /\ AloneIsAtomic'
    BY <1>0, <2>1, <2>5, AloneGoesOn DEF Busy, At
  <2> QED
    BY <2>2, <2>3, <2>4, <2>6 DEF ConfigInv
<1>4. CASE cmd[s].op # "set_dest"
  <2>1. /\ cmd' \in [Subs -> CommandRecord]
        /\ cmd' = [cmd EXCEPT ![s] = [cmd[s] EXCEPT !.pc = "idle", !.ret = "err"]]
    BY <1>0, <1>4, ReturnRecord DEF RestartFails
  <2>2. TypeOK'
    BY <1>0, <1>1, <2>1 DEF RestartFails, TypeOK, binVars, historyVars
  <2>3. Purpose'
    BY <1>0, <2>1 DEF Purpose, CommandRecord, At
  <2>4. OneDownload'
    BY <1>0, <2>1, DownloadsUnmoved DEF CommandRecord, RestartFails, At
  <2>5. alone[s] => Served(s)' /\ AllOrNothing(s)'
    BY <1>0, <1>2, <1>4, <2>1, ConfigMarks
    DEF RestartFails, CommandRecord, FileOfAlone, Wanted, Served, AllOrNothing,
        At, binVars, historyVars
  <2>6. AloneRuns' /\ OkMeansServed' /\ AloneIsAtomic'
    BY <1>0, <2>1, <2>5, AloneReplies DEF Busy, At
  <2> QED
    BY <2>2, <2>3, <2>4, <2>6 DEF ConfigInv
<1> QED
  BY <1>3, <1>4

\* The self-test passes, which it only does on the destination that xray runs with.
LEMMA TestPassesKeeps ==
  ASSUME ConfigInv, NEW s \in Subs, TestPasses(s) PROVE ConfigInv'
<1>0. /\ TypeOK /\ Purpose /\ Busy(s) /\ At(s, "test") /\ cmd[s].op = "set_dest"
      /\ UNCHANGED historyVars /\ cmd[s] \in CommandRecord
      /\ disk # Torn /\ running.dest = disk.dest
      /\ alone[s] => FileOfAlone(s) /\ before[s] \in Files
  BY DEF ConfigInv, TestPasses, Busy, At, TypeOK, AloneRuns, Purpose
<1>1. /\ cmd' \in [Subs -> CommandRecord]
      /\ cmd' = [cmd EXCEPT ![s] = [cmd[s] EXCEPT !.pc = "idle", !.ret = "ok"]]
  BY <1>0, ReturnRecord DEF TestPasses
<1>2. TypeOK'
  BY <1>0, <1>1 DEF TestPasses, TypeOK, binVars, runVars, boundVars, historyVars
<1>3. Purpose'
  BY <1>0, <1>1 DEF Purpose, CommandRecord, At
<1>4. OneDownload'
  BY <1>0, <1>1, DownloadsUnmoved DEF CommandRecord, TestPasses, runVars, At
<1>5. alone[s] => Served(s)' /\ AllOrNothing(s)'
  <2>1. alone[s] => disk = Wanted(s) /\ disk.dest = cmd[s].dest
    BY <1>0 DEF FileOfAlone, Wanted, At, Files, Configs, Torn, Config
  <2> QED
    BY <1>0, <1>1, <2>1
    DEF TestPasses, CommandRecord, FileOfAlone, Wanted, Served, AllOrNothing,
        At, binVars, runVars, boundVars, historyVars
<1>6. AloneRuns' /\ OkMeansServed' /\ AloneIsAtomic'
  BY <1>0, <1>1, <1>5, AloneReplies DEF Busy, At
<1> QED
  BY <1>2, <1>3, <1>4, <1>6 DEF ConfigInv

\* It fails, and the backup is to be put back.
LEMMA TestFailsStep ==
  ASSUME ConfigInv, NEW s \in Subs, TestFails(s) PROVE ConfigInv'
<1>0. /\ TypeOK /\ Purpose /\ Busy(s) /\ At(s, "test")
      /\ UNCHANGED historyVars /\ cmd[s] \in CommandRecord
      /\ alone[s] => FileOfAlone(s)
  BY DEF ConfigInv, TestFails, Busy, At, TypeOK, AloneRuns
<1>1. /\ cmd' \in [Subs -> CommandRecord]
      /\ cmd' = [cmd EXCEPT ![s] = [cmd[s] EXCEPT !.pc = "undo"]]
  BY <1>0, GotoRecord DEF TestFails
<1>2. TypeOK'
  BY <1>0, <1>1 DEF TestFails, TypeOK, binVars, runVars, boundVars, historyVars
<1>3. Purpose'
  BY <1>0, <1>1 DEF Purpose, CommandRecord, At
<1>4. OneDownload'
  BY <1>0, <1>1, DownloadsUnmoved DEF CommandRecord, TestFails, runVars, At
<1>5. alone[s] => FileOfAlone(s)' /\ BinaryOfAlone(s)'
  BY <1>0, <1>1
  DEF TestFails, CommandRecord, FileOfAlone, BinaryOfAlone, Busy, At, historyVars
<1>6. AloneRuns' /\ OkMeansServed' /\ AloneIsAtomic'
  BY <1>0, <1>1, <1>5, AloneGoesOn DEF Busy, At
<1> QED
  BY <1>2, <1>3, <1>4, <1>6 DEF ConfigInv

\* The backup is put back.
LEMMA RestoreKeeps ==
  ASSUME ConfigInv, NEW s \in Subs, Restore(s) PROVE ConfigInv'
<1>0. /\ TypeOK /\ Purpose /\ Busy(s) /\ At(s, "restore")
      /\ UNCHANGED historyVars /\ cmd[s] \in CommandRecord /\ disk' = cmd[s].backup
      /\ alone[s] => FileOfAlone(s)
  BY DEF ConfigInv, Restore, Busy, At, TypeOK, AloneRuns
<1>1. /\ cmd' \in [Subs -> CommandRecord]
      /\ cmd' = [cmd EXCEPT ![s] = [cmd[s] EXCEPT !.pc = "again"]]
  BY <1>0, GotoRecord DEF Restore
<1>2. TypeOK'
  BY <1>0, <1>1 DEF Restore, TypeOK, CommandRecord, binVars, runVars, boundVars, historyVars
<1>3. Purpose'
  BY <1>0, <1>1 DEF Purpose, CommandRecord, At
<1>4. OneDownload'
  BY <1>0, <1>1, DownloadsUnmoved DEF CommandRecord, Restore, runVars, At
<1>5. alone[s] => FileOfAlone(s)' /\ BinaryOfAlone(s)'
  BY <1>0, <1>1
  DEF CommandRecord, FileOfAlone, BinaryOfAlone, Busy, At, historyVars
<1>6. AloneRuns' /\ OkMeansServed' /\ AloneIsAtomic'
  BY <1>0, <1>1, <1>5, AloneGoesOn DEF Busy, At
<1> QED
  BY <1>2, <1>3, <1>4, <1>6 DEF ConfigInv

\* The rollback cannot be written.
LEMMA RestoreFailsKeeps ==
  ASSUME ConfigInv, NEW s \in Subs, RestoreFails(s) PROVE ConfigInv'
<1>0. /\ TypeOK /\ Purpose /\ Busy(s) /\ At(s, "restore")
      /\ UNCHANGED historyVars /\ cmd[s] \in CommandRecord
      /\ faults' \in 0..MaxFault /\ faults' # 0
  BY FaultCounts DEF ConfigInv, RestoreFails, Busy, At, TypeOK
<1>1. /\ cmd' \in [Subs -> CommandRecord]
      /\ cmd' = [cmd EXCEPT ![s] = [cmd[s] EXCEPT !.pc = "idle", !.ret = "rolled_back"]]
  BY <1>0, ReturnRecord DEF RestoreFails
<1>2. TypeOK'
  BY <1>0, <1>1 DEF RestoreFails, TypeOK, binVars, runVars, historyVars
<1>3. Purpose'
  BY <1>0, <1>1 DEF Purpose, CommandRecord, At
<1>4. OneDownload'
  BY <1>0, <1>1, DownloadsUnmoved DEF CommandRecord, RestoreFails, runVars, At
<1>5. Served(s)' /\ AllOrNothing(s)'
  BY <1>0, <1>1 DEF CommandRecord, Served, AllOrNothing
<1>6. AloneRuns' /\ OkMeansServed' /\ AloneIsAtomic'
  BY <1>0, <1>1, <1>5, AloneReplies DEF Busy, At
<1> QED
  BY <1>2, <1>3, <1>4, <1>6 DEF ConfigInv

\* xray restarts with the backup, unless systemctl fails.
LEMMA RestartAgainKeeps ==
  ASSUME ConfigInv, NEW s \in Subs, RestartAgain(s) PROVE ConfigInv'
<1>0. /\ TypeOK /\ Purpose /\ Busy(s) /\ At(s, "again") /\ cmd[s].op = "set_dest"
      /\ UNCHANGED historyVars /\ cmd[s] \in CommandRecord
      /\ running' \in Configs \cup {Down} /\ runbin' = binary /\ runbin' \in Binaries
      /\ alone[s] => FileOfAlone(s)
  BY RestartedTypes DEF ConfigInv, RestartAgain, Busy, At, TypeOK, AloneRuns, Purpose
<1>1. faults' \in 0..MaxFault /\ (faults' = 0 => Restarted)
  BY <1>0, FaultCounts DEF RestartAgain, TypeOK
<1>2. (~mixed /\ faults' = 0 /\ disk # Torn) => running' = disk
  BY <1>0, <1>1, ConfigMarks DEF ConfigInv, OneDownload, Restarted
<1>3. /\ cmd' \in [Subs -> CommandRecord]
      /\ cmd' = [cmd EXCEPT ![s] = [cmd[s] EXCEPT !.pc = "idle", !.ret = "rolled_back"]]
  BY <1>0, ReturnRecord DEF RestartAgain
<1>4. TypeOK'
  BY <1>0, <1>1, <1>3 DEF RestartAgain, TypeOK, binVars, historyVars
<1>5. Purpose'
  BY <1>0, <1>3 DEF Purpose, CommandRecord, At
<1>6. OneDownload'
  BY <1>0, <1>3, DownloadsUnmoved DEF CommandRecord, RestartAgain, At
<1>7. alone[s] => Served(s)' /\ AllOrNothing(s)'
  BY <1>0, <1>2, <1>3
  DEF RestartAgain, CommandRecord, FileOfAlone, Wanted, Served, AllOrNothing,
      At, Busy, binVars, historyVars
<1>8. AloneRuns' /\ OkMeansServed' /\ AloneIsAtomic'
  BY <1>0, <1>3, <1>7, AloneReplies DEF Busy, At
<1> QED
  BY <1>4, <1>5, <1>6, <1>8 DEF ConfigInv

-----------------------------------------------------------------------------
(* A command begins, and the agent stops. *)

\* A command that begins ends the time in which any other one was alone.
LEMMA BeginKeeps ==
  ASSUME ConfigInv, NEW s \in Subs, NEW record \in CommandRecord, Begin(s, record),
         record.fd = "none", record.op \in {"set_dest", "update"},
         \/ record.pc = "read"
         \/ record.pc = "fetch" /\ record.op = "update" /\ record.version \in Versions,
         record.op = "set_dest" => record.backup = disk,
         (record.op = "update" /\ record.pc = "read") =>
           record.other \in Others /\ record.version = None
  PROVE  ConfigInv'
<1>0. /\ TypeOK /\ Purpose /\ ~Busy(s) /\ cmd' = [cmd EXCEPT ![s] = record]
      /\ \A r \in Subs \ {s} : ~alone'[r] /\ cmd'[r] = cmd[r]
      /\ cmd'[s] = record /\ before'[s] = disk /\ disk' = disk
      /\ alone'[s] => \A r \in Subs \ {s} : ~Busy(r)
  BY DEF ConfigInv, Begin, Dispatch, TypeOK
<1>1. TypeOK'
  <2>1. commands' \in 0..MaxCommand
    <3>1. commands \in 0..MaxCommand /\ MaxCommand \in Nat
      BY <1>0, DispatchAssumption DEF TypeOK
    <3> QED
      BY <3>1 DEF Begin, Dispatch
  <2>2. alone' \in [Subs -> BOOLEAN]
    BY Zenon DEF Begin
  <2>3. before' \in [Subs -> Files]
    BY <1>0 DEF Begin, TypeOK
  <2> QED
    BY <1>0, <2>1, <2>2, <2>3 DEF Begin, TypeOK, binVars, runVars
<1>2. Purpose'
  BY <1>0 DEF Purpose, At
<1>3. OneDownload'
  BY <1>0, DownloadsUnmoved DEF Begin, runVars, Busy, At
<1>4. AloneRuns'
  BY <1>0 DEF AloneRuns, FileOfAlone, BinaryOfAlone, Busy, At
<1>5. OkMeansServed' /\ AloneIsAtomic'
  BY <1>0 DEF OkMeansServed, AloneIsAtomic, Served, AllOrNothing, RepliedAlone, Busy, At
<1> QED
  BY <1>1, <1>2, <1>3, <1>4, <1>5 DEF ConfigInv

\* xray_set_dest has made its backup.
LEMMA SetDestKeeps ==
  ASSUME ConfigInv, NEW s \in Subs, NEW d \in Dests, SetDest(s, d) PROVE ConfigInv'
<1> DEFINE record == [Idle("set_dest", "none") EXCEPT !.pc = "read", !.dest = d,
                                                      !.backup = disk]
<1>1. disk \in Files /\ Torn \in Files
  BY DEF ConfigInv, TypeOK, Files
<1>2. /\ record \in CommandRecord /\ record.pc = "read" /\ record.op = "set_dest"
      /\ record.fd = "none" /\ record.backup = disk
  BY <1>1, ConfigAssumption DEF CommandRecord, Idle
<1>3. Begin(s, record)
  BY DEF SetDest
<1> HIDE DEF record
<1> QED
  BY <1>2, <1>3, BeginKeeps

\* xray_update has a release to install, a field to change, or both.
LEMMA UpdateKeeps ==
  ASSUME ConfigInv, NEW s \in Subs, NEW v \in Versions \cup {None},
         NEW o \in Others \cup {None}, v # None \/ o # None, Update(s, v, o)
  PROVE  ConfigInv'
<1> DEFINE record == [Idle("update", "none") EXCEPT !.version = v, !.other = o,
                        !.pc = IF v = None THEN "read" ELSE "fetch"]
<1>1. Torn \in Files
  BY DEF Files
<1>2. /\ record \in CommandRecord /\ record.op = "update" /\ record.fd = "none"
      /\ IF v = None THEN record.pc = "read" /\ o \in Others ELSE record.pc = "fetch"
      /\ record.version = v /\ record.other = o
  BY <1>1, ConfigAssumption DEF CommandRecord, Idle
<1>3. Begin(s, record)
  BY DEF Update
<1> HIDE DEF record
<1> QED
  BY <1>2, <1>3, BeginKeeps

\* The commands are gone, and have not replied.
LEMMA AgentCrashKeeps == ASSUME ConfigInv, AgentCrash PROVE ConfigInv'
<1>0. TypeOK
  BY DEF ConfigInv
<1>1. ASSUME NEW s \in Subs
      PROVE  /\ cmd'[s].pc = "idle" /\ cmd'[s].fd = "none" /\ cmd'[s] \in CommandRecord
             /\ ~Busy(s) => cmd'[s] = cmd[s]
             /\ Busy(s) => cmd'[s].ret = "none"
  <2>1. cmd[s] \in CommandRecord /\ Torn \in Files /\ (~Busy(s) => cmd[s].fd = "none")
    BY <1>0 DEF TypeOK, Files, ConfigInv, Purpose, Busy, At
  <2>2. cmd'[s] = IF Busy(s) THEN Idle(cmd[s].op, "none") ELSE cmd[s]
    BY DEF AgentCrash
  <2>3. cmd[s].op \in {"none", "set_dest", "update"}
    BY <2>1 DEF CommandRecord
  <2>4. /\ Idle(cmd[s].op, "none") \in CommandRecord /\ Idle(cmd[s].op, "none").pc = "idle"
        /\ Idle(cmd[s].op, "none").fd = "none" /\ Idle(cmd[s].op, "none").ret = "none"
    BY <2>1, <2>3, ConfigAssumption DEF Idle, CommandRecord
  <2> QED
    BY <2>1, <2>2, <2>4 DEF Busy, At
<1>2. TypeOK'
  <2>1. cmd' \in [Subs -> CommandRecord]
    BY <1>1 DEF AgentCrash
  <2>2. crashes' \in 0..MaxCrash
    <3>1. crashes \in 0..MaxCrash /\ MaxCrash \in Nat
      BY <1>0, DispatchAssumption DEF TypeOK
    <3> QED
      BY <3>1 DEF AgentCrash
  <2> QED
    BY <1>0, <2>1, <2>2 DEF AgentCrash, TypeOK, binVars, runVars, historyVars
<1>3. Purpose' /\ OneDownload'
  BY <1>1 DEF ConfigInv, AgentCrash, Purpose, OneDownload, At, binVars, runVars
<1>4. AloneRuns'
  BY <1>1 DEF AloneRuns, FileOfAlone, BinaryOfAlone, Busy, At
<1>5. ASSUME NEW s \in Subs PROVE Served(s)' /\ AllOrNothing(s)'
  <2>1. CASE Busy(s)
    BY <1>1, <2>1 DEF Served, AllOrNothing, RepliedAlone
  <2>2. CASE ~Busy(s)
    BY <1>1, <2>2
    DEF ConfigInv, AgentCrash, OkMeansServed, AloneIsAtomic, Served, AllOrNothing,
        RepliedAlone, Wanted, binVars, runVars, historyVars, Busy, At
  <2> QED
    BY <2>1, <2>2
<1> QED
  BY <1>2, <1>3, <1>4, <1>5 DEF ConfigInv, OkMeansServed, AloneIsAtomic

-----------------------------------------------------------------------------
(* The theorems of XrayConfig. *)

\* Every step keeps the invariant.
LEMMA ConfigStep == ConfigInv /\ [Next]_vars => ConfigInv'
<1> SUFFICES ASSUME ConfigInv, [Next]_vars PROVE ConfigInv'
  OBVIOUS
<1>1. ASSUME NEW s \in Subs, Step(s) PROVE ConfigInv'
  BY <1>1, FetchKeeps, OpenKeeps, CopyKeeps, CopyFailsKeeps, InstallKeeps, UnlinkKeeps,
     ReadKeeps, TruncateKeeps, WriteKeeps, WriteFailsKeeps, RestartKeeps,
     RestartFailsKeeps, TestPassesKeeps, TestFailsStep, RestoreKeeps, RestoreFailsKeeps,
     RestartAgainKeeps DEF Step
<1>2. CASE UNCHANGED vars
  <2>1. TypeOK' /\ Purpose' /\ OneDownload'
    BY <1>2
    DEF ConfigInv, vars, binVars, runVars, boundVars, historyVars, TypeOK, Purpose,
        OneDownload, At
  <2>2. AloneRuns' /\ OkMeansServed' /\ AloneIsAtomic'
    BY <1>2
    DEF ConfigInv, vars, binVars, runVars, boundVars, historyVars, AloneRuns, FileOfAlone,
        BinaryOfAlone, OkMeansServed, AloneIsAtomic, Served, AllOrNothing, RepliedAlone,
        Wanted, Busy, At
  <2> QED
    BY <2>1, <2>2 DEF ConfigInv
<1> QED
  BY <1>1, <1>2, SetDestKeeps, UpdateKeeps, AgentCrashKeeps DEF Next

\* The invariant holds of every state that the commands can reach.
THEOREM ConfigInvariant == Spec => []ConfigInv
BY ConfigStarts, ConfigStep, PTL DEF Spec

\* The variables have their types: the file is a configuration or truncated, whatever
\* commands overlap (xray_set_dest.go, xray_update.go).
THEOREM ConfigTypes == Spec => []TypeOK
<1>1. ConfigInv => TypeOK
  BY DEF ConfigInv
<1> QED
  BY <1>1, ConfigInvariant, PTL

\* The installed binary and the one that runs are whole releases as long as no two
\* downloads overlapped (xray_update.go:145).
THEOREM BinaryStaysWhole == Spec => []BinaryIsWhole
<1>1. ConfigInv => BinaryIsWhole
  BY DEF ConfigInv, OneDownload, BinaryIsWhole
<1> QED
  BY <1>1, ConfigInvariant, PTL

\* After an ok, xray serves what the command named.
THEOREM OkIsServed == Spec => []OkMeansServed
<1>1. ConfigInv => OkMeansServed
  BY DEF ConfigInv
<1> QED
  BY <1>1, ConfigInvariant, PTL

\* A command that no other one overlapped is all or nothing for config.json
\* (xray_set_dest.go:36, xray_update.go:151).
THEOREM AloneStaysAtomic == Spec => []AloneIsAtomic
<1>1. ConfigInv => AloneIsAtomic
  BY DEF ConfigInv
<1> QED
  BY <1>1, ConfigInvariant, PTL

-----------------------------------------------------------------------------
(* AgentEnv: the inductive invariant. *)

\* What a request names, and where its command can be.
Intent ==
  \A s \in Subs : Busy(s) =>
    /\ \/ cmd[s].op = "config" /\ DOMAIN cmd[s].want \subseteq Keys
       \/ cmd[s].op = "tier" /\ DOMAIN cmd[s].want = {Tier} /\ cmd[s].file = "env"
    /\ At(s, "script") => cmd[s].op = "tier"

\* What the history says of the commands that run.
Exclusive ==
  \A r, s \in Subs : (Busy(r) /\ Busy(s) /\ r # s) =>
    /\ overlap # {}
    /\ (cmd[r].op = "config" /\ cmd[s].op = "config") => "service" \in overlap

\* No other command rewrites the file that s rewrites.
Sole(s) ==
  Busy(s) /\ IF cmd[s].file = "service" THEN "service" \notin overlap ELSE overlap = {}

\* Its descriptor is on the temporary file, which has what it wrote, and that is an
\* edit of the installed file as it is now.
Rewrites(s) ==
  /\ cmd[s].pc \in {"write", "rename"} => cmd[s].file \in DOMAIN tmp
  /\ At(s, "write") => cmd[s].fd = "tmp"
  /\ At(s, "rename") => tmp[cmd[s].file] = cmd[s].out
  /\ ~At(s, "remove")
  /\ cmd[s].pc \in {"open", "write", "rename"} =>
       cmd[s].out = Edited(s) /\ (cmd[s].file = "service" => DOMAIN cmd[s].want \subseteq Keys)

\* The keys of a command that runs have no acknowledged value, and those of a file that
\* it has rewritten have the value it wants.
Unacked(s) ==
  /\ (cmd[s].op = "config" /\ "service" \notin overlap) =>
       \A k \in DOMAIN cmd[s].want :
         acked[k] = Unknown /\ (cmd[s].file = "env" => files.service[k] = cmd[s].want[k])
  /\ (cmd[s].op = "tier" /\ overlap = {}) =>
       /\ acked[Tier] = Unknown
       /\ At(s, "script") =>
            Tier \in DOMAIN files.env /\ files.env[Tier] = cmd[s].want[Tier]

Rewriting == \A s \in Subs : (Sole(s) => Rewrites(s)) /\ (Busy(s) => Unacked(s))

EnvInv ==
  EnvTypeOK /\ Intent /\ Exclusive /\ Rewriting /\ FilesWhole /\ AckedStays /\ FilesAgree

-----------------------------------------------------------------------------
(* The contents of the files. *)

\* What Over gives.
LEMMA OverValue ==
  ASSUME NEW f, NEW g
  PROVE  /\ DOMAIN Over(f, g) = DOMAIN f \cup DOMAIN g
         /\ \A k \in DOMAIN f : Over(f, g)[k] = f[k]
         /\ \A k \in DOMAIN g \ DOMAIN f : Over(f, g)[k] = g[k]
BY DEF Over

\* A file has known keys with values.
LEMMA ContentsAre ==
  ASSUME NEW f \in Contents
  PROVE  DOMAIN f \subseteq Keys \cup {Tier} /\ f \in [DOMAIN f -> Values]
BY DEF Contents

\* And a function like that is a file.
LEMMA AreContents ==
  ASSUME NEW ks, ks \subseteq Keys \cup {Tier}, NEW f \in [ks -> Values]
  PROVE  f \in Contents
BY DEF Contents

\* One file over another is a file.
LEMMA OverIsContents ==
  ASSUME NEW f \in Contents, NEW g \in Contents PROVE Over(f, g) \in Contents
<1>1. /\ DOMAIN f \cup DOMAIN g \subseteq Keys \cup {Tier}
      /\ f \in [DOMAIN f -> Values] /\ g \in [DOMAIN g -> Values]
  BY ContentsAre
<1>2. Over(f, g) \in [DOMAIN f \cup DOMAIN g -> Values]
  BY <1>1 DEF Over
<1> QED
  BY <1>1, <1>2, AreContents

\* So is a part of one.
LEMMA PartIsContents ==
  ASSUME NEW f \in Contents, NEW ks, ks \subseteq DOMAIN f
  PROVE  /\ Restrict(f, ks) \in Contents /\ DOMAIN Restrict(f, ks) = ks
         /\ \A k \in ks : Restrict(f, ks)[k] = f[k]
<1>1. ks \subseteq Keys \cup {Tier} /\ f \in [DOMAIN f -> Values]
  BY ContentsAre
<1>2. Restrict(f, ks) \in [ks -> Values]
  BY <1>1 DEF Restrict
<1> QED
  BY <1>1, <1>2, AreContents DEF Restrict

\* The empty file is one.
LEMMA EmptyIsContents == Empty \in Contents
<1>1. Empty \in [{} -> Values]
  BY DEF Empty
<1> QED
  BY <1>1, AreContents

\* What a command makes of its file: the keys of the file, and for set_tier its own; of
\* these, the ones it names have the values it wants, the others keep theirs.
LEMMA EditedIs ==
  ASSUME EnvTypeOK, Intent, NEW s \in Subs, Busy(s)
  PROVE  LET old == files[cmd[s].file]
             want == cmd[s].want
         IN  /\ Edited(s) \in Contents
             /\ cmd[s].op = "config" => DOMAIN Edited(s) = DOMAIN old
             /\ cmd[s].op = "tier" => DOMAIN Edited(s) = DOMAIN old \cup {Tier}
             /\ \A k \in DOMAIN old \ DOMAIN want : Edited(s)[k] = old[k]
             /\ \A k \in DOMAIN Edited(s) \cap DOMAIN want : Edited(s)[k] = want[k]
<1> DEFINE old == files[cmd[s].file]
           want == cmd[s].want
           part == Restrict(want, DOMAIN want \cap DOMAIN old)
<1>1. old \in Contents /\ want \in Contents
  BY DEF EnvTypeOK, EnvRecord
<1>2. /\ part \in Contents /\ DOMAIN part = DOMAIN want \cap DOMAIN old
      /\ \A k \in DOMAIN want \cap DOMAIN old : part[k] = want[k]
  BY <1>1, PartIsContents
<1>3. Edited(s) = IF cmd[s].op = "tier" THEN Over(want, old) ELSE Over(part, old)
  BY DEF Edited
<1>4. cmd[s].op = "tier" => DOMAIN want = {Tier}
  BY DEF Intent
<1> HIDE DEF part, old, want
<1>5. CASE cmd[s].op = "tier"
  <2>1. Edited(s) = Over(want, old) /\ DOMAIN want = {Tier}
    BY <1>3, <1>4, <1>5
  <2>2. /\ DOMAIN Edited(s) = DOMAIN old \cup {Tier}
        /\ \A k \in DOMAIN want : Edited(s)[k] = want[k]
        /\ \A k \in DOMAIN old \ DOMAIN want : Edited(s)[k] = old[k]
    <3>1. /\ DOMAIN Over(want, old) = DOMAIN want \cup DOMAIN old
          /\ \A k \in DOMAIN want : Over(want, old)[k] = want[k]
          /\ \A k \in DOMAIN old \ DOMAIN want : Over(want, old)[k] = old[k]
      BY OverValue
    <3> QED
      BY <2>1, <3>1
  <2>3. Edited(s) \in Contents
    BY <1>1, <2>1, OverIsContents
  <2> QED
    BY <1>5, <2>2, <2>3 DEF old, want
<1>6. CASE cmd[s].op # "tier"
  <2>1. Edited(s) = Over(part, old)
    BY <1>3, <1>6
  <2>2. /\ DOMAIN Edited(s) = DOMAIN old
        /\ \A k \in DOMAIN old \cap DOMAIN want : Edited(s)[k] = want[k]
        /\ \A k \in DOMAIN old \ DOMAIN want : Edited(s)[k] = old[k]
    BY <1>2, <2>1, OverValue
  <2>3. Edited(s) \in Contents
    BY <1>1, <1>2, <2>1, OverIsContents
  <2> QED
    BY <1>6, <2>2, <2>3 DEF old, want
<1> QED
  BY <1>5, <1>6

-----------------------------------------------------------------------------
(* AgentEnv: the initial states, and what the steps have in common. *)

\* The invariant holds at the start.
LEMMA EnvStarts == EnvInit => EnvInv
<1> SUFFICES ASSUME EnvInit PROVE EnvInv
  OBVIOUS
<1>1. /\ files.service = [k \in Keys |-> Value0] /\ files.env = [k \in Mapped |-> Value0]
      /\ files \in [FileNames -> Contents]
  <2>1. files = [service |-> [k \in Keys |-> Value0], env |-> [k \in Mapped |-> Value0]]
    BY DEF EnvInit
  <2>2. [k \in Keys |-> Value0] \in Contents /\ [k \in Mapped |-> Value0] \in Contents
    BY EnvAssumption, AreContents
  <2> QED
    BY <2>1, <2>2 DEF FileNames
<1>2. \A s \in Subs : /\ cmd[s] = NoCommand("none") /\ cmd[s] \in EnvRecord
                      /\ cmd[s].pc = "idle" /\ cmd[s].fd = "none"
  BY EmptyIsContents DEF EnvInit, NoCommand, EnvRecord, FileNames
<1>3. /\ DOMAIN acked = Keys \cup {Tier} /\ acked[Tier] = Unknown
      /\ \A k \in Keys : acked[k] = Value0
      /\ acked \in [Keys \cup {Tier} -> Values \cup {Unknown}]
  BY EnvAssumption DEF EnvInit, Put
<1>4. EnvTypeOK
  <2>1. cmd \in [Subs -> EnvRecord] /\ \A s \in Subs : cmd[s].fd # "none" <=> At(s, "write")
    BY <1>2 DEF EnvInit, At
  <2>2. DOMAIN tmp = {}
    BY DEF EnvInit
  <2>3. timers \in [sleeping : Nat, reloaded : Nat]
    BY DEF EnvInit
  <2>4. commands \in 0..MaxCommand /\ faults \in 0..MaxFault /\ crashes \in 0..MaxCrash
    BY DispatchAssumption DEF EnvInit
  <2>5. {loaded, started} \subseteq Contents /\ tc \in Values
    BY <1>1, EnvAssumption DEF EnvInit, FileNames
  <2>6. overlap \subseteq FileNames /\ spaced \in BOOLEAN
    BY DEF EnvInit
  <2> QED
    BY <1>1, <1>3, <2>1, <2>2, <2>3, <2>4, <2>5, <2>6 DEF EnvTypeOK
<1>5. Intent /\ Exclusive /\ Rewriting
  BY <1>2 DEF Intent, Exclusive, Rewriting, Sole, Busy, At
<1>6. FilesWhole /\ AckedStays /\ FilesAgree
  BY <1>1, <1>3, EnvAssumption DEF FilesWhole, AckedStays, FilesAgree, EnvInit
<1> QED
  BY <1>4, <1>5, <1>6 DEF EnvInv

\* Two commands that run, the other one of which still has its file to itself: that one
\* is update_config with the unit, and this one set_tier with the env file.
LEMMA OtherCommand ==
  ASSUME EnvInv, NEW s \in Subs, Busy(s), NEW r \in Subs \ {s}, Busy(r)
  PROVE  /\ overlap # {}
         /\ Sole(r) => cmd[r].file = "service" /\ cmd[r].op = "config" /\ cmd[s].op = "tier"
         /\ (cmd[r].op = "config" /\ "service" \notin overlap) => cmd[s].op = "tier"
         /\ cmd[s].op = "tier" => cmd[s].file = "env"
<1>1. cmd[r].op \in {"config", "tier"} /\ cmd[s].op \in {"config", "tier"}
  BY DEF EnvInv, Intent
<1>2. cmd[s].op = "tier" => cmd[s].file = "env"
  BY DEF EnvInv, Intent
<1>3. cmd[r].op = "tier" => cmd[r].file = "env"
  BY DEF EnvInv, Intent
<1>4. /\ overlap # {}
      /\ (cmd[r].op = "config" /\ cmd[s].op = "config") => "service" \in overlap
  BY DEF EnvInv, Exclusive
<1> QED
  BY <1>1, <1>2, <1>3, <1>4 DEF Sole

\* What a step of s leaves to the other commands.
LEMMA OthersKeep ==
  ASSUME EnvInv, NEW s \in Subs, Busy(s), UNCHANGED overlap,
         \A r \in Subs \ {s} :
           /\ cmd'[r].pc = cmd[r].pc /\ cmd'[r].op = cmd[r].op
           /\ cmd'[r].file = cmd[r].file /\ cmd'[r].want = cmd[r].want
           /\ cmd[r].file # cmd[s].file => cmd'[r] = cmd[r],
         cmd[s].file = "env" =>
           /\ files'["service"] = files["service"]
           /\ "service" \in DOMAIN tmp =>
                "service" \in DOMAIN tmp' /\ tmp'["service"] = tmp["service"],
         cmd[s].op = "tier" => \A k \in Keys : acked'[k] = acked[k]
  PROVE  \A r \in Subs \ {s} : (Sole(r) => Rewrites(r))' /\ (Busy(r) => Unacked(r))'
<1> SUFFICES ASSUME NEW r \in Subs \ {s}, Busy(r)
             PROVE  (Sole(r) => Rewrites(r))' /\ (Busy(r) => Unacked(r))'
  BY DEF Sole, Busy, At
<1>1. /\ overlap # {} /\ (Sole(r) => Rewrites(r)) /\ Unacked(r)
      /\ Sole(r) => cmd[r].file = "service" /\ cmd[r].op = "config" /\ cmd[s].op = "tier"
      /\ (cmd[r].op = "config" /\ "service" \notin overlap) => cmd[s].op = "tier"
      /\ cmd[s].op = "tier" => cmd[s].file = "env"
  BY OtherCommand DEF EnvInv, Rewriting
<1>2. ASSUME Sole(r)' PROVE Rewrites(r)'
  <2>1. Sole(r)
    BY <1>2 DEF Sole, Busy, At
  <2>2. /\ cmd[r].file = "service" /\ cmd[s].file = "env" /\ cmd'[r] = cmd[r]
        /\ files'["service"] = files["service"]
        /\ "service" \in DOMAIN tmp =>
             "service" \in DOMAIN tmp' /\ tmp'["service"] = tmp["service"]
    BY <1>1, <2>1
  <2>3. Edited(r)' = Edited(r)
    BY <2>2 DEF Edited
  <2> QED
    BY <1>1, <2>1, <2>2, <2>3 DEF Rewrites, At
<1>3. Unacked(r)'
  <2>1. SUFFICES ASSUME cmd[r].op = "config", "service" \notin overlap PROVE Unacked(r)'
    BY <1>1 DEF Unacked
  <2>2. /\ files'["service"] = files["service"] /\ \A k \in Keys : acked'[k] = acked[k]
        /\ DOMAIN cmd[r].want \subseteq Keys
    BY <1>1, <2>1 DEF EnvInv, Intent
  <2> QED
    BY <1>1, <2>1, <2>2 DEF Unacked
<1> QED
  BY <1>2, <1>3

\* A step that ends a command, or lets it go on with the same request, leaves what the
\* history says of the commands.
LEMMA CommandGoesOn ==
  ASSUME EnvInv, NEW s \in Subs, Busy(s), UNCHANGED overlap,
         \A r \in Subs \ {s} :
           /\ cmd'[r].pc = cmd[r].pc /\ cmd'[r].op = cmd[r].op
           /\ cmd'[r].file = cmd[r].file /\ cmd'[r].want = cmd[r].want,
         \/ ~Busy(s)'
         \/ /\ cmd'[s].op = cmd[s].op /\ cmd'[s].want = cmd[s].want
            /\ cmd[s].op = "tier" => cmd'[s].file = "env"
            /\ At(s, "script")' => cmd[s].op = "tier"
  PROVE  Intent' /\ Exclusive'
<1>1. ASSUME NEW r \in Subs, Busy(r)'
      PROVE  /\ Busy(r) /\ cmd'[r].op = cmd[r].op /\ cmd'[r].want = cmd[r].want
             /\ cmd[r].op = "tier" => cmd'[r].file = "env"
             /\ At(r, "script")' => cmd[r].op = "tier"
  BY <1>1 DEF EnvInv, Intent, Busy, At
<1>2. Intent'
  BY <1>1 DEF EnvInv, Intent
<1>3. Exclusive'
  BY <1>1 DEF EnvInv, Exclusive
<1> QED
  BY <1>2, <1>3

\* What a reply does: the command is gone, and after an ok its values are acknowledged.
LEMMA ReplyIs ==
  ASSUME EnvInv, NEW s \in Subs, NEW c \in [Subs -> EnvRecord],
         NEW ret \in {"ok", "err"}, Reply(s, c, ret)
  PROVE  /\ cmd' \in [Subs -> EnvRecord] /\ ~Busy(s)' /\ cmd'[s].fd = "none"
         /\ \A r \in Subs \ {s} : cmd'[r] = c[r]
         /\ timers' \in [sleeping : Nat, reloaded : Nat]
         /\ acked' \in [Keys \cup {Tier} -> Values \cup {Unknown}]
         /\ \A k \in Keys \cup {Tier} :
              acked'[k] = IF ret = "ok" /\ k \in DOMAIN cmd[s].want THEN cmd[s].want[k]
                                                                    ELSE acked[k]
         /\ ret = "err" => acked' = acked
<1>1. /\ NoCommand(ret) \in EnvRecord /\ NoCommand(ret).pc = "idle"
      /\ NoCommand(ret).fd = "none"
  BY EmptyIsContents DEF NoCommand, EnvRecord, FileNames
<1>2. cmd' = [c EXCEPT ![s] = NoCommand(ret)]
  BY DEF Reply
<1>3. timers' \in [sleeping : Nat, reloaded : Nat]
  BY DEF Reply, EnvInv, EnvTypeOK
<1> DEFINE want == cmd[s].want
<1>4. /\ want \in Contents /\ acked \in [Keys \cup {Tier} -> Values \cup {Unknown}]
      /\ acked' = IF ret = "ok" THEN Over(want, acked) ELSE acked
  BY DEF Reply, EnvInv, EnvTypeOK, EnvRecord
<1>5. DOMAIN want \subseteq Keys \cup {Tier} /\ want \in [DOMAIN want -> Values]
  BY <1>4, ContentsAre
<1> HIDE DEF want
<1>6. /\ acked' \in [Keys \cup {Tier} -> Values \cup {Unknown}]
      /\ \A k \in Keys \cup {Tier} :
           acked'[k] = IF ret = "ok" /\ k \in DOMAIN want THEN want[k] ELSE acked[k]
  BY <1>4, <1>5 DEF Over
<1> QED
  BY <1>1, <1>2, <1>3, <1>4, <1>6 DEF want, Busy, At

\* A step that installs and acknowledges nothing.
LEMMA NothingInstalled ==
  ASSUME EnvInv, UNCHANGED <<files, tc, overlap, acked>>, faults' = 0 => faults = 0,
         {loaded', started'} \subseteq {files.service, loaded, started}
  PROVE  FilesWhole' /\ AckedStays' /\ FilesAgree'
BY DEF EnvInv, FilesWhole, AckedStays, FilesAgree

-----------------------------------------------------------------------------
(* AgentEnv: the steps of a rewrite. *)

\* A request with a key that the unit does not have is refused; for any other one the
\* file is edited.
LEMMA ReadFileKeeps ==
  ASSUME EnvInv, NEW s \in Subs, ReadFile(s) PROVE EnvInv'
<1>0. /\ EnvTypeOK /\ Intent /\ Busy(s) /\ At(s, "read") /\ cmd[s] \in EnvRecord
      /\ UNCHANGED <<files, tmp, loaded, started, tc, boundVars, overlap, spaced>>
      /\ cmd[s].fd = "none" /\ Unacked(s)
      /\ cmd[s].op = "tier" => cmd[s].file = "env"
  BY DEF EnvInv, ReadFile, Busy, At, EnvTypeOK, Rewriting, Intent
<1>1. CASE cmd[s].file = "service" /\ ~(DOMAIN cmd[s].want \subseteq DOMAIN files.service)
  <2>1. Reply(s, cmd, "err") /\ cmd \in [Subs -> EnvRecord]
    BY <1>0, <1>1 DEF ReadFile, EnvTypeOK
  <2>2. /\ cmd' \in [Subs -> EnvRecord] /\ ~Busy(s)' /\ cmd'[s].fd = "none"
        /\ \A r \in Subs \ {s} : cmd'[r] = cmd[r]
        /\ timers' \in [sleeping : Nat, reloaded : Nat] /\ acked' = acked
    BY <2>1, ReplyIs
  <2>3. EnvTypeOK'
    BY <1>0, <2>2 DEF EnvTypeOK, boundVars, Busy, At
  <2>4. Intent' /\ Exclusive'
    BY <1>0, <2>2, CommandGoesOn
  <2>5. Rewriting'
    BY <1>0, <2>2, OthersKeep DEF Rewriting, Sole, Busy, At
  <2>6. FilesWhole' /\ AckedStays' /\ FilesAgree'
    BY <1>0, <2>2, NothingInstalled DEF boundVars
  <2> QED
    BY <2>3, <2>4, <2>5, <2>6 DEF EnvInv
<1>2. CASE ~(cmd[s].file = "service" /\ ~(DOMAIN cmd[s].want \subseteq DOMAIN files.service))
  <2> DEFINE out == Edited(s)
             record == [cmd[s] EXCEPT !.pc = "open", !.out = out]
  <2>1. out \in Contents
    BY <1>0, EditedIs
  <2>2. cmd' = [cmd EXCEPT ![s] = record] /\ UNCHANGED <<timers, acked>>
    BY <1>0, <1>2 DEF ReadFile, EnvTypeOK
  <2>3. cmd[s].file = "service" => DOMAIN cmd[s].want \subseteq Keys \cup {Tier}
    BY <1>0, ContentsAre DEF EnvRecord
  <2>4. cmd[s].file = "service" => DOMAIN cmd[s].want \subseteq Keys
    BY <1>0 DEF Intent
  <2> HIDE DEF out
  <2>5. /\ record \in EnvRecord /\ record.pc = "open" /\ record.out = out
        /\ record.fd = "none" /\ record.op = cmd[s].op /\ record.want = cmd[s].want
        /\ record.file = cmd[s].file
    BY <1>0, <2>1 DEF EnvRecord
  <2> HIDE DEF record
  <2>6. /\ cmd' \in [Subs -> EnvRecord] /\ cmd'[s] = record
        /\ \A r \in Subs \ {s} : cmd'[r] = cmd[r]
    BY <1>0, <2>2, <2>5 DEF EnvTypeOK
  <2>7. EnvTypeOK'
    BY <1>0, <2>2, <2>5, <2>6 DEF EnvTypeOK, boundVars, At
  <2>8. Intent' /\ Exclusive'
    BY <1>0, <2>5, <2>6, CommandGoesOn DEF At
  <2>9. Rewriting'
    <3>1. \A r \in Subs \ {s} : (Sole(r) => Rewrites(r))' /\ (Busy(r) => Unacked(r))'
      BY <1>0, <2>2, <2>6, OthersKeep
    <3>2. Edited(s)' = out
      BY <1>0, <2>5, <2>6 DEF Edited, out
    <3>3. Rewrites(s)' /\ Unacked(s)'
      BY <1>0, <2>2, <2>4, <2>5, <2>6, <3>2 DEF Rewrites, Unacked, At
    <3> QED
      BY <3>1, <3>3 DEF Rewriting
  <2>10. FilesWhole' /\ AckedStays' /\ FilesAgree'
    BY <1>0, <2>2, NothingInstalled DEF boundVars
  <2> QED
    BY <2>7, <2>8, <2>9, <2>10 DEF EnvInv
<1> QED
  BY <1>1, <1>2

\* The temporary file is created or truncated.
LEMMA OpenTmpKeeps ==
  ASSUME EnvInv, NEW s \in Subs, OpenTmp(s) PROVE EnvInv'
<1>0. /\ EnvTypeOK /\ Intent /\ Busy(s) /\ At(s, "open") /\ cmd[s] \in EnvRecord
      /\ UNCHANGED <<files, systemVars, tc, boundVars, ackVars>>
      /\ Unacked(s) /\ (Sole(s) => Rewrites(s))
      /\ cmd[s].op = "tier" => cmd[s].file = "env"
      /\ tmp' = Put(tmp, cmd[s].file, Empty) /\ cmd[s].file \in FileNames
  BY DEF EnvInv, OpenTmp, Busy, At, EnvTypeOK, EnvRecord, Rewriting, Intent
<1> DEFINE record == [cmd[s] EXCEPT !.pc = "write", !.fd = "tmp"]
<1>1. /\ record \in EnvRecord /\ record.pc = "write" /\ record.out = cmd[s].out
      /\ record.fd = "tmp" /\ record.op = cmd[s].op /\ record.want = cmd[s].want
      /\ record.file = cmd[s].file
  BY <1>0 DEF EnvRecord
<1>2. cmd' = [cmd EXCEPT ![s] = record]
  BY <1>0 DEF OpenTmp, EnvTypeOK
<1> HIDE DEF record
<1>3. /\ cmd' \in [Subs -> EnvRecord] /\ cmd'[s] = record
      /\ \A r \in Subs \ {s} : cmd'[r] = cmd[r]
  BY <1>0, <1>1, <1>2 DEF EnvTypeOK
<1>4. /\ DOMAIN tmp' = DOMAIN tmp \cup {cmd[s].file} /\ tmp'[cmd[s].file] = Empty
      /\ \A f \in DOMAIN tmp \ {cmd[s].file} : tmp'[f] = tmp[f]
  <2> DEFINE put == Put(tmp, cmd[s].file, Empty)
  <2>1. /\ DOMAIN put = DOMAIN tmp \cup {cmd[s].file} /\ put[cmd[s].file] = Empty
        /\ \A f \in DOMAIN tmp \ {cmd[s].file} : put[f] = tmp[f]
    BY DEF Put
  <2>2. tmp' = put
    BY <1>0
  <2> HIDE DEF put
  <2> QED
    BY <2>1, <2>2
<1>5. EnvTypeOK'
  <2>1. DOMAIN tmp' \subseteq FileNames /\ \A f \in DOMAIN tmp' : tmp'[f] \in Contents
    BY <1>0, <1>4, EmptyIsContents DEF EnvTypeOK
  <2> QED
    BY <1>0, <1>1, <1>3, <2>1 DEF EnvTypeOK, systemVars, boundVars, ackVars, At
<1>6. Intent' /\ Exclusive'
  BY <1>0, <1>1, <1>3, CommandGoesOn DEF ackVars, At
<1>7. Rewriting'
  <2>1. \A r \in Subs \ {s} : (Sole(r) => Rewrites(r))' /\ (Busy(r) => Unacked(r))'
    BY <1>0, <1>3, <1>4, OthersKeep DEF ackVars
  <2>2. Sole(s)' => Sole(s)
    BY <1>0, <1>1, <1>3 DEF Sole, Busy, At, ackVars
  <2>3. Edited(s)' = Edited(s)
    BY <1>0, <1>1, <1>3 DEF Edited
  <2>4. Sole(s) => Rewrites(s)'
    BY <1>0, <1>1, <1>3, <1>4, <2>3 DEF Rewrites, At
  <2>5. Unacked(s)'
    BY <1>0, <1>1, <1>3 DEF Unacked, At, ackVars
  <2> QED
    BY <2>1, <2>2, <2>4, <2>5 DEF Rewriting
<1>8. FilesWhole' /\ AckedStays' /\ FilesAgree'
  BY <1>0, NothingInstalled DEF boundVars, systemVars, ackVars
<1> QED
  BY <1>5, <1>6, <1>7, <1>8 DEF EnvInv

\* It is written, or the installed file is through a descriptor that another command's
\* rename has moved there.
LEMMA WriteTmpKeeps ==
  ASSUME EnvInv, NEW s \in Subs, WriteTmp(s) PROVE EnvInv'
<1> DEFINE file == cmd[s].file
           out == cmd[s].out
           record == [cmd[s] EXCEPT !.pc = "rename", !.fd = "none"]
<1>0. /\ EnvTypeOK /\ Intent /\ Busy(s) /\ At(s, "write") /\ cmd[s] \in EnvRecord
      /\ UNCHANGED <<systemVars, tc, boundVars, ackVars>>
      /\ Unacked(s) /\ (Sole(s) => Rewrites(s))
      /\ cmd[s].op = "tier" => file = "env"
      /\ file \in FileNames /\ out \in Contents
      /\ tmp' = IF cmd[s].fd = "tmp" THEN Put(tmp, file, out) ELSE tmp
      /\ files' = IF cmd[s].fd = "installed" THEN [files EXCEPT ![file] = out] ELSE files
  BY DEF EnvInv, WriteTmp, Busy, At, EnvTypeOK, EnvRecord, Rewriting, Intent
<1>1. /\ record \in EnvRecord /\ record.pc = "rename" /\ record.out = out
      /\ record.fd = "none" /\ record.op = cmd[s].op /\ record.want = cmd[s].want
      /\ record.file = file
  BY <1>0 DEF EnvRecord
<1>2. cmd' = [cmd EXCEPT ![s] = record]
  BY <1>0 DEF WriteTmp, EnvTypeOK
<1> HIDE DEF record
<1>3. /\ cmd' \in [Subs -> EnvRecord] /\ cmd'[s] = record
      /\ \A r \in Subs \ {s} : cmd'[r] = cmd[r]
  BY <1>0, <1>1, <1>2 DEF EnvTypeOK
<1>4. IF cmd[s].fd = "tmp"
        THEN /\ DOMAIN tmp' = DOMAIN tmp \cup {file} /\ tmp'[file] = out
             /\ \A f \in DOMAIN tmp \ {file} : tmp'[f] = tmp[f]
        ELSE tmp' = tmp
  <2> DEFINE put == Put(tmp, file, out)
  <2>1. /\ DOMAIN put = DOMAIN tmp \cup {file} /\ put[file] = out
        /\ \A f \in DOMAIN tmp \ {file} : put[f] = tmp[f]
    BY DEF Put
  <2> QED
    BY <1>0, <2>1
<1> HIDE DEF file, out
<1>5. EnvTypeOK'
  <2>1. DOMAIN tmp' \subseteq FileNames /\ \A f \in DOMAIN tmp' : tmp'[f] \in Contents
    BY <1>0, <1>4 DEF EnvTypeOK
  <2>2. files' \in [FileNames -> Contents]
    <3>1. /\ files \in [FileNames -> Contents] /\ out \in Contents
          /\ files' = IF cmd[s].fd = "installed" THEN [files EXCEPT ![file] = out] ELSE files
      BY <1>0 DEF EnvTypeOK
    <3> QED
      BY <3>1
  <2> QED
    BY <1>0, <1>1, <1>3, <2>1, <2>2 DEF EnvTypeOK, systemVars, boundVars, ackVars, At
<1>6. Intent' /\ Exclusive'
  BY <1>0, <1>1, <1>3, CommandGoesOn DEF ackVars, At, file
<1>7. \A f \in FileNames \ {file} : files'[f] = files[f]
  BY <1>0 DEF EnvTypeOK
<1>8. Sole(s) => files' = files
  BY <1>0 DEF Rewrites
<1>9. Rewriting'
  <2>1. \A r \in Subs \ {s} : (Sole(r) => Rewrites(r))' /\ (Busy(r) => Unacked(r))'
    BY <1>0, <1>3, <1>4, <1>7, OthersKeep DEF ackVars, file, FileNames
  <2>2. Sole(s)' => Sole(s)
    BY <1>0, <1>1, <1>3 DEF Sole, Busy, At, ackVars, file
  <2>3. Sole(s) => Rewrites(s)'
    <3>1. Sole(s) => Edited(s)' = Edited(s)
      BY <1>1, <1>3, <1>8 DEF Edited, file
    <3> QED
      BY <1>0, <1>1, <1>3, <1>4, <3>1 DEF Rewrites, At, file, out
  <2>4. Unacked(s)'
    <3>1. (cmd[s].op = "tier" /\ overlap = {}) => Unacked(s)'
      BY <1>0, <1>1, <1>3 DEF Unacked, At, ackVars
    <3>2. (cmd[s].op = "config" /\ "service" \notin overlap) =>
            files'["service"] = files["service"]
      <4>1. (cmd[s].op = "config" /\ "service" \notin overlap /\ file = "service") =>
              Sole(s)
        BY <1>0 DEF Sole, file
      <4> QED
        BY <1>0, <1>7, <1>8, <4>1 DEF FileNames
    <3> QED
      BY <1>0, <1>1, <1>3, <3>1, <3>2 DEF Unacked, At, ackVars, file
  <2> QED
    BY <2>1, <2>2, <2>3, <2>4 DEF Rewriting
<1>10. FilesWhole' /\ AckedStays' /\ FilesAgree'
  <2>1. "service" \notin overlap => files'["service"] = files["service"]
    <3>1. ("service" \notin overlap /\ file = "service") => Sole(s)
      BY <1>0 DEF Sole, file
    <3> QED
      BY <1>0, <1>7, <1>8, <3>1 DEF FileNames
  <2>2. overlap = {} => files' = files
    BY <1>0, <1>8 DEF Sole
  <2> QED
    BY <1>0, <2>1, <2>2
    DEF EnvInv, FilesWhole, AckedStays, FilesAgree, systemVars, boundVars, ackVars
<1> QED
  BY <1>5, <1>6, <1>9, <1>10 DEF EnvInv

\* A step that fails leaves the files; of the env file it is an ok of update_config,
\* whose values the unit has already.
LEMMA GivesUp ==
  ASSUME EnvInv, NEW s \in Subs, Busy(s), NEW c \in [Subs -> EnvRecord], GiveUp(s, c),
         UNCHANGED <<files, loaded, started, tc, overlap>>,
         overlap = {} => faults' # 0
  PROVE  /\ cmd' \in [Subs -> EnvRecord] /\ ~Busy(s)' /\ cmd'[s].fd = "none"
         /\ \A r \in Subs \ {s} : cmd'[r] = c[r]
         /\ timers' \in [sleeping : Nat, reloaded : Nat]
         /\ acked' \in [Keys \cup {Tier} -> Values \cup {Unknown}]
         /\ cmd[s].op = "tier" => \A k \in Keys : acked'[k] = acked[k]
         /\ FilesWhole' /\ AckedStays' /\ FilesAgree'
<1> DEFINE ret == IF cmd[s].op = "config" /\ cmd[s].file = "env" THEN "ok" ELSE "err"
<1>1. ret \in {"ok", "err"} /\ Reply(s, c, ret)
  BY DEF GiveUp
<1>2. /\ ret = "ok" => cmd[s].op = "config" /\ cmd[s].file = "env"
      /\ cmd[s].op = "tier" => ret = "err"
  OBVIOUS
<1> HIDE DEF ret
<1>3. /\ cmd' \in [Subs -> EnvRecord] /\ ~Busy(s)' /\ cmd'[s].fd = "none"
      /\ \A r \in Subs \ {s} : cmd'[r] = c[r]
      /\ timers' \in [sleeping : Nat, reloaded : Nat]
      /\ acked' \in [Keys \cup {Tier} -> Values \cup {Unknown}]
      /\ \A k \in Keys \cup {Tier} :
           acked'[k] = IF ret = "ok" /\ k \in DOMAIN cmd[s].want THEN cmd[s].want[k]
                                                                 ELSE acked[k]
  <2>1. CASE ret = "ok"
    <3>1. Reply(s, c, "ok")
      BY <1>1, <2>1
    <3> QED
      BY <2>1, <3>1, ReplyIs
  <2>2. CASE ret = "err"
    <3>1. Reply(s, c, "err")
      BY <1>1, <2>2
    <3> QED
      BY <2>2, <3>1, ReplyIs
  <2> QED
    BY <1>1, <2>1, <2>2
<1>4. FilesWhole' /\ FilesAgree'
  <2>1. FilesWhole'
    BY DEF EnvInv, FilesWhole
  <2>2. FilesAgree'
    BY DEF FilesAgree
  <2> QED
    BY <2>1, <2>2
<1>5. AckedStays'
  <2>1. ret = "ok" => /\ Tier \notin DOMAIN cmd[s].want
                      /\ "service" \notin overlap =>
                           \A k \in DOMAIN cmd[s].want : files.service[k] = cmd[s].want[k]
    BY <1>2, EnvAssumption DEF EnvInv, Intent, Rewriting, Unacked
  <2> QED
    BY <1>3, <2>1 DEF EnvInv, AckedStays
<1> QED
  BY <1>2, <1>3, <1>4, <1>5

\* A read, an open or a write that fails.
LEMMA FileFailsKeeps ==
  ASSUME EnvInv, NEW s \in Subs, FileFails(s) PROVE EnvInv'
<1>0. /\ EnvTypeOK /\ Busy(s) /\ cmd \in [Subs -> EnvRecord] /\ GiveUp(s, cmd)
      /\ UNCHANGED <<files, tmp, loaded, started, tc, commands, crashes, overlap, spaced>>
  BY DEF EnvInv, FileFails, Busy, At, EnvTypeOK
<1>1. faults' \in 0..MaxFault /\ faults' # 0
  <2>1. faults \in 0..MaxFault /\ MaxFault \in Nat /\ faults < MaxFault /\ faults' = faults + 1
    BY <1>0, DispatchAssumption DEF EnvTypeOK, FileFails, Fault
  <2> QED
    BY <2>1
<1>2. /\ cmd' \in [Subs -> EnvRecord] /\ ~Busy(s)' /\ cmd'[s].fd = "none"
      /\ \A r \in Subs \ {s} : cmd'[r] = cmd[r]
      /\ timers' \in [sleeping : Nat, reloaded : Nat]
      /\ acked' \in [Keys \cup {Tier} -> Values \cup {Unknown}]
      /\ cmd[s].op = "tier" => \A k \in Keys : acked'[k] = acked[k]
      /\ FilesWhole' /\ AckedStays' /\ FilesAgree'
  BY <1>0, <1>1, GivesUp
<1>3. EnvTypeOK'
  BY <1>0, <1>1, <1>2 DEF EnvTypeOK, Busy, At
<1>4. Intent' /\ Exclusive'
  BY <1>0, <1>2, CommandGoesOn
<1>5. Rewriting'
  BY <1>0, <1>2, OthersKeep DEF Rewriting, Sole, Busy, At
<1> QED
  BY <1>2, <1>3, <1>4, <1>5 DEF EnvInv

\* Only a descriptor of another command on the same file moves.
LEMMA MovedIs ==
  ASSUME EnvTypeOK, NEW s \in Subs, NEW r \in Subs, NEW moves,
         moves \in {[tmp |-> "installed", installed |-> "lost"], [tmp |-> "lost"]}
  PROVE  LET c == Moved(s, moves)[r]
         IN  /\ c \in EnvRecord /\ c.pc = cmd[r].pc /\ c.op = cmd[r].op
             /\ c.file = cmd[r].file /\ c.want = cmd[r].want
             /\ (c.fd # "none" <=> cmd[r].fd # "none")
             /\ cmd[r].file # cmd[s].file => c = cmd[r]
             /\ r = s => c = cmd[r]
<1>1. cmd[r] \in EnvRecord
  BY DEF EnvTypeOK
<1>2. \A fd \in DOMAIN moves : fd # "none" /\ moves[fd] \in {"installed", "lost"}
  OBVIOUS
<1>3. Moved(s, moves)[r] =
        IF r # s /\ cmd[r].file = cmd[s].file /\ cmd[r].fd \in DOMAIN moves
          THEN [cmd[r] EXCEPT !.fd = moves[cmd[r].fd]] ELSE cmd[r]
  BY DEF Moved
<1>4. CASE r # s /\ cmd[r].file = cmd[s].file /\ cmd[r].fd \in DOMAIN moves
  <2> DEFINE fd == moves[cmd[r].fd]
  <2>1. fd \in {"installed", "lost"} /\ cmd[r].fd # "none"
    BY <1>2, <1>4
  <2>2. Moved(s, moves)[r] = [cmd[r] EXCEPT !.fd = fd]
    BY <1>3, <1>4
  <2> HIDE DEF fd
  <2> QED
    BY <1>1, <1>4, <2>1, <2>2 DEF EnvRecord
<1>5. CASE ~(r # s /\ cmd[r].file = cmd[s].file /\ cmd[r].fd \in DOMAIN moves)
  BY <1>1, <1>3, <1>5
<1> QED
  BY <1>4, <1>5

\* The temporary file of a command is gone, the other one is not.
LEMMA NoTmpIs ==
  ASSUME EnvTypeOK, NEW s \in Subs, NoTmp(s)
  PROVE  /\ DOMAIN tmp' = DOMAIN tmp \ {cmd[s].file}
         /\ \A f \in DOMAIN tmp' : tmp'[f] = tmp[f]
         /\ DOMAIN tmp' \subseteq FileNames /\ \A f \in DOMAIN tmp' : tmp'[f] \in Contents
BY DEF NoTmp, Restrict, EnvTypeOK

\* The rename finds no temporary file: another command has renamed or removed it, so this
\* one does not have its file to itself.
LEMMA RenameFailsKeeps ==
  ASSUME EnvInv, NEW s \in Subs, RenameFails(s) PROVE EnvInv'
<1>0. /\ EnvTypeOK /\ Intent /\ Busy(s) /\ At(s, "rename") /\ cmd[s] \in EnvRecord
      /\ UNCHANGED <<files, tmp, systemVars, tc, boundVars, ackVars>>
      /\ Unacked(s) /\ ~Sole(s)
      /\ cmd[s].op = "tier" => cmd[s].file = "env"
      /\ cmd[s].fd = "none"
  BY DEF EnvInv, RenameFails, Busy, At, EnvTypeOK, Rewriting, Rewrites, Intent
<1> DEFINE record == [cmd[s] EXCEPT !.pc = "remove"]
<1>1. /\ record \in EnvRecord /\ record.pc = "remove" /\ record.fd = "none"
      /\ record.op = cmd[s].op /\ record.want = cmd[s].want /\ record.file = cmd[s].file
  BY <1>0 DEF EnvRecord
<1>2. cmd' = [cmd EXCEPT ![s] = record]
  BY <1>0 DEF RenameFails, Goto, EnvTypeOK
<1> HIDE DEF record
<1>3. /\ cmd' \in [Subs -> EnvRecord] /\ cmd'[s] = record
      /\ \A r \in Subs \ {s} : cmd'[r] = cmd[r]
  BY <1>0, <1>1, <1>2 DEF EnvTypeOK
<1>4. EnvTypeOK'
  BY <1>0, <1>1, <1>3 DEF EnvTypeOK, systemVars, boundVars, ackVars, At
<1>5. Intent' /\ Exclusive'
  BY <1>0, <1>1, <1>3, CommandGoesOn DEF ackVars, At
<1>6. Rewriting'
  <2>1. \A r \in Subs \ {s} : (Sole(r) => Rewrites(r))' /\ (Busy(r) => Unacked(r))'
    BY <1>0, <1>3, OthersKeep DEF ackVars
  <2>2. ~Sole(s)' /\ Unacked(s)'
    BY <1>0, <1>1, <1>3 DEF Sole, Unacked, Busy, At, ackVars
  <2> QED
    BY <2>1, <2>2 DEF Rewriting
<1>7. FilesWhole' /\ AckedStays' /\ FilesAgree'
  BY <1>0, NothingInstalled DEF boundVars, systemVars, ackVars
<1> QED
  BY <1>4, <1>5, <1>6, <1>7 DEF EnvInv

\* What is then removed may be another command's file.
LEMMA RemoveKeeps ==
  ASSUME EnvInv, NEW s \in Subs, Remove(s) PROVE EnvInv'
<1> DEFINE c == Moved(s, [tmp |-> "lost"])
<1>0. /\ EnvTypeOK /\ Busy(s) /\ GiveUp(s, c) /\ NoTmp(s) /\ ~Sole(s)
      /\ UNCHANGED <<files, loaded, started, tc, boundVars, overlap, spaced>>
  BY DEF EnvInv, Remove, Busy, At, Rewriting, Rewrites
<1>1. overlap # {}
  BY <1>0 DEF Sole
<1>2. /\ c \in [Subs -> EnvRecord]
      /\ \A r \in Subs :
           /\ c[r].pc = cmd[r].pc /\ c[r].op = cmd[r].op
           /\ c[r].file = cmd[r].file /\ c[r].want = cmd[r].want
           /\ (c[r].fd # "none" <=> cmd[r].fd # "none")
           /\ cmd[r].file # cmd[s].file => c[r] = cmd[r]
  <2>1. \A r \in Subs :
           /\ c[r] \in EnvRecord /\ c[r].pc = cmd[r].pc /\ c[r].op = cmd[r].op
           /\ c[r].file = cmd[r].file /\ c[r].want = cmd[r].want
           /\ (c[r].fd # "none" <=> cmd[r].fd # "none")
           /\ cmd[r].file # cmd[s].file => c[r] = cmd[r]
    BY <1>0, MovedIs
  <2>2. c = [r \in Subs |-> c[r]]
    BY DEF Moved
  <2> HIDE DEF c
  <2>3. c \in [Subs -> EnvRecord]
    BY <2>1, <2>2
  <2> QED
    BY <2>1, <2>3
<1> HIDE DEF c
<1>3. /\ cmd' \in [Subs -> EnvRecord] /\ ~Busy(s)' /\ cmd'[s].fd = "none"
      /\ \A r \in Subs \ {s} : cmd'[r] = c[r]
      /\ timers' \in [sleeping : Nat, reloaded : Nat]
      /\ acked' \in [Keys \cup {Tier} -> Values \cup {Unknown}]
      /\ cmd[s].op = "tier" => \A k \in Keys : acked'[k] = acked[k]
      /\ FilesWhole' /\ AckedStays' /\ FilesAgree'
  BY <1>0, <1>1, <1>2, GivesUp
<1>4. /\ DOMAIN tmp' = DOMAIN tmp \ {cmd[s].file}
      /\ \A f \in DOMAIN tmp' : tmp'[f] = tmp[f]
      /\ DOMAIN tmp' \subseteq FileNames /\ \A f \in DOMAIN tmp' : tmp'[f] \in Contents
  BY <1>0, NoTmpIs
<1>5. EnvTypeOK'
  <2>1. \A r \in Subs : cmd'[r].fd # "none" <=> At(r, "write")'
    BY <1>0, <1>2, <1>3 DEF EnvTypeOK, Busy, At
  <2> QED
    BY <1>0, <1>3, <1>4, <2>1 DEF EnvTypeOK, boundVars
<1>6. Intent' /\ Exclusive'
  BY <1>0, <1>2, <1>3, CommandGoesOn
<1>7. Rewriting'
  <2>1. \A r \in Subs \ {s} : (Sole(r) => Rewrites(r))' /\ (Busy(r) => Unacked(r))'
    BY <1>0, <1>2, <1>3, <1>4, OthersKeep
  <2> QED
    BY <1>3, <2>1 DEF Rewriting, Sole, Busy, At
<1> QED
  BY <1>3, <1>5, <1>6, <1>7 DEF EnvInv

\* The rewritten file is installed: update_config goes on from the unit to the env file
\* and then replies, set_tier goes on with the script.
LEMMA RenameKeeps ==
  ASSUME EnvInv, NEW s \in Subs, Rename(s) PROVE EnvInv'
<1> DEFINE file == cmd[s].file
           want == cmd[s].want
           c == Moved(s, [tmp |-> "installed", installed |-> "lost"])
           next == IF cmd[s].op = "tier" THEN "script" ELSE "read"
           record == [cmd[s] EXCEPT !.pc = next, !.file = "env"]
<1>0. /\ EnvTypeOK /\ Intent /\ Busy(s) /\ At(s, "rename") /\ cmd[s] \in EnvRecord
      /\ UNCHANGED <<loaded, started, tc, boundVars, overlap, spaced>>
      /\ Unacked(s) /\ (Sole(s) => Rewrites(s)) /\ NoTmp(s)
      /\ file \in DOMAIN tmp /\ files' = [files EXCEPT ![file] = tmp[file]]
      /\ \/ cmd[s].op = "config" /\ DOMAIN want \subseteq Keys
         \/ cmd[s].op = "tier" /\ DOMAIN want = {Tier} /\ file = "env"
      /\ file \in FileNames /\ cmd[s].fd = "none"
  BY DEF EnvInv, Rename, Busy, At, EnvTypeOK, EnvRecord, Rewriting, Intent
<1>1. /\ c \in [Subs -> EnvRecord] /\ c[s] = cmd[s]
      /\ \A r \in Subs :
           /\ c[r].pc = cmd[r].pc /\ c[r].op = cmd[r].op
           /\ c[r].file = cmd[r].file /\ c[r].want = cmd[r].want
           /\ (c[r].fd # "none" <=> cmd[r].fd # "none")
           /\ cmd[r].file # file => c[r] = cmd[r]
  <2>1. \A r \in Subs :
           /\ c[r] \in EnvRecord /\ c[r].pc = cmd[r].pc /\ c[r].op = cmd[r].op
           /\ c[r].file = cmd[r].file /\ c[r].want = cmd[r].want
           /\ (c[r].fd # "none" <=> cmd[r].fd # "none")
           /\ cmd[r].file # file => c[r] = cmd[r]
           /\ r = s => c[r] = cmd[r]
    BY <1>0, MovedIs
  <2>2. c = [r \in Subs |-> c[r]]
    BY DEF Moved
  <2> HIDE DEF c
  <2>3. c \in [Subs -> EnvRecord]
    BY <2>1, <2>2
  <2> QED
    BY <2>1, <2>3
<1>2. IF cmd[s].op = "config" /\ file = "env"
        THEN Reply(s, c, "ok")
        ELSE cmd' = [c EXCEPT ![s] = record] /\ UNCHANGED <<timers, acked>>
  <2>1. IF cmd[s].op = "config" /\ file = "env"
          THEN Reply(s, c, "ok")
          ELSE /\ cmd' = [c EXCEPT ![s].pc = next, ![s].file = "env"]
               /\ UNCHANGED <<timers, acked>>
    BY DEF Rename
  <2>2. c \in [Subs -> EnvRecord] /\ c[s] = cmd[s]
    BY <1>1
  <2> HIDE DEF c, next
  <2> QED
    BY <2>1, <2>2
<1>3. /\ DOMAIN tmp' = DOMAIN tmp \ {file}
      /\ \A f \in DOMAIN tmp' : tmp'[f] = tmp[f]
      /\ DOMAIN tmp' \subseteq FileNames /\ \A f \in DOMAIN tmp' : tmp'[f] \in Contents
  BY <1>0, NoTmpIs
<1>4. /\ files' \in [FileNames -> Contents] /\ files'[file] = tmp[file]
      /\ \A f \in FileNames \ {file} : files'[f] = files[f]
  BY <1>0 DEF EnvTypeOK
<1>5. Sole(s) => LET old == files[file]
                 IN  /\ cmd[s].op = "config" => DOMAIN files'[file] = DOMAIN old
                     /\ cmd[s].op = "tier" => DOMAIN files'[file] = DOMAIN old \cup {Tier}
                     /\ \A k \in DOMAIN old \ DOMAIN want : files'[file][k] = old[k]
                     /\ \A k \in DOMAIN files'[file] \cap DOMAIN want :
                          files'[file][k] = want[k]
  <2>1. Sole(s) => files'[file] = Edited(s)
    BY <1>0, <1>4 DEF Rewrites, At
  <2> QED
    BY <1>0, <2>1, EditedIs
<1>6. /\ (file = "service" /\ "service" \notin overlap) => Sole(s)
      /\ overlap = {} => Sole(s)
  BY <1>0 DEF Sole
<1> HIDE DEF c
<1>7. FilesWhole'
  <2>1. "service" \notin overlap => DOMAIN files'["service"] = Keys
    BY <1>0, <1>4, <1>5, <1>6 DEF EnvInv, FilesWhole, FileNames
  <2>2. overlap = {} => DOMAIN files'["env"] \in {Mapped, Mapped \cup {Tier}}
    BY <1>0, <1>4, <1>5, <1>6 DEF EnvInv, FilesWhole, FileNames
  <2> QED
    BY <1>0, <2>1, <2>2 DEF EnvInv, FilesWhole
<1>8. CASE cmd[s].op = "config" /\ file = "env"
  <2>1. /\ cmd' \in [Subs -> EnvRecord] /\ ~Busy(s)' /\ cmd'[s].fd = "none"
        /\ \A r \in Subs \ {s} : cmd'[r] = c[r]
        /\ timers' \in [sleeping : Nat, reloaded : Nat]
        /\ acked' \in [Keys \cup {Tier} -> Values \cup {Unknown}]
        /\ \A k \in Keys \cup {Tier} :
             acked'[k] = IF k \in DOMAIN want THEN want[k] ELSE acked[k]
    <3>1. Reply(s, c, "ok")
      BY <1>2, <1>8
    <3> QED
      BY <1>1, <3>1, ReplyIs
  <2>2. EnvTypeOK'
    <3>1. \A r \in Subs : cmd'[r].fd # "none" <=> At(r, "write")'
      BY <1>0, <1>1, <2>1 DEF EnvTypeOK, Busy, At
    <3> QED
      BY <1>0, <1>3, <1>4, <2>1, <3>1 DEF EnvTypeOK, boundVars
  <2>3. Intent' /\ Exclusive'
    BY <1>0, <1>1, <2>1, CommandGoesOn
  <2>4. files'["service"] = files["service"]
    BY <1>4, <1>8 DEF FileNames
  <2>5. Rewriting'
    <3>1. \A r \in Subs \ {s} : (Sole(r) => Rewrites(r))' /\ (Busy(r) => Unacked(r))'
      BY <1>0, <1>1, <1>3, <1>8, <2>1, <2>4, OthersKeep
    <3> QED
      BY <2>1, <3>1 DEF Rewriting, Sole, Busy, At
  <2>6. DOMAIN want \subseteq Keys /\ Tier \notin DOMAIN want
    BY <1>0, <1>8, EnvAssumption
  <2>7. "service" \notin overlap => \A k \in DOMAIN want : files["service"][k] = want[k]
    BY <1>0, <1>8 DEF Unacked
  <2>8. AckedStays'
    <3>1. "service" \notin overlap =>
            \A k \in Keys : acked'[k] \in {Unknown, files'["service"][k]}
      BY <2>1, <2>4, <2>7 DEF EnvInv, AckedStays
    <3>2. (overlap = {} /\ acked'[Tier] # Unknown) =>
            /\ Tier \in DOMAIN files'["env"] /\ files'["env"][Tier] = acked'[Tier]
            /\ tc = acked'[Tier]
      BY <1>5, <1>6, <1>8, <2>1, <2>6 DEF EnvInv, AckedStays
    <3> QED
      BY <1>0, <3>1, <3>2 DEF AckedStays
  <2>9. FilesAgree'
    <3>1. SUFFICES ASSUME overlap = {}, faults = 0, NEW k \in Mapped, acked'[k] # Unknown
                   PROVE  files'["env"][k] = files'["service"][k]
      BY <1>0 DEF FilesAgree, boundVars
    <3>2. k \in Keys /\ k \in DOMAIN files["env"]
      BY <3>1, EnvAssumption DEF EnvInv, FilesWhole
    <3>3. CASE k \in DOMAIN want
      BY <1>5, <1>6, <1>8, <2>4, <2>7, <3>1, <3>2, <3>3
    <3>4. CASE k \notin DOMAIN want
      BY <1>5, <1>6, <1>8, <2>1, <2>4, <3>1, <3>2, <3>4 DEF EnvInv, FilesAgree
    <3> QED
      BY <3>3, <3>4
  <2> QED
    BY <1>7, <2>2, <2>3, <2>5, <2>8, <2>9 DEF EnvInv
<1>9. CASE ~(cmd[s].op = "config" /\ file = "env")
  <2>1. cmd' = [c EXCEPT ![s] = record] /\ UNCHANGED <<timers, acked>>
    BY <1>2, <1>9
  <2>2. /\ record \in EnvRecord /\ record.pc = next /\ record.file = "env"
        /\ record.op = cmd[s].op /\ record.want = want /\ record.fd = "none"
    BY <1>0 DEF EnvRecord, FileNames
  <2>3. /\ next \in {"read", "script"}
        /\ next = "script" => cmd[s].op = "tier"
        /\ cmd[s].op = "config" => file = "service"
    BY <1>0, <1>9 DEF FileNames
  <2> HIDE DEF record, next
  <2>4. /\ cmd' \in [Subs -> EnvRecord] /\ cmd'[s] = record
        /\ \A r \in Subs \ {s} : cmd'[r] = c[r]
    BY <1>1, <2>1, <2>2
  <2>5. EnvTypeOK'
    <3>1. \A r \in Subs : cmd'[r].fd # "none" <=> At(r, "write")'
      BY <1>0, <1>1, <2>2, <2>3, <2>4 DEF EnvTypeOK, At
    <3> QED
      BY <1>0, <1>3, <1>4, <2>1, <2>4, <3>1 DEF EnvTypeOK, boundVars
  <2>6. Intent' /\ Exclusive'
    BY <1>0, <1>1, <2>2, <2>3, <2>4, CommandGoesOn DEF At
  <2>7. Rewriting'
    <3>1. file = "env" => files'["service"] = files["service"]
      BY <1>4 DEF FileNames
    <3>2. \A r \in Subs \ {s} : (Sole(r) => Rewrites(r))' /\ (Busy(r) => Unacked(r))'
      BY <1>0, <1>1, <1>3, <2>1, <2>4, <3>1, OthersKeep
    <3>3. Rewrites(s)'
      BY <2>2, <2>3, <2>4 DEF Rewrites, At
    <3>4. (cmd[s].op = "config" /\ "service" \notin overlap) =>
            \A k \in DOMAIN want : acked[k] = Unknown /\ files'["service"][k] = want[k]
      <4>1. SUFFICES ASSUME cmd[s].op = "config", "service" \notin overlap,
                            NEW k \in DOMAIN want
                     PROVE  acked[k] = Unknown /\ files'["service"][k] = want[k]
        OBVIOUS
      <4>2. k \in DOMAIN files["service"] /\ file = "service" /\ Sole(s)
        BY <1>0, <1>6, <2>3, <4>1 DEF EnvInv, FilesWhole
      <4> QED
        BY <1>0, <1>5, <4>1, <4>2 DEF Unacked
    <3>5. (cmd[s].op = "tier" /\ overlap = {}) =>
            /\ acked[Tier] = Unknown
            /\ Tier \in DOMAIN files'["env"] /\ files'["env"][Tier] = want[Tier]
      BY <1>0, <1>5, <1>6 DEF Unacked
    <3>6. Unacked(s)'
      BY <1>0, <2>1, <2>2, <2>4, <3>4, <3>5 DEF Unacked
    <3> QED
      BY <3>2, <3>3, <3>6 DEF Rewriting
  <2>8. \A f \in FileNames \ {file} : files'[f] = files[f]
    BY <1>4
  <2>9. AckedStays'
    <3>1. "service" \notin overlap =>
            \A k \in Keys : acked[k] \in {Unknown, files'["service"][k]}
      <4>1. CASE file = "env"
        BY <2>8, <4>1 DEF EnvInv, AckedStays, FileNames
      <4>2. CASE file = "service"
        BY <1>0, <1>5, <1>6, <4>2 DEF EnvInv, AckedStays, FilesWhole, Unacked
      <4> QED
        BY <1>0, <4>1, <4>2 DEF FileNames
    <3>2. (overlap = {} /\ acked[Tier] # Unknown) =>
            /\ Tier \in DOMAIN files'["env"] /\ files'["env"][Tier] = acked[Tier]
            /\ tc = acked[Tier]
      BY <1>0, <2>3, <2>8 DEF EnvInv, AckedStays, Unacked, FileNames
    <3> QED
      BY <1>0, <2>1, <3>1, <3>2 DEF AckedStays
  <2>10. FilesAgree'
    <3>1. SUFFICES ASSUME overlap = {}, faults = 0, NEW k \in Mapped, acked[k] # Unknown
                   PROVE  files'["env"][k] = files'["service"][k]
      BY <1>0, <2>1 DEF FilesAgree, boundVars
    <3>2. /\ k \in Keys /\ k # Tier /\ k \in DOMAIN files["env"]
          /\ k \in DOMAIN files["service"] /\ files["env"][k] = files["service"][k]
      BY <3>1, EnvAssumption DEF EnvInv, FilesWhole, FilesAgree
    <3>3. k \notin DOMAIN want
      BY <1>0, <3>1, <3>2 DEF Unacked
    <3> QED
      BY <1>0, <1>5, <1>6, <2>8, <3>1, <3>2, <3>3 DEF FileNames
  <2> QED
    BY <1>7, <2>5, <2>6, <2>7, <2>9, <2>10 DEF EnvInv
<1> QED
  BY <1>8, <1>9

\* The script has run: the tc rules have the tier that the env file has.
LEMMA RunScriptKeeps ==
  ASSUME EnvInv, NEW s \in Subs, RunScript(s) PROVE EnvInv'
<1>0. /\ EnvTypeOK /\ Busy(s) /\ cmd \in [Subs -> EnvRecord] /\ Reply(s, cmd, "ok")
      /\ UNCHANGED <<files, tmp, loaded, started, boundVars, overlap, spaced>>
      /\ cmd[s].op = "tier" /\ DOMAIN cmd[s].want = {Tier} /\ tc' = cmd[s].want[Tier]
      /\ overlap = {} => Tier \in DOMAIN files["env"] /\ files["env"][Tier] = tc'
  BY DEF EnvInv, RunScript, Busy, At, EnvTypeOK, Intent, Rewriting, Unacked
<1>1. /\ cmd' \in [Subs -> EnvRecord] /\ ~Busy(s)' /\ cmd'[s].fd = "none"
      /\ \A r \in Subs \ {s} : cmd'[r] = cmd[r]
      /\ timers' \in [sleeping : Nat, reloaded : Nat]
      /\ acked' \in [Keys \cup {Tier} -> Values \cup {Unknown}]
      /\ \A k \in Keys \cup {Tier} :
           acked'[k] = IF k \in DOMAIN cmd[s].want THEN cmd[s].want[k] ELSE acked[k]
  BY <1>0, ReplyIs
<1>2. \A k \in Keys : acked'[k] = acked[k]
  BY <1>0, <1>1, EnvAssumption
<1>3. EnvTypeOK'
  <2>1. cmd[s].want \in Contents
    BY <1>0 DEF EnvRecord
  <2>2. cmd[s].want \in [DOMAIN cmd[s].want -> Values]
    BY <2>1, ContentsAre
  <2>3. tc' \in Values
    BY <1>0, <2>2
  <2> QED
    BY <1>0, <1>1, <2>3 DEF EnvTypeOK, boundVars, Busy, At
<1>4. Intent' /\ Exclusive'
  BY <1>0, <1>1, CommandGoesOn
<1>5. Rewriting'
  BY <1>0, <1>1, <1>2, OthersKeep DEF Rewriting, Sole, Busy, At
<1>6. FilesWhole'
  BY <1>0 DEF EnvInv, FilesWhole
<1>7. AckedStays'
  <2>1. acked'[Tier] = tc'
    BY <1>0, <1>1
  <2> QED
    BY <1>0, <1>2, <2>1 DEF EnvInv, AckedStays
<1>8. FilesAgree'
  BY <1>0, <1>2, EnvAssumption DEF EnvInv, FilesAgree, boundVars
<1> QED
  BY <1>3, <1>4, <1>5, <1>6, <1>7, <1>8 DEF EnvInv

\* The script has failed, with or without an effect: the tier is not acknowledged.
LEMMA ScriptFailsKeeps ==
  ASSUME EnvInv, NEW s \in Subs, ScriptFails(s) PROVE EnvInv'
<1>0. /\ EnvTypeOK /\ Busy(s) /\ cmd \in [Subs -> EnvRecord] /\ Reply(s, cmd, "err")
      /\ UNCHANGED <<files, tmp, loaded, started, commands, crashes, overlap, spaced>>
      /\ cmd[s].op = "tier" /\ DOMAIN cmd[s].want = {Tier}
      /\ tc' \in {tc, cmd[s].want[Tier]}
      /\ overlap = {} => acked[Tier] = Unknown
  BY DEF EnvInv, ScriptFails, Busy, At, EnvTypeOK, Intent, Rewriting, Unacked
<1>1. /\ cmd' \in [Subs -> EnvRecord] /\ ~Busy(s)' /\ cmd'[s].fd = "none"
      /\ \A r \in Subs \ {s} : cmd'[r] = cmd[r]
      /\ timers' \in [sleeping : Nat, reloaded : Nat] /\ acked' = acked
  BY <1>0, ReplyIs
<1>2. faults' \in 0..MaxFault /\ faults' # 0
  <2>1. faults \in 0..MaxFault /\ MaxFault \in Nat /\ faults < MaxFault /\ faults' = faults + 1
    BY <1>0, DispatchAssumption DEF EnvTypeOK, ScriptFails, Fault
  <2> QED
    BY <2>1
<1>3. EnvTypeOK'
  <2>1. cmd[s].want \in Contents
    BY <1>0 DEF EnvRecord
  <2>2. cmd[s].want \in [DOMAIN cmd[s].want -> Values]
    BY <2>1, ContentsAre
  <2>3. tc' \in Values
    BY <1>0, <2>2 DEF EnvTypeOK
  <2> QED
    BY <1>0, <1>1, <1>2, <2>3 DEF EnvTypeOK, Busy, At
<1>4. Intent' /\ Exclusive'
  BY <1>0, <1>1, CommandGoesOn
<1>5. Rewriting'
  BY <1>0, <1>1, OthersKeep DEF Rewriting, Sole, Busy, At
<1>6. FilesWhole' /\ AckedStays' /\ FilesAgree'
  BY <1>0, <1>1, <1>2 DEF EnvInv, FilesWhole, AckedStays, FilesAgree
<1> QED
  BY <1>3, <1>4, <1>5, <1>6 DEF EnvInv

-----------------------------------------------------------------------------
(* AgentEnv: commands begin, the unit is reloaded, the agent stops. *)

\* What a command begins with: the history has the overlap, and its keys have no
\* acknowledged value any more.
LEMMA BeginEnvKeeps ==
  ASSUME EnvInv, NEW s \in Subs, NEW op \in {"config", "tier"}, NEW file \in FileNames,
         NEW want \in Contents, BeginEnv(s, op, file, want),
         \/ op = "config" /\ DOMAIN want \subseteq Keys /\ file = "service"
         \/ op = "tier" /\ DOMAIN want = {Tier} /\ file = "env"
  PROVE  EnvInv'
<1> DEFINE record == [NoCommand("none") EXCEPT !.pc = "read", !.op = op, !.file = file,
                                               !.want = want]
<1>1. /\ record \in EnvRecord /\ record.pc = "read" /\ record.op = op
      /\ record.file = file /\ record.want = want /\ record.fd = "none"
  BY EmptyIsContents DEF NoCommand, EnvRecord
<1>2. Dispatch(s, record)
  BY DEF BeginEnv
<1> HIDE DEF record
<1>3. /\ cmd' = [cmd EXCEPT ![s] = record] /\ ~Busy(s)
      /\ commands < MaxCommand /\ commands' = commands + 1
  BY <1>2 DEF Dispatch
<1>4. /\ cmd' \in [Subs -> EnvRecord] /\ cmd'[s] = record
      /\ \A r \in Subs \ {s} : cmd'[r] = cmd[r]
      /\ EnvTypeOK
  BY <1>1, <1>3 DEF EnvInv, EnvTypeOK
<1>5. /\ overlap' = overlap \cup Shared(op)
      /\ UNCHANGED <<files, tmp, systemVars, tc, faults, crashes>>
      /\ spaced' \in BOOLEAN
  BY Zenon DEF BeginEnv
<1>6. /\ acked' \in [Keys \cup {Tier} -> Values \cup {Unknown}]
      /\ \A k \in Keys \cup {Tier} :
           acked'[k] = IF k \in DOMAIN want THEN Unknown ELSE acked[k]
  <2>1. acked' = Over([k \in DOMAIN want |-> Unknown], acked)
    BY DEF BeginEnv
  <2>2. DOMAIN want \subseteq Keys \cup {Tier}
    BY ContentsAre
  <2> QED
    BY <1>4, <2>1, <2>2 DEF EnvTypeOK, Over
<1>7. /\ overlap' = {} => overlap = {} /\ \A r \in Subs : ~Busy(r)
      /\ "service" \notin overlap' =>
           /\ "service" \notin overlap
           /\ op = "config" => \A r \in Subs : ~(Busy(r) /\ cmd[r].op = "config")
      /\ overlap' \subseteq FileNames
  BY <1>4, <1>5 DEF Shared, EnvTypeOK, FileNames
<1>8. EnvTypeOK'
  <2>1. commands' \in 0..MaxCommand
    <3>1. commands \in 0..MaxCommand /\ MaxCommand \in Nat
      BY <1>4, DispatchAssumption DEF EnvTypeOK
    <3> QED
      BY <1>3, <3>1
  <2> QED
    BY <1>1, <1>4, <1>5, <1>6, <1>7, <2>1 DEF EnvTypeOK, systemVars, At
<1>9. Intent'
  BY <1>1, <1>4 DEF EnvInv, Intent, Busy, At
<1>10. Exclusive'
  <2>1. SUFFICES ASSUME NEW q \in Subs, NEW r \in Subs, Busy(q)', Busy(r)', q # r
                 PROVE  /\ overlap' # {}
                        /\ (cmd'[q].op = "config" /\ cmd'[r].op = "config") =>
                             "service" \in overlap'
    BY DEF Exclusive
  <2>2. CASE q # s /\ r # s
    BY <1>4, <1>7, <2>1, <2>2 DEF EnvInv, Exclusive, Busy, At
  <2>3. CASE q = s
    BY <1>1, <1>4, <1>7, <2>1, <2>3 DEF Busy, At
  <2>4. CASE r = s
    BY <1>1, <1>4, <1>7, <2>1, <2>4 DEF Busy, At
  <2> QED
    BY <2>2, <2>3, <2>4
<1>11. Rewriting'
  <2>1. Rewrites(s)' /\ Unacked(s)'
    BY <1>1, <1>4, <1>5, <1>6, EnvAssumption DEF Rewrites, Unacked, At
  <2>2. ASSUME NEW r \in Subs \ {s}, Sole(r)' PROVE Rewrites(r)'
    <3>1. Sole(r) /\ cmd'[r] = cmd[r]
      BY <1>4, <1>7, <2>2 DEF Sole, Busy, At
    <3>2. Edited(r)' = Edited(r)
      BY <1>5, <3>1 DEF Edited
    <3> QED
      BY <1>5, <3>1, <3>2 DEF EnvInv, Rewriting, Rewrites, At
  <2>3. ASSUME NEW r \in Subs \ {s}, Busy(r)' PROVE Unacked(r)'
    <3>1. Busy(r) /\ cmd'[r] = cmd[r] /\ Unacked(r)
      BY <1>4, <2>3 DEF EnvInv, Rewriting, Busy, At
    <3>2. overlap' # {}
      BY <1>7, <3>1
    <3>3. cmd[r].op = "config" => DOMAIN cmd[r].want \subseteq Keys
      BY <3>1 DEF EnvInv, Intent
    <3> QED
      BY <1>5, <1>6, <1>7, <3>1, <3>2, <3>3 DEF Unacked
  <2> QED
    BY <2>1, <2>2, <2>3 DEF Rewriting
<1>12. FilesWhole' /\ AckedStays' /\ FilesAgree'
  BY <1>5, <1>6, <1>7, EnvAssumption
  DEF EnvInv, FilesWhole, AckedStays, FilesAgree, systemVars
<1> QED
  BY <1>8, <1>9, <1>10, <1>11, <1>12 DEF EnvInv

\* update_config begins with the unit.
LEMMA UpdateConfigKeeps ==
  ASSUME EnvInv, NEW s \in Subs, NEW want \in Requests, UpdateConfig(s, want)
  PROVE  EnvInv'
<1>1. PICK ks \in SUBSET Keys : want \in [ks -> Values]
  BY EnvAssumption
<1>2. want \in Contents /\ DOMAIN want \subseteq Keys
  BY <1>1, AreContents
<1> QED
  BY <1>2, BeginEnvKeeps DEF UpdateConfig, FileNames

\* set_tier begins with the env file.
LEMMA SetTierKeeps ==
  ASSUME EnvInv, NEW s \in Subs, NEW value \in Values, SetTier(s, value)
  PROVE  EnvInv'
<1> DEFINE want == [k \in {Tier} |-> value]
<1>1. want \in [{Tier} -> Values] /\ DOMAIN want = {Tier}
  OBVIOUS
<1>2. want \in Contents
  BY <1>1, AreContents
<1>3. BeginEnv(s, "tier", "env", want)
  BY DEF SetTier
<1> HIDE DEF want
<1> QED
  BY <1>1, <1>2, <1>3, BeginEnvKeeps DEF FileNames

\* The steps that end every command, or none, and install and acknowledge nothing.
LEMMA AgentKeeps ==
  ASSUME EnvInv,
         UNCHANGED <<files, tmp, tc, ackVars>>,
         cmd' = cmd \/ cmd' = [s \in Subs |-> IF Busy(s) THEN NoCommand("killed") ELSE cmd[s]],
         timers' \in [sleeping : Nat, reloaded : Nat],
         {loaded', started'} \subseteq {files.service, loaded, started},
         commands' = commands, faults' \in 0..MaxFault, crashes' \in 0..MaxCrash,
         faults' = 0 => faults = 0
  PROVE  EnvInv'
<1>0. EnvTypeOK
  BY DEF EnvInv
<1>1. /\ cmd' \in [Subs -> EnvRecord]
      /\ \A s \in Subs : /\ Busy(s)' => Busy(s) /\ cmd'[s] = cmd[s]
                         /\ cmd'[s].fd # "none" <=> At(s, "write")'
  <2>1. CASE cmd' = cmd
    BY <1>0, <2>1 DEF EnvTypeOK, Busy, At
  <2>2. CASE cmd' = [s \in Subs |-> IF Busy(s) THEN NoCommand("killed") ELSE cmd[s]]
    <3>1. /\ NoCommand("killed") \in EnvRecord /\ NoCommand("killed").pc = "idle"
          /\ NoCommand("killed").fd = "none"
      BY EmptyIsContents DEF NoCommand, EnvRecord, FileNames
    <3> QED
      BY <1>0, <2>2, <3>1 DEF EnvTypeOK, Busy, At
  <2> QED
    BY <2>1, <2>2
<1>2. EnvTypeOK'
  BY <1>0, <1>1 DEF EnvTypeOK, ackVars, FileNames
<1>3. Intent' /\ Exclusive'
  BY <1>1 DEF EnvInv, Intent, Exclusive, ackVars, At
<1>4. Rewriting'
  <2>1. SUFFICES ASSUME NEW s \in Subs, Busy(s)'
                 PROVE  (Sole(s)' => Rewrites(s)') /\ Unacked(s)'
    BY DEF Rewriting, Sole
  <2>2. /\ Busy(s) /\ cmd'[s] = cmd[s] /\ (Sole(s) => Rewrites(s)) /\ Unacked(s)
        /\ Sole(s)' => Sole(s)
    BY <1>1, <2>1 DEF EnvInv, Rewriting, Sole, ackVars
  <2>3. Edited(s)' = Edited(s)
    BY <2>2 DEF Edited
  <2> QED
    BY <2>2, <2>3 DEF Rewrites, Unacked, At, ackVars
<1>5. FilesWhole' /\ AckedStays' /\ FilesAgree'
  BY NothingInstalled DEF ackVars
<1> QED
  BY <1>2, <1>3, <1>4, <1>5 DEF EnvInv

\* systemd reads the unit, or daemon-reload fails.
LEMMA ReloadKeeps == ASSUME EnvInv, Reload PROVE EnvInv'
<1>1. /\ timers \in [sleeping : Nat, reloaded : Nat] /\ faults \in 0..MaxFault
      /\ crashes \in 0..MaxCrash /\ MaxFault \in Nat
  BY DispatchAssumption DEF EnvInv, EnvTypeOK
<1>2. timers' \in [sleeping : Nat, reloaded : Nat]
  BY <1>1 DEF Reload
<1>3. faults' \in 0..MaxFault /\ (faults' = 0 => faults = 0)
  BY <1>1 DEF Reload, Fault
<1>4. loaded' \in {files.service, loaded} /\ started' = started
  BY DEF Reload
<1> QED
  BY <1>1, <1>2, <1>3, <1>4, AgentKeeps DEF Reload

\* The agent is restarted with the unit that systemd knows, or systemctl fails.
LEMMA RestartAgentKeeps == ASSUME EnvInv, RestartAgent PROVE EnvInv'
<1>1. /\ timers \in [sleeping : Nat, reloaded : Nat] /\ faults \in 0..MaxFault
      /\ crashes \in 0..MaxCrash /\ MaxFault \in Nat
  BY DispatchAssumption DEF EnvInv, EnvTypeOK
<1>2. timers' \in [sleeping : Nat, reloaded : Nat]
  BY <1>1 DEF RestartAgent, Stopped
<1>3. faults' \in 0..MaxFault /\ (faults' = 0 => faults = 0)
  BY <1>1 DEF RestartAgent, Fault
<1>4. loaded' = loaded /\ started' \in {loaded, started}
  BY DEF RestartAgent
<1>5. cmd' = cmd \/ cmd' = [s \in Subs |-> IF Busy(s) THEN NoCommand("killed") ELSE cmd[s]]
  BY DEF RestartAgent, Stopped
<1> QED
  BY <1>1, <1>2, <1>3, <1>4, <1>5, AgentKeeps DEF RestartAgent

\* The agent stops, or the node does.
LEMMA CrashKeeps == ASSUME EnvInv, Crash PROVE EnvInv'
<1>1. /\ crashes \in 0..MaxCrash /\ faults \in 0..MaxFault /\ MaxCrash \in Nat
  BY DispatchAssumption DEF EnvInv, EnvTypeOK
<1>2. timers' \in [sleeping : Nat, reloaded : Nat]
  BY DEF Crash, Stopped
<1>3. crashes' \in 0..MaxCrash
  BY <1>1 DEF Crash
<1>4. {loaded', started'} \subseteq {files.service, loaded, started}
  BY DEF Crash
<1>5. cmd' = [s \in Subs |-> IF Busy(s) THEN NoCommand("killed") ELSE cmd[s]]
  BY DEF Crash, Stopped
<1> QED
  BY <1>1, <1>2, <1>3, <1>4, <1>5, AgentKeeps DEF Crash

-----------------------------------------------------------------------------
(* The theorems of AgentEnv. *)

\* Every step keeps the invariant.
LEMMA EnvKeeps == EnvInv /\ [EnvNext]_envVars => EnvInv'
<1> SUFFICES ASSUME EnvInv, [EnvNext]_envVars PROVE EnvInv'
  OBVIOUS
<1>1. ASSUME NEW s \in Subs, EnvStep(s) PROVE EnvInv'
  BY <1>1, ReadFileKeeps, OpenTmpKeeps, WriteTmpKeeps, FileFailsKeeps, RenameKeeps,
     RenameFailsKeeps, RemoveKeeps, RunScriptKeeps, ScriptFailsKeeps DEF EnvStep
<1>2. CASE UNCHANGED envVars
  <2>1. /\ timers \in [sleeping : Nat, reloaded : Nat] /\ faults \in 0..MaxFault
        /\ crashes \in 0..MaxCrash
    BY DEF EnvInv, EnvTypeOK
  <2> QED
    BY <1>2, <2>1, AgentKeeps DEF envVars, systemVars, boundVars
<1> QED
  BY <1>1, <1>2, UpdateConfigKeeps, SetTierKeeps, ReloadKeeps, RestartAgentKeeps, CrashKeeps
  DEF EnvNext

\* The invariant holds of every state that the commands, failures and crashes reach.
THEOREM EnvInvariant == EnvSpec => []EnvInv
BY EnvStarts, EnvKeeps, PTL DEF EnvSpec

\* The variables have their types: whatever overlaps, each file is a function from known
\* keys to values (update_config.go, set_tier.go).
THEOREM EnvTypes == EnvSpec => []EnvTypeOK
<1>1. EnvInv => EnvTypeOK
  BY DEF EnvInv
<1> QED
  BY <1>1, EnvInvariant, PTL

\* No key is lost or added as long as no two commands rewrite the file at a time
\* (update_config.go:94, set_tier.go:67).
THEOREM FilesStayWhole == EnvSpec => []FilesWhole
<1>1. EnvInv => FilesWhole
  BY DEF EnvInv
<1> QED
  BY <1>1, EnvInvariant, PTL

\* What was acknowledged stays in the files, and in the tc rules.
THEOREM AckedRemains == EnvSpec => []AckedStays
<1>1. EnvInv => AckedStays
  BY DEF EnvInv
<1> QED
  BY <1>1, EnvInvariant, PTL

\* The two files agree on what was acknowledged, without overlaps and failures
\* (update_config.go:140).
THEOREM FilesStayEqual == EnvSpec => []FilesAgree
<1>1. EnvInv => FilesAgree
  BY DEF EnvInv
<1> QED
  BY <1>1, EnvInvariant, PTL
-----------------------------------------------------------------------------
(* AgentEnv: the agent runs with the unit on disk, or will be restarted.    *)

\* No two update_config overlap, none begins before the restart of an earlier one,
\* systemctl and the files do not fail, and nothing else stops the agent.
Calm == "service" \notin overlap /\ spaced /\ faults = 0 /\ crashes = 0

\* s runs update_config, and has installed the unit.
Configures(s) == Busy(s) /\ cmd[s].op = "config"
Unfinished(s) == Configures(s) /\ cmd[s].file = "env"

\* The safety half of ConfigTakesEffect (update_config.go:75-93): a unit that is not the
\* one the agent was started with has a restart before it, or a command that will ask
\* for one.
EffectIsDue ==
  Calm => started = files.service \/ Pending \/ \E s \in Subs : Unfinished(s)

\* There is one restart at a time, no unit is rewritten before it, and systemd has read
\* the unit when it comes.
OneRestart ==
  Calm => /\ timers.sleeping + timers.reloaded <= 1
          /\ Pending => \A s \in Subs : ~Configures(s)
          /\ timers.reloaded > 0 => loaded = files.service

DueInv == EnvInv /\ OneRestart /\ EffectIsDue

\* Nothing is due at the start.
LEMMA DueStarts == EnvInit => OneRestart /\ EffectIsDue
<1> SUFFICES ASSUME EnvInit PROVE OneRestart /\ EffectIsDue
  OBVIOUS
<1>1. timers.sleeping = 0 /\ timers.reloaded = 0 /\ started = files.service
  BY DEF EnvInit
<1> QED
  BY <1>1 DEF OneRestart, EffectIsDue, Pending

\* A step that sees nothing of this: the installed unit, systemd's and the agent's stay,
\* no update_config begins, and none that has installed the unit ends.
LEMMA QuietKeeps ==
  ASSUME OneRestart, EffectIsDue, Calm' => Calm, UNCHANGED <<timers, loaded, started>>,
         Calm' => /\ files'["service"] = files["service"]
                  /\ \A s \in Subs : (Configures(s)' => Configures(s))
                                       /\ (Unfinished(s) => Unfinished(s)')
  PROVE  OneRestart' /\ EffectIsDue'
<1> SUFFICES ASSUME Calm' PROVE OneRestart' /\ EffectIsDue'
  BY DEF OneRestart, EffectIsDue
<1>1. /\ timers.sleeping + timers.reloaded <= 1
      /\ Pending => \A s \in Subs : ~Configures(s)
      /\ timers.reloaded > 0 => loaded = files.service
      /\ started = files.service \/ Pending \/ \E s \in Subs : Unfinished(s)
  BY DEF OneRestart, EffectIsDue
<1>2. Pending' = Pending
  BY DEF Pending
<1>3. OneRestart'
  BY <1>1, <1>2 DEF OneRestart
<1>4. EffectIsDue'
  BY <1>1, <1>2 DEF EffectIsDue
<1> QED
  BY <1>3, <1>4

\* A step of a rewrite, or of set_tier's script, that is neither the installation of the
\* unit nor the reply of an update_config that has installed it.
LEMMA RewriteIsQuiet ==
  ASSUME DueInv, NEW s \in Subs, Busy(s),
         UNCHANGED <<timers, loaded, started, crashes, overlap, spaced>>,
         faults' = 0 => faults = 0,
         Calm' => files'["service"] = files["service"],
         \A r \in Subs \ {s} : cmd'[r].pc = cmd[r].pc /\ cmd'[r].op = cmd[r].op
                                 /\ cmd'[r].file = cmd[r].file,
         \/ ~Busy(s)' /\ (Calm' => ~Unfinished(s))
         \/ Busy(s)' /\ cmd'[s].op = cmd[s].op
              /\ (cmd[s].op = "config" => cmd'[s].file = cmd[s].file)
  PROVE  OneRestart' /\ EffectIsDue'
<1>1. Calm' => Calm
  BY DEF Calm
<1>2. ASSUME Calm', NEW r \in Subs
      PROVE  (Configures(r)' => Configures(r)) /\ (Unfinished(r) => Unfinished(r)')
  BY <1>2 DEF Configures, Unfinished, Busy, At
<1> QED
  BY <1>1, <1>2, QuietKeeps DEF DueInv

\* update_config replies: the restart that its goroutine will do is the only one.
LEMMA RepliesDue ==
  ASSUME DueInv, NEW s \in Subs, Unfinished(s), UNCHANGED <<loaded, started, overlap>>,
         Calm' => Calm,
         timers' = [timers EXCEPT !.sleeping = timers.sleeping + 1],
         ~Busy(s)',
         \A r \in Subs \ {s} : cmd'[r].pc = cmd[r].pc /\ cmd'[r].op = cmd[r].op
  PROVE  OneRestart' /\ EffectIsDue'
<1> SUFFICES ASSUME Calm' PROVE OneRestart' /\ EffectIsDue'
  BY DEF OneRestart, EffectIsDue
<1>1. Calm /\ Configures(s)
  BY DEF Unfinished
<1>2. ~Pending /\ timers \in [sleeping : Nat, reloaded : Nat]
  BY <1>1 DEF DueInv, OneRestart, EnvInv, EnvTypeOK
<1>3. timers.sleeping = 0 /\ timers.reloaded = 0
  BY <1>2 DEF Pending
<1>4. timers'.sleeping = 1 /\ timers'.reloaded = 0
  BY <1>2, <1>3
<1>5. Pending'
  BY <1>4 DEF Pending
<1>6. \A r \in Subs : ~Configures(r)'
  <2>1. "service" \notin overlap
    BY <1>1 DEF Calm
  <2> QED
    BY <1>1, <2>1 DEF DueInv, EnvInv, Exclusive, Configures, Busy, At
<1>7. timers'.sleeping + timers'.reloaded <= 1 /\ ~(timers'.reloaded > 0)
  BY <1>4
<1> QED
  BY <1>5, <1>6, <1>7 DEF OneRestart, EffectIsDue
\* A step that fails, or that stops the agent, is not within the proviso.
LEMMA FaultEndsCalm ==
  ASSUME EnvInv, Fault \/ crashes' = crashes + 1 PROVE OneRestart' /\ EffectIsDue'
<1>1. faults \in Nat /\ crashes \in Nat
  BY DispatchAssumption DEF EnvInv, EnvTypeOK
<1>2. faults' = faults + 1 \/ crashes' = crashes + 1
  BY DEF Fault
<1>3. faults' # 0 \/ crashes' # 0
  BY <1>1, <1>2
<1> QED
  BY <1>3 DEF OneRestart, EffectIsDue, Calm

\* A command that does not end leaves the others, and goes on with its request.
LEMMA GoesOnQuietly ==
  ASSUME DueInv, NEW s \in Subs, Busy(s), NEW record,
         cmd' = [cmd EXCEPT ![s] = record], record.pc # "idle",
         record.op = cmd[s].op, cmd[s].op = "config" => record.file = cmd[s].file,
         UNCHANGED <<timers, loaded, started, faults, crashes, overlap, spaced>>,
         Calm' => files'["service"] = files["service"]
  PROVE  OneRestart' /\ EffectIsDue'
<1>1. cmd'[s] = record /\ \A r \in Subs \ {s} : cmd'[r] = cmd[r]
  BY DEF DueInv, EnvInv, EnvTypeOK
<1>2. Busy(s)'
  BY <1>1 DEF Busy, At
<1> QED
  BY <1>1, <1>2, RewriteIsQuiet

\* The file is read, or the request refused, which installs nothing.
LEMMA ReadFileDue ==
  ASSUME DueInv, NEW s \in Subs, ReadFile(s) PROVE OneRestart' /\ EffectIsDue'
<1>0. /\ Busy(s) /\ cmd[s] \in EnvRecord /\ cmd \in [Subs -> EnvRecord] /\ EnvInv
      /\ UNCHANGED <<files, loaded, started, faults, crashes, overlap, spaced>>
  BY DEF DueInv, EnvInv, EnvTypeOK, ReadFile, Busy, At, boundVars
<1>1. CASE cmd[s].file = "service" /\ Reply(s, cmd, "err")
  <2>1. ~Busy(s)' /\ timers' = timers /\ \A r \in Subs \ {s} : cmd'[r] = cmd[r]
    BY <1>0, <1>1, ReplyIs DEF Reply
  <2>2. ~Unfinished(s)
    BY <1>1 DEF Unfinished
  <2> QED
    BY <1>0, <2>1, <2>2, RewriteIsQuiet
<1>2. CASE /\ cmd' = [cmd EXCEPT ![s].pc = "open", ![s].out = Edited(s)]
           /\ UNCHANGED <<timers, acked>>
  <2> DEFINE record == [cmd[s] EXCEPT !.pc = "open", !.out = Edited(s)]
  <2>1. /\ cmd' = [cmd EXCEPT ![s] = record] /\ record.pc = "open"
        /\ record.op = cmd[s].op /\ record.file = cmd[s].file
    BY <1>0, <1>2 DEF EnvRecord
  <2> HIDE DEF record
  <2> QED
    BY <1>0, <1>2, <2>1, GoesOnQuietly
<1> QED
  BY <1>1, <1>2 DEF ReadFile

\* The temporary file is created.
LEMMA OpenTmpDue ==
  ASSUME DueInv, NEW s \in Subs, OpenTmp(s) PROVE OneRestart' /\ EffectIsDue'
<1> DEFINE record == [cmd[s] EXCEPT !.pc = "write", !.fd = "tmp"]
<1>1. /\ Busy(s) /\ cmd[s] \in EnvRecord
      /\ UNCHANGED <<files, timers, loaded, started, faults, crashes, overlap, spaced>>
  BY DEF DueInv, EnvInv, EnvTypeOK, OpenTmp, Busy, At, boundVars, systemVars, ackVars
<1>2. /\ cmd' = [cmd EXCEPT ![s] = record] /\ record.pc = "write"
      /\ record.op = cmd[s].op /\ record.file = cmd[s].file
  BY <1>1 DEF DueInv, EnvInv, EnvTypeOK, OpenTmp, EnvRecord
<1> HIDE DEF record
<1> QED
  BY <1>1, <1>2, GoesOnQuietly

\* It is written: into the installed unit only if two update_config overlapped.
LEMMA WriteTmpDue ==
  ASSUME DueInv, NEW s \in Subs, WriteTmp(s) PROVE OneRestart' /\ EffectIsDue'
<1> DEFINE record == [cmd[s] EXCEPT !.pc = "rename", !.fd = "none"]
<1>1. /\ Busy(s) /\ cmd[s] \in EnvRecord /\ At(s, "write")
      /\ UNCHANGED <<timers, loaded, started, faults, crashes, overlap, spaced>>
      /\ files \in [FileNames -> Contents]
  BY DEF DueInv, EnvInv, EnvTypeOK, WriteTmp, Busy, At, boundVars, systemVars, ackVars
<1>2. /\ cmd' = [cmd EXCEPT ![s] = record] /\ record.pc = "rename"
      /\ record.op = cmd[s].op /\ record.file = cmd[s].file
  BY <1>1 DEF DueInv, EnvInv, EnvTypeOK, WriteTmp, EnvRecord
<1> HIDE DEF record
<1>3. Calm' => files'["service"] = files["service"]
  <2>1. SUFFICES ASSUME Calm' PROVE files'["service"] = files["service"]
    OBVIOUS
  <2>2. cmd[s].file = "service" => cmd[s].fd = "tmp"
    BY <1>1, <2>1 DEF Calm, DueInv, EnvInv, Rewriting, Rewrites, Sole
  <2> QED
    BY <1>1, <2>2 DEF WriteTmp, FileNames
<1> QED
  BY <1>1, <1>2, <1>3, GoesOnQuietly

\* The unit is installed, and its command will ask for a restart; the env file is, and
\* its command asks for it; or set_tier's is.
LEMMA RenameDue ==
  ASSUME DueInv, NEW s \in Subs, Rename(s) PROVE OneRestart' /\ EffectIsDue'
<1> DEFINE file == cmd[s].file
           c == Moved(s, [tmp |-> "installed", installed |-> "lost"])
           next == IF cmd[s].op = "tier" THEN "script" ELSE "read"
<1>0. /\ Busy(s) /\ cmd[s] \in EnvRecord /\ EnvInv /\ EnvTypeOK /\ file \in FileNames
      /\ UNCHANGED <<loaded, started, faults, crashes, overlap, spaced>>
      /\ files \in [FileNames -> Contents] /\ files' = [files EXCEPT ![file] = tmp[file]]
      /\ cmd[s].op \in {"config", "tier"} /\ (cmd[s].op = "tier" => file = "env")
  BY DEF DueInv, EnvInv, EnvTypeOK, EnvRecord, Intent, Rename, Busy, At, boundVars
<1>1. /\ c \in [Subs -> EnvRecord]
      /\ \A r \in Subs : c[r].pc = cmd[r].pc /\ c[r].op = cmd[r].op /\ c[r].file = cmd[r].file
  <2>1. \A r \in Subs : /\ c[r] \in EnvRecord /\ c[r].pc = cmd[r].pc
                        /\ c[r].op = cmd[r].op /\ c[r].file = cmd[r].file
    BY <1>0, MovedIs
  <2>2. c = [r \in Subs |-> c[r]]
    BY DEF Moved
  <2> HIDE DEF c
  <2> QED
    BY <2>1, <2>2
<1>2. IF cmd[s].op = "config" /\ file = "env"
        THEN Reply(s, c, "ok")
        ELSE /\ cmd' = [c EXCEPT ![s].pc = next, ![s].file = "env"]
             /\ UNCHANGED <<timers, acked>>
  BY DEF Rename
<1>3. Calm' = Calm
  BY <1>0 DEF Calm
<1> HIDE DEF c
<1>4. CASE cmd[s].op = "config" /\ file = "env"
  <2>1. /\ Reply(s, c, "ok") /\ Unfinished(s)
    BY <1>0, <1>2, <1>4 DEF Unfinished, Configures
  <2>2. /\ ~Busy(s)' /\ \A r \in Subs \ {s} : cmd'[r] = c[r]
        /\ timers' = [timers EXCEPT !.sleeping = timers.sleeping + 1]
    BY <1>0, <1>1, <1>4, <2>1, ReplyIs DEF Reply
  <2> QED
    BY <1>0, <1>1, <1>3, <2>1, <2>2, RepliesDue
<1>5. ASSUME ~(cmd[s].op = "config" /\ file = "env") PROVE OneRestart' /\ EffectIsDue'
  <2>1. /\ cmd'[s].pc = next /\ cmd'[s].op = cmd[s].op /\ cmd'[s].file = "env"
        /\ \A r \in Subs \ {s} : /\ cmd'[r].pc = cmd[r].pc /\ cmd'[r].op = cmd[r].op
                                 /\ cmd'[r].file = cmd[r].file
        /\ timers' = timers
    <3>1. c[s] \in EnvRecord
      BY <1>1
    <3>2. cmd' = [c EXCEPT ![s].pc = next, ![s].file = "env"] /\ timers' = timers
      BY <1>2, <1>5
    <3> QED
      BY <1>1, <3>1, <3>2 DEF EnvRecord
  <2>2. Busy(s)'
    BY <2>1 DEF Busy, At
  <2>3. CASE cmd[s].op = "tier"
    BY <1>0, <2>1, <2>2, <2>3, RewriteIsQuiet DEF FileNames
  <2>4. CASE cmd[s].op = "config" /\ file = "service"
    <3>1. SUFFICES ASSUME Calm' PROVE OneRestart' /\ EffectIsDue'
      BY DEF OneRestart, EffectIsDue
    <3>2. Configures(s) /\ Unfinished(s)'
      BY <1>0, <2>1, <2>2, <2>4 DEF Unfinished, Configures
    <3>3. /\ ~Pending /\ timers.sleeping + timers.reloaded <= 1
          /\ timers \in [sleeping : Nat, reloaded : Nat]
      BY <1>0, <1>3, <3>1, <3>2 DEF DueInv, OneRestart, EnvTypeOK
    <3>4. ~Pending' /\ ~(timers'.reloaded > 0) /\ timers'.sleeping + timers'.reloaded <= 1
      BY <2>1, <3>3 DEF Pending
    <3> QED
      BY <3>2, <3>4 DEF OneRestart, EffectIsDue
  <2> QED
    BY <1>0, <1>5, <2>3, <2>4 DEF FileNames
<1> QED
  BY <1>4, <1>5
\* The temporary file is gone: only other commands on the file can have done that.
LEMMA RenameFailsDue ==
  ASSUME DueInv, NEW s \in Subs, RenameFails(s) PROVE OneRestart' /\ EffectIsDue'
<1> DEFINE record == [cmd[s] EXCEPT !.pc = "remove"]
<1>1. /\ Busy(s) /\ cmd[s] \in EnvRecord
      /\ UNCHANGED <<files, timers, loaded, started, faults, crashes, overlap, spaced>>
  BY DEF DueInv, EnvInv, EnvTypeOK, RenameFails, Busy, At, boundVars, systemVars, ackVars
<1>2. /\ cmd' = [cmd EXCEPT ![s] = record] /\ record.pc = "remove"
      /\ record.op = cmd[s].op /\ record.file = cmd[s].file
  BY <1>1 DEF DueInv, EnvInv, EnvTypeOK, RenameFails, Goto, EnvRecord
<1> HIDE DEF record
<1> QED
  BY <1>1, <1>2, GoesOnQuietly

\* update_config replies ok although its rewrite of the env file has failed.
LEMMA RemoveDue ==
  ASSUME DueInv, NEW s \in Subs, Remove(s) PROVE OneRestart' /\ EffectIsDue'
<1> DEFINE c == Moved(s, [tmp |-> "lost"])
           ret == IF cmd[s].op = "config" /\ cmd[s].file = "env" THEN "ok" ELSE "err"
<1>0. /\ Busy(s) /\ EnvInv /\ EnvTypeOK /\ Reply(s, c, ret)
      /\ UNCHANGED <<files, loaded, started, faults, crashes, overlap, spaced>>
  BY DEF DueInv, EnvInv, Remove, GiveUp, Busy, At, boundVars
<1>1. /\ c \in [Subs -> EnvRecord]
      /\ \A r \in Subs : c[r].pc = cmd[r].pc /\ c[r].op = cmd[r].op /\ c[r].file = cmd[r].file
  <2>1. \A r \in Subs : /\ c[r] \in EnvRecord /\ c[r].pc = cmd[r].pc
                        /\ c[r].op = cmd[r].op /\ c[r].file = cmd[r].file
    BY <1>0, MovedIs
  <2>2. c = [r \in Subs |-> c[r]]
    BY DEF Moved
  <2> HIDE DEF c
  <2> QED
    BY <2>1, <2>2
<1>2. Calm' = Calm
  BY <1>0 DEF Calm
<1> HIDE DEF c
<1>3. CASE cmd[s].op = "config" /\ cmd[s].file = "env"
  <2>1. Reply(s, c, "ok") /\ Unfinished(s)
    BY <1>0, <1>3 DEF Unfinished, Configures
  <2>2. /\ ~Busy(s)' /\ \A r \in Subs \ {s} : cmd'[r] = c[r]
        /\ timers' = [timers EXCEPT !.sleeping = timers.sleeping + 1]
    BY <1>0, <1>1, <1>3, <2>1, ReplyIs DEF Reply
  <2> QED
    BY <1>0, <1>1, <1>2, <2>1, <2>2, RepliesDue
<1>4. CASE ~(cmd[s].op = "config" /\ cmd[s].file = "env")
  <2>1. Reply(s, c, "err") /\ ~Unfinished(s)
    BY <1>0, <1>4 DEF Unfinished, Configures
  <2>2. ~Busy(s)' /\ timers' = timers /\ \A r \in Subs \ {s} : cmd'[r] = c[r]
    BY <1>0, <1>1, <2>1, ReplyIs DEF Reply
  <2> QED
    BY <1>0, <1>1, <2>1, <2>2, RewriteIsQuiet
<1> QED
  BY <1>3, <1>4

\* set_tier ends, and asks for no restart.
LEMMA RunScriptDue ==
  ASSUME DueInv, NEW s \in Subs, RunScript(s) PROVE OneRestart' /\ EffectIsDue'
<1>1. /\ Busy(s) /\ EnvInv /\ cmd \in [Subs -> EnvRecord] /\ Reply(s, cmd, "ok")
      /\ UNCHANGED <<files, loaded, started, faults, crashes, overlap, spaced>>
      /\ cmd[s].op = "tier"
  BY DEF DueInv, EnvInv, EnvTypeOK, Intent, RunScript, Busy, At, boundVars
<1>2. ~Busy(s)' /\ timers' = timers /\ \A r \in Subs \ {s} : cmd'[r] = cmd[r]
  BY <1>1, ReplyIs DEF Reply
<1>3. ~Unfinished(s)
  BY <1>1 DEF Unfinished, Configures
<1> QED
  BY <1>1, <1>2, <1>3, RewriteIsQuiet

\* A command begins: an update_config before whose restart another one's is due is not
\* within the proviso.
LEMMA BeginEnvDue ==
  ASSUME DueInv, NEW s \in Subs, NEW op \in {"config", "tier"}, NEW file, NEW want,
         BeginEnv(s, op, file, want)
  PROVE  OneRestart' /\ EffectIsDue'
<1> DEFINE record == [NoCommand("none") EXCEPT !.pc = "read", !.op = op, !.file = file,
                                               !.want = want]
<1>1. /\ record.pc = "read" /\ record.op = op
      /\ Dispatch(s, record)
      /\ overlap' = overlap \cup Shared(op)
      /\ UNCHANGED <<files, timers, loaded, started, faults, crashes>>
  BY DEF BeginEnv, NoCommand, systemVars
<1> HIDE DEF record
<1>2. /\ ~Busy(s) /\ cmd'[s] = record /\ \A r \in Subs \ {s} : cmd'[r] = cmd[r]
  BY <1>1 DEF Dispatch, DueInv, EnvInv, EnvTypeOK
<1>3. Calm' => Calm /\ (op = "config" => ~Pending)
  <2>1. spaced' = (spaced /\ (op = "config" => ~Pending))
    BY DEF BeginEnv
  <2> QED
    BY <1>1, <2>1 DEF Calm
<1>4. \A r \in Subs : Unfinished(r) => Unfinished(r)'
  BY <1>2 DEF Unfinished, Configures, Busy, At
<1>5. CASE op = "tier"
  <2>1. \A r \in Subs : Configures(r)' => Configures(r)
    BY <1>1, <1>2, <1>5 DEF Configures, Busy, At
  <2> QED
    BY <1>1, <1>3, <1>4, <2>1, QuietKeeps DEF DueInv
<1>6. CASE op = "config"
  <2>1. SUFFICES ASSUME Calm' PROVE OneRestart' /\ EffectIsDue'
    BY DEF OneRestart, EffectIsDue
  <2>2. /\ timers.sleeping + timers.reloaded <= 1 /\ ~Pending
        /\ timers.reloaded > 0 => loaded = files.service
        /\ started = files.service \/ \E r \in Subs : Unfinished(r)
    BY <1>3, <1>6, <2>1 DEF DueInv, OneRestart, EffectIsDue
  <2>3. ~Pending'
    BY <1>1, <2>2 DEF Pending
  <2> QED
    BY <1>1, <1>4, <2>2, <2>3 DEF OneRestart, EffectIsDue
<1> QED
  BY <1>5, <1>6

\* systemd reads the unit before the restart.
LEMMA ReloadDue ==
  ASSUME DueInv, Reload PROVE OneRestart' /\ EffectIsDue'
<1>1. CASE Fault
  BY <1>1, FaultEndsCalm DEF DueInv
<1>2. ASSUME UNCHANGED faults, loaded' = files.service,
             timers' = [sleeping |-> timers.sleeping - 1, reloaded |-> timers.reloaded + 1]
      PROVE  OneRestart' /\ EffectIsDue'
  <2>1. SUFFICES ASSUME Calm' PROVE OneRestart' /\ EffectIsDue'
    BY DEF OneRestart, EffectIsDue
  <2>2. Calm /\ UNCHANGED <<files, cmd, started>>
    BY <1>2, <2>1 DEF Calm, Reload, ackVars
  <2>3. /\ timers \in [sleeping : Nat, reloaded : Nat] /\ timers.sleeping > 0
        /\ timers.sleeping + timers.reloaded <= 1
    BY <2>2 DEF Reload, DueInv, OneRestart, EnvInv, EnvTypeOK
  <2>4. timers'.sleeping = 0 /\ timers'.reloaded = 1
    BY <1>2, <2>3
  <2>5. Pending /\ Pending'
    BY <2>3, <2>4 DEF Pending
  <2>6. \A r \in Subs : ~Configures(r)'
    BY <2>2, <2>5 DEF DueInv, OneRestart, Configures, Busy, At
  <2>7. timers'.sleeping + timers'.reloaded <= 1
    BY <2>4
  <2> QED
    BY <1>2, <2>2, <2>5, <2>6, <2>7 DEF OneRestart, EffectIsDue
<1> QED
  BY <1>1, <1>2 DEF Reload

\* The agent is restarted with the unit on disk.
LEMMA RestartAgentDue ==
  ASSUME DueInv, RestartAgent PROVE OneRestart' /\ EffectIsDue'
<1>1. CASE Fault
  BY <1>1, FaultEndsCalm DEF DueInv
<1>2. ASSUME Stopped, started' = loaded, UNCHANGED faults
      PROVE  OneRestart' /\ EffectIsDue'
  <2>1. SUFFICES ASSUME Calm' PROVE OneRestart' /\ EffectIsDue'
    BY DEF OneRestart, EffectIsDue
  <2>2. Calm /\ UNCHANGED <<files, loaded>>
    BY <1>2, <2>1 DEF Calm, RestartAgent, ackVars
  <2>3. started' = files'["service"]
    BY <1>2, <2>2 DEF RestartAgent, DueInv, OneRestart
  <2>4. timers'.sleeping = 0 /\ timers'.reloaded = 0
    BY <1>2 DEF Stopped
  <2>5. ~Pending'
    BY <2>4 DEF Pending
  <2>6. timers'.sleeping + timers'.reloaded <= 1 /\ ~(timers'.reloaded > 0)
    BY <2>4
  <2> QED
    BY <2>3, <2>5, <2>6 DEF OneRestart, EffectIsDue
<1> QED
  BY <1>1, <1>2 DEF RestartAgent

\* Every step keeps the invariant.
LEMMA DueKeeps == DueInv /\ [EnvNext]_envVars => DueInv'
<1> SUFFICES ASSUME DueInv, [EnvNext]_envVars PROVE OneRestart' /\ EffectIsDue'
  BY EnvKeeps DEF DueInv
<1>1. ASSUME NEW s \in Subs, EnvStep(s) PROVE OneRestart' /\ EffectIsDue'
  <2>1. CASE FileFails(s) \/ ScriptFails(s)
    BY <2>1, FaultEndsCalm DEF FileFails, ScriptFails, DueInv
  <2> QED
    BY <1>1, <2>1, ReadFileDue, OpenTmpDue, WriteTmpDue, RenameDue, RenameFailsDue, RemoveDue,
       RunScriptDue DEF EnvStep
<1>2. ASSUME NEW s \in Subs, NEW want, UpdateConfig(s, want) PROVE OneRestart' /\ EffectIsDue'
  BY <1>2, BeginEnvDue DEF UpdateConfig
<1>3. ASSUME NEW s \in Subs, NEW value, SetTier(s, value) PROVE OneRestart' /\ EffectIsDue'
  BY <1>3, BeginEnvDue DEF SetTier
<1>4. CASE Crash
  BY <1>4, FaultEndsCalm DEF Crash, DueInv
<1>5. CASE UNCHANGED envVars
  <2>1. Calm' = Calm /\ UNCHANGED <<files, timers, loaded, started, cmd>>
    BY <1>5 DEF Calm, envVars, systemVars, boundVars, ackVars
  <2>2. \A s \in Subs : Configures(s)' = Configures(s) /\ Unfinished(s)' = Unfinished(s)
    BY <2>1 DEF Configures, Unfinished, Busy, At
  <2> QED
    BY <2>1, <2>2, QuietKeeps DEF DueInv
<1> QED
  BY <1>1, <1>2, <1>3, <1>4, <1>5, ReloadDue, RestartAgentDue DEF EnvNext

\* Within the proviso of ConfigTakesEffect no update_config is forgotten: at every moment
\* the agent runs with the unit on disk, or its restart is scheduled, or the command that
\* will schedule it runs (update_config.go:65-93). That the restart then comes is liveness.
THEOREM EffectStaysDue == EnvSpec => []EffectIsDue
<1>1. DueInv => EffectIsDue
  BY DEF DueInv
<1>2. EnvInit => DueInv
  BY DueStarts, EnvStarts DEF DueInv
<1> QED
  BY <1>1, <1>2, DueKeeps, PTL DEF EnvSpec
=============================================================================
