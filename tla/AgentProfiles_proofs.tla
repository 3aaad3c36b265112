------------------------ MODULE AgentProfiles_proofs ------------------------
(* Theorems about AgentProfiles for all agents, profiles and commands: for    *)
(* any number of processes what a link leads to, and for one process, with    *)
(* kills, failing copies and agents that recreate their directories, that     *)
(* links, snapshots and registry agree and that no identity is lost.          *)
EXTENDS AgentProfiles, FiniteSetTheorems, TLAPS

------------------------------------------------------------------------------
(* Agents, commands and the places of a config directory.                     *)

(* Every non-empty set of naturals has a least element.                      *)
LEMMA LeastNatural ==
  ASSUME NEW I \in SUBSET Nat, I # {}
  PROVE  \E m \in I : \A k \in I : m <= k
<1> DEFINE below(m) == 1..m
           R == StrictSubsetOrdering(Nat)
           T == {below(m) : m \in I}
<1>1. T \subseteq FiniteSubsetsOf(Nat)
  <2> SUFFICES ASSUME NEW m \in I PROVE below(m) \in FiniteSubsetsOf(Nat)
    OBVIOUS
  <2>1. IsFiniteSet(1..m) /\ 1..m \in SUBSET Nat
    BY FS_Interval
  <2> QED
    BY <2>1 DEF FiniteSubsetsOf
<1>2. IsWellFoundedOn(R, FiniteSubsetsOf(Nat))
  BY FS_StrictSubsetOrderingWellFounded
<1>3. PICK x \in T : \A y \in T : ~ (<<y, x>> \in R)
  <2>1. T # {}
    OBVIOUS
  <2> HIDE DEF T, R
  <2> QED
    BY <1>1, <1>2, <2>1, WFMin
<1>4. PICK m \in I : x = below(m)
  BY <1>3
<1>5. ASSUME NEW k \in I, k < m PROVE FALSE
  <2>1. below(k) \in T
    OBVIOUS
  <2>2. /\ below(k) \subseteq below(m) /\ below(k) # below(m)
        /\ below(k) \in SUBSET Nat /\ below(m) \in SUBSET Nat
    BY <1>5
  <2>3. <<below(k), below(m)>> \in R
    BY <2>2 DEF StrictSubsetOrdering
  <2> QED
    BY <1>3, <1>4, <2>1, <2>3
<1> QED
  BY <1>5

(* The agent whose turn it is is one of those that are left.                  *)
LEMMA FirstOf ==
  ASSUME NEW S \in SUBSET Agents, S # {}
  PROVE  First(S) \in S
<1> DEFINE here == {k \in DOMAIN AgentOrder : AgentOrder[k] \in S}
<1>1. here \in SUBSET Nat /\ here # {}
  <2>1. AgentOrder \in Seq(Agents)
    BY AgentsTyped
  <2>2. PICK a \in S : a \in {AgentOrder[k] : k \in DOMAIN AgentOrder}
    BY DEF Agents
  <2> QED
    BY <2>1, <2>2
<1> HIDE DEF here
<1>2. PICK k \in here : \A j \in here : k <= j
  BY <1>1, LeastNatural
<1>3. /\ k \in DOMAIN AgentOrder /\ AgentOrder[k] \in S
      /\ \A j \in DOMAIN AgentOrder : AgentOrder[j] \in S => k <= j
  BY <1>2 DEF here
<1> QED
  BY <1>3 DEF First

LEMMA Names ==
  /\ Default \in Profiles /\ None \notin Profiles /\ None \notin Contents
  /\ Fresh \in Contents /\ Fresh # Partial /\ Partial \in Contents
  /\ SymlinkTier \subseteq Agents
BY AgentsTyped DEF Contents

(* What a config directory can be.                                            *)
LEMMA LiveFields ==
  ASSUME NEW l \in Lives
  PROVE  /\ l.kind \in {"absent", "dir", "link", "foreign"}
         /\ l.kind = "absent" <=> l = Absent
         /\ l.kind = "link" => l.at \in Profiles /\ l = Link(l.at)
         /\ l.kind \in {"dir", "foreign"} => l.at \in Contents
         /\ l.kind = "dir" => l = Dir(l.at)
         /\ l.kind = "foreign" => l = Foreign(l.at)
         /\ LinkOf(l) \in Profiles \cup {None}
         /\ \A p \in Profiles : LinkOf(l) = p <=> l = Link(p)
BY Names DEF Lives, Absent, Dir, Link, Foreign, LinkOf

LEMMA NewLives ==
  /\ Absent \in Lives /\ Absent.kind = "absent" /\ Absent.at = None /\ LinkOf(Absent) = None
  /\ \A c \in Contents : /\ Dir(c) \in Lives /\ Dir(c).kind = "dir" /\ Dir(c).at = c
                         /\ LinkOf(Dir(c)) = None
  /\ \A p \in Profiles : /\ Link(p) \in Lives /\ Link(p).kind = "link" /\ Link(p).at = p
                         /\ LinkOf(Link(p)) = p
BY DEF Lives, Absent, Dir, Link, LinkOf

(* The fields of a command line.                                              *)
LEMMA CommandFields ==
  ASSUME NEW c \in Commands
  PROVE  /\ c.op \in Ops /\ c.profile \in Profiles \cup {None} /\ c.from \in Profiles \cup {None}
         /\ c.agents \in SUBSET Agents /\ c.explicit \in BOOLEAN /\ c.force \in BOOLEAN
         /\ ~c.explicit => c.agents = Agents
         /\ c.op # "save" => c.profile \in Profiles
         /\ c.op = "init" => c.profile = Default
BY CommandsTyped

PCs == {"idle", "start", "agent", "wipe", "move", "relocating", "clear", "clearing",
        "link", "copy", "copying", "check", "remove", "load", "truncate", "write", "rename"}

(* The fields of a process.                                                   *)
LEMMA ProcFields ==
  ASSUME NEW r \in ProcStates
  PROVE  /\ r.pc \in PCs /\ r.cmd \in Commands \cup {None} /\ r.todo \in SUBSET Agents
         /\ r.done \in SUBSET Agents /\ r.blocked \in SUBSET Agents /\ r.reg \in Registries
         /\ r.file \in {None, "tmp", "disk"} /\ r.result \in Outcomes \cup {None}
BY DEF ProcStates, PCs, Outcomes

LEMMA RegistryFacts ==
  /\ EmptyRegistry \in Registries /\ Torn \notin Registries
  /\ \A reg \in Registries : /\ reg.default \in Profiles \cup {None}
                              /\ reg.active \in [Agents -> Profiles \cup {None}]
<1>1. EmptyRegistry \in Registries
  BY DEF EmptyRegistry, Registries
<1>2. Torn \notin Registries
  BY DEF Torn, Registries
<1>3. \A reg \in Registries : /\ reg.default \in Profiles \cup {None}
                               /\ reg.active \in [Agents -> Profiles \cup {None}]
  BY DEF Registries
<1> QED
  BY <1>1, <1>2, <1>3

LEMMA IdleProc ==
  /\ Idle \in ProcStates /\ Idle.pc = "idle" /\ Idle.cmd = None /\ Idle.todo = {}
  /\ Idle.done = {} /\ Idle.blocked = {} /\ Idle.file = None /\ Idle.result = None
BY RegistryFacts DEF Idle, ProcStates

------------------------------------------------------------------------------
(* What the steps do to the process that takes them.                          *)

Others(i) == \A j \in Procs \ {i} : proc'[j] = proc[j]

(* A step replaces the record of its process.                                 *)
LEMMA Replaced ==
  ASSUME TypeOK, NEW i \in Procs, NEW r \in ProcStates, proc' = [proc EXCEPT ![i] = r]
  PROVE  proc' \in [Procs -> ProcStates] /\ proc'[i] = r /\ Others(i)
BY DEF TypeOK, Others

LEMMA GotoEffect ==
  ASSUME TypeOK, NEW i \in Procs, NEW pc \in PCs, Goto(i, pc)
  PROVE  /\ proc' \in [Procs -> ProcStates] /\ Others(i)
         /\ proc'[i].pc = pc /\ proc'[i].cmd = proc[i].cmd /\ proc'[i].todo = proc[i].todo
         /\ proc'[i].done = proc[i].done /\ proc'[i].blocked = proc[i].blocked
         /\ proc'[i].reg = proc[i].reg /\ proc'[i].file = proc[i].file
         /\ proc'[i].result = proc[i].result
<1>1. proc[i] \in ProcStates
  BY DEF TypeOK
<1> DEFINE r == [proc[i] EXCEPT !.pc = pc]
<1>2. /\ r \in ProcStates /\ r.pc = pc /\ r.cmd = proc[i].cmd /\ r.todo = proc[i].todo
      /\ r.done = proc[i].done /\ r.blocked = proc[i].blocked /\ r.reg = proc[i].reg
      /\ r.file = proc[i].file /\ r.result = proc[i].result
  BY <1>1 DEF ProcStates, PCs
<1>3. proc' = [proc EXCEPT ![i] = r]
  BY DEF Goto
<1> HIDE DEF r
<1> QED
  BY <1>2, <1>3, Replaced

LEMMA AdvanceEffect ==
  ASSUME TypeOK, NEW i \in Procs, Advance(i)
  PROVE  /\ proc' \in [Procs -> ProcStates] /\ Others(i)
         /\ proc'[i].pc = "agent" /\ proc'[i].cmd = proc[i].cmd
         /\ proc'[i].todo = proc[i].todo \ {Agent(i)}
         /\ proc'[i].done = proc[i].done /\ proc'[i].blocked = proc[i].blocked
         /\ proc'[i].reg = proc[i].reg /\ proc'[i].file = proc[i].file
         /\ proc'[i].result = proc[i].result
<1>1. proc[i] \in ProcStates
  BY DEF TypeOK
<1> DEFINE r == [proc[i] EXCEPT !.pc = "agent", !.todo = proc[i].todo \ {Agent(i)}]
<1>2. /\ r \in ProcStates /\ r.pc = "agent" /\ r.cmd = proc[i].cmd
      /\ r.todo = proc[i].todo \ {Agent(i)}
      /\ r.done = proc[i].done /\ r.blocked = proc[i].blocked /\ r.reg = proc[i].reg
      /\ r.file = proc[i].file /\ r.result = proc[i].result
  BY <1>1 DEF ProcStates
<1>3. proc' = [proc EXCEPT ![i] = r]
  BY DEF Advance
<1> HIDE DEF r
<1> QED
  BY <1>2, <1>3, Replaced

LEMMA RecordingEffect ==
  ASSUME TypeOK, NEW i \in Procs, proc[i].todo # {}, AdvanceRecording(i)
  PROVE  /\ proc' \in [Procs -> ProcStates] /\ Others(i)
         /\ proc'[i].pc = "agent" /\ proc'[i].cmd = proc[i].cmd
         /\ proc'[i].todo = proc[i].todo \ {Agent(i)}
         /\ proc'[i].done = proc[i].done \cup {Agent(i)}
         /\ proc'[i].blocked = proc[i].blocked
         /\ proc'[i].reg = proc[i].reg /\ proc'[i].file = proc[i].file
         /\ proc'[i].result = proc[i].result
<1>1. proc[i] \in ProcStates
  BY DEF TypeOK
<1>0. Agent(i) \in Agents
  BY <1>1, ProcFields, FirstOf DEF Agent
<1> DEFINE r == [proc[i] EXCEPT !.pc = "agent", !.todo = proc[i].todo \ {Agent(i)},
                                !.done = proc[i].done \cup {Agent(i)}]
<1>2. /\ r \in ProcStates /\ r.pc = "agent" /\ r.cmd = proc[i].cmd
      /\ r.todo = proc[i].todo \ {Agent(i)}
      /\ r.done = proc[i].done \cup {Agent(i)} /\ r.blocked = proc[i].blocked
      /\ r.reg = proc[i].reg /\ r.file = proc[i].file /\ r.result = proc[i].result
  BY <1>0, <1>1 DEF ProcStates
<1>3. proc' = [proc EXCEPT ![i] = r]
  BY DEF AdvanceRecording
<1> HIDE DEF r
<1> QED
  BY <1>2, <1>3, Replaced

(* A process that ends is idle; the history of mishaps only grows.            *)
LEMMA EndsEffect ==
  ASSUME TypeOK, NEW i \in Procs, NEW result \in Outcomes, Ends(i, result)
  PROVE  /\ proc' \in [Procs -> ProcStates] /\ Others(i)
         /\ proc'[i].pc = "idle" /\ proc'[i].result = result
         /\ mishaps' \subseteq Mishaps /\ mishaps \subseteq mishaps'
         /\ LeftHalf(i) \subseteq mishaps'
         /\ result # "ok" => mishaps' # {}
         /\ result = "killed" => "killed" \in mishaps'
<1>1. proc[i] \in ProcStates
  BY DEF TypeOK
<1> DEFINE r == [proc[i] EXCEPT !.pc = "idle", !.file = None, !.result = result]
<1>2. r \in ProcStates /\ r.pc = "idle" /\ r.result = result
  BY <1>1 DEF ProcStates, Outcomes
<1>3. proc' = [proc EXCEPT ![i] = r]
  BY DEF Ends
<1> HIDE DEF r
<1>4. proc' \in [Procs -> ProcStates] /\ proc'[i] = r /\ Others(i)
  BY <1>2, <1>3, Replaced
<1>5. mishaps \cup LeftHalf(i) \subseteq Mishaps
  BY DEF TypeOK, LeftHalf, Mishaps
<1>6. mishaps' = mishaps \cup LeftHalf(i) \cup (CASE result = "ok" -> {}
                                                 [] result = "killed" -> {"killed"}
                                                 [] OTHER -> {"failed"})
  BY DEF Ends
<1>7. /\ mishaps' \subseteq Mishaps /\ mishaps \cup LeftHalf(i) \subseteq mishaps'
      /\ result # "ok" => mishaps' # {}
      /\ result = "killed" => "killed" \in mishaps'
  <2>1. CASE result = "ok"
    BY <1>5, <1>6, <2>1 DEF Mishaps
  <2>2. CASE result = "killed"
    BY <1>5, <1>6, <2>2 DEF Mishaps
  <2>3. CASE result \notin {"ok", "killed"}
    BY <1>5, <1>6, <2>3 DEF Mishaps
  <2> QED
    BY <2>1, <2>2, <2>3
<1> QED
  BY <1>2, <1>4, <1>7

------------------------------------------------------------------------------
(* The steps, one by one.                                                     *)

(* Where a command is says what it can be.                                    *)
LEMMA Where ==
  ASSUME TypeOK, InStep, NEW i \in Procs, ~At(i, "idle")
  PROVE  /\ i \in scope.procs /\ Cmd(i) \in scope.commands /\ Cmd(i) \in Commands
         /\ proc[i].result = None
         /\ At(i, "agent") => Cmd(i).op # "delete"
         /\ At(i, "wipe") => Cmd(i).op \in {"init", "save"}
         /\ proc[i].pc \in Moving => Cmd(i).op = "init"
         /\ proc[i].pc \in {"copy", "copying"} => Cmd(i).op \in {"init", "save", "create", "restore"}
         /\ proc[i].pc \in {"check", "remove"} => Cmd(i).op = "delete"
         /\ At(i, "load") => Cmd(i).op \in {"init", "use", "restore"} /\ proc[i].todo = {}
         /\ proc[i].pc \in {"truncate", "write", "rename"} =>
              Cmd(i).op \in {"init", "use", "restore", "delete"}
         /\ Cmd(i).op = "create" /\ Cmd(i).from = None => proc[i].todo = {}
         /\ proc[i].pc \in {"wipe", "copy", "copying"} \cup Moving =>
              /\ proc[i].todo # {} /\ Target(i) # None
              /\ Cmd(i).op \in {"save", "restore"} => Agent(i) \notin SymlinkTier
              /\ Cmd(i).op = "init" /\ ~At(i, "wipe") =>
                    (Agent(i) \in SymlinkTier <=> proc[i].pc \in Moving)
<1>1. /\ i \in scope.procs /\ Cmd(i) \in scope.commands /\ proc[i].result = None
      /\ At(i, "load") => proc[i].todo = {}
      /\ Cmd(i).op = "create" /\ Cmd(i).from = None => proc[i].todo = {}
  BY DEF InStep
<1>2. scope.commands \subseteq Commands
  BY DEF TypeOK
<1>3. Cmd(i).op \in CASE At(i, "start") -> Ops
                      [] At(i, "agent") -> Ops \ {"delete"}
                      [] At(i, "wipe") -> {"init", "save"}
                      [] proc[i].pc \in Moving -> {"init"}
                      [] At(i, "copy") \/ At(i, "copying") -> {"init", "save", "create", "restore"}
                      [] At(i, "check") \/ At(i, "remove") -> {"delete"}
                      [] At(i, "load") -> {"init", "use", "restore"}
                      [] OTHER -> {"init", "use", "restore", "delete"}
  BY DEF InStep
<1>4. /\ At(i, "agent") => Cmd(i).op # "delete"
      /\ At(i, "wipe") => Cmd(i).op \in {"init", "save"}
      /\ proc[i].pc \in Moving => Cmd(i).op = "init"
      /\ proc[i].pc \in {"copy", "copying"} => Cmd(i).op \in {"init", "save", "create", "restore"}
      /\ proc[i].pc \in {"check", "remove"} => Cmd(i).op = "delete"
      /\ At(i, "load") => Cmd(i).op \in {"init", "use", "restore"}
      /\ proc[i].pc \in {"truncate", "write", "rename"} =>
           Cmd(i).op \in {"init", "use", "restore", "delete"}
  BY <1>3 DEF At, Moving
<1>5. proc[i].pc \in {"wipe", "copy", "copying"} \cup Moving =>
        /\ proc[i].todo # {} /\ Target(i) # None
        /\ Cmd(i).op \in {"save", "restore"} => Agent(i) \notin SymlinkTier
        /\ Cmd(i).op = "init" /\ ~At(i, "wipe") =>
              (Agent(i) \in SymlinkTier <=> proc[i].pc \in Moving)
  BY DEF InStep
<1> QED
  BY <1>1, <1>2, <1>4, <1>5

(* The agent and the profile a process works on.                              *)
LEMMA AtWork ==
  ASSUME TypeOK, InStep, NEW i \in Procs, proc[i].todo # {}, ~At(i, "idle")
  PROVE  /\ Agent(i) \in Agents /\ Agent(i) \in proc[i].todo
         /\ Cmd(i).profile # None => Target(i) = Cmd(i).profile
         /\ Target(i) \in Profiles \cup {None}
<1>1. proc[i] \in ProcStates /\ live \in [Agents -> Lives]
  BY DEF TypeOK
<1>2. Agent(i) \in proc[i].todo /\ Agent(i) \in Agents
  BY <1>1, ProcFields, FirstOf DEF Agent
<1>3. Cmd(i).profile \in Profiles \cup {None}
  BY Where, CommandFields
<1>4. proc[i].reg.active[Agent(i)] \in Profiles \cup {None}
  BY <1>1, <1>2, ProcFields, RegistryFacts
<1>5. live[Agent(i)] \in Lives
  BY <1>1, <1>2
<1>6. live[Agent(i)].kind = "link" => live[Agent(i)].at \in Profiles
  BY <1>5, LiveFields
<1> QED
  BY <1>2, <1>3, <1>4, <1>6 DEF Target

(* What every failure leaves: the process is idle, the disk as it was.         *)
Fails(i) ==
    /\ Others(i) /\ proc'[i].pc = "idle" /\ proc'[i].result # "ok"
    /\ UNCHANGED <<disk, scope, issued, fresh>>
    /\ mishaps' # {} /\ mishaps \cup LeftHalf(i) \subseteq mishaps'

LEMMA FailEffect ==
  ASSUME TypeOK, NEW i \in Procs, NEW stage \in Outcomes \ {"ok"}, Fail(i, stage)
  PROVE  /\ TypeOK' /\ Fails(i)
         /\ stage = "killed" => "killed" \in mishaps'
<1>1. Ends(i, stage) /\ UNCHANGED <<disk, scope, issued, fresh>>
  BY DEF Fail, NoFiles
<1>2. /\ proc' \in [Procs -> ProcStates] /\ Others(i)
      /\ proc'[i].pc = "idle" /\ proc'[i].result = stage
      /\ mishaps' \subseteq Mishaps /\ mishaps \cup LeftHalf(i) \subseteq mishaps'
      /\ mishaps' # {} /\ (stage = "killed" => "killed" \in mishaps')
  BY <1>1, EndsEffect
<1>3. TypeOK'
  BY <1>1, <1>2 DEF TypeOK, disk
<1> QED
  BY <1>1, <1>2, <1>3 DEF Fails

(* A step that changes nothing but its process.                               *)
LEMMA QuietStep ==
  ASSUME TypeOK, proc' \in [Procs -> ProcStates], NoFiles, Quietly
  PROVE  TypeOK' /\ UNCHANGED <<disk, scope, issued, fresh, mishaps>>
BY DEF TypeOK, NoFiles, Quietly, disk

LEMMA IssueEffect ==
  ASSUME TypeOK, NEW i \in Procs, NEW c \in Commands, Issue(i, c)
  PROVE  /\ TypeOK' /\ Others(i) /\ UNCHANGED <<disk, scope, fresh, mishaps>>
         /\ At(i, "idle") /\ i \in scope.procs /\ c \in scope.commands
         /\ proc'[i].pc = "start" /\ proc'[i].cmd = c /\ proc'[i].todo = {}
         /\ proc'[i].blocked = {} /\ proc'[i].result = None
<1> DEFINE r == [Idle EXCEPT !.pc = "start", !.cmd = c]
<1>1. /\ r \in ProcStates /\ r.pc = "start" /\ r.cmd = c /\ r.todo = {} /\ r.blocked = {}
      /\ r.result = None
  BY IdleProc DEF ProcStates
<1>2. proc' = [proc EXCEPT ![i] = r]
  BY DEF Issue
<1> HIDE DEF r
<1>3. proc' \in [Procs -> ProcStates] /\ proc'[i] = r /\ Others(i)
  BY <1>1, <1>2, Replaced
<1>4. issued' \in 0..MaxCommands
  BY AgentsTyped DEF Issue, TypeOK
<1>5. TypeOK'
  BY <1>3, <1>4 DEF Issue, TypeOK, NoFiles, disk
<1> QED
  BY <1>1, <1>3, <1>5 DEF Issue, NoFiles, disk

LEMMA StartInitEffect ==
  ASSUME TypeOK, InStep, NEW i \in Procs, StartInit(i)
  PROVE  /\ TypeOK' /\ Others(i)
         /\ UNCHANGED <<live, snap, registry, tmp, scope, issued, fresh, mishaps>>
         /\ profiles' = profiles \cup {Default}
         /\ At(i, "start") /\ Cmd(i).op = "init"
         /\ proc'[i].pc = "agent" /\ proc'[i].cmd = proc[i].cmd /\ proc'[i].result = proc[i].result
<1>1. Cmd(i) \in Commands /\ proc[i] \in ProcStates
  BY Where DEF StartInit, At, TypeOK
<1>2. Cmd(i).agents \in SUBSET Agents
  BY <1>1, CommandFields
<1> DEFINE r == [proc[i] EXCEPT !.pc = "agent", !.todo = Cmd(i).agents]
<1>3. r \in ProcStates /\ r.pc = "agent" /\ r.cmd = proc[i].cmd /\ r.result = proc[i].result
  BY <1>1, <1>2 DEF ProcStates
<1>4. proc' = [proc EXCEPT ![i] = r]
  BY DEF StartInit
<1> HIDE DEF r
<1>5. proc' \in [Procs -> ProcStates] /\ proc'[i] = r /\ Others(i)
  BY <1>3, <1>4, Replaced
<1>6. TypeOK'
  BY <1>5, Names DEF TypeOK, StartInit, Quietly
<1> QED
  BY <1>3, <1>5, <1>6 DEF StartInit, Quietly

(* use and restore: the targets are checked, and set out.                     *)
LEMMA StartUseEffect ==
  ASSUME TypeOK, InStep, NEW i \in Procs, StartUse(i)
  PROVE  /\ TypeOK' /\ At(i, "start") /\ Cmd(i).op \in {"use", "restore"}
         /\ \/ Fails(i)
            \/ /\ Others(i) /\ UNCHANGED <<disk, scope, issued, fresh, mishaps>>
               /\ proc'[i].pc = "agent" /\ proc'[i].cmd = proc[i].cmd
               /\ proc'[i].result = proc[i].result /\ proc'[i].blocked = proc[i].blocked
               /\ Cmd(i).op = "restore" => proc'[i].done = {}
               /\ Cmd(i).op = "use" => proc'[i].todo = proc'[i].done \cap SymlinkTier
<1>1. Cmd(i) \in Commands /\ proc[i] \in ProcStates
  BY Where DEF StartUse, At, TypeOK
<1> DEFINE p == Cmd(i).profile
           targets == IF Cmd(i).explicit THEN Cmd(i).agents ELSE WithSnapshot(p)
           refused == \/ p \notin profiles
                      \/ Cmd(i).op = "use" /\ (targets = {} \/ ~targets \subseteq WithSnapshot(p))
<1>2. targets \in SUBSET Agents
  BY <1>1, CommandFields DEF WithSnapshot
<1>3. At(i, "start") /\ Cmd(i).op \in {"use", "restore"}
  BY DEF StartUse
<1>4. CASE refused
  <2>1. Fail(i, "plan")
    BY <1>4 DEF StartUse
  <2> QED
    BY <1>3, <2>1, FailEffect DEF Outcomes
<1>5. CASE ~refused
  <2> DEFINE todo == IF Cmd(i).op = "use" THEN targets \cap SymlinkTier ELSE targets
             done == IF Cmd(i).op = "use" THEN targets ELSE {}
             r == [proc[i] EXCEPT !.pc = "agent", !.todo = todo, !.done = done]
  <2>1. proc' = [proc EXCEPT ![i] = r] /\ NoFiles /\ Quietly
    BY <1>5 DEF StartUse
  <2>2. /\ todo \in SUBSET Agents /\ done \in SUBSET Agents
        /\ Cmd(i).op = "restore" => done = {}
        /\ Cmd(i).op = "use" => todo = done \cap SymlinkTier
    BY <1>2
  <2> HIDE DEF todo, done
  <2>3. /\ r \in ProcStates /\ r.pc = "agent" /\ r.cmd = proc[i].cmd
        /\ r.result = proc[i].result /\ r.todo = todo /\ r.done = done
        /\ r.blocked = proc[i].blocked
    BY <1>1, <2>2 DEF ProcStates
  <2> HIDE DEF r
  <2>4. proc' \in [Procs -> ProcStates] /\ proc'[i] = r /\ Others(i)
    BY <2>1, <2>3, Replaced
  <2> QED
    BY <1>3, <2>1, <2>2, <2>3, <2>4, QuietStep
<1> QED
  BY <1>4, <1>5

LEMMA StartSaveEffect ==
  ASSUME TypeOK, InStep, NEW i \in Procs, StartSave(i)
  PROVE  /\ TypeOK' /\ At(i, "start") /\ Cmd(i).op = "save"
         /\ \/ Fails(i)
            \/ /\ Others(i) /\ UNCHANGED <<disk, scope, issued, fresh, mishaps>>
               /\ proc'[i].pc = "agent" /\ proc'[i].cmd = proc[i].cmd
               /\ proc'[i].result = proc[i].result
<1>1. Cmd(i) \in Commands /\ proc[i] \in ProcStates
  BY Where DEF StartSave, At, TypeOK
<1>2. Cmd(i).agents \in SUBSET Agents
  BY <1>1, CommandFields
<1>3. At(i, "start") /\ Cmd(i).op = "save"
  BY DEF StartSave
<1>4. CASE registry = Torn
  <2>1. Fail(i, "registry_load")
    BY <1>4 DEF StartSave
  <2> QED
    BY <1>3, <2>1, FailEffect DEF Outcomes
<1>5. CASE registry # Torn
  <2> DEFINE r == [proc[i] EXCEPT !.pc = "agent", !.reg = registry, !.todo = Cmd(i).agents]
  <2>1. proc' = [proc EXCEPT ![i] = r] /\ NoFiles /\ Quietly
    BY <1>5 DEF StartSave
  <2>2. registry \in Registries
    BY <1>5 DEF TypeOK
  <2>3. r \in ProcStates /\ r.pc = "agent" /\ r.cmd = proc[i].cmd /\ r.result = proc[i].result
    BY <1>1, <1>2, <2>2 DEF ProcStates
  <2> HIDE DEF r
  <2>4. proc' \in [Procs -> ProcStates] /\ proc'[i] = r /\ Others(i)
    BY <2>1, <2>3, Replaced
  <2> QED
    BY <1>3, <2>1, <2>3, <2>4, QuietStep
<1> QED
  BY <1>4, <1>5

(* create: a new profile, into which the snapshots of another one are to come. *)
LEMMA StartCreateEffect ==
  ASSUME TypeOK, InStep, NEW i \in Procs, StartCreate(i)
  PROVE  /\ TypeOK' /\ At(i, "start") /\ Cmd(i).op = "create"
         /\ \/ Fails(i)
            \/ /\ Others(i) /\ UNCHANGED <<live, snap, registry, tmp, scope, issued, fresh, mishaps>>
               /\ profiles' = profiles \cup {Cmd(i).profile}
               /\ Cmd(i).profile \notin profiles /\ Cmd(i).from \in profiles \cup {None}
               /\ proc'[i].pc = "agent" /\ proc'[i].cmd = proc[i].cmd
               /\ proc'[i].result = proc[i].result
               /\ proc'[i].todo = IF Cmd(i).from = None THEN {} ELSE WithSnapshot(Cmd(i).from)
<1>1. Cmd(i) \in Commands /\ proc[i] \in ProcStates
  BY Where DEF StartCreate, At, TypeOK
<1>2. At(i, "start") /\ Cmd(i).op = "create"
  BY DEF StartCreate
<1>3. CASE Cmd(i).profile \in profiles \/ Cmd(i).from \notin profiles \cup {None}
  <2>1. Fail(i, "plan")
    BY <1>3 DEF StartCreate
  <2> QED
    BY <1>2, <2>1, FailEffect DEF Outcomes
<1>4. CASE ~(Cmd(i).profile \in profiles \/ Cmd(i).from \notin profiles \cup {None})
  <2> DEFINE todo == IF Cmd(i).from = None THEN {} ELSE WithSnapshot(Cmd(i).from)
             r == [proc[i] EXCEPT !.pc = "agent", !.todo = todo]
  <2>1. /\ proc' = [proc EXCEPT ![i] = r] /\ profiles' = profiles \cup {Cmd(i).profile}
        /\ UNCHANGED <<live, snap, registry, tmp>> /\ Quietly
    BY <1>4 DEF StartCreate
  <2>2. todo \in SUBSET Agents
    BY DEF WithSnapshot
  <2> HIDE DEF todo
  <2>3. /\ r \in ProcStates /\ r.pc = "agent" /\ r.cmd = proc[i].cmd
        /\ r.result = proc[i].result /\ r.todo = todo
    BY <1>1, <2>2 DEF ProcStates
  <2> HIDE DEF r
  <2>4. proc' \in [Procs -> ProcStates] /\ proc'[i] = r /\ Others(i)
    BY <2>1, <2>3, Replaced
  <2>5. TypeOK'
    BY <1>1, <1>2, <2>1, <2>4, CommandFields DEF TypeOK, Quietly
  <2> QED
    BY <1>2, <1>4, <2>1, <2>3, <2>4, <2>5 DEF todo, Quietly
<1> QED
  BY <1>3, <1>4

LEMMA StartDeleteEffect ==
  ASSUME TypeOK, InStep, NEW i \in Procs, StartDelete(i)
  PROVE  /\ TypeOK' /\ At(i, "start") /\ Cmd(i).op = "delete"
         /\ \/ Fails(i)
            \/ /\ Others(i) /\ UNCHANGED <<disk, scope, issued, fresh, mishaps>>
               /\ proc'[i].pc = "check" /\ proc'[i].cmd = proc[i].cmd
               /\ proc'[i].result = proc[i].result
               /\ proc'[i].reg = registry
<1>1. At(i, "start") /\ Cmd(i).op = "delete" /\ proc[i] \in ProcStates
  BY DEF StartDelete, TypeOK
<1>2. CASE Cmd(i).profile \notin profiles
  <2>1. Fail(i, "plan")
    BY <1>2 DEF StartDelete
  <2> QED
    BY <1>1, <2>1, FailEffect DEF Outcomes
<1>3. CASE Cmd(i).profile \in profiles /\ registry = Torn
  <2>1. Fail(i, "registry_load")
    BY <1>3 DEF StartDelete
  <2> QED
    BY <1>1, <2>1, FailEffect DEF Outcomes
<1>4. CASE Cmd(i).profile \in profiles /\ registry # Torn
  <2> DEFINE r == [proc[i] EXCEPT !.pc = "check", !.reg = registry]
  <2>1. proc' = [proc EXCEPT ![i] = r] /\ NoFiles /\ Quietly
    BY <1>4 DEF StartDelete
  <2>2. registry \in Registries
    BY <1>4 DEF TypeOK
  <2>3. /\ r \in ProcStates /\ r.pc = "check" /\ r.cmd = proc[i].cmd
        /\ r.result = proc[i].result /\ r.reg = registry
    BY <1>1, <2>2 DEF ProcStates
  <2> HIDE DEF r
  <2>4. proc' \in [Procs -> ProcStates] /\ proc'[i] = r /\ Others(i)
    BY <2>1, <2>3, Replaced
  <2> QED
    BY <1>1, <2>1, <2>3, <2>4, QuietStep
<1> QED
  BY <1>2, <1>3, <1>4

(* Re-pointing a link: it leads to a snapshot, and no directory is lost.       *)
LEMMA RepointEffect ==
  ASSUME TypeOK, InStep, NEW i \in Procs, ~At(i, "idle"), proc[i].todo # {},
         NEW p \in Profiles, Repoint(i, p)
  PROVE  /\ TypeOK'
         /\ \/ Fails(i)
            \/ /\ Others(i)
               /\ UNCHANGED <<profiles, snap, registry, tmp, scope, issued, fresh, mishaps>>
               /\ live' = [live EXCEPT ![Agent(i)] = Link(p)]
               /\ snap[p][Agent(i)] # None /\ live[Agent(i)].kind # "dir"
               /\ proc'[i].pc = "agent" /\ proc'[i].cmd = proc[i].cmd
               /\ proc'[i].result = proc[i].result
               /\ proc'[i].todo = proc[i].todo \ {Agent(i)}
               /\ proc'[i].done = proc[i].done \cup {Agent(i)}
               /\ proc'[i].blocked = proc[i].blocked
<1>1. CASE ~Repointable(Agent(i), p)
  <2>1. Fail(i, "agent")
    BY <1>1 DEF Repoint
  <2> QED
    BY <2>1, FailEffect DEF Outcomes
<1>2. CASE Repointable(Agent(i), p)
  <2>1. /\ live' = [live EXCEPT ![Agent(i)] = Link(p)]
        /\ AdvanceRecording(i)
        /\ UNCHANGED <<profiles, snap, registry, tmp>> /\ Quietly
    BY <1>2 DEF Repoint
  <2>2. Link(p) \in Lives
    BY NewLives
  <2>3. proc' \in [Procs -> ProcStates]
    BY <2>1, RecordingEffect
  <2>4. TypeOK'
    BY <2>1, <2>2, <2>3 DEF TypeOK, Quietly
  <2> QED
    BY <1>2, <2>1, <2>4, RecordingEffect DEF Repointable, Quietly
<1> QED
  BY <1>1, <1>2

LEMMA SkipEffect ==
  ASSUME TypeOK, InStep, NEW i \in Procs, SkipRunningIde(i)
  PROVE  /\ TypeOK' /\ Others(i) /\ UNCHANGED <<disk, scope, issued, fresh, mishaps>>
         /\ At(i, "agent") /\ Cmd(i).op \in {"use", "restore"}
         /\ proc'[i].pc = "agent" /\ proc'[i].cmd = proc[i].cmd /\ proc'[i].result = proc[i].result
         /\ Agent(i) \in proc[i].todo
         /\ proc'[i].todo = proc[i].todo \ {Agent(i)} /\ proc'[i].done = proc[i].done
         /\ proc'[i].blocked = proc[i].blocked \cup {Agent(i)}
<1>1. At(i, "agent") /\ Cmd(i).op \in {"use", "restore"} /\ proc[i].todo # {}
  BY DEF SkipRunningIde
<1>2. Agent(i) \in Agents /\ Agent(i) \in proc[i].todo /\ proc[i] \in ProcStates
  BY <1>1, AtWork DEF At, TypeOK
<1> DEFINE r == [proc[i] EXCEPT !.todo = proc[i].todo \ {Agent(i)},
                                !.blocked = proc[i].blocked \cup {Agent(i)}]
<1>3. proc' = [proc EXCEPT ![i] = r] /\ NoFiles /\ Quietly
  BY DEF SkipRunningIde
<1>4. /\ r \in ProcStates /\ r.pc = proc[i].pc /\ r.cmd = proc[i].cmd /\ r.result = proc[i].result
      /\ r.todo = proc[i].todo \ {Agent(i)} /\ r.done = proc[i].done
      /\ r.blocked = proc[i].blocked \cup {Agent(i)}
  BY <1>2 DEF ProcStates
<1> HIDE DEF r
<1>5. proc' \in [Procs -> ProcStates] /\ proc'[i] = r /\ Others(i)
  BY <1>3, <1>4, Replaced
<1> QED
  BY <1>1, <1>2, <1>3, <1>4, <1>5, QuietStep DEF At

(* restore of an env-tier agent: the live directory goes, then comes anew.     *)
LEMMA RestoreWipeEffect ==
  ASSUME TypeOK, InStep, NEW i \in Procs, RestoreWipe(i)
  PROVE  /\ TypeOK' /\ At(i, "agent") /\ Cmd(i).op = "restore" /\ proc[i].todo # {}
         /\ Agent(i) \notin SymlinkTier
         /\ \/ Fails(i)
            \/ /\ Others(i)
               /\ UNCHANGED <<profiles, snap, registry, tmp, scope, issued, fresh, mishaps>>
               /\ live' = [live EXCEPT ![Agent(i)] = Absent]
               /\ proc'[i].pc = "copy" /\ proc'[i].cmd = proc[i].cmd
               /\ proc'[i].todo = proc[i].todo /\ proc'[i].done = proc[i].done
               /\ proc'[i].blocked = proc[i].blocked /\ proc'[i].result = proc[i].result
<1>1. /\ At(i, "agent") /\ Cmd(i).op = "restore" /\ proc[i].todo # {}
      /\ Agent(i) \notin SymlinkTier
  BY DEF RestoreWipe
<1> DEFINE refused == \/ snap[Cmd(i).profile][Agent(i)] = None
                      \/ live[Agent(i)].kind \in {"link", "foreign"}
<1>2. CASE refused
  <2>1. Fail(i, "agent")
    BY <1>2 DEF RestoreWipe
  <2> QED
    BY <1>1, <2>1, FailEffect DEF Outcomes
<1>3. CASE ~refused
  <2>1. /\ live' = [live EXCEPT ![Agent(i)] = Absent]
        /\ Goto(i, "copy")
        /\ UNCHANGED <<profiles, snap, registry, tmp>> /\ Quietly
    BY <1>3 DEF RestoreWipe
  <2>2. "copy" \in PCs /\ Absent \in Lives
    BY NewLives DEF PCs
  <2>3. proc' \in [Procs -> ProcStates]
    BY <2>1, <2>2, GotoEffect
  <2>4. TypeOK'
    BY <2>1, <2>2, <2>3 DEF TypeOK, Quietly
  <2> QED
    BY <1>1, <2>1, <2>2, <2>4, GotoEffect DEF Quietly
<1> QED
  BY <1>2, <1>3

(* save and init pass over an agent, are refused, or go on with it; then it has *)
(* a directory.                                                                *)
LEMMA LookEffect ==
  ASSUME TypeOK, InStep, NEW i \in Procs, LookAtLive(i)
  PROVE  /\ TypeOK' /\ At(i, "agent") /\ Cmd(i).op \in {"save", "init"} /\ proc[i].todo # {}
         /\ \/ Fails(i)
            \/ /\ Others(i) /\ UNCHANGED <<disk, scope, issued, fresh, mishaps>>
               /\ proc'[i].pc = "agent" /\ proc'[i].cmd = proc[i].cmd
               /\ proc'[i].result = proc[i].result
            \/ /\ Others(i) /\ UNCHANGED <<disk, scope, issued, fresh, mishaps>>
               /\ proc'[i].pc = "wipe" /\ proc'[i].cmd = proc[i].cmd
               /\ proc'[i].result = proc[i].result
               /\ proc'[i].todo = proc[i].todo /\ proc'[i].reg = proc[i].reg
               /\ Target(i) # None /\ live[Agent(i)] # Absent
               /\ Cmd(i).op = "save" => Agent(i) \notin SymlinkTier
               /\ Agent(i) \in SymlinkTier => live[Agent(i)].kind # "link"
<1> DEFINE a == Agent(i)
           p == Target(i)
<1>1. At(i, "agent") /\ Cmd(i).op \in {"save", "init"} /\ proc[i].todo # {}
  BY DEF LookAtLive
<1>2. "wipe" \in PCs /\ "agent" \in Outcomes \ {"ok"}
  BY DEF PCs, Outcomes
<1>3. ASSUME Advance(i), NoFiles, Quietly
      PROVE  /\ TypeOK' /\ Others(i) /\ UNCHANGED <<disk, scope, issued, fresh, mishaps>>
             /\ proc'[i].pc = "agent" /\ proc'[i].cmd = proc[i].cmd
             /\ proc'[i].result = proc[i].result
  BY <1>3, AdvanceEffect, QuietStep
<1>4. ASSUME Goto(i, "wipe"), NoFiles, Quietly
      PROVE  /\ TypeOK' /\ Others(i) /\ UNCHANGED <<disk, scope, issued, fresh, mishaps>>
             /\ proc'[i].pc = "wipe" /\ proc'[i].cmd = proc[i].cmd
             /\ proc'[i].result = proc[i].result
             /\ proc'[i].todo = proc[i].todo /\ proc'[i].reg = proc[i].reg
  BY <1>2, <1>4, GotoEffect, QuietStep
<1>5. ASSUME Fail(i, "agent") PROVE TypeOK' /\ Fails(i)
  BY <1>2, <1>5, FailEffect
<1>6. CASE Cmd(i).op = "save"
  <2>1. \/ Advance(i) /\ NoFiles /\ Quietly
        \/ Fail(i, "agent")
        \/ /\ Goto(i, "wipe") /\ NoFiles /\ Quietly
           /\ p # None /\ a \notin SymlinkTier /\ live[a] # Absent
    BY <1>6 DEF LookAtLive
  <2> QED
    BY <1>1, <1>3, <1>4, <1>5, <2>1
<1>7. CASE Cmd(i).op = "init"
  <2>1. \/ Advance(i) /\ NoFiles /\ Quietly
        \/ /\ Goto(i, "wipe") /\ NoFiles /\ Quietly
           /\ live[a] # Absent /\ (a \in SymlinkTier => live[a].kind # "link")
    BY <1>7 DEF LookAtLive, NothingToSnapshot
  <2>2. p # None
    <3>1. Cmd(i) \in Commands
      BY <1>1, Where DEF At
    <3>2. Cmd(i).profile = Default
      BY <1>7, <3>1, CommandFields
    <3> QED
      BY <3>2, Names DEF Target
  <2> QED
    BY <1>1, <1>3, <1>4, <1>7, <2>1, <2>2
<1> QED
  BY <1>1, <1>6, <1>7

(* The place of a snapshot is made free.                                      *)
LEMMA WipeEffect ==
  ASSUME TypeOK, InStep, NEW i \in Procs, WipeSnapshot(i)
  PROVE  /\ TypeOK' /\ At(i, "wipe") /\ Others(i)
         /\ UNCHANGED <<live, registry, tmp, scope, issued, fresh, mishaps>>
         /\ Agent(i) \in Agents /\ Target(i) \in Profiles
         /\ profiles' = profiles \cup {Target(i)}
         /\ snap' = [snap EXCEPT ![Target(i)][Agent(i)] = None]
         /\ proc'[i].pc = IF Agent(i) \in SymlinkTier THEN "move" ELSE "copy"
         /\ proc'[i].cmd = proc[i].cmd /\ proc'[i].result = proc[i].result
         /\ proc'[i].todo = proc[i].todo /\ proc'[i].reg = proc[i].reg
<1>1. At(i, "wipe") /\ ~At(i, "idle")
  BY DEF WipeSnapshot, At
<1>2. proc[i].todo # {} /\ Target(i) # None
  BY <1>1, Where DEF At
<1>3. Agent(i) \in Agents /\ Target(i) \in Profiles
  BY <1>1, <1>2, AtWork
<1> DEFINE pc == IF Agent(i) \in SymlinkTier THEN "move" ELSE "copy"
<1>4. pc \in PCs
  BY DEF PCs
<1>5. Goto(i, pc) /\ Quietly /\ UNCHANGED <<live, registry, tmp>>
      /\ profiles' = profiles \cup {Target(i)}
      /\ snap' = [snap EXCEPT ![Target(i)][Agent(i)] = None]
  BY DEF WipeSnapshot
<1> HIDE DEF pc
<1>6. /\ proc' \in [Procs -> ProcStates] /\ Others(i) /\ proc'[i].pc = pc
      /\ proc'[i].cmd = proc[i].cmd /\ proc'[i].result = proc[i].result
      /\ proc'[i].todo = proc[i].todo /\ proc'[i].reg = proc[i].reg
  BY <1>4, <1>5, GotoEffect
<1>7. TypeOK'
  BY <1>3, <1>5, <1>6 DEF TypeOK, Quietly
<1> QED
  BY <1>1, <1>3, <1>5, <1>6, <1>7 DEF Quietly, pc

(* The config directory becomes the snapshot; nothing is there afterwards.     *)
LEMMA MoveEffect ==
  ASSUME TypeOK, InStep, NEW i \in Procs, MoveLive(i)
  PROVE  /\ TypeOK' /\ At(i, "move") /\ Others(i) /\ Agent(i) \in Agents
         /\ UNCHANGED <<registry, tmp, scope, issued, fresh, mishaps>>
         /\ profiles' = profiles \cup {Default}
         /\ \E c \in Contents :
              /\ snap' = [snap EXCEPT ![Default][Agent(i)] = c]
              /\ live[Agent(i)].kind \in {"dir", "foreign"} => c = live[Agent(i)].at
         /\ live' = [live EXCEPT ![Agent(i)] = Absent]
         /\ proc'[i].pc = "link" /\ proc'[i].cmd = proc[i].cmd
         /\ proc'[i].result = proc[i].result /\ proc'[i].todo = proc[i].todo
<1>1. At(i, "move") /\ ~At(i, "idle")
  BY DEF MoveLive, At
<1>2. Agent(i) \in Agents
  BY <1>1, Where, AtWork DEF At, Moving
<1> DEFINE a == Agent(i)
           moved == IF live[a].kind \in {"dir", "foreign"} THEN live[a].at ELSE Partial
<1>3. moved \in Contents /\ (live[a].kind \in {"dir", "foreign"} => moved = live[a].at)
  <2>1. live[a] \in Lives
    BY <1>2 DEF TypeOK
  <2> QED
    BY <2>1, LiveFields, Names
<1>4. /\ profiles' = profiles \cup {Default}
      /\ snap' = [snap EXCEPT ![Default][a] = moved]
      /\ live' = [live EXCEPT ![a] = Absent]
      /\ Goto(i, "link") /\ UNCHANGED <<registry, tmp>> /\ Quietly
  BY DEF MoveLive
<1> HIDE DEF moved
<1>5. /\ live' \in [Agents -> Lives] /\ profiles' \in SUBSET Profiles
      /\ snap' \in [Profiles -> [Agents -> Contents \cup {None}]]
  BY <1>2, <1>3, <1>4, Names, NewLives DEF TypeOK
<1>6. "link" \in PCs
  BY DEF PCs
<1>7. /\ proc' \in [Procs -> ProcStates] /\ Others(i) /\ proc'[i].pc = "link"
      /\ proc'[i].cmd = proc[i].cmd /\ proc'[i].result = proc[i].result
      /\ proc'[i].todo = proc[i].todo
  BY <1>4, <1>6, GotoEffect
<1>8. TypeOK'
  BY <1>4, <1>5, <1>7 DEF TypeOK, Quietly
<1> QED
  BY <1>1, <1>2, <1>3, <1>4, <1>7, <1>8 DEF Quietly

(* The copy that a refused rename is replaced by begins, with less than all.    *)
LEMMA RenameRefusedEffect ==
  ASSUME TypeOK, InStep, NEW i \in Procs, RenameRefused(i)
  PROVE  /\ TypeOK' /\ At(i, "move") /\ Others(i) /\ Agent(i) \in Agents
         /\ UNCHANGED <<live, registry, tmp, scope, issued, fresh, mishaps>>
         /\ profiles' = profiles \cup {Default}
         /\ snap' = [snap EXCEPT ![Default][Agent(i)] = Partial]
         /\ proc'[i].pc = "relocating" /\ proc'[i].cmd = proc[i].cmd
         /\ proc'[i].result = proc[i].result /\ proc'[i].todo = proc[i].todo
<1>1. At(i, "move") /\ ~At(i, "idle")
  BY DEF RenameRefused, At
<1>2. Agent(i) \in Agents
  BY <1>1, Where, AtWork DEF At, Moving
<1>3. /\ profiles' = profiles \cup {Default}
      /\ snap' = [snap EXCEPT ![Default][Agent(i)] = Partial]
      /\ Goto(i, "relocating") /\ UNCHANGED <<live, registry, tmp>> /\ Quietly
  BY DEF RenameRefused
<1>4. "relocating" \in PCs
  BY DEF PCs
<1>5. /\ proc' \in [Procs -> ProcStates] /\ Others(i) /\ proc'[i].pc = "relocating"
      /\ proc'[i].cmd = proc[i].cmd /\ proc'[i].result = proc[i].result
      /\ proc'[i].todo = proc[i].todo
  BY <1>3, <1>4, GotoEffect
<1>6. TypeOK'
  BY <1>2, <1>3, <1>5, Names DEF TypeOK, Quietly
<1> QED
  BY <1>1, <1>2, <1>3, <1>5, <1>6 DEF Quietly

(* It ends with all that the config directory shows.                           *)
LEMMA RelocatedEffect ==
  ASSUME TypeOK, InStep, NEW i \in Procs, Relocated(i)
  PROVE  /\ TypeOK' /\ At(i, "relocating") /\ Others(i) /\ Agent(i) \in Agents
         /\ UNCHANGED <<live, registry, tmp, scope, issued, fresh, mishaps>>
         /\ profiles' = profiles \cup {Default}
         /\ \E c \in Contents :
              /\ snap' = [snap EXCEPT ![Default][Agent(i)] = c]
              /\ live[Agent(i)].kind \in {"dir", "foreign"} => c = live[Agent(i)].at
         /\ proc'[i].pc = "clear" /\ proc'[i].cmd = proc[i].cmd
         /\ proc'[i].result = proc[i].result /\ proc'[i].todo = proc[i].todo
<1>1. At(i, "relocating") /\ ~At(i, "idle")
  BY DEF Relocated, At
<1>2. Agent(i) \in Agents
  BY <1>1, Where, AtWork DEF At, Moving
<1> DEFINE a == Agent(i)
           c == ReadThrough(a)
<1>3. c \in Contents /\ (live[a].kind \in {"dir", "foreign"} => c = live[a].at)
  <2>1. live[a] \in Lives /\ c # None
    BY <1>2 DEF TypeOK, Relocated
  <2>2. CASE live[a].kind = "link"
    <3>1. live[a].at \in Profiles /\ c = snap[live[a].at][a]
      BY <2>1, <2>2, LiveFields DEF ReadThrough
    <3> QED
      BY <1>2, <2>1, <2>2, <3>1 DEF TypeOK
  <2>3. CASE live[a].kind # "link"
    <3>1. c = live[a].at
      BY <2>3 DEF ReadThrough
    <3>2. live[a] # Absent
      BY <2>1, <3>1 DEF Absent
    <3> QED
      BY <2>1, <2>3, <3>1, <3>2, LiveFields
  <2> QED
    BY <2>2, <2>3
<1>4. /\ profiles' = profiles \cup {Default}
      /\ snap' = [snap EXCEPT ![Default][a] = c]
      /\ Goto(i, "clear") /\ UNCHANGED <<live, registry, tmp>> /\ Quietly
  BY DEF Relocated
<1> HIDE DEF c
<1>5. "clear" \in PCs
  BY DEF PCs
<1>6. /\ proc' \in [Procs -> ProcStates] /\ Others(i) /\ proc'[i].pc = "clear"
      /\ proc'[i].cmd = proc[i].cmd /\ proc'[i].result = proc[i].result
      /\ proc'[i].todo = proc[i].todo
  BY <1>4, <1>5, GotoEffect
<1>7. TypeOK'
  BY <1>2, <1>3, <1>4, <1>6, Names DEF TypeOK, Quietly
<1> QED
  BY <1>1, <1>2, <1>3, <1>4, <1>6, <1>7 DEF Quietly

(* The source goes: a directory begins to, a link does at once.                *)
LEMMA ClearSourceEffect ==
  ASSUME TypeOK, InStep, NEW i \in Procs, ClearSource(i)
  PROVE  /\ TypeOK' /\ At(i, "clear") /\ Others(i) /\ Agent(i) \in Agents
         /\ UNCHANGED <<profiles, snap, registry, tmp, scope, issued, fresh, mishaps>>
         /\ \/ /\ live[Agent(i)].kind = "dir" /\ proc'[i].pc = "clearing"
               /\ live' = [live EXCEPT ![Agent(i)] = Dir(Partial)]
            \/ /\ live[Agent(i)].kind # "dir" /\ proc'[i].pc = "link"
               /\ live' = [live EXCEPT ![Agent(i)] = Absent]
         /\ proc'[i].cmd = proc[i].cmd
         /\ proc'[i].result = proc[i].result /\ proc'[i].todo = proc[i].todo
<1>1. At(i, "clear") /\ ~At(i, "idle")
  BY DEF ClearSource, At
<1>2. Agent(i) \in Agents
  BY <1>1, Where, AtWork DEF At, Moving
<1> DEFINE isDir == live[Agent(i)].kind = "dir"
           pc == IF isDir THEN "clearing" ELSE "link"
           left == IF isDir THEN Dir(Partial) ELSE Absent
<1>3. /\ live' = [live EXCEPT ![Agent(i)] = left] /\ Goto(i, pc)
      /\ UNCHANGED <<profiles, snap, registry, tmp>> /\ Quietly
  BY DEF ClearSource
<1>4. pc \in PCs /\ left \in Lives
  BY Names, NewLives DEF PCs
<1> HIDE DEF pc, left
<1>5. /\ proc' \in [Procs -> ProcStates] /\ Others(i) /\ proc'[i].pc = pc
      /\ proc'[i].cmd = proc[i].cmd /\ proc'[i].result = proc[i].result
      /\ proc'[i].todo = proc[i].todo
  BY <1>3, <1>4, GotoEffect
<1>6. TypeOK'
  BY <1>2, <1>3, <1>4, <1>5 DEF TypeOK, Quietly
<1> QED
  BY <1>1, <1>2, <1>3, <1>5, <1>6 DEF Quietly, pc, left

LEMMA SourceClearedEffect ==
  ASSUME TypeOK, InStep, NEW i \in Procs, SourceCleared(i)
  PROVE  /\ TypeOK' /\ At(i, "clearing") /\ Others(i) /\ Agent(i) \in Agents
         /\ UNCHANGED <<profiles, snap, registry, tmp, scope, issued, fresh, mishaps>>
         /\ live' = [live EXCEPT ![Agent(i)] = Absent]
         /\ proc'[i].pc = "link" /\ proc'[i].cmd = proc[i].cmd
         /\ proc'[i].result = proc[i].result /\ proc'[i].todo = proc[i].todo
<1>1. At(i, "clearing") /\ ~At(i, "idle")
  BY DEF SourceCleared, At
<1>2. Agent(i) \in Agents
  BY <1>1, Where, AtWork DEF At, Moving
<1>3. /\ live' = [live EXCEPT ![Agent(i)] = Absent] /\ Goto(i, "link")
      /\ UNCHANGED <<profiles, snap, registry, tmp>> /\ Quietly
  BY DEF SourceCleared
<1>4. "link" \in PCs
  BY DEF PCs
<1>5. /\ proc' \in [Procs -> ProcStates] /\ Others(i) /\ proc'[i].pc = "link"
      /\ proc'[i].cmd = proc[i].cmd /\ proc'[i].result = proc[i].result
      /\ proc'[i].todo = proc[i].todo
  BY <1>3, <1>4, GotoEffect
<1>6. TypeOK'
  BY <1>2, <1>3, <1>5, NewLives DEF TypeOK, Quietly
<1> QED
  BY <1>1, <1>2, <1>3, <1>5, <1>6 DEF Quietly

(* A move that fails leaves everything where it is.                            *)
LEMMA MoveFailsEffect ==
  ASSUME TypeOK, NEW i \in Procs, MoveFails(i)
  PROVE  TypeOK' /\ Fails(i) /\ proc[i].pc \in {"relocating", "clear", "clearing"}
<1>1. "agent" \in Outcomes \ {"ok"}
  BY DEF Outcomes
<1> QED
  BY <1>1, FailEffect DEF MoveFails, At

(* Copying changes the live directory (restore), or the snapshot.              *)
Copies(i, c) ==
    \/ /\ Cmd(i).op = "restore" /\ Agent(i) \notin SymlinkTier
       /\ live' = [live EXCEPT ![Agent(i)] = Dir(c)] /\ UNCHANGED <<profiles, snap>>
    \/ /\ Cmd(i).op \in {"init", "save"} /\ Agent(i) \notin SymlinkTier
       /\ snap' = [snap EXCEPT ![Target(i)][Agent(i)] = c]
       /\ profiles' = profiles \cup {Target(i)} /\ live' = live
    \/ /\ Cmd(i).op = "create" /\ Target(i) = Cmd(i).profile /\ Cmd(i).from \in Profiles
       /\ snap' = [snap EXCEPT ![Cmd(i).profile][Agent(i)] = c]
       /\ profiles' = profiles \cup {Cmd(i).profile} /\ live' = live

LEMMA CopyEffect ==
  ASSUME TypeOK, InStep, NEW i \in Procs, proc[i].pc \in {"copy", "copying"},
         NEW c \in Contents, CopyTo(i, c)
  PROVE  /\ Copies(i, c) /\ Agent(i) \in Agents /\ Target(i) \in Profiles
         /\ live' \in [Agents -> Lives] /\ profiles' \in SUBSET Profiles
         /\ snap' \in [Profiles -> [Agents -> Contents \cup {None}]]
<1>0. ~At(i, "idle")
  BY DEF At
<1>1. /\ Cmd(i).op \in {"init", "save", "create", "restore"} /\ Cmd(i) \in Commands
      /\ proc[i].todo # {} /\ Target(i) # None
      /\ Cmd(i).op \in {"save", "restore"} => Agent(i) \notin SymlinkTier
      /\ Cmd(i).op = "init" => Agent(i) \notin SymlinkTier
      /\ Cmd(i).op = "create" => Cmd(i).from # None
  BY <1>0, Where DEF At, Moving
<1>2. /\ Agent(i) \in Agents /\ Target(i) \in Profiles
      /\ Cmd(i).op = "create" => Target(i) = Cmd(i).profile /\ Cmd(i).from \in Profiles
  BY <1>0, <1>1, AtWork, CommandFields, Names
<1>3. CASE Cmd(i).op = "restore"
  <2>1. live' = [live EXCEPT ![Agent(i)] = Dir(c)] /\ UNCHANGED <<profiles, snap>>
    BY <1>3 DEF CopyTo
  <2>2. Dir(c) \in Lives
    BY NewLives
  <2> QED
    BY <1>1, <1>2, <1>3, <2>1, <2>2 DEF TypeOK, Copies
<1>4. CASE Cmd(i).op # "restore"
  <2>1. /\ snap' = [snap EXCEPT ![Target(i)][Agent(i)] = c]
        /\ profiles' = profiles \cup {Target(i)} /\ live' = live
    BY <1>4 DEF CopyTo
  <2>2. snap' \in [Profiles -> [Agents -> Contents \cup {None}]]
    BY <1>2, <2>1 DEF TypeOK
  <2>3. Copies(i, c)
    BY <1>1, <1>2, <1>4, <2>1 DEF Copies
  <2> QED
    BY <1>2, <2>1, <2>2, <2>3 DEF TypeOK
<1> QED
  BY <1>3, <1>4

LEMMA BeginCloneEffect ==
  ASSUME TypeOK, InStep, NEW i \in Procs, BeginClone(i)
  PROVE  /\ TypeOK' /\ Others(i) /\ UNCHANGED <<disk, scope, issued, fresh, mishaps>>
         /\ At(i, "agent") /\ Cmd(i).op = "create" /\ proc[i].todo # {}
         /\ proc'[i].pc = "copy" /\ proc'[i].cmd = proc[i].cmd /\ proc'[i].result = proc[i].result
         /\ proc'[i].todo = proc[i].todo
<1>1. "copy" \in PCs
  BY DEF PCs
<1> QED
  BY <1>1, GotoEffect, QuietStep DEF BeginClone

LEMMA BeginCopyEffect ==
  ASSUME TypeOK, InStep, NEW i \in Procs, BeginCopy(i)
  PROVE  /\ TypeOK' /\ Others(i) /\ UNCHANGED <<registry, tmp, scope, issued, fresh, mishaps>>
         /\ At(i, "copy") /\ Copies(i, Partial)
         /\ proc'[i].pc = "copying" /\ proc'[i].cmd = proc[i].cmd
         /\ proc'[i].result = proc[i].result /\ proc'[i].todo = proc[i].todo
         /\ proc'[i].done = proc[i].done /\ proc'[i].blocked = proc[i].blocked
         /\ proc'[i].reg = proc[i].reg
<1>1. /\ At(i, "copy") /\ proc[i].pc \in {"copy", "copying"} /\ CopyTo(i, Partial)
      /\ Goto(i, "copying") /\ UNCHANGED <<registry, tmp>> /\ Quietly
  BY DEF BeginCopy, At
<1>2. "copying" \in PCs /\ Partial \in Contents
  BY Names DEF PCs
<1>3. /\ proc' \in [Procs -> ProcStates] /\ Others(i)
      /\ proc'[i].pc = "copying" /\ proc'[i].cmd = proc[i].cmd
      /\ proc'[i].result = proc[i].result /\ proc'[i].todo = proc[i].todo
      /\ proc'[i].done = proc[i].done /\ proc'[i].blocked = proc[i].blocked
      /\ proc'[i].reg = proc[i].reg
  BY <1>1, <1>2, GotoEffect
<1>4. /\ Copies(i, Partial)
      /\ live' \in [Agents -> Lives] /\ profiles' \in SUBSET Profiles
      /\ snap' \in [Profiles -> [Agents -> Contents \cup {None}]]
  BY <1>1, <1>2, CopyEffect
<1>5. TypeOK'
  BY <1>1, <1>3, <1>4 DEF TypeOK, Quietly
<1> QED
  BY <1>1, <1>3, <1>4, <1>5 DEF Quietly

LEMMA EndCopyEffect ==
  ASSUME TypeOK, InStep, NEW i \in Procs, EndCopy(i)
  PROVE  /\ TypeOK' /\ Others(i) /\ UNCHANGED <<registry, tmp, scope, issued, fresh, mishaps>>
         /\ At(i, "copying") /\ proc[i].todo # {}
         /\ CopyFrom(i) \in Contents /\ Copies(i, CopyFrom(i))
         /\ proc'[i].pc = "agent" /\ proc'[i].cmd = proc[i].cmd
         /\ proc'[i].result = proc[i].result
         /\ proc'[i].todo = proc[i].todo \ {Agent(i)}
         /\ proc'[i].done = proc[i].done \cup {Agent(i)}
         /\ proc'[i].blocked = proc[i].blocked
<1>1. /\ At(i, "copying") /\ proc[i].pc \in {"copy", "copying"} /\ ~At(i, "idle")
      /\ CopyFrom(i) # None /\ CopyTo(i, CopyFrom(i))
      /\ AdvanceRecording(i) /\ UNCHANGED <<registry, tmp>> /\ Quietly
  BY DEF EndCopy, At
<1>2. /\ proc[i].todo # {} /\ Cmd(i) \in Commands
      /\ Cmd(i).op = "create" => Cmd(i).from # None
  BY <1>1, Where
<1>3. CopyFrom(i) \in Contents
  <2>1. Agent(i) \in Agents
    BY <1>1, <1>2, AtWork
  <2>2. CASE Cmd(i).op = "restore"
    <3>1. Cmd(i).profile \in Profiles /\ CopyFrom(i) = snap[Cmd(i).profile][Agent(i)]
      BY <1>2, <2>2, CommandFields DEF CopyFrom
    <3> QED
      BY <1>1, <2>1, <3>1 DEF TypeOK
  <2>3. CASE Cmd(i).op = "create"
    <3>1. Cmd(i).from \in Profiles /\ CopyFrom(i) = snap[Cmd(i).from][Agent(i)]
      BY <1>2, <2>3, CommandFields DEF CopyFrom
    <3> QED
      BY <1>1, <2>1, <3>1 DEF TypeOK
  <2>4. CASE Cmd(i).op \notin {"restore", "create"}
    <3>1. live[Agent(i)] \in Lives
      BY <2>1 DEF TypeOK
    <3>2. CopyFrom(i) = IF live[Agent(i)].kind \in {"dir", "foreign"} THEN live[Agent(i)].at ELSE None
      BY <2>4 DEF CopyFrom
    <3> QED
      BY <1>1, <3>1, <3>2, LiveFields
  <2> QED
    BY <2>2, <2>3, <2>4
<1>4. /\ proc' \in [Procs -> ProcStates] /\ Others(i)
      /\ proc'[i].pc = "agent" /\ proc'[i].cmd = proc[i].cmd
      /\ proc'[i].result = proc[i].result
      /\ proc'[i].todo = proc[i].todo \ {Agent(i)}
      /\ proc'[i].done = proc[i].done \cup {Agent(i)}
      /\ proc'[i].blocked = proc[i].blocked
  BY <1>1, <1>2, RecordingEffect
<1>5. /\ Copies(i, CopyFrom(i))
      /\ live' \in [Agents -> Lives] /\ profiles' \in SUBSET Profiles
      /\ snap' \in [Profiles -> [Agents -> Contents \cup {None}]]
  BY <1>1, <1>3, CopyEffect
<1>6. TypeOK'
  BY <1>1, <1>4, <1>5 DEF TypeOK, Quietly
<1> QED
  BY <1>1, <1>2, <1>3, <1>4, <1>5, <1>6 DEF Quietly

(* A failed copy is left, or the new profile removed.                          *)
LEMMA CopyFailsEffect ==
  ASSUME TypeOK, InStep, NEW i \in Procs, CopyFails(i)
  PROVE  /\ TypeOK' /\ Others(i) /\ proc[i].pc \in {"copy", "copying"}
         /\ UNCHANGED <<live, registry, tmp, scope, issued, fresh>>
         /\ IF Cmd(i).op = "create"
            THEN /\ Cmd(i).profile \in Profiles /\ profiles' = profiles \ {Cmd(i).profile}
                 /\ snap' = [snap EXCEPT ![Cmd(i).profile] = [a \in Agents |-> None]]
            ELSE UNCHANGED <<profiles, snap>>
         /\ proc'[i].pc = "idle" /\ proc'[i].result # "ok"
         /\ mishaps' # {} /\ mishaps \subseteq mishaps'
<1>1. /\ proc[i].pc \in {"copy", "copying"} /\ ~At(i, "idle") /\ Ends(i, "agent")
      /\ UNCHANGED <<live, registry, tmp, scope, issued, fresh>>
      /\ IF Cmd(i).op = "create"
         THEN /\ profiles' = profiles \ {Cmd(i).profile}
              /\ snap' = [snap EXCEPT ![Cmd(i).profile] = [a \in Agents |-> None]]
         ELSE UNCHANGED <<profiles, snap>>
  BY DEF CopyFails, RemovesFailedCopy, At
<1>2. Cmd(i).op = "create" => Cmd(i).profile \in Profiles
  BY <1>1, Where, CommandFields
<1>3. "agent" \in Outcomes \ {"ok"}
  BY DEF Outcomes
<1>4. /\ proc' \in [Procs -> ProcStates] /\ Others(i) /\ proc'[i].pc = "idle"
      /\ proc'[i].result = "agent" /\ mishaps' \subseteq Mishaps
      /\ mishaps \subseteq mishaps' /\ mishaps' # {}
  BY <1>1, <1>3, EndsEffect
<1>5. /\ profiles' \in SUBSET Profiles
      /\ snap' \in [Profiles -> [Agents -> Contents \cup {None}]]
  BY <1>1, <1>2 DEF TypeOK
<1>6. TypeOK'
  BY <1>1, <1>4, <1>5 DEF TypeOK
<1> QED
  BY <1>1, <1>2, <1>4, <1>6

LEMMA AgentsDoneEffect ==
  ASSUME TypeOK, InStep, NEW i \in Procs, AgentsDone(i)
  PROVE  /\ TypeOK' /\ Others(i) /\ At(i, "agent") /\ proc[i].todo = {}
         /\ UNCHANGED <<live, profiles, registry, tmp, scope, issued, fresh>>
         /\ mishaps \subseteq mishaps'
         /\ \/ /\ Cmd(i).op \in {"save", "create"} /\ proc'[i].pc = "idle"
               /\ Cmd(i).op = "save" => snap' = snap
               /\ Cmd(i).op = "create" =>
                     /\ Cmd(i).profile \in Profiles
                     /\ snap' = [snap EXCEPT ![Cmd(i).profile] =
                          [a \in Agents |-> IF Cmd(i).explicit /\ a \notin Cmd(i).agents THEN None
                                            ELSE snap[Cmd(i).profile][a]]]
            \/ /\ Cmd(i).op \in {"init", "use", "restore"} /\ UNCHANGED <<snap, mishaps>>
               /\ proc'[i].pc = "load" /\ proc'[i].cmd = proc[i].cmd
               /\ proc'[i].result = proc[i].result /\ proc'[i].todo = proc[i].todo
               /\ proc'[i].done = proc[i].done /\ proc'[i].blocked = proc[i].blocked
<1>1. /\ At(i, "agent") /\ ~At(i, "idle") /\ proc[i].todo = {}
      /\ UNCHANGED <<scope, issued, fresh>>
  BY DEF AgentsDone, At
<1>2. Cmd(i) \in Commands /\ Cmd(i).op \in Ops \ {"delete"}
  BY <1>1, Where, CommandFields
<1>3. "ok" \in Outcomes /\ "load" \in PCs
  BY DEF Outcomes, PCs
<1>4. ASSUME Ends(i, "ok")
      PROVE  /\ proc' \in [Procs -> ProcStates] /\ Others(i) /\ proc'[i].pc = "idle"
             /\ mishaps' \subseteq Mishaps /\ mishaps \subseteq mishaps'
  BY <1>3, <1>4, EndsEffect
<1>5. CASE Cmd(i).op = "save"
  <2>1. Ends(i, "ok") /\ UNCHANGED disk
    BY <1>5 DEF AgentsDone, NoFiles
  <2>2. TypeOK'
    BY <1>1, <1>4, <2>1 DEF TypeOK, disk
  <2> QED
    BY <1>1, <1>4, <1>5, <2>1, <2>2 DEF disk
<1>6. CASE Cmd(i).op = "create"
  <2> DEFINE kept == [a \in Agents |-> IF Cmd(i).explicit /\ a \notin Cmd(i).agents THEN None
                                       ELSE snap[Cmd(i).profile][a]]
  <2>0. Cmd(i).profile \in Profiles
    BY <1>2, <1>6, CommandFields
  <2>1. /\ Ends(i, "ok") /\ UNCHANGED <<live, profiles, registry, tmp>>
        /\ snap' = [snap EXCEPT ![Cmd(i).profile] = kept]
    BY <1>6 DEF AgentsDone
  <2>2. snap' \in [Profiles -> [Agents -> Contents \cup {None}]]
    <3>1. kept \in [Agents -> Contents \cup {None}]
      BY <2>0 DEF TypeOK
    <3> HIDE DEF kept
    <3> QED
      BY <2>1, <3>1 DEF TypeOK
  <2>3. TypeOK'
    BY <1>1, <1>4, <2>1, <2>2 DEF TypeOK
  <2> QED
    BY <1>1, <1>4, <1>6, <2>0, <2>1, <2>3
<1>7. CASE Cmd(i).op \in {"init", "use", "restore"}
  <2>1. Goto(i, "load") /\ UNCHANGED disk /\ UNCHANGED mishaps
    BY <1>7 DEF AgentsDone, NoFiles
  <2>2. /\ proc' \in [Procs -> ProcStates] /\ Others(i)
        /\ proc'[i].pc = "load" /\ proc'[i].cmd = proc[i].cmd
        /\ proc'[i].result = proc[i].result /\ proc'[i].todo = proc[i].todo
        /\ proc'[i].done = proc[i].done /\ proc'[i].blocked = proc[i].blocked
    BY <1>3, <2>1, GotoEffect
  <2>3. TypeOK'
    BY <1>1, <2>1, <2>2 DEF TypeOK, disk
  <2> QED
    BY <1>1, <1>7, <2>1, <2>2, <2>3 DEF disk
<1> QED
  BY <1>2, <1>5, <1>6, <1>7 DEF Ops

(* delete: nobody may use the profile; then its snapshots go one by one.       *)
LEMMA CheckDeleteEffect ==
  ASSUME TypeOK, InStep, NEW i \in Procs, CheckDelete(i)
  PROVE  /\ TypeOK' /\ At(i, "check")
         /\ \/ Fails(i)
            \/ /\ Others(i) /\ UNCHANGED <<disk, scope, issued, fresh, mishaps>>
               /\ \A a \in SymlinkTier : /\ live[a] # Link(Cmd(i).profile)
                                         /\ proc[i].reg.active[a] # Cmd(i).profile
               /\ proc'[i].pc = "remove" /\ proc'[i].cmd = proc[i].cmd
               /\ proc'[i].result = proc[i].result /\ proc'[i].reg = proc[i].reg
<1>1. At(i, "check")
  BY DEF CheckDelete
<1>2. CASE InUse(i, Cmd(i).profile)
  <2>1. Fail(i, "agent")
    BY <1>2 DEF CheckDelete
  <2> QED
    BY <1>1, <2>1, FailEffect DEF Outcomes
<1>3. CASE ~InUse(i, Cmd(i).profile)
  <2>1. Goto(i, "remove") /\ NoFiles /\ Quietly
    BY <1>3 DEF CheckDelete
  <2>2. "remove" \in PCs
    BY DEF PCs
  <2>3. \A a \in SymlinkTier : /\ live[a] # Link(Cmd(i).profile)
                               /\ proc[i].reg.active[a] # Cmd(i).profile
    BY <1>3 DEF InUse
  <2> QED
    BY <1>1, <2>1, <2>2, <2>3, GotoEffect, QuietStep
<1> QED
  BY <1>2, <1>3

LEMMA RemoveSubtreeEffect ==
  ASSUME TypeOK, InStep, NEW i \in Procs, NEW a \in Agents, RemoveSubtree(i, a)
  PROVE  /\ TypeOK' /\ At(i, "remove") /\ Cmd(i).profile \in Profiles
         /\ UNCHANGED <<live, profiles, registry, tmp, proc, scope, issued, fresh, mishaps>>
         /\ snap' = [snap EXCEPT ![Cmd(i).profile][a] = None]
<1>1. At(i, "remove") /\ ~At(i, "idle") /\ proc[i].pc \in {"check", "remove"}
  BY DEF RemoveSubtree, At
<1>2. Cmd(i).profile \in Profiles
  <2>1. Cmd(i).op = "delete" /\ Cmd(i) \in Commands
    BY <1>1, Where
  <2> QED
    BY <2>1, CommandFields
<1> QED
  BY <1>1, <1>2 DEF RemoveSubtree, Quietly, TypeOK

LEMMA RemoveProfileEffect ==
  ASSUME TypeOK, InStep, NEW i \in Procs, RemoveProfile(i)
  PROVE  /\ TypeOK' /\ At(i, "remove") /\ WithSnapshot(Cmd(i).profile) = {}
         /\ Cmd(i).profile \in Profiles
         /\ \/ Fails(i)
            \/ /\ Others(i) /\ UNCHANGED <<live, snap, registry, tmp, scope, issued, fresh>>
               /\ profiles' = profiles \ {Cmd(i).profile} /\ mishaps \subseteq mishaps'
               /\ proc'[i].pc = "idle"
            \/ /\ Others(i) /\ UNCHANGED <<live, snap, registry, tmp, scope, issued, fresh, mishaps>>
               /\ profiles' = profiles \ {Cmd(i).profile}
               /\ proc'[i].pc = "truncate" /\ proc'[i].cmd = proc[i].cmd
               /\ proc'[i].result = proc[i].result
               /\ proc'[i].reg = Pruned(proc[i].reg, Cmd(i).profile)
<1>1. /\ At(i, "remove") /\ ~At(i, "idle") /\ proc[i].pc \in {"check", "remove"}
      /\ WithSnapshot(Cmd(i).profile) = {}
  BY DEF RemoveProfile, At
<1>2. Cmd(i).profile \in Profiles
  <2>1. Cmd(i).op = "delete" /\ Cmd(i) \in Commands
    BY <1>1, Where
  <2> QED
    BY <2>1, CommandFields
<1> DEFINE p == Cmd(i).profile
           reg == Pruned(proc[i].reg, p)
<1>3. CASE p \notin profiles
  <2>1. Fail(i, "agent")
    BY <1>3 DEF RemoveProfile
  <2> QED
    BY <1>1, <1>2, <2>1, FailEffect DEF Outcomes
<1>4. CASE p \in profiles
  <2>1. /\ profiles' = profiles \ {p}
        /\ UNCHANGED <<live, snap, registry, tmp, scope, issued, fresh>>
        /\ IF reg = proc[i].reg THEN Ends(i, "ok")
           ELSE /\ proc' = [proc EXCEPT ![i].pc = "truncate", ![i].reg = reg]
                /\ UNCHANGED mishaps
    BY <1>4 DEF RemoveProfile
  <2>2. proc[i] \in ProcStates
    BY DEF TypeOK
  <2>3. reg \in Registries
    <3>1. proc[i].reg \in Registries
      BY <2>2, ProcFields
    <3> QED
      BY <3>1, RegistryFacts DEF Pruned, Registries
  <2>4. CASE reg = proc[i].reg
    <3>1. Ends(i, "ok") /\ "ok" \in Outcomes
      BY <2>1, <2>4 DEF Outcomes
    <3>2. /\ proc' \in [Procs -> ProcStates] /\ Others(i) /\ proc'[i].pc = "idle"
          /\ mishaps' \subseteq Mishaps /\ mishaps \subseteq mishaps'
      BY <3>1, EndsEffect
    <3>3. TypeOK'
      BY <2>1, <3>2 DEF TypeOK
    <3> QED
      BY <1>1, <1>2, <2>1, <3>2, <3>3
  <2>5. CASE reg # proc[i].reg
    <3> DEFINE r == [proc[i] EXCEPT !.pc = "truncate", !.reg = reg]
    <3>1. proc' = [proc EXCEPT ![i] = r] /\ UNCHANGED mishaps
      BY <2>1, <2>5
    <3> HIDE DEF reg
    <3>2. /\ r \in ProcStates /\ r.pc = "truncate" /\ r.cmd = proc[i].cmd
          /\ r.result = proc[i].result /\ r.reg = reg
      BY <2>2, <2>3 DEF ProcStates
    <3> HIDE DEF r
    <3>3. proc' \in [Procs -> ProcStates] /\ proc'[i] = r /\ Others(i)
      BY <3>1, <3>2, Replaced
    <3>4. TypeOK'
      BY <2>1, <3>1, <3>3 DEF TypeOK
    <3> QED
      BY <1>1, <1>2, <2>1, <3>1, <3>2, <3>3, <3>4 DEF reg
  <2> QED
    BY <2>4, <2>5
<1> QED
  BY <1>3, <1>4

(* The registry: loaded and completed, written under another name, renamed.    *)
LEMMA RecordedTyped ==
  ASSUME TypeOK, InStep, NEW i \in Procs, At(i, "load"), NEW reg \in Registries
  PROVE  /\ Recorded(i, reg) \in Registries
         /\ \A a \in SymlinkTier : Recorded(i, reg).active[a] =
               IF Cmd(i).op = "init" THEN Linked(a)
               ELSE IF a \in ToRecord(i) THEN Cmd(i).profile ELSE reg.active[a]
         /\ Cmd(i).op = "init" => Recorded(i, reg).default # None
<1>1. ~At(i, "idle")
  BY DEF At
<1>2. Cmd(i).op \in {"init", "use", "restore"} /\ Cmd(i) \in Commands
  BY <1>1, Where
<1>3. Cmd(i).profile \in Profiles /\ Cmd(i).profile # None
  BY <1>2, CommandFields, Names
<1>4. \A a \in Agents : Linked(a) \in Profiles \cup {None}
  BY LiveFields DEF TypeOK, Linked
<1>5. reg.default \in Profiles \cup {None} /\ reg.active \in [Agents -> Profiles \cup {None}]
  BY RegistryFacts
<1> DEFINE claims == CASE Cmd(i).op = "use" -> ~Cmd(i).explicit /\ proc[i].blocked = {}
                       [] Cmd(i).op = "init" -> ~Cmd(i).explicit \/ reg.default = None
                       [] OTHER -> FALSE
           active == [a \in Agents |->
                        IF Reconciles(i, a) THEN Linked(a)
                        ELSE IF a \in ToRecord(i) THEN Cmd(i).profile ELSE reg.active[a]]
           default == IF claims THEN Cmd(i).profile ELSE reg.default
<1>6. Recorded(i, reg) = [default |-> default, active |-> active]
  BY DEF Recorded
<1>7. active \in [Agents -> Profiles \cup {None}] /\ default \in Profiles \cup {None}
  BY <1>3, <1>4, <1>5
<1>8. Cmd(i).op = "init" => default # None
  <2>1. Cmd(i).op = "init" => claims = (~Cmd(i).explicit \/ reg.default = None)
    OBVIOUS
  <2> HIDE DEF claims
  <2> QED
    BY <1>3, <2>1
<1>9. \A a \in SymlinkTier : active[a] =
        IF Cmd(i).op = "init" THEN Linked(a)
        ELSE IF a \in ToRecord(i) THEN Cmd(i).profile ELSE reg.active[a]
  BY Names DEF Reconciles
<1> HIDE DEF active, default
<1> QED
  BY <1>6, <1>7, <1>8, <1>9 DEF Registries

LEMMA LoadEffect ==
  ASSUME TypeOK, InStep, NEW i \in Procs, LoadRegistry(i)
  PROVE  /\ TypeOK' /\ At(i, "load")
         /\ \/ Fails(i)
            \/ /\ Others(i) /\ UNCHANGED <<disk, scope, issued, fresh, mishaps>>
               /\ registry \in Registries
               /\ proc'[i].pc = "truncate" /\ proc'[i].cmd = proc[i].cmd
               /\ proc'[i].result = proc[i].result
               /\ proc'[i].reg = Recorded(i, registry)
<1>1. At(i, "load") /\ proc[i] \in ProcStates
  BY DEF LoadRegistry, TypeOK
<1>2. CASE registry = Torn
  <2>1. Fail(i, "registry_load")
    BY <1>2 DEF LoadRegistry
  <2> QED
    BY <1>1, <2>1, FailEffect DEF Outcomes
<1>3. CASE registry # Torn
  <2>1. registry \in Registries
    BY <1>3 DEF TypeOK
  <2> DEFINE reg == Recorded(i, registry)
             r == [proc[i] EXCEPT !.pc = "truncate", !.reg = reg]
  <2>2. proc' = [proc EXCEPT ![i] = r] /\ NoFiles /\ Quietly
    BY <1>3 DEF LoadRegistry
  <2>3. reg \in Registries
    BY <1>1, <2>1, RecordedTyped
  <2> HIDE DEF reg
  <2>4. /\ r \in ProcStates /\ r.pc = "truncate" /\ r.cmd = proc[i].cmd
        /\ r.result = proc[i].result /\ r.reg = reg
    BY <1>1, <2>3 DEF ProcStates
  <2> HIDE DEF r
  <2>5. proc' \in [Procs -> ProcStates] /\ proc'[i] = r /\ Others(i)
    BY <2>2, <2>4, Replaced
  <2> QED
    BY <1>1, <2>1, <2>2, <2>4, <2>5, QuietStep DEF reg
<1> QED
  BY <1>2, <1>3

LEMMA TruncateEffect ==
  ASSUME TypeOK, NEW i \in Procs, TruncateTmp(i)
  PROVE  /\ TypeOK' /\ At(i, "truncate") /\ Others(i) /\ tmp' = Torn
         /\ UNCHANGED <<live, profiles, snap, registry, scope, issued, fresh, mishaps>>
         /\ proc'[i].pc = "write" /\ proc'[i].cmd = proc[i].cmd
         /\ proc'[i].result = proc[i].result
         /\ proc'[i].reg = proc[i].reg /\ proc'[i].file = "tmp"
<1>1. proc[i] \in ProcStates
  BY DEF TypeOK
<1> DEFINE r == [proc[i] EXCEPT !.pc = "write", !.file = "tmp"]
<1>2. proc' = [proc EXCEPT ![i] = r]
  BY DEF TruncateTmp
<1>3. /\ r \in ProcStates /\ r.pc = "write" /\ r.cmd = proc[i].cmd /\ r.result = proc[i].result
      /\ r.reg = proc[i].reg /\ r.file = "tmp"
  BY <1>1 DEF ProcStates
<1> HIDE DEF r
<1>4. proc' \in [Procs -> ProcStates] /\ proc'[i] = r /\ Others(i)
  BY <1>2, <1>3, Replaced
<1>5. TypeOK'
  BY <1>4 DEF TypeOK, TruncateTmp, Quietly
<1> QED
  BY <1>3, <1>4, <1>5 DEF TruncateTmp, Quietly

LEMMA WriteEffect ==
  ASSUME TypeOK, NEW i \in Procs, WriteTmp(i)
  PROVE  /\ TypeOK' /\ At(i, "write") /\ Others(i)
         /\ UNCHANGED <<live, profiles, snap, scope, issued, fresh, mishaps>>
         /\ proc[i].file = "tmp" => tmp' \in Written(tmp, proc[i].reg) /\ registry' = registry
         /\ proc'[i].pc = "rename" /\ proc'[i].cmd = proc[i].cmd
         /\ proc'[i].result = proc[i].result
         /\ proc'[i].reg = proc[i].reg /\ proc'[i].file = proc[i].file
<1>1. /\ At(i, "write") /\ Goto(i, "rename") /\ UNCHANGED <<live, profiles, snap>> /\ Quietly
      /\ IF proc[i].file = "tmp" THEN tmp' \in Written(tmp, proc[i].reg) ELSE tmp' = tmp
      /\ IF proc[i].file = "disk" THEN registry' \in Written(registry, proc[i].reg)
         ELSE registry' = registry
  BY DEF WriteTmp
<1>2. "rename" \in PCs /\ proc[i].reg \in Registries
  BY ProcFields DEF PCs, TypeOK
<1>3. /\ proc' \in [Procs -> ProcStates] /\ Others(i)
      /\ proc'[i].pc = "rename" /\ proc'[i].cmd = proc[i].cmd
      /\ proc'[i].result = proc[i].result
      /\ proc'[i].reg = proc[i].reg /\ proc'[i].file = proc[i].file
  BY <1>1, <1>2, GotoEffect
<1>4. \A old : Written(old, proc[i].reg) \subseteq Registries \cup {Torn}
  BY <1>2 DEF Written
<1>5. tmp' \in Registries \cup {Torn, None} /\ registry' \in Registries \cup {Torn}
  BY <1>1, <1>4 DEF TypeOK
<1>6. TypeOK'
  BY <1>1, <1>3, <1>5 DEF TypeOK, Quietly
<1> QED
  BY <1>1, <1>3, <1>6 DEF Quietly

(* A rename takes the file from under the other processes' handles.            *)
OthersButFile(i) ==
    \A j \in Procs \ {i} :
        /\ proc'[j].pc = proc[j].pc /\ proc'[j].cmd = proc[j].cmd
        /\ proc'[j].todo = proc[j].todo /\ proc'[j].done = proc[j].done
        /\ proc'[j].blocked = proc[j].blocked /\ proc'[j].reg = proc[j].reg
        /\ proc'[j].result = proc[j].result

LEMMA RenameEffect ==
  ASSUME TypeOK, NEW i \in Procs, RenameTmp(i)
  PROVE  /\ TypeOK' /\ At(i, "rename")
         /\ \/ Fails(i)
            \/ /\ OthersButFile(i) /\ tmp # None /\ registry' = tmp /\ tmp' = None
               /\ UNCHANGED <<live, profiles, snap, scope, issued, fresh, mishaps>>
               /\ proc'[i].pc = "idle"
<1>1. At(i, "rename")
  BY DEF RenameTmp
<1>2. CASE tmp = None
  <2>1. Fail(i, "registry_save")
    BY <1>2 DEF RenameTmp
  <2> QED
    BY <1>1, <2>1, FailEffect DEF Outcomes
<1>3. CASE tmp # None
  <2> DEFINE result == IF NothingSwitched(i) THEN "config_error" ELSE "ok"
             mine == [proc[i] EXCEPT !.pc = "idle", !.file = None, !.result = result]
             other(j) == [proc[j] EXCEPT !.file = IF @ = "tmp" THEN "disk" ELSE None]
  <2>1. /\ registry' = tmp /\ tmp' = None
        /\ proc' = [j \in Procs |-> IF j = i THEN mine ELSE other(j)]
        /\ UNCHANGED <<live, profiles, snap>> /\ Quietly
    BY <1>3 DEF RenameTmp
  <2>2. mine \in ProcStates /\ mine.pc = "idle"
    <3>1. result \in Outcomes /\ proc[i] \in ProcStates
      BY DEF Outcomes, TypeOK
    <3> HIDE DEF result
    <3> QED
      BY <3>1 DEF ProcStates
  <2>3. ASSUME NEW j \in Procs
        PROVE  /\ other(j) \in ProcStates
               /\ other(j).pc = proc[j].pc /\ other(j).cmd = proc[j].cmd
               /\ other(j).todo = proc[j].todo /\ other(j).done = proc[j].done
               /\ other(j).blocked = proc[j].blocked /\ other(j).reg = proc[j].reg
               /\ other(j).result = proc[j].result
    <3>1. proc[j] \in ProcStates
      BY DEF TypeOK
    <3> QED
      BY <3>1 DEF ProcStates
  <2> HIDE DEF mine, other
  <2>4. /\ proc' \in [Procs -> ProcStates] /\ proc'[i].pc = "idle" /\ OthersButFile(i)
    BY <2>1, <2>2, <2>3 DEF OthersButFile
  <2>5. TypeOK'
    BY <1>3, <2>1, <2>4 DEF TypeOK, Quietly
  <2> QED
    BY <1>1, <1>3, <2>1, <2>4, <2>5 DEF Quietly
<1> QED
  BY <1>2, <1>3

LEMMA CrashEffect ==
  ASSUME TypeOK, NEW i \in Procs, Crash(i)
  PROVE  /\ TypeOK' /\ Fails(i) /\ ~At(i, "idle") /\ "killed" \in mishaps'
<1>1. "killed" \in Outcomes \ {"ok"}
  BY DEF Outcomes
<1> QED
  BY <1>1, FailEffect DEF Crash

LEMMA AgentStartsEffect ==
  ASSUME TypeOK, NEW a \in Agents, AgentStarts(a)
  PROVE  /\ TypeOK' /\ UNCHANGED <<profiles, snap, registry, tmp, proc, scope, issued, mishaps>>
         /\ live[a] = Absent /\ live' = [live EXCEPT ![a] = Dir(Fresh)]
         /\ fresh' = fresh + 1 /\ fresh \in Nat
<1>1. Dir(Fresh) \in Lives
  BY Names, NewLives
<1>2. fresh' \in 0..MaxFresh /\ fresh \in Nat
  BY AgentsTyped DEF AgentStarts, TypeOK
<1> QED
  BY <1>1, <1>2 DEF AgentStarts, TypeOK


------------------------------------------------------------------------------
(* Any number of processes: types, and where every command stands.             *)

Stands(i) == ~At(i, "idle") =>
    /\ i \in scope.procs /\ Cmd(i) \in scope.commands /\ proc[i].result = None
    /\ Cmd(i).op \in CASE At(i, "start") -> Ops
                      [] At(i, "agent") -> Ops \ {"delete"}
                      [] At(i, "wipe") -> {"init", "save"}
                      [] proc[i].pc \in Moving -> {"init"}
                      [] At(i, "copy") \/ At(i, "copying") -> {"init", "save", "create", "restore"}
                      [] At(i, "check") \/ At(i, "remove") -> {"delete"}
                      [] At(i, "load") -> {"init", "use", "restore"}
                      [] OTHER -> {"init", "use", "restore", "delete"}
    /\ proc[i].pc \in {"wipe", "copy", "copying"} \cup Moving =>
          /\ proc[i].todo # {} /\ Target(i) # None
          /\ Cmd(i).op \in {"save", "restore"} => Agent(i) \notin SymlinkTier
          /\ Cmd(i).op = "init" /\ ~At(i, "wipe") =>
                (Agent(i) \in SymlinkTier <=> proc[i].pc \in Moving)
    /\ At(i, "load") => proc[i].todo = {}
    /\ Cmd(i).op = "create" /\ Cmd(i).from = None => proc[i].todo = {}

LEMMA StandsInStep == InStep <=> \A i \in Procs : Stands(i)
BY DEF InStep, Stands

LEMMA StandsIdle ==
  ASSUME NEW i \in Procs, proc'[i].pc = "idle"
  PROVE  Stands(i)'
BY DEF Stands, At

(* A process that does not move stands where it stood, whatever happens to the *)
(* disk: the profile it works on is given, or remembered in its registry.      *)
LEMMA StandsStill ==
  ASSUME TypeOK, InStep, NEW j \in Procs, UNCHANGED scope,
         proc'[j].pc = proc[j].pc, proc'[j].cmd = proc[j].cmd, proc'[j].todo = proc[j].todo,
         proc'[j].reg = proc[j].reg, proc'[j].result = proc[j].result
  PROVE  Stands(j)'
<1>1. CASE At(j, "idle")
  BY <1>1 DEF Stands, At
<1>2. CASE ~At(j, "idle")
  <2>1. Stands(j)
    BY StandsInStep
  <2>2. Cmd(j)' = Cmd(j) /\ Agent(j)' = Agent(j) /\ \A pc \in PCs : At(j, pc)' <=> At(j, pc)
    BY DEF Cmd, Agent, At
  <2>3. /\ proc[j].pc \in {"wipe", "copy", "copying"} \cup Moving => Target(j)' = Target(j)
    <3>1. ASSUME proc[j].pc \in {"wipe", "copy", "copying"} \cup Moving, Cmd(j).profile = None
          PROVE  Agent(j) \notin SymlinkTier
      <4>1. Cmd(j) \in Commands /\ (Cmd(j).op \in {"save", "restore"} => Agent(j) \notin SymlinkTier)
        BY <1>2, <3>1, Where
      <4> QED
        BY <3>1, <4>1, CommandFields, Names
    <3> QED
      BY <2>2, <3>1 DEF Target
  <2> QED
    BY <2>1, <2>2, <2>3 DEF Stands, At
<1> QED
  BY <1>1, <1>2

LEMMA StandsAhead ==
  ASSUME TypeOK, InStep, NEW i \in Procs, ~At(i, "idle"), UNCHANGED scope,
         proc'[i].cmd = proc[i].cmd, proc'[i].result = proc[i].result,
         \/ proc'[i].pc = "agent" /\ Cmd(i).op # "delete"
         \/ proc'[i].pc \in {"check", "remove"} /\ Cmd(i).op = "delete"
         \/ /\ proc'[i].pc = "load" /\ Cmd(i).op \in {"init", "use", "restore"}
            /\ proc'[i].todo = {}
         \/ /\ proc'[i].pc \in {"truncate", "write", "rename"}
            /\ Cmd(i).op \in {"init", "use", "restore", "delete"},
         Cmd(i).op = "create" /\ Cmd(i).from = None => proc'[i].todo = {}
  PROVE  Stands(i)'
<1>1. i \in scope.procs /\ Cmd(i) \in scope.commands /\ proc[i].result = None /\ Cmd(i).op \in Ops
  BY Where, CommandFields
<1>2. Cmd(i)' = Cmd(i)
  BY DEF Cmd
<1> QED
  BY <1>1, <1>2 DEF Stands, At, Moving

LEMMA StandsAtWork ==
  ASSUME TypeOK, InStep, NEW i \in Procs, ~At(i, "idle"), UNCHANGED scope,
         proc'[i].cmd = proc[i].cmd, proc'[i].result = proc[i].result,
         proc'[i].todo = proc[i].todo, proc[i].todo # {},
         Cmd(i).profile # None \/ proc'[i].reg = proc[i].reg,
         Target(i) # None,
         \/ proc'[i].pc = "wipe" /\ Cmd(i).op \in {"init", "save"}
         \/ proc'[i].pc \in Moving /\ Cmd(i).op = "init"
         \/ /\ proc'[i].pc \in {"copy", "copying"}
            /\ Cmd(i).op \in {"init", "save", "create", "restore"},
         Cmd(i).op \in {"save", "restore"} => Agent(i) \notin SymlinkTier,
         Cmd(i).op = "init" /\ proc'[i].pc # "wipe" =>
            (Agent(i) \in SymlinkTier <=> proc'[i].pc \in Moving)
  PROVE  Stands(i)'
<1>1. /\ i \in scope.procs /\ Cmd(i) \in scope.commands /\ proc[i].result = None
      /\ Cmd(i) \in Commands
      /\ Cmd(i).op = "create" /\ Cmd(i).from = None => proc[i].todo = {}
  BY Where
<1>2. Cmd(i)' = Cmd(i) /\ Agent(i)' = Agent(i)
  BY DEF Cmd, Agent
<1>3. Target(i)' = Target(i)
  <2>1. Cmd(i).profile = None => Agent(i) \notin SymlinkTier
    BY <1>1, CommandFields, Names
  <2> QED
    BY <1>2, <2>1 DEF Target
<1> QED
  BY <1>1, <1>2, <1>3 DEF Stands, At, Moving

(* All stand in step when one has stepped and the others have not moved.       *)
LEMMA AllStand ==
  ASSUME TypeOK, InStep, NEW i \in Procs, Stands(i)', UNCHANGED scope,
         Others(i) \/ OthersButFile(i)
  PROVE  InStep'
<1>1. ASSUME NEW j \in Procs \ {i} PROVE Stands(j)'
  <2>1. /\ proc'[j].pc = proc[j].pc /\ proc'[j].cmd = proc[j].cmd /\ proc'[j].todo = proc[j].todo
        /\ proc'[j].reg = proc[j].reg /\ proc'[j].result = proc[j].result
    BY DEF Others, OthersButFile
  <2> QED
    BY <2>1, StandsStill
<1>2. \A j \in Procs : Stands(j)'
  BY <1>1
<1> QED
  BY <1>2 DEF InStep, Stands

LEMMA FailInStep ==
  ASSUME TypeOK, InStep, NEW i \in Procs, Fails(i)
  PROVE  InStep'
BY StandsIdle, AllStand DEF Fails

LEMMA StepInStep ==
  ASSUME TypeOK, InStep, NEW i \in Procs, Step(i) \/ Crash(i) \/ \E c \in Commands : Issue(i, c)
  PROVE  TypeOK' /\ InStep'
<1>1. ASSUME NEW c \in Commands, Issue(i, c) PROVE TypeOK' /\ InStep'
  <2>1. /\ TypeOK' /\ Others(i) /\ UNCHANGED <<disk, scope, fresh, mishaps>>
        /\ i \in scope.procs /\ c \in scope.commands
        /\ proc'[i].pc = "start" /\ proc'[i].cmd = c /\ proc'[i].todo = {}
        /\ proc'[i].result = None
    BY <1>1, IssueEffect
  <2>2. c.op \in Ops
    BY CommandFields
  <2>3. Stands(i)'
    BY <2>1, <2>2 DEF Stands, At, Cmd, Moving
  <2> QED
    BY <2>1, <2>3, AllStand
<1>2. ASSUME Crash(i) PROVE TypeOK' /\ InStep'
  BY <1>2, CrashEffect, FailInStep
<1>3. ASSUME StartInit(i) PROVE TypeOK' /\ InStep'
  <2>1. /\ TypeOK' /\ Others(i) /\ scope' = scope /\ At(i, "start") /\ Cmd(i).op = "init"
        /\ proc'[i].pc = "agent" /\ proc'[i].cmd = proc[i].cmd /\ proc'[i].result = proc[i].result
    BY <1>3, StartInitEffect
  <2> QED
    BY <2>1, StandsAhead, AllStand DEF At
<1>4. ASSUME StartUse(i) PROVE TypeOK' /\ InStep'
  <2>1. /\ TypeOK' /\ At(i, "start") /\ Cmd(i).op \in {"use", "restore"}
        /\ \/ Fails(i)
           \/ /\ Others(i) /\ scope' = scope
              /\ proc'[i].pc = "agent" /\ proc'[i].cmd = proc[i].cmd
              /\ proc'[i].result = proc[i].result
    BY <1>4, StartUseEffect
  <2> QED
    BY <2>1, FailInStep, StandsAhead, AllStand DEF At
<1>5. ASSUME StartSave(i) PROVE TypeOK' /\ InStep'
  <2>1. /\ TypeOK' /\ At(i, "start") /\ Cmd(i).op = "save"
        /\ \/ Fails(i)
           \/ /\ Others(i) /\ scope' = scope
              /\ proc'[i].pc = "agent" /\ proc'[i].cmd = proc[i].cmd
              /\ proc'[i].result = proc[i].result
    BY <1>5, StartSaveEffect
  <2> QED
    BY <2>1, FailInStep, StandsAhead, AllStand DEF At
<1>6. ASSUME StartCreate(i) PROVE TypeOK' /\ InStep'
  <2>1. /\ TypeOK' /\ At(i, "start") /\ Cmd(i).op = "create"
        /\ \/ Fails(i)
           \/ /\ Others(i) /\ scope' = scope
              /\ proc'[i].pc = "agent" /\ proc'[i].cmd = proc[i].cmd
              /\ proc'[i].result = proc[i].result
              /\ Cmd(i).from = None => proc'[i].todo = {}
    BY <1>6, StartCreateEffect
  <2> QED
    BY <2>1, FailInStep, StandsAhead, AllStand DEF At
<1>7. ASSUME StartDelete(i) PROVE TypeOK' /\ InStep'
  <2>1. /\ TypeOK' /\ At(i, "start") /\ Cmd(i).op = "delete"
        /\ \/ Fails(i)
           \/ /\ Others(i) /\ scope' = scope
              /\ proc'[i].pc = "check" /\ proc'[i].cmd = proc[i].cmd
              /\ proc'[i].result = proc[i].result
    BY <1>7, StartDeleteEffect
  <2> QED
    BY <2>1, FailInStep, StandsAhead, AllStand DEF At
<1>8. ASSUME SkipRunningIde(i) PROVE TypeOK' /\ InStep'
  <2>1. /\ TypeOK' /\ Others(i) /\ scope' = scope
        /\ At(i, "agent") /\ Cmd(i).op \in {"use", "restore"}
        /\ proc'[i].pc = "agent" /\ proc'[i].cmd = proc[i].cmd /\ proc'[i].result = proc[i].result
    BY <1>8, SkipEffect
  <2> QED
    BY <2>1, StandsAhead, AllStand DEF At
<1>9. ASSUME SwitchLink(i) PROVE TypeOK' /\ InStep'
  <2>1. /\ At(i, "agent") /\ ~At(i, "idle") /\ proc[i].todo # {}
        /\ Cmd(i).op \in {"use", "restore"} /\ Repoint(i, Cmd(i).profile)
    BY <1>9 DEF SwitchLink, At
  <2>2. Cmd(i).profile \in Profiles
    BY <2>1, Where, CommandFields
  <2>3. /\ TypeOK'
        /\ \/ Fails(i)
           \/ /\ Others(i) /\ scope' = scope
              /\ proc'[i].pc = "agent" /\ proc'[i].cmd = proc[i].cmd
              /\ proc'[i].result = proc[i].result
    BY <2>1, <2>2, RepointEffect
  <2> QED
    BY <2>1, <2>3, FailInStep, StandsAhead, AllStand
<1>10. ASSUME RestoreWipe(i) PROVE TypeOK' /\ InStep'
  <2>1. /\ TypeOK' /\ At(i, "agent") /\ Cmd(i).op = "restore" /\ proc[i].todo # {}
        /\ Agent(i) \notin SymlinkTier
        /\ \/ Fails(i)
           \/ /\ Others(i) /\ scope' = scope
              /\ proc'[i].pc = "copy" /\ proc'[i].cmd = proc[i].cmd
              /\ proc'[i].todo = proc[i].todo /\ proc'[i].result = proc[i].result
    BY <1>10, RestoreWipeEffect
  <2>2. ~At(i, "idle") /\ Cmd(i).profile # None /\ Target(i) # None
    BY <2>1, Where, CommandFields, Names DEF At, Target
  <2> QED
    BY <2>1, <2>2, FailInStep, StandsAtWork, AllStand
<1>11. ASSUME LookAtLive(i) PROVE TypeOK' /\ InStep'
  <2>1. /\ TypeOK' /\ At(i, "agent") /\ Cmd(i).op \in {"save", "init"} /\ proc[i].todo # {}
        /\ \/ Fails(i)
           \/ /\ Others(i) /\ scope' = scope
              /\ proc'[i].pc = "agent" /\ proc'[i].cmd = proc[i].cmd
              /\ proc'[i].result = proc[i].result
           \/ /\ Others(i) /\ scope' = scope
              /\ proc'[i].pc = "wipe" /\ proc'[i].cmd = proc[i].cmd
              /\ proc'[i].result = proc[i].result
              /\ proc'[i].todo = proc[i].todo /\ proc'[i].reg = proc[i].reg
              /\ Target(i) # None
              /\ Cmd(i).op = "save" => Agent(i) \notin SymlinkTier
    BY <1>11, LookEffect
  <2>2. ~At(i, "idle")
    BY <2>1 DEF At
  <2> QED
    BY <2>1, <2>2, FailInStep, StandsAhead, StandsAtWork, AllStand
<1>12. ASSUME WipeSnapshot(i) PROVE TypeOK' /\ InStep'
  <2>1. /\ TypeOK' /\ At(i, "wipe") /\ Others(i) /\ scope' = scope /\ Target(i) \in Profiles
        /\ proc'[i].pc = IF Agent(i) \in SymlinkTier THEN "move" ELSE "copy"
        /\ proc'[i].cmd = proc[i].cmd /\ proc'[i].result = proc[i].result
        /\ proc'[i].todo = proc[i].todo /\ proc'[i].reg = proc[i].reg
    BY <1>12, WipeEffect
  <2>2. /\ ~At(i, "idle") /\ Target(i) # None /\ proc[i].todo # {}
        /\ Cmd(i).op \in {"init", "save"}
        /\ Cmd(i).op = "save" => Agent(i) \notin SymlinkTier
    BY <2>1, Where DEF At
  <2> QED
    BY <2>1, <2>2, StandsAtWork, AllStand DEF Moving
<1>13. ASSUME MoveLive(i) PROVE TypeOK' /\ InStep'
  <2>1. /\ TypeOK' /\ At(i, "move") /\ Others(i) /\ scope' = scope
        /\ proc'[i].pc = "link"
        /\ proc'[i].cmd = proc[i].cmd /\ proc'[i].result = proc[i].result
        /\ proc'[i].todo = proc[i].todo
    BY <1>13, MoveEffect
  <2>2. /\ ~At(i, "idle") /\ Target(i) # None /\ proc[i].todo # {}
        /\ Cmd(i).op = "init" /\ Agent(i) \in SymlinkTier /\ Cmd(i) \in Commands
    BY <2>1, Where DEF At, Moving
  <2>3. Cmd(i).profile # None
    BY <2>2, CommandFields, Names
  <2> QED
    BY <2>1, <2>2, <2>3, StandsAtWork, AllStand DEF Moving
<1>14. ASSUME LinkBack(i) PROVE TypeOK' /\ InStep'
  <2>1. At(i, "link") /\ Repoint(i, Default)
    BY <1>14 DEF LinkBack
  <2>2. ~At(i, "idle") /\ proc[i].todo # {} /\ Cmd(i).op = "init"
    BY <2>1, Where DEF At, Moving
  <2>3. /\ TypeOK'
        /\ \/ Fails(i)
           \/ /\ Others(i) /\ scope' = scope
              /\ proc'[i].pc = "agent" /\ proc'[i].cmd = proc[i].cmd
              /\ proc'[i].result = proc[i].result
    BY <2>1, <2>2, Names, RepointEffect
  <2> QED
    BY <2>2, <2>3, FailInStep, StandsAhead, AllStand
<1>15. ASSUME BeginClone(i) PROVE TypeOK' /\ InStep'
  <2>1. /\ TypeOK' /\ Others(i) /\ scope' = scope
        /\ At(i, "agent") /\ Cmd(i).op = "create" /\ proc[i].todo # {}
        /\ proc'[i].pc = "copy" /\ proc'[i].cmd = proc[i].cmd /\ proc'[i].result = proc[i].result
        /\ proc'[i].todo = proc[i].todo
    BY <1>15, BeginCloneEffect
  <2>2. ~At(i, "idle") /\ Cmd(i).profile # None /\ Target(i) # None
    BY <2>1, Where, CommandFields, Names DEF At, Target
  <2> QED
    BY <2>1, <2>2, StandsAtWork, AllStand
<1>16. ASSUME BeginCopy(i) PROVE TypeOK' /\ InStep'
  <2>1. /\ TypeOK' /\ Others(i) /\ scope' = scope /\ At(i, "copy")
        /\ proc'[i].pc = "copying" /\ proc'[i].cmd = proc[i].cmd
        /\ proc'[i].result = proc[i].result /\ proc'[i].todo = proc[i].todo
        /\ proc'[i].reg = proc[i].reg
    BY <1>16, BeginCopyEffect
  <2>2. /\ ~At(i, "idle") /\ Target(i) # None /\ proc[i].todo # {}
        /\ Cmd(i).op \in {"init", "save", "create", "restore"}
        /\ Cmd(i).op \in {"save", "restore"} => Agent(i) \notin SymlinkTier
        /\ Cmd(i).op = "init" => Agent(i) \notin SymlinkTier
    BY <2>1, Where DEF At, Moving
  <2> QED
    BY <2>1, <2>2, StandsAtWork, AllStand DEF Moving
<1>17. ASSUME EndCopy(i) PROVE TypeOK' /\ InStep'
  <2>1. /\ TypeOK' /\ Others(i) /\ scope' = scope /\ At(i, "copying")
        /\ proc'[i].pc = "agent" /\ proc'[i].cmd = proc[i].cmd
        /\ proc'[i].result = proc[i].result /\ proc'[i].todo = proc[i].todo \ {Agent(i)}
    BY <1>17, EndCopyEffect
  <2>2. /\ ~At(i, "idle") /\ Cmd(i).op # "delete"
        /\ Cmd(i).op = "create" /\ Cmd(i).from = None => proc[i].todo = {}
    BY <2>1, Where DEF At
  <2> QED
    BY <2>1, <2>2, StandsAhead, AllStand
<1>18. ASSUME CopyFails(i) PROVE TypeOK' /\ InStep'
  <2>1. TypeOK' /\ Others(i) /\ scope' = scope /\ proc'[i].pc = "idle"
    BY <1>18, CopyFailsEffect
  <2> QED
    BY <2>1, StandsIdle, AllStand
<1>19. ASSUME AgentsDone(i) PROVE TypeOK' /\ InStep'
  <2>1. /\ TypeOK' /\ Others(i) /\ At(i, "agent") /\ proc[i].todo = {} /\ scope' = scope
        /\ \/ proc'[i].pc = "idle"
           \/ /\ Cmd(i).op \in {"init", "use", "restore"}
              /\ proc'[i].pc = "load" /\ proc'[i].cmd = proc[i].cmd
              /\ proc'[i].result = proc[i].result /\ proc'[i].todo = proc[i].todo
    BY <1>19, AgentsDoneEffect
  <2>2. ~At(i, "idle")
    BY <2>1 DEF At
  <2> QED
    BY <2>1, <2>2, StandsIdle, StandsAhead, AllStand
<1>20. ASSUME CheckDelete(i) PROVE TypeOK' /\ InStep'
  <2>1. /\ TypeOK' /\ At(i, "check")
        /\ \/ Fails(i)
           \/ /\ Others(i) /\ scope' = scope
              /\ proc'[i].pc = "remove" /\ proc'[i].cmd = proc[i].cmd
              /\ proc'[i].result = proc[i].result
    BY <1>20, CheckDeleteEffect
  <2>2. ~At(i, "idle") /\ Cmd(i).op = "delete"
    BY <2>1, Where DEF At
  <2> QED
    BY <2>1, <2>2, FailInStep, StandsAhead, AllStand
<1>21. ASSUME NEW a \in Agents, RemoveSubtree(i, a) PROVE TypeOK' /\ InStep'
  <2>1. TypeOK' /\ UNCHANGED <<proc, scope>>
    BY <1>21, RemoveSubtreeEffect
  <2>2. Stands(i)' /\ Others(i)
    BY <2>1, StandsStill DEF Others
  <2> QED
    BY <2>1, <2>2, AllStand
<1>22. ASSUME RemoveProfile(i) PROVE TypeOK' /\ InStep'
  <2>1. /\ TypeOK' /\ At(i, "remove")
        /\ \/ Fails(i)
           \/ Others(i) /\ scope' = scope /\ proc'[i].pc = "idle"
           \/ /\ Others(i) /\ scope' = scope
              /\ proc'[i].pc = "truncate" /\ proc'[i].cmd = proc[i].cmd
              /\ proc'[i].result = proc[i].result
    BY <1>22, RemoveProfileEffect
  <2>2. ~At(i, "idle") /\ Cmd(i).op = "delete"
    BY <2>1, Where DEF At
  <2> QED
    BY <2>1, <2>2, FailInStep, StandsIdle, StandsAhead, AllStand
<1>23. ASSUME LoadRegistry(i) PROVE TypeOK' /\ InStep'
  <2>1. /\ TypeOK' /\ At(i, "load")
        /\ \/ Fails(i)
           \/ /\ Others(i) /\ scope' = scope
              /\ proc'[i].pc = "truncate" /\ proc'[i].cmd = proc[i].cmd
              /\ proc'[i].result = proc[i].result
    BY <1>23, LoadEffect
  <2>2. ~At(i, "idle") /\ Cmd(i).op \in {"init", "use", "restore"}
    BY <2>1, Where DEF At
  <2> QED
    BY <2>1, <2>2, FailInStep, StandsAhead, AllStand
<1>24. ASSUME TruncateTmp(i) PROVE TypeOK' /\ InStep'
  <2>1. /\ TypeOK' /\ At(i, "truncate") /\ Others(i) /\ scope' = scope
        /\ proc'[i].pc = "write" /\ proc'[i].cmd = proc[i].cmd
        /\ proc'[i].result = proc[i].result
    BY <1>24, TruncateEffect
  <2>2. ~At(i, "idle") /\ Cmd(i).op \in {"init", "use", "restore", "delete"}
    BY <2>1, Where DEF At
  <2> QED
    BY <2>1, <2>2, StandsAhead, AllStand
<1>25. ASSUME WriteTmp(i) PROVE TypeOK' /\ InStep'
  <2>1. /\ TypeOK' /\ At(i, "write") /\ Others(i) /\ scope' = scope
        /\ proc'[i].pc = "rename" /\ proc'[i].cmd = proc[i].cmd
        /\ proc'[i].result = proc[i].result
    BY <1>25, WriteEffect
  <2>2. ~At(i, "idle") /\ Cmd(i).op \in {"init", "use", "restore", "delete"}
    BY <2>1, Where DEF At
  <2> QED
    BY <2>1, <2>2, StandsAhead, AllStand
<1>26. ASSUME RenameTmp(i) PROVE TypeOK' /\ InStep'
  <2>1. /\ TypeOK'
        /\ Fails(i) \/ (OthersButFile(i) /\ scope' = scope /\ proc'[i].pc = "idle")
    BY <1>26, RenameEffect
  <2> QED
    BY <2>1, FailInStep, StandsIdle, AllStand
<1>27. ASSUME RenameRefused(i) \/ Relocated(i) \/ ClearSource(i) \/ SourceCleared(i)
       PROVE  TypeOK' /\ InStep'
  <2>1. /\ TypeOK' /\ proc[i].pc \in Moving /\ Others(i) /\ scope' = scope
        /\ proc'[i].pc \in Moving
        /\ proc'[i].cmd = proc[i].cmd /\ proc'[i].result = proc[i].result
        /\ proc'[i].todo = proc[i].todo
    BY <1>27, RenameRefusedEffect, RelocatedEffect, ClearSourceEffect, SourceClearedEffect
       DEF At, Moving
  <2>2. /\ ~At(i, "idle") /\ Target(i) # None /\ proc[i].todo # {}
        /\ Cmd(i).op = "init" /\ Agent(i) \in SymlinkTier /\ Cmd(i) \in Commands
    BY <2>1, Where DEF At, Moving
  <2>3. Cmd(i).profile # None
    BY <2>2, CommandFields, Names
  <2> QED
    BY <2>1, <2>2, <2>3, StandsAtWork, AllStand DEF Moving
<1>28. ASSUME MoveFails(i) PROVE TypeOK' /\ InStep'
  BY <1>28, MoveFailsEffect, FailInStep
<1> QED
  BY <1>1, <1>2, <1>3, <1>4, <1>5, <1>6, <1>7, <1>8, <1>9, <1>10, <1>11, <1>12, <1>13, <1>14,
     <1>15, <1>16, <1>17, <1>18, <1>19, <1>20, <1>21, <1>22, <1>23, <1>24, <1>25, <1>26, <1>27,
     <1>28 DEF Step

LEMMA NextInStep ==
  ASSUME TypeOK, InStep, Next
  PROVE  TypeOK' /\ InStep'
<1>1. ASSUME NEW a \in Agents, AgentStarts(a) PROVE TypeOK' /\ InStep'
  <2>1. TypeOK' /\ UNCHANGED <<proc, scope>>
    BY <1>1, AgentStartsEffect
  <2>2. \A j \in Procs : Stands(j)'
    BY <2>1, StandsStill
  <2> QED
    BY <2>1, <2>2 DEF InStep, Stands
<1> QED
  BY <1>1, StepInStep DEF Next

------------------------------------------------------------------------------
(* Snapshots, and where links lead.                                           *)

(* One snapshot changes.                                                      *)
LEMMA OneSnap ==
  ASSUME TypeOK, NEW p \in Profiles, NEW a \in Agents, NEW c, snap' = [snap EXCEPT ![p][a] = c]
  PROVE  \A q \in Profiles, b \in Agents :
            snap'[q][b] = IF q = p /\ b = a THEN c ELSE snap[q][b]
BY DEF TypeOK

LEMMA OneLive ==
  ASSUME TypeOK, NEW a \in Agents, NEW l, live' = [live EXCEPT ![a] = l]
  PROVE  \A b \in Agents : live'[b] = IF b = a THEN l ELSE live[b]
BY DEF TypeOK

(* Every command that stores a snapshot makes the profile's directory first.    *)
LEMMA StepSnapshots ==
  ASSUME TypeOK, InStep, SnapshotsInProfiles, Next
  PROVE  SnapshotsInProfiles'
<1>1. ASSUME snap' = snap, profiles \subseteq profiles' PROVE SnapshotsInProfiles'
  BY <1>1 DEF SnapshotsInProfiles
<1>2. ASSUME UNCHANGED disk PROVE SnapshotsInProfiles'
  BY <1>1, <1>2 DEF disk
<1>3. ASSUME NEW p \in Profiles, NEW a \in Agents, NEW c, snap' = [snap EXCEPT ![p][a] = c],
             profiles' = profiles \cup {p}
      PROVE  SnapshotsInProfiles'
  BY <1>3, OneSnap DEF SnapshotsInProfiles
<1>4. ASSUME NEW a \in Agents, AgentStarts(a) PROVE SnapshotsInProfiles'
  BY <1>1, <1>4 DEF AgentStarts
<1>5. ASSUME NEW i \in Procs, Step(i) \/ Crash(i) \/ \E c \in Commands : Issue(i, c)
      PROVE  SnapshotsInProfiles'
  <2>1. ASSUME NEW c \in Commands, Issue(i, c) PROVE SnapshotsInProfiles'
    BY <1>2, <2>1 DEF Issue, NoFiles
  <2>2. ASSUME Crash(i) PROVE SnapshotsInProfiles'
    BY <1>2, <2>2 DEF Crash, Fail, NoFiles
  <2>3. ASSUME StartInit(i) \/ StartUse(i) \/ StartSave(i) \/ StartDelete(i) PROVE SnapshotsInProfiles'
    BY <1>1, <1>2, <2>3, StartInitEffect, StartUseEffect, StartSaveEffect, StartDeleteEffect DEF Fails
  <2>4. ASSUME StartCreate(i) PROVE SnapshotsInProfiles'
    BY <1>1, <1>2, <2>4, StartCreateEffect DEF Fails
  <2>5. ASSUME SwitchLink(i) PROVE SnapshotsInProfiles'
    BY <1>1, <1>2, <2>5 DEF SwitchLink, Repoint, Fail, NoFiles
  <2>6. ASSUME LinkBack(i) PROVE SnapshotsInProfiles'
    BY <1>1, <1>2, <2>6 DEF LinkBack, Repoint, Fail, NoFiles
  <2>7. ASSUME SkipRunningIde(i) \/ RestoreWipe(i) \/ LookAtLive(i) PROVE SnapshotsInProfiles'
    BY <1>1, <1>2, <2>7, SkipEffect, RestoreWipeEffect, LookEffect DEF Fails
  <2>8. ASSUME WipeSnapshot(i) PROVE SnapshotsInProfiles'
    BY <1>3, <2>8, WipeEffect
  <2>9. ASSUME MoveLive(i) \/ RenameRefused(i) \/ Relocated(i) PROVE SnapshotsInProfiles'
    <3>1. PICK c \in Contents : snap' = [snap EXCEPT ![Default][Agent(i)] = c]
      BY <2>9, MoveEffect, RenameRefusedEffect, RelocatedEffect, Names
    <3>2. profiles' = profiles \cup {Default} /\ Agent(i) \in Agents /\ Default \in Profiles
      BY <2>9, MoveEffect, RenameRefusedEffect, RelocatedEffect, Names
    <3> QED
      BY <1>3, <3>1, <3>2
  <2>10. ASSUME NEW c, Copies(i, c), Agent(i) \in Agents, Target(i) \in Profiles
         PROVE  SnapshotsInProfiles'
    <3>1. CASE UNCHANGED <<profiles, snap>>
      BY <1>1, <3>1
    <3>2. CASE /\ snap' = [snap EXCEPT ![Target(i)][Agent(i)] = c]
               /\ profiles' = profiles \cup {Target(i)}
      BY <1>3, <2>10, <3>2
    <3> QED
      BY <2>10, <3>1, <3>2 DEF Copies
  <2>11. ASSUME BeginCopy(i) \/ EndCopy(i) PROVE SnapshotsInProfiles'
    <3>1. \E c : Copies(i, c)
      BY <2>11, BeginCopyEffect, EndCopyEffect
    <3>2. proc[i].pc \in {"copy", "copying"} /\ ~At(i, "idle")
      BY <2>11 DEF BeginCopy, EndCopy, At
    <3>3. Agent(i) \in Agents /\ Target(i) \in Profiles
      BY <3>2, Where, AtWork
    <3> QED
      BY <2>10, <3>1, <3>3
  <2>12. ASSUME BeginClone(i) PROVE SnapshotsInProfiles'
    BY <1>2, <2>12 DEF BeginClone, NoFiles
  <2>13. ASSUME CopyFails(i) PROVE SnapshotsInProfiles'
    <3>1. IF Cmd(i).op = "create"
          THEN /\ Cmd(i).profile \in Profiles /\ profiles' = profiles \ {Cmd(i).profile}
               /\ snap' = [snap EXCEPT ![Cmd(i).profile] = [a \in Agents |-> None]]
          ELSE UNCHANGED <<profiles, snap>>
      BY <2>13, CopyFailsEffect
    <3>2. CASE Cmd(i).op = "create"
      <4>1. ASSUME NEW q \in Profiles, NEW b \in Agents
            PROVE  snap'[q][b] = IF q = Cmd(i).profile THEN None ELSE snap[q][b]
        BY <1>1, <3>1, <3>2 DEF TypeOK
      <4> QED
        BY <1>1, <3>1, <3>2, <4>1 DEF SnapshotsInProfiles
    <3> QED
      BY <1>1, <3>1, <3>2 DEF SnapshotsInProfiles
  <2>14. ASSUME AgentsDone(i) PROVE SnapshotsInProfiles'
    <3>1. /\ profiles' = profiles
          /\ \/ snap' = snap
             \/ /\ Cmd(i).profile \in Profiles
                /\ snap' = [snap EXCEPT ![Cmd(i).profile] =
                     [a \in Agents |-> IF Cmd(i).explicit /\ a \notin Cmd(i).agents THEN None
                                       ELSE snap[Cmd(i).profile][a]]]
      BY <2>14, AgentsDoneEffect
    <3> QED
      BY <1>1, <3>1 DEF SnapshotsInProfiles, TypeOK
  <2>15. ASSUME CheckDelete(i) PROVE SnapshotsInProfiles'
    BY <1>2, <2>15, CheckDeleteEffect DEF Fails
  <2>16. ASSUME NEW a \in Agents, RemoveSubtree(i, a) PROVE SnapshotsInProfiles'
    <3>1. /\ profiles' = profiles /\ Cmd(i).profile \in Profiles
          /\ snap' = [snap EXCEPT ![Cmd(i).profile][a] = None]
      BY <2>16, RemoveSubtreeEffect
    <3> QED
      BY <3>1, OneSnap DEF SnapshotsInProfiles
  <2>17. ASSUME RemoveProfile(i) PROVE SnapshotsInProfiles'
    <3>1. /\ snap' = snap /\ WithSnapshot(Cmd(i).profile) = {}
          /\ profiles' = profiles \/ profiles' = profiles \ {Cmd(i).profile}
      BY <2>17, RemoveProfileEffect DEF Fails, disk
    <3> QED
      BY <3>1 DEF SnapshotsInProfiles, WithSnapshot
  <2>18. ASSUME LoadRegistry(i) \/ TruncateTmp(i) \/ WriteTmp(i) \/ RenameTmp(i)
         PROVE  SnapshotsInProfiles'
    <3>1. UNCHANGED <<profiles, snap>>
      BY <2>18, LoadEffect, TruncateEffect, WriteEffect, RenameEffect DEF Fails, disk
    <3> QED
      BY <1>1, <3>1
  <2>19. ASSUME ClearSource(i) \/ SourceCleared(i) \/ MoveFails(i) PROVE SnapshotsInProfiles'
    <3>1. UNCHANGED <<profiles, snap>>
      BY <2>19, ClearSourceEffect, SourceClearedEffect, MoveFailsEffect DEF Fails, disk
    <3> QED
      BY <1>1, <3>1
  <2> QED
    BY <1>5, <2>1, <2>2, <2>3, <2>4, <2>5, <2>6, <2>7, <2>8, <2>9, <2>11, <2>12, <2>13, <2>14,
       <2>15, <2>16, <2>17, <2>18, <2>19 DEF Step
<1> QED
  BY <1>4, <1>5 DEF Next

Leads == \A a \in SymlinkTier : live[a].kind = "link" => snap[live[a].at][a] # None

(* No command takes away what a link leads to: because it takes nothing away,  *)
(* or because it is alone and has looked.                                      *)
Guarded ==
    \/ \A c \in scope.commands : Harmless(c)
    \/ SourceThere /\ CloneApart /\ DeletedApart

LEMMA LeadsOn ==
  ASSUME TypeOK, Leads,
         \A a \in SymlinkTier : live'[a].kind = "link" =>
            live'[a] = live[a] \/ snap'[live'[a].at][a] # None,
         \A a \in SymlinkTier, p \in Profiles :
            snap[p][a] # None /\ live[a] = Link(p) => snap'[p][a] # None
  PROVE  Leads'
<1> SUFFICES ASSUME NEW a \in SymlinkTier, live'[a].kind = "link", live'[a] = live[a]
             PROVE  snap'[live'[a].at][a] # None
  BY DEF Leads
<1>1. live[a] \in Lives
  BY Names DEF TypeOK
<1>2. live[a].at \in Profiles /\ live[a] = Link(live[a].at)
  BY <1>1, LiveFields
<1> QED
  BY <1>2 DEF Leads

LEMMA LeadsStill ==
  ASSUME Leads, UNCHANGED <<live, snap>>
  PROVE  Leads'
BY DEF Leads

LEMMA StepLeads ==
  ASSUME TypeOK, InStep, Guarded, Leads, Next
  PROVE  Leads'
<1>1. ASSUME NEW a \in Agents, AgentStarts(a) PROVE Leads'
  <2>1. live' = [live EXCEPT ![a] = Dir(Fresh)] /\ snap' = snap
    BY <1>1 DEF AgentStarts
  <2>2. \A b \in Agents : live'[b] = IF b = a THEN Dir(Fresh) ELSE live[b]
    BY <2>1, OneLive
  <2>3. Dir(Fresh).kind # "link"
    BY DEF Dir
  <2> QED
    BY <2>1, <2>2, <2>3, Names, LeadsOn
<1>2. ASSUME NEW i \in Procs, Step(i) \/ Crash(i) \/ \E c \in Commands : Issue(i, c)
      PROVE  Leads'
  <2>0. /\ ~At(i, "idle") => Cmd(i) \in scope.commands /\ Cmd(i) \in Commands
        /\ ~At(i, "idle") => Harmless(Cmd(i)) \/ (SourceThere /\ CloneApart /\ DeletedApart)
    BY Where DEF Guarded
  <2>1. ASSUME NEW c \in Commands, Issue(i, c) PROVE Leads'
    BY <2>1, LeadsStill DEF Issue, NoFiles, disk
  <2>2. ASSUME Crash(i) PROVE Leads'
    BY <2>2, LeadsStill DEF Crash, Fail, NoFiles, disk
  <2>3. ASSUME \/ StartInit(i) \/ StartUse(i) \/ StartSave(i) \/ StartCreate(i) \/ StartDelete(i)
        PROVE  Leads'
    <3>1. UNCHANGED <<live, snap>>
      BY <2>3, StartInitEffect, StartUseEffect, StartSaveEffect, StartCreateEffect, StartDeleteEffect
      DEF Fails, disk
    <3> QED
      BY <3>1, LeadsStill
  <2>4. ASSUME SkipRunningIde(i) \/ LookAtLive(i) \/ BeginClone(i) \/ CheckDelete(i)
        PROVE  Leads'
    <3>1. UNCHANGED <<live, snap>>
      BY <2>4, SkipEffect, LookEffect, BeginCloneEffect, CheckDeleteEffect DEF Fails, disk
    <3> QED
      BY <3>1, LeadsStill
  <2>5. ASSUME \/ RemoveProfile(i) \/ LoadRegistry(i) \/ TruncateTmp(i) \/ WriteTmp(i) \/ RenameTmp(i)
        PROVE  Leads'
    <3>1. UNCHANGED <<live, snap>>
      BY <2>5, RemoveProfileEffect, LoadEffect, TruncateEffect, WriteEffect, RenameEffect
      DEF Fails, disk
    <3> QED
      BY <3>1, LeadsStill
  <2>6. ASSUME NEW p \in Profiles, Repoint(i, p), ~At(i, "idle"), proc[i].todo # {}
        PROVE  Leads'
    <3>1. CASE UNCHANGED disk
      BY <3>1, LeadsStill DEF disk
    <3>2. CASE /\ live' = [live EXCEPT ![Agent(i)] = Link(p)]
               /\ snap[p][Agent(i)] # None /\ snap' = snap
      <4>1. Agent(i) \in Agents
        BY <2>6, AtWork
      <4>2. \A b \in Agents : live'[b] = IF b = Agent(i) THEN Link(p) ELSE live[b]
        BY <3>2, <4>1, OneLive
      <4>3. Link(p).at = p
        BY DEF Link
      <4> QED
        BY <3>2, <4>2, <4>3, Names, LeadsOn
    <3> QED
      BY <2>6, <3>1, <3>2, RepointEffect DEF Fails
  <2>7. ASSUME SwitchLink(i) PROVE Leads'
    <3>1. /\ At(i, "agent") /\ ~At(i, "idle") /\ proc[i].todo # {}
          /\ Cmd(i).op \in {"use", "restore"} /\ Repoint(i, Cmd(i).profile)
      BY <2>7 DEF SwitchLink, At
    <3>2. Cmd(i).profile \in Profiles
      BY <3>1, Where, CommandFields
    <3> QED
      BY <2>6, <3>1, <3>2
  <2>8. ASSUME LinkBack(i) PROVE Leads'
    <3>1. At(i, "link") /\ Repoint(i, Default)
      BY <2>8 DEF LinkBack
    <3>2. ~At(i, "idle") /\ proc[i].todo # {} /\ Default \in Profiles
      BY <3>1, Where, Names DEF At, Moving
    <3> QED
      BY <2>6, <3>1, <3>2
  <2>9. ASSUME RestoreWipe(i) PROVE Leads'
    <3>1. CASE UNCHANGED disk
      BY <3>1, LeadsStill DEF disk
    <3>2. CASE live' = [live EXCEPT ![Agent(i)] = Absent] /\ snap' = snap
      <4>1. Agent(i) \in Agents
        BY <2>9, RestoreWipeEffect, AtWork DEF At
      <4>2. \A b \in Agents : live'[b] = IF b = Agent(i) THEN Absent ELSE live[b]
        BY <3>2, <4>1, OneLive
      <4> QED
        BY <3>2, <4>2, Names, NewLives, LeadsOn
    <3> QED
      BY <2>9, <3>1, <3>2, RestoreWipeEffect DEF Fails
  <2>10. ASSUME WipeSnapshot(i) PROVE Leads'
    <3>1. /\ At(i, "wipe") /\ live' = live /\ Agent(i) \in Agents /\ Target(i) \in Profiles
          /\ snap' = [snap EXCEPT ![Target(i)][Agent(i)] = None]
      BY <2>10, WipeEffect
    <3>2. \A q \in Profiles, b \in Agents :
             snap'[q][b] = IF q = Target(i) /\ b = Agent(i) THEN None ELSE snap[q][b]
      BY <3>1 DEF TypeOK
    <3>3. Agent(i) \in SymlinkTier => live[Agent(i)].kind # "link"
      <4>1. Cmd(i).op \in {"init", "save"} /\ (Cmd(i).op = "save" => Agent(i) \notin SymlinkTier)
        BY <3>1, Where DEF At
      <4>2. Agent(i) \in SymlinkTier => SourceThere
        BY <2>0, <3>1, <4>1 DEF Harmless, At
      <4> QED
        BY <3>1, <4>2 DEF SourceThere, At
    <3>4. \A p \in Profiles : Link(p).kind = "link"
      BY DEF Link
    <3> QED
      BY <3>1, <3>2, <3>3, <3>4, Names, LeadsOn
  <2>11. ASSUME MoveLive(i) PROVE Leads'
    <3>1. PICK c \in Contents : snap' = [snap EXCEPT ![Default][Agent(i)] = c]
      BY <2>11, MoveEffect
    <3>2. live' = [live EXCEPT ![Agent(i)] = Absent] /\ Agent(i) \in Agents
      BY <2>11, MoveEffect
    <3>3. \A q \in Profiles, b \in Agents :
             snap'[q][b] = IF q = Default /\ b = Agent(i) THEN c ELSE snap[q][b]
      BY <3>1, <3>2, Names DEF TypeOK
    <3>4. \A b \in Agents : live'[b] = IF b = Agent(i) THEN Absent ELSE live[b]
      BY <3>2, OneLive
    <3>5. c # None
      BY Names
    <3> QED
      BY <3>3, <3>4, <3>5, Names, NewLives, LeadsOn
  <2>12. ASSUME NEW c \in Contents, Copies(i, c), Agent(i) \in Agents, Target(i) \in Profiles
         PROVE  Leads'
    <3>0. c # None
      BY Names
    <3>1. CASE /\ live' = [live EXCEPT ![Agent(i)] = Dir(c)] /\ snap' = snap
      <4>1. \A b \in Agents : live'[b] = IF b = Agent(i) THEN Dir(c) ELSE live[b]
        BY <2>12, <3>1, OneLive
      <4> QED
        BY <3>1, <4>1, Names, NewLives, LeadsOn
    <3>2. CASE snap' = [snap EXCEPT ![Target(i)][Agent(i)] = c] /\ live' = live
      <4>1. \A q \in Profiles, b \in Agents :
               snap'[q][b] = IF q = Target(i) /\ b = Agent(i) THEN c ELSE snap[q][b]
        BY <2>12, <3>2 DEF TypeOK
      <4> QED
        BY <3>0, <3>2, <4>1, Names, LeadsOn
    <3> QED
      BY <2>12, <3>1, <3>2 DEF Copies
  <2>13. ASSUME BeginCopy(i) \/ EndCopy(i) PROVE Leads'
    <3>1. \E c \in Contents : Copies(i, c)
      BY <2>13, BeginCopyEffect, EndCopyEffect, Names
    <3>2. proc[i].pc \in {"copy", "copying"} /\ ~At(i, "idle")
      BY <2>13 DEF BeginCopy, EndCopy, At
    <3>3. Agent(i) \in Agents /\ Target(i) \in Profiles
      BY <3>2, Where, AtWork
    <3> QED
      BY <2>12, <3>1, <3>3
  <2>14. ASSUME ~At(i, "idle"), proc[i].pc \in {"agent", "copy", "copying"}, Cmd(i).op = "create",
                proc[i].todo # {} \/ Cmd(i).explicit
         PROVE  \A a \in SymlinkTier : live[a] # Link(Cmd(i).profile)
    <3>1. ~Harmless(Cmd(i))
      BY <2>14, Where DEF Harmless
    <3> QED
      BY <2>0, <2>14, <3>1 DEF CloneApart
  <2>15. ASSUME CopyFails(i) PROVE Leads'
    <3>1. /\ proc[i].pc \in {"copy", "copying"} /\ live' = live
          /\ IF Cmd(i).op = "create"
             THEN /\ Cmd(i).profile \in Profiles
                  /\ snap' = [snap EXCEPT ![Cmd(i).profile] = [a \in Agents |-> None]]
             ELSE snap' = snap
      BY <2>15, CopyFailsEffect
    <3>2. CASE Cmd(i).op # "create"
      BY <3>1, <3>2, LeadsStill
    <3>3. CASE Cmd(i).op = "create"
      <4>1. \A a \in SymlinkTier : live[a] # Link(Cmd(i).profile)
        BY <2>14, <3>1, <3>3, Where DEF At
      <4>2. \A q \in Profiles \ {Cmd(i).profile} : snap'[q] = snap[q]
        BY <3>1, <3>3 DEF TypeOK
      <4> QED
        BY <3>1, <4>1, <4>2, LeadsOn
    <3> QED
      BY <3>2, <3>3
  <2>16. ASSUME AgentsDone(i) PROVE Leads'
    <3>1. At(i, "agent") /\ live' = live
      BY <2>16, AgentsDoneEffect
    <3>2. CASE snap' = snap
      BY <3>1, <3>2, LeadsStill
    <3>3. CASE /\ Cmd(i).op = "create" /\ Cmd(i).profile \in Profiles
               /\ snap' = [snap EXCEPT ![Cmd(i).profile] =
                    [a \in Agents |-> IF Cmd(i).explicit /\ a \notin Cmd(i).agents THEN None
                                      ELSE snap[Cmd(i).profile][a]]]
      <4>1. Cmd(i).explicit => \A a \in SymlinkTier : live[a] # Link(Cmd(i).profile)
        BY <2>14, <3>1, <3>3 DEF At
      <4>2. \A q \in Profiles \ {Cmd(i).profile} : snap'[q] = snap[q]
        BY <3>3 DEF TypeOK
      <4>3. ~Cmd(i).explicit => \A a \in Agents : snap'[Cmd(i).profile][a] = snap[Cmd(i).profile][a]
        BY <3>3 DEF TypeOK
      <4> QED
        BY <3>1, <3>3, <4>1, <4>2, <4>3, Names, LeadsOn
    <3> QED
      BY <2>16, <3>2, <3>3, AgentsDoneEffect
  <2>17. ASSUME NEW a \in Agents, RemoveSubtree(i, a) PROVE Leads'
    <3>1. /\ At(i, "remove") /\ live' = live /\ Cmd(i).profile \in Profiles
          /\ snap' = [snap EXCEPT ![Cmd(i).profile][a] = None]
      BY <2>17, RemoveSubtreeEffect
    <3>2. \A q \in Profiles, b \in Agents :
             snap'[q][b] = IF q = Cmd(i).profile /\ b = a THEN None ELSE snap[q][b]
      BY <3>1 DEF TypeOK
    <3>3. ~Harmless(Cmd(i))
      BY <3>1, Where DEF Harmless, At
    <3>4. \A b \in SymlinkTier : live[b] # Link(Cmd(i).profile)
      BY <2>0, <3>1, <3>3 DEF DeletedApart, At
    <3> QED
      BY <3>1, <3>2, <3>4, Names, LeadsOn
  <2>18. ASSUME RenameRefused(i) \/ Relocated(i) PROVE Leads'
    <3>1. PICK c \in Contents : snap' = [snap EXCEPT ![Default][Agent(i)] = c]
      BY <2>18, RenameRefusedEffect, RelocatedEffect, Names
    <3>2. live' = live /\ Agent(i) \in Agents
      BY <2>18, RenameRefusedEffect, RelocatedEffect
    <3>3. \A q \in Profiles, b \in Agents :
             snap'[q][b] = IF q = Default /\ b = Agent(i) THEN c ELSE snap[q][b]
      BY <3>1, <3>2, Names DEF TypeOK
    <3>4. c # None
      BY Names
    <3> QED
      BY <3>2, <3>3, <3>4, Names, LeadsOn
  <2>19. ASSUME ClearSource(i) \/ SourceCleared(i) PROVE Leads'
    <3>1. PICK l \in {Absent, Dir(Partial)} : live' = [live EXCEPT ![Agent(i)] = l]
      BY <2>19, ClearSourceEffect, SourceClearedEffect
    <3>2. snap' = snap /\ Agent(i) \in Agents
      BY <2>19, ClearSourceEffect, SourceClearedEffect
    <3>3. \A b \in Agents : live'[b] = IF b = Agent(i) THEN l ELSE live[b]
      BY <3>1, <3>2, OneLive
    <3>4. l.kind # "link"
      BY <3>1, Names, NewLives
    <3> QED
      BY <3>2, <3>3, <3>4, Names, LeadsOn
  <2>20. ASSUME MoveFails(i) PROVE Leads'
    BY <2>20, MoveFailsEffect, LeadsStill DEF Fails, disk
  <2> QED
    BY <1>2, <2>1, <2>2, <2>3, <2>4, <2>5, <2>7, <2>8, <2>9, <2>10, <2>11, <2>13, <2>15, <2>16,
       <2>17, <2>18, <2>19, <2>20 DEF Step
<1> QED
  BY <1>1, <1>2 DEF Next

------------------------------------------------------------------------------
(* One process at a time.                                                     *)

(* Which step leads where.                                                    *)
LEMMA StepAfter ==
  ASSUME TypeOK, InStep, NEW i \in Procs, Step(i)
  PROVE  /\ ~At(i, "idle") /\ UNCHANGED <<scope, fresh>> /\ mishaps \subseteq mishaps'
         /\ proc'[i].pc # "idle" => proc'[i].cmd = proc[i].cmd /\ proc'[i].result = None
         /\ proc'[i].pc # "start"
         /\ proc'[i].pc = "wipe" => LookAtLive(i)
         /\ proc'[i].pc = "move" => WipeSnapshot(i)
         /\ proc'[i].pc = "relocating" => RenameRefused(i)
         /\ proc'[i].pc = "clear" => Relocated(i)
         /\ proc'[i].pc = "clearing" => ClearSource(i)
         /\ proc'[i].pc = "link" => MoveLive(i) \/ ClearSource(i) \/ SourceCleared(i)
         /\ proc'[i].pc = "copy" => WipeSnapshot(i) \/ RestoreWipe(i) \/ BeginClone(i)
         /\ proc'[i].pc = "copying" => BeginCopy(i)
         /\ proc'[i].pc = "check" => StartDelete(i)
         /\ proc'[i].pc = "remove" => CheckDelete(i) \/ \E a \in Agents : RemoveSubtree(i, a)
         /\ proc'[i].pc = "load" => AgentsDone(i)
         /\ proc'[i].pc = "truncate" => RemoveProfile(i) \/ LoadRegistry(i)
         /\ proc'[i].pc = "write" => TruncateTmp(i)
         /\ proc'[i].pc = "rename" => WriteTmp(i)
         /\ proc'[i].result = "ok" => AgentsDone(i) \/ RemoveProfile(i) \/ RenameTmp(i)
<1> DEFINE Plain(pcs) ==
             /\ UNCHANGED <<scope, fresh>> /\ mishaps \subseteq mishaps'
             /\ \/ proc'[i].pc = "idle" /\ proc'[i].result # "ok"
                \/ /\ proc'[i].pc \in pcs /\ proc'[i].cmd = proc[i].cmd
                   /\ proc'[i].result = proc[i].result
<1>1. StartInit(i) => At(i, "start") /\ Plain({"agent"})
  BY StartInitEffect
<1>2. StartUse(i) => At(i, "start") /\ Plain({"agent"})
  BY StartUseEffect DEF Fails
<1>3. StartSave(i) => At(i, "start") /\ Plain({"agent"})
  BY StartSaveEffect DEF Fails
<1>4. StartCreate(i) => At(i, "start") /\ Plain({"agent"})
  BY StartCreateEffect DEF Fails
<1>5. StartDelete(i) => At(i, "start") /\ Plain({"check"})
  BY StartDeleteEffect DEF Fails
<1>6. SkipRunningIde(i) => At(i, "agent") /\ Plain({"agent"})
  BY SkipEffect
<1>7. SwitchLink(i) => At(i, "agent") /\ Plain({"agent"})
  <2> SUFFICES ASSUME SwitchLink(i) PROVE At(i, "agent") /\ Plain({"agent"})
    OBVIOUS
  <2>1. /\ At(i, "agent") /\ ~At(i, "idle") /\ proc[i].todo # {}
        /\ Cmd(i).op \in {"use", "restore"} /\ Repoint(i, Cmd(i).profile)
    BY DEF SwitchLink, At
  <2>2. Cmd(i).profile \in Profiles
    BY <2>1, Where, CommandFields
  <2> QED
    BY <2>1, <2>2, RepointEffect DEF Fails
<1>8. RestoreWipe(i) => At(i, "agent") /\ Plain({"copy"})
  BY RestoreWipeEffect DEF Fails
<1>9. LookAtLive(i) => At(i, "agent") /\ Plain({"agent", "wipe"})
  BY LookEffect DEF Fails
<1>10. WipeSnapshot(i) => At(i, "wipe") /\ Plain({"move", "copy"})
  BY WipeEffect
<1>11. MoveLive(i) => At(i, "move") /\ Plain({"link"})
  BY MoveEffect
<1>12. LinkBack(i) => At(i, "link") /\ Plain({"agent"})
  <2> SUFFICES ASSUME LinkBack(i) PROVE At(i, "link") /\ Plain({"agent"})
    OBVIOUS
  <2>1. At(i, "link") /\ ~At(i, "idle") /\ Repoint(i, Default) /\ proc[i].todo # {}
    BY Where DEF LinkBack, At, Moving
  <2> QED
    BY <2>1, Names, RepointEffect DEF Fails
<1>13. BeginClone(i) => At(i, "agent") /\ Plain({"copy"})
  BY BeginCloneEffect
<1>14. BeginCopy(i) => At(i, "copy") /\ Plain({"copying"})
  BY BeginCopyEffect
<1>15. EndCopy(i) => At(i, "copying") /\ Plain({"agent"})
  BY EndCopyEffect
<1>16. CopyFails(i) => ~At(i, "idle") /\ Plain({})
  BY CopyFailsEffect DEF At
<1>17. CheckDelete(i) => At(i, "check") /\ Plain({"remove"})
  BY CheckDeleteEffect DEF Fails
<1>18. \A a \in Agents : RemoveSubtree(i, a) => At(i, "remove") /\ Plain({"remove"})
  BY RemoveSubtreeEffect DEF At
<1>19. LoadRegistry(i) => At(i, "load") /\ Plain({"truncate"})
  BY LoadEffect DEF Fails
<1>20. TruncateTmp(i) => At(i, "truncate") /\ Plain({"write"})
  BY TruncateEffect
<1>21. WriteTmp(i) => At(i, "write") /\ Plain({"rename"})
  BY WriteEffect
<1>22. AgentsDone(i) =>
         /\ At(i, "agent") /\ UNCHANGED <<scope, fresh>> /\ mishaps \subseteq mishaps'
         /\ \/ proc'[i].pc = "idle"
            \/ /\ proc'[i].pc = "load" /\ proc'[i].cmd = proc[i].cmd
               /\ proc'[i].result = proc[i].result
  BY AgentsDoneEffect
<1>23. RemoveProfile(i) =>
         /\ At(i, "remove") /\ UNCHANGED <<scope, fresh>> /\ mishaps \subseteq mishaps'
         /\ \/ proc'[i].pc = "idle"
            \/ /\ proc'[i].pc = "truncate" /\ proc'[i].cmd = proc[i].cmd
               /\ proc'[i].result = proc[i].result
  BY RemoveProfileEffect DEF Fails
<1>24. RenameTmp(i) =>
         /\ At(i, "rename") /\ UNCHANGED <<scope, fresh>> /\ mishaps \subseteq mishaps'
         /\ proc'[i].pc = "idle"
  BY RenameEffect DEF Fails
<1>30. /\ RenameRefused(i) => At(i, "move") /\ Plain({"relocating"})
       /\ Relocated(i) => At(i, "relocating") /\ Plain({"clear"})
       /\ ClearSource(i) => At(i, "clear") /\ Plain({"clearing", "link"})
       /\ SourceCleared(i) => At(i, "clearing") /\ Plain({"link"})
       /\ MoveFails(i) => ~At(i, "idle") /\ Plain({})
  BY RenameRefusedEffect, RelocatedEffect, ClearSourceEffect, SourceClearedEffect, MoveFailsEffect
     DEF Fails, At
<1>25. ~At(i, "idle") => proc[i].result = None
  BY Where
<1>26. None # "ok"
  BY AgentsTyped DEF Outcomes
<1>27. \A pc \in PCs : At(i, pc) <=> proc[i].pc = pc
  BY DEF At
<1>28. ~At(i, "idle")
  BY <1>1, <1>2, <1>3, <1>4, <1>5, <1>6, <1>7, <1>8, <1>9, <1>10, <1>11, <1>12, <1>13, <1>14,
     <1>15, <1>16, <1>17, <1>18, <1>19, <1>20, <1>21, <1>22, <1>23, <1>24, <1>27, <1>30 DEF Step, PCs
<1>29. UNCHANGED <<scope, fresh>> /\ mishaps \subseteq mishaps'
  BY <1>1, <1>2, <1>3, <1>4, <1>5, <1>6, <1>7, <1>8, <1>9, <1>10, <1>11, <1>12, <1>13, <1>14,
     <1>15, <1>16, <1>17, <1>18, <1>19, <1>20, <1>21, <1>22, <1>23, <1>24, <1>30 DEF Step
<1> QED
  BY <1>1, <1>2, <1>3, <1>4, <1>5, <1>6, <1>7, <1>8, <1>9, <1>10, <1>11, <1>12, <1>13, <1>14,
     <1>15, <1>16, <1>17, <1>18, <1>19, <1>20, <1>21, <1>22, <1>23, <1>24, <1>25, <1>26, <1>28,
     <1>29, <1>30 DEF Step

(* Then the other processes are idle, before and after.                       *)
LEMMA Lonely ==
  ASSUME TypeOK, InStep, OneAtATime, NEW i \in Procs,
         Step(i) \/ Crash(i) \/ \E c \in Commands : Issue(i, c)
  PROVE  /\ \A j \in Procs \ {i} : At(j, "idle") /\ At(j, "idle")'
         /\ i \in scope.procs /\ UNCHANGED <<scope, fresh>> /\ mishaps \subseteq mishaps'
<1>1. UNCHANGED <<scope, fresh>> /\ mishaps \subseteq mishaps'
  BY StepAfter, CrashEffect, IssueEffect DEF Fails
<1>2. i \in scope.procs
  <2>1. CASE ~At(i, "idle")
    BY <2>1, Where
  <2>2. CASE At(i, "idle")
    BY <2>2, StepAfter, CrashEffect, IssueEffect
  <2> QED
    BY <2>1, <2>2
<1>3. InStep'
  BY StepInStep
<1>4. \A j \in Procs : /\ ~At(j, "idle") => j \in scope.procs
                       /\ ~At(j, "idle")' => j \in scope.procs
  BY <1>1, <1>3 DEF InStep
<1> QED
  BY <1>1, <1>2, <1>4 DEF OneAtATime

(* Which steps a command takes.                                               *)
LEMMA StepsOf ==
  ASSUME TypeOK, InStep, NEW i \in Procs, Step(i)
  PROVE  /\ Cmd(i).op = "create" =>
              StartCreate(i) \/ BeginClone(i) \/ BeginCopy(i) \/ EndCopy(i) \/ CopyFails(i)
                \/ AgentsDone(i)
         /\ Cmd(i).op = "delete" =>
              StartDelete(i) \/ CheckDelete(i) \/ (\E a \in Agents : RemoveSubtree(i, a))
                \/ RemoveProfile(i) \/ TruncateTmp(i) \/ WriteTmp(i) \/ RenameTmp(i)
         /\ Cmd(i).op = "save" =>
              StartSave(i) \/ LookAtLive(i) \/ WipeSnapshot(i) \/ BeginCopy(i) \/ EndCopy(i)
                \/ CopyFails(i) \/ AgentsDone(i)
         /\ Cmd(i).op \in {"use", "restore"} =>
              StartUse(i) \/ SkipRunningIde(i) \/ SwitchLink(i) \/ RestoreWipe(i) \/ BeginCopy(i)
                \/ EndCopy(i) \/ CopyFails(i) \/ AgentsDone(i) \/ LoadRegistry(i)
                \/ TruncateTmp(i) \/ WriteTmp(i) \/ RenameTmp(i)
         /\ Cmd(i).op = "init" =>
              StartInit(i) \/ LookAtLive(i) \/ WipeSnapshot(i) \/ MoveLive(i) \/ LinkBack(i)
                \/ RenameRefused(i) \/ Relocated(i) \/ ClearSource(i) \/ SourceCleared(i)
                \/ MoveFails(i) \/ BeginCopy(i) \/ EndCopy(i) \/ CopyFails(i) \/ AgentsDone(i) \/ LoadRegistry(i)
                \/ TruncateTmp(i) \/ WriteTmp(i) \/ RenameTmp(i)
         /\ Cmd(i).op \in {"create", "delete", "save", "use", "restore", "init"}
<1>1. ~At(i, "idle")
  BY StepAfter
<1>2. /\ Cmd(i).op \in {"create", "delete", "save", "use", "restore", "init"}
      /\ At(i, "agent") => Cmd(i).op # "delete"
      /\ At(i, "wipe") => Cmd(i).op \in {"init", "save"}
      /\ proc[i].pc \in Moving => Cmd(i).op = "init"
      /\ At(i, "copy") \/ At(i, "copying") => Cmd(i).op \in {"init", "save", "create", "restore"}
      /\ At(i, "check") \/ At(i, "remove") => Cmd(i).op = "delete"
      /\ At(i, "load") => Cmd(i).op \in {"init", "use", "restore"}
      /\ At(i, "truncate") \/ At(i, "write") \/ At(i, "rename") =>
           Cmd(i).op \in {"init", "use", "restore", "delete"}
  BY <1>1, Where, CommandFields DEF At, Ops, Moving
<1>3. /\ StartInit(i) => Cmd(i).op = "init"
      /\ StartUse(i) => Cmd(i).op \in {"use", "restore"}
      /\ StartSave(i) => Cmd(i).op = "save"
      /\ StartCreate(i) => Cmd(i).op = "create"
      /\ StartDelete(i) => Cmd(i).op = "delete"
  BY DEF StartInit, StartUse, StartSave, StartCreate, StartDelete
<1>4. /\ SkipRunningIde(i) => Cmd(i).op \in {"use", "restore"}
      /\ SwitchLink(i) => Cmd(i).op \in {"use", "restore"}
      /\ RestoreWipe(i) => Cmd(i).op = "restore"
      /\ LookAtLive(i) => Cmd(i).op \in {"save", "init"}
      /\ BeginClone(i) => Cmd(i).op = "create"
  BY DEF SkipRunningIde, SwitchLink, RestoreWipe, LookAtLive, BeginClone
<1>5. /\ WipeSnapshot(i) => Cmd(i).op \in {"init", "save"}
      /\ MoveLive(i) \/ LinkBack(i) => Cmd(i).op = "init"
      /\ BeginCopy(i) \/ EndCopy(i) \/ CopyFails(i) =>
           Cmd(i).op \in {"init", "save", "create", "restore"}
      /\ AgentsDone(i) => Cmd(i).op # "delete"
      /\ CheckDelete(i) \/ RemoveProfile(i) \/ (\E a \in Agents : RemoveSubtree(i, a)) =>
           Cmd(i).op = "delete"
  BY <1>2 DEF WipeSnapshot, MoveLive, LinkBack, BeginCopy, EndCopy, CopyFails, AgentsDone,
     At, Moving, CheckDelete, RemoveProfile, RemoveSubtree
<1>7. RenameRefused(i) \/ Relocated(i) \/ ClearSource(i) \/ SourceCleared(i) \/ MoveFails(i) =>
        Cmd(i).op = "init"
  BY <1>2 DEF RenameRefused, Relocated, ClearSource, SourceCleared, MoveFails, At, Moving
<1>6. /\ LoadRegistry(i) => Cmd(i).op \in {"init", "use", "restore"}
      /\ TruncateTmp(i) \/ WriteTmp(i) \/ RenameTmp(i) =>
           Cmd(i).op \in {"init", "use", "restore", "delete"}
  BY <1>2 DEF LoadRegistry, TruncateTmp, WriteTmp, RenameTmp
<1> QED
  BY <1>2, <1>3, <1>4, <1>5, <1>6, <1>7 DEF Step

(* What the commands leave alone of the agents that are switched by link.       *)
LEMMA TierAfter ==
  ASSUME TypeOK, InStep, NEW i \in Procs, Step(i)
  PROVE  /\ Cmd(i).op \in {"create", "delete", "save"} =>
              \A a \in SymlinkTier : live'[a] = live[a]
         /\ Cmd(i).op \in {"save", "use", "restore"} =>
              \A a \in SymlinkTier, p \in Profiles : snap'[p][a] = snap[p][a]
         /\ RestoreWipe(i) \/ BeginCopy(i) \/ EndCopy(i) =>
              \A a \in SymlinkTier : live'[a] = live[a]
         /\ Cmd(i).op # "create" /\ (WipeSnapshot(i) => Agent(i) \notin SymlinkTier)
              /\ ~MoveLive(i) /\ ~RenameRefused(i) /\ ~Relocated(i) /\ Cmd(i).op # "delete" =>
              \A a \in SymlinkTier, p \in Profiles : snap'[p][a] = snap[p][a]
<1>1. /\ SymlinkTier \subseteq Agents
  BY Names
<1>2. StartInit(i) \/ StartUse(i) \/ StartSave(i) \/ StartCreate(i) \/ StartDelete(i)
        \/ SkipRunningIde(i) \/ LookAtLive(i) \/ BeginClone(i) \/ CheckDelete(i) \/ RemoveProfile(i)
        \/ LoadRegistry(i) \/ TruncateTmp(i) \/ WriteTmp(i) \/ RenameTmp(i)
      => UNCHANGED <<live, snap>>
  <2>1. StartInit(i) \/ StartUse(i) \/ StartSave(i) \/ StartCreate(i) \/ StartDelete(i)
        => UNCHANGED <<live, snap>>
    BY StartInitEffect, StartUseEffect, StartSaveEffect, StartCreateEffect, StartDeleteEffect
    DEF Fails, disk
  <2>2. SkipRunningIde(i) \/ LookAtLive(i) \/ BeginClone(i) \/ CheckDelete(i)
        => UNCHANGED <<live, snap>>
    BY SkipEffect, LookEffect, BeginCloneEffect, CheckDeleteEffect DEF Fails, disk
  <2>3. RemoveProfile(i) \/ LoadRegistry(i) \/ TruncateTmp(i) \/ WriteTmp(i) \/ RenameTmp(i)
        => UNCHANGED <<live, snap>>
    BY RemoveProfileEffect, LoadEffect, TruncateEffect, WriteEffect, RenameEffect DEF Fails, disk
  <2> QED
    BY <2>1, <2>2, <2>3
<1>3. SwitchLink(i) \/ LinkBack(i) => snap' = snap
  BY DEF SwitchLink, LinkBack, Repoint, Fail, NoFiles, disk
<1>4. RestoreWipe(i) =>
        /\ Agent(i) \notin SymlinkTier /\ snap' = snap
        /\ live' = live \/ live' = [live EXCEPT ![Agent(i)] = Absent]
  BY RestoreWipeEffect DEF Fails, disk
<1>5. RestoreWipe(i) => \A a \in SymlinkTier : live'[a] = live[a]
  BY <1>1, <1>4 DEF TypeOK
<1>6. WipeSnapshot(i) =>
        /\ live' = live /\ Agent(i) \in Agents /\ Target(i) \in Profiles
        /\ snap' = [snap EXCEPT ![Target(i)][Agent(i)] = None]
  BY WipeEffect
<1>7. WipeSnapshot(i) /\ Agent(i) \notin SymlinkTier =>
        \A a \in SymlinkTier, p \in Profiles : snap'[p][a] = snap[p][a]
  BY <1>1, <1>6 DEF TypeOK
<1>8. BeginCopy(i) \/ EndCopy(i) =>
        /\ \A a \in SymlinkTier : live'[a] = live[a]
        /\ Cmd(i).op # "create" => \A a \in SymlinkTier, p \in Profiles : snap'[p][a] = snap[p][a]
  <2> SUFFICES ASSUME BeginCopy(i) \/ EndCopy(i)
               PROVE  /\ \A a \in SymlinkTier : live'[a] = live[a]
                      /\ Cmd(i).op # "create" =>
                           \A a \in SymlinkTier, p \in Profiles : snap'[p][a] = snap[p][a]
    OBVIOUS
  <2>1. PICK c \in Contents : Copies(i, c)
    BY BeginCopyEffect, EndCopyEffect, Names
  <2>2. proc[i].pc \in {"copy", "copying"} /\ ~At(i, "idle")
    BY DEF BeginCopy, EndCopy, At
  <2>3. Agent(i) \in Agents /\ Target(i) \in Profiles
    BY <2>2, Where, AtWork
  <2>4. CASE /\ Agent(i) \notin SymlinkTier /\ live' = [live EXCEPT ![Agent(i)] = Dir(c)]
             /\ snap' = snap
    BY <1>1, <2>4 DEF TypeOK
  <2>5. CASE /\ Agent(i) \notin SymlinkTier /\ live' = live
             /\ snap' = [snap EXCEPT ![Target(i)][Agent(i)] = c]
    BY <1>1, <2>3, <2>5 DEF TypeOK
  <2>6. CASE Cmd(i).op = "create" /\ live' = live
    BY <2>6
  <2> QED
    BY <2>1, <2>4, <2>5, <2>6 DEF Copies
<1>9. CopyFails(i) => live' = live /\ (Cmd(i).op # "create" => snap' = snap)
  BY CopyFailsEffect
<1>10. AgentsDone(i) => live' = live /\ (Cmd(i).op # "create" => snap' = snap)
  BY AgentsDoneEffect
<1>16. ClearSource(i) \/ SourceCleared(i) \/ MoveFails(i) => snap' = snap
  BY ClearSourceEffect, SourceClearedEffect, MoveFailsEffect DEF Fails, disk
<1>11. (\E a \in Agents : RemoveSubtree(i, a)) => live' = live
  BY DEF RemoveSubtree
<1>12. Cmd(i).op \in {"create", "delete", "save"} => \A a \in SymlinkTier : live'[a] = live[a]
  BY <1>2, <1>6, <1>8, <1>9, <1>10, <1>11, StepsOf
<1>13. Cmd(i).op \in {"use", "restore"} =>
         \A a \in SymlinkTier, p \in Profiles : snap'[p][a] = snap[p][a]
  BY <1>2, <1>3, <1>4, <1>8, <1>9, <1>10, StepsOf
<1>14. Cmd(i).op = "save" => \A a \in SymlinkTier, p \in Profiles : snap'[p][a] = snap[p][a]
  <2>1. Cmd(i).op = "save" /\ WipeSnapshot(i) => Agent(i) \notin SymlinkTier
    BY WipeEffect, Where DEF At
  <2> QED
    BY <1>2, <1>7, <1>8, <1>9, <1>10, <2>1, StepsOf
<1>15. Cmd(i).op = "init" /\ (WipeSnapshot(i) => Agent(i) \notin SymlinkTier) /\ ~MoveLive(i)
         /\ ~RenameRefused(i) /\ ~Relocated(i) =>
         \A a \in SymlinkTier, p \in Profiles : snap'[p][a] = snap[p][a]
  BY <1>2, <1>3, <1>7, <1>8, <1>9, <1>10, <1>16, StepsOf
<1> QED
  BY <1>5, <1>8, <1>12, <1>13, <1>14, <1>15, StepsOf

SourceAt(i) ==
    /\ proc[i].pc \in {"wipe", "move", "relocating", "clear"} /\ Agent(i) \in SymlinkTier =>
          live[Agent(i)].kind \in {"dir", "foreign"}
    /\ At(i, "clear") => snap[Default][Agent(i)] = live[Agent(i)].at
    /\ At(i, "clearing") => live[Agent(i)] = Dir(Partial)
    /\ proc[i].pc \in {"clearing", "link"} => snap[Default][Agent(i)] # None

CloneAt(i) ==
    proc[i].pc \in {"agent", "copy", "copying"} /\ Cmd(i).op = "create" =>
        LET p == Cmd(i).profile
            f == Cmd(i).from
        IN  /\ \A a \in SymlinkTier : live[a] # Link(p)
            /\ f # None => f # p /\ proc[i].todo \subseteq WithSnapshot(f)
            /\ \A a \in Agents : snap[p][a] # None =>
                  f # None /\ snap[p][a] \in {Partial, snap[f][a]}

DeletedAt(i) ==
    proc[i].pc \in {"check", "remove"} =>
        /\ proc[i].reg = registry
        /\ At(i, "remove") => \A a \in SymlinkTier :
              live[a] # Link(Cmd(i).profile) /\ registry.active[a] # Cmd(i).profile

SavesAt(i) ==
    /\ proc[i].pc \in {"write", "rename"} => proc[i].file = "tmp"
    /\ At(i, "write") => tmp = Torn
    /\ At(i, "rename") => tmp = proc[i].reg

(* Who moves a directory is init, and the agent is one that is switched by link. *)
LEMMA MovesTier ==
  ASSUME TypeOK, InStep, NEW i \in Procs, proc[i].pc \in Moving
  PROVE  /\ Cmd(i).op = "init" /\ Cmd(i) \in Commands /\ proc[i].todo # {}
         /\ Agent(i) \in SymlinkTier /\ Agent(i) \in Agents
<1>1. ~At(i, "idle") /\ ~At(i, "wipe")
  BY DEF At, Moving
<1> QED
  BY <1>1, Where, Names

(* init goes on with an agent that has a directory, which nobody else takes; it   *)
(* is removed when it has been copied.                                           *)
LEMMA SourceStep ==
  ASSUME TypeOK, InStep, SourceThere, NEW i \in Procs, Step(i)
  PROVE  SourceAt(i)'
<1>1. CASE proc'[i].pc = "wipe"
  <2>1. LookAtLive(i) /\ proc'[i].pc # "idle" /\ proc'[i].pc # "agent"
    BY <1>1, StepAfter
  <2>2. /\ live' = live /\ proc'[i].todo = proc[i].todo /\ live[Agent(i)] # Absent
        /\ At(i, "agent") /\ proc[i].todo # {}
        /\ Agent(i) \in SymlinkTier => live[Agent(i)].kind # "link"
    BY <2>1, LookEffect DEF Fails, disk
  <2>3. Agent(i) \in Agents /\ Agent(i)' = Agent(i)
    BY <2>2, AtWork DEF At, Agent
  <2>4. live[Agent(i)] \in Lives
    BY <2>3 DEF TypeOK
  <2>5. live[Agent(i)].kind \in {"dir", "link", "foreign"}
    BY <2>2, <2>4, LiveFields
  <2> QED
    BY <1>1, <2>2, <2>3, <2>5 DEF SourceAt, At
<1>2. CASE proc'[i].pc = "move"
  <2>1. WipeSnapshot(i)
    BY <1>2, StepAfter
  <2>2. live' = live /\ proc'[i].todo = proc[i].todo /\ At(i, "wipe")
    BY <2>1, WipeEffect
  <2>3. Agent(i)' = Agent(i)
    BY <2>2 DEF Agent
  <2>4. Agent(i) \in SymlinkTier => live[Agent(i)].kind \in {"dir", "foreign"}
    BY <2>2 DEF SourceThere, At
  <2> QED
    BY <1>2, <2>2, <2>3, <2>4 DEF SourceAt, At
<1>3. CASE proc'[i].pc = "relocating"
  <2>1. RenameRefused(i)
    BY <1>3, StepAfter
  <2>2. live' = live /\ proc'[i].todo = proc[i].todo /\ At(i, "move")
    BY <2>1, RenameRefusedEffect
  <2>3. Agent(i)' = Agent(i)
    BY <2>2 DEF Agent
  <2>4. Agent(i) \in SymlinkTier => live[Agent(i)].kind \in {"dir", "foreign"}
    BY <2>2 DEF SourceThere, At
  <2> QED
    BY <1>3, <2>2, <2>3, <2>4 DEF SourceAt, At
<1>4. CASE proc'[i].pc = "clear"
  <2>1. Relocated(i)
    BY <1>4, StepAfter
  <2>2. live' = live /\ proc'[i].todo = proc[i].todo /\ At(i, "relocating")
    BY <2>1, RelocatedEffect
  <2>3. Agent(i)' = Agent(i)
    BY <2>2 DEF Agent
  <2>4. Agent(i) \in SymlinkTier /\ Agent(i) \in Agents
    BY <2>2, MovesTier DEF At, Moving
  <2>5. live[Agent(i)].kind \in {"dir", "foreign"}
    BY <2>2, <2>4 DEF SourceThere, At
  <2>6. snap' = [snap EXCEPT ![Default][Agent(i)] = live[Agent(i)].at]
    BY <2>1, <2>5, RelocatedEffect
  <2>7. snap'[Default][Agent(i)] = live[Agent(i)].at
    BY <2>4, <2>6, Names DEF TypeOK
  <2> QED
    BY <1>4, <2>2, <2>3, <2>5, <2>7 DEF SourceAt, At
<1>5. ASSUME ClearSource(i)
      PROVE  /\ Agent(i)' = Agent(i) /\ snap' = snap /\ snap[Default][Agent(i)] # None
             /\ live[Agent(i)].kind = "dir" => live'[Agent(i)] = Dir(Partial)
  <2>1. snap' = snap /\ proc'[i].todo = proc[i].todo /\ At(i, "clear")
    BY <1>5, ClearSourceEffect
  <2>2. Agent(i)' = Agent(i)
    BY <2>1 DEF Agent
  <2>3. Agent(i) \in SymlinkTier /\ Agent(i) \in Agents
    BY <2>1, MovesTier DEF At, Moving
  <2>4. live[Agent(i)].kind \in {"dir", "foreign"} /\ snap[Default][Agent(i)] = live[Agent(i)].at
    BY <2>1, <2>3 DEF SourceThere, At
  <2>5. live[Agent(i)].at \in Contents
    BY <2>3, <2>4, LiveFields DEF TypeOK
  <2>6. live[Agent(i)].kind = "dir" => live' = [live EXCEPT ![Agent(i)] = Dir(Partial)]
    BY <1>5, ClearSourceEffect
  <2> QED
    BY <2>1, <2>2, <2>3, <2>4, <2>5, <2>6, Names, OneLive
<1>6. CASE proc'[i].pc = "clearing"
  <2>1. ClearSource(i)
    BY <1>6, StepAfter
  <2>2. live[Agent(i)].kind = "dir"
    BY <1>6, <2>1, ClearSourceEffect
  <2> QED
    BY <1>5, <1>6, <2>1, <2>2 DEF SourceAt, At
<1>7. CASE proc'[i].pc = "link"
  <2>1. CASE ClearSource(i)
    BY <1>5, <1>7, <2>1 DEF SourceAt, At
  <2>2. CASE SourceCleared(i)
    <3>1. snap' = snap /\ proc'[i].todo = proc[i].todo /\ At(i, "clearing")
      BY <2>2, SourceClearedEffect
    <3>2. Agent(i)' = Agent(i) /\ snap[Default][Agent(i)] # None
      BY <3>1 DEF SourceThere, Agent, At
    <3> QED
      BY <1>7, <3>1, <3>2 DEF SourceAt, At
  <2>3. CASE MoveLive(i)
    <3>1. PICK c \in Contents : snap' = [snap EXCEPT ![Default][Agent(i)] = c]
      BY <2>3, MoveEffect
    <3>2. Agent(i) \in Agents /\ Agent(i)' = Agent(i)
      BY <2>3, MoveEffect DEF Agent
    <3>3. snap'[Default][Agent(i)] # None
      BY <3>1, <3>2, Names DEF TypeOK
    <3> QED
      BY <1>7, <3>2, <3>3 DEF SourceAt, At
  <2> QED
    BY <1>7, <2>1, <2>2, <2>3, StepAfter
<1>8. CASE proc'[i].pc \notin {"wipe"} \cup Moving
  BY <1>8 DEF SourceAt, At, Moving
<1> QED
  BY <1>1, <1>2, <1>3, <1>4, <1>6, <1>7, <1>8 DEF Moving

(* A clone holds nothing that is not in the profile it is cloned from.         *)
LEMMA CloneStep ==
  ASSUME TypeOK, InStep, Leads, SnapshotsInProfiles, CloneApart, NEW i \in Procs, Step(i)
  PROVE  CloneAt(i)'
<1> SUFFICES ASSUME proc'[i].pc \in {"agent", "copy", "copying"}, Cmd(i)'.op = "create"
             PROVE  CloneAt(i)'
  BY DEF CloneAt
<1>1. ~At(i, "idle") /\ Cmd(i)' = Cmd(i) /\ Cmd(i).op = "create"
  BY StepAfter DEF Cmd
<1> DEFINE p == Cmd(i).profile
           f == Cmd(i).from
<1>2. p \in Profiles /\ f \in Profiles \cup {None}
  BY <1>1, Where, CommandFields
<1>3. \A a \in SymlinkTier : live'[a] = live[a]
  BY <1>1, TierAfter
<1>4. StartCreate(i) \/ BeginClone(i) \/ BeginCopy(i) \/ EndCopy(i) \/ CopyFails(i) \/ AgentsDone(i)
  BY <1>1, StepsOf
<1>5. ~CopyFails(i) /\ ~AgentsDone(i)
  BY <1>1, CopyFailsEffect, AgentsDoneEffect
<1>6. SUFFICES /\ \A a \in SymlinkTier : live[a] # Link(p)
               /\ f # None => f # p /\ \A a \in proc'[i].todo : a \in Agents /\ snap'[f][a] # None
               /\ \A a \in Agents : snap'[p][a] # None =>
                     f # None /\ snap'[p][a] \in {Partial, snap'[f][a]}
  BY <1>1, <1>3 DEF CloneAt, WithSnapshot
<1>7. CASE StartCreate(i)
  <2>1. /\ snap' = snap /\ p \notin profiles /\ f \in profiles \cup {None}
        /\ proc'[i].todo = IF f = None THEN {} ELSE WithSnapshot(f)
    BY <1>7, StartCreateEffect DEF Fails
  <2>2. \A a \in Agents : snap[p][a] = None
    BY <1>2, <2>1 DEF SnapshotsInProfiles
  <2>3. \A a \in SymlinkTier : live[a] # Link(p)
    BY <1>2, <2>2, Names, NewLives DEF Leads
  <2> QED
    BY <2>1, <2>2, <2>3 DEF WithSnapshot
<1>8. CASE ~StartCreate(i)
  <2>1. proc[i].pc \in {"agent", "copy", "copying"}
    BY <1>4, <1>5, <1>8 DEF BeginClone, BeginCopy, EndCopy, At
  <2>2. /\ \A a \in SymlinkTier : live[a] # Link(p)
        /\ f # None => f # p /\ \A a \in proc[i].todo : a \in Agents /\ snap[f][a] # None
        /\ \A a \in Agents : snap[p][a] # None =>
              f # None /\ snap[p][a] \in {Partial, snap[f][a]}
    BY <1>1, <2>1 DEF CloneApart, WithSnapshot
  <2>3. CASE BeginClone(i)
    <3>1. snap' = snap /\ proc'[i].todo = proc[i].todo
      BY <2>3, BeginCloneEffect DEF disk
    <3> QED
      BY <2>2, <3>1
  <2>4. ASSUME NEW c, Copies(i, c), c \in {Partial, snap[f][Agent(i)]},
               proc'[i].todo \subseteq proc[i].todo, proc[i].todo # {}
        PROVE  /\ \A a \in SymlinkTier : live[a] # Link(p)
               /\ f # None => f # p /\ \A a \in proc'[i].todo : a \in Agents /\ snap'[f][a] # None
               /\ \A a \in Agents : snap'[p][a] # None =>
                     f # None /\ snap'[p][a] \in {Partial, snap'[f][a]}
    <3>1. f \in Profiles /\ snap' = [snap EXCEPT ![p][Agent(i)] = c]
      BY <1>1, <2>4 DEF Copies
    <3>2. Agent(i) \in Agents /\ f # p /\ f # None
      BY <1>1, <2>2, <2>4, <3>1, AtWork, Names
    <3>3. /\ \A a \in Agents : snap'[f][a] = snap[f][a]
          /\ \A a \in Agents : snap'[p][a] = IF a = Agent(i) THEN c ELSE snap[p][a]
      BY <1>2, <3>1, <3>2 DEF TypeOK
    <3> QED
      BY <2>2, <2>4, <3>2, <3>3
  <2>5. CASE BeginCopy(i)
    <3>1. Copies(i, Partial) /\ proc'[i].todo = proc[i].todo /\ At(i, "copy")
      BY <2>5, BeginCopyEffect
    <3>2. proc[i].todo # {}
      BY <1>1, <3>1, Where DEF At
    <3> QED
      BY <2>4, <3>1, <3>2
  <2>6. CASE EndCopy(i)
    <3>1. /\ Copies(i, CopyFrom(i)) /\ proc'[i].todo = proc[i].todo \ {Agent(i)}
          /\ proc[i].todo # {}
      BY <2>6, EndCopyEffect
    <3>2. CopyFrom(i) = snap[f][Agent(i)]
      <4>1. f # None
        BY <1>1, <3>1, Where
      <4> QED
        BY <1>1, <4>1 DEF CopyFrom
    <3> QED
      BY <2>4, <3>1, <3>2
  <2> QED
    BY <1>4, <1>5, <1>8, <2>3, <2>5, <2>6
<1> QED
  BY <1>7, <1>8

(* delete looks at registry and links once, and nothing changes them.          *)
LEMMA DeletedStep ==
  ASSUME TypeOK, InStep, DeletedApart, NEW i \in Procs, Step(i)
  PROVE  DeletedAt(i)'
<1>1. CASE proc'[i].pc = "check"
  <2>1. StartDelete(i) /\ proc'[i].pc # "idle"
    BY <1>1, StepAfter
  <2>2. proc'[i].reg = registry /\ registry' = registry
    BY <2>1, StartDeleteEffect DEF Fails, disk
  <2> QED
    BY <1>1, <2>2 DEF DeletedAt, At
<1>2. CASE proc'[i].pc = "remove"
  <2>1. /\ ~At(i, "idle") /\ Cmd(i)' = Cmd(i)
        /\ CheckDelete(i) \/ \E a \in Agents : RemoveSubtree(i, a)
    BY <1>2, StepAfter DEF Cmd
  <2>2. CASE CheckDelete(i)
    <3>1. /\ live' = live /\ registry' = registry /\ proc'[i].reg = proc[i].reg /\ At(i, "check")
          /\ \A a \in SymlinkTier : /\ live[a] # Link(Cmd(i).profile)
                                    /\ proc[i].reg.active[a] # Cmd(i).profile
      BY <1>2, <2>2, CheckDeleteEffect DEF Fails, disk
    <3>2. proc[i].reg = registry
      BY <3>1 DEF DeletedApart, At
    <3> QED
      BY <2>1, <3>1, <3>2 DEF DeletedAt
  <2>3. CASE \E a \in Agents : RemoveSubtree(i, a)
    <3>1. UNCHANGED <<live, registry, proc>> /\ At(i, "remove")
      BY <2>3, RemoveSubtreeEffect
    <3>2. /\ proc[i].reg = registry
          /\ \A a \in SymlinkTier : /\ live[a] # Link(Cmd(i).profile)
                                    /\ registry.active[a] # Cmd(i).profile
      BY <3>1 DEF DeletedApart, At
    <3> QED
      BY <2>1, <3>1, <3>2 DEF DeletedAt
  <2> QED
    BY <2>1, <2>2, <2>3
<1>3. CASE proc'[i].pc \notin {"check", "remove"}
  BY <1>3 DEF DeletedAt
<1> QED
  BY <1>1, <1>2, <1>3

(* The registry on disk changes when it is saved, and not otherwise.           *)
LEMMA RegistryAfter ==
  ASSUME TypeOK, InStep, NEW i \in Procs, Step(i), ~WriteTmp(i), ~RenameTmp(i)
  PROVE  registry' = registry
<1>1. StartInit(i) \/ StartUse(i) \/ StartSave(i) \/ StartCreate(i) \/ StartDelete(i)
      => registry' = registry
  BY StartInitEffect, StartUseEffect, StartSaveEffect, StartCreateEffect, StartDeleteEffect
  DEF Fails, disk
<1>2. SkipRunningIde(i) \/ RestoreWipe(i) \/ LookAtLive(i) \/ WipeSnapshot(i) \/ MoveLive(i)
      => registry' = registry
  BY SkipEffect, RestoreWipeEffect, LookEffect, WipeEffect, MoveEffect DEF Fails, disk
<1>3. SwitchLink(i) \/ LinkBack(i) => registry' = registry
  BY DEF SwitchLink, LinkBack, Repoint, Fail, NoFiles, disk
<1>4. BeginClone(i) \/ BeginCopy(i) \/ EndCopy(i) \/ CopyFails(i) \/ AgentsDone(i)
      => registry' = registry
  BY BeginCloneEffect, BeginCopyEffect, EndCopyEffect, CopyFailsEffect, AgentsDoneEffect
  DEF Fails, disk
<1>5. CheckDelete(i) \/ (\E a \in Agents : RemoveSubtree(i, a)) \/ RemoveProfile(i)
        \/ LoadRegistry(i) \/ TruncateTmp(i) => registry' = registry
  BY CheckDeleteEffect, RemoveSubtreeEffect, RemoveProfileEffect, LoadEffect, TruncateEffect
  DEF Fails, disk
<1>6. RenameRefused(i) \/ Relocated(i) \/ ClearSource(i) \/ SourceCleared(i) \/ MoveFails(i)
      => registry' = registry
  BY RenameRefusedEffect, RelocatedEffect, ClearSourceEffect, SourceClearedEffect, MoveFailsEffect
  DEF Fails, disk
<1> QED
  BY <1>1, <1>2, <1>3, <1>4, <1>5, <1>6 DEF Step

(* The file that is renamed is the one that has been written.                  *)
LEMMA SavesStep ==
  ASSUME TypeOK, InStep, SavesWhole, NEW i \in Procs, Step(i)
  PROVE  SavesAt(i)' /\ registry' # Torn
<1>1. SavesAt(i)'
  <2>1. CASE proc'[i].pc = "write"
    <3>1. TruncateTmp(i)
      BY <2>1, StepAfter
    <3> QED
      BY <2>1, <3>1, TruncateEffect DEF SavesAt, At
  <2>2. CASE proc'[i].pc = "rename"
    <3>1. WriteTmp(i)
      BY <2>2, StepAfter
    <3>2. At(i, "write") /\ proc'[i].reg = proc[i].reg /\ proc'[i].file = proc[i].file
      BY <3>1, WriteEffect
    <3>3. proc[i].file = "tmp" /\ tmp = Torn
      BY <3>2 DEF SavesWhole, At
    <3>4. tmp' \in Written(tmp, proc[i].reg)
      BY <3>1, <3>3, WriteEffect
    <3> QED
      BY <2>2, <3>2, <3>3, <3>4 DEF SavesAt, At, Written
  <2>3. CASE proc'[i].pc \notin {"write", "rename"}
    BY <2>3 DEF SavesAt, At
  <2> QED
    BY <2>1, <2>2, <2>3
<1>2. registry' # Torn
  <2>1. CASE registry' = registry
    BY <2>1 DEF SavesWhole
  <2>2. CASE WriteTmp(i)
    <3>1. proc[i].file = "tmp"
      BY <2>2 DEF WriteTmp, SavesWhole, At
    <3> QED
      BY <2>1, <2>2, <3>1, WriteEffect
  <2>3. CASE RenameTmp(i)
    <3>1. tmp = proc[i].reg /\ proc[i].reg \in Registries
      BY <2>3, ProcFields DEF RenameTmp, SavesWhole, At, TypeOK
    <3>2. registry' = registry \/ registry' = tmp
      BY <2>3, RenameEffect DEF Fails, disk
    <3> QED
      BY <2>1, <3>1, <3>2, RegistryFacts
  <2>4. ~WriteTmp(i) /\ ~RenameTmp(i) => registry' = registry
    BY RegistryAfter
  <2> QED
    BY <2>1, <2>2, <2>3, <2>4
<1> QED
  BY <1>1, <1>2

(* A relocation or a removal that does not stop half way goes on to its end.    *)
LEMMA MoveGoesOn ==
  ASSUME TypeOK, InStep, NEW i \in Procs, Step(i)
  PROVE  /\ At(i, "relocating") /\ "half_copied" \notin mishaps' => Relocated(i)
         /\ At(i, "clearing") /\ "half_removed" \notin mishaps' => SourceCleared(i)
<1> SUFFICES ASSUME proc[i].pc \in {"relocating", "clearing"}
             PROVE  /\ At(i, "relocating") /\ "half_copied" \notin mishaps' => Relocated(i)
                    /\ At(i, "clearing") /\ "half_removed" \notin mishaps' => SourceCleared(i)
  BY DEF At
<1>1. Cmd(i).op = "init"
  BY MovesTier DEF Moving
<1>2. Relocated(i) \/ SourceCleared(i) \/ MoveFails(i)
  BY <1>1, StepsOf DEF StartInit, LookAtLive, WipeSnapshot, MoveLive, LinkBack, RenameRefused,
     ClearSource, BeginCopy, EndCopy, CopyFails, AgentsDone, LoadRegistry, TruncateTmp, WriteTmp,
     RenameTmp, At
<1>3. Relocated(i) => At(i, "relocating")
  BY DEF Relocated
<1>4. SourceCleared(i) => At(i, "clearing")
  BY DEF SourceCleared
<1>5. MoveFails(i) => LeftHalf(i) \subseteq mishaps'
  BY MoveFailsEffect DEF Fails
<1> QED
  BY <1>2, <1>3, <1>4, <1>5 DEF LeftHalf, At

(* A tier agent's config directory becomes a link when a process re-points it;  *)
(* it goes when it is moved into the store, or is not all there on the way.     *)
LEMMA TierLives ==
  ASSUME TypeOK, InStep, NEW i \in Procs, Step(i), NEW a \in SymlinkTier
  PROVE  \/ live'[a] = live[a]
         \/ /\ a = Agent(i) /\ live[a].kind # "dir" /\ snap' = snap
            /\ \E p \in Profiles : live'[a] = Link(p)
         \/ /\ MoveLive(i) \/ ClearSource(i) \/ SourceCleared(i)
            /\ a = Agent(i) /\ live'[a] = Absent
         \/ /\ ClearSource(i) /\ a = Agent(i) /\ live[a].kind = "dir"
            /\ live'[a] = Dir(Partial) /\ (Handles(i, a, "clearing"))'
<1>0. a \in Agents
  BY Names
<1>1. ASSUME NEW p \in Profiles, ~At(i, "idle"), proc[i].todo # {}, Repoint(i, p)
      PROVE  \/ live'[a] = live[a]
             \/ /\ a = Agent(i) /\ live[a].kind # "dir" /\ snap' = snap
                /\ live'[a] = Link(p)
  <2>1. \/ live' = live
        \/ /\ live' = [live EXCEPT ![Agent(i)] = Link(p)] /\ live[Agent(i)].kind # "dir"
           /\ snap' = snap
    BY <1>1, RepointEffect DEF Fails, disk
  <2> QED
    BY <1>0, <2>1 DEF TypeOK
<1>2. CASE SwitchLink(i)
  <2>1. /\ At(i, "agent") /\ ~At(i, "idle") /\ proc[i].todo # {}
        /\ Cmd(i).op \in {"use", "restore"} /\ Repoint(i, Cmd(i).profile)
    BY <1>2 DEF SwitchLink, At
  <2>2. Cmd(i).profile \in Profiles
    BY <2>1, Where, CommandFields
  <2> QED
    BY <1>1, <2>1, <2>2
<1>3. CASE LinkBack(i)
  <2>1. At(i, "link") /\ ~At(i, "idle") /\ Repoint(i, Default) /\ proc[i].todo # {}
    BY <1>3, Where DEF LinkBack, At, Moving
  <2> QED
    BY <1>1, <2>1, Names
<1>4. CASE MoveLive(i)
  <2>1. live' = [live EXCEPT ![Agent(i)] = Absent]
    BY <1>4, MoveEffect
  <2> QED
    BY <1>0, <1>4, <2>1 DEF TypeOK
<1>7. CASE ClearSource(i) \/ SourceCleared(i)
  <2>1. proc'[i].todo = proc[i].todo
    BY <1>7, ClearSourceEffect, SourceClearedEffect
  <2>2. Agent(i)' = Agent(i)
    BY <2>1 DEF Agent
  <2>3. \/ live' = [live EXCEPT ![Agent(i)] = Absent]
        \/ /\ ClearSource(i) /\ live[Agent(i)].kind = "dir" /\ proc'[i].pc = "clearing"
           /\ live' = [live EXCEPT ![Agent(i)] = Dir(Partial)]
    BY <1>7, ClearSourceEffect, SourceClearedEffect
  <2> QED
    BY <1>0, <1>7, <2>2, <2>3 DEF TypeOK, Handles, At
<1>5. CASE Cmd(i).op \in {"create", "delete", "save"} \/ RestoreWipe(i) \/ BeginCopy(i) \/ EndCopy(i)
  BY <1>5, TierAfter
<1>6. CASE \/ StartInit(i) \/ StartUse(i) \/ SkipRunningIde(i) \/ LookAtLive(i) \/ WipeSnapshot(i)
           \/ RenameRefused(i) \/ Relocated(i) \/ MoveFails(i)
           \/ CopyFails(i) \/ AgentsDone(i) \/ LoadRegistry(i)
           \/ TruncateTmp(i) \/ WriteTmp(i) \/ RenameTmp(i)
  <2>1. StartInit(i) \/ StartUse(i) \/ SkipRunningIde(i) \/ LookAtLive(i) \/ WipeSnapshot(i)
        => live' = live
    BY StartInitEffect, StartUseEffect, SkipEffect, LookEffect, WipeEffect DEF Fails, disk
  <2>2. CopyFails(i) \/ AgentsDone(i) \/ LoadRegistry(i) \/ TruncateTmp(i) \/ WriteTmp(i)
          \/ RenameTmp(i) => live' = live
    BY CopyFailsEffect, AgentsDoneEffect, LoadEffect, TruncateEffect, WriteEffect, RenameEffect
    DEF Fails, disk
  <2>3. RenameRefused(i) \/ Relocated(i) \/ MoveFails(i) => live' = live
    BY RenameRefusedEffect, RelocatedEffect, MoveFailsEffect DEF Fails, disk
  <2> QED
    BY <1>6, <2>1, <2>2, <2>3
<1> QED
  BY <1>2, <1>3, <1>4, <1>5, <1>6, <1>7, StepsOf

(* init moves what is there: the whole of it.                                  *)
LEMMA MovedWhole ==
  ASSUME TypeOK, InStep, SourceThere, NEW i \in Procs, MoveLive(i)
  PROVE  /\ Agent(i) \in SymlinkTier /\ live[Agent(i)].kind \in {"dir", "foreign"}
         /\ live[Agent(i)] # Absent
         /\ snap' = [snap EXCEPT ![Default][Agent(i)] = live[Agent(i)].at]
         /\ live' = [live EXCEPT ![Agent(i)] = Absent]
<1>1. /\ At(i, "move") /\ live' = [live EXCEPT ![Agent(i)] = Absent]
      /\ \E c \in Contents : /\ snap' = [snap EXCEPT ![Default][Agent(i)] = c]
                             /\ live[Agent(i)].kind \in {"dir", "foreign"} => c = live[Agent(i)].at
  BY MoveEffect
<1>2. Agent(i) \in SymlinkTier
  BY <1>1, MovesTier DEF At, Moving
<1>3. live[Agent(i)].kind \in {"dir", "foreign"}
  BY <1>1, <1>2 DEF SourceThere, At
<1> QED
  BY <1>1, <1>2, <1>3, NewLives

(* So does a relocation, which leaves the directory where it is.               *)
LEMMA RelocatedWhole ==
  ASSUME TypeOK, InStep, SourceThere, NEW i \in Procs, Relocated(i)
  PROVE  /\ Agent(i) \in SymlinkTier /\ live[Agent(i)].kind \in {"dir", "foreign"}
         /\ snap' = [snap EXCEPT ![Default][Agent(i)] = live[Agent(i)].at]
         /\ live' = live
<1>1. /\ At(i, "relocating") /\ live' = live
      /\ \E c \in Contents : /\ snap' = [snap EXCEPT ![Default][Agent(i)] = c]
                             /\ live[Agent(i)].kind \in {"dir", "foreign"} => c = live[Agent(i)].at
  BY RelocatedEffect
<1>2. Agent(i) \in SymlinkTier
  BY <1>1, MovesTier DEF At, Moving
<1>3. live[Agent(i)].kind \in {"dir", "foreign"}
  BY <1>1, <1>2 DEF SourceThere, At
<1> QED
  BY <1>1, <1>2, <1>3

(* What create does to the snapshots.                                         *)
LEMMA CloneSnapshots ==
  ASSUME TypeOK, InStep, CloneApart, NEW i \in Procs, Step(i), Cmd(i).op = "create"
  PROVE  /\ Cmd(i).profile \in Profiles
         /\ \A p \in Profiles \ {Cmd(i).profile} : snap'[p] = snap[p]
         /\ \A a \in Agents :
              LET was == snap[Cmd(i).profile][a]
                  is == snap'[Cmd(i).profile][a]
              IN  \/ is = was
                  \/ is = None /\ (CopyFails(i) \/ AgentsDone(i))
                  \/ is = Partial /\ a = Agent(i) /\ BeginCopy(i) /\ At(i, "copying")'
                  \/ /\ a = Agent(i) /\ EndCopy(i)
                     /\ Cmd(i).from \in Profiles \ {Cmd(i).profile} /\ is = snap[Cmd(i).from][a]
         /\ EndCopy(i) => Cmd(i).from \in Profiles \ {Cmd(i).profile}
                            /\ snap'[Cmd(i).profile][Agent(i)] = snap[Cmd(i).from][Agent(i)]
<1> DEFINE p == Cmd(i).profile
           f == Cmd(i).from
<1>1. ~At(i, "idle") /\ p \in Profiles /\ f \in Profiles \cup {None}
  BY StepAfter, Where, CommandFields
<1>2. CASE StartCreate(i) \/ BeginClone(i)
  <2>1. snap' = snap /\ ~EndCopy(i)
    BY <1>2, StartCreateEffect, BeginCloneEffect, EndCopyEffect DEF Fails, disk, At
  <2> QED
    BY <1>1, <2>1
<1>3. ASSUME NEW c, Copies(i, c), proc[i].todo # {}, proc[i].pc \in {"copy", "copying"}
      PROVE  /\ f \in Profiles \ {p} /\ Agent(i) \in Agents
             /\ \A q \in Profiles \ {p} : snap'[q] = snap[q]
             /\ \A a \in Agents : snap'[p][a] = IF a = Agent(i) THEN c ELSE snap[p][a]
  <2>1. f \in Profiles /\ snap' = [snap EXCEPT ![p][Agent(i)] = c]
    BY <1>3 DEF Copies
  <2>2. f # p
    BY <1>3, <2>1, Names DEF CloneApart
  <2>3. Agent(i) \in Agents
    BY <1>1, <1>3, AtWork
  <2> QED
    BY <1>1, <2>1, <2>2, <2>3 DEF TypeOK
<1>4. CASE BeginCopy(i)
  <2>1. Copies(i, Partial) /\ At(i, "copy") /\ proc'[i].pc = "copying"
    BY <1>4, BeginCopyEffect
  <2>2. proc[i].todo # {}
    BY <1>1, <2>1, Where DEF At
  <2>3. ~EndCopy(i) /\ At(i, "copying")'
    BY <2>1 DEF EndCopy, At
  <2>4. /\ \A q \in Profiles \ {p} : snap'[q] = snap[q]
        /\ \A a \in Agents : snap'[p][a] = IF a = Agent(i) THEN Partial ELSE snap[p][a]
    BY <1>3, <2>1, <2>2 DEF At
  <2> QED
    BY <1>1, <1>4, <2>3, <2>4
<1>5. CASE EndCopy(i)
  <2>1. Copies(i, CopyFrom(i)) /\ At(i, "copying") /\ proc[i].todo # {}
    BY <1>5, EndCopyEffect
  <2>2. /\ f \in Profiles \ {p} /\ Agent(i) \in Agents
        /\ \A q \in Profiles \ {p} : snap'[q] = snap[q]
        /\ \A a \in Agents : snap'[p][a] = IF a = Agent(i) THEN CopyFrom(i) ELSE snap[p][a]
    BY <1>3, <2>1 DEF At
  <2>3. CopyFrom(i) = snap[f][Agent(i)]
    BY <2>2, Names DEF CopyFrom
  <2> QED
    BY <1>1, <1>5, <2>2, <2>3
<1>6. CASE CopyFails(i)
  <2>1. snap' = [snap EXCEPT ![p] = [a \in Agents |-> None]]
    BY <1>6, CopyFailsEffect
  <2>2. ~EndCopy(i)
    BY <1>6, CopyFailsEffect, EndCopyEffect
  <2> QED
    BY <1>1, <1>6, <2>1, <2>2 DEF TypeOK
<1>7. CASE AgentsDone(i)
  <2>1. \/ snap' = snap
        \/ snap' = [snap EXCEPT ![p] =
              [a \in Agents |-> IF Cmd(i).explicit /\ a \notin Cmd(i).agents THEN None ELSE snap[p][a]]]
    BY <1>7, AgentsDoneEffect
  <2>2. ~EndCopy(i)
    BY <1>7 DEF EndCopy, AgentsDone, At
  <2>3. /\ \A q \in Profiles \ {p} : snap'[q] = snap[q]
        /\ \A a \in Agents : snap'[p][a] = snap[p][a] \/ snap'[p][a] = None
    BY <1>1, <2>1 DEF TypeOK
  <2> QED
    BY <1>1, <1>7, <2>2, <2>3
<1> QED
  BY <1>2, <1>4, <1>5, <1>6, <1>7, StepsOf

(* delete takes snapshots away, one at a time.                                 *)
LEMMA DeleteSnapshots ==
  ASSUME TypeOK, InStep, NEW i \in Procs, Step(i), Cmd(i).op = "delete",
         NEW p \in Profiles, NEW a \in Agents
  PROVE  snap'[p][a] = snap[p][a] \/ snap'[p][a] = None
<1>1. CASE snap' = snap
  BY <1>1
<1>2. CASE \E b \in Agents : RemoveSubtree(i, b)
  <2>1. PICK b \in Agents : RemoveSubtree(i, b)
    BY <1>2
  <2>2. Cmd(i).profile \in Profiles /\ snap' = [snap EXCEPT ![Cmd(i).profile][b] = None]
    BY <2>1, RemoveSubtreeEffect
  <2> QED
    BY <2>2 DEF TypeOK
<1>3. StartDelete(i) \/ CheckDelete(i) \/ RemoveProfile(i) \/ TruncateTmp(i) \/ WriteTmp(i)
        \/ RenameTmp(i) => snap' = snap
  BY StartDeleteEffect, CheckDeleteEffect, RemoveProfileEffect, TruncateEffect, WriteEffect,
     RenameEffect DEF Fails, disk
<1> QED
  BY <1>1, <1>2, <1>3, StepsOf

(* What is not whole is what is being copied or removed.                       *)
LEMMA WholeStep ==
  ASSUME TypeOK, InStep, SourceThere, CloneApart, Whole, NEW i \in Procs, Step(i),
         \A j \in Procs \ {i} : At(j, "idle")
  PROVE  Whole'
<1> SUFFICES ASSUME mishaps' \subseteq {"failed"}, NEW a \in SymlinkTier
             PROVE  /\ live'[a] \in {Dir(Partial), Foreign(Partial)} => Handles(i, a, "clearing")'
                    /\ \A p \in Profiles : snap'[p][a] = Partial =>
                         \/ Handles(i, a, "copying")' /\ Cmd(i)'.op = "create" /\ Cmd(i)'.profile = p
                         \/ Handles(i, a, "relocating")' /\ p = Default
  BY DEF Whole
<1>0. a \in Agents /\ mishaps \subseteq {"failed"} /\ ~At(i, "idle")
  BY Names, StepAfter
<1>1. \A b \in SymlinkTier :
        /\ live[b] \in {Dir(Partial), Foreign(Partial)} => At(i, "clearing") /\ Agent(i) = b
        /\ \A p \in Profiles : snap[p][b] = Partial =>
             /\ Agent(i) = b
             /\ \/ At(i, "copying") /\ Cmd(i).op = "create" /\ Cmd(i).profile = p
                \/ At(i, "relocating") /\ p = Default
  BY <1>0 DEF Whole, Handles, At
<1>2. live'[a] \in {Dir(Partial), Foreign(Partial)} => Handles(i, a, "clearing")'
  <2>1. \A p \in Profiles : Link(p) \notin {Dir(Partial), Foreign(Partial)}
    BY DEF Link, Dir, Foreign
  <2>2. Absent \notin {Dir(Partial), Foreign(Partial)}
    BY DEF Absent, Dir, Foreign
  <2>3. ASSUME live[a] \in {Dir(Partial), Foreign(Partial)}, live'[a] = live[a] PROVE FALSE
    <3>1. At(i, "clearing") /\ Agent(i) = a
      BY <1>1, <2>3
    <3>2. SourceCleared(i)
      BY <3>1, MoveGoesOn
    <3>3. live' = [live EXCEPT ![a] = Absent]
      BY <3>1, <3>2, SourceClearedEffect
    <3>4. live'[a] = Absent
      BY <1>0, <3>3 DEF TypeOK
    <3> QED
      BY <2>2, <2>3, <3>4
  <2> QED
    BY <2>1, <2>2, <2>3, TierLives
<1>3. ASSUME Cmd(i).op # "create", NEW p \in Profiles, snap'[p][a] = Partial
      PROVE  Handles(i, a, "relocating")' /\ p = Default
  <2>1. \A q \in Profiles : snap[q][a] = Partial => At(i, "relocating") /\ Agent(i) = a /\ q = Default
    BY <1>1, <1>3
  <2>2. CASE MoveLive(i)
    <3>1. /\ Agent(i) \in SymlinkTier /\ live[Agent(i)].kind \in {"dir", "foreign"}
          /\ snap' = [snap EXCEPT ![Default][Agent(i)] = live[Agent(i)].at] /\ At(i, "move")
      BY <2>2, MovedWhole, MoveEffect
    <3>2. live[Agent(i)] \in Lives
      BY <3>1, Names DEF TypeOK
    <3>3. live[Agent(i)].at # Partial
      BY <1>1, <3>1, <3>2, LiveFields DEF At
    <3>4. snap'[p][a] = snap[p][a] \/ snap'[p][a] = live[Agent(i)].at
      BY <1>0, <3>1, Names DEF TypeOK
    <3> QED
      BY <1>3, <2>1, <3>1, <3>3, <3>4 DEF At
  <2>3. CASE RenameRefused(i)
    <3>1. /\ At(i, "move") /\ Agent(i) \in Agents /\ proc'[i].pc = "relocating"
          /\ proc'[i].todo = proc[i].todo
          /\ snap' = [snap EXCEPT ![Default][Agent(i)] = Partial]
      BY <2>3, RenameRefusedEffect
    <3>2. snap'[p][a] = snap[p][a] \/ (p = Default /\ a = Agent(i))
      BY <1>0, <3>1, Names DEF TypeOK
    <3> QED
      BY <1>3, <2>1, <3>1, <3>2 DEF Handles, At, Agent
  <2>4. CASE Relocated(i)
    <3>1. /\ Agent(i) \in SymlinkTier /\ live[Agent(i)].kind \in {"dir", "foreign"}
          /\ snap' = [snap EXCEPT ![Default][Agent(i)] = live[Agent(i)].at] /\ At(i, "relocating")
      BY <2>4, RelocatedWhole, RelocatedEffect
    <3>2. live[Agent(i)] \in Lives
      BY <3>1, Names DEF TypeOK
    <3>3. live[Agent(i)].at # Partial
      BY <1>1, <3>1, <3>2, LiveFields DEF At
    <3>4. IF p = Default /\ a = Agent(i) THEN snap'[p][a] = live[Agent(i)].at
                                         ELSE snap'[p][a] = snap[p][a]
      BY <1>0, <3>1, Names DEF TypeOK
    <3> QED
      BY <1>3, <2>1, <3>3, <3>4
  <2>5. ASSUME \/ snap'[p][a] = snap[p][a]
               \/ snap'[p][a] = None
        PROVE  snap[p][a] = Partial
    BY <1>3, <2>5, AgentsTyped
  <2>6. CASE WipeSnapshot(i)
    <3>1. /\ snap' = [snap EXCEPT ![Target(i)][Agent(i)] = None] /\ At(i, "wipe")
          /\ Target(i) \in Profiles /\ Agent(i) \in Agents
      BY <2>6, WipeEffect
    <3>2. snap'[p][a] = snap[p][a] \/ snap'[p][a] = None
      BY <1>0, <3>1 DEF TypeOK
    <3> QED
      BY <2>1, <2>5, <3>1, <3>2 DEF At
  <2>7. CASE Cmd(i).op = "delete"
    <3>1. snap'[p][a] = snap[p][a] \/ snap'[p][a] = None
      BY <1>0, <2>7, DeleteSnapshots
    <3>2. ~At(i, "relocating")
      BY <2>7, MovesTier DEF At, Moving
    <3> QED
      BY <2>1, <2>5, <3>1, <3>2
  <2>8. CASE /\ ~MoveLive(i) /\ ~RenameRefused(i) /\ ~Relocated(i) /\ ~WipeSnapshot(i)
             /\ Cmd(i).op # "delete"
    <3>1. snap[p][a] = Partial
      BY <1>3, <2>5, <2>8, TierAfter
    <3>2. Relocated(i)
      BY <2>1, <3>1, MoveGoesOn
    <3> QED
      BY <2>8, <3>2
  <2> QED
    BY <2>2, <2>3, <2>4, <2>6, <2>7, <2>8
<1>4. ASSUME Cmd(i).op = "create", NEW p \in Profiles, snap'[p][a] = Partial
      PROVE  Handles(i, a, "copying")' /\ Cmd(i)'.op = "create" /\ Cmd(i)'.profile = p
  <2> DEFINE mine == Cmd(i).profile
             f == Cmd(i).from
  <2>0. \A q \in Profiles : snap[q][a] = Partial =>
           At(i, "copying") /\ Agent(i) = a /\ Cmd(i).profile = q
    <3>1. ~At(i, "relocating")
      BY <1>4, MovesTier DEF At, Moving
    <3> QED
      BY <1>1, <3>1
  <2>1. /\ mine \in Profiles
        /\ \A q \in Profiles \ {mine} : snap'[q] = snap[q]
        /\ \/ snap'[mine][a] = snap[mine][a]
           \/ snap'[mine][a] = None /\ (CopyFails(i) \/ AgentsDone(i))
           \/ snap'[mine][a] = Partial /\ a = Agent(i) /\ BeginCopy(i) /\ At(i, "copying")'
           \/ /\ a = Agent(i) /\ EndCopy(i)
              /\ f \in Profiles \ {mine} /\ snap'[mine][a] = snap[f][a]
        /\ EndCopy(i) => f \in Profiles \ {mine} /\ snap'[mine][Agent(i)] = snap[f][Agent(i)]
    BY <1>0, <1>4, CloneSnapshots
  <2>2. p = mine
    BY <2>0, <1>4, <2>1
  <2>3. BeginCopy(i) /\ a = Agent(i) /\ At(i, "copying")'
    <3>1. ASSUME snap[mine][a] = Partial, snap'[mine][a] = snap[mine][a] PROVE FALSE
      <4>1. At(i, "copying") /\ Agent(i) = a
        BY <2>0, <2>1, <3>1
      <4>2. EndCopy(i) \/ CopyFails(i)
        BY <1>4, <4>1, StepsOf DEF StartCreate, BeginClone, BeginCopy, AgentsDone, At
      <4>3. CASE EndCopy(i)
        BY <2>0, <2>1, <3>1, <4>1, <4>3
      <4>4. CASE CopyFails(i)
        <5>1. snap' = [snap EXCEPT ![mine] = [b \in Agents |-> None]]
          BY <1>4, <4>4, CopyFailsEffect
        <5>2. snap'[mine][a] = None
          BY <1>0, <2>1, <5>1 DEF TypeOK
        <5> QED
          BY <3>1, <5>2, AgentsTyped
      <4> QED
        BY <4>2, <4>3, <4>4
    <3>2. None # Partial
      BY AgentsTyped
    <3>3. \A q \in Profiles \ {mine} : snap[q][a] # Partial
      BY <2>0
    <3> QED
      BY <1>4, <2>1, <2>2, <3>1, <3>2, <3>3
  <2>4. proc'[i].cmd = proc[i].cmd /\ proc'[i].todo = proc[i].todo
    BY <2>3, BeginCopyEffect
  <2> QED
    BY <1>4, <2>2, <2>3, <2>4 DEF Cmd, Agent, Handles, At
<1> QED
  BY <1>2, <1>3, <1>4

(* What init has not moved yet is in no profile, except in parts, or as it is.  *)
LEMMA NotYetMovedStep ==
  ASSUME TypeOK, InStep, SourceThere, CloneApart, NotYetMoved, NEW i \in Procs, Step(i),
         \A j \in Procs \ {i} : At(j, "idle")
  PROVE  NotYetMoved'
<1> SUFFICES ASSUME fresh' = 0, "half_removed" \notin mishaps', NEW a \in SymlinkTier,
                    live'[a].kind \in {"dir", "foreign"}, ~Handles(i, a, "clearing")',
                    NEW p \in Profiles
             PROVE  snap'[p][a] \in {None, Partial, live'[a].at}
  BY DEF NotYetMoved
<1>0. a \in Agents /\ fresh = 0 /\ "half_removed" \notin mishaps
  BY Names, StepAfter
<1>1. live'[a] = live[a]
  <2>1. \A q \in Profiles : Link(q).kind = "link"
    BY DEF Link
  <2> QED
    BY <2>1, NewLives, TierLives
<1>2. \A q \in Profiles : snap[q][a] \in {None, Partial, live[a].at}
  <2>1. ~Handles(i, a, "clearing")
    <3> SUFFICES ASSUME Handles(i, a, "clearing") PROVE FALSE
      OBVIOUS
    <3>1. SourceCleared(i) /\ Agent(i) = a
      BY MoveGoesOn DEF Handles
    <3>2. live' = [live EXCEPT ![a] = Absent]
      BY <3>1, SourceClearedEffect
    <3>3. live'[a] = Absent
      BY <1>0, <3>2 DEF TypeOK
    <3> QED
      BY <3>3, NewLives
  <2>2. \A j \in Procs : ~Handles(j, a, "clearing")
    BY <2>1 DEF Handles, At
  <2> QED
    BY <1>0, <1>1, <2>2 DEF NotYetMoved
<1>3. CASE MoveLive(i)
  <2>1. /\ snap' = [snap EXCEPT ![Default][Agent(i)] = live[Agent(i)].at]
        /\ live' = [live EXCEPT ![Agent(i)] = Absent]
    BY <1>3, MovedWhole
  <2>2. a # Agent(i)
    BY <1>0, <2>1, NewLives DEF TypeOK
  <2>3. snap'[p][a] = snap[p][a]
    BY <1>0, <2>1, <2>2, Names DEF TypeOK
  <2> QED
    BY <1>1, <1>2, <2>3
<1>4. CASE WipeSnapshot(i)
  <2>1. /\ snap' = [snap EXCEPT ![Target(i)][Agent(i)] = None]
        /\ Target(i) \in Profiles /\ Agent(i) \in Agents
    BY <1>4, WipeEffect
  <2>2. snap'[p][a] = snap[p][a] \/ snap'[p][a] = None
    BY <1>0, <2>1 DEF TypeOK
  <2> QED
    BY <1>1, <1>2, <2>2
<1>5. CASE Cmd(i).op = "delete"
  BY <1>0, <1>1, <1>2, <1>5, DeleteSnapshots
<1>6. CASE Cmd(i).op = "create"
  <2> DEFINE mine == Cmd(i).profile
             f == Cmd(i).from
  <2>1. /\ mine \in Profiles
        /\ \A q \in Profiles \ {mine} : snap'[q] = snap[q]
        /\ \/ snap'[mine][a] \in {snap[mine][a], None, Partial}
           \/ f \in Profiles \ {mine} /\ snap'[mine][a] = snap[f][a]
    BY <1>0, <1>6, CloneSnapshots
  <2> QED
    BY <1>1, <1>2, <2>1
<1>7. CASE RenameRefused(i)
  <2>1. /\ snap' = [snap EXCEPT ![Default][Agent(i)] = Partial] /\ Agent(i) \in Agents
    BY <1>7, RenameRefusedEffect
  <2>2. snap'[p][a] = snap[p][a] \/ snap'[p][a] = Partial
    BY <1>0, <2>1, Names DEF TypeOK
  <2> QED
    BY <1>1, <1>2, <2>2
<1>8. CASE Relocated(i)
  <2>1. /\ snap' = [snap EXCEPT ![Default][Agent(i)] = live[Agent(i)].at] /\ Agent(i) \in Agents
    BY <1>8, RelocatedWhole, Names
  <2>2. snap'[p][a] = snap[p][a] \/ snap'[p][a] = live[a].at
    BY <1>0, <2>1, Names DEF TypeOK
  <2> QED
    BY <1>1, <1>2, <2>2
<1>9. CASE /\ ~MoveLive(i) /\ ~RenameRefused(i) /\ ~Relocated(i) /\ ~WipeSnapshot(i)
           /\ Cmd(i).op \notin {"create", "delete"}
  BY <1>1, <1>2, <1>9, TierAfter
<1> QED
  BY <1>3, <1>4, <1>5, <1>6, <1>7, <1>8, <1>9

(* The ways to end well.                                                      *)
LEMMA EndsWell ==
  ASSUME TypeOK, InStep, NEW i \in Procs, Step(i), proc'[i].pc = "idle", mishaps' = {}
  PROVE  (AgentsDone(i) /\ Cmd(i).op \in {"save", "create"}) \/ RemoveProfile(i) \/ RenameTmp(i)
<1>1. ~Fails(i)
  BY DEF Fails
<1>2. ~StartInit(i) /\ ~StartUse(i) /\ ~StartSave(i) /\ ~StartCreate(i) /\ ~StartDelete(i)
  BY <1>1, StartInitEffect, StartUseEffect, StartSaveEffect, StartCreateEffect, StartDeleteEffect
<1>3. ~SkipRunningIde(i) /\ ~RestoreWipe(i) /\ ~LookAtLive(i) /\ ~MoveLive(i)
  BY <1>1, SkipEffect, RestoreWipeEffect, LookEffect, MoveEffect
<1>4. ~WipeSnapshot(i)
  BY WipeEffect
<1>5. ~SwitchLink(i)
  <2> SUFFICES ASSUME SwitchLink(i) PROVE FALSE
    OBVIOUS
  <2>1. /\ At(i, "agent") /\ ~At(i, "idle") /\ proc[i].todo # {}
        /\ Cmd(i).op \in {"use", "restore"} /\ Repoint(i, Cmd(i).profile)
    BY DEF SwitchLink, At
  <2>2. Cmd(i).profile \in Profiles
    BY <2>1, Where, CommandFields
  <2> QED
    BY <1>1, <2>1, <2>2, RepointEffect
<1>6. ~LinkBack(i)
  <2> SUFFICES ASSUME LinkBack(i) PROVE FALSE
    OBVIOUS
  <2>1. At(i, "link") /\ ~At(i, "idle") /\ Repoint(i, Default) /\ proc[i].todo # {}
    BY Where DEF LinkBack, At, Moving
  <2> QED
    BY <1>1, <2>1, Names, RepointEffect
<1>7. ~BeginClone(i) /\ ~BeginCopy(i) /\ ~EndCopy(i) /\ ~CopyFails(i)
  BY BeginCloneEffect, BeginCopyEffect, EndCopyEffect, CopyFailsEffect
<1>8. ~CheckDelete(i) /\ ~LoadRegistry(i) /\ ~TruncateTmp(i) /\ ~WriteTmp(i)
  BY <1>1, CheckDeleteEffect, LoadEffect, TruncateEffect, WriteEffect
<1>9. \A a \in Agents : ~RemoveSubtree(i, a)
  BY RemoveSubtreeEffect DEF At
<1>11. ~RenameRefused(i) /\ ~Relocated(i) /\ ~ClearSource(i) /\ ~SourceCleared(i) /\ ~MoveFails(i)
  BY <1>1, RenameRefusedEffect, RelocatedEffect, ClearSourceEffect, SourceClearedEffect,
     MoveFailsEffect
<1>10. AgentsDone(i) => Cmd(i).op \in {"save", "create"}
  BY AgentsDoneEffect
<1> QED
  BY <1>2, <1>3, <1>4, <1>5, <1>6, <1>7, <1>8, <1>9, <1>10, <1>11 DEF Step

ReconciledAt(i) == ~At(i, "idle") =>
    IF Saving(i)
    THEN /\ mishaps = {} \/ Cmd(i).op = "init" => Matches(proc[i].reg)
         /\ Cmd(i).op = "init" => proc[i].reg.default # None
    ELSE IF At(i, "start") \/ Cmd(i).op \in {"create", "save", "delete"}
    THEN /\ At(i, "start") => proc[i].blocked = {}
         /\ mishaps = {} => Matches(registry)
    ELSE Cmd(i).op \in {"use", "restore"} =>
         /\ proc[i].blocked \cap proc[i].todo = {}
         /\ mishaps = {} => \A a \in SymlinkTier :
               IF a \in ToRecord(i) \ proc[i].todo THEN live[a] = Link(Cmd(i).profile)
                                                   ELSE registry.active[a] = Linked(a)

(* What Reconciled says of a process that runs a command.                      *)
LEMMA ReconciledHere ==
  ASSUME Reconciled, NEW i \in Procs, ~At(i, "idle")
  PROVE  /\ Saving(i) =>
              /\ mishaps = {} \/ Cmd(i).op = "init" => Matches(proc[i].reg)
              /\ Cmd(i).op = "init" => proc[i].reg.default # None
         /\ ~Saving(i) /\ (At(i, "start") \/ Cmd(i).op \in {"create", "save", "delete"}) =>
              /\ At(i, "start") => proc[i].blocked = {}
              /\ mishaps = {} => Matches(registry)
         /\ ~Saving(i) /\ ~At(i, "start") /\ Cmd(i).op \in {"use", "restore"} =>
              /\ proc[i].blocked \cap proc[i].todo = {}
              /\ mishaps = {} => \A a \in SymlinkTier :
                    IF a \in ToRecord(i) \ proc[i].todo THEN live[a] = Link(Cmd(i).profile)
                                                        ELSE registry.active[a] = Linked(a)
BY DEF Reconciled

(* What is about to be saved agrees with the links.                           *)
LEMMA SavingStep ==
  ASSUME TypeOK, InStep, DeletedApart, Reconciled, NEW i \in Procs, Step(i),
         proc'[i].pc \in {"truncate", "write", "rename"}
  PROVE  /\ mishaps' = {} \/ Cmd(i).op = "init" => Matches(proc[i].reg)'
         /\ Cmd(i).op = "init" => proc'[i].reg.default # None
<1>1. ~At(i, "idle") /\ mishaps \subseteq mishaps'
  BY StepAfter
<1>2. RemoveProfile(i) \/ LoadRegistry(i) \/ TruncateTmp(i) \/ WriteTmp(i)
  BY StepAfter
<1>3. CASE RemoveProfile(i)
  <2>1. /\ At(i, "remove") /\ live' = live /\ Cmd(i).op = "delete"
        /\ proc'[i].reg = Pruned(proc[i].reg, Cmd(i).profile)
    BY <1>1, <1>3, RemoveProfileEffect, StepsOf, Where DEF Fails, At
  <2>2. /\ proc[i].reg = registry
        /\ \A a \in SymlinkTier : registry.active[a] # Cmd(i).profile
    BY <2>1 DEF DeletedApart, At
  <2>3. mishaps = {} => Matches(registry)
    BY <1>1, <2>1, ReconciledHere DEF Saving, At
  <2>4. \A a \in SymlinkTier : proc'[i].reg.active[a] = registry.active[a]
    BY <2>1, <2>2, Names DEF Pruned
  <2> QED
    BY <1>1, <2>1, <2>3, <2>4 DEF Matches, Linked
<1>4. CASE LoadRegistry(i)
  <2>1. /\ At(i, "load") /\ live' = live /\ registry \in Registries
        /\ proc'[i].reg = Recorded(i, registry)
    BY <1>4, LoadEffect DEF Fails, disk
  <2>2. /\ \A a \in SymlinkTier : Recorded(i, registry).active[a] =
              IF Cmd(i).op = "init" THEN Linked(a)
              ELSE IF a \in ToRecord(i) THEN Cmd(i).profile ELSE registry.active[a]
        /\ Cmd(i).op = "init" => Recorded(i, registry).default # None
    BY <2>1, RecordedTyped
  <2>3. /\ Cmd(i).op \in {"init", "use", "restore"} /\ proc[i].todo = {} /\ Cmd(i) \in Commands
    BY <1>1, <2>1, Where
  <2>4. mishaps = {} /\ Cmd(i).op # "init" =>
          \A a \in SymlinkTier : Recorded(i, registry).active[a] = Linked(a)
    <3> SUFFICES ASSUME mishaps = {}, Cmd(i).op # "init", NEW a \in SymlinkTier
                 PROVE  Recorded(i, registry).active[a] = Linked(a)
      OBVIOUS
    <3>1. IF a \in ToRecord(i) THEN live[a] = Link(Cmd(i).profile)
          ELSE registry.active[a] = Linked(a)
      BY <1>1, <2>1, <2>3, ReconciledHere DEF Saving, At
    <3>2. Cmd(i).profile \in Profiles
      BY <2>3, CommandFields
    <3>3. LinkOf(Link(Cmd(i).profile)) = Cmd(i).profile
      BY <3>2, NewLives
    <3> QED
      BY <2>2, <3>1, <3>3 DEF Linked
  <2>5. \A a \in SymlinkTier : Linked(a)' = Linked(a)
    BY <2>1 DEF Linked
  <2> QED
    BY <1>1, <2>1, <2>2, <2>4, <2>5 DEF Matches
<1>5. CASE TruncateTmp(i) \/ WriteTmp(i)
  <2>1. live' = live /\ proc'[i].reg = proc[i].reg /\ Saving(i)
    BY <1>5, TruncateEffect, WriteEffect DEF Saving, At
  <2>2. /\ mishaps = {} \/ Cmd(i).op = "init" => Matches(proc[i].reg)
        /\ Cmd(i).op = "init" => proc[i].reg.default # None
    BY <1>1, <2>1, ReconciledHere
  <2> QED
    BY <1>1, <2>1, <2>2 DEF Matches, Linked
<1> QED
  BY <1>2, <1>3, <1>4, <1>5

(* While use and restore go on, the agents that are done are on their profile,  *)
(* the others where the registry says.                                        *)
LEMMA SwitchingStep ==
  ASSUME TypeOK, InStep, Reconciled, NEW i \in Procs, Step(i),
         Cmd(i).op \in {"use", "restore"}, ~Saving(i)', proc'[i].pc # "idle"
  PROVE  /\ proc'[i].blocked \cap proc'[i].todo = {}
         /\ mishaps' = {} => \A a \in SymlinkTier :
               IF a \in ToRecord(i)' \ proc'[i].todo THEN live'[a] = Link(Cmd(i).profile)
                                                     ELSE registry'.active[a] = Linked(a)'
<1>1. /\ ~At(i, "idle") /\ mishaps \subseteq mishaps' /\ Cmd(i) \in Commands
      /\ proc[i] \in ProcStates
  BY StepAfter, Where DEF TypeOK
<1>2. /\ StartUse(i) \/ SkipRunningIde(i) \/ SwitchLink(i) \/ RestoreWipe(i) \/ BeginCopy(i)
           \/ EndCopy(i) \/ AgentsDone(i)
  <2>1. ~CopyFails(i) /\ ~RenameTmp(i)
    BY CopyFailsEffect, RenameEffect DEF Fails
  <2>2. ~LoadRegistry(i) /\ ~TruncateTmp(i) /\ ~WriteTmp(i)
    BY LoadEffect, TruncateEffect, WriteEffect DEF Fails, Saving
  <2> QED
    BY <2>1, <2>2, StepsOf
<1>3. CASE StartUse(i)
  <2>1. /\ At(i, "start") /\ UNCHANGED disk /\ proc'[i].blocked = proc[i].blocked
        /\ Cmd(i).op = "restore" => proc'[i].done = {}
        /\ Cmd(i).op = "use" => proc'[i].todo = proc'[i].done \cap SymlinkTier
    BY <1>3, StartUseEffect DEF Fails
  <2>2. proc[i].blocked = {} /\ (mishaps = {} => Matches(registry))
    BY <1>1, <2>1, ReconciledHere DEF At, Saving
  <2>3. \A a \in SymlinkTier : a \notin ToRecord(i)' \ proc'[i].todo
    BY <2>1 DEF ToRecord
  <2> QED
    BY <1>1, <2>1, <2>2, <2>3 DEF Matches, Linked, disk
<1>4. ASSUME ~StartUse(i)
      PROVE  /\ proc[i].blocked \cap proc[i].todo = {}
             /\ mishaps = {} => \A a \in SymlinkTier :
                   IF a \in ToRecord(i) \ proc[i].todo THEN live[a] = Link(Cmd(i).profile)
                                                       ELSE registry.active[a] = Linked(a)
  <2>1. ~Saving(i) /\ ~At(i, "start")
    BY <1>2, <1>4 DEF SkipRunningIde, SwitchLink, RestoreWipe, BeginCopy, EndCopy, AgentsDone,
       At, Saving
  <2> QED
    BY <1>1, <2>1, ReconciledHere
<1>5. CASE SkipRunningIde(i)
  <2>1. /\ UNCHANGED disk /\ proc'[i].todo = proc[i].todo \ {Agent(i)}
        /\ proc'[i].done = proc[i].done /\ Agent(i) \in proc[i].todo
        /\ proc'[i].blocked = proc[i].blocked \cup {Agent(i)} /\ ~StartUse(i)
    BY <1>5, SkipEffect DEF StartUse, At
  <2>2. proc'[i].blocked \cap proc'[i].todo = {}
    BY <1>4, <2>1
  <2>3. \A a \in SymlinkTier :
          a \in ToRecord(i)' \ proc'[i].todo <=> a \in ToRecord(i) \ proc[i].todo
    BY <2>1 DEF ToRecord
  <2> QED
    BY <1>1, <1>4, <2>1, <2>2, <2>3 DEF Linked, disk
<1>6. CASE SwitchLink(i)
  <2> DEFINE p == Cmd(i).profile
  <2>1. /\ At(i, "agent") /\ proc[i].todo # {} /\ Repoint(i, p) /\ ~StartUse(i)
    BY <1>6 DEF SwitchLink, StartUse, At
  <2>2. p \in Profiles
    BY <1>1, CommandFields
  <2>3. /\ registry' = registry /\ live' = [live EXCEPT ![Agent(i)] = Link(p)]
        /\ proc'[i].todo = proc[i].todo \ {Agent(i)}
        /\ proc'[i].done = proc[i].done \cup {Agent(i)} /\ proc'[i].blocked = proc[i].blocked
    BY <1>1, <2>1, <2>2, RepointEffect DEF Fails
  <2>4. Agent(i) \in proc[i].todo /\ Agent(i) \in Agents
    BY <1>1, <2>1, AtWork
  <2>5. \A b \in Agents : live'[b] = IF b = Agent(i) THEN Link(p) ELSE live[b]
    BY <2>3, <2>4 DEF TypeOK
  <2>6. proc'[i].blocked \cap proc'[i].todo = {} /\ Agent(i) \notin proc[i].blocked
    BY <1>4, <2>1, <2>3, <2>4
  <2>7. /\ Agent(i) \in ToRecord(i)' \ proc'[i].todo
        /\ \A a \in SymlinkTier \ {Agent(i)} :
              a \in ToRecord(i)' \ proc'[i].todo <=> a \in ToRecord(i) \ proc[i].todo
    BY <2>3, <2>6 DEF ToRecord
  <2>8. ASSUME mishaps' = {}, NEW a \in SymlinkTier
        PROVE  IF a \in ToRecord(i)' \ proc'[i].todo THEN live'[a] = Link(p)
                                                     ELSE registry'.active[a] = Linked(a)'
    <3>1. CASE a = Agent(i)
      BY <2>4, <2>5, <2>7, <3>1
    <3>2. CASE a # Agent(i)
      <4>1. live'[a] = live[a] /\ Linked(a)' = Linked(a)
        BY <2>5, <3>2, Names DEF Linked
      <4> QED
        BY <1>1, <1>4, <2>1, <2>3, <2>7, <2>8, <3>2, <4>1
    <3> QED
      BY <3>1, <3>2
  <2> QED
    BY <2>6, <2>8
<1>7. ASSUME registry' = registry, \A a \in SymlinkTier : live'[a] = live[a], ~StartUse(i),
             proc'[i].blocked = proc[i].blocked, proc'[i].todo \subseteq proc[i].todo,
             \A a \in SymlinkTier : /\ a \in proc'[i].todo <=> a \in proc[i].todo
                                    /\ a \in proc'[i].done <=> a \in proc[i].done
      PROVE  /\ proc'[i].blocked \cap proc'[i].todo = {}
             /\ mishaps' = {} => \A a \in SymlinkTier :
                   IF a \in ToRecord(i)' \ proc'[i].todo THEN live'[a] = Link(Cmd(i).profile)
                                                         ELSE registry'.active[a] = Linked(a)'
  <2>1. proc'[i].blocked \cap proc'[i].todo = {}
    BY <1>4, <1>7
  <2>2. \A a \in SymlinkTier :
          a \in ToRecord(i)' \ proc'[i].todo <=> a \in ToRecord(i) \ proc[i].todo
    BY <1>7 DEF ToRecord
  <2>3. \A a \in SymlinkTier : Linked(a)' = Linked(a)
    BY <1>7 DEF Linked
  <2> QED
    BY <1>1, <1>4, <1>7, <2>1, <2>2, <2>3
<1>8. CASE RestoreWipe(i)
  <2>1. /\ registry' = registry /\ proc'[i].blocked = proc[i].blocked
        /\ proc'[i].todo = proc[i].todo /\ proc'[i].done = proc[i].done
    BY <1>8, RestoreWipeEffect DEF Fails
  <2>2. ~StartUse(i)
    BY <1>8 DEF RestoreWipe, StartUse, At
  <2> QED
    BY <1>7, <1>8, <2>1, <2>2, TierAfter
<1>9. CASE BeginCopy(i)
  <2>1. /\ registry' = registry /\ proc'[i].blocked = proc[i].blocked
        /\ proc'[i].todo = proc[i].todo /\ proc'[i].done = proc[i].done
    BY <1>9, BeginCopyEffect
  <2>2. ~StartUse(i)
    BY <1>9 DEF BeginCopy, StartUse, At
  <2> QED
    BY <1>7, <1>9, <2>1, <2>2, TierAfter
<1>10. CASE EndCopy(i)
  <2>1. /\ registry' = registry /\ proc'[i].blocked = proc[i].blocked /\ At(i, "copying")
        /\ proc'[i].todo = proc[i].todo \ {Agent(i)} /\ proc'[i].done = proc[i].done \cup {Agent(i)}
    BY <1>10, EndCopyEffect
  <2>2. Cmd(i).op = "restore" /\ Agent(i) \notin SymlinkTier
    BY <1>1, <2>1, Where DEF At
  <2>3. ~StartUse(i)
    BY <2>1 DEF StartUse, At
  <2> QED
    BY <1>7, <1>10, <2>1, <2>2, <2>3, TierAfter
<1>11. CASE AgentsDone(i)
  <2>1. /\ registry' = registry /\ live' = live /\ proc'[i].blocked = proc[i].blocked
        /\ proc'[i].todo = proc[i].todo /\ proc'[i].done = proc[i].done
    BY <1>11, AgentsDoneEffect
  <2>2. ~StartUse(i)
    BY <1>11 DEF AgentsDone, StartUse, At
  <2> QED
    BY <1>7, <2>1, <2>2
<1> QED
  BY <1>2, <1>3, <1>5, <1>6, <1>8, <1>9, <1>10, <1>11

LEMMA ReconciledStep ==
  ASSUME TypeOK, InStep, DeletedApart, SavesWhole, Reconciled, NEW i \in Procs, Step(i)
  PROVE  /\ ReconciledAt(i)'
         /\ proc'[i].pc = "idle" /\ mishaps' = {} => Matches(registry)'
<1>1. ~At(i, "idle") /\ mishaps \subseteq mishaps'
  BY StepAfter
<1>2. ASSUME proc'[i].pc # "idle" PROVE ReconciledAt(i)'
  <2>1. Cmd(i)' = Cmd(i) /\ proc'[i].pc # "start"
    BY <1>2, StepAfter DEF Cmd
  <2>2. CASE Saving(i)'
    <3>1. /\ mishaps' = {} \/ Cmd(i).op = "init" => Matches(proc[i].reg)'
          /\ Cmd(i).op = "init" => proc'[i].reg.default # None
      BY <2>2, SavingStep DEF Saving
    <3> QED
      BY <2>1, <2>2, <3>1 DEF ReconciledAt
  <2>3. CASE ~Saving(i)' /\ Cmd(i).op \in {"create", "save", "delete"}
    <3>1. ~WriteTmp(i) /\ ~RenameTmp(i) /\ ~TruncateTmp(i)
      BY <1>2, <2>3, WriteEffect, RenameEffect, TruncateEffect DEF Saving, Fails
    <3>2. registry' = registry /\ \A a \in SymlinkTier : live'[a] = live[a]
      BY <2>3, <3>1, RegistryAfter, TierAfter
    <3>3. ~Saving(i)
      BY <1>1, <2>3, <3>1, StepsOf, Where DEF StartDelete, CheckDelete, RemoveSubtree,
         RemoveProfile, At, Saving
    <3>4. mishaps = {} => Matches(registry)
      BY <1>1, <2>3, <3>3, ReconciledHere
    <3>5. mishaps' = {} => Matches(registry)'
      BY <1>1, <3>2, <3>4 DEF Matches, Linked
    <3> QED
      BY <2>1, <2>3, <3>5 DEF ReconciledAt, At
  <2>4. CASE ~Saving(i)' /\ Cmd(i).op \in {"use", "restore"}
    BY <1>2, <2>1, <2>4, SwitchingStep DEF ReconciledAt, At
  <2>5. CASE ~Saving(i)' /\ Cmd(i).op = "init"
    BY <2>1, <2>5 DEF ReconciledAt, At
  <2> QED
    BY <2>2, <2>3, <2>4, <2>5, StepsOf
<1>3. ASSUME proc'[i].pc = "idle", mishaps' = {} PROVE Matches(registry)'
  <2>1. CASE AgentsDone(i) /\ Cmd(i).op \in {"save", "create"}
    <3>1. UNCHANGED <<live, registry>> /\ At(i, "agent")
      BY <2>1, AgentsDoneEffect
    <3>2. Matches(registry)
      BY <1>1, <1>3, <2>1, <3>1, ReconciledHere DEF Saving, At
    <3> QED
      BY <3>1, <3>2 DEF Matches, Linked
  <2>2. CASE RemoveProfile(i)
    <3>1. UNCHANGED <<live, registry>> /\ At(i, "remove") /\ Cmd(i).op = "delete"
      BY <1>1, <2>2, RemoveProfileEffect, Where DEF Fails, disk, At
    <3>2. Matches(registry)
      BY <1>1, <1>3, <3>1, ReconciledHere DEF Saving, At
    <3> QED
      BY <3>1, <3>2 DEF Matches, Linked
  <2>3. CASE RenameTmp(i)
    <3>1. At(i, "rename") /\ live' = live /\ registry' = tmp
      BY <1>3, <2>3, RenameEffect DEF Fails
    <3>2. tmp = proc[i].reg
      BY <3>1 DEF SavesWhole
    <3>3. Matches(proc[i].reg)
      BY <1>1, <1>3, <3>1, ReconciledHere DEF Saving, At
    <3> QED
      BY <3>1, <3>2, <3>3 DEF Matches, Linked
  <2> QED
    BY <1>3, <2>1, <2>2, <2>3, EndsWell
<1> QED
  BY <1>2, <1>3 DEF ReconciledAt, At

IInv == TypeOK /\ InStep /\ SnapshotsInProfiles /\ LinksLead /\ Alone

(* For a process that is alone, links lead to snapshots too.                   *)
LEMMA AloneLeads ==
  ASSUME IInv, OneAtATime
  PROVE  /\ TypeOK /\ InStep /\ SnapshotsInProfiles /\ Leads /\ Guarded
         /\ SourceThere /\ CloneApart /\ DeletedApart /\ Whole /\ SavesWhole /\ Reconciled
         /\ NotYetMoved
BY DEF IInv, LinksLead, Apart, Alone, Leads, Guarded

(* What holds of the one process that runs holds of all.                       *)
LEMMA OneForAll ==
  ASSUME NEW i \in Procs, \A j \in Procs \ {i} : At(j, "idle")',
         SourceAt(i)', CloneAt(i)', DeletedAt(i)', SavesAt(i)', registry' # Torn, ReconciledAt(i)',
         At(i, "idle")' /\ mishaps' = {} => Matches(registry)'
  PROVE  SourceThere' /\ CloneApart' /\ DeletedApart' /\ SavesWhole' /\ Reconciled'
<1>1. \A j \in Procs \ {i} : proc'[j].pc = "idle"
  BY DEF At
<1>2. SourceThere'
  BY <1>1 DEF SourceThere, SourceAt, At
<1>3. CloneApart'
  BY <1>1 DEF CloneApart, CloneAt
<1>4. DeletedApart'
  BY <1>1 DEF DeletedApart, DeletedAt
<1>5. SavesWhole'
  BY <1>1 DEF SavesWhole, SavesAt, At
<1>6. Reconciled'
  <2>1. mishaps' = {} /\ AllIdle' => Matches(registry)'
    BY DEF AllIdle
  <2>2. \A j \in Procs : ReconciledAt(j)'
    BY DEF ReconciledAt
  <2> QED
    BY <2>1, <2>2 DEF Reconciled, ReconciledAt
<1> QED
  BY <1>2, <1>3, <1>4, <1>5, <1>6

LEMMA StepAlone ==
  ASSUME IInv, OneAtATime, NEW i \in Procs, Step(i)
  PROVE  Alone'
<1>1. /\ TypeOK /\ InStep /\ SnapshotsInProfiles /\ Leads
      /\ SourceThere /\ CloneApart /\ DeletedApart /\ Whole /\ SavesWhole /\ Reconciled
      /\ NotYetMoved
  BY AloneLeads
<1>2. \A j \in Procs \ {i} : At(j, "idle") /\ At(j, "idle")'
  BY <1>1, Lonely
<1>3. SourceAt(i)' /\ CloneAt(i)' /\ DeletedAt(i)' /\ SavesAt(i)' /\ registry' # Torn
  BY <1>1, SourceStep, CloneStep, DeletedStep, SavesStep
<1>4. ReconciledAt(i)' /\ (At(i, "idle")' /\ mishaps' = {} => Matches(registry)')
  BY <1>1, ReconciledStep DEF At
<1>5. SourceThere' /\ CloneApart' /\ DeletedApart' /\ SavesWhole' /\ Reconciled'
  BY <1>2, <1>3, <1>4, OneForAll
<1>6. Whole' /\ NotYetMoved'
  BY <1>1, <1>2, WholeStep, NotYetMovedStep
<1> QED
  BY <1>5, <1>6 DEF Alone

(* A command that begins or is killed changes nothing on the disk.             *)
LEMMA IssueAlone ==
  ASSUME IInv, OneAtATime, NEW i \in Procs, NEW c \in Commands, Issue(i, c)
  PROVE  Alone'
<1>1. /\ TypeOK /\ InStep /\ Whole /\ SavesWhole /\ Reconciled /\ NotYetMoved
  BY AloneLeads
<1>2. \A j \in Procs \ {i} : At(j, "idle") /\ At(j, "idle")'
  BY <1>1, Lonely
<1>3. /\ Others(i) /\ UNCHANGED <<live, profiles, snap, registry, tmp, fresh, mishaps>>
      /\ At(i, "idle") /\ proc'[i].pc = "start" /\ proc'[i].blocked = {}
  BY <1>1, IssueEffect DEF disk
<1>4. SourceAt(i)' /\ CloneAt(i)' /\ DeletedAt(i)' /\ SavesAt(i)' /\ registry' # Torn
  BY <1>1, <1>3 DEF SourceAt, CloneAt, DeletedAt, SavesAt, At, SavesWhole
<1>5. mishaps = {} => Matches(registry)
  BY <1>1, <1>2, <1>3 DEF Reconciled, AllIdle
<1>6. ReconciledAt(i)'
  <2>1. At(i, "start")' /\ ~Saving(i)'
    BY <1>3 DEF At, Saving
  <2>2. mishaps' = {} => Matches(registry)'
    BY <1>3, <1>5 DEF Matches, Linked
  <2> QED
    BY <1>3, <2>1, <2>2 DEF ReconciledAt
<1>7. SourceThere' /\ CloneApart' /\ DeletedApart' /\ SavesWhole' /\ Reconciled'
  <2>1. ~At(i, "idle")'
    BY <1>3 DEF At
  <2> QED
    BY <1>2, <1>4, <1>6, <2>1, OneForAll
<1>10. \A j \in Procs : ~At(j, "copying") /\ ~At(j, "relocating") /\ ~At(j, "clearing")
  BY <1>2, <1>3 DEF At
<1>8. Whole'
  BY <1>1, <1>3, <1>10 DEF Whole, Handles
<1>9. NotYetMoved'
  BY <1>1, <1>3, <1>10 DEF NotYetMoved, Handles
<1> QED
  BY <1>7, <1>8, <1>9 DEF Alone

LEMMA CrashAlone ==
  ASSUME IInv, OneAtATime, NEW i \in Procs, Crash(i)
  PROVE  Alone'
<1>1. TypeOK /\ InStep /\ SavesWhole /\ NotYetMoved
  BY AloneLeads
<1>2. \A j \in Procs \ {i} : At(j, "idle") /\ At(j, "idle")'
  BY <1>1, Lonely
<1>3. /\ UNCHANGED <<live, profiles, snap, registry, tmp, fresh>>
      /\ proc'[i].pc = "idle" /\ "killed" \in mishaps' /\ mishaps \cup LeftHalf(i) \subseteq mishaps'
  BY <1>1, CrashEffect DEF Fails, disk
<1>4. /\ SourceAt(i)' /\ CloneAt(i)' /\ DeletedAt(i)' /\ SavesAt(i)' /\ registry' # Torn
      /\ ReconciledAt(i)'
  BY <1>1, <1>3 DEF SourceAt, CloneAt, DeletedAt, SavesAt, At, SavesWhole, ReconciledAt
<1>5. SourceThere' /\ CloneApart' /\ DeletedApart' /\ SavesWhole' /\ Reconciled'
  BY <1>2, <1>3, <1>4, OneForAll
<1>6. Whole'
  BY <1>3 DEF Whole
<1>7. NotYetMoved'
  <2> SUFFICES ASSUME "half_removed" \notin mishaps' PROVE NotYetMoved'
    BY DEF NotYetMoved
  <2>1. ~At(i, "clearing") /\ "half_removed" \notin mishaps
    BY <1>3 DEF LeftHalf
  <2>2. \A j \in Procs : ~At(j, "clearing")
    BY <1>2, <2>1 DEF At
  <2> QED
    BY <1>1, <1>3, <2>1, <2>2 DEF NotYetMoved, Handles
<1> QED
  BY <1>5, <1>6, <1>7 DEF Alone

(* An agent that makes itself a new directory had none.                        *)
LEMMA AgentStartsAlone ==
  ASSUME IInv, OneAtATime, NEW a \in Agents, AgentStarts(a)
  PROVE  Alone'
<1>1. /\ TypeOK /\ InStep /\ SourceThere /\ CloneApart /\ DeletedApart /\ Whole /\ SavesWhole /\ Reconciled
  BY AloneLeads
<1>2. /\ UNCHANGED <<profiles, snap, registry, tmp, proc, scope, mishaps>>
      /\ live[a] = Absent /\ live' = [live EXCEPT ![a] = Dir(Fresh)]
      /\ fresh' # 0
  BY <1>1, AgentStartsEffect
<1>3. \A b \in Agents : live'[b] = IF b = a THEN Dir(Fresh) ELSE live[b]
  BY <1>1, <1>2, OneLive
<1>4. \A b \in Agents : LinkOf(live'[b]) = LinkOf(live[b])
  BY <1>2, <1>3, Names, NewLives
<1>5. \A b \in Agents, p \in Profiles : live[b] # Link(p) => live'[b] # Link(p)
  BY <1>3, Names, NewLives
<1>6. SourceThere'
  <2> SUFFICES ASSUME NEW i \in Procs PROVE SourceAt(i)'
    BY DEF SourceThere, SourceAt
  <2>1. SourceAt(i)
    BY <1>1 DEF SourceThere, SourceAt
  <2>2. Agent(i)' = Agent(i)
    BY <1>2 DEF Agent
  <2>3. proc[i].pc \in Moving => Agent(i) \in SymlinkTier
    BY <1>1, MovesTier
  <2>4. /\ Absent.kind \notin {"dir", "foreign"} /\ Absent # Dir(Partial)
    BY DEF Absent, Dir
  <2>5. ASSUME \/ proc[i].pc \in {"wipe", "move", "relocating", "clear"} /\ Agent(i) \in SymlinkTier
               \/ At(i, "clearing")
        PROVE  live'[Agent(i)] = live[Agent(i)]
    <3>1. Agent(i) \in SymlinkTier
      BY <2>3, <2>5 DEF At, Moving
    <3>2. Agent(i) # a
      BY <1>2, <2>1, <2>4, <2>5 DEF SourceAt
    <3> QED
      BY <1>3, <3>1, <3>2, Names
  <2> QED
    BY <1>2, <2>1, <2>2, <2>3, <2>5 DEF SourceAt, At, Moving
<1>7. CloneApart'
  <2>1. \A p : \A b \in SymlinkTier : live[b] # Link(p) => live'[b] # Link(p)
    BY <1>3, Names DEF Link, Dir
  <2> QED
    BY <1>1, <1>2, <2>1 DEF CloneApart, Cmd, WithSnapshot
<1>8. DeletedApart'
  <2>1. \A p : \A b \in SymlinkTier : live[b] # Link(p) => live'[b] # Link(p)
    BY <1>3, Names DEF Link, Dir
  <2> QED
    BY <1>1, <1>2, <2>1 DEF DeletedApart, Cmd, At
<1>9. Whole'
  <2>1. Dir(Fresh) \notin {Dir(Partial), Foreign(Partial)}
    BY Names DEF Dir, Foreign
  <2>2. \A b \in SymlinkTier : live'[b] \in {Dir(Partial), Foreign(Partial)} => live'[b] = live[b]
    BY <1>3, <2>1, Names
  <2>3. \A i \in Procs : \A b, pc : Handles(i, b, pc)' <=> Handles(i, b, pc)
    BY <1>2 DEF Handles, At, Agent
  <2> QED
    BY <1>1, <1>2, <2>2, <2>3 DEF Whole, Cmd
<1>10. SavesWhole'
  BY <1>1, <1>2 DEF SavesWhole, At
<1>11. Reconciled'
  <2>1. \A b \in SymlinkTier : Linked(b)' = Linked(b)
    BY <1>4, Names DEF Linked
  <2>2. \A reg : Matches(reg) => \A b \in SymlinkTier : reg.active[b] = Linked(b)'
    BY <2>1 DEF Matches
  <2>3. mishaps' = {} /\ AllIdle' => Matches(registry)'
    BY <1>1, <1>2, <2>2 DEF Reconciled, AllIdle, At, Matches
  <2>4. ASSUME NEW i \in Procs PROVE ReconciledAt(i)'
    <3>1. CASE At(i, "idle")
      BY <1>2, <3>1 DEF ReconciledAt, At
    <3>2. CASE ~At(i, "idle")
      <4>1. /\ proc' = proc /\ registry' = registry /\ mishaps' = mishaps
            /\ Cmd(i)' = Cmd(i) /\ ToRecord(i)' = ToRecord(i) /\ (Saving(i)' <=> Saving(i))
            /\ (At(i, "start")' <=> At(i, "start"))
        BY <1>2 DEF Cmd, ToRecord, Saving, At
      <4>2. CASE Saving(i)
        <5>1. /\ mishaps = {} \/ Cmd(i).op = "init" => Matches(proc[i].reg)
              /\ Cmd(i).op = "init" => proc[i].reg.default # None
          BY <1>1, <3>2, <4>2, ReconciledHere
        <5>2. mishaps = {} \/ Cmd(i).op = "init" => Matches(proc[i].reg)'
          BY <1>2, <2>2, <5>1 DEF Matches
        <5> QED
          BY <4>1, <4>2, <5>1, <5>2 DEF ReconciledAt
      <4>3. CASE ~Saving(i) /\ (At(i, "start") \/ Cmd(i).op \in {"create", "save", "delete"})
        <5>1. /\ At(i, "start") => proc[i].blocked = {}
              /\ mishaps = {} => Matches(registry)
          BY <1>1, <3>2, <4>3, ReconciledHere
        <5>2. mishaps = {} => Matches(registry)'
          BY <1>2, <2>2, <5>1 DEF Matches
        <5> QED
          BY <4>1, <4>3, <5>1, <5>2 DEF ReconciledAt
      <4>4. CASE ~Saving(i) /\ ~(At(i, "start") \/ Cmd(i).op \in {"create", "save", "delete"})
        <5>1. Cmd(i).op \in {"use", "restore"} =>
                /\ proc[i].blocked \cap proc[i].todo = {}
                /\ mishaps = {} => \A b \in SymlinkTier :
                      IF b \in ToRecord(i) \ proc[i].todo THEN live[b] = Link(Cmd(i).profile)
                                                          ELSE registry.active[b] = Linked(b)
          BY <1>1, <3>2, <4>4, ReconciledHere
        <5>2. \A p : \A b \in SymlinkTier : live[b] = Link(p) => live'[b] = Link(p)
          BY <1>2, <1>3, Names DEF Link, Absent
        <5>3. Cmd(i).op \in {"use", "restore"} =>
                /\ proc[i].blocked \cap proc[i].todo = {}
                /\ mishaps = {} => \A b \in SymlinkTier :
                      IF b \in ToRecord(i) \ proc[i].todo THEN live'[b] = Link(Cmd(i).profile)
                                                          ELSE registry.active[b] = Linked(b)'
          BY <2>1, <5>1, <5>2
        <5> QED
          BY <4>1, <4>4, <5>3 DEF ReconciledAt
      <4> QED
        BY <4>2, <4>3, <4>4
    <3> QED
      BY <3>1, <3>2
  <2> QED
    BY <2>3, <2>4 DEF Reconciled, ReconciledAt
<1>12. NotYetMoved'
  BY <1>2 DEF NotYetMoved
<1> QED
  BY <1>6, <1>7, <1>8, <1>9, <1>10, <1>11, <1>12 DEF Alone

------------------------------------------------------------------------------
(* Theorems.                                                                  *)

LEMMA InitEstablishes ==
  ASSUME Init
  PROVE  IInv
<1>1. PICK s \in Starts :
        /\ live = s.live /\ profiles = s.profiles /\ snap = s.snap /\ registry = s.registry
        /\ scope = s.scope
  BY DEF Init
<1>2. /\ live \in [Agents -> Lives] /\ profiles \in SUBSET Profiles
      /\ snap \in [Profiles -> [Agents -> Contents \cup {None}]] /\ registry \in Registries
      /\ scope \in [procs : SUBSET Procs, commands : SUBSET Commands, mishaps : BOOLEAN]
  BY <1>1, StartsAtRest
<1>3. /\ \A p \in Profiles, a \in Agents : snap[p][a] # None => p \in profiles
      /\ \A a \in SymlinkTier :
            /\ registry.active[a] = LinkOf(live[a])
            /\ live[a].kind = "link" => snap[live[a].at][a] # None
            /\ live[a].kind \in {"dir", "foreign"} => \A p \in Profiles : snap[p][a] = None
            /\ live[a] \notin {Dir(Partial), Foreign(Partial)}
            /\ \A p \in Profiles : snap[p][a] # Partial
  BY <1>1, StartsAtRest
<1>4. /\ tmp = None /\ proc = [i \in Procs |-> Idle] /\ issued = 0 /\ fresh = 0 /\ mishaps = {}
  BY DEF Init
<1>5. \A i \in Procs : proc[i].pc = "idle" /\ At(i, "idle")
  BY <1>4, IdleProc DEF At
<1>6. TypeOK
  BY <1>2, <1>4, IdleProc, AgentsTyped DEF TypeOK
<1>7. InStep /\ SnapshotsInProfiles /\ LinksLead
  BY <1>3, <1>5 DEF InStep, SnapshotsInProfiles, LinksLead
<1>8. SourceThere /\ CloneApart /\ DeletedApart
  BY <1>5 DEF SourceThere, CloneApart, DeletedApart, At
<1>9. Whole /\ SavesWhole /\ NotYetMoved
  BY <1>2, <1>3, <1>5, RegistryFacts DEF Whole, SavesWhole, NotYetMoved, Handles, At
<1>10. Reconciled
  BY <1>3, <1>5 DEF Reconciled, Matches, Linked
<1> QED
  BY <1>6, <1>7, <1>8, <1>9, <1>10 DEF IInv, Alone

LEMMA ScopeKept ==
  ASSUME TypeOK, InStep, Next
  PROVE  scope' = scope
BY StepAfter, IssueEffect, CrashEffect, AgentStartsEffect DEF Next, Fails

LEMMA NextPreserves ==
  ASSUME IInv, Next
  PROVE  IInv'
<1>1. TypeOK /\ InStep /\ SnapshotsInProfiles
  BY DEF IInv
<1>2. TypeOK' /\ InStep' /\ SnapshotsInProfiles' /\ scope' = scope
  BY <1>1, NextInStep, StepSnapshots, ScopeKept
<1>3. LinksLead'
  <2> SUFFICES ASSUME Apart' PROVE Leads'
    BY DEF LinksLead, Leads
  <2>1. Apart
    BY <1>2 DEF Apart, OneAtATime
  <2>2. Leads
    BY <2>1 DEF IInv, LinksLead, Leads
  <2>3. Guarded
    BY <2>1 DEF Apart, IInv, Alone, Guarded
  <2> QED
    BY <1>1, <2>2, <2>3, StepLeads
<1>4. Alone'
  <2>1. CASE OneAtATime
    BY <2>1, StepAlone, IssueAlone, CrashAlone, AgentStartsAlone DEF Next
  <2>2. CASE ~OneAtATime
    BY <1>2, <2>2 DEF Alone, OneAtATime
  <2> QED
    BY <2>1, <2>2
<1> QED
  BY <1>2, <1>3, <1>4 DEF IInv

LEMMA Stutters ==
  ASSUME IInv, UNCHANGED vars
  PROVE  IInv'
<1>1. UNCHANGED <<live, profiles, snap, registry, tmp, proc, scope, issued, fresh, mishaps>>
  BY DEF vars, disk
<1>2. TypeOK'
  BY <1>1 DEF IInv, TypeOK
<1>3. InStep' /\ SnapshotsInProfiles' /\ LinksLead'
  BY <1>1 DEF IInv, InStep, SnapshotsInProfiles, LinksLead, Apart, OneAtATime, At, Cmd, Target, Agent
<1>4. Alone'
  <2>1. OneAtATime' => OneAtATime
    BY <1>1 DEF OneAtATime
  <2> SUFFICES ASSUME OneAtATime
               PROVE  /\ SourceThere' /\ CloneApart' /\ DeletedApart' /\ Whole' /\ SavesWhole'
                      /\ Reconciled' /\ NotYetMoved'
    BY <2>1 DEF Alone
  <2>2. /\ SourceThere /\ CloneApart /\ DeletedApart /\ Whole /\ SavesWhole /\ Reconciled
        /\ NotYetMoved
    BY AloneLeads
  <2>3. SourceThere' /\ CloneApart' /\ DeletedApart'
    BY <1>1, <2>2 DEF SourceThere, CloneApart, DeletedApart, At, Cmd, Agent, WithSnapshot
  <2>4. Whole' /\ SavesWhole' /\ NotYetMoved'
    BY <1>1, <2>2 DEF Whole, SavesWhole, NotYetMoved, Handles, At, Cmd, Agent
  <2>5. Reconciled'
    BY <1>1, <2>2 DEF Reconciled, AllIdle, Matches, Saving, ToRecord, Linked, At, Cmd
  <2> QED
    BY <2>2, <2>3, <2>4, <2>5
<1> QED
  BY <1>2, <1>3, <1>4 DEF IInv

(* The inductive invariant: for any number of processes the types, what each    *)
(* command can be about where it is, and what links lead to as long as nobody    *)
(* else takes profiles away; for a process that is alone, how live directories,  *)
(* snapshots and registry agree at every point of every command.                *)
THEOREM Invariance == Spec => []IInv
<1>1. Init => IInv
  BY InitEstablishes
<1>2. IInv /\ [Next]_vars => IInv'
  BY NextPreserves, Stutters
<1> QED
  BY <1>1, <1>2, PTL DEF Spec

(* The state keeps its types, whatever the processes do to the files under each  *)
(* other's hands: every registry loaded, merged, pruned and written has an entry  *)
(* or none for every agent, and no process ever works on an agent it was not      *)
(* given (store.rs, mod.rs).                                                    *)
THEOREM TypeCorrect == Spec => []TypeOK
<1>1. IInv => TypeOK
  BY DEF IInv
<1> QED
  BY <1>1, Invariance, PTL

(* Between commands that all went well, the registry says of each symlink-tier    *)
(* agent what its link says, for any agents, profiles and sequence of commands    *)
(* (agents_profile_cmd.rs:80-110, 270-330).                                     *)
THEOREM RegistryAgrees == Spec => []RegistryMatchesLinks
<1>1. IInv => RegistryMatchesLinks
  <2> SUFFICES ASSUME IInv, OneAtATime, AllIdle, mishaps = {}
               PROVE  Matches(registry)
    BY DEF RegistryMatchesLinks, Matches
  <2> QED
    BY AloneLeads DEF Reconciled
<1> QED
  BY <1>1, Invariance, PTL

(* Every link leads to a snapshot at every moment, while one process runs any     *)
(* commands and may fail or be killed, or any number of processes switch, save,    *)
(* restore and create from nothing.  Between the commands of one process it leads   *)
(* to a whole one, as long as none was killed and no move stopped half way: what    *)
(* such a move has left in the store is linked to (store.rs:378-384, 687-710).   *)
THEOREM LinksLeadToTrees == Spec /\ Apart => []LinksLeadToWholeTrees
<1>1. Apart /\ UNCHANGED scope => Apart'
  BY DEF Apart, OneAtATime
<1>2. IInv /\ Apart /\ [Next]_vars => Apart'
  <2>1. IInv /\ Next => scope' = scope
    BY ScopeKept DEF IInv
  <2>2. UNCHANGED vars => scope' = scope
    BY DEF vars
  <2> QED
    BY <1>1, <2>1, <2>2
<1>3. IInv /\ Apart => LinksLeadToWholeTrees
  <2> SUFFICES ASSUME IInv, Apart, NEW a \in SymlinkTier, live[a].kind = "link"
               PROVE  /\ snap[live[a].at][a] # None
                      /\ (OneAtATime /\ AllIdle /\ mishaps \subseteq {"failed"}) =>
                            snap[live[a].at][a] # Partial
    BY DEF LinksLeadToWholeTrees
  <2>1. snap[live[a].at][a] # None
    BY DEF IInv, LinksLead
  <2>2. ASSUME OneAtATime, AllIdle, mishaps \subseteq {"failed"}
        PROVE  snap[live[a].at][a] # Partial
    <3>1. live[a] \in Lives
      BY Names DEF IInv, TypeOK
    <3>2. live[a].at \in Profiles
      BY <3>1, LiveFields
    <3>3. \A i \in Procs : ~At(i, "copying") /\ ~At(i, "relocating")
      BY <2>2 DEF AllIdle, At
    <3> QED
      BY <2>2, <3>2, <3>3, AloneLeads DEF Whole, Handles
  <2> QED
    BY <2>1, <2>2
<1> QED
  BY <1>2, <1>3, Invariance, PTL DEF Spec

LEMMA InitAgrees ==
  ASSUME IInv, [Next]_vars, NEW i \in Procs, OneAtATime, ~At(i, "idle"), Cmd(i).op = "init",
         proc'[i].result = "ok"
  PROVE  registry'.default # None /\ \A a \in SymlinkTier : registry'.active[a] = Linked(a)'
<1>1. TypeOK /\ InStep /\ SavesWhole /\ Reconciled
  BY AloneLeads
<1>2. proc[i].result = None /\ None # "ok"
  BY <1>1, Where, AgentsTyped DEF Outcomes
<1>3. proc' # proc
  BY <1>2
<1>4. PICK j \in Procs : Step(j) \/ Crash(j) \/ \E c \in Commands : Issue(j, c)
  BY <1>3 DEF Next, AgentStarts, vars
<1>5. i = j
  BY <1>1, <1>4, Lonely
<1>6. Step(i)
  BY <1>1, <1>4, <1>5, IssueEffect, CrashEffect DEF Fails
<1>7. RenameTmp(i)
  <2>1. AgentsDone(i) \/ RemoveProfile(i) \/ RenameTmp(i)
    BY <1>1, <1>6, StepAfter
  <2>2. ~AgentsDone(i)
    BY <1>1, <1>2, AgentsDoneEffect
  <2>3. ~RemoveProfile(i)
    <3>1. RemoveProfile(i) => At(i, "remove")
      BY DEF RemoveProfile
    <3> QED
      BY <1>1, <3>1, Where DEF At
  <2> QED
    BY <2>1, <2>2, <2>3
<1>8. At(i, "rename") /\ live' = live /\ registry' = tmp
  BY <1>1, <1>7, RenameEffect DEF Fails
<1>9. tmp = proc[i].reg
  BY <1>1, <1>8 DEF SavesWhole
<1>10. Matches(proc[i].reg) /\ proc[i].reg.default # None
  BY <1>1, <1>8, ReconciledHere DEF Saving, At
<1> QED
  BY <1>8, <1>9, <1>10 DEF Matches, Linked

(* Whatever earlier commands have left half done, failed or killed, an init that   *)
(* succeeds brings the registry and the links together and has a default           *)
(* (agents_profile_cmd.rs:86-105).                                              *)
THEOREM InitBringsTogether == Spec => InitReconciles
<1>1. IInv /\ [Next]_vars =>
        \A i \in Procs :
          (OneAtATime /\ ~At(i, "idle") /\ Cmd(i).op = "init" /\ proc'[i].result = "ok") =>
              /\ registry'.default # None
              /\ \A a \in SymlinkTier : registry'.active[a] = Linked(a)'
  BY InitAgrees
<1> QED
  BY <1>1, Invariance, PTL DEF Spec, InitReconciles

LEMMA HeldStill ==
  ASSUME NEW a \in SymlinkTier, NEW id \in Ids, Held(a, id), live'[a] = live[a],
         \A p \in Profiles : snap'[p][a] = snap[p][a]
  PROVE  Held(a, id)'
BY DEF Held

(* Until init has moved it, a directory is all that is held of its agent.       *)
LEMMA OneHeld ==
  ASSUME TypeOK, NotYetMoved, fresh = 0, "half_removed" \notin mishaps,
         NEW a \in SymlinkTier, live[a].kind \in {"dir", "foreign"},
         \A j \in Procs : ~Handles(j, a, "clearing"), NEW id \in Ids, Held(a, id)
  PROVE  live[a].at = id /\ live[a] \in {Dir(id), Foreign(id)}
<1>1. live[a] \in Lives /\ id # None /\ id # Partial
  BY Names, AgentsTyped DEF TypeOK
<1>2. \A p \in Profiles : snap[p][a] \in {None, Partial, live[a].at}
  BY DEF NotYetMoved
<1>3. live[a] = Dir(id) => live[a].at = id
  BY DEF Dir
<1>4. live[a].at = id
  BY <1>1, <1>2, <1>3 DEF Held
<1> QED
  BY <1>1, <1>4, LiveFields

LEMMA StaysHeld ==
  ASSUME IInv, NEW i \in Procs, OneAtATime, fresh = 0, "half_removed" \notin mishaps, Step(i),
         Cmd(i).op \in {"init", "create", "use"},
         NEW a \in SymlinkTier, NEW id \in Ids, Held(a, id)
  PROVE  Held(a, id)' \/ live[a] = Foreign(id)
<1>1. /\ TypeOK /\ InStep /\ SourceThere /\ CloneApart /\ NotYetMoved
      /\ a \in Agents /\ id # None /\ id # Partial
  BY AloneLeads, Names, AgentsTyped
<1>0. \A j \in Procs \ {i} : At(j, "idle")
  BY <1>1, Lonely
<1>2. ASSUME a # Agent(i), NEW p \in Profiles,
             \/ live' = live
             \/ live' = [live EXCEPT ![Agent(i)] = Absent]
             \/ live' = [live EXCEPT ![Agent(i)] = Dir(Partial)],
             snap' = snap \/ \E c : snap' = [snap EXCEPT ![p][Agent(i)] = c]
      PROVE  Held(a, id)'
  <2>1. live'[a] = live[a]
    BY <1>1, <1>2 DEF TypeOK
  <2>2. \A q \in Profiles : snap'[q][a] = snap[q][a]
    BY <1>1, <1>2 DEF TypeOK
  <2> QED
    BY <2>1, <2>2, HeldStill
<1>3. ASSUME a = Agent(i), ~At(i, "clearing"), live[a].kind \in {"dir", "foreign"}
      PROVE  live[a].at = id /\ live[a] \in {Dir(id), Foreign(id)}
  <2>1. \A j \in Procs : ~Handles(j, a, "clearing")
    BY <1>0, <1>3 DEF Handles, At
  <2> QED
    BY <1>1, <1>3, <2>1, OneHeld
<1>6. CASE MoveLive(i) \/ Relocated(i)
  <2>1. /\ Agent(i) \in SymlinkTier /\ live[Agent(i)].kind \in {"dir", "foreign"}
        /\ snap' = [snap EXCEPT ![Default][Agent(i)] = live[Agent(i)].at]
        /\ live' = [live EXCEPT ![Agent(i)] = Absent] \/ live' = live
    BY <1>1, <1>6, MovedWhole, RelocatedWhole
  <2>2. ~At(i, "clearing")
    BY <1>6 DEF MoveLive, Relocated, At
  <2>3. CASE a = Agent(i)
    <3>1. live[a].at = id
      BY <1>3, <2>1, <2>2, <2>3
    <3>2. snap'[Default][a] = id
      BY <1>1, <2>1, <2>3, <3>1, Names DEF TypeOK
    <3> QED
      BY <3>2, Names DEF Held
  <2>4. CASE a # Agent(i)
    BY <1>2, <2>1, <2>4, Names
  <2> QED
    BY <2>3, <2>4
<1>7. CASE WipeSnapshot(i) \/ RenameRefused(i)
  <2>1. PICK p \in Profiles, c \in {None, Partial} :
          snap' = [snap EXCEPT ![p][Agent(i)] = c]
    BY <1>1, <1>7, WipeEffect, RenameRefusedEffect, Names
  <2>2. live' = live /\ proc[i].pc \in {"wipe", "move"}
    BY <1>1, <1>7, WipeEffect, RenameRefusedEffect DEF At
  <2>3. CASE a = Agent(i)
    <3>1. live[a].kind \in {"dir", "foreign"} /\ ~At(i, "clearing")
      BY <1>1, <2>2, <2>3 DEF SourceThere, At
    <3> QED
      BY <1>3, <2>2, <2>3, <3>1 DEF Held
  <2>4. CASE a # Agent(i)
    BY <1>2, <2>1, <2>2, <2>4
  <2> QED
    BY <2>3, <2>4
<1>8. CASE ClearSource(i) \/ SourceCleared(i)
  <2>1. /\ snap' = snap
        /\ \/ live' = [live EXCEPT ![Agent(i)] = Absent]
           \/ live' = [live EXCEPT ![Agent(i)] = Dir(Partial)]
    BY <1>1, <1>8, ClearSourceEffect, SourceClearedEffect
  <2>2. CASE a # Agent(i)
    BY <1>2, <2>1, <2>2, Names
  <2>3. CASE a = Agent(i) /\ At(i, "clear")
    <3>1. live[a].kind \in {"dir", "foreign"} /\ ~At(i, "clearing")
      BY <1>1, <2>3 DEF SourceThere, At
    <3>2. snap[Default][a] = id
      BY <1>1, <1>3, <2>3, <3>1 DEF SourceThere
    <3> QED
      BY <2>1, <3>2, Names DEF Held
  <2>4. CASE a = Agent(i) /\ At(i, "clearing")
    <3>1. live[a] = Dir(Partial)
      BY <1>1, <2>4 DEF SourceThere
    <3>2. live[a] # Dir(id)
      BY <1>1, <3>1 DEF Dir
    <3> QED
      BY <2>1, <3>2 DEF Held
  <2> QED
    BY <1>8, <2>2, <2>3, <2>4 DEF ClearSource, SourceCleared
<1>4. CASE Cmd(i).op = "create"
  <2> DEFINE mine == Cmd(i).profile
             f == Cmd(i).from
  <2>1. live'[a] = live[a]
    BY <1>1, <1>4, TierAfter
  <2>2. /\ mine \in Profiles
        /\ \A q \in Profiles \ {mine} : snap'[q] = snap[q]
        /\ \/ snap'[mine][a] = snap[mine][a]
           \/ snap'[mine][a] = None /\ (CopyFails(i) \/ AgentsDone(i))
           \/ snap'[mine][a] = Partial /\ a = Agent(i) /\ BeginCopy(i) /\ At(i, "copying")'
           \/ /\ a = Agent(i) /\ EndCopy(i)
              /\ f \in Profiles \ {mine} /\ snap'[mine][a] = snap[f][a]
    BY <1>1, <1>4, CloneSnapshots
  <2>3. CASE snap'[mine][a] = snap[mine][a]
    <3>1. \A p \in Profiles : snap'[p][a] = snap[p][a]
      BY <2>2, <2>3
    <3> QED
      BY <2>1, <3>1, HeldStill
  <2>4. CASE snap'[mine][a] # snap[mine][a]
    <3>1. proc[i].pc \in {"agent", "copy", "copying"}
      <4>1. CopyFails(i) \/ AgentsDone(i) \/ BeginCopy(i) \/ EndCopy(i)
        BY <2>2, <2>4
      <4> QED
        BY <4>1 DEF CopyFails, AgentsDone, BeginCopy, EndCopy, At
    <3>2. /\ f # None => f # mine
          /\ snap[mine][a] # None => f # None /\ snap[mine][a] \in {Partial, snap[f][a]}
      BY <1>1, <1>4, <3>1 DEF CloneApart
    <3>3. f \in Profiles \cup {None}
      <4>1. ~At(i, "idle")
        BY <3>1 DEF At
      <4> QED
        BY <1>1, <4>1, Where, CommandFields
    <3>4. CASE live[a] = Dir(id)
      BY <2>1, <3>4 DEF Held
    <3>5. ASSUME NEW p \in Profiles, snap[p][a] = id PROVE Held(a, id)'
      <4>1. CASE p # mine
        BY <2>2, <3>5, <4>1 DEF Held
      <4>2. CASE p = mine
        <5>1. f \in Profiles /\ f # mine /\ snap[f][a] = id
          BY <1>1, <3>2, <3>3, <3>5, <4>2
        <5> QED
          BY <2>2, <5>1 DEF Held
      <4> QED
        BY <4>1, <4>2
    <3> QED
      BY <3>4, <3>5 DEF Held
  <2> QED
    BY <2>3, <2>4
<1>5. CASE /\ ~MoveLive(i) /\ ~RenameRefused(i) /\ ~Relocated(i) /\ ~WipeSnapshot(i)
           /\ ~ClearSource(i) /\ ~SourceCleared(i) /\ Cmd(i).op \in {"init", "use"}
  <2>1. \A p \in Profiles : snap'[p][a] = snap[p][a]
    BY <1>1, <1>5, TierAfter
  <2>2. live'[a] = live[a] \/ live[a].kind # "dir"
    BY <1>1, <1>5, TierLives
  <2>3. CASE live'[a] = live[a]
    BY <2>1, <2>3, HeldStill
  <2>4. CASE live[a].kind # "dir"
    BY <2>1, <2>4 DEF Held, Dir
  <2> QED
    BY <2>2, <2>3, <2>4
<1> QED
  BY <1>4, <1>5, <1>6, <1>7, <1>8

(* Moving a config directory into the store, by rename or by copy and removal,     *)
(* linking it back, and doing it again after a failure or a kill never loses the   *)
(* only copy of a symlink-tier agent's identity, for any agents, profiles and       *)
(* sequence of commands, as long as the agent makes itself no new directory and     *)
(* the removal of a source has not stopped half way: after that, the next init      *)
(* gives the whole copy up for what is left of the source (store.rs:268-298,        *)
(* 687-710).                                                                        *)
THEOREM IdentitiesAreKept == Spec => IdentitiesKept
<1>1. ASSUME IInv, [Next]_vars, NEW i \in Procs, OneAtATime, fresh = 0,
             "half_removed" \notin mishaps, ~At(i, "idle"),
             Cmd(i).op \in {"init", "create", "use"},
             NEW a \in SymlinkTier, NEW id \in Ids, Held(a, id)
      PROVE  Held(a, id)' \/ live[a] = Foreign(id)
  <2>1. TypeOK /\ InStep
    BY <1>1 DEF IInv
  <2>2. CASE UNCHANGED vars
    BY <1>1, <2>2 DEF vars, disk, Held
  <2>3. ASSUME NEW b \in Agents, AgentStarts(b) PROVE Held(a, id)'
    <3>1. live[b] = Absent /\ live' = [live EXCEPT ![b] = Dir(Fresh)] /\ snap' = snap
      BY <2>3 DEF AgentStarts
    <3>2. CASE a = b
      BY <1>1, <3>1, <3>2 DEF Held, Absent, Dir
    <3>3. CASE a # b
      BY <1>1, <2>1, <3>1, <3>3, Names DEF Held, TypeOK
    <3> QED
      BY <3>2, <3>3
  <2>4. ASSUME NEW j \in Procs, Step(j) \/ Crash(j) \/ \E c \in Commands : Issue(j, c)
        PROVE  Held(a, id)' \/ live[a] = Foreign(id)
    <3>1. i = j
      BY <1>1, <2>1, <2>4, Lonely
    <3>2. CASE Step(i)
      BY <1>1, <3>2, StaysHeld
    <3>3. CASE Crash(i)
      BY <1>1, <2>1, <3>3, CrashEffect DEF Fails, disk, Held
    <3>4. ~ \E c \in Commands : Issue(i, c)
      BY <1>1, <2>1, IssueEffect
    <3> QED
      BY <2>4, <3>1, <3>2, <3>3, <3>4
  <2> QED
    BY <1>1, <2>2, <2>3, <2>4 DEF Next
<1>2. IInv /\ [Next]_vars =>
        \A i \in Procs :
          (/\ OneAtATime /\ fresh = 0 /\ "half_removed" \notin mishaps
           /\ ~At(i, "idle") /\ Cmd(i).op \in {"init", "create", "use"}) =>
              \A a \in SymlinkTier, id \in Ids :
                  Held(a, id) => Held(a, id)' \/ live[a] = Foreign(id)
  BY <1>1
<1> QED
  BY <1>2, Invariance, PTL DEF Spec, IdentitiesKept
==============================================================================
