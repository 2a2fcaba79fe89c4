----------------------------- MODULE Processes ------------------------------
(***************************************************************************)
(* The kernel's process table, as far as the daemons can observe it: which *)
(* instances live, and the executable each runs.                           *)
(***************************************************************************)
EXTENDS GuardCore

CONSTANTS
  Lineage,        \* the parent, grandparent... of an instance, closest first
  BirthExe,       \* what an instance runs first
  Scenario        \* what the rest of the machine may do in a behaviour

ASSUME ProcessAssumption ==
  /\ Lineage \in [Proc -> Seq(Proc)]
  /\ BirthExe \in [Proc -> Exe]
  /\ \A s \in Scenario :
       /\ s.initial \union s.later \union s.mortal \subseteq Proc
       /\ s.execs \subseteq Proc \X Exe
       /\ \A i, j \in s.initial : PidOf[i] = PidOf[j] => i = j
       /\ \A i \in s.initial, j \in s.later : PidOf[i] = PidOf[j] /\ i # j => StartOf[i] < StartOf[j]

\* The ancestors of an instance are its parent and its parent's ancestors.
ASSUME LineageAssumption ==
  \A i \in Proc : Lineage[i] # <<>> => Lineage[Lineage[i][1]] = Tail(Lineage[i])

VARIABLES
  life, exe,
  scenario        \* the one this behaviour belongs to: it never changes

procs == <<life, exe, scenario>>

\* The instances that may start later, those that may exit, and the
\* <<instance, executable>> replacements that may happen.
Later  == scenario.later
Mortal == scenario.mortal
Execs  == scenario.execs

InitProcs ==
  /\ scenario \in Scenario
  /\ life = [i \in Proc |-> IF i \in scenario.initial THEN "live" ELSE "unborn"]
  /\ exe = BirthExe

Pid == {PidOf[i] : i \in Proc}

Live == {i \in Proc : life[i] = "live"}

\* The instance a stable id names has not exited.
Alive(s) == s.inst \in Live

Running(s) == Alive(s) /\ exe[s.inst] = s.exe

Seen(i) == [inst |-> i, exe |-> exe[i]]

At(pid) == {i \in Live : PidOf[i] = pid}

SpawnProc(i) ==
  /\ i \in Later /\ life[i] = "unborn"
  /\ \A j \in Proc \ {i} : PidOf[j] = PidOf[i] =>
       life[j] = "gone" \/ (life[j] = "unborn" /\ StartOf[j] > StartOf[i])
  /\ Lineage[i] # <<>> => Lineage[i][1] \in Live
  /\ life' = [life EXCEPT ![i] = "live"]
  /\ UNCHANGED <<exe, scenario>>

ExitProc(i) ==
  /\ i \in Live
  /\ life' = [life EXCEPT ![i] = "gone"]
  /\ UNCHANGED <<exe, scenario>>

ExecProc(i, e) ==
  /\ i \in Live /\ exe[i] # e
  /\ exe' = [exe EXCEPT ![i] = e]
  /\ UNCHANGED <<life, scenario>>
=============================================================================
