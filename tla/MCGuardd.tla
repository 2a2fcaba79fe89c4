------------------------------ MODULE MCGuardd -------------------------------
\* Alice's Firefox profile f1 and her SSH key, Chrome and its imports, and:
\*   c1, c2  two Chrome windows           w  a worker that c1 starts
\*   n       reuses the pid of c1         s  a shell, a  its child ssh-add
\*   b       a process of bob's
EXTENDS Guardd, TLC
CONSTANTS c1, c2, w, n, s, a, b, chrome, shell, sshadd, C, F, f1, key,
          alice, bob, root, a1, a2, p1, p2, p3

MCPidOf == [i \in Proc |->
  CASE i \in {c1, n} -> 1 [] i = c2 -> 2 [] i = w -> 3
    [] i = s -> 4 [] i = a -> 5 [] i = b -> 6]
MCStartOf == [i \in Proc |-> IF i \in {w, n, a} THEN 2 ELSE 1]
MCUidOf == [i \in Proc |-> IF i = b THEN bob ELSE alice]
MCAgentOf == [i \in Proc |-> a1]
MCBirthExe == [i \in Proc |-> IF i \in {c1, c2, w} THEN chrome ELSE shell]
MCLineage == [i \in Proc |-> CASE i = w -> <<c1>> [] i = a -> <<s>> [] OTHER -> <<>>]
MCBrowserOfExe == [e \in Exe |-> IF e = chrome THEN C ELSE None]
MCBrowserOf == [f \in Profile |-> F]
MCKindOf == [r \in Resource |-> IF r = key THEN "ssh" ELSE "browser"]
MCProfileOf == [r \in Resource |-> IF r = key THEN None ELSE r]
MCOwnerOf == [r \in Resource |-> alice]
PermSymmetry == Permutations(Perm)

Import(I) == [inst : I, res : {f1}, op : {"open"}]
Read(I) == [inst : I, res : {key}, op : {"access"}]

\* Import: Chrome asks for f1 from a window, its worker and a reused pid.
ImportScenario ==
  [initial |-> {c1}, later |-> {w, n}, mortal |-> {c1, w}, execs |-> {<<c1, shell>>},
   opens |-> Import({c1, w, n}), maxOpens |-> 2, arms |-> {}, maxArmed |-> 0, loads |-> {},
   clients |-> {alice, bob}, horizon |-> 2]

\* Refusal: two windows of one browser, three opens, little time.
RefusalScenario ==
  [ImportScenario EXCEPT !.initial = {c1, c2}, !.later = {}, !.mortal = {c2}, !.execs = {},
     !.opens = Import({c1, c2}), !.maxOpens = 3, !.clients = {alice}, !.horizon = 1]

\* Reads: ssh-add under a load lease, its shell, and bob.
ReadScenario ==
  [ImportScenario EXCEPT !.initial = {s, b}, !.later = {a}, !.mortal = {a},
     !.execs = {<<a, sshadd>>}, !.loads = {<<a, key, a1>>, <<a, key, a2>>},
     !.opens = Read({s, a}) \union [inst : {b}, res : {key}, op : {"open", "access"}],
     !.clients = {alice}, !.horizon = 1]

\* Armed: a migration authorized before Chrome opens the profile; the worker also
\* reads a key.
ArmedScenario ==
  [ImportScenario EXCEPT !.mortal = {c1}, !.execs = {}, !.opens = Import({w, n}) \union Read({w}),
     !.arms = {<<alice, f1, chrome>>}, !.maxArmed = 1, !.clients = {alice}, !.horizon = 1]

MCScenarios == {ImportScenario, RefusalScenario, ReadScenario, ArmedScenario}

\* Live: two windows, one of which may exit.
LiveScenarios ==
  {[ImportScenario EXCEPT !.initial = {c1, c2}, !.later = {}, !.mortal = {c1}, !.execs = {},
      !.opens = Import({c1, c2}), !.clients = {alice}]}

\* Panic: an armed lease and a key.
PanicScenarios ==
  {[ArmedScenario EXCEPT !.initial = {c1, s}, !.later = {}, !.mortal = {}, !.opens = Read({s}),
      !.maxOpens = 1, !.clients = {alice}, !.horizon = 1]}

\* Shadowed: one import after another.
ShadowedScenarios ==
  {[ArmedScenario EXCEPT !.later = {}, !.mortal = {}, !.opens = Import({c1}), !.maxOpens = 1,
      !.maxArmed = 2, !.horizon = 2]}
=============================================================================
