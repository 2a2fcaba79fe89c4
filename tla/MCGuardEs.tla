----------------------------- MODULE MCGuardEs ------------------------------
\* Alice's Firefox profile f1 with its bookmarks m1, and her SSH key; Chrome and
\* its imports, a shell, and a backup tool:
\*   c1, c2  two Chrome windows           w  a worker that c1 starts
\*   n       reuses the pid of c1         s  a shell
EXTENDS GuardEs, TLC
CONSTANTS c1, c2, w, n, s, chrome, firefox, shell, backup, C, F, f1, m1, key,
          alice, bob, root, a1, x1, x2, p1, p2, p3

MCPidOf == [i \in Proc |-> CASE i \in {c1, n} -> 1 [] i = c2 -> 2 [] i = w -> 3 [] i = s -> 4]
MCStartOf == [i \in Proc |-> IF i \in {w, n} THEN 2 ELSE 1]
MCUidOf == [i \in Proc |-> alice]
MCAgentOf == [i \in Proc |-> a1]
MCBirthExe == [i \in Proc |-> IF i \in {s, n} THEN shell ELSE chrome]
MCLineage == [i \in Proc |-> IF i = w THEN <<c1>> ELSE <<>>]
MCBrowserOfExe == [e \in Exe |-> CASE e = chrome -> C [] e = firefox -> F [] OTHER -> None]
MCBrowserOf == [f \in Profile |-> F]
MCKindOf == [r \in Resource |-> IF r = key THEN "ssh" ELSE "browser"]
MCProfileOf == [r \in Resource |-> IF r = key THEN None ELSE f1]
MCOwnerOf == [r \in Resource |-> alice]
Symmetry == Permutations(Perm)

Of(I, R, fs) == [inst : I, res : R, flags : fs]
\* Import: windows and a worker of Chrome, reading or writing.
ImportScenario ==
  [initial |-> {c1}, later |-> {w, n}, mortal |-> {c1}, execs |-> {<<c1, shell>>},
   opens |-> Of({c1, n}, {f1}, {{"read"}}) \union Of({w}, {f1}, {{"read", "write"}}), maxOpens |-> 2,
   clients |-> {alice, bob}, xpc |-> {x1}, tools |-> {}, lag |-> 0, files |-> 0,
   disabled |-> 0, horizon |-> 1]

\* Siblings: two windows of Chrome.
SiblingScenario ==
  [ImportScenario EXCEPT !.initial = {c1, c2}, !.later = {}, !.mortal = {}, !.execs = {},
     !.opens = Of({c1, c2}, {f1}, {{"read"}}), !.maxOpens = 3, !.clients = {alice}]

\* Pair: fewer opens, two threads, and suppression switched off for a second.
PairScenario ==
  [SiblingScenario EXCEPT !.mortal = {c2}, !.maxOpens = 2, !.xpc = {x1, x2}, !.disabled = 1]

\* Reads of a key, which is replaced, and writes.
ReadScenario ==
  [ImportScenario EXCEPT !.initial = {s, c1}, !.later = {}, !.mortal = {s}, !.execs = {},
     !.opens = Of({s}, {key}, {{"write"}, {"read", "write"}}) \union Of({s, c1}, {key}, {{"read"}}),
     !.clients = {alice}, !.files = 1]

\* Tools: a shell becomes a backup tool or Firefox, and the service hears of it late.
ToolScenario ==
  [ImportScenario EXCEPT !.initial = {s}, !.later = {}, !.mortal = {},
     !.execs = {<<s, backup>>, <<s, firefox>>},
     !.opens = Of({s}, {f1, m1}, {{"read", "write"}}), !.clients = {alice},
     !.tools = {backup}, !.lag = 2]

\* Reuse: the pid of a window that exited is Chrome's or Firefox's next.
ReuseScenario ==
  [ImportScenario EXCEPT !.later = {n}, !.execs = {<<n, chrome>>, <<n, firefox>>},
     !.opens = Of({c1, n}, {f1}, {{"read", "write"}}), !.clients = {alice}]

\* Late: what a window did is learned of after the open of a shell that has its pid.
LateScenario ==
  [ReuseScenario EXCEPT !.execs = {<<c1, firefox>>}, !.maxOpens = 1, !.lag = 3]

MCScenarios == {ImportScenario, SiblingScenario, PairScenario, ReadScenario, ToolScenario,
                ReuseScenario, LateScenario}

\* Live: a window and its worker, learned of late; or a reused pid, at once.
LiveScenarios ==
  {[SiblingScenario EXCEPT !.initial = {c1}, !.later = {w}, !.mortal = {w}, !.maxOpens = 2,
      !.opens = Of({c1}, {f1}, {{"read"}}), !.lag = 1, !.horizon = 2],
   [SiblingScenario EXCEPT !.initial = {c1}, !.later = {n}, !.mortal = {c1}, !.maxOpens = 2,
      !.opens = Of({c1}, {f1}, {{"read"}}), !.horizon = 2]}
=============================================================================
