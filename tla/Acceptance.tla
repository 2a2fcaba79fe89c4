---------------------------- MODULE Acceptance --------------------------------
(***************************************************************************)
(* `guardctl acceptance target-selection` (apps/guardctl/src/main.rs): a   *)
(* run on a live system that puts the profile of a fixture beside what is  *)
(* protected, looks whether it is protected, and puts back the             *)
(* configuration it found.  It is one more client of the service of        *)
(* ConfigApply; others may apply configurations meanwhile.                 *)
(***************************************************************************)
EXTENDS ConfigApply

CONSTANTS
  Fixture,          \* the path of the fixture
  Nobody            \* no XPC thread serves the run

\* The fixture is made for the run; nobody else knows of it.
ASSUME AcceptanceAssumption ==
  /\ Fixture \in Rule /\ Nobody \notin Applier
  /\ \A c \in Offered \union (Installed \ {NoConfig}) \union {Keys} : Fixture \notin c

VARIABLE test       \* the run: pc, original, who serves it, the answer, the
                    \* verdict; and history: an answer of the service was lost

acceptanceVars == <<vars, test>>

NoTest == [pc |-> "idle", original |-> NoConfig, by |-> Nobody, answer |-> "none",
           verdict |-> "none", lost |-> FALSE]

AcceptanceInit == Init /\ test = NoTest

\* mac_config_from_metadata and mac_config_with_fixture: what is protected now
\* is read and rebuilt, with its programs verified again, and the fixture added.
WithFixture(config) == config \union {Fixture}

BeginTest ==
  /\ test.pc = "idle" /\ policy.config # NoConfig
  /\ test' = [test EXCEPT !.pc = "staging", !.original = policy.config]
  /\ UNCHANGED vars

\* MacGuardClient::apply_configuration: an XPC thread serves the request, once
\* the user has authenticated.
Request(pc, config) ==
  /\ test.pc = pc /\ test.by = Nobody /\ test.answer = "none"
  /\ \E a \in Applier : Serve(a, config) /\ test' = [test EXCEPT !.by = a]
  /\ UNCHANGED applies

Stage == Request("staging", WithFixture(test.original))
PutBack == Request("restoring", test.original)

\* Nobody authenticates in a minute, or rightly.
Unauthenticated ==
  /\ test.pc \in {"staging", "restoring"} /\ test.by = Nobody /\ test.answer = "none"
  /\ test' = [test EXCEPT !.answer = "error"]
  /\ UNCHANGED vars

\* The deadline passes, or the connection ends: the thread goes on all the same.
LoseAnswer ==
  /\ test.by # Nobody
  /\ Fault
  /\ test' = [test EXCEPT !.by = Nobody, !.answer = "error", !.lost = TRUE]
  /\ UNCHANGED <<policy, selection, disk, requests, main, refresh, applier, acknowledged,
                 mishaps, applies>>

\* The service answers the run when it has served it, unless it dies first.
Heard ==
  /\ LET served == test.by # Nobody /\ applier'[test.by].pc = "idle" IN
       test' = [test EXCEPT
         !.by = IF served THEN Nobody ELSE @,
         !.answer = IF ~served THEN @ ELSE IF Succeeds(test.by) /\ ~Restart THEN "ok" ELSE "error",
         !.lost = @ \/ (Restart /\ test.pc \in {"staging", "restoring"})]

Work == Next /\ Heard

\* fixture_applied: only a run that was told so has something to put back.
Staged ==
  /\ test.pc = "staging" /\ test.answer # "none"
  /\ test' = [test EXCEPT !.answer = "none",
                          !.pc = IF test.answer = "ok" THEN "checking" ELSE "ended",
                          !.verdict = IF test.answer = "ok" THEN "none" ELSE "failed"]
  /\ UNCHANGED vars

\* The probe opens the fixture, which is denied if the kernel selects it and
\* the policy protects it.
ProbeIsDenied == Fixture \in selection.native /\ Fixture \in policy.index

\* Mutant: a check that fails ends the run.
CheckEndsRun ==
  /\ test.pc = "checking"
  /\ \/ ProbeIsDenied /\ test' = [test EXCEPT !.pc = "restoring", !.verdict = "passed"]
     \/ test' = [test EXCEPT !.pc = "ended", !.verdict = "failed"]
  /\ UNCHANGED vars

\* Whatever comes of the checks, the configuration found is put back.
Check ==
  /\ test.pc = "checking"
  /\ \E verdict \in {"failed"} \union (IF ProbeIsDenied THEN {"passed"} ELSE {}) :
       test' = [test EXCEPT !.pc = "restoring", !.verdict = verdict]
  /\ UNCHANGED vars

\* Then a link to the fixture is made, and applying it again has to be refused
\* before anything changes.
Restored ==
  /\ test.pc = "restoring" /\ test.answer # "none"
  /\ test' = [test EXCEPT !.pc = "ended", !.answer = "none",
                          !.verdict = IF test.answer = "ok" THEN @ ELSE "not restored"]
  /\ UNCHANGED vars

AcceptanceNext ==
  \/ Work
  \/ BeginTest
  \/ Stage
  \/ PutBack
  \/ Unauthenticated
  \/ LoseAnswer
  \/ Staged
  \/ Check
  \/ Restored

-----------------------------------------------------------------------------
\* A run that does not report that it could not put back what it found leaves
\* nothing of the fixture behind, in the policy, in the file, or in what a power
\* loss may leave of it: "restore the previous policy" (AcceptanceAction,
\* apps/guardctl/src/main.rs:199), unless it never learned that the fixture was
\* applied, or something happened that ConfigApply does not make good.
TestLeavesNothing ==
  /\ test.pc # "ended" /\ test'.pc = "ended" /\ test'.verdict # "not restored"
  /\ ~test.lost /\ Spared({"overlap", "unrestored", "repair", "unsynced"})
  => Fixture \notin policy.index \union Rules(policy.config) \union UNION {Rules(c) : c \in disk.durable}
=============================================================================
