------------------------------ MODULE MCClients ------------------------------
\* r1 and r2 are imports that one prompt stands for, on macOS one id in two
\* lives of the extension, and r3 is a key read; l1 and l2 are two runs of
\* guardctl ssh load.
EXTENDS Desktop, TLC
CONSTANTS r1, r2, r3, l1, l2

MCSession == r1 :> r1 @@ r2 :> r1 @@ r3 :> r3

Quiet ==
  [system |-> "linux", stalls |-> FALSE, crashes |-> FALSE, cli |-> FALSE,
   requests |-> {}, migrations |-> {r1, r2}, notify |-> FALSE, polls |-> <<>>, pendingOnly |-> TRUE,
   maxAllows |-> 0, restarts |-> FALSE, loads |-> {}, kills |-> FALSE, records |-> 0]

\* One prompt, the polls that fail while it is answered, a new notifier.
OnePrompt == [Quiet EXCEPT !.requests = {r1}, !.notify = TRUE, !.polls = <<"ssh", "mig">>,
  !.maxAllows = 1, !.restarts = TRUE]

\* Two prompts in a window that closes after the last.
TwoPrompts == [Quiet EXCEPT !.requests = {r1, r3}, !.notify = TRUE, !.polls = <<"ssh", "mig">>]

\* Three in a window that stays, two of one session.
MainWindow == [Quiet EXCEPT !.requests = {r1, r2, r3}, !.polls = <<"ssh", "mig">>,
  !.pendingOnly = FALSE, !.maxAllows = 1]

\* Two loads, one of which waits for the other's authentication.
Loads == [Quiet EXCEPT !.loads = {l1, l2}, !.kills = TRUE]

\* The log page, and the notifier, follow the audit trail.
LogFeed == [Quiet EXCEPT !.polls = <<"events">>, !.pendingOnly = FALSE, !.records = 4]
NotifierFeed == [Quiet EXCEPT !.notify = TRUE, !.records = 4]

\* macOS: two lives of the extension
OnMac == [Quiet EXCEPT !.system = "macos", !.notify = TRUE, !.polls = <<"ssh">>]
TwoLives == [OnMac EXCEPT !.requests = {r1, r2}, !.polls = <<"mig">>,
  !.maxAllows = 1, !.crashes = TRUE]

\* ... one that hangs for a while
Hanging == [OnMac EXCEPT !.requests = {r3}, !.notify = FALSE, !.pendingOnly = FALSE,
  !.stalls = TRUE, !.maxAllows = 1]

\* ... guardctl at the same time
Crowded == [OnMac EXCEPT !.requests = {r3}, !.notify = FALSE, !.pendingOnly = FALSE,
  !.cli = TRUE]

\* ... and its records
MacFeed == [OnMac EXCEPT !.polls = <<>>, !.records = 4]

MCScenario ==
  {OnePrompt, TwoPrompts, MainWindow, Loads, LogFeed, NotifierFeed, TwoLives, Hanging, Crowded,
   MacFeed}
=============================================================================
