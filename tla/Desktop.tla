------------------------------ MODULE Desktop ---------------------------------
(***************************************************************************)
(* The clients of either system, with the prompts, lists and records of    *)
(* one scene.  guard-ui's code is common to both, and so are its actions.  *)
(***************************************************************************)
EXTENDS MacClients

DesktopInit == Init /\ MacInit

Linux(A) == scene.system = "linux" /\ A /\ UNCHANGED macVars
Mac(A) == scene.system = "macos" /\ A
Shared(A) == scene.system = "macos" /\ A /\ UNCHANGED macVars

MacServer ==
  \/ Enter
  \/ NoRoom
  \/ Handle
  \/ Depart

MacNotify ==
  \/ MacNotifierPolls
  \/ MacNotifierReads

MacPollStep ==
  \/ MacPollLists
  \/ MacPollFails

MacAsker(c) ==
  \/ PanelTimesOut(c)
  \/ Send(c)
  \/ MacTimesOut(c)

MacEnvironment ==
  \/ \E r \in Request : MacArrive(r)
  \/ MacClickAllow
  \/ CliStarts
  \/ \E c \in Asker : PanelPasses(c) \/ PanelRefuses(c)
  \/ Freeze
  \/ Thaw
  \/ ExtensionRestarts

MacShared ==
  \/ \E r \in Request : Leave(r)
  \/ \E decision \in Decision : Decide(decision)
  \/ Write
  \/ NotifierRestarts
  \/ ClickBlock

MacPoll == PollStarts \/ PollApplies

DesktopNext ==
  \/ Linux(Next)
  \/ Mac(MacServer)
  \/ Mac(MacNotify)
  \/ Mac(MacPollStep)
  \/ Mac(\E c \in Asker : MacAsker(c))
  \/ Mac(CliReturns)
  \/ Mac(\E d \in Request \union {"cli"} : Expire(d))
  \/ Mac(MacEnvironment)
  \/ Shared(MacShared)
  \/ Shared(MacPoll)
  \/ Shared(Resolve)

desktop == <<vars, macVars>>

\* Every thread keeps running, delays and deadlines pass (there are only so
\* many, so that one condition does for all), and a user who is asked again
\* and again says no some day.
DesktopSpec ==
  /\ DesktopInit /\ [][DesktopNext]_desktop
  /\ WF_desktop(Linux(Ipc)) /\ WF_desktop(Linux(Write))
  /\ WF_desktop(Linux(Notify)) /\ WF_desktop(Linux(\E r \in Request : Delay(r)))
  /\ WF_desktop(Linux(Poll)) /\ WF_desktop(Linux(Resolve)) /\ SF_desktop(Linux(ClickBlock))
  /\ \A l \in Load : WF_desktop(Linux(Broker(l)))
  /\ WF_desktop(Mac(MacServer)) /\ WF_desktop(Mac(MacNotify))
  /\ WF_desktop(Mac(MacPollStep)) /\ WF_desktop(Shared(MacPoll))
  /\ WF_desktop(Shared(Resolve)) /\ SF_desktop(Shared(ClickBlock))
  /\ WF_desktop(Mac(\E c \in Asker : MacAsker(c)))
  /\ WF_desktop(Mac(\E d \in Request \union {"cli"} : Expire(d)))

-----------------------------------------------------------------------------
\* An answer that was given comes to an end: a panel nobody answers, a client
\* found closed, an extension that hangs, refuses or is replaced leaves the
\* dialog neither stuck nor unanswerable (resolve_pending_in_background).
AuthorizingEnds == dialog.state = "authorizing" ~> dialog.state # "authorizing"
=============================================================================
