---------------------------- MODULE ConsentGate -----------------------------
(***************************************************************************)
(* What the guard promises about an open of a protected file, without      *)
(* saying how: every open is answered at most once, and it is allowed only *)
(* if the program opening the file owns it, or if the user who owns it     *)
(* (or root) consented to the program's process tree having it.            *)
(***************************************************************************)
EXTENDS GuardCore

CONSTANTS Perm, Root, Lineage

VARIABLES
  ran,        \* every executable each instance has run
  gone,       \* the instances that have exited: nobody waits for their opens
  ask,        \* who opens what through a permission, None before the open
  answer,     \* "none", "allowed" or "denied"
  consents    \* what humans have consented to

vars == <<ran, gone, ask, answer, consents>>

Ask == [inst : Proc, res : Resource, op : {"open", "access"}]

\* An instance together with the instances it descends from.
Tree(i) == {i} \union {Lineage[i][k] : k \in DOMAIN Lineage[i]}

Init ==
  /\ ran \in [Proc -> SUBSET Exe]
  /\ gone = {}
  /\ ask = [p \in Perm |-> None]
  /\ answer = [p \in Perm |-> "none"]
  /\ consents = {}

(***************************************************************************)
(* Processes and people.                                                   *)
(***************************************************************************)
Environment ==
  /\ \A i \in Proc : ran[i] \subseteq ran'[i]
  /\ gone \subseteq gone'
  /\ UNCHANGED <<ask, answer, consents>>

Open(p) ==
  /\ ask[p] = None
  /\ ask' \in {[ask EXCEPT ![p] = a] : a \in Ask}
  /\ UNCHANGED <<ran, gone, answer, consents>>

\* Only the user a consent is about, or root, gives it.
Consent ==
  /\ consents \subseteq consents'
  /\ \A c \in consents' \ consents : c.by \in {Root, c.uid}
  /\ UNCHANGED <<ran, gone, ask, answer>>

(***************************************************************************)
(* The three reasons to let an open through.                               *)
(***************************************************************************)
OwnBrowser(a) ==
  /\ KindOf[a.res] = "browser"
  /\ UidOf[a.inst] = OwnerOf[a.res]
  /\ \E e \in ran[a.inst] \intersect TrustedExe :
       BrowserOfExe[e] = BrowserOf[ProfileOf[a.res]]

\* Opening a key is not reading it: the guard decides at the first read.
MereOpenOfKey(a) == KindOf[a.res] = "ssh" /\ a.op = "open"

\* A tool is enrolled for a file, whoever runs it.
CoversTool(c, a) ==
  /\ c.kind = "tool" /\ c.uid = OwnerOf[a.res]
  /\ c.what = a.res
  /\ c.exe \in ran[a.inst]

Covers(c, a) ==
  /\ c.uid = OwnerOf[a.res]
  /\ UidOf[a.inst] = c.uid
  /\ \/ /\ c.kind = "migration"
        /\ KindOf[a.res] = "browser"
        /\ c.what = ProfileOf[a.res]
        /\ \E j \in Tree(a.inst) : c.exe \in ran[j]
     \/ /\ c.kind = "read"
        /\ c.what = a.res
        /\ \E j \in Tree(a.inst) : c.exe \in ran[j] /\ c.start = StartOf[j]
     \/ /\ c.kind = "load"
        /\ c.what = a.res
        /\ c.exe \in ran[a.inst] /\ c.start = StartOf[a.inst]

Justified(a) ==
  \/ a.inst \in gone
  \/ OwnBrowser(a)
  \/ MereOpenOfKey(a)
  \/ \E c \in consents : Covers(c, a) \/ CoversTool(c, a)

\* One decision may settle several opens: all that joined one request.
AnswerSome ==
  /\ answer' # answer
  /\ \A p \in Perm : answer'[p] # answer[p] =>
       /\ answer[p] = "none" /\ ask[p] # None
       /\ \/ answer'[p] = "denied"
          \/ answer'[p] = "allowed" /\ Justified(ask[p])
  /\ UNCHANGED <<ran, gone, ask, consents>>

Next == Environment \/ (\E p \in Perm : Open(p)) \/ Consent \/ AnswerSome

Spec == Init /\ [][Next]_vars
=============================================================================
