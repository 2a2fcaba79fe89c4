---------------------------- MODULE PromptDialog -----------------------------
(***************************************************************************)
(* Which prompt guard-ui shows (apps/guard-ui/src/pending_dialog.rs): one  *)
(* dialog is active, others queue behind it, and known holds the keys of   *)
(* both, so that polling presents nothing twice.                           *)
(***************************************************************************)
EXTENDS Naturals, Sequences, SequencesExt, FiniteSets

CONSTANTS Request,
          Session,  \* the key under which a request is presented
          None

NoDialog == [active |-> None, state |-> "none", queue |-> <<>>, known |-> {}]

Keys(queue) == {Session[r] : r \in Range(queue)}

\* Every order in which the daemon may list requests.
Listings(requests) == SetToSeqs(requests)

\* What a list has at some of its places, in its order.
Kept(s, places) ==
  [k \in 1..Cardinality(places) |->
     s[CHOOSE i \in places : Cardinality({j \in places : j < i}) = k - 1]]

\* PendingDialogController::reconcile: what is not known yet, once.
Reconcile(dialog, listing) ==
  LET fresh == {i \in DOMAIN listing :
        /\ Session[listing[i]] \notin dialog.known
        /\ \A j \in 1..(i - 1) : Session[listing[j]] # Session[listing[i]]} IN
  [dialog EXCEPT !.queue = @ \o Kept(listing, fresh), !.known = @ \union Keys(listing)]

\* Mutant: keys stay known when their prompt leaves the queue.
ForgottenKept(dialog) == dialog

\* Only what is active or queued stays known.
Forgotten(dialog) ==
  [dialog EXCEPT !.known = {k \in @ : \/ dialog.active # None /\ k = Session[dialog.active]
                                      \/ k \in Keys(dialog.queue)}]

\* PendingDialogController::reconcile_snapshot
ReconcileSnapshot(dialog, listing) ==
  LET present == {i \in DOMAIN dialog.queue : Session[dialog.queue[i]] \in Keys(listing)} IN
  Reconcile(Forgotten([dialog EXCEPT !.queue = Kept(@, present)]), listing)

\* activate_next
ActivateNext(dialog) ==
  IF dialog.active # None \/ dialog.queue = <<>> THEN dialog
  ELSE [dialog EXCEPT !.active = Head(dialog.queue), !.state = "choice", !.queue = Tail(@)]

\* begin_authorization and retry
Begin(dialog) == [dialog EXCEPT !.state = "authorizing"]
Retry(dialog) == [dialog EXCEPT !.state = "choice"]

\* finish and release_terminal
Released(dialog) ==
  [dialog EXCEPT !.active = None, !.state = "none", !.known = @ \ {Session[dialog.active]}]

Empty(dialog) == dialog.active = None /\ dialog.queue = <<>>
=============================================================================
