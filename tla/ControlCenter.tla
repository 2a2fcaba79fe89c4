--------------------------- MODULE ControlCenter ------------------------------
(***************************************************************************)
(* The Control Center's window (apps/guard-ui/src/main.rs and              *)
(* platform_service.rs): the editable draft of the policy, the Apply       *)
(* button, the protection switch, and the poll that shows what the service *)
(* does.  Buttons start work on other threads; the window goes on while it *)
(* is under way, and takes its outcome when it comes.  Everything else the *)
(* window knows it reads every two seconds.                                *)
(***************************************************************************)
EXTENDS Naturals, FiniteSets

CONSTANTS
  Key, Browser,     \* what can be protected
  NoDraft,          \* nothing has been read from the service yet
  Flight,           \* bound: how many pieces of work are under way at a time
  MaxClicks,        \* bound: what the user does
  MaxUpsets         \* bound: failures, and changes the window does not make

Thing == Key \union Browser

Draft == [things : SUBSET Thing, on : BOOLEAN]

ASSUME ControlCenterAssumption ==
  /\ Key \intersect Browser = {}
  /\ NoDraft \notin Draft
  /\ {MaxClicks, MaxUpsets} \subseteq Nat

VARIABLES
  platform,         \* "linux" or "macos"
  backend,          \* what the service protects, and whether it is on
  candidate,        \* the draft
  apply,            \* the Apply button is sensitive
  row,              \* the protection switch
  poll,             \* poll_in_flight, and what the poll has read
  flight,           \* applications and switches under way
  present,          \* what exists on the user's disk
  base,             \* history: the configuration last read into the draft, or saved
  mixups,           \* history: see Mixups
  clicks, upsets

centerVars == <<platform, backend, candidate, apply, row, poll, flight, present,
                base, mixups, clicks, upsets>>

\* The draft changed while work on an earlier one was under way; two pieces of
\* work overlapped; the service was changed by others; an empty policy was taken
\* for the one that could not be read.
Mixups == {"crossed", "overlap", "outside", "placeholder"}

Idle == [kind |-> "none", pc |-> "run", draft |-> NoDraft, on |-> FALSE, ok |-> FALSE]
NoPoll == [pc |-> "idle", config |-> NoDraft, daemon |-> FALSE, on |-> FALSE]

\* `policy_enabled` is part of the macOS configuration only.
Reported(things, on) == [things |-> things, on |-> platform = "macos" /\ on]

Empty == [things |-> {}, on |-> FALSE]

CenterInit ==
  /\ platform \in {"linux", "macos"}
  /\ backend \in [things : {Key}, on : BOOLEAN]
  /\ candidate = NoDraft
  /\ apply = FALSE
  /\ row = [on |-> FALSE, sensitive |-> TRUE]
  /\ poll = NoPoll
  /\ flight = [f \in Flight |-> Idle]
  /\ present = Thing
  /\ base = {}
  /\ mixups = {}
  /\ clicks = 0 /\ upsets = 0

Click == clicks < MaxClicks /\ clicks' = clicks + 1 /\ UNCHANGED upsets
Upset == upsets < MaxUpsets /\ upsets' = upsets + 1 /\ UNCHANGED clicks
budget == <<clicks, upsets>>

UnderWay == {f \in Flight : flight[f].kind # "none"}

Things(d) == IF d = NoDraft THEN {} ELSE d.things

Crossed(d) == IF UnderWay # {} /\ Things(d) # Things(candidate) THEN {"crossed"} ELSE {}

\* The draft becomes d.
Edit(d) ==
  /\ candidate' = d
  /\ mixups' = mixups \union Crossed(d)

-----------------------------------------------------------------------------
(***************************************************************************)
(* Editing.                                                                *)
(***************************************************************************)

\* A row's switch or its remove button, or the protection level.
Toggle(x, on) ==
  /\ Click
  /\ candidate # NoDraft
  /\ Edit([candidate EXCEPT !.things = IF on THEN @ \union {x} ELSE @ \ {x}])
  /\ apply' = TRUE
  /\ UNCHANGED <<platform, backend, row, poll, flight, present, base>>

\* Add key..., then refresh_ssh_sources: keys that are gone leave the draft.
AddKey(k) ==
  LET added == Things(candidate) \union {k}
      kept == added \ (Key \ present)
  IN /\ Click
     /\ candidate # NoDraft
     /\ Edit([candidate EXCEPT !.things = kept])
     /\ apply' = (apply \/ k \notin Things(candidate) \/ kept # added)
     /\ UNCHANGED <<platform, backend, row, poll, flight, present, base>>

\* Add custom browser...: the button wakes even if there is no draft.
AddBrowser(b) ==
  /\ Click
  /\ b \in present
  /\ IF candidate = NoDraft THEN UNCHANGED <<candidate, mixups>>
     ELSE Edit([candidate EXCEPT !.things = @ \union {b}])
  /\ apply' = TRUE
  /\ UNCHANGED <<platform, backend, row, poll, flight, present, base>>

\* The end of a search for browsers, which a click, a first reading and most
\* edits start: what is gone leaves the draft.
\* Mutant: the button does not learn of it.
RefreshSourcesQuietly ==
  /\ candidate # NoDraft /\ ~(candidate.things \subseteq present)
  /\ Edit([candidate EXCEPT !.things = @ \intersect present])
  /\ UNCHANGED <<apply, platform, backend, row, poll, flight, present, base, budget>>

RefreshSources ==
  /\ candidate # NoDraft /\ ~(candidate.things \subseteq present)
  /\ Edit([candidate EXCEPT !.things = @ \intersect present])
  /\ apply' = TRUE
  /\ UNCHANGED <<platform, backend, row, poll, flight, present, base, budget>>

\* With nothing under way, a discarded draft takes what was mixed up with it.
Discard ==
  /\ Click
  /\ candidate' = NoDraft
  /\ apply' = FALSE
  /\ mixups' = IF UnderWay = {} THEN {} ELSE mixups \union {"crossed"}
  /\ UNCHANGED <<platform, backend, row, poll, flight, present, base>>

-----------------------------------------------------------------------------
(***************************************************************************)
(* Applying the draft.                                                     *)
(***************************************************************************)
Launch(f, kind, on) ==
  /\ UnderWay # Flight /\ f = CHOOSE g \in Flight \ UnderWay : TRUE
  /\ flight' = [flight EXCEPT ![f] = [Idle EXCEPT !.kind = kind, !.draft = candidate, !.on = on]]
  /\ mixups' = mixups \union (IF UnderWay = {} THEN {} ELSE {"overlap"})

ApplyClick(f) ==
  /\ Click
  /\ apply /\ candidate # NoDraft
  /\ apply' = FALSE
  /\ Launch(f, "apply", candidate.on)
  /\ UNCHANGED <<platform, backend, candidate, row, poll, present, base>>

InFlight(f, kind, pc) == flight[f].kind = kind /\ flight[f].pc = pc

\* What a piece of work makes of the service: Linux keeps the switch out of the
\* configuration, and the configuration out of the switch.
Outcome(f) ==
  LET work == flight[f] IN
    CASE platform = "macos" -> [things |-> work.draft.things, on |-> work.on]
      [] platform = "linux" /\ work.kind = "apply"  -> [backend EXCEPT !.things = work.draft.things]
      [] platform = "linux" /\ work.kind = "switch" -> [backend EXCEPT !.on = work.on]

\* macOS saves the draft to turn protection on or off, so it needs one.
Able(f) == platform = "linux" \/ flight[f].draft # NoDraft

Run(f) ==
  /\ flight[f].kind # "none" /\ flight[f].pc = "run"
  /\ backend' = IF Able(f) THEN Outcome(f) ELSE backend
  /\ flight' = [flight EXCEPT ![f].pc = "return", ![f].ok = Able(f)]
  /\ UNCHANGED <<platform, candidate, apply, row, poll, present, base, mixups, budget>>

\* A failure may come late: the helper could not be unregistered, the reply did
\* not arrive, the old configuration could not be put back.
RunFails(f) ==
  /\ flight[f].kind # "none" /\ flight[f].pc = "run" /\ Able(f)
  /\ Upset
  /\ backend' \in {backend, Outcome(f)}
  /\ mixups' = IF backend' = backend THEN mixups ELSE mixups \union {"outside"}
  /\ flight' = [flight EXCEPT ![f].pc = "return", ![f].ok = FALSE]
  /\ UNCHANGED <<platform, candidate, apply, row, poll, present, base>>

\* spawn_apply: on success there is nothing to apply, whatever was edited since.
ApplyReturn(f) ==
  /\ InFlight(f, "apply", "return")
  /\ apply' = ~flight[f].ok
  /\ base' = IF flight[f].ok THEN flight[f].draft.things ELSE base
  /\ flight' = [flight EXCEPT ![f] = Idle]
  /\ UNCHANGED <<platform, backend, candidate, row, poll, present, mixups, budget>>

-----------------------------------------------------------------------------
(***************************************************************************)
(* The protection switch.                                                  *)
(***************************************************************************)
SwitchClick(f) ==
  /\ Click
  /\ row.sensitive
  /\ row' = [on |-> ~row.on, sensitive |-> FALSE]
  /\ Launch(f, "switch", ~row.on)
  /\ UNCHANGED <<platform, backend, candidate, apply, poll, present, base>>

\* spawn_protection_change: the draft becomes the copy taken at the click.
Updated(f) ==
  CASE platform = "macos" -> [flight[f].draft EXCEPT !.on = flight[f].on]
    [] platform = "linux" -> IF flight[f].draft = NoDraft THEN candidate ELSE flight[f].draft

\* Mutant: the draft keeps its `policy_enabled`.
SwitchReturnForgetful(f) ==
  /\ InFlight(f, "switch", "return")
  /\ row' = [on |-> IF flight[f].ok THEN flight[f].on ELSE ~flight[f].on, sensitive |-> TRUE]
  /\ flight' = [flight EXCEPT ![f] = Idle]
  /\ UNCHANGED <<platform, backend, candidate, mixups, base, apply, poll, present, budget>>

SwitchReturn(f) ==
  /\ InFlight(f, "switch", "return")
  /\ row' = [on |-> IF flight[f].ok THEN flight[f].on ELSE ~flight[f].on, sensitive |-> TRUE]
  /\ IF flight[f].ok THEN Edit(Updated(f)) ELSE UNCHANGED <<candidate, mixups>>
  /\ flight' = [flight EXCEPT ![f] = Idle]
  /\ base' = IF flight[f].ok /\ platform = "macos" THEN flight[f].draft.things ELSE base
  /\ UNCHANGED <<platform, backend, apply, poll, present, budget>>

-----------------------------------------------------------------------------
(***************************************************************************)
(* refresh_state.                                                          *)
(***************************************************************************)
\* A Linux daemon that is not running has no configuration to report.
Answering == platform = "macos" \/ backend.on

\* poll_in_flight is taken, and the configuration read.
PollRead ==
  /\ poll.pc = "idle"
  /\ poll' = [poll EXCEPT !.pc = "look", !.daemon = Answering,
                !.config = IF Answering THEN Reported(backend.things, backend.on) ELSE NoDraft]
  /\ UNCHANGED <<platform, backend, candidate, apply, row, flight, present, base, mixups, budget>>

\* The configuration is not read, the status perhaps.
PollReadFails ==
  /\ poll.pc = "idle"
  /\ Upset
  /\ \E daemon \in BOOLEAN :
       poll' = [poll EXCEPT !.pc = "look", !.config = NoDraft, !.daemon = Answering /\ daemon]
  /\ UNCHANGED <<platform, backend, candidate, apply, row, flight, present, base, mixups>>

\* platform_overview: systemd is asked on Linux, the configuration on macOS.
PollLook ==
  /\ poll.pc = "look"
  /\ poll' = [poll EXCEPT !.pc = "show",
                !.on = IF platform = "linux" THEN backend.on
                       ELSE poll.config # NoDraft /\ poll.config.on]
  /\ UNCHANGED <<platform, backend, candidate, apply, row, flight, present, base, mixups, budget>>

\* hydrate_configuration_from_daemon, or initial_configuration_if_missing.
Hydrate ==
  CASE candidate = NoDraft /\ poll.config # NoDraft ->
         /\ candidate' = poll.config
         /\ apply' = FALSE
         /\ base' = poll.config.things
         /\ mixups' = mixups \union Crossed(poll.config)
              \union (IF poll.config.on # Reported({}, backend.on).on THEN {"outside"} ELSE {})
    [] candidate = NoDraft /\ poll.config = NoDraft /\ poll.daemon /\ platform = "macos" ->
         /\ candidate' = Empty
         /\ base' = {}
         /\ mixups' = mixups \union {"placeholder"}
         /\ UNCHANGED apply
    [] OTHER -> UNCHANGED <<candidate, apply, base, mixups>>

\* The row is sensitive again, whatever is under way.
Show ==
  /\ Hydrate
  /\ row' = [on |-> poll.on, sensitive |-> platform = "linux" \/ Things(candidate') # {}]
  /\ UNCHANGED <<platform, backend, flight, present, budget>>

\* Mutant: the poll stays in flight when the service did not answer.
PollShowForGood ==
  /\ poll.pc = "show"
  /\ Show
  /\ poll' = IF poll.daemon THEN NoPoll ELSE poll

PollShow ==
  /\ poll.pc = "show"
  /\ Show
  /\ poll' = NoPoll

-----------------------------------------------------------------------------
(***************************************************************************)
(* What the window does not do itself.                                     *)
(***************************************************************************)
Vanish(x) ==
  /\ x \in present
  /\ Upset
  /\ present' = present \ {x}
  /\ UNCHANGED <<platform, backend, candidate, apply, row, poll, flight, base, mixups>>

\* guardctl, or another window.
ChangedElsewhere ==
  /\ Upset
  /\ \/ backend' = [backend EXCEPT !.on = ~@]
     \/ \E things \in {Key, Browser} \ {backend.things} :
          backend' = [backend EXCEPT !.things = things]
  /\ mixups' = mixups \union {"outside"}
  /\ UNCHANGED <<platform, candidate, apply, row, poll, flight, present, base>>

-----------------------------------------------------------------------------
Polling == PollRead \/ PollLook \/ PollShow

Proceed(f) == Run(f) \/ ApplyReturn(f) \/ SwitchReturn(f)

CenterNext ==
  \/ \E x \in Thing, on \in BOOLEAN : Toggle(x, on)
  \/ \E k \in Key : AddKey(k)
  \/ \E b \in Browser : AddBrowser(b)
  \/ RefreshSources
  \/ Discard
  \/ \E f \in Flight : ApplyClick(f) \/ SwitchClick(f) \/ Proceed(f) \/ RunFails(f)
  \/ Polling
  \/ PollReadFails
  \/ \E x \in Thing : Vanish(x)
  \/ ChangedElsewhere

-----------------------------------------------------------------------------
\* What is in the draft and not in the service can be applied.
UnsavedCanBeApplied ==
  /\ candidate # NoDraft /\ candidate.things # base
  /\ \A f \in UnderWay : flight[f].kind # "apply"
  => apply

\* Applying a policy does not turn protection on or off.
ApplyKeepsTheSwitch ==
  \A f \in Flight :
    InFlight(f, "apply", "run") /\ flight'[f].pc = "return" => backend'.on = backend.on

\* What the Apply button shows and does, as long as the draft is not changed
\* while earlier work is under way, nobody else changes the service, and the
\* first reading did not fail.
ApplyMeansWhatItShows ==
  /\ mixups' \intersect {"crossed"} = {} => UnsavedCanBeApplied'
  /\ mixups' = {} => ApplyKeepsTheSwitch

\* The switch shows what is, and there is a draft to edit if the service
\* answers, however work and polls overlapped before.
CaughtUp == row.on = backend.on /\ (Answering => candidate # NoDraft)
=============================================================================
