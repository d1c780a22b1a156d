----------------------------- MODULE TradeDomain -----------------------------
(***************************************************************************)
(* The pure trade domain of Code/common/Trade: the negotiation of one       *)
(* session, the plan a locked session turns into, and the bookkeeping of    *)
(* what each participant reports.  Operators only; TradeServer keeps the    *)
(* state.                                                                   *)
(*                                                                          *)
(* An offer is a quantity per item, 0 when the item is not in it: sorting   *)
(* the lines and refusing duplicates make the code's list exactly that.     *)
(* Activity ticks and terminal error codes are only displayed and are left  *)
(* out.                                                                     *)
(***************************************************************************)
EXTENDS Integers

CONSTANTS Players,      \* player ids: an id is never given twice
          Items,        \* item ids
          MaxQuantity,  \* bound: the largest quantity offered of an item
          None,         \* no value
          Malformed     \* an offer the decoder or the domain refuses

ASSUME QuantityAssumption == MaxQuantity \in Nat

Offers == [Items -> 0..MaxQuantity]
NoOffer == [i \in Items |-> 0]

\* Malformed stands for any offer ValidateAndCanonicalizeOffer or the decoder
\* refuses: an item or a quantity of zero, a repeated item, too many lines.
ASSUME MalformedAssumption == Malformed \notin Offers

States == {"PendingAcceptance", "Negotiating", "Locked", "Applying",
           "Completed", "Cancelled", "Failed"}

\* confirmed[p] is the revision p confirmed, 0 when it confirmed none;
\* expiry counts down to the end of the invitation.
Session ==
  [initiator: Players, recipient: Players, state: States, revision: Nat,
   offers: [Players -> Offers], confirmed: [Players -> Nat], expiry: Nat]

NewSession(a, b, lifetime) ==
  [initiator |-> a, recipient |-> b, state |-> "PendingAcceptance", revision |-> 1,
   offers |-> [p \in Players |-> NoOffer], confirmed |-> [p \in Players |-> 0],
   expiry |-> lifetime]

Participants(ss) == {ss.initiator, ss.recipient}
IsParticipant(ss, p) == p \in Participants(ss)
Other(ss, p) == IF p = ss.initiator THEN ss.recipient ELSE ss.initiator
IsTerminal(ss) == ss.state \in {"Completed", "Cancelled", "Failed"}

-----------------------------------------------------------------------------
(***************************************************************************)
(* Session: a verdict says whether a command succeeds, and changes          *)
(* anything; the operator beside it is the session after it changes.        *)
(***************************************************************************)
AcceptVerdict(ss, p) ==
  CASE p # ss.recipient                                         -> "Rejected"
    [] p = ss.recipient /\ ss.state = "PendingAcceptance"       -> "Changed"
    [] p = ss.recipient /\ ss.state \in
         {"Negotiating", "Locked", "Applying", "Completed"}     -> "Unchanged"
    [] OTHER                                                    -> "Rejected"
Accepted(ss) == [ss EXCEPT !.state = "Negotiating"]

CanReject(ss, p) == p = ss.recipient /\ ss.state \in {"PendingAcceptance", "Cancelled"}

\* Mutant: offers still change once the session is being applied.
OfferVerdict_open(ss, p, revision, offer) ==
  IF IsTerminal(ss) \/ ~IsParticipant(ss, p) \/ offer = Malformed THEN "Rejected"
  ELSE IF ss.offers[p] = offer THEN "Unchanged"
  ELSE IF revision = ss.revision THEN "Changed" ELSE "Rejected"

\* The full offer replaces the previous one.  Repeating the offer in force is
\* accepted at any revision; changing it needs the current one and withdraws
\* both confirmations.
OfferVerdict(ss, p, revision, offer) ==
  CASE ss.state # "Negotiating" \/ ~IsParticipant(ss, p) \/ offer = Malformed -> "Rejected"
    [] OTHER -> IF ss.offers[p] = offer THEN "Unchanged"
                ELSE IF revision = ss.revision THEN "Changed" ELSE "Rejected"
\* Mutant: changing an offer keeps the revision.
Offered_samerevision(ss, p, offer) ==
  [ss EXCEPT !.offers[p] = offer, !.confirmed = [q \in Players |-> 0]]
Offered(ss, p, offer) ==
  [ss EXCEPT !.offers[p] = offer, !.revision = @ + 1,
             !.confirmed = [q \in Players |-> 0]]

ConfirmVerdict(ss, p, revision) ==
  CASE ~IsParticipant(ss, p) \/ revision # ss.revision -> "Rejected"
    [] OTHER ->
         IF ss.state = "Negotiating"
         THEN IF ss.confirmed[p] = revision THEN "Unchanged" ELSE "Changed"
         ELSE IF /\ ss.state \in {"Locked", "Applying", "Completed"}
                 /\ ss.confirmed[p] = ss.revision
              THEN "Unchanged" ELSE "Rejected"
BothConfirmed(ss) == \A p \in Participants(ss) : ss.confirmed[p] = ss.revision
Confirmed(ss, p) ==
  LET c == [ss EXCEPT !.confirmed[p] = ss.revision]
  IN  IF BothConfirmed(c) THEN [c EXCEPT !.state = "Locked"] ELSE c

CanCancel(ss, p) ==
  IsParticipant(ss, p) /\ ss.state \notin {"Completed", "Failed", "Applying"}

StartApplying(ss) == [ss EXCEPT !.state = "Applying"]

\* Neither moves a session that is already over.
Complete(ss) == IF ss.state = "Applying" THEN [ss EXCEPT !.state = "Completed"] ELSE ss
Fail(ss) == IF IsTerminal(ss) THEN ss ELSE [ss EXCEPT !.state = "Failed"]

-----------------------------------------------------------------------------
(***************************************************************************)
(* Inventories and plans.  An item is fixed while its entry is worn, a      *)
(* quest item, customised, or there are several entries of it.  An          *)
(* inventory has no entry of an item it counts 0 of; an entry may hold a    *)
(* negative count, which snapshots leave out.                               *)
(***************************************************************************)
Inventory == [count: [Items -> Int], fixed: SUBSET Items]
Delta == [Items -> Int]
Blocked(inv, i) == inv.count[i] > 0 /\ i \in inv.fixed
Quantity(inv, i) == IF inv.count[i] > 0 THEN inv.count[i] ELSE 0
IsMvpTransferable(inv, i) == inv.count[i] > 0 /\ i \notin inv.fixed

\* AddOrRemoveEntry: the count an inventory has of an item after a change.
AddOrRemoveEntry(count, delta) ==
  IF count # 0 /\ count + delta <= 0 THEN 0 ELSE count + delta

\* BuildMutationPlan: the owner has what it offers, and neither side's entry of
\* the item is fixed.
CanExchange(ss, inv) ==
  \A p \in Participants(ss), i \in Items :
    ss.offers[p][i] > 0 =>
      /\ inv[p].count[i] >= ss.offers[p][i]
      /\ ~Blocked(inv[p], i)
      /\ ~Blocked(inv[Other(ss, p)], i)

\* What the session does to each participant's counts: reciprocal offers of
\* the same item are netted.
MutationPlan(ss) ==
  [p \in Participants(ss) |->
     [i \in Items |-> ss.offers[Other(ss, p)][i] - ss.offers[p][i]]]

\* The items a player's plan has a mutation for.
Touched(delta) == {i \in Items : delta[i] # 0}

\* ApplyMutationsToInventory, on the server and on a client.
CanApply(inv, delta) ==
  \A i \in Touched(delta) : /\ inv.count[i] = 0 \/ IsMvpTransferable(inv, i)
                            /\ inv.count[i] + delta[i] >= 0
Apply(inv, delta, items) ==
  [inv EXCEPT !.count = [i \in Items |-> IF i \in items THEN AddOrRemoveEntry(@[i], delta[i])
                                            ELSE @[i]]]

\* BuildPlayerPlan: the absolute quantity of every item the plan touches.
CanTarget(inv, delta) == \A i \in Touched(delta) : ~Blocked(inv, i)
\* Mutant: the quantities after the plan, as if it had been committed.
Targets_after(inv, delta) == [i \in Touched(delta) |-> Quantity(inv, i) + delta[i]]
Targets(inv, delta) == [i \in Touched(delta) |-> Quantity(inv, i)]
Correct(inv, targets, items) ==
  [inv EXCEPT !.count = [i \in Items |-> IF i \in items THEN targets[i] ELSE @[i]]]

-----------------------------------------------------------------------------
(***************************************************************************)
(* Application and Reconciliation: what the two participants reported.      *)
(***************************************************************************)
Outcomes == {"Success", "SessionMismatch", "LocalPlayerUnavailable", "Refused",
             "LocalStateMismatch", "MalformedPlan", "ParticipantUnavailable"}

\* The first report of a participant stands; repeating it is accepted.
RecordVerdict(status, p, outcome) ==
  CASE p \notin DOMAIN status -> "Rejected"
    [] OTHER -> IF status[p] = "Pending" THEN "Changed"
                ELSE IF status[p] = outcome THEN "Unchanged" ELSE "Rejected"
Record(status, p, outcome) ==
  IF RecordVerdict(status, p, outcome) = "Changed"
  THEN [status EXCEPT ![p] = outcome] ELSE status

IsSettled(status) == \A p \in DOMAIN status : status[p] # "Pending"
\* Mutant: one success is enough.
AllSucceeded_one(status) == \E p \in DOMAIN status : status[p] = "Success"
AllSucceeded(status) == \A p \in DOMAIN status : status[p] = "Success"
HasFailed(status) == \E p \in DOMAIN status : status[p] \notin {"Pending", "Success"}
=============================================================================
