-------------------------- MODULE TradeSystemProofs --------------------------
(***************************************************************************)
(* The trade, for any players, items, offers, durations and number of       *)
(* sessions, whatever is repeated, dropped or restarted.                    *)
(*                                                                          *)
(* The invariant is about one session at a time: the session, its           *)
(* application, its reconciliation, and the players indexed to it.          *)
(***************************************************************************)
EXTENDS TradeSystem, FiniteSetTheorems, WellFoundedInduction, TLAPS

-----------------------------------------------------------------------------
(* Sequences.                                                               *)

\* A set of numbers that is not empty has a least one.
LEMMA Least ==
  ASSUME NEW T \in SUBSET Nat, T # {}
  PROVE  \E x \in T : \A y \in T : x <= y
  <1> DEFINE R == OpToRel(<, Nat)
  <1>1. IsWellFoundedOn(R, Nat)
    BY NatLessThanWellFounded
  <1>2. R = {ss \in Nat \X Nat : ss[1] < ss[2]}
    BY DEF OpToRel
  <1> HIDE DEF R
  <1>3. PICK x \in T : \A y \in T : ~(<<y, x>> \in R)
    BY <1>1, WFMin
  <1>4. \A y \in T : ~(y < x)
    BY <1>2, <1>3
  <1> QED  BY <1>3, <1>4

\* Induction, for a set of numbers.
LEMMA AllNumbers ==
  ASSUME NEW T, 0 \in T, \A n \in Nat : n \in T => n + 1 \in T
  PROVE  Nat \subseteq T
  <1> DEFINE B == {n \in Nat : n \notin T}
  <1> SUFFICES ASSUME B # {} PROVE FALSE
    OBVIOUS
  <1>1. PICK x \in B : \A y \in B : x <= y
    BY Least
  <1>2. x \in Nat /\ x # 0 /\ x - 1 \in Nat /\ x - 1 < x
    OBVIOUS
  <1>3. (x - 1) + 1 \in T
    BY <1>1, <1>2
  <1> QED  BY <1>2, <1>3

\* A longer list of messages is one of a larger set.
LEMMA SeqGrows ==
  ASSUME NEW S, NEW T, S \subseteq T, NEW u \in Seq(S)
  PROVE  u \in Seq(T)
  OBVIOUS

LEMMA SeqItems ==
  ASSUME NEW S, NEW u \in Seq(S)
  PROVE  /\ u # <<>> => Head(u) \in S /\ Tail(u) \in Seq(S)
         /\ \A n \in 1..Len(u) : u[n] \in S
         /\ \A x \in S : Append(u, x) \in Seq(S) /\ <<x>> \in Seq(S)
         /\ \A v \in Seq(S) : u \o v \in Seq(S)
         /\ <<>> \in Seq(S)
  OBVIOUS

\* The partial concatenations of FlattenSeq.
Flattens(seqs, f) ==
  f = [i \in 1..Len(seqs) |-> IF i = 1 THEN seqs[i] ELSE f[i - 1] \o seqs[i]]

LEMMA FlattensExists ==
  ASSUME NEW S, NEW seqs \in Seq(Seq(S))
  PROVE  \E f : Flattens(seqs, f)
  <1> DEFINE Upto(n, f) == f = [i \in 1..n |-> IF i = 1 THEN seqs[i] ELSE f[i - 1] \o seqs[i]]
             T == {n \in Nat : \E f : Upto(n, f)}
  <1>1. 0 \in T
    <2> DEFINE f == [i \in 1..0 |-> 0]
    <2>1. Upto(0, f)
      OBVIOUS
    <2> QED  BY <2>1
  <1>2. ASSUME NEW n \in Nat, n \in T PROVE n + 1 \in T
    <2>1. PICK f : Upto(n, f)
      BY <1>2
    <2> DEFINE g == [i \in 1..(n + 1) |-> IF i \in 1..n THEN f[i]
                                          ELSE IF i = 1 THEN seqs[i] ELSE f[i - 1] \o seqs[i]]
    <2>2. ASSUME NEW i \in 1..(n + 1)
          PROVE  g[i] = IF i = 1 THEN seqs[i] ELSE g[i - 1] \o seqs[i]
      <3>1. i # 1 => i - 1 \in 1..n /\ g[i - 1] = f[i - 1]
        OBVIOUS
      <3>2. i \in 1..n => g[i] = f[i] /\ f[i] = IF i = 1 THEN seqs[i] ELSE f[i - 1] \o seqs[i]
        BY <2>1
      <3>3. i \notin 1..n => g[i] = IF i = 1 THEN seqs[i] ELSE f[i - 1] \o seqs[i]
        OBVIOUS
      <3> QED  BY <3>1, <3>2, <3>3
    <2>3. Upto(n + 1, g)
      BY <2>2
    <2>4. \E h : Upto(n + 1, h)
      BY <2>3
    <2> HIDE DEF Upto
    <2> QED  BY <2>4
  <1> HIDE DEF T
  <1>3. Nat \subseteq T
    BY <1>1, <1>2, AllNumbers
  <1>4. Len(seqs) \in Nat
    OBVIOUS
  <1>5. Len(seqs) \in T
    BY <1>3, <1>4
  <1> QED  BY <1>5 DEF T, Flattens

LEMMA FlattensAt ==
  ASSUME NEW seqs, NEW f, Flattens(seqs, f), NEW i \in 1..Len(seqs)
  PROVE  f[i] = IF i = 1 THEN seqs[i] ELSE f[i - 1] \o seqs[i]
  <1> DEFINE g == [j \in 1..Len(seqs) |-> IF j = 1 THEN seqs[j] ELSE f[j - 1] \o seqs[j]]
  <1>1. f = g
    BY DEF Flattens
  <1>2. g[i] = IF i = 1 THEN seqs[i] ELSE f[i - 1] \o seqs[i]
    OBVIOUS
  <1> HIDE DEF g
  <1> QED  BY <1>1, <1>2

\* What the sweep sends to a player is made of the messages of its parts.
LEMMA FlattenedItems ==
  ASSUME NEW S, NEW seqs \in Seq(Seq(S))
  PROVE  FlattenSeq(seqs) \in Seq(S)
  <1> DEFINE f == CHOOSE g : Flattens(seqs, g)
  <1>1. Flattens(seqs, f)
    BY FlattensExists
  <1> HIDE DEF f
  <1> DEFINE T == {n \in Nat : n \in 1..Len(seqs) => f[n] \in Seq(S)}
  <1>2. 0 \in T
    OBVIOUS
  <1>3. ASSUME NEW n \in Nat, n \in T PROVE n + 1 \in T
    <2> SUFFICES ASSUME n + 1 \in 1..Len(seqs) PROVE f[n + 1] \in Seq(S)
      OBVIOUS
    <2>1. f[n + 1] = IF n + 1 = 1 THEN seqs[n + 1] ELSE f[n + 1 - 1] \o seqs[n + 1]
      BY <1>1, FlattensAt
    <2>2. seqs[n + 1] \in Seq(S)
      OBVIOUS
    <2>3. n + 1 # 1 => f[n] \in Seq(S) /\ n + 1 - 1 = n
      BY <1>3
    <2> QED  BY <2>1, <2>2, <2>3, SeqItems
  <1> HIDE DEF T
  <1>4. Nat \subseteq T
    BY <1>2, <1>3, AllNumbers
  <1>5. Len(seqs) # 0 => FlattenSeq(seqs) = f[Len(seqs)]
    BY DEF FlattenSeq, f, Flattens
  <1>6. Len(seqs) = 0 => FlattenSeq(seqs) = <<>>
    BY DEF FlattenSeq
  <1>7. Len(seqs) # 0 => Len(seqs) \in Nat /\ Len(seqs) \in 1..Len(seqs)
    OBVIOUS
  <1> QED  BY <1>4, <1>5, <1>6, <1>7, SeqItems DEF T

\* A message delivered twice is one of those that were there.
LEMMA InsertedItems ==
  ASSUME NEW S, NEW u \in Seq(S), u # <<>>, NEW k \in 2..(Len(u) + 1)
  PROVE  InsertAt(u, k, Head(u)) \in Seq(S)
  <1>1. SubSeq(u, 1, k - 1) \in Seq(S) /\ SubSeq(u, k, Len(u)) \in Seq(S)
    OBVIOUS
  <1>2. <<Head(u)>> \in Seq(S)
    OBVIOUS
  <1> QED  BY <1>1, <1>2, SeqItems DEF InsertAt

-----------------------------------------------------------------------------
(* The domain: what a command leaves of a session.                          *)

\* The participants, the offers and the revision are the same.
SameTerms(ss, tt) ==
  /\ tt \in Session
  /\ tt.initiator = ss.initiator /\ tt.recipient = ss.recipient
  /\ tt.offers = ss.offers /\ tt.revision = ss.revision

LEMMA SessionCommands ==
  ASSUME NEW ss \in Session
  PROVE  /\ SameTerms(ss, Accepted(ss)) /\ Accepted(ss).state = "Negotiating"
         /\ SameTerms(ss, StartApplying(ss)) /\ StartApplying(ss).state = "Applying"
              /\ StartApplying(ss).confirmed = ss.confirmed
         /\ SameTerms(ss, Fail(ss)) /\ Fail(ss).confirmed = ss.confirmed /\ IsTerminal(Fail(ss))
              /\ Fail(ss).state \in {ss.state, "Failed"}
         /\ SameTerms(ss, Complete(ss)) /\ Complete(ss).confirmed = ss.confirmed
              /\ Complete(ss).state = IF ss.state = "Applying" THEN "Completed" ELSE ss.state
  BY DEF Session, States, SameTerms, Accepted, StartApplying, Fail, Complete, IsTerminal

LEMMA OfferCommand ==
  ASSUME NEW ss \in Session, NEW p \in Players, NEW offer \in Offers
  PROVE  LET tt == Offered(ss, p, offer)
         IN  /\ tt \in Session /\ tt.initiator = ss.initiator /\ tt.recipient = ss.recipient
             /\ tt.revision = ss.revision + 1 /\ tt.state = ss.state
  <1> DEFINE offers == [ss.offers EXCEPT ![p] = offer]
             confirmed == [q \in Players |-> 0]
             tt == Offered(ss, p, offer)
  <1>1. offers \in [Players -> Offers] /\ confirmed \in [Players -> Nat]
    BY DEF Session
  <1>2. tt = [ss EXCEPT !.offers = offers, !.revision = ss.revision + 1, !.confirmed = confirmed]
    BY DEF Session, Offered
  <1> DEFINE next == ss.revision + 1
  <1>3. next \in Nat
    BY DEF Session
  <1> HIDE DEF offers, confirmed, tt, next
  <1>4. tt = [ss EXCEPT !.offers = offers, !.revision = next, !.confirmed = confirmed]
    BY <1>2 DEF next
  <1>5. tt = [initiator |-> ss.initiator, recipient |-> ss.recipient, state |-> ss.state,
              revision |-> next, offers |-> offers, confirmed |-> confirmed, expiry |-> ss.expiry]
    BY <1>4 DEF Session
  <1>6. tt \in Session
    BY <1>1, <1>3, <1>5 DEF Session
  <1>7. tt.initiator = ss.initiator /\ tt.recipient = ss.recipient /\ tt.revision = next
          /\ tt.state = ss.state
    BY <1>5
  <1> QED  BY <1>6, <1>7 DEF tt, next

LEMMA ConfirmCommand ==
  ASSUME NEW ss \in Session, NEW p \in Players
  PROVE  LET tt == Confirmed(ss, p)
         IN  /\ SameTerms(ss, tt)
             /\ tt.state \in {ss.state, "Locked"}
             /\ tt.state = "Locked" /\ ss.state # "Locked" => BothConfirmed(tt)
  <1> DEFINE c == [ss EXCEPT !.confirmed[p] = ss.revision]
             d == [c EXCEPT !.state = "Locked"]
  <1>1. c \in Session /\ SameTerms(ss, c) /\ c.state = ss.state
    BY DEF Session, SameTerms
  <1> HIDE DEF c
  <1>2. SameTerms(ss, d) /\ d.state = "Locked" /\ d.confirmed = c.confirmed
    BY <1>1 DEF Session, SameTerms, States
  <1>3. BothConfirmed(c) => BothConfirmed(d)
    BY <1>1, <1>2 DEF BothConfirmed, Participants, SameTerms
  <1>4. Confirmed(ss, p) = IF BothConfirmed(c) THEN d ELSE c
    BY DEF Confirmed, c
  <1> QED  BY <1>1, <1>2, <1>3, <1>4

\* An application keeps fitting a session whose terms stay.
LEMMA TermsDecide ==
  ASSUME NEW ss \in Session, NEW tt, SameTerms(ss, tt)
  PROVE  /\ Participants(tt) = Participants(ss)
         /\ MutationPlan(tt) = MutationPlan(ss)
         /\ tt.confirmed = ss.confirmed => (BothConfirmed(tt) <=> BothConfirmed(ss))
  BY DEF SameTerms, Participants, MutationPlan, BothConfirmed, Other

\* Functions on some of the players.
LEMMA ForSomeIs ==
  ASSUME NEW S, NEW who \in SUBSET Players, NEW f \in [who -> S]
  PROVE  f \in ForSome(S)
  BY DEF ForSome
LEMMA ForSomeHas ==
  ASSUME NEW S, NEW f \in ForSome(S)
  PROVE  DOMAIN f \subseteq Players /\ f \in [DOMAIN f -> S] /\ \A p \in DOMAIN f : f[p] \in S
  BY DEF ForSome
LEMMA QuantitiesIs ==
  ASSUME NEW T \in SUBSET Items, NEW f \in [T -> Nat]
  PROVE  f \in Quantities
  BY DEF Quantities
LEMMA QuantitiesHas ==
  ASSUME NEW f \in Quantities
  PROVE  DOMAIN f \subseteq Items /\ \A i \in DOMAIN f : f[i] \in Nat
  BY DEF Quantities

LEMMA PlanTyped ==
  ASSUME NEW ss \in Session
  PROVE  /\ Participants(ss) \subseteq Players
         /\ MutationPlan(ss) \in [Participants(ss) -> Delta]
         /\ MutationPlan(ss) \in ForSome(Delta)
         /\ DOMAIN MutationPlan(ss) = Participants(ss)
  <1>1. Participants(ss) \subseteq Players
    BY DEF Session, Participants
  <1>2. ASSUME NEW p \in Participants(ss)
        PROVE  [i \in Items |-> ss.offers[Other(ss, p)][i] - ss.offers[p][i]] \in Delta
    <2>1. ss.offers[Other(ss, p)] \in Offers /\ ss.offers[p] \in Offers
      BY <1>1 DEF Session, Participants, Other
    <2> QED  BY <2>1, QuantityAssumption DEF Offers, Delta
  <1>3. MutationPlan(ss) \in [Participants(ss) -> Delta]
    BY <1>2 DEF MutationPlan
  <1> QED  BY <1>1, <1>3, ForSomeIs

\* Inventories.
LEMMA AppliedTyped ==
  ASSUME NEW inv \in Inventory, NEW delta \in Delta, NEW items
  PROVE  Apply(inv, delta, items) \in Inventory
  BY DEF Apply, Inventory, Delta, AddOrRemoveEntry
LEMMA TargetsTyped ==
  ASSUME NEW inv \in Inventory, NEW delta \in Delta
  PROVE  Targets(inv, delta) \in Quantities
  <1>1. Touched(delta) \in SUBSET Items
    BY DEF Touched
  <1>2. Targets(inv, delta) \in [Touched(delta) -> Nat]
    BY <1>1 DEF Targets, Quantity, Inventory
  <1> QED  BY <1>1, <1>2, QuantitiesIs
LEMMA CorrectedTyped ==
  ASSUME NEW inv \in Inventory, NEW targets \in Quantities, NEW items, items \subseteq DOMAIN targets
  PROVE  Correct(inv, targets, items) \in Inventory
  <1>1. \A i \in items : targets[i] \in Nat
    BY QuantitiesHas
  <1> QED  BY <1>1 DEF Correct, Inventory

-----------------------------------------------------------------------------
(* The invariant of the server.                                             *)

\* What the server sends.
Mail ==
  [type: {"Invite", "Started", "Cancelled"}, session: SessionIds]
  \cup [type: {"State"}, session: SessionIds, revision: Nat, state: States,
        offers: [Players -> Offers]]
  \cup [type: {"Apply"}, session: SessionIds, revision: Nat, apply: Nat, delta: Delta]
  \cup [type: {"Reconcile"}, session: SessionIds, revision: Nat, apply: Nat,
        reconcile: Nat, targets: Quantities]

\* The application of a session: the exchange both confirmed.
Agreed(ss, app) ==
  /\ ss.state \in {"Applying", "Completed", "Failed"}
  /\ BothConfirmed(ss)
  /\ app.revision = ss.revision
  /\ app.plan = MutationPlan(ss)
  /\ app.status \in [Participants(ss) -> Statuses]

\* What the registry keeps under a session id.
Indexed(s, ss, rec, idx) ==
  /\ \A p \in Players : idx[p] = s =>
       /\ IsParticipant(ss, p)
       /\ IsTerminal(ss) => rec # None /\ ~IsSettled(rec.status)
  /\ IsTerminal(ss) \/ \A p \in Participants(ss) : idx[p] = s
Kept(ss, app, rec) ==
  /\ ss.initiator # ss.recipient
  /\ app = None => ss.state \in {"PendingAcceptance", "Negotiating"} /\ rec = None
  /\ app # None => Agreed(ss, app)
  /\ rec # None => IsTerminal(ss) /\ rec.status \in [Participants(ss) -> Statuses]
Entry(s, ss, app, rec, idx) ==
  /\ ss = None => app = None /\ rec = None /\ \A p \in Players : idx[p] # s
  /\ ss # None => Kept(ss, app, rec) /\ Indexed(s, ss, rec, idx)

Shapes ==
  /\ online \subseteq Players
  /\ inventory \in [Players -> Inventory]
  /\ sessions \in [SessionIds -> Session \cup {None}]
  /\ playerSession \in [Players -> 0..MaxSessions]
  /\ applications \in [SessionIds -> Application \cup {None}]
  /\ baselines \in [SessionIds -> ForSome(Quantities) \cup {None}]
  /\ reconciliations \in [SessionIds -> Reconciliation \cup {None}]
  /\ cleanup \in [SessionIds -> (0..TerminalRetention) \cup {None}]
  /\ nextSessionId \in Nat \ {0} /\ nextApplyId \in Nat \ {0} /\ nextReconcileId \in Nat \ {0}
Book ==
  \A s \in SessionIds :
    Entry(s, sessions[s], applications[s], reconciliations[s], playerSession)

\* Identities are given out once.
Number(s, ss, app, rec, n, a, r) ==
  /\ s >= n => ss = None
  /\ app # None => app.id \in 1..(a - 1)
  /\ rec # None => rec.id \in 1..(r - 1)
Numbered ==
  \A s \in SessionIds : Number(s, sessions[s], applications[s], reconciliations[s],
                               nextSessionId, nextApplyId, nextReconcileId)

\* A snapshot m is of a session that was given out, and shows its offers if it
\* is of its current revision.
Tells(m, ss) ==
  ss # None => /\ m.revision <= ss.revision
               /\ m.revision = ss.revision => m.offers = ss.offers
Current(S, n) ==
  {m \in Mail : m.type = "State" => m.session < n /\ Tells(m, S[m.session])}
Delivered == toClient \in [Players -> Seq(Current(sessions, nextSessionId))]

ServerInv == Shapes /\ Book /\ Numbered /\ Delivered

-----------------------------------------------------------------------------
(* Steps that touch one session.                                            *)

\* The other sessions are as they were, with the same players indexed to them.
Touches(s) ==
  \A t \in SessionIds \ {s} :
    /\ sessions'[t] = sessions[t] /\ applications'[t] = applications[t]
    /\ reconciliations'[t] = reconciliations[t]
    /\ \A p \in Players : playerSession'[p] = t <=> playerSession[p] = t

\* A session changes its revision with its offers, and does not come back.
Ages(ss, tt) ==
  tt # None => /\ ss # None
               /\ \/ tt.revision > ss.revision
                  \/ tt.revision = ss.revision /\ tt.offers = ss.offers
AllAge == \A s \in SessionIds : s < nextSessionId => Ages(sessions[s], sessions'[s])

Counts ==
  /\ nextSessionId <= nextSessionId' /\ nextApplyId <= nextApplyId'
  /\ nextReconcileId <= nextReconcileId'

\* What every step of the server comes to.
Advances == ServerInv' /\ AllAge /\ nextSessionId <= nextSessionId'

SessionStep(s) ==
  /\ Shapes' /\ Touches(s) /\ Counts
  /\ Entry(s, sessions'[s], applications'[s], reconciliations'[s], playerSession')
  /\ Number(s, sessions'[s], applications'[s], reconciliations'[s],
            nextSessionId', nextApplyId', nextReconcileId')
  /\ s < nextSessionId => Ages(sessions[s], sessions'[s])

\* An entry does not depend on who is indexed to other sessions.
LEMMA EntryStays ==
  ASSUME NEW t, NEW ss, NEW app, NEW rec, NEW idx, NEW jdx, Entry(t, ss, app, rec, idx),
         \A p \in Players : jdx[p] = t <=> idx[p] = t, ss # None => Participants(ss) \subseteq Players
  PROVE  Entry(t, ss, app, rec, jdx)
  BY DEF Entry, Indexed

\* Such a step keeps the registry.
LEMMA StepKeepsBook ==
  ASSUME ServerInv, NEW s \in SessionIds, SessionStep(s)
  PROVE  Book' /\ Numbered' /\ AllAge
  <1>1. ASSUME NEW t \in SessionIds
        PROVE  Entry(t, sessions'[t], applications'[t], reconciliations'[t], playerSession')
    <2>1. CASE t = s
      BY <2>1 DEF SessionStep
    <2>2. CASE t # s
      <3>1. Entry(t, sessions[t], applications[t], reconciliations[t], playerSession)
        BY DEF ServerInv, Book
      <3>2. sessions'[t] = sessions[t] /\ applications'[t] = applications[t]
              /\ reconciliations'[t] = reconciliations[t]
        BY <2>2 DEF SessionStep, Touches
      <3>3. \A p \in Players : playerSession'[p] = t <=> playerSession[p] = t
        BY <2>2 DEF SessionStep, Touches
      <3>4. sessions[t] # None => Participants(sessions[t]) \subseteq Players
        BY PlanTyped DEF ServerInv, Shapes
      <3>5. Entry(t, sessions[t], applications[t], reconciliations[t], playerSession')
        BY <3>1, <3>3, <3>4, EntryStays
      <3> QED  BY <3>2, <3>5
    <2> QED  BY <2>1, <2>2
  <1>2. ASSUME NEW t \in SessionIds
        PROVE  Number(t, sessions'[t], applications'[t], reconciliations'[t],
                      nextSessionId', nextApplyId', nextReconcileId')
    <2>1. CASE t = s
      BY <2>1 DEF SessionStep
    <2>2. CASE t # s
      <3>1. Number(t, sessions[t], applications[t], reconciliations[t],
                   nextSessionId, nextApplyId, nextReconcileId)
        BY DEF ServerInv, Numbered
      <3>2. sessions'[t] = sessions[t] /\ applications'[t] = applications[t]
              /\ reconciliations'[t] = reconciliations[t]
        BY <2>2 DEF SessionStep, Touches
      <3>3. Counts /\ Shapes' /\ Shapes
        BY DEF SessionStep, ServerInv
      <3>4. t \in Nat
        BY SessionsAssumption DEF SessionIds
      <3> QED  BY <3>1, <3>2, <3>3, <3>4 DEF Number, Counts, Shapes
    <2> QED  BY <2>1, <2>2
  <1>3. ASSUME NEW t \in SessionIds, t < nextSessionId
        PROVE  Ages(sessions[t], sessions'[t])
    <2>1. CASE t = s
      BY <1>3, <2>1 DEF SessionStep
    <2>2. CASE t # s
      BY <2>2 DEF SessionStep, Touches, Ages
    <2> QED  BY <2>1, <2>2
  <1> QED  BY <1>1, <1>2, <1>3 DEF Book, Numbered, AllAge

-----------------------------------------------------------------------------
(* Messages.                                                                *)

\* The fields of a snapshot.
LEMMA StateFields ==
  ASSUME NEW m \in Mail, m.type = "State"
  PROVE  m.session \in SessionIds /\ m.revision \in Nat /\ m.state \in States
           /\ m.offers \in [Players -> Offers]
  BY DEF Mail

\* Older snapshots stay true.
LEMMA StillCurrent ==
  ASSUME NEW S \in [SessionIds -> Session \cup {None}],
         NEW T \in [SessionIds -> Session \cup {None}],
         NEW n \in Nat, NEW k \in Nat, n <= k,
         \A s \in SessionIds : s < n => Ages(S[s], T[s])
  PROVE  Current(S, n) \subseteq Current(T, k)
  <1> SUFFICES ASSUME NEW m \in Current(S, n) PROVE m \in Current(T, k)
    OBVIOUS
  <1>1. m \in Mail
    BY DEF Current
  <1> SUFFICES ASSUME m.type = "State" PROVE m.session < k /\ Tells(m, T[m.session])
    BY <1>1 DEF Current
  <1>2. m.session \in SessionIds /\ m.revision \in Nat
    BY <1>1, StateFields
  <1>3. m.session < n /\ Tells(m, S[m.session])
    BY DEF Current
  <1>4. m.session \in Nat
    BY <1>2, SessionsAssumption DEF SessionIds
  <1>5. Ages(S[m.session], T[m.session])
    BY <1>2, <1>3
  <1>6. S[m.session] # None => S[m.session] \in Session /\ S[m.session].revision \in Nat
    BY <1>2 DEF Session
  <1>7. T[m.session] # None => T[m.session] \in Session /\ T[m.session].revision \in Nat
    BY <1>2 DEF Session
  <1>8. Tells(m, T[m.session])
    BY <1>2, <1>3, <1>5, <1>6, <1>7 DEF Ages, Tells
  <1> QED  BY <1>3, <1>4, <1>8

\* A mail is fit to be sent.
Fit(mail) == \A q \in Players : mail[q] \in Seq(Current(sessions', nextSessionId'))

LEMMA Delivers ==
  ASSUME Shapes, Delivered, Shapes', nextSessionId <= nextSessionId', AllAge,
         NEW gone, NEW mail, Fit(mail), PostBut(gone, mail)
  PROVE  Delivered'
  <1> DEFINE C == Current(sessions, nextSessionId)
             D == Current(sessions', nextSessionId')
  <1>1. C \subseteq D
    BY StillCurrent DEF Shapes, AllAge
  <1>2. ASSUME NEW q \in Players PROVE toClient[q] \in Seq(D) /\ mail[q] \in Seq(D)
    BY <1>1, SeqGrows DEF Delivered, Fit
  <1> HIDE DEF C, D
  <1>3. ASSUME NEW q \in Players
        PROVE  (IF q = gone THEN <<>>
                ELSE IF q \in online THEN toClient[q] \o mail[q] ELSE toClient[q]) \in Seq(D)
    BY <1>2, SeqItems
  <1>4. toClient' \in [Players -> Seq(D)]
    BY <1>3 DEF PostBut
  <1> QED  BY <1>4 DEF Delivered, D

LEMMA StillDelivered ==
  ASSUME Shapes, Delivered, Shapes', nextSessionId <= nextSessionId', AllAge, UNCHANGED toClient
  PROVE  Delivered'
  <1> DEFINE C == Current(sessions, nextSessionId)
             D == Current(sessions', nextSessionId')
  <1>1. C \subseteq D
    BY StillCurrent DEF Shapes, AllAge
  <1>2. ASSUME NEW q \in Players PROVE toClient[q] \in Seq(D)
    BY <1>1, SeqGrows DEF Delivered
  <1> HIDE DEF C, D
  <1>3. toClient' \in [Players -> Seq(D)]
    BY <1>2 DEF Delivered
  <1> QED  BY <1>3 DEF Delivered, D

LEMMA NoticeIsCurrent ==
  ASSUME NEW S, NEW n, NEW m \in Mail, m.type # "State"
  PROVE  m \in Current(S, n)
  BY DEF Current

\* A snapshot taken by the step, of the session it leaves or removes.
LEMMA SnapshotIsCurrent ==
  ASSUME NEW S, NEW n, NEW s \in SessionIds, s < n, NEW ss \in Session,
         S[s] # None => S[s].revision = ss.revision /\ S[s].offers = ss.offers
  PROVE  Snapshot(s, ss) \in Current(S, n)
  <1> DEFINE m == Snapshot(s, ss)
  <1>1. m \in Mail /\ m.session = s /\ m.revision = ss.revision /\ m.offers = ss.offers
    BY DEF Snapshot, Mail, Session
  <1>2. ss.revision \in Nat
    BY DEF Session
  <1> HIDE DEF m
  <1>3. Tells(m, S[m.session])
    BY <1>1, <1>2 DEF Tells
  <1>4. m \in Current(S, n)
    BY <1>1, <1>3 DEF Current
  <1> QED  BY <1>4 DEF m

LEMMA FitMail ==
  /\ Fit(NoMail)
  /\ \A who : \A m \in Current(sessions', nextSessionId') : Fit(To(who, m))
  /\ \A a, b : Fit(a) /\ Fit(b) => Fit(Then(a, b))
  <1> DEFINE D == Current(sessions', nextSessionId')
  <1>1. Fit(NoMail)
    BY SeqItems DEF Fit, NoMail
  <1>2. ASSUME NEW who, NEW m \in D PROVE Fit(To(who, m))
    <2> HIDE DEF D
    <2>1. ASSUME NEW q \in Players PROVE To(who, m)[q] \in Seq(D)
      BY SeqItems DEF To
    <2> QED  BY <2>1 DEF Fit, D
  <1>3. ASSUME NEW a, NEW b, Fit(a), Fit(b) PROVE Fit(Then(a, b))
    <2>1. ASSUME NEW q \in Players PROVE a[q] \in Seq(D) /\ b[q] \in Seq(D)
      BY <1>3 DEF Fit
    <2> HIDE DEF D
    <2>2. ASSUME NEW q \in Players PROVE Then(a, b)[q] \in Seq(D)
      BY <2>1, SeqItems DEF Then
    <2> QED  BY <2>2 DEF Fit, D
  <1> QED  BY <1>1, <1>2, <1>3

LEMMA FitSnapshot ==
  ASSUME NEW s \in SessionIds, s < nextSessionId', NEW ss \in Session,
         sessions'[s] # None => sessions'[s].revision = ss.revision /\ sessions'[s].offers = ss.offers
  PROVE  Fit(SendState(s, ss)) /\ \A who : Fit(To(who, Snapshot(s, ss)))
  BY SnapshotIsCurrent, FitMail DEF SendState

LEMMA FitNotice ==
  ASSUME NEW s \in SessionIds, NEW who
  PROVE  Fit(To(who, Invite(s))) /\ Fit(To(who, Started(s))) /\ Fit(To(who, Cancelled(s)))
  <1>1. Invite(s) \in Mail /\ Invite(s).type # "State"
    BY DEF Invite, Mail
  <1>2. Started(s) \in Mail /\ Started(s).type # "State"
    BY DEF Started, Mail
  <1>3. Cancelled(s) \in Mail /\ Cancelled(s).type # "State"
    BY DEF Cancelled, Mail
  <1>4. ASSUME NEW m \in Mail, m.type # "State" PROVE Fit(To(who, m))
    BY <1>4, NoticeIsCurrent, FitMail
  <1> QED  BY <1>1, <1>2, <1>3, <1>4

LEMMA FitApply ==
  ASSUME NEW s \in SessionIds, NEW app \in Application
  PROVE  Fit(SendApply(s, app))
  <1> DEFINE D == Current(sessions', nextSessionId')
  <1>1. ASSUME NEW q \in DOMAIN app.plan
        PROVE  [type |-> "Apply", session |-> s, revision |-> app.revision,
                apply |-> app.id, delta |-> app.plan[q]] \in D
    <2>1. app.plan[q] \in Delta /\ app.revision \in Nat /\ app.id \in Nat
      BY ForSomeHas DEF Application
    <2>2. [type |-> "Apply", session |-> s, revision |-> app.revision,
           apply |-> app.id, delta |-> app.plan[q]] \in Mail
      BY <2>1 DEF Mail
    <2> QED  BY <2>2, NoticeIsCurrent
  <1> HIDE DEF D
  <1>2. ASSUME NEW q \in Players PROVE SendApply(s, app)[q] \in Seq(D)
    BY <1>1, SeqItems DEF SendApply
  <1> QED  BY <1>2 DEF Fit, D

LEMMA FitReconciliation ==
  ASSUME NEW s \in SessionIds, NEW rec \in Reconciliation, NEW who
  PROVE  Fit(SendReconciliation(s, rec, who))
  <1> DEFINE D == Current(sessions', nextSessionId')
  <1>1. ASSUME NEW q \in DOMAIN rec.targets
        PROVE  [type |-> "Reconcile", session |-> s, revision |-> rec.revision,
                apply |-> rec.apply, reconcile |-> rec.id, targets |-> rec.targets[q]] \in D
    <2>1. rec.targets[q] \in Quantities /\ rec.revision \in Nat /\ rec.id \in Nat
            /\ rec.apply \in Nat
      BY ForSomeHas DEF Reconciliation
    <2>2. [type |-> "Reconcile", session |-> s, revision |-> rec.revision,
           apply |-> rec.apply, reconcile |-> rec.id, targets |-> rec.targets[q]] \in Mail
      BY <2>1 DEF Mail
    <2> QED  BY <2>2, NoticeIsCurrent
  <1> HIDE DEF D
  <1>2. ASSUME NEW q \in Players PROVE SendReconciliation(s, rec, who)[q] \in Seq(D)
    BY <1>1, SeqItems DEF SendReconciliation
  <1> QED  BY <1>2 DEF Fit, D

-----------------------------------------------------------------------------
(* What is known of a session that is there.                                *)

LEMMA LiveSession ==
  ASSUME ServerInv, NEW s, IsLive(s)
  PROVE  /\ s \in SessionIds /\ s \in Nat /\ s # 0 /\ s < nextSessionId
         /\ sessions[s] \in Session /\ sessions[s] # None
         /\ Participants(sessions[s]) \subseteq Players
         /\ Kept(sessions[s], applications[s], reconciliations[s])
         /\ Indexed(s, sessions[s], reconciliations[s], playerSession)
         /\ applications[s] # None => applications[s] \in Application
         /\ reconciliations[s] # None => reconciliations[s] \in Reconciliation
  <1>1. s \in SessionIds /\ s \in Nat /\ s # 0
    BY SessionsAssumption DEF IsLive, SessionIds
  <1>2. sessions[s] \in Session /\ sessions[s] # None
    BY DEF IsLive, ServerInv, Shapes
  <1>3. s < nextSessionId
    BY <1>1, <1>2 DEF ServerInv, Numbered, Number, Shapes
  <1>4. /\ Kept(sessions[s], applications[s], reconciliations[s])
        /\ Indexed(s, sessions[s], reconciliations[s], playerSession)
    BY <1>1, <1>2 DEF ServerInv, Book, Entry
  <1>5. /\ applications[s] # None => applications[s] \in Application
        /\ reconciliations[s] # None => reconciliations[s] \in Reconciliation
    BY <1>1 DEF ServerInv, Shapes
  <1> QED  BY <1>1, <1>2, <1>3, <1>4, <1>5, PlanTyped

\* Releasing sessions takes out of the index exactly the players it names.
LEMMA ReleasedIs ==
  ASSUME ServerInv, NEW S \in SUBSET SessionIds
  PROVE  /\ Released(S) \in [Players -> 0..MaxSessions]
         /\ \A p \in Players : Released(S)[p] = IF playerSession[p] \in S THEN 0
                                                ELSE playerSession[p]
  <1>1. ASSUME NEW p \in Players, playerSession[p] \in S
        PROVE  /\ sessions[playerSession[p]] # None
               /\ IsParticipant(sessions[playerSession[p]], p)
    <2>1. Entry(playerSession[p], sessions[playerSession[p]], applications[playerSession[p]],
                reconciliations[playerSession[p]], playerSession)
      BY <1>1 DEF ServerInv, Book
    <2> QED  BY <2>1 DEF Entry, Indexed
  <1>2. playerSession \in [Players -> 0..MaxSessions] /\ 0 \in 0..MaxSessions
    BY SessionsAssumption DEF ServerInv, Shapes
  <1> QED  BY <1>1, <1>2 DEF Released

\* What the index does for the other sessions when s is released.
LEMMA ReleaseOne ==
  ASSUME ServerInv, NEW s \in SessionIds, playerSession' = Released({s})
  PROVE  /\ playerSession' \in [Players -> 0..MaxSessions]
         /\ \A p \in Players : playerSession'[p] # s
         /\ \A t \in SessionIds \ {s} : \A p \in Players :
              playerSession'[p] = t <=> playerSession[p] = t
  <1>1. \A p \in Players : playerSession'[p] = IF playerSession[p] = s THEN 0 ELSE playerSession[p]
    BY ReleasedIs
  <1>2. playerSession' \in [Players -> 0..MaxSessions]
    BY ReleasedIs
  <1>3. 0 \notin SessionIds
    BY DEF SessionIds
  <1> QED  BY <1>1, <1>2, <1>3

\* A step on one session, with what it sends, keeps the invariant.
LEMMA StepSends ==
  ASSUME ServerInv, NEW s \in SessionIds, SessionStep(s),
         NEW gone, NEW mail, Fit(mail), PostBut(gone, mail)
  PROVE  Advances
  <1>1. Book' /\ Numbered' /\ AllAge
    BY StepKeepsBook
  <1>2. Shapes' /\ nextSessionId <= nextSessionId'
    BY DEF SessionStep, Counts
  <1>3. Delivered'
    BY <1>1, <1>2, Delivers DEF ServerInv
  <1> QED  BY <1>1, <1>2, <1>3 DEF ServerInv, Advances

LEMMA StepIsSilent ==
  ASSUME ServerInv, NEW s \in SessionIds, SessionStep(s), UNCHANGED toClient
  PROVE  Advances
  <1>1. Book' /\ Numbered' /\ AllAge
    BY StepKeepsBook
  <1>2. Shapes' /\ nextSessionId <= nextSessionId'
    BY DEF SessionStep, Counts
  <1>3. Delivered'
    BY <1>1, <1>2, StillDelivered DEF ServerInv
  <1> QED  BY <1>1, <1>2, <1>3 DEF ServerInv, Advances

-----------------------------------------------------------------------------
(* The handlers.                                                            *)

\* A step that leaves the registry alone.
LEMMA RegistryStays ==
  ASSUME ServerInv, online' \subseteq Players, inventory' \in [Players -> Inventory],
         UNCHANGED <<registry, ids>>
  PROVE  Shapes' /\ Book' /\ Numbered' /\ AllAge /\ nextSessionId <= nextSessionId'
  <1>1. /\ UNCHANGED <<sessions, playerSession, applications, baselines, reconciliations, cleanup>>
        /\ UNCHANGED <<nextSessionId, nextApplyId, nextReconcileId>>
    BY DEF registry, ids
  <1>2. Shapes'
    BY <1>1 DEF ServerInv, Shapes
  <1>3. Book' /\ Numbered'
    BY <1>1 DEF ServerInv, Book, Numbered
  <1>4. AllAge /\ nextSessionId <= nextSessionId'
    BY <1>1 DEF AllAge, Ages, ServerInv, Shapes
  <1> QED  BY <1>2, <1>3, <1>4

LEMMA IgnoreKeeps ==
  ASSUME ServerInv, Ignore
  PROVE  Advances
  <1>1. online' \subseteq Players /\ inventory' \in [Players -> Inventory]
    BY DEF Ignore, serverVars, ServerInv, Shapes
  <1>2. UNCHANGED <<registry, ids>> /\ UNCHANGED toClient
    BY DEF Ignore, serverVars
  <1>3. Shapes' /\ Book' /\ Numbered' /\ AllAge /\ nextSessionId <= nextSessionId'
    BY <1>1, <1>2, RegistryStays
  <1>4. Delivered'
    BY <1>2, <1>3, StillDelivered DEF ServerInv
  <1> QED  BY <1>3, <1>4 DEF ServerInv, Advances

\* What is answered is fit when the step leaves the registry alone.
LEMMA AnswerKeeps ==
  ASSUME ServerInv, NEW mail, Fit(mail), Answer(mail)
  PROVE  Advances
  <1>1. online' \subseteq Players /\ inventory' \in [Players -> Inventory]
    BY DEF Answer, ServerInv, Shapes
  <1>2. UNCHANGED <<registry, ids>> /\ PostBut(None, mail)
    BY DEF Answer, Post
  <1>3. Shapes' /\ Book' /\ Numbered' /\ AllAge /\ nextSessionId <= nextSessionId'
    BY <1>1, <1>2, RegistryStays
  <1>4. Delivered'
    BY <1>2, <1>3, Delivers DEF ServerInv
  <1> QED  BY <1>3, <1>4 DEF ServerInv, Advances

LEMMA SnapshotAnswer ==
  ASSUME ServerInv, NEW s, IsLive(s), NEW who, Answer(To(who, Snapshot(s, sessions[s])))
  PROVE  Advances
  <1>1. s \in SessionIds /\ s < nextSessionId /\ sessions[s] \in Session
    BY LiveSession
  <1>2. UNCHANGED sessions /\ UNCHANGED nextSessionId
    BY DEF Answer, registry, ids
  <1>3. Fit(To(who, Snapshot(s, sessions[s])))
    BY <1>1, <1>2, FitSnapshot
  <1> QED  BY <1>3, AnswerKeeps

\* RemoveSession, in any handler.
LEMMA RemoveSteps ==
  ASSUME ServerInv, NEW s, IsLive(s), RemoveSession(s), online' \subseteq Players,
         UNCHANGED <<inventory, ids>>
  PROVE  SessionStep(s) /\ sessions'[s] = None
  <1>1. s \in SessionIds
    BY LiveSession
  <1>2. /\ UNCHANGED inventory /\ UNCHANGED <<nextSessionId, nextApplyId, nextReconcileId>>
        /\ playerSession' = Released({s})
        /\ applications' = [applications EXCEPT ![s] = None]
        /\ baselines' = [baselines EXCEPT ![s] = None]
        /\ reconciliations' = [reconciliations EXCEPT ![s] = None]
        /\ cleanup' = [cleanup EXCEPT ![s] = None]
        /\ sessions' = [sessions EXCEPT ![s] = None]
    BY DEF RemoveSession, Forget, ids
  <1>3. /\ playerSession' \in [Players -> 0..MaxSessions]
        /\ \A p \in Players : playerSession'[p] # s
        /\ \A t \in SessionIds \ {s} : \A p \in Players :
              playerSession'[p] = t <=> playerSession[p] = t
    BY <1>1, <1>2, ReleaseOne
  <1>4. Shapes
    BY DEF ServerInv
  <1>5. Shapes'
    BY <1>1, <1>2, <1>3, <1>4 DEF Shapes
  <1>6. sessions'[s] = None /\ applications'[s] = None /\ reconciliations'[s] = None
    BY <1>1, <1>2, <1>4 DEF Shapes
  <1>7. Touches(s)
    BY <1>1, <1>2, <1>3, <1>4 DEF Shapes, Touches
  <1>8. Counts
    BY <1>2, <1>4 DEF Counts, Shapes
  <1>9. /\ Entry(s, sessions'[s], applications'[s], reconciliations'[s], playerSession')
        /\ Number(s, sessions'[s], applications'[s], reconciliations'[s],
                  nextSessionId', nextApplyId', nextReconcileId')
        /\ Ages(sessions[s], sessions'[s])
    BY <1>3, <1>6 DEF Entry, Number, Ages
  <1> QED  BY <1>5, <1>6, <1>7, <1>8, <1>9 DEF SessionStep

LEMMA EndKeeps ==
  ASSUME ServerInv, NEW s, IsLive(s), NEW mail, EndSession(s, mail),
         sessions'[s] = None => Fit(mail)
  PROVE  Advances
  <1>1. online' \subseteq Players
    BY DEF EndSession, ServerInv, Shapes
  <1>2. RemoveSession(s) /\ UNCHANGED <<inventory, ids>> /\ PostBut(None, mail)
    BY DEF EndSession, Post
  <1>3. SessionStep(s) /\ sessions'[s] = None
    BY <1>1, <1>2, RemoveSteps
  <1>4. s \in SessionIds
    BY LiveSession
  <1> QED  BY <1>2, <1>3, <1>4, StepSends

\* The session is cancelled for both.
LEMMA CancelKeeps ==
  ASSUME ServerInv, NEW s, IsLive(s), EndSession(s, To(Participants(sessions[s]), Cancelled(s)))
  PROVE  Advances
  <1>1. s \in SessionIds
    BY LiveSession
  <1>2. Fit(To(Participants(sessions[s]), Cancelled(s)))
    BY <1>1, FitNotice
  <1> QED  BY <1>2, EndKeeps

\* A session that is being negotiated, or begins to be.
Opened(ss, tt) ==
  /\ tt \in Session /\ tt.initiator = ss.initiator /\ tt.recipient = ss.recipient
  /\ tt.state \in {ss.state, "Negotiating"}
  /\ tt.revision > ss.revision \/ (tt.revision = ss.revision /\ tt.offers = ss.offers)

LEMMA OpenSteps ==
  ASSUME ServerInv, NEW s, IsLive(s), NEW tt, Opened(sessions[s], tt),
         applications[s] = None \/ tt = sessions[s],
         sessions' = [sessions EXCEPT ![s] = tt],
         UNCHANGED <<online, inventory, playerSession, applications, baselines,
                     reconciliations, cleanup, ids>>
  PROVE  SessionStep(s) /\ sessions'[s] = tt
  <1>1. s \in SessionIds /\ sessions[s] \in Session /\ s < nextSessionId
    BY LiveSession
  <1>2. /\ Kept(sessions[s], applications[s], reconciliations[s])
        /\ Indexed(s, sessions[s], reconciliations[s], playerSession)
    BY LiveSession
  <1>3. UNCHANGED <<nextSessionId, nextApplyId, nextReconcileId>> /\ Shapes
    BY DEF ids, ServerInv
  <1>4. Shapes' /\ sessions'[s] = tt
    BY <1>1, <1>3 DEF Shapes, Opened
  <1>5. Touches(s) /\ Counts
    BY <1>1, <1>3 DEF Shapes, Touches, Counts
  <1>6. tt # None
    BY NoRecord DEF Opened
  <1>7. Kept(tt, applications[s], reconciliations[s])
          /\ Indexed(s, tt, reconciliations[s], playerSession)
    <2>1. CASE tt = sessions[s]
      BY <1>2, <2>1
    <2>2. CASE applications[s] = None
      <3>1. sessions[s].state \in {"PendingAcceptance", "Negotiating"} /\ reconciliations[s] = None
              /\ sessions[s].initiator # sessions[s].recipient
        BY <1>2, <2>2 DEF Kept
      <3>2. Kept(tt, applications[s], reconciliations[s])
        BY <2>2, <3>1 DEF Opened, Kept
      <3>3. Participants(tt) = Participants(sessions[s]) /\ ~IsTerminal(tt) /\ ~IsTerminal(sessions[s])
        BY <3>1 DEF Opened, Participants, IsTerminal
      <3>4. Indexed(s, tt, reconciliations[s], playerSession)
        BY <1>2, <3>3 DEF Indexed, IsParticipant
      <3> QED  BY <3>2, <3>4
    <2> QED  BY <2>1, <2>2
  <1>8. Entry(s, tt, applications[s], reconciliations[s], playerSession)
    BY <1>6, <1>7 DEF Entry
  <1>9. Number(s, sessions[s], applications[s], reconciliations[s],
               nextSessionId, nextApplyId, nextReconcileId)
    BY <1>1 DEF ServerInv, Numbered
  <1>10. Number(s, tt, applications[s], reconciliations[s],
                nextSessionId, nextApplyId, nextReconcileId)
    <2>1. ~(s >= nextSessionId)
      BY <1>1, <1>3, SessionsAssumption DEF Shapes, SessionIds
    <2> QED  BY <1>9, <2>1 DEF Number
  <1>11. Ages(sessions[s], tt)
    BY <1>1 DEF Ages, Opened, IsLive
  <1> QED  BY <1>3, <1>4, <1>5, <1>8, <1>10, <1>11 DEF SessionStep

LEMMA UpdateKeeps ==
  ASSUME ServerInv, NEW s, IsLive(s), NEW tt, Opened(sessions[s], tt),
         applications[s] = None, Update(s, tt)
  PROVE  Advances
  <1>1. /\ sessions' = [sessions EXCEPT ![s] = tt]
        /\ UNCHANGED <<online, inventory, playerSession, applications, baselines,
                       reconciliations, cleanup, ids>>
        /\ PostBut(None, SendState(s, tt))
    BY DEF Update, Post
  <1>2. SessionStep(s) /\ sessions'[s] = tt
    BY <1>1, OpenSteps
  <1>3. s \in SessionIds /\ s < nextSessionId' /\ tt \in Session
    BY <1>1, LiveSession DEF ids, Opened
  <1>4. Fit(SendState(s, tt))
    BY <1>2, <1>3, FitSnapshot
  <1> QED  BY <1>1, <1>2, <1>3, <1>4, StepSends

\* OnTradeInviteRequest.
LEMMA CreateKeeps ==
  ASSUME ServerInv, NEW p \in Players, NEW target \in Players, target # p,
         playerSession[p] = 0, playerSession[target] = 0, nextSessionId \in SessionIds,
         CreateSession(p, target)
  PROVE  Advances
  <1> DEFINE s == nextSessionId
             ss == NewSession(p, target, InviteLifetime)
  <1>1. s \in SessionIds /\ s \in Nat /\ s # 0
    BY SessionsAssumption DEF SessionIds
  <1>2. ss \in Session /\ ss # None /\ ss.initiator = p /\ ss.recipient = target
          /\ ss.state = "PendingAcceptance"
    <2>1. ss \in Session
      <3>1. NoOffer \in Offers
        BY QuantityAssumption DEF NoOffer, Offers
      <3>2. InviteLifetime \in Nat
        BY DurationAssumption
      <3> QED  BY <3>1, <3>2 DEF NewSession, Session, States
    <2> QED  BY <2>1, NoRecord DEF NewSession
  <1>3. /\ sessions' = [sessions EXCEPT ![s] = ss]
        /\ playerSession' = [playerSession EXCEPT ![p] = s, ![target] = s]
        /\ nextSessionId' = s + 1
        /\ PostBut(None, To({target}, Invite(s)))
        /\ UNCHANGED <<online, inventory, applications, baselines, reconciliations, cleanup,
                       nextApplyId, nextReconcileId>>
    BY DEF CreateSession, Post
  <1>4. Shapes /\ Book
    BY DEF ServerInv
  <1>5. sessions[s] = None
    BY <1>1 DEF ServerInv, Numbered, Number
  <1>6. Entry(s, sessions[s], applications[s], reconciliations[s], playerSession)
    BY <1>1, <1>4 DEF Book
  <1> HIDE DEF s, ss
  <1>7. applications[s] = None /\ reconciliations[s] = None /\ \A q \in Players : playerSession[q] # s
    BY <1>5, <1>6 DEF Entry
  <1>8. playerSession' \in [Players -> 0..MaxSessions]
          /\ \A q \in Players : playerSession'[q] = IF q \in {p, target} THEN s ELSE playerSession[q]
    <2>1. playerSession \in [Players -> 0..MaxSessions] /\ s \in 0..MaxSessions
      BY <1>1, <1>4 DEF Shapes, SessionIds
    <2> QED  BY <1>3, <2>1
  <1>9. Shapes'
    <2>1. nextSessionId' \in Nat \ {0}
      BY <1>1, <1>3
    <2> QED  BY <1>1, <1>2, <1>3, <1>4, <1>8, <2>1 DEF Shapes
  <1>10. sessions'[s] = ss
    BY <1>1, <1>3, <1>4 DEF Shapes
  <1>11. Touches(s)
    <2>1. ASSUME NEW t \in SessionIds \ {s}, NEW q \in Players
          PROVE  playerSession'[q] = t <=> playerSession[q] = t
      <3>1. t # 0
        BY DEF SessionIds
      <3> QED  BY <1>8, <3>1
    <2> QED  BY <1>1, <1>3, <1>4, <2>1 DEF Shapes, Touches
  <1>12. Counts
    BY <1>1, <1>3, <1>4 DEF Counts, Shapes, s
  <1>13. Entry(s, ss, applications'[s], reconciliations'[s], playerSession')
    <2>1. Kept(ss, applications'[s], reconciliations'[s])
      BY <1>2, <1>3, <1>7 DEF Kept
    <2>2. Participants(ss) = {p, target} /\ ~IsTerminal(ss)
      BY <1>2 DEF Participants, IsTerminal
    <2>3. Indexed(s, ss, reconciliations'[s], playerSession')
      BY <1>7, <1>8, <2>2 DEF Indexed, IsParticipant
    <2> QED  BY <1>2, <2>1, <2>3 DEF Entry
  <1>14. Number(s, ss, applications'[s], reconciliations'[s],
                nextSessionId', nextApplyId', nextReconcileId')
    BY <1>1, <1>3, <1>7 DEF Number
  <1>15. ~(s < nextSessionId)
    BY <1>1 DEF s
  <1>16. SessionStep(s)
    BY <1>9, <1>10, <1>11, <1>12, <1>13, <1>14, <1>15 DEF SessionStep
  <1>17. Fit(To({target}, Invite(s)))
    BY <1>1, FitNotice
  <1> QED  BY <1>1, <1>3, <1>16, <1>17, StepSends

LEMMA InviteKeeps ==
  ASSUME ServerInv, NEW p \in Players, NEW r, OnTradeInviteRequest(p, r)
  PROVE  Advances
  <1>0. online \subseteq Players
    BY DEF ServerInv, Shapes
  <1>1. CASE Ignore
    BY <1>1, IgnoreKeeps
  <1>2. CASE IsRepeatedInvite(p, r.target) /\ Answer(To({r.target}, Invite(playerSession[p])))
    <2>1. playerSession[p] \in SessionIds
      BY <1>2 DEF IsRepeatedInvite, IsLive
    <2>2. Fit(To({r.target}, Invite(playerSession[p])))
      BY <2>1, FitNotice
    <2> QED  BY <1>2, <2>2, AnswerKeeps
  <1>3. CASE /\ r.target \in online /\ r.target # p
             /\ playerSession[p] = 0 /\ playerSession[r.target] = 0
             /\ nextSessionId \in SessionIds /\ CreateSession(p, r.target)
    BY <1>0, <1>3, CreateKeeps
  <1> QED  BY <1>1, <1>2, <1>3 DEF OnTradeInviteRequest

\* OnTradeInviteResponseRequest.
LEMMA AcceptKeeps ==
  ASSUME ServerInv, NEW p \in Players, NEW s, IsLive(s),
         AcceptVerdict(sessions[s], p) # "Rejected",
         NEW tt, tt = IF AcceptVerdict(sessions[s], p) = "Changed" THEN Accepted(sessions[s])
                      ELSE sessions[s],
         sessions' = [sessions EXCEPT ![s] = tt],
         Post(Then(To(Participants(sessions[s]), Started(s)), SendState(s, tt))),
         UNCHANGED <<online, inventory, playerSession, applications, baselines,
                     reconciliations, cleanup, ids, sweep, commits>>
  PROVE  Advances
  <1>1. s \in SessionIds /\ sessions[s] \in Session /\ s < nextSessionId
          /\ Kept(sessions[s], applications[s], reconciliations[s])
    BY LiveSession
  <1>2. SameTerms(sessions[s], Accepted(sessions[s])) /\ Accepted(sessions[s]).state = "Negotiating"
    BY <1>1, SessionCommands
  <1>3. AcceptVerdict(sessions[s], p) = "Changed" => sessions[s].state = "PendingAcceptance"
    BY DEF AcceptVerdict
  <1>4. Opened(sessions[s], tt)
    <2>1. CASE tt = sessions[s]
      BY <1>1, <2>1 DEF Opened, Session
    <2>2. CASE tt = Accepted(sessions[s])
      BY <1>2, <2>2 DEF Opened, SameTerms
    <2> QED  BY <2>1, <2>2
  <1>5. applications[s] = None \/ tt = sessions[s]
    BY <1>1, <1>3 DEF Kept, Agreed
  <1>6. SessionStep(s) /\ sessions'[s] = tt
    BY <1>4, <1>5, OpenSteps
  <1>7. s < nextSessionId' /\ tt \in Session
    BY <1>1, <1>4 DEF ids, Opened
  <1>8. Fit(SendState(s, tt)) /\ Fit(To(Participants(sessions[s]), Started(s)))
    BY <1>1, <1>6, <1>7, FitSnapshot, FitNotice
  <1>9. Fit(Then(To(Participants(sessions[s]), Started(s)), SendState(s, tt)))
    BY <1>8, FitMail
  <1> QED  BY <1>1, <1>6, <1>9, StepSends DEF Post

LEMMA ResponseKeeps ==
  ASSUME ServerInv, NEW p \in Players, NEW r, OnTradeInviteResponseRequest(p, r)
  PROVE  Advances
  <1> DEFINE s == r.session
             ss == sessions[s]
             tt == IF AcceptVerdict(ss, p) = "Changed" THEN Accepted(ss) ELSE ss
  <1>1. CASE Ignore
    BY <1>1, IgnoreKeeps
  <1>2. CASE IsLive(s) /\ EndSession(s, To(Participants(ss), Cancelled(s)))
    BY <1>2, CancelKeeps
  <1>3. CASE /\ IsLive(s) /\ AcceptVerdict(ss, p) # "Rejected"
             /\ sessions' = [sessions EXCEPT ![s] = tt]
             /\ Post(Then(To(Participants(ss), Started(s)), SendState(s, tt)))
             /\ UNCHANGED <<online, inventory, playerSession, applications, baselines,
                            reconciliations, cleanup, ids, sweep, commits>>
    BY <1>3, AcceptKeeps
  <1> QED  BY <1>1, <1>2, <1>3 DEF OnTradeInviteResponseRequest, IsIndexedParticipant

\* OnTradeOfferUpdateRequest.
LEMMA OfferKeeps ==
  ASSUME ServerInv, NEW p \in Players, NEW r, r.offer \in Offers \cup {Malformed},
         OnTradeOfferUpdateRequest(p, r)
  PROVE  Advances
  <1> DEFINE s == r.session
             ss == sessions[s]
  <1>1. CASE Ignore
    BY <1>1, IgnoreKeeps
  <1>2. CASE IsLive(s) /\ Answer(To({p}, Snapshot(s, ss)))
    BY <1>2, SnapshotAnswer
  <1>3. CASE /\ IsLive(s) /\ OfferVerdict(ss, p, r.revision, r.offer) = "Changed"
             /\ Update(s, Offered(ss, p, r.offer))
    <2>1. ss \in Session /\ Kept(ss, applications[s], reconciliations[s])
      BY <1>3, LiveSession
    <2>2. ss.state = "Negotiating" /\ r.offer \in Offers
      BY <1>3 DEF OfferVerdict
    <2>3. applications[s] = None
      BY <2>1, <2>2 DEF Kept, Agreed
    <2>4. Opened(ss, Offered(ss, p, r.offer))
      <3>1. ss.revision \in Nat
        BY <2>1 DEF Session
      <3> HIDE DEF ss
      <3> QED  BY <2>1, <2>2, <3>1, OfferCommand DEF Opened
    <2> QED  BY <1>3, <2>3, <2>4, UpdateKeeps
  <1> QED  BY <1>1, <1>2, <1>3 DEF OnTradeOfferUpdateRequest, IsIndexedParticipant

\* OnTradeCancelRequest.
LEMMA CancelRequestKeeps ==
  ASSUME ServerInv, NEW p \in Players, NEW r, OnTradeCancelRequest(p, r)
  PROVE  Advances
  <1> DEFINE s == r.session
             ss == sessions[s]
  <1>1. CASE Ignore
    BY <1>1, IgnoreKeeps
  <1>2. CASE IsLive(s) /\ Answer(To({p}, Snapshot(s, ss)))
    BY <1>2, SnapshotAnswer
  <1>3. CASE IsLive(s) /\ EndSession(s, To(Participants(ss), Cancelled(s)))
    BY <1>3, CancelKeeps
  <1> QED  BY <1>1, <1>2, <1>3 DEF OnTradeCancelRequest, IsIndexedParticipant

-----------------------------------------------------------------------------
(* Sessions that are being applied.                                         *)

\* A step that leaves the session s with application app and reconciliation
\* rec, on the terms both confirmed.
Around(s) ==
  /\ online' \subseteq Players
  /\ inventory' \in [Players -> Inventory]
  /\ baselines' \in [SessionIds -> ForSome(Quantities) \cup {None}]
  /\ cleanup' \in [SessionIds -> (0..TerminalRetention) \cup {None}]
  /\ playerSession' \in [Players -> 0..MaxSessions]
  /\ \A t \in SessionIds \ {s} : \A p \in Players : playerSession'[p] = t <=> playerSession[p] = t
  /\ nextSessionId' = nextSessionId
  /\ nextApplyId' \in {nextApplyId, nextApplyId + 1}
  /\ nextReconcileId' \in {nextReconcileId, nextReconcileId + 1}
Fitting(s, tt, app, rec) ==
  /\ app \in Application /\ app.id \in 1..(nextApplyId' - 1) /\ Agreed(tt, app)
  /\ rec # None => /\ rec \in Reconciliation /\ rec.id \in 1..(nextReconcileId' - 1)
                   /\ IsTerminal(tt) /\ rec.status \in [Participants(tt) -> Statuses]
  /\ Indexed(s, tt, rec, playerSession')
Stored(s, tt, app, rec) ==
  /\ sessions' = [sessions EXCEPT ![s] = tt]
  /\ applications' = [applications EXCEPT ![s] = app]
  /\ reconciliations' = [reconciliations EXCEPT ![s] = rec]

LEMMA AppliedSteps ==
  ASSUME ServerInv, NEW s, IsLive(s), NEW tt, NEW app, NEW rec, SameTerms(sessions[s], tt),
         Around(s), Fitting(s, tt, app, rec), Stored(s, tt, app, rec)
  PROVE  SessionStep(s) /\ sessions'[s] = tt
  <1>1. s \in SessionIds /\ s \in Nat /\ sessions[s] \in Session /\ s < nextSessionId
          /\ sessions[s] # None /\ sessions[s].initiator # sessions[s].recipient
    BY LiveSession DEF Kept
  <1>2. Shapes
    BY DEF ServerInv
  <1>3. tt \in Session /\ tt # None /\ app # None /\ app \in Application
          /\ rec \in Reconciliation \cup {None}
    BY NoRecord DEF SameTerms, Fitting
  <1>4. sessions'[s] = tt /\ applications'[s] = app /\ reconciliations'[s] = rec
    BY <1>1, <1>2 DEF Shapes, Stored
  <1>5. /\ nextSessionId' \in Nat \ {0} /\ nextApplyId' \in Nat \ {0} /\ nextReconcileId' \in Nat \ {0}
        /\ Counts
    BY <1>2 DEF Shapes, Around, Counts
  <1>6. /\ sessions' \in [SessionIds -> Session \cup {None}]
        /\ applications' \in [SessionIds -> Application \cup {None}]
        /\ reconciliations' \in [SessionIds -> Reconciliation \cup {None}]
    BY <1>2, <1>3 DEF Shapes, Stored
  <1>7. Shapes'
    BY <1>5, <1>6 DEF Shapes, Around
  <1>8. Touches(s)
    BY <1>1, <1>2 DEF Shapes, Stored, Around, Touches
  <1>9. Kept(tt, app, rec) /\ Indexed(s, tt, rec, playerSession')
    BY <1>1, <1>3 DEF Kept, Fitting, SameTerms
  <1>10. Entry(s, tt, app, rec, playerSession')
    BY <1>3, <1>9 DEF Entry
  <1>11. Number(s, tt, app, rec, nextSessionId', nextApplyId', nextReconcileId')
    <2>1. ~(s >= nextSessionId')
      BY <1>1, <1>2 DEF Around, Shapes
    <2> QED  BY <2>1 DEF Number, Fitting
  <1>12. Ages(sessions[s], tt)
    BY <1>1 DEF Ages, SameTerms
  <1> QED  BY <1>4, <1>5, <1>7, <1>8, <1>10, <1>11, <1>12 DEF SessionStep

\* What can be planned for the participants.
LEMMA CurrentTargetsTyped ==
  ASSUME ServerInv, NEW plan \in ForSome(Delta)
  PROVE  CurrentTargets(plan) \in ForSome(Quantities) \cup {None}
  <1>1. DOMAIN plan \subseteq Players /\ \A p \in DOMAIN plan : plan[p] \in Delta
    BY ForSomeHas
  <1>2. ASSUME NEW p \in DOMAIN plan PROVE Targets(inventory[p], plan[p]) \in Quantities
    BY <1>1, TargetsTyped DEF ServerInv, Shapes
  <1>3. [p \in DOMAIN plan |-> Targets(inventory[p], plan[p])] \in [DOMAIN plan -> Quantities]
    BY <1>2
  <1>4. [p \in DOMAIN plan |-> Targets(inventory[p], plan[p])] \in ForSome(Quantities)
    BY <1>1, <1>3, ForSomeIs
  <1> QED  BY <1>4 DEF CurrentTargets

LEMMA TargetsOfTyped ==
  ASSUME ServerInv, NEW s \in SessionIds, applications[s] # None
  PROVE  ReconciliationTargets(s) \in ForSome(Quantities) \cup {None}
  <1>1. applications[s].plan \in ForSome(Delta)
    BY DEF ServerInv, Shapes, Application
  <1>2. CurrentTargets(applications[s].plan) \in ForSome(Quantities) \cup {None}
    BY <1>1, CurrentTargetsTyped
  <1>3. baselines[s] \in ForSome(Quantities) \cup {None}
    BY DEF ServerInv, Shapes
  <1> QED  BY <1>2, <1>3 DEF ReconciliationTargets

\* A new reconciliation waits for one participant at least.
LEMMA NewReconciliationIs ==
  ASSUME ServerInv, NEW s, IsLive(s), applications[s] # None,
         ReconciliationTargets(s) # None, NEW id \in Nat, NEW gone
  PROVE  LET rec == NewReconciliation(id, s, gone)
         IN  /\ rec \in Reconciliation /\ rec # None /\ rec.id = id
             /\ rec.status \in [Participants(sessions[s]) -> Statuses]
             /\ ~IsSettled(rec.status)
  <1> DEFINE rec == NewReconciliation(id, s, gone)
             ss == sessions[s]
             app == applications[s]
             status == [p \in DOMAIN app.plan |->
                          IF p = gone THEN "ParticipantUnavailable" ELSE "Pending"]
  <1>1. s \in SessionIds /\ ss \in Session /\ app \in Application
          /\ ss.initiator # ss.recipient /\ Agreed(ss, app)
    BY LiveSession DEF Kept
  <1>2. DOMAIN app.plan = Participants(ss) /\ Participants(ss) \subseteq Players
    BY <1>1, PlanTyped DEF Agreed
  <1>3. app.revision \in Nat /\ app.id \in Nat
    BY <1>1 DEF Application
  <1>4. status \in [Participants(ss) -> Statuses]
    BY <1>2 DEF Statuses, Outcomes
  <1>5. status \in ForSome(Statuses)
    BY <1>2, <1>4, ForSomeIs
  <1>6. ReconciliationTargets(s) \in ForSome(Quantities)
    BY <1>1, TargetsOfTyped
  <1>7. ReconciliationTimeout \in Nat
    BY DurationAssumption
  <1>8. ~IsSettled(status)
    <2>1. ss.initiator \in DOMAIN status /\ ss.recipient \in DOMAIN status
      BY <1>2 DEF Participants
    <2>2. status[ss.initiator] = "Pending" \/ status[ss.recipient] = "Pending"
      BY <1>1, <2>1
    <2> QED  BY <2>1, <2>2 DEF IsSettled
  <1>9. rec = [id |-> id, revision |-> app.revision, apply |-> app.id,
               targets |-> ReconciliationTargets(s), status |-> status,
               deadline |-> ReconciliationTimeout]
    BY DEF NewReconciliation
  <1> HIDE DEF rec, status
  <1>10. rec \in Reconciliation
    BY <1>3, <1>5, <1>6, <1>7, <1>9 DEF Reconciliation
  <1>11. rec.id = id /\ rec.status = status
    BY <1>9
  <1>12. rec # None
    BY <1>10, NoRecord
  <1> QED  BY <1>4, <1>8, <1>10, <1>11, <1>12 DEF rec

\* BeginReconciliation, when the session has just failed.
LEMMA ReconcileKeeps ==
  ASSUME ServerInv, NEW s, IsLive(s), NEW app, NEW gone,
         applications[s] # None, reconciliations[s] = None,
         app \in Application, app.id = applications[s].id, Agreed(Fail(sessions[s]), app),
         sessions' = [sessions EXCEPT ![s] = Fail(sessions[s])],
         applications' = [applications EXCEPT ![s] = app],
         BeginReconciliation(s, gone, SendState(s, Fail(sessions[s]))),
         online' \subseteq Players, UNCHANGED <<inventory, nextSessionId, nextApplyId>>
  PROVE  Advances
  <1> DEFINE ss == sessions[s]
             tt == Fail(ss)
  <1>1. s \in SessionIds /\ ss \in Session /\ s < nextSessionId /\ Participants(ss) \subseteq Players
          /\ Indexed(s, ss, reconciliations[s], playerSession)
          /\ Kept(ss, applications[s], reconciliations[s])
    BY LiveSession
  <1>2. SameTerms(ss, tt) /\ IsTerminal(tt) /\ tt \in Session
    BY <1>1, SessionCommands DEF SameTerms
  <1>3. Participants(tt) = Participants(ss)
    BY <1>1, <1>2, TermsDecide
  <1>4. Shapes /\ inventory' \in [Players -> Inventory]
    BY DEF ServerInv, Shapes
  <1>5. app.id \in 1..(nextApplyId' - 1)
    BY <1>1 DEF ServerInv, Numbered, Number
  <1>6. TerminalRetention \in 0..TerminalRetention
    BY DurationAssumption
  <1> HIDE DEF tt, ss
  <1>7. CASE /\ ScheduleTerminalCleanup(s) /\ PostBut(gone, SendState(s, tt))
             /\ UNCHANGED <<baselines, reconciliations, nextReconcileId>>
    <2>1. /\ playerSession' = Released({s})
          /\ cleanup' = [cleanup EXCEPT ![s] = TerminalRetention]
      BY <1>7 DEF ScheduleTerminalCleanup
    <2>2. /\ playerSession' \in [Players -> 0..MaxSessions]
          /\ \A p \in Players : playerSession'[p] # s
          /\ \A t \in SessionIds \ {s} : \A p \in Players :
                playerSession'[p] = t <=> playerSession[p] = t
      BY <1>1, <2>1, ReleaseOne
    <2>3. Around(s)
      BY <1>1, <1>4, <1>6, <1>7, <2>1, <2>2 DEF Shapes, Around
    <2>4. Indexed(s, tt, None, playerSession')
      BY <1>2, <2>2 DEF Indexed
    <2>5. Fitting(s, tt, app, None)
      BY <1>5, <2>4 DEF Fitting, tt, ss
    <2>6. Stored(s, tt, app, None)
      BY <1>1, <1>4, <1>7 DEF Stored, Shapes, tt, ss
    <2>7. SessionStep(s) /\ sessions'[s] = tt
      BY <1>2, <2>3, <2>5, <2>6, AppliedSteps DEF ss
    <2>8. Fit(SendState(s, tt))
      BY <1>1, <1>2, <2>7, FitSnapshot
    <2> QED  BY <1>1, <1>7, <2>7, <2>8, StepSends
  <1>8. CASE /\ ReconciliationTargets(s) # None
             /\ reconciliations' = [reconciliations EXCEPT ![s] = NewReconciliation(nextReconcileId, s, gone)]
             /\ PostBut(gone, Then(SendState(s, tt),
                                   SendReconciliation(s, NewReconciliation(nextReconcileId, s, gone), Players)))
             /\ AllocateReconcileId(1)
             /\ baselines' = Forget(baselines, s)
             /\ cleanup' = Forget(cleanup, s)
             /\ UNCHANGED playerSession
    <2> DEFINE rec == NewReconciliation(nextReconcileId, s, gone)
    <2>0. nextReconcileId \in Nat
      BY <1>4 DEF Shapes
    <2>1. /\ rec \in Reconciliation /\ rec # None /\ rec.id = nextReconcileId
          /\ rec.status \in [Participants(tt) -> Statuses]
          /\ ~IsSettled(rec.status)
      BY <1>3, <1>8, <2>0, NewReconciliationIs DEF ss
    <2>2. /\ nextReconcileId' = nextReconcileId + 1
          /\ baselines' = [baselines EXCEPT ![s] = None]
          /\ cleanup' = [cleanup EXCEPT ![s] = None]
          /\ reconciliations' = [reconciliations EXCEPT ![s] = rec]
          /\ PostBut(gone, Then(SendState(s, tt), SendReconciliation(s, rec, Players)))
      BY <1>8 DEF AllocateReconcileId, Forget
    <2> HIDE DEF rec
    <2>3. Around(s)
      BY <1>1, <1>4, <1>8, <2>2 DEF Shapes, Around
    <2>4. Indexed(s, tt, rec, playerSession')
      <3>1. \A p \in Players : playerSession[p] = s => IsParticipant(ss, p)
        BY <1>1 DEF Indexed
      <3> QED  BY <1>2, <1>3, <1>8, <2>1, <3>1 DEF Indexed, IsParticipant
    <2>5. rec.id \in 1..(nextReconcileId' - 1)
      BY <1>4, <2>1, <2>2 DEF Shapes
    <2>6. Fitting(s, tt, app, rec)
      BY <1>2, <1>5, <2>1, <2>4, <2>5 DEF Fitting, tt, ss
    <2>7. Stored(s, tt, app, rec)
      BY <2>2 DEF Stored, tt, ss
    <2>8. SessionStep(s) /\ sessions'[s] = tt
      BY <1>2, <2>3, <2>6, <2>7, AppliedSteps DEF ss
    <2>9. Fit(SendState(s, tt)) /\ Fit(SendReconciliation(s, rec, Players))
      BY <1>1, <1>2, <2>1, <2>8, FitSnapshot, FitReconciliation
    <2>10. Fit(Then(SendState(s, tt), SendReconciliation(s, rec, Players)))
      BY <2>9, FitMail
    <2> QED  BY <1>1, <2>2, <2>8, <2>10, StepSends
  <1> QED  BY <1>7, <1>8 DEF BeginReconciliation, tt, ss

\* OnTradeConfirmRequest.
LEMMA BeginKeeps ==
  ASSUME ServerInv, NEW s, IsLive(s), ~IsTerminal(sessions[s]), applications[s] = None,
         NEW locked, SameTerms(sessions[s], locked), BothConfirmed(locked),
         BeginApplication(s, locked)
  PROVE  Advances
  <1> DEFINE app == NewApplication(nextApplyId, locked)
             tt == StartApplying(locked)
  <1>1. s \in SessionIds /\ sessions[s] \in Session /\ s < nextSessionId
          /\ Indexed(s, sessions[s], reconciliations[s], playerSession)
          /\ Kept(sessions[s], applications[s], reconciliations[s])
    BY LiveSession
  <1>2. reconciliations[s] = None
    BY <1>1 DEF Kept
  <1>3. locked \in Session
    BY DEF SameTerms
  <1>4. SameTerms(locked, tt) /\ tt.state = "Applying" /\ tt.confirmed = locked.confirmed
          /\ tt \in Session
    BY <1>3, SessionCommands DEF SameTerms
  <1>5. SameTerms(sessions[s], tt)
    BY <1>4 DEF SameTerms
  <1>6. Participants(tt) = Participants(locked) /\ MutationPlan(tt) = MutationPlan(locked)
          /\ BothConfirmed(tt)
    BY <1>3, <1>4, TermsDecide
  <1>7. Participants(tt) = Participants(sessions[s])
    BY <1>1, <1>5, TermsDecide
  <1>8. Shapes
    BY DEF ServerInv
  <1>9. app \in Application /\ app.id = nextApplyId /\ app.revision = locked.revision
          /\ app.plan = MutationPlan(locked)
          /\ app.status \in [Participants(locked) -> Statuses]
    <2> DEFINE status == [p \in Participants(locked) |-> "Pending"]
    <2>1. MutationPlan(locked) \in ForSome(Delta) /\ Participants(locked) \subseteq Players
      BY <1>3, PlanTyped
    <2>2. status \in [Participants(locked) -> Statuses]
      BY DEF Statuses
    <2>3. status \in ForSome(Statuses)
      BY <2>1, <2>2, ForSomeIs
    <2>4. nextApplyId \in Nat /\ locked.revision \in Nat /\ ApplyTimeout \in Nat
      BY <1>3, <1>8, DurationAssumption DEF Shapes, Session
    <2>5. app = [id |-> nextApplyId, revision |-> locked.revision, plan |-> MutationPlan(locked),
                 status |-> status, deadline |-> ApplyTimeout]
      BY DEF NewApplication
    <2> HIDE DEF app, status
    <2> QED  BY <2>1, <2>2, <2>3, <2>4, <2>5 DEF Application
  <1>10. /\ sessions' = [sessions EXCEPT ![s] = tt]
         /\ applications' = [applications EXCEPT ![s] = app]
         /\ baselines' = [baselines EXCEPT ![s] = CurrentTargets(app.plan)]
         /\ nextApplyId' = nextApplyId + 1
         /\ PostBut(None, Then(SendState(s, tt), SendApply(s, app)))
         /\ UNCHANGED <<online, inventory, playerSession, reconciliations, cleanup,
                        nextSessionId, nextReconcileId>>
    BY DEF BeginApplication, Post
  <1> HIDE DEF app, tt
  <1>11. CurrentTargets(app.plan) \in ForSome(Quantities) \cup {None}
    <2>1. app.plan \in ForSome(Delta)
      BY <1>9 DEF Application
    <2> QED  BY <2>1, CurrentTargetsTyped
  <1>12. Around(s)
    BY <1>1, <1>8, <1>10, <1>11 DEF Around, Shapes
  <1>13. Agreed(tt, app)
    BY <1>4, <1>6, <1>9 DEF Agreed, SameTerms
  <1>14. Indexed(s, tt, None, playerSession')
    <2>1. ~IsTerminal(tt)
      BY <1>4 DEF IsTerminal
    <2>2. UNCHANGED playerSession
      BY <1>10
    <2>3. \A p \in Players : playerSession[p] = s => IsParticipant(sessions[s], p)
      BY <1>1 DEF Indexed
    <2>4. \A p \in Participants(sessions[s]) : playerSession[p] = s
      BY <1>1 DEF Indexed
    <2> QED  BY <1>7, <2>1, <2>2, <2>3, <2>4 DEF Indexed, IsParticipant
  <1>15. app.id \in 1..(nextApplyId' - 1)
    BY <1>8, <1>9, <1>10 DEF Shapes
  <1>16. Fitting(s, tt, app, None)
    BY <1>9, <1>13, <1>14, <1>15 DEF Fitting
  <1>17. Stored(s, tt, app, None)
    BY <1>1, <1>2, <1>8, <1>10 DEF Stored, Shapes
  <1>18. SessionStep(s) /\ sessions'[s] = tt
    BY <1>5, <1>12, <1>16, <1>17, AppliedSteps
  <1>19. s < nextSessionId'
    BY <1>1, <1>10
  <1>20. Fit(SendState(s, tt)) /\ Fit(SendApply(s, app))
    BY <1>1, <1>4, <1>9, <1>18, <1>19, FitSnapshot, FitApply
  <1>21. Fit(Then(SendState(s, tt), SendApply(s, app)))
    BY <1>20, FitMail
  <1> QED  BY <1>1, <1>10, <1>18, <1>21, StepSends

LEMMA ConfirmKeeps ==
  ASSUME ServerInv, NEW p \in Players, NEW r, OnTradeConfirmRequest(p, r)
  PROVE  Advances
  <1> DEFINE s == r.session
             ss == sessions[s]
             tt == Confirmed(ss, p)
  <1>1. CASE Ignore
    BY <1>1, IgnoreKeeps
  <1>2. CASE IsLive(s) /\ Answer(To({p}, Snapshot(s, ss)))
    BY <1>2, SnapshotAnswer
  <1>3. ASSUME IsLive(s), ConfirmVerdict(ss, p, r.revision) = "Changed"
        PROVE  /\ s \in SessionIds /\ s < nextSessionId /\ ss \in Session
               /\ ss.state = "Negotiating" /\ ~IsTerminal(ss)
               /\ applications[s] = None /\ SameTerms(ss, tt)
               /\ tt.state # "Locked" => Opened(ss, tt)
               /\ tt.state = "Locked" => BothConfirmed(tt)
    <2>1. s \in SessionIds /\ s < nextSessionId /\ ss \in Session
            /\ Kept(ss, applications[s], reconciliations[s])
      BY <1>3, LiveSession
    <2>2. ss.state = "Negotiating"
      BY <1>3 DEF ConfirmVerdict
    <2>3. applications[s] = None
      BY <2>1, <2>2 DEF Kept, Agreed
    <2>4. /\ SameTerms(ss, tt)
          /\ tt.state \in {ss.state, "Locked"}
          /\ tt.state = "Locked" => BothConfirmed(tt)
      BY <2>1, <2>2, ConfirmCommand
    <2> HIDE DEF tt, ss
    <2>5. tt.state # "Locked" => Opened(ss, tt)
      BY <2>4 DEF Opened, SameTerms
    <2> QED  BY <2>1, <2>2, <2>3, <2>4, <2>5 DEF IsTerminal
  <1>4. CASE /\ IsLive(s) /\ ConfirmVerdict(ss, p, r.revision) = "Changed"
             /\ tt.state # "Locked" /\ Update(s, tt)
    <2>1. applications[s] = None /\ Opened(ss, tt)
      BY <1>3, <1>4
    <2> HIDE DEF tt
    <2> QED  BY <1>4, <2>1, UpdateKeeps
  <1>5. CASE /\ IsLive(s) /\ ConfirmVerdict(ss, p, r.revision) = "Changed"
             /\ tt.state = "Locked" /\ BeginApplication(s, tt)
    <2>1. ~IsTerminal(ss) /\ applications[s] = None /\ SameTerms(ss, tt) /\ BothConfirmed(tt)
      BY <1>3, <1>5
    <2> HIDE DEF tt
    <2> QED  BY <1>5, <2>1, BeginKeeps
  <1>6. CASE /\ IsLive(s) /\ ConfirmVerdict(ss, p, r.revision) = "Changed"
             /\ EndSession(s, SendState(s, Fail(tt)))
    <2>1. s \in SessionIds /\ s < nextSessionId /\ SameTerms(ss, tt)
      BY <1>3, <1>6
    <2> HIDE DEF tt
    <2>2. tt \in Session
      BY <2>1 DEF SameTerms
    <2>3. Fail(tt) \in Session
      BY <2>2, SessionCommands DEF SameTerms
    <2>4. s < nextSessionId'
      BY <1>6, <2>1 DEF EndSession, ids
    <2>5. sessions'[s] = None => Fit(SendState(s, Fail(tt)))
      BY <2>1, <2>3, <2>4, FitSnapshot
    <2> QED  BY <1>6, <2>5, EndKeeps
  <1> QED  BY <1>1, <1>2, <1>4, <1>5, <1>6 DEF OnTradeConfirmRequest, IsIndexedParticipant

-----------------------------------------------------------------------------
(* Reports.                                                                 *)

LEMMA RecordTyped ==
  ASSUME NEW P, NEW status \in [P -> Statuses], NEW p, NEW outcome \in Outcomes
  PROVE  Record(status, p, outcome) \in [P -> Statuses]
  BY DEF Record, RecordVerdict, Statuses

LEMMA ReportedApplication ==
  ASSUME NEW app \in Application, NEW status \in ForSome(Statuses),
         NEW new, new = [app EXCEPT !.status = status]
  PROVE  /\ new \in Application /\ new.id = app.id /\ new.revision = app.revision
         /\ new.plan = app.plan /\ new.status = status
  BY DEF Application

LEMMA ReportedReconciliation ==
  ASSUME NEW rec \in Reconciliation, NEW status \in ForSome(Statuses),
         NEW new, new = [rec EXCEPT !.status = status]
  PROVE  new \in Reconciliation /\ new.id = rec.id /\ new.status = status
  BY DEF Reconciliation

\* The application with one more report.
LEMMA ReportFits ==
  ASSUME ServerInv, NEW s, IsLive(s), applications[s] # None, NEW p, NEW outcome \in Outcomes,
         NEW app, app = [applications[s] EXCEPT !.status = Record(@, p, outcome)]
  PROVE  /\ app \in Application /\ app.id = applications[s].id
         /\ app.plan = applications[s].plan /\ Agreed(sessions[s], app)
  <1> DEFINE old == applications[s]
             status == Record(old.status, p, outcome)
  <1>1. old \in Application /\ Agreed(sessions[s], old) /\ Participants(sessions[s]) \subseteq Players
    BY LiveSession DEF Kept
  <1>2. old.status \in [Participants(sessions[s]) -> Statuses]
    BY <1>1 DEF Agreed
  <1>3. status \in [Participants(sessions[s]) -> Statuses]
    BY <1>2, RecordTyped
  <1>4. status \in ForSome(Statuses)
    BY <1>1, <1>3, ForSomeIs
  <1>5. app = [old EXCEPT !.status = status]
    BY <1>1 DEF Application
  <1> HIDE DEF status, old
  <1>6. /\ app \in Application /\ app.id = old.id /\ app.revision = old.revision
        /\ app.plan = old.plan /\ app.status = status
    <2>1. old \in Application
      BY <1>1
    <2>2. ASSUME NEW new, new = [old EXCEPT !.status = status]
          PROVE  /\ new \in Application /\ new.id = old.id /\ new.revision = old.revision
                 /\ new.plan = old.plan /\ new.status = status
      BY ONLY <2>1, <2>2, <1>4, ReportedApplication
    <2> QED  BY <1>5, <2>2
  <1>7. Agreed(sessions[s], app)
    BY <1>1, <1>3, <1>6 DEF Agreed
  <1> QED  BY <1>6, <1>7 DEF old

\* An application of the session fits it after it failed or completed.
LEMMA StillAgreed ==
  ASSUME NEW ss \in Session, NEW app, Agreed(ss, app)
  PROVE  Agreed(Fail(ss), app) /\ Agreed(Complete(ss), app)
  <1>1. ASSUME NEW tt, SameTerms(ss, tt), tt.confirmed = ss.confirmed,
               tt.state \in {"Applying", "Completed", "Failed"}
        PROVE  Agreed(tt, app)
    <2>1. Participants(tt) = Participants(ss) /\ MutationPlan(tt) = MutationPlan(ss)
            /\ (BothConfirmed(tt) <=> BothConfirmed(ss))
      BY <1>1, TermsDecide
    <2> QED  BY <1>1, <2>1 DEF Agreed, SameTerms
  <1>2. ss.state \in {"Applying", "Completed", "Failed"}
    BY DEF Agreed
  <1> QED  BY <1>1, <1>2, SessionCommands

LEMMA SettleFailedKeeps ==
  ASSUME ServerInv, NEW s, IsLive(s), applications[s] # None, reconciliations[s] = None,
         NEW app \in Application, app.id = applications[s].id, Agreed(sessions[s], app),
         SettleFailed(s, app)
  PROVE  Advances
  <1>1. sessions[s] \in Session
    BY LiveSession
  <1>2. Agreed(Fail(sessions[s]), app)
    BY <1>1, StillAgreed
  <1>3. /\ sessions' = [sessions EXCEPT ![s] = Fail(sessions[s])]
        /\ applications' = [applications EXCEPT ![s] = app]
        /\ BeginReconciliation(s, None, SendState(s, Fail(sessions[s])))
        /\ UNCHANGED <<online, inventory, nextSessionId, nextApplyId>>
    BY DEF SettleFailed
  <1>4. online' \subseteq Players
    BY <1>3 DEF ServerInv, Shapes
  <1> QED  BY <1>2, <1>3, <1>4, ReconcileKeeps

\* CommitMutationPlan keeps the inventories well formed.
LEMMA CommitTyped ==
  ASSUME ServerInv, NEW plan \in ForSome(Delta), CommitMutationPlan(plan)
  PROVE  inventory' \in [Players -> Inventory]
  <1>1. ASSUME NEW p \in Players
        PROVE  (IF p \in DOMAIN plan THEN Apply(inventory[p], plan[p], Touched(plan[p]))
                ELSE inventory[p]) \in Inventory
    <2>1. inventory[p] \in Inventory
      BY DEF ServerInv, Shapes
    <2>2. p \in DOMAIN plan => plan[p] \in Delta
      BY ForSomeHas
    <2> QED  BY <2>1, <2>2, AppliedTyped
  <1> QED  BY <1>1 DEF CommitMutationPlan

LEMMA SettleSucceededKeeps ==
  ASSUME ServerInv, NEW s, IsLive(s), applications[s] # None, reconciliations[s] = None,
         NEW app \in Application, app.id = applications[s].id, Agreed(sessions[s], app),
         SettleSucceeded(s, app)
  PROVE  Advances
  <1> DEFINE tt == Complete(sessions[s])
  <1>1. s \in SessionIds /\ sessions[s] \in Session /\ s < nextSessionId
    BY LiveSession
  <1>2. SameTerms(sessions[s], tt) /\ tt \in Session
    BY <1>1, SessionCommands DEF SameTerms
  <1>3. Agreed(tt, app)
    BY <1>1, StillAgreed
  <1>4. IsTerminal(tt)
    <2>1. sessions[s].state \in {"Applying", "Completed", "Failed"}
      BY DEF Agreed
    <2>2. tt.state = IF sessions[s].state = "Applying" THEN "Completed" ELSE sessions[s].state
      BY <1>1, SessionCommands
    <2> QED  BY <2>1, <2>2 DEF IsTerminal
  <1>5. /\ CommitMutationPlan(app.plan)
        /\ sessions' = [sessions EXCEPT ![s] = tt]
        /\ applications' = [applications EXCEPT ![s] = app]
        /\ playerSession' = Released({s})
        /\ cleanup' = [cleanup EXCEPT ![s] = TerminalRetention]
        /\ PostBut(None, SendState(s, tt))
        /\ UNCHANGED <<online, baselines, reconciliations>>
        /\ UNCHANGED <<nextSessionId, nextApplyId, nextReconcileId>>
    BY DEF SettleSucceeded, ScheduleTerminalCleanup, Post, ids
  <1> HIDE DEF tt
  <1>6. inventory' \in [Players -> Inventory]
    BY <1>5, CommitTyped DEF Application
  <1>7. /\ playerSession' \in [Players -> 0..MaxSessions]
        /\ \A p \in Players : playerSession'[p] # s
        /\ \A t \in SessionIds \ {s} : \A p \in Players :
              playerSession'[p] = t <=> playerSession[p] = t
    BY <1>1, <1>5, ReleaseOne
  <1>8. TerminalRetention \in 0..TerminalRetention
    BY DurationAssumption
  <1>9. Shapes
    BY DEF ServerInv
  <1>10. Around(s)
    BY <1>1, <1>5, <1>6, <1>7, <1>8, <1>9 DEF Around, Shapes
  <1>11. Indexed(s, tt, None, playerSession')
    BY <1>4, <1>7 DEF Indexed
  <1>12. app.id \in 1..(nextApplyId' - 1)
    BY <1>1, <1>5 DEF ServerInv, Numbered, Number
  <1>13. Fitting(s, tt, app, None)
    BY <1>3, <1>11, <1>12 DEF Fitting
  <1>14. Stored(s, tt, app, None)
    BY <1>1, <1>5, <1>9 DEF Stored, Shapes
  <1>15. SessionStep(s) /\ sessions'[s] = tt
    BY <1>2, <1>10, <1>13, <1>14, AppliedSteps
  <1>16. Fit(SendState(s, tt))
    BY <1>1, <1>2, <1>5, <1>15, FitSnapshot
  <1> QED  BY <1>1, <1>5, <1>15, <1>16, StepSends

\* A report that settles nothing yet.
LEMMA ReportKeeps ==
  ASSUME ServerInv, NEW s, IsLive(s), applications[s] # None, reconciliations[s] = None,
         NEW app \in Application, app.id = applications[s].id, Agreed(sessions[s], app),
         applications' = [applications EXCEPT ![s] = app],
         UNCHANGED <<online, inventory, sessions, playerSession, baselines,
                     reconciliations, cleanup, ids, toClient>>
  PROVE  Advances
  <1>1. s \in SessionIds /\ sessions[s] \in Session
          /\ Indexed(s, sessions[s], reconciliations[s], playerSession)
    BY LiveSession
  <1>2. UNCHANGED <<nextSessionId, nextApplyId, nextReconcileId>> /\ Shapes
    BY DEF ids, ServerInv
  <1>3. SameTerms(sessions[s], sessions[s])
    BY <1>1 DEF SameTerms
  <1>4. Around(s)
    BY <1>1, <1>2 DEF Around, Shapes
  <1>5. app.id \in 1..(nextApplyId' - 1)
    BY <1>1, <1>2 DEF ServerInv, Numbered, Number
  <1>6. Fitting(s, sessions[s], app, None)
    BY <1>1, <1>5 DEF Fitting
  <1>7. Stored(s, sessions[s], app, None)
    BY <1>1, <1>2 DEF Stored, Shapes
  <1>8. SessionStep(s)
    BY <1>3, <1>4, <1>6, <1>7, AppliedSteps
  <1> QED  BY <1>1, <1>8, StepIsSilent

\* OnTradeApplyResultRequest.
LEMMA ApplyResultKeeps ==
  ASSUME ServerInv, NEW p \in Players, NEW r, r.result \in Outcomes,
         OnTradeApplyResultRequest(p, r)
  PROVE  Advances
  <1> DEFINE s == r.session
             app == [applications[s] EXCEPT !.status = Record(@, p, r.result)]
             known == IsLive(s) /\ applications[s] # None
  <1>1. CASE Ignore
    BY <1>1, IgnoreKeeps
  <1>2. CASE known /\ Answer(To({p}, Snapshot(s, sessions[s])))
    BY <1>2, SnapshotAnswer
  <1>3. CASE /\ known /\ reconciliations[s] # None
             /\ Answer(SendReconciliation(s, reconciliations[s], {p}))
    <2>1. s \in SessionIds /\ reconciliations[s] \in Reconciliation
      BY <1>3, LiveSession
    <2>2. Fit(SendReconciliation(s, reconciliations[s], {p}))
      BY <2>1, FitReconciliation
    <2> QED  BY <1>3, <2>2, AnswerKeeps
  <1>4. ASSUME known
        PROVE  app \in Application /\ app.id = applications[s].id /\ Agreed(sessions[s], app)
    <2>1. app = [applications[s] EXCEPT !.status = Record(@, p, r.result)]
      OBVIOUS
    <2> HIDE DEF app, s
    <2> QED  BY <1>4, <2>1, ReportFits
  <1>5. CASE known /\ reconciliations[s] = None /\ SettleFailed(s, app)
    <2> HIDE DEF app
    <2> QED  BY <1>4, <1>5, SettleFailedKeeps
  <1>6. CASE known /\ reconciliations[s] = None /\ SettleSucceeded(s, app)
    <2> HIDE DEF app
    <2> QED  BY <1>4, <1>6, SettleSucceededKeeps
  <1>7. CASE /\ known /\ reconciliations[s] = None
             /\ applications' = [applications EXCEPT ![s] = app]
             /\ UNCHANGED <<online, inventory, sessions, playerSession, baselines,
                            reconciliations, cleanup, ids, sweep, toClient, commits>>
    <2> HIDE DEF app
    <2> QED  BY <1>4, <1>7, ReportKeeps
  <1> QED  BY <1>1, <1>2, <1>3, <1>5, <1>6, <1>7 DEF OnTradeApplyResultRequest

\* A reconciliation takes a report, or marks a participant that leaves.
Reported(s, rec) ==
  /\ reconciliations' = [reconciliations EXCEPT ![s] = rec]
  /\ IF IsSettled(rec.status) THEN ScheduleTerminalCleanup(s)
     ELSE UNCHANGED <<playerSession, cleanup>>
  /\ UNCHANGED <<inventory, sessions, applications, baselines, nextSessionId,
                 nextApplyId, nextReconcileId>>

LEMMA ReportedSteps ==
  ASSUME ServerInv, NEW s, IsLive(s), reconciliations[s] # None, online' \subseteq Players,
         NEW p, NEW outcome \in Outcomes, NEW rec,
         rec = [reconciliations[s] EXCEPT !.status = Record(@, p, outcome)],
         Reported(s, rec)
  PROVE  SessionStep(s)
  <1> DEFINE old == reconciliations[s]
             ss == sessions[s]
             status == Record(old.status, p, outcome)
  <1>1. s \in SessionIds /\ ss \in Session /\ old \in Reconciliation
          /\ Participants(ss) \subseteq Players
          /\ Kept(ss, applications[s], old) /\ Indexed(s, ss, old, playerSession)
    BY LiveSession
  <1>2. old.status \in [Participants(ss) -> Statuses] /\ IsTerminal(ss)
          /\ applications[s] # None /\ Agreed(ss, applications[s])
    BY <1>1 DEF Kept
  <1>3. status \in [Participants(ss) -> Statuses]
    BY <1>2, RecordTyped
  <1>4. status \in ForSome(Statuses)
    BY <1>1, <1>3, ForSomeIs
  <1>5. rec = [old EXCEPT !.status = status]
    BY <1>1 DEF Reconciliation
  <1>6. old \in Reconciliation /\ old # None
    BY <1>1
  <1> HIDE DEF status, old
  <1>7. rec \in Reconciliation /\ rec.id = old.id /\ rec.status = status
    <2>1. ASSUME NEW new, new = [old EXCEPT !.status = status]
          PROVE  new \in Reconciliation /\ new.id = old.id /\ new.status = status
      BY ONLY <2>1, <1>6, <1>4, ReportedReconciliation
    <2> QED  BY <1>5, <2>1
  <1>8. rec # None
    BY <1>7, NoRecord
  <1>9. Shapes
    BY DEF ServerInv
  <1>10. /\ playerSession' \in [Players -> 0..MaxSessions]
         /\ \A t \in SessionIds \ {s} : \A q \in Players :
               playerSession'[q] = t <=> playerSession[q] = t
         /\ cleanup' \in [SessionIds -> (0..TerminalRetention) \cup {None}]
         /\ Indexed(s, ss, rec, playerSession')
    <2>1. CASE ~IsSettled(rec.status)
      <3>1. UNCHANGED <<playerSession, cleanup>>
        BY <2>1 DEF Reported
      <3>2. \A q \in Players : playerSession[q] = s => IsParticipant(ss, q)
        BY <1>1 DEF Indexed
      <3> QED  BY <1>2, <1>8, <1>9, <2>1, <3>1, <3>2 DEF Shapes, Indexed
    <2>2. CASE IsSettled(rec.status)
      <3>1. playerSession' = Released({s}) /\ cleanup' = [cleanup EXCEPT ![s] = TerminalRetention]
        BY <2>2 DEF Reported, ScheduleTerminalCleanup
      <3>2. /\ playerSession' \in [Players -> 0..MaxSessions]
            /\ \A q \in Players : playerSession'[q] # s
            /\ \A t \in SessionIds \ {s} : \A q \in Players :
                  playerSession'[q] = t <=> playerSession[q] = t
        BY <1>1, <3>1, ReleaseOne
      <3>3. Indexed(s, ss, rec, playerSession')
        BY <1>2, <3>2 DEF Indexed
      <3>4. TerminalRetention \in 0..TerminalRetention
        BY DurationAssumption
      <3>5. cleanup' \in [SessionIds -> (0..TerminalRetention) \cup {None}]
        BY <1>9, <3>1, <3>4 DEF Shapes
      <3> QED  BY <3>2, <3>3, <3>5
    <2> QED  BY <2>1, <2>2
  <1>11. Around(s)
    BY <1>9, <1>10 DEF Around, Shapes, Reported
  <1>12. /\ applications[s] \in Application /\ applications[s].id \in 1..(nextApplyId' - 1)
         /\ rec.id \in 1..(nextReconcileId' - 1)
    <2>1. Number(s, ss, applications[s], old, nextSessionId, nextApplyId, nextReconcileId)
      BY <1>1 DEF ServerInv, Numbered, old
    <2>2. applications[s] \in Application
      BY <1>1, <1>2, <1>9 DEF Shapes
    <2>3. UNCHANGED <<nextApplyId, nextReconcileId>>
      BY DEF Reported
    <2> QED  BY <1>2, <1>6, <1>7, <2>1, <2>2, <2>3 DEF Number
  <1>13. Fitting(s, ss, applications[s], rec)
    BY <1>2, <1>3, <1>7, <1>10, <1>12 DEF Fitting
  <1>14. Stored(s, ss, applications[s], rec)
    <2>1. UNCHANGED <<sessions, applications>> /\ reconciliations' = [reconciliations EXCEPT ![s] = rec]
      BY DEF Reported
    <2> QED  BY <1>1, <1>9, <2>1 DEF Stored, Shapes
  <1>15. SameTerms(sessions[s], ss)
    BY <1>1 DEF SameTerms
  <1> QED  BY <1>11, <1>13, <1>14, <1>15, AppliedSteps

\* OnTradeReconcileResultRequest.
LEMMA ReconcileResultKeeps ==
  ASSUME ServerInv, NEW p \in Players, NEW r, r.result \in Outcomes,
         OnTradeReconcileResultRequest(p, r)
  PROVE  Advances
  <1> DEFINE s == r.session
             rec == [reconciliations[s] EXCEPT !.status = Record(@, p, r.result)]
             known == IsLive(s) /\ reconciliations[s] # None
  <1>1. CASE Ignore
    BY <1>1, IgnoreKeeps
  <1>2. CASE known /\ Answer(To({p}, Snapshot(s, sessions[s])))
    BY <1>2, SnapshotAnswer
  <1>3. CASE /\ known
             /\ reconciliations' = [reconciliations EXCEPT ![s] = rec]
             /\ IF IsSettled(rec.status) THEN ScheduleTerminalCleanup(s)
                ELSE UNCHANGED <<playerSession, cleanup>>
             /\ UNCHANGED <<online, inventory, sessions, applications, baselines, ids, sweep,
                            toClient, commits>>
    <2>1. online' \subseteq Players /\ UNCHANGED toClient /\ s \in SessionIds
      BY <1>3, LiveSession DEF ServerInv, Shapes
    <2>2. Reported(s, rec)
      BY <1>3 DEF Reported, ids
    <2>3. SessionStep(s)
      BY <1>3, <2>1, <2>2, ReportedSteps
    <2> QED  BY <2>1, <2>3, StepIsSilent
  <1> QED  BY <1>1, <1>2, <1>3 DEF OnTradeReconcileResultRequest

\* InventoryService.
LEMMA ChangesKeep ==
  ASSUME ServerInv, NEW p \in Players, NEW r,
         \/ r.item \in Items /\ r.delta \in Int /\ OnInventoryChanges(p, r)
         \/ r.fixed \subseteq Items /\ OnEquipmentChanges(p, r)
  PROVE  Advances
  <1>1. inventory \in [Players -> Inventory] /\ online \subseteq Players
    BY DEF ServerInv, Shapes
  <1>2. inventory[p] \in Inventory
    BY <1>1
  <1>3. ASSUME r.item \in Items, r.delta \in Int, OnInventoryChanges(p, r)
        PROVE  inventory' \in [Players -> Inventory]
    <2> DEFINE count == [inventory[p].count EXCEPT ![r.item] = AddOrRemoveEntry(@, r.delta)]
               inv == [inventory[p] EXCEPT !.count = count]
    <2>1. count \in [Items -> Int]
      BY <1>2, <1>3 DEF Inventory, AddOrRemoveEntry
    <2> HIDE DEF count
    <2>2. inv \in Inventory
      BY <1>2, <2>1 DEF Inventory
    <2> HIDE DEF inv
    <2>3. inventory' = [inventory EXCEPT ![p] = inv]
      BY <1>1, <1>2, <1>3 DEF OnInventoryChanges, inv, count
    <2> QED  BY <1>1, <2>2, <2>3
  <1>4. ASSUME r.fixed \subseteq Items, OnEquipmentChanges(p, r)
        PROVE  inventory' \in [Players -> Inventory]
    <2> DEFINE worn == {i \in r.fixed : inventory[p].count[i] # 0}
               inv == [inventory[p] EXCEPT !.fixed = worn]
    <2>1. worn \in SUBSET Items
      BY <1>4
    <2> HIDE DEF worn
    <2>2. inv \in Inventory
      BY <1>2, <2>1 DEF Inventory
    <2> HIDE DEF inv
    <2>3. inventory' = [inventory EXCEPT ![p] = inv]
      BY <1>1, <1>2, <1>4 DEF OnEquipmentChanges, inv, worn
    <2> QED  BY <1>1, <2>2, <2>3
  <1>5. UNCHANGED <<online, registry, ids>> /\ UNCHANGED toClient
    BY DEF OnInventoryChanges, OnEquipmentChanges
  <1>6. Shapes' /\ Book' /\ Numbered' /\ AllAge /\ nextSessionId <= nextSessionId'
    BY <1>1, <1>3, <1>4, <1>5, RegistryStays
  <1>7. Delivered'
    BY <1>5, <1>6, StillDelivered DEF ServerInv
  <1> QED  BY <1>6, <1>7 DEF ServerInv, Advances

\* Every request.
Legal(r) ==
  /\ r.type = "Offer" => r.offer \in Offers \cup {Malformed}
  /\ r.type \in {"ApplyResult", "ReconcileResult"} => r.result \in Outcomes
  /\ r.type = "Change" => r.item \in Items /\ r.delta \in Int
  /\ r.type = "Equipment" => r.fixed \subseteq Items
LEMMA HandleKeeps ==
  ASSUME ServerInv, NEW p \in Players, NEW r, Legal(r), Handle(p, r)
  PROVE  Advances
  <1>1. CASE r.type = "Invite" /\ OnTradeInviteRequest(p, r)
    BY <1>1, InviteKeeps
  <1>2. CASE r.type = "Response" /\ OnTradeInviteResponseRequest(p, r)
    BY <1>2, ResponseKeeps
  <1>3. CASE r.type = "Offer" /\ OnTradeOfferUpdateRequest(p, r)
    BY <1>3, OfferKeeps DEF Legal
  <1>4. CASE r.type = "Confirm" /\ OnTradeConfirmRequest(p, r)
    BY <1>4, ConfirmKeeps
  <1>5. CASE r.type = "Cancel" /\ OnTradeCancelRequest(p, r)
    BY <1>5, CancelRequestKeeps
  <1>6. CASE r.type = "ApplyResult" /\ OnTradeApplyResultRequest(p, r)
    BY <1>6, ApplyResultKeeps DEF Legal
  <1>7. CASE r.type = "ReconcileResult" /\ OnTradeReconcileResultRequest(p, r)
    BY <1>7, ReconcileResultKeeps DEF Legal
  <1>8. CASE r.type = "Change" /\ OnInventoryChanges(p, r)
    BY <1>8, ChangesKeep DEF Legal
  <1>9. CASE r.type = "Equipment" /\ OnEquipmentChanges(p, r)
    BY <1>9, ChangesKeep DEF Legal
  <1> QED  BY <1>1, <1>2, <1>3, <1>4, <1>5, <1>6, <1>7, <1>8, <1>9 DEF Handle

-----------------------------------------------------------------------------
(* OnPlayerLeave.                                                           *)

LEMMA LeaveKeeps ==
  ASSUME ServerInv, NEW p \in Players, Leave(p)
  PROVE  Advances
  <1> DEFINE s == playerSession[p]
  <1>0. /\ OnPlayerLeave(p) /\ online' \subseteq Players
        /\ UNCHANGED <<inventory, nextSessionId, nextApplyId>>
        /\ inventory' \in [Players -> Inventory]
    BY DEF Leave, ServerInv, Shapes
  <1>1. ASSUME UNCHANGED <<registry, nextReconcileId>>, PostBut(p, NoMail)
        PROVE  Advances
    <2>1. Shapes' /\ Book' /\ Numbered' /\ AllAge /\ nextSessionId <= nextSessionId'
      BY <1>0, <1>1, RegistryStays DEF ids
    <2>2. Delivered'
      BY <1>1, <2>1, FitMail, Delivers DEF ServerInv
    <2> QED  BY <2>1, <2>2 DEF ServerInv, Advances
  <1>2. CASE /\ ~IsLive(s)
             /\ playerSession' = [playerSession EXCEPT ![p] = 0]
             /\ PostBut(p, NoMail)
             /\ UNCHANGED <<sessions, applications, baselines, reconciliations, cleanup,
                            nextReconcileId>>
    <2>1. playerSession[p] \in 0..MaxSessions /\ playerSession \in [Players -> 0..MaxSessions]
      BY DEF ServerInv, Shapes
    <2>2. playerSession[p] = 0
      <3> SUFFICES ASSUME playerSession[p] # 0 PROVE FALSE
        OBVIOUS
      <3>1. s \in SessionIds
        BY <2>1, SessionsAssumption DEF SessionIds
      <3>2. sessions[s] = None
        BY <1>2, <3>1 DEF IsLive
      <3>3. Entry(s, sessions[s], applications[s], reconciliations[s], playerSession)
        BY <3>1 DEF ServerInv, Book
      <3> QED  BY <3>2, <3>3 DEF Entry
    <2>3. UNCHANGED playerSession
      BY <1>2, <2>1, <2>2
    <2> QED  BY <1>1, <1>2, <2>3 DEF registry
  <1>3. CASE IsLive(s) /\ reconciliations[s] # None /\ LeaveWhileReconciling(p, s)
    <2> DEFINE rec == [reconciliations[s] EXCEPT !.status = Record(@, p, "ParticipantUnavailable")]
    <2>1. Reported(s, rec) /\ PostBut(p, NoMail)
      BY <1>0, <1>3 DEF LeaveWhileReconciling, Reported
    <2>2. "ParticipantUnavailable" \in Outcomes
      BY DEF Outcomes
    <2>3. rec = [reconciliations[s] EXCEPT !.status = Record(@, p, "ParticipantUnavailable")]
      OBVIOUS
    <2>4. s \in SessionIds
      BY <1>3, LiveSession
    <2> HIDE DEF rec, s
    <2>5. SessionStep(s)
      BY <1>0, <1>3, <2>1, <2>2, <2>3, ReportedSteps
    <2> QED  BY <2>1, <2>4, <2>5, FitMail, StepSends
  <1>4. CASE /\ IsLive(s) /\ reconciliations[s] = None
             /\ sessions[s].state = "Applying" /\ LeaveWhileApplying(p, s)
    <2>1. s \in SessionIds /\ sessions[s] \in Session
            /\ Kept(sessions[s], applications[s], reconciliations[s])
      BY <1>4, LiveSession
    <2>2. applications[s] # None /\ Agreed(sessions[s], applications[s])
      BY <1>4, <2>1 DEF Kept
    <2>3. applications[s] \in Application
      BY <1>4, <2>2, LiveSession
    <2>4. Agreed(Fail(sessions[s]), applications[s])
      BY <2>1, <2>2, StillAgreed
    <2>5. /\ sessions' = [sessions EXCEPT ![s] = Fail(sessions[s])]
          /\ BeginReconciliation(s, p, SendState(s, Fail(sessions[s])))
      BY <1>4 DEF LeaveWhileApplying
    <2>6. applications' = [applications EXCEPT ![s] = applications[s]]
      BY <1>4, <2>1 DEF LeaveWhileApplying, ServerInv, Shapes
    <2> HIDE DEF s
    <2> QED  BY <1>0, <1>4, <2>2, <2>3, <2>4, <2>5, <2>6, ReconcileKeeps
  <1>5. CASE IsLive(s) /\ LeaveOtherwise(p, s)
    <2>1. CASE UNCHANGED registry /\ PostBut(p, NoMail) /\ UNCHANGED nextReconcileId
      BY <1>1, <2>1
    <2>2. CASE /\ RemoveSession(s) /\ PostBut(p, To(Participants(sessions[s]), Cancelled(s)))
               /\ UNCHANGED nextReconcileId
      <3>1. SessionStep(s) /\ s \in SessionIds
        BY <1>0, <1>5, <2>2, RemoveSteps, LiveSession DEF ids
      <3>2. Fit(To(Participants(sessions[s]), Cancelled(s)))
        BY <3>1, FitNotice
      <3> QED  BY <2>2, <3>1, <3>2, StepSends
    <2> QED  BY <1>5, <2>1, <2>2 DEF LeaveOtherwise
  <1> QED  BY <1>0, <1>2, <1>3, <1>4, <1>5 DEF OnPlayerLeave

-----------------------------------------------------------------------------
(* OnUpdate.                                                                *)

Starting == {s \in TimedOutApplications : ReconciliationTargets(s) # None}
Scheduled == (TimedOutApplications \ Starting) \cup TimedOutReconciliations
Ending == ExpiredInvitations \cup CleanupSessions
Begun(s) == NewReconciliation(nextReconcileId + Rank(s, Starting), s, None)

\* What the sweep leaves of each session.
SweptRecord(s) ==
  /\ s \in Ending => sessions'[s] = None /\ applications'[s] = None /\ reconciliations'[s] = None
  /\ s \notin Ending =>
       /\ sessions'[s] = IF s \in TimedOutApplications THEN Fail(sessions[s]) ELSE sessions[s]
       /\ applications'[s] = applications[s]
       /\ reconciliations'[s] = IF s \in Starting THEN Begun(s) ELSE reconciliations[s]
Swept ==
  /\ \A s \in SessionIds : SweptRecord(s)
  /\ \A p \in Players : playerSession'[p] = IF playerSession[p] \in Scheduled \cup Ending THEN 0
                                            ELSE playerSession[p]

LEMMA SweepIs ==
  ASSUME ServerInv, OnUpdate
  PROVE  /\ Swept
         /\ playerSession' \in [Players -> 0..MaxSessions]
         /\ UNCHANGED <<online, inventory, nextSessionId, nextApplyId>>
         /\ nextReconcileId' = nextReconcileId + Cardinality(Starting)
  <1>1. /\ Starting \subseteq SessionIds /\ Scheduled \subseteq SessionIds
        /\ Ending \subseteq SessionIds
    BY DEF Starting, Scheduled, Ending, TimedOutApplications, TimedOutReconciliations,
           ExpiredInvitations, CleanupSessions
  <1>2. playerSession' = Released(Scheduled \cup Ending)
    BY DEF OnUpdate, Starting, Scheduled, Ending
  <1>3. /\ playerSession' \in [Players -> 0..MaxSessions]
        /\ \A p \in Players : playerSession'[p] = IF playerSession[p] \in Scheduled \cup Ending
                                                  THEN 0 ELSE playerSession[p]
    BY <1>1, <1>2, ReleasedIs
  <1>4. ASSUME NEW s \in SessionIds PROVE SweptRecord(s)
    <2>1. sessions'[s] = IF s \in Ending THEN None
                         ELSE IF s \in TimedOutApplications THEN Fail(sessions[s]) ELSE sessions[s]
      BY DEF OnUpdate, Ending
    <2>2. applications'[s] = IF s \in Ending THEN None ELSE applications[s]
      BY DEF OnUpdate, Ending
    <2>3. reconciliations'[s] = IF s \in Ending THEN None
                                ELSE IF s \in Starting THEN Begun(s) ELSE reconciliations[s]
      BY DEF OnUpdate, Ending, Starting, Begun
    <2> QED  BY <2>1, <2>2, <2>3 DEF SweptRecord
  <1>5. UNCHANGED <<online, inventory, nextSessionId, nextApplyId>>
    BY DEF OnUpdate
  <1>6. nextReconcileId' = nextReconcileId + Cardinality(Starting)
    BY DEF OnUpdate, AllocateReconcileId, Starting
  <1> QED  BY <1>3, <1>4, <1>5, <1>6 DEF Swept

\* The numbers the sweep gives out.
LEMMA RankBelow ==
  ASSUME NEW S \in SUBSET SessionIds, NEW s \in S
  PROVE  Cardinality(S) \in Nat /\ Rank(s, S) \in Nat /\ Rank(s, S) < Cardinality(S)
  <1> DEFINE T == {t \in S : t < s}
  <1>1. IsFiniteSet(SessionIds)
    BY SessionsAssumption, FS_Interval DEF SessionIds
  <1>2. IsFiniteSet(S)
    BY <1>1, FS_Subset
  <1>3. T \subseteq S /\ s \notin T /\ s \in S
    BY SessionsAssumption DEF SessionIds
  <1> HIDE DEF T
  <1>4. T # S
    BY <1>3
  <1>5. Cardinality(T) <= Cardinality(S) /\ Cardinality(T) # Cardinality(S)
    BY <1>2, <1>3, <1>4, FS_Subset
  <1>6. Cardinality(S) \in Nat /\ Cardinality(T) \in Nat
    BY <1>2, <1>3, FS_Subset, FS_CardinalityType
  <1> QED  BY <1>5, <1>6 DEF Rank, T
LEMMA StartingCounts ==
  ASSUME ServerInv
  PROVE  Cardinality(Starting) \in Nat
  <1>1. IsFiniteSet(SessionIds)
    BY SessionsAssumption, FS_Interval DEF SessionIds
  <1>2. Starting \subseteq SessionIds
    BY DEF Starting, TimedOutApplications
  <1> QED  BY <1>1, <1>2, FS_Subset, FS_CardinalityType

\* A session whose application timed out, or whose reconciliation did.
LEMMA DueSession ==
  ASSUME ServerInv, NEW s \in SessionIds
  PROVE  /\ s \in TimedOutApplications =>
              IsLive(s) /\ applications[s] # None /\ reconciliations[s] = None
         /\ s \in TimedOutReconciliations => IsLive(s) /\ reconciliations[s] # None
         /\ s \in ExpiredInvitations => IsLive(s)
  <1>1. Entry(s, sessions[s], applications[s], reconciliations[s], playerSession)
    BY DEF ServerInv, Book
  <1> QED  BY <1>1 DEF Entry, IsLive, TimedOutApplications, TimedOutReconciliations,
                      ExpiredInvitations, IsDue

LEMMA BegunIs ==
  ASSUME ServerInv, NEW s \in Starting
  PROVE  /\ Begun(s) \in Reconciliation /\ Begun(s) # None
         /\ Begun(s).id \in 1..(nextReconcileId + Cardinality(Starting) - 1)
         /\ Begun(s).status \in [Participants(sessions[s]) -> Statuses]
         /\ ~IsSettled(Begun(s).status)
  <1>1. s \in SessionIds /\ s \in TimedOutApplications /\ ReconciliationTargets(s) # None
          /\ Starting \in SUBSET SessionIds
    BY DEF Starting, TimedOutApplications
  <1>2. IsLive(s) /\ applications[s] # None
    BY <1>1, DueSession
  <1> DEFINE id == nextReconcileId + Rank(s, Starting)
  <1>3. id \in Nat /\ id \in 1..(nextReconcileId + Cardinality(Starting) - 1)
    <2>1. Cardinality(Starting) \in Nat /\ Rank(s, Starting) \in Nat
            /\ Rank(s, Starting) < Cardinality(Starting)
      BY <1>1, RankBelow
    <2>2. nextReconcileId \in Nat \ {0}
      BY DEF ServerInv, Shapes
    <2> QED  BY <2>1, <2>2
  <1>4. Begun(s) = NewReconciliation(id, s, None)
    BY DEF Begun
  <1> HIDE DEF id
  <1> QED  BY <1>1, <1>2, <1>3, <1>4, NewReconciliationIs

\* Each session after the sweep.
LEMMA SweptEntry ==
  ASSUME ServerInv, Swept, NEW s \in SessionIds
  PROVE  /\ Entry(s, sessions'[s], applications'[s], reconciliations'[s], playerSession')
         /\ Ages(sessions[s], sessions'[s])
         /\ sessions'[s] \in Session \cup {None}
         /\ applications'[s] \in Application \cup {None}
         /\ reconciliations'[s] \in Reconciliation \cup {None}
  <1>1. SweptRecord(s)
    BY DEF Swept
  <1>2. s # 0
    BY DEF SessionIds
  <1>3. /\ s \in Scheduled \cup Ending => \A p \in Players : playerSession'[p] # s
        /\ s \notin Scheduled \cup Ending =>
             \A p \in Players : playerSession'[p] = s <=> playerSession[p] = s
    BY <1>2 DEF Swept
  <1>4. /\ sessions[s] \in Session \cup {None}
        /\ applications[s] \in Application \cup {None}
        /\ reconciliations[s] \in Reconciliation \cup {None}
        /\ Entry(s, sessions[s], applications[s], reconciliations[s], playerSession)
    BY DEF ServerInv, Shapes, Book
  <1>5. CASE s \in Ending
    BY <1>1, <1>3, <1>5 DEF SweptRecord, Entry, Ages
  <1>6. CASE s \notin Ending /\ s \in TimedOutApplications
    <2> DEFINE ss == sessions[s]
               tt == Fail(ss)
               app == applications[s]
    <2>1. IsLive(s) /\ app # None /\ reconciliations[s] = None
      BY <1>6, DueSession
    <2>2. ss \in Session /\ ss # None /\ ss.initiator # ss.recipient /\ Agreed(ss, app)
            /\ Indexed(s, ss, reconciliations[s], playerSession)
      BY <2>1, LiveSession DEF Kept
    <2>3. SameTerms(ss, tt) /\ IsTerminal(tt) /\ Agreed(tt, app)
      BY <2>2, SessionCommands, StillAgreed
    <2>4. Participants(tt) = Participants(ss)
      BY <2>2, <2>3, TermsDecide
    <2>5. sessions'[s] = tt /\ applications'[s] = app
            /\ reconciliations'[s] = IF s \in Starting THEN Begun(s) ELSE None
      BY <1>1, <1>6, <2>1 DEF SweptRecord
    <2>6. s \notin TimedOutReconciliations
      BY <2>1, DueSession
    <2> HIDE DEF tt, ss, app
    <2>7. tt \in Session /\ tt # None /\ tt.initiator # tt.recipient
      BY <2>2, <2>3, NoRecord DEF SameTerms
    <2>8. Ages(ss, tt)
      BY <2>2, <2>3 DEF Ages, SameTerms
    <2>9. CASE s \in Starting
      <3> DEFINE rec == Begun(s)
      <3>1. rec \in Reconciliation /\ rec # None /\ ~IsSettled(rec.status)
              /\ rec.status \in [Participants(tt) -> Statuses]
        BY <2>4, <2>9, BegunIs DEF ss
      <3>2. s \notin Scheduled \cup Ending
        BY <1>6, <2>6, <2>9 DEF Scheduled
      <3> HIDE DEF rec
      <3>3. Kept(tt, app, rec)
        BY <2>1, <2>3, <2>7, <3>1 DEF Kept
      <3>4. Indexed(s, tt, rec, playerSession')
        <4>1. \A p \in Players : playerSession[p] = s => IsParticipant(ss, p)
          BY <2>2 DEF Indexed
        <4> QED  BY <1>3, <2>3, <2>4, <3>1, <3>2, <4>1 DEF Indexed, IsParticipant
      <3>5. Entry(s, tt, app, rec, playerSession')
        BY <2>7, <3>3, <3>4 DEF Entry
      <3>6. reconciliations'[s] = rec
        BY <2>5, <2>9 DEF rec
      <3> QED  BY <1>4, <2>5, <2>7, <2>8, <3>1, <3>5, <3>6 DEF ss, app
    <2>10. CASE s \notin Starting
      <3>1. s \in Scheduled
        BY <1>6, <2>10 DEF Scheduled
      <3>2. Indexed(s, tt, None, playerSession')
        BY <1>3, <2>3, <3>1 DEF Indexed
      <3>3. Kept(tt, app, None)
        BY <2>1, <2>3, <2>7 DEF Kept
      <3>4. Entry(s, tt, app, None, playerSession')
        BY <2>7, <3>2, <3>3 DEF Entry
      <3> QED  BY <1>4, <2>5, <2>7, <2>8, <2>10, <3>4 DEF ss, app
    <2> QED  BY <2>9, <2>10
  <1>7. CASE s \notin Ending /\ s \notin TimedOutApplications
    <2>1. s \notin Starting
      BY <1>7 DEF Starting
    <2>2. sessions'[s] = sessions[s] /\ applications'[s] = applications[s]
            /\ reconciliations'[s] = reconciliations[s]
      BY <1>1, <1>7, <2>1 DEF SweptRecord
    <2>3. Ages(sessions[s], sessions'[s])
      BY <2>2 DEF Ages
    <2>4. CASE s \in TimedOutReconciliations
      <3>1. IsLive(s) /\ reconciliations[s] # None
        BY <2>4, DueSession
      <3>2. Kept(sessions[s], applications[s], reconciliations[s]) /\ sessions[s] # None
        BY <3>1, LiveSession
      <3>3. IsTerminal(sessions[s])
        BY <3>1, <3>2 DEF Kept
      <3>4. \A p \in Players : playerSession'[p] # s
        BY <1>3, <2>4 DEF Scheduled
      <3>5. Indexed(s, sessions[s], reconciliations[s], playerSession')
        BY <3>3, <3>4 DEF Indexed
      <3>6. Entry(s, sessions[s], applications[s], reconciliations[s], playerSession')
        BY <3>2, <3>5 DEF Entry
      <3> QED  BY <1>4, <2>2, <2>3, <3>6
    <2>5. CASE s \notin TimedOutReconciliations
      <3>1. s \notin Scheduled \cup Ending
        BY <1>7, <2>5 DEF Scheduled
      <3>2. sessions[s] # None => Participants(sessions[s]) \subseteq Players
        BY <1>4, PlanTyped
      <3>3. Entry(s, sessions[s], applications[s], reconciliations[s], playerSession')
        BY <1>3, <1>4, <3>1, <3>2, EntryStays
      <3> QED  BY <1>4, <2>2, <2>3, <3>3
    <2> QED  BY <2>4, <2>5
  <1> QED  BY <1>5, <1>6, <1>7

LEMMA SweptShapes ==
  ASSUME ServerInv, OnUpdate, Swept
  PROVE  Shapes'
  <1>1. Shapes
    BY DEF ServerInv
  <1>2. \A s \in SessionIds : /\ sessions'[s] \in Session \cup {None}
                              /\ applications'[s] \in Application \cup {None}
                              /\ reconciliations'[s] \in Reconciliation \cup {None}
    BY SweptEntry
  <1>3. /\ sessions' = [s \in SessionIds |-> sessions'[s]]
        /\ applications' = [s \in SessionIds |-> applications'[s]]
        /\ reconciliations' = [s \in SessionIds |-> reconciliations'[s]]
    BY DEF OnUpdate
  <1>4. /\ sessions' \in [SessionIds -> Session \cup {None}]
        /\ applications' \in [SessionIds -> Application \cup {None}]
        /\ reconciliations' \in [SessionIds -> Reconciliation \cup {None}]
    BY <1>2, <1>3
  <1>5. baselines' \in [SessionIds -> ForSome(Quantities) \cup {None}]
    BY <1>1 DEF OnUpdate, Shapes
  <1>6. TerminalRetention \in 0..TerminalRetention
    BY DurationAssumption
  <1>7. cleanup' \in [SessionIds -> (0..TerminalRetention) \cup {None}]
    BY <1>1, <1>6 DEF OnUpdate, Shapes
  <1>8. /\ playerSession' \in [Players -> 0..MaxSessions]
        /\ UNCHANGED <<online, inventory, nextSessionId, nextApplyId>>
        /\ nextReconcileId' = nextReconcileId + Cardinality(Starting)
    BY SweepIs
  <1>9. nextReconcileId' \in Nat \ {0}
    BY <1>1, <1>8, StartingCounts DEF Shapes
  <1> QED  BY <1>1, <1>4, <1>5, <1>7, <1>8, <1>9 DEF Shapes

\* What is sent about one session.
LEMMA SweepMailFits ==
  ASSUME ServerInv, OnUpdate, Swept, NEW s \in SessionIds,
         NEW recs, recs = [t \in Starting |-> Begun(t)]
  PROVE  Fit(SweepMail(s, recs))
  <1>1. UNCHANGED nextSessionId
    BY SweepIs
  <1>2. ASSUME s \in ExpiredInvitations
        PROVE  Fit(To(Participants(sessions[s]), Cancelled(s)))
    BY FitNotice
  <1> DEFINE failed == IF s \in TimedOutApplications /\ ~IsTerminal(sessions[s])
                       THEN SendState(s, Fail(sessions[s])) ELSE NoMail
  <1>3. Fit(failed)
    <2>1. CASE s \in TimedOutApplications
      <3>1. IsLive(s)
        BY <2>1, DueSession
      <3>2. s < nextSessionId' /\ sessions[s] \in Session
        BY <1>1, <3>1, LiveSession
      <3>3. Fail(sessions[s]) \in Session
        BY <3>2, SessionCommands DEF SameTerms
      <3>4. sessions'[s] # None => sessions'[s] = Fail(sessions[s])
        BY <2>1 DEF Swept, SweptRecord
      <3>5. Fit(SendState(s, Fail(sessions[s])))
        BY <3>2, <3>3, <3>4, FitSnapshot
      <3> QED  BY <3>5, FitMail
    <2>2. CASE s \notin TimedOutApplications
      BY <2>2, FitMail
    <2> QED  BY <2>1, <2>2
  <1> HIDE DEF failed
  <1>4. ASSUME s \in Starting
        PROVE  Fit(Then(failed, SendReconciliation(s, recs[s], Players)))
    <2>1. recs[s] \in Reconciliation
      BY <1>4, BegunIs
    <2>2. Fit(SendReconciliation(s, recs[s], Players))
      BY <2>1, FitReconciliation
    <2> QED  BY <1>3, <2>2, FitMail
  <1>5. SweepMail(s, recs) = IF s \in ExpiredInvitations THEN To(Participants(sessions[s]), Cancelled(s))
                             ELSE IF s \in Starting
                             THEN Then(failed, SendReconciliation(s, recs[s], Players))
                             ELSE failed
    BY DEF SweepMail, failed
  <1> QED  BY <1>2, <1>3, <1>4, <1>5

LEMMA SweepKeeps ==
  ASSUME ServerInv, OnUpdate
  PROVE  Advances
  <1>1. /\ Swept
        /\ UNCHANGED <<online, inventory, nextSessionId, nextApplyId>>
        /\ nextReconcileId' = nextReconcileId + Cardinality(Starting)
    BY SweepIs
  <1>2. Shapes' /\ Shapes
    BY <1>1, SweptShapes DEF ServerInv
  <1>3. Book' /\ AllAge
    BY <1>1, SweptEntry DEF Book, AllAge
  <1>4. Numbered'
    <2>1. ASSUME NEW s \in SessionIds
          PROVE  Number(s, sessions'[s], applications'[s], reconciliations'[s],
                        nextSessionId', nextApplyId', nextReconcileId')
      <3>1. Number(s, sessions[s], applications[s], reconciliations[s],
                   nextSessionId, nextApplyId, nextReconcileId)
        BY DEF ServerInv, Numbered
      <3>2. Ages(sessions[s], sessions'[s]) /\ SweptRecord(s)
        BY <1>1, SweptEntry DEF Swept
      <3>3. sessions'[s] # None => sessions[s] # None
        BY <3>2 DEF Ages
      <3>4. applications'[s] # None => applications'[s] = applications[s]
        BY <3>2 DEF SweptRecord
      <3>5. reconciliations'[s] # None =>
              reconciliations'[s].id \in 1..(nextReconcileId + Cardinality(Starting) - 1)
        <4>1. CASE s \in Starting /\ s \notin Ending
          BY <3>2, <4>1, BegunIs DEF SweptRecord
        <4>2. CASE s \notin Starting /\ s \notin Ending
          <5>1. reconciliations'[s] = reconciliations[s]
            BY <3>2, <4>2 DEF SweptRecord
          <5>2. Cardinality(Starting) \in Nat /\ nextReconcileId \in Nat
            BY <1>2, StartingCounts DEF Shapes
          <5>3. reconciliations[s] # None => reconciliations[s].id \in 1..(nextReconcileId - 1)
            BY <3>1 DEF Number
          <5> QED  BY <5>1, <5>2, <5>3
        <4>3. CASE s \in Ending
          BY <3>2, <4>3 DEF SweptRecord
        <4> QED  BY <4>1, <4>2, <4>3
      <3>6. s >= nextSessionId => sessions'[s] = None
        BY <3>1, <3>3 DEF Number
      <3>7. applications'[s] # None => applications'[s].id \in 1..(nextApplyId - 1)
        BY <3>1, <3>4 DEF Number
      <3>8. UNCHANGED <<nextSessionId, nextApplyId>>
              /\ nextReconcileId' = nextReconcileId + Cardinality(Starting)
        BY <1>1
      <3>9. reconciliations'[s] # None => reconciliations'[s].id \in 1..(nextReconcileId' - 1)
        <4>1. Cardinality(Starting) \in Nat /\ nextReconcileId \in Nat
          BY <1>2, StartingCounts DEF Shapes
        <4> QED  BY <3>5, <3>8, <4>1
      <3>10. /\ s >= nextSessionId' => sessions'[s] = None
             /\ applications'[s] # None => applications'[s].id \in 1..(nextApplyId' - 1)
        BY <3>6, <3>7, <3>8
      <3> QED  BY <3>9, <3>10 DEF Number
    <2> QED  BY <2>1 DEF Numbered
  <1>5. nextSessionId <= nextSessionId'
    BY <1>1, <1>2 DEF Shapes
  <1>6. Delivered'
    <2> DEFINE D == Current(sessions', nextSessionId')
               recs == [t \in Starting |-> Begun(t)]
               Part(q) == [s \in SessionIds |-> SweepMail(s, recs)[q]]
               mail == [q \in Players |-> FlattenSeq(Part(q))]
    <2>1. ASSUME NEW q \in Players PROVE Part(q) \in Seq(Seq(D))
      <3>1. ASSUME NEW s \in SessionIds PROVE SweepMail(s, recs)[q] \in Seq(D)
        BY <1>1, SweepMailFits DEF Fit
      <3> HIDE DEF D, recs
      <3>2. Part(q) \in [SessionIds -> Seq(D)]
        BY <3>1
      <3> HIDE DEF Part
      <3> QED  BY <3>2, SessionsAssumption DEF SessionIds
    <2>2. ASSUME NEW q \in Players PROVE mail[q] \in Seq(D)
      <3> HIDE DEF D, Part
      <3> QED  BY <2>1, FlattenedItems
    <2>3. Fit(mail)
      BY <2>2 DEF Fit
    <2>4. PostBut(None, mail)
      BY DEF OnUpdate, Post, Starting, Begun
    <2> HIDE DEF mail
    <2> QED  BY <1>2, <1>3, <1>5, <2>3, <2>4, Delivers DEF ServerInv
  <1> QED  BY <1>2, <1>3, <1>4, <1>5, <1>6 DEF ServerInv, Advances

-----------------------------------------------------------------------------
(* Time.                                                                    *)

LEMMA OlderRecords ==
  /\ \A n \in Nat : Less(n) \in Nat /\ Less(n) <= n
  /\ \A ss \in Session : LET tt == [ss EXCEPT !.expiry = Less(@)]
                         IN  SameTerms(ss, tt) /\ tt.confirmed = ss.confirmed /\ tt.state = ss.state
  /\ \A app \in Application : LET new == [app EXCEPT !.deadline = Less(@)]
                              IN  /\ new \in Application /\ new.id = app.id
                                  /\ new.revision = app.revision
                                  /\ new.plan = app.plan /\ new.status = app.status
  /\ \A rec \in Reconciliation : LET new == [rec EXCEPT !.deadline = Less(@)]
                                 IN  /\ new \in Reconciliation /\ new.id = rec.id
                                     /\ new.status = rec.status
  <1>1. \A n \in Nat : Less(n) \in Nat /\ Less(n) <= n
    BY DEF Less
  <1>2. ASSUME NEW ss \in Session
        PROVE  LET tt == [ss EXCEPT !.expiry = Less(@)]
               IN  SameTerms(ss, tt) /\ tt.confirmed = ss.confirmed /\ tt.state = ss.state
    <2>1. ss.expiry \in Nat
      BY DEF Session
    <2> QED  BY <1>1, <2>1 DEF Session, SameTerms
  <1>3. ASSUME NEW app \in Application
        PROVE  LET new == [app EXCEPT !.deadline = Less(@)]
               IN  /\ new \in Application /\ new.id = app.id
                   /\ new.revision = app.revision
                   /\ new.plan = app.plan /\ new.status = app.status
    <2>1. app.deadline \in Nat
      BY DEF Application
    <2> QED  BY <1>1, <2>1 DEF Application
  <1>4. ASSUME NEW rec \in Reconciliation
        PROVE  LET new == [rec EXCEPT !.deadline = Less(@)]
               IN  /\ new \in Reconciliation /\ new.id = rec.id
                   /\ new.status = rec.status
    <2>1. rec.deadline \in Nat
      BY DEF Reconciliation
    <2> QED  BY <1>1, <2>1 DEF Reconciliation
  <1> QED  BY <1>1, <1>2, <1>3, <1>4

\* The session, its application and its reconciliation but for the time left.
Similar(ss, tt, app, new, rec, got) ==
  /\ IF ss = None THEN tt = None
     ELSE /\ ss \in Session /\ tt # None /\ SameTerms(ss, tt)
          /\ tt.confirmed = ss.confirmed /\ tt.state = ss.state
  /\ IF app = None THEN new = None
     ELSE /\ new # None /\ new \in Application /\ new.id = app.id /\ new.revision = app.revision
          /\ new.plan = app.plan /\ new.status = app.status
  /\ IF rec = None THEN got = None
     ELSE got # None /\ got \in Reconciliation /\ got.id = rec.id /\ got.status = rec.status

LEMMA SimilarEntry ==
  ASSUME NEW s, NEW ss, NEW tt, NEW app, NEW new, NEW rec, NEW got, NEW idx,
         Similar(ss, tt, app, new, rec, got), Entry(s, ss, app, rec, idx)
  PROVE  Entry(s, tt, new, got, idx) /\ Ages(ss, tt)
  <1>1. CASE ss = None
    BY <1>1 DEF Similar, Entry, Ages
  <1>2. CASE ss # None
    <2>1. ss \in Session /\ tt # None /\ SameTerms(ss, tt)
            /\ tt.confirmed = ss.confirmed /\ tt.state = ss.state
      BY <1>2 DEF Similar
    <2>2. Participants(tt) = Participants(ss) /\ MutationPlan(tt) = MutationPlan(ss)
            /\ (BothConfirmed(tt) <=> BothConfirmed(ss)) /\ (IsTerminal(tt) <=> IsTerminal(ss))
      BY <2>1, TermsDecide DEF IsTerminal
    <2>3. /\ (new = None <=> app = None) /\ (got = None <=> rec = None)
          /\ app # None => new.revision = app.revision /\ new.plan = app.plan
                            /\ new.status = app.status
          /\ rec # None => got.status = rec.status
      BY DEF Similar
    <2>4. Kept(ss, app, rec) /\ Indexed(s, ss, rec, idx)
      BY <1>2 DEF Entry
    <2>5. tt.initiator = ss.initiator /\ tt.recipient = ss.recipient /\ tt.revision = ss.revision
            /\ tt.offers = ss.offers
      BY <2>1 DEF SameTerms
    <2>6. app # None => Agreed(tt, new)
      BY <2>1, <2>2, <2>3, <2>4, <2>5 DEF Kept, Agreed
    <2>7. Kept(tt, new, got)
      BY <2>1, <2>2, <2>3, <2>4, <2>5, <2>6 DEF Kept
    <2>8. Indexed(s, tt, got, idx)
      BY <2>2, <2>3, <2>4 DEF Indexed, IsParticipant
    <2> QED  BY <1>2, <2>1, <2>5, <2>7, <2>8 DEF Entry, Ages
  <1> QED  BY <1>1, <1>2

LEMMA TickKeeps ==
  ASSUME ServerInv, Tick
  PROVE  Advances
  <1>1. Shapes
    BY DEF ServerInv
  <1>2. ASSUME NEW s \in SessionIds
        PROVE  /\ Similar(sessions[s], sessions'[s], applications[s], applications'[s],
                          reconciliations[s], reconciliations'[s])
    <2>1. sessions'[s] = IF sessions[s] = None THEN None ELSE [sessions[s] EXCEPT !.expiry = Less(@)]
      BY DEF Tick
    <2>2. applications'[s] = IF applications[s] = None THEN None
                             ELSE [applications[s] EXCEPT !.deadline = Less(@)]
      BY DEF Tick
    <2>3. reconciliations'[s] = IF reconciliations[s] = None THEN None
                                ELSE [reconciliations[s] EXCEPT !.deadline = Less(@)]
      BY DEF Tick
    <2>4. sessions[s] # None => /\ sessions[s] \in Session /\ SameTerms(sessions[s], sessions'[s])
                                /\ sessions'[s].confirmed = sessions[s].confirmed
                                /\ sessions'[s].state = sessions[s].state
      BY <1>1, <2>1, OlderRecords DEF Shapes
    <2>5. sessions[s] # None => sessions'[s] # None
      BY <2>4, NoRecord DEF SameTerms
    <2>6. applications[s] # None =>
            /\ applications'[s] \in Application /\ applications'[s].id = applications[s].id
            /\ applications'[s].revision = applications[s].revision
            /\ applications'[s].plan = applications[s].plan
            /\ applications'[s].status = applications[s].status
      BY <1>1, <2>2, OlderRecords DEF Shapes
    <2>7. reconciliations[s] # None =>
            /\ reconciliations'[s] \in Reconciliation
            /\ reconciliations'[s].id = reconciliations[s].id
            /\ reconciliations'[s].status = reconciliations[s].status
      BY <1>1, <2>3, OlderRecords DEF Shapes
    <2> QED  BY <2>1, <2>2, <2>3, <2>4, <2>5, <2>6, <2>7, NoRecord DEF Similar
  <1>3. UNCHANGED <<online, inventory, playerSession, baselines>> /\ UNCHANGED toClient
          /\ UNCHANGED <<nextSessionId, nextApplyId, nextReconcileId>>
    BY DEF Tick, ids
  <1>4. /\ sessions' \in [SessionIds -> Session \cup {None}]
        /\ applications' \in [SessionIds -> Application \cup {None}]
        /\ reconciliations' \in [SessionIds -> Reconciliation \cup {None}]
    <2>1. /\ sessions' = [s \in SessionIds |-> sessions'[s]]
          /\ applications' = [s \in SessionIds |-> applications'[s]]
          /\ reconciliations' = [s \in SessionIds |-> reconciliations'[s]]
      BY DEF Tick
    <2>2. ASSUME NEW s \in SessionIds
          PROVE  /\ sessions'[s] \in Session \cup {None}
                 /\ applications'[s] \in Application \cup {None}
                 /\ reconciliations'[s] \in Reconciliation \cup {None}
      BY <1>2 DEF Similar, SameTerms
    <2> QED  BY <2>1, <2>2
  <1>5. cleanup' \in [SessionIds -> (0..TerminalRetention) \cup {None}]
    <2>1. ASSUME NEW s \in SessionIds
          PROVE  (IF cleanup[s] = None THEN None ELSE Less(cleanup[s]))
                   \in (0..TerminalRetention) \cup {None}
      BY <1>1, DurationAssumption DEF Shapes, Less
    <2> QED  BY <2>1 DEF Tick
  <1>6. Shapes'
    BY <1>1, <1>3, <1>4, <1>5 DEF Shapes
  <1>7. Book' /\ AllAge
    <2>1. ASSUME NEW s \in SessionIds
          PROVE  /\ Entry(s, sessions'[s], applications'[s], reconciliations'[s], playerSession)
                 /\ Ages(sessions[s], sessions'[s])
      <3>1. Entry(s, sessions[s], applications[s], reconciliations[s], playerSession)
        BY DEF ServerInv, Book
      <3> QED  BY <1>2, <3>1, SimilarEntry
    <2> QED  BY <1>3, <2>1 DEF Book, AllAge
  <1>8. Numbered'
    <2>1. ASSUME NEW s \in SessionIds
          PROVE  Number(s, sessions'[s], applications'[s], reconciliations'[s],
                        nextSessionId, nextApplyId, nextReconcileId)
      <3>1. Number(s, sessions[s], applications[s], reconciliations[s],
                   nextSessionId, nextApplyId, nextReconcileId)
        BY DEF ServerInv, Numbered
      <3> QED  BY <1>2, <3>1 DEF Similar, Number
    <2> QED  BY <1>3, <2>1 DEF Numbered
  <1>9. nextSessionId <= nextSessionId'
    BY <1>1, <1>3 DEF Shapes
  <1>10. Delivered'
    BY <1>1, <1>3, <1>6, <1>7, <1>9, StillDelivered DEF ServerInv
  <1> QED  BY <1>6, <1>7, <1>8, <1>9, <1>10 DEF ServerInv, Advances

-----------------------------------------------------------------------------
(* The clients and the links.                                               *)

Requests ==
  [type: {"Invite"}, target: Players]
  \cup [type: {"Response"}, session: Nat, accepted: BOOLEAN]
  \cup [type: {"Offer"}, session: Nat, revision: Nat, offer: Offers \cup {Malformed}]
  \cup [type: {"Confirm"}, session: Nat, revision: Nat]
  \cup [type: {"Cancel"}, session: Nat]
  \cup [type: {"Change"}, item: Items, delta: Int]
  \cup [type: {"Equipment"}, fixed: SUBSET Items]
  \cup [type: {"ApplyResult"}, session: Nat, revision: Nat, apply: Nat, result: Outcomes]
  \cup [type: {"ReconcileResult"}, session: Nat, revision: Nat, apply: Nat, reconcile: Nat,
        result: Outcomes]
View == [session: SessionIds, revision: Nat, state: States, offers: [Players -> Offers]]
AppliedRow == [id: Nat, session: Nat, revision: Nat, result: Outcomes]
ReconciledRow == [id: Nat, session: Nat, revision: Nat, apply: Nat, result: Outcomes]
Client ==
  [invite: Nat, active: Nat, view: View \cup {None}, applied: Seq(AppliedRow),
   reconciled: Seq(ReconciledRow), inv: Inventory]
Allowances == {"repeats", "faults", "changes", "wears", "leaves", "restarts", "upsets"}

Peers ==
  /\ client \in [Players -> Client]
  /\ toServer \in [Players -> Seq(Requests)]
  /\ budget \in [Allowances -> Int]

\* As long as the server is not restarted, what a client shows is true of the
\* session it names.
Shown(v, S, n) == v # None => v.session < n /\ Tells(v, S[v.session])
Views ==
  MaxRestarts = 0 =>
    /\ budget["restarts"] = 0
    /\ \A p \in Players : Shown(client[p].view, sessions, nextSessionId)

TradeInv == ServerInv /\ Peers /\ Views

LEMMA RequestIsLegal ==
  ASSUME NEW r \in Requests
  PROVE  Legal(r)
  BY DEF Requests, Legal

\* What a client shows stays true.
LEMMA StillShown ==
  ASSUME Shapes, Shapes', AllAge, nextSessionId <= nextSessionId',
         NEW v \in View \cup {None}, Shown(v, sessions, nextSessionId)
  PROVE  Shown(v, sessions', nextSessionId')
  <1> SUFFICES ASSUME v # None PROVE v.session < nextSessionId' /\ Tells(v, sessions'[v.session])
    BY DEF Shown
  <1>1. v.session \in SessionIds /\ v.revision \in Nat
    BY DEF View
  <1>2. v.session \in Nat
    BY <1>1, SessionsAssumption DEF SessionIds
  <1>3. v.session < nextSessionId /\ Tells(v, sessions[v.session])
    BY DEF Shown
  <1>4. Ages(sessions[v.session], sessions'[v.session])
    BY <1>1, <1>3 DEF AllAge
  <1>5. sessions[v.session] # None => sessions[v.session].revision \in Nat
    BY <1>1 DEF Shapes, Session
  <1>6. sessions'[v.session] # None => sessions'[v.session].revision \in Nat
    BY <1>1 DEF Shapes, Session
  <1>7. Tells(v, sessions'[v.session])
    BY <1>1, <1>3, <1>4, <1>5, <1>6 DEF Ages, Tells
  <1>8. v.session < nextSessionId'
    BY <1>2, <1>3 DEF Shapes
  <1> QED  BY <1>7, <1>8

\* Spending from the budget.
LEMMA SpendIs ==
  ASSUME budget \in [Allowances -> Int], NEW what \in Allowances, what # "upsets", Spend(what)
  PROVE  /\ budget' \in [Allowances -> Int] /\ budget[what] > 0
         /\ budget'[what] = budget[what] - 1
         /\ \A b \in Allowances \ {what, "upsets"} : budget'[b] = budget[b]
  <1> DEFINE mid == [budget EXCEPT ![what] = budget[what] - 1]
  <1>1. "upsets" \in Allowances /\ budget[what] > 0
    BY DEF Spend, Allowances
  <1>2. budget' = [mid EXCEPT !["upsets"] = mid["upsets"] - 1]
    BY DEF Spend
  <1>3. mid \in [Allowances -> Int] /\ mid[what] = budget[what] - 1
          /\ \A b \in Allowances \ {what} : mid[b] = budget[b]
    OBVIOUS
  <1> HIDE DEF mid
  <1> QED  BY <1>1, <1>2, <1>3

\* The budget for restarts is spent by a restart only.
Thrifty == budget' \in [Allowances -> Int] /\ budget'["restarts"] = budget["restarts"]
LEMMA SpendsNoRestart ==
  ASSUME budget \in [Allowances -> Int],
         UNCHANGED budget \/ \E what \in Allowances \ {"upsets", "restarts"} : Spend(what)
  PROVE  Thrifty
  <1>1. CASE UNCHANGED budget
    BY <1>1 DEF Thrifty
  <1>2. ASSUME NEW what \in Allowances \ {"upsets", "restarts"}, Spend(what)
        PROVE  Thrifty
    <2>1. "restarts" \in Allowances \ {what, "upsets"}
      BY DEF Allowances
    <2> QED  BY <1>2, <2>1, SpendIs DEF Thrifty
  <1> QED  BY <1>1, <1>2

\* A step of the server, with the clients as they are.
LEMMA ServerMoves ==
  ASSUME TradeInv, Advances, UNCHANGED client, toServer' \in [Players -> Seq(Requests)], Thrifty
  PROVE  TradeInv'
  <1>1. Peers'
    BY DEF TradeInv, Peers, Thrifty
  <1>2. Shapes /\ Shapes' /\ AllAge /\ nextSessionId <= nextSessionId' /\ ServerInv'
    BY DEF TradeInv, ServerInv, Advances
  <1>3. ASSUME MaxRestarts = 0, NEW p \in Players
        PROVE  Shown(client'[p].view, sessions', nextSessionId')
    <2>1. client[p].view \in View \cup {None}
      BY DEF TradeInv, Peers, Client
    <2>2. Shown(client[p].view, sessions, nextSessionId)
      BY <1>3 DEF TradeInv, Views
    <2>3. Shown(client[p].view, sessions', nextSessionId')
      BY <1>2, <2>1, <2>2, StillShown
    <2> QED  BY <2>3
  <1>4. Views'
    BY <1>3 DEF Views, TradeInv, Thrifty
  <1> QED  BY <1>1, <1>2, <1>4 DEF TradeInv

\* A step of the clients, with the server as it is.
LEMMA ClientMoves ==
  ASSUME TradeInv, UNCHANGED <<online, inventory, registry, ids>>, Delivered',
         Peers', Thrifty,
         MaxRestarts = 0 => \A p \in Players : Shown(client'[p].view, sessions, nextSessionId)
  PROVE  TradeInv'
  <1>1. online' \subseteq Players /\ inventory' \in [Players -> Inventory] /\ ServerInv
    BY DEF TradeInv, ServerInv, Shapes
  <1>2. Shapes' /\ Book' /\ Numbered'
    BY <1>1, RegistryStays
  <1>3. ServerInv'
    BY <1>2 DEF ServerInv
  <1>4. UNCHANGED sessions /\ UNCHANGED nextSessionId
    BY DEF registry, ids
  <1>5. Views'
    BY <1>4 DEF Views, Thrifty, TradeInv
  <1> QED  BY <1>3, <1>5 DEF TradeInv

\* The link to the server after a request.
LEMMA SentTyped ==
  ASSUME toServer \in [Players -> Seq(Requests)], NEW p \in Players, NEW r \in Requests, Send(p, r)
  PROVE  toServer' \in [Players -> Seq(Requests)]
  <1>1. Append(toServer[p], r) \in Seq(Requests)
    BY SeqItems
  <1> QED  BY <1>1 DEF Send

LEMMA RequestKeeps ==
  ASSUME TradeInv, NEW p \in Players, NEW r \in Requests, Request(p, r)
  PROVE  TradeInv'
  <1>1. toServer' \in [Players -> Seq(Requests)]
    BY SentTyped DEF Request, TradeInv, Peers
  <1>2. UNCHANGED <<serverVars, client, budget>>
    BY DEF Request
  <1>3. Ignore /\ ServerInv
    BY <1>2 DEF Ignore, TradeInv
  <1>4. Advances
    BY <1>3, IgnoreKeeps
  <1>5. Thrifty
    BY <1>2 DEF Thrifty, TradeInv, Peers
  <1> QED  BY <1>1, <1>2, <1>4, <1>5, ServerMoves

\* A change of one client.
LEMMA OneClient ==
  ASSUME TradeInv, NEW p \in Players, NEW d \in Client, client' = [client EXCEPT ![p] = d],
         UNCHANGED <<online, inventory, registry, ids>>, Delivered',
         toServer' \in [Players -> Seq(Requests)], Thrifty,
         MaxRestarts = 0 => Shown(d.view, sessions, nextSessionId)
  PROVE  TradeInv'
  <1>1. client \in [Players -> Client]
    BY DEF TradeInv, Peers
  <1>2. Peers'
    BY <1>1 DEF Peers, Thrifty
  <1>3. ASSUME MaxRestarts = 0, NEW q \in Players
        PROVE  Shown(client'[q].view, sessions, nextSessionId)
    <2>1. Shown(client[q].view, sessions, nextSessionId)
      BY <1>3 DEF TradeInv, Views
    <2>2. CASE q = p
      BY <1>1, <1>3, <2>2
    <2>3. CASE q # p
      BY <1>1, <2>1, <2>3
    <2> QED  BY <2>2, <2>3
  <1> QED  BY <1>2, <1>3, ClientMoves

\* The fields of a client a step changes.
LEMMA ClientFields ==
  ASSUME NEW c \in Client, NEW inv \in Inventory
  PROVE  /\ [c EXCEPT !.inv = inv] \in Client /\ [c EXCEPT !.inv = inv].view = c.view
         /\ \A rows \in Seq(AppliedRow) :
              LET d == [c EXCEPT !.inv = inv, !.applied = rows]
              IN  d \in Client /\ d.view = c.view
         /\ \A rows \in Seq(ReconciledRow) :
              LET d == [c EXCEPT !.inv = inv, !.reconciled = rows]
              IN  d \in Client /\ d.view = c.view
  BY DEF Client

-----------------------------------------------------------------------------
(* What a player does.                                                      *)

LEMMA ActsKeep ==
  ASSUME TradeInv, NEW p \in Players, PlayerActs(p)
  PROVE  TradeInv'
  <1> DEFINE c == client[p]
  <1>0. /\ c \in Client /\ client \in [Players -> Client] /\ c.invite \in Nat /\ c.active \in Nat
        /\ c.view # None => c.view.session \in Nat /\ c.view.revision \in Nat
    <2>1. c \in Client /\ client \in [Players -> Client]
      BY DEF TradeInv, Peers
    <2>2. c.invite \in Nat /\ c.active \in Nat /\ c.view \in View \cup {None}
      BY <2>1 DEF Client
    <2>3. c.view # None => c.view.session \in Nat /\ c.view.revision \in Nat
      BY <2>2, SessionsAssumption DEF View, SessionIds
    <2> QED  BY <2>1, <2>2, <2>3
  <1>1. ASSUME NEW target \in Players, InvitePlayer(p, target) PROVE TradeInv'
    <2>1. [type |-> "Invite", target |-> target] \in Requests
      BY DEF Requests
    <2> QED  BY <1>1, <2>1, RequestKeeps DEF InvitePlayer
  <1>2. ASSUME NEW accepted \in BOOLEAN, RespondToInvite(p, accepted) PROVE TradeInv'
    <2>1. [type |-> "Response", session |-> c.invite, accepted |-> accepted] \in Requests
      BY <1>0 DEF Requests
    <2> QED  BY <1>2, <2>1, RequestKeeps DEF RespondToInvite
  <1>3. ASSUME NEW offer \in OfferChoices, UpdateOffer(p, offer) PROVE TradeInv'
    <2>1. offer \in Offers \cup {Malformed}
      BY ChoiceAssumption
    <2>2. c.view # None
      BY <1>3 DEF UpdateOffer
    <2>3. [type |-> "Offer", session |-> c.view.session, revision |-> c.view.revision,
           offer |-> offer] \in Requests
      BY <1>0, <2>1, <2>2 DEF Requests
    <2> QED  BY <1>3, <2>3, RequestKeeps DEF UpdateOffer
  <1>4. ASSUME ConfirmTrade(p) PROVE TradeInv'
    <2>1. c.view # None
      BY <1>4 DEF ConfirmTrade
    <2>2. [type |-> "Confirm", session |-> c.view.session, revision |-> c.view.revision] \in Requests
      BY <1>0, <2>1 DEF Requests
    <2> QED  BY <1>4, <2>2, RequestKeeps DEF ConfirmTrade
  <1>5. ASSUME CancelTrade(p) PROVE TradeInv'
    <2>1. [type |-> "Cancel", session |-> c.active] \in Requests
      BY <1>0 DEF Requests
    <2> QED  BY <1>5, <2>1, RequestKeeps DEF CancelTrade
  <1>6. ASSUME NEW inv \in Inventory, client' = [client EXCEPT ![p] = [c EXCEPT !.inv = inv]],
               NEW r \in Requests, Send(p, r), UNCHANGED serverVars,
               NEW what \in {"changes", "wears"}, Spend(what)
        PROVE  TradeInv'
    <2> DEFINE d == [c EXCEPT !.inv = inv]
    <2>1. d \in Client /\ d.view = c.view
      BY <1>0, <1>6, ClientFields
    <2>2. client' = [client EXCEPT ![p] = d]
      BY <1>6
    <2> HIDE DEF d
    <2>3. UNCHANGED <<online, inventory, registry, ids>> /\ UNCHANGED toClient
      BY <1>6 DEF serverVars
    <2>4. Delivered'
      BY <2>3 DEF Delivered, TradeInv, ServerInv, registry, ids
    <2>5. toServer' \in [Players -> Seq(Requests)]
      BY <1>6, SentTyped DEF TradeInv, Peers
    <2>6. Thrifty
      <3>1. what \in Allowances \ {"upsets", "restarts"}
        BY DEF Allowances
      <3> QED  BY <1>6, <3>1, SpendsNoRestart DEF TradeInv, Peers
    <2>7. MaxRestarts = 0 => Shown(d.view, sessions, nextSessionId)
      BY <2>1 DEF TradeInv, Views
    <2> QED  BY <2>1, <2>2, <2>3, <2>4, <2>5, <2>6, <2>7, OneClient
  <1>7. ASSUME NEW i \in Items, NEW delta \in {-1, 1}, ChangeItem(p, i, delta) PROVE TradeInv'
    <2> DEFINE count == [c.inv.count EXCEPT ![i] = @ + delta]
               inv == [c.inv EXCEPT !.count = count]
    <2>1. c.inv \in Inventory
      BY <1>0 DEF Client
    <2>2. count \in [Items -> Int]
      BY <2>1 DEF Inventory
    <2>3. client' = [client EXCEPT ![p] = [c EXCEPT !.inv = inv]]
      BY <1>0, <1>7, <2>1 DEF ChangeItem, Client, Inventory
    <2> HIDE DEF count
    <2>4. inv \in Inventory
      BY <2>1, <2>2 DEF Inventory
    <2> HIDE DEF inv
    <2>5. [type |-> "Change", item |-> i, delta |-> delta] \in Requests
      BY DEF Requests
    <2>6. Send(p, [type |-> "Change", item |-> i, delta |-> delta]) /\ UNCHANGED serverVars
            /\ Spend("changes")
      BY <1>7 DEF ChangeItem
    <2> QED  BY <1>6, <2>3, <2>4, <2>5, <2>6
  <1>8. ASSUME NEW fixed \in SUBSET Items, ChangeEquipment(p, fixed) PROVE TradeInv'
    <2> DEFINE inv == [c.inv EXCEPT !.fixed = fixed]
    <2>1. c.inv \in Inventory
      BY <1>0 DEF Client
    <2>2. inv \in Inventory
      BY <2>1 DEF Inventory
    <2>3. client' = [client EXCEPT ![p] = [c EXCEPT !.inv = inv]]
      BY <1>0, <1>8, <2>1 DEF ChangeEquipment, Client, Inventory
    <2> HIDE DEF inv
    <2>4. [type |-> "Equipment", fixed |-> fixed] \in Requests
      BY DEF Requests
    <2>5. Send(p, [type |-> "Equipment", fixed |-> fixed]) /\ UNCHANGED serverVars /\ Spend("wears")
      BY <1>8 DEF ChangeEquipment
    <2> QED  BY <1>6, <2>2, <2>3, <2>4, <2>5
  <1> QED  BY <1>1, <1>2, <1>3, <1>4, <1>5, <1>7, <1>8 DEF PlayerActs

-----------------------------------------------------------------------------
(* What a client does with a message.                                       *)

LEMMA MailFields ==
  ASSUME NEW m \in Mail
  PROVE  /\ m.session \in SessionIds /\ m.session \in Nat
         /\ m.type \in {"Apply", "Reconcile"} => m.revision \in Nat /\ m.apply \in Nat
         /\ m.type = "Apply" => m.delta \in Delta
         /\ m.type = "Reconcile" => m.reconcile \in Nat /\ m.targets \in Quantities
  <1>1. m.session \in SessionIds
    BY DEF Mail
  <1>2. m.session \in Nat
    BY <1>1, SessionsAssumption DEF SessionIds
  <1> QED  BY <1>1, <1>2 DEF Mail

\* The notifications that only change what the client shows.
LEMMA ShowTyped ==
  ASSUME NEW c \in Client, NEW m \in Mail, NEW S, NEW n,
         m.type \in {"Invite", "Started", "Cancelled", "State"},
         m \in Current(S, n)
  PROVE  /\ Show(c, m) \in Client
         /\ Shown(c.view, S, n) => Shown(Show(c, m).view, S, n)
  <1>1. c.invite \in Nat /\ c.active \in Nat /\ c.view \in View \cup {None}
    BY DEF Client
  <1>2. m.session \in Nat
    BY MailFields
  <1>3. CASE m.type = "Invite"
    <2>1. Show(c, m) = [c EXCEPT !.invite = m.session]
      BY <1>3 DEF Show, OnNotifyTradeInvite
    <2>2. Show(c, m) \in Client /\ Show(c, m).view = c.view
      BY <1>2, <2>1 DEF Client
    <2> QED  BY <2>2
  <1>4. CASE m.type = "Started"
    <2> DEFINE i == IF c.invite = m.session THEN 0 ELSE c.invite
    <2>1. Show(c, m) = [c EXCEPT !.invite = i, !.active = m.session]
      BY <1>4 DEF Show, OnNotifyTradeStarted
    <2>2. i \in Nat
      BY <1>1
    <2> HIDE DEF i
    <2>3. Show(c, m) \in Client /\ Show(c, m).view = c.view
      BY <1>2, <2>1, <2>2 DEF Client
    <2> QED  BY <2>3
  <1>5. CASE m.type = "Cancelled"
    <2> DEFINE i == IF c.invite = m.session THEN 0 ELSE c.invite
               a == IF c.active = m.session THEN 0 ELSE c.active
               v == IF c.view = None THEN None ELSE IF c.view.session = m.session THEN None ELSE c.view
    <2>1. Show(c, m) = [c EXCEPT !.invite = i, !.active = a, !.view = v]
      BY <1>5 DEF Show, OnNotifyTradeCancelled
    <2>2. i \in Nat /\ a \in Nat /\ v \in View \cup {None} /\ v \in {None, c.view}
      BY <1>1
    <2> HIDE DEF i, a, v
    <2>3. Show(c, m) \in Client /\ Show(c, m).view = v
      BY <2>1, <2>2 DEF Client
    <2> QED  BY <2>2, <2>3 DEF Shown
  <1>6. CASE m.type = "State"
    <2> DEFINE a == IF IsTerminal(m) THEN 0 ELSE m.session
               v == [session |-> m.session, revision |-> m.revision,
                     state |-> m.state, offers |-> m.offers]
    <2>1. Show(c, m) = [c EXCEPT !.active = a, !.view = v]
      BY <1>6 DEF Show, OnNotifyTradeState
    <2>2. a \in Nat
      BY <1>2
    <2>3. v \in View
      BY <1>6, StateFields DEF View
    <2>4. Shown(v, S, n)
      BY <1>6 DEF Current, Shown, Tells
    <2> HIDE DEF a, v
    <2>5. Show(c, m) \in Client /\ Show(c, m).view = v
      BY <2>1, <2>2, <2>3 DEF Client
    <2> QED  BY <2>4, <2>5
  <1> QED  BY <1>3, <1>4, <1>5, <1>6

\* An attempt leaves an inventory and gives an outcome.
LEMMA AttemptTyped ==
  ASSUME NEW inv \in Inventory, NEW check \in {"SessionMismatch", "Refused", "Ready"},
         NEW todo, NEW after, \A done \in SUBSET todo : after[done] \in Inventory,
         NEW fault \in BOOLEAN, NEW a \in Attempt(inv, check, todo, after, fault)
  PROVE  a.inv \in Inventory /\ a.result \in Outcomes
  <1>1. CASE check # "Ready"
    BY <1>1 DEF Attempt, Outcomes
  <1>2. CASE check = "Ready" /\ ~fault
    <2>1. a = [inv |-> after[todo], result |-> "Success"]
      BY <1>2 DEF Attempt
    <2> QED  BY <2>1 DEF Outcomes
  <1>3. CASE check = "Ready" /\ fault
    <2>1. \/ a = [inv |-> inv, result |-> "LocalPlayerUnavailable"]
          \/ \E done \in SUBSET todo : a = [inv |-> after[done], result |-> "LocalStateMismatch"]
      BY <1>3 DEF Attempt
    <2>2. CASE a = [inv |-> inv, result |-> "LocalPlayerUnavailable"]
      BY <2>2 DEF Outcomes
    <2>3. ASSUME NEW done \in SUBSET todo, a = [inv |-> after[done], result |-> "LocalStateMismatch"]
          PROVE  a.inv \in Inventory /\ a.result \in Outcomes
      BY <2>3 DEF Outcomes
    <2> QED  BY <2>1, <2>2, <2>3
  <1> QED  BY <1>1, <1>2, <1>3

LEMMA RememberTyped ==
  ASSUME NEW S, NEW journal \in Seq(S), NEW row \in S
  PROVE  Remember(journal, row) \in Seq(S)
  <1>1. Len(journal) >= JournalSize => Tail(journal) \in Seq(S)
    BY ChoiceAssumption
  <1> DEFINE rest == IF Len(journal) >= JournalSize THEN Tail(journal) ELSE journal
  <1>2. rest \in Seq(S)
    BY <1>1
  <1> HIDE DEF rest
  <1>3. Append(rest, row) \in Seq(S)
    BY <1>2
  <1> QED  BY <1>3 DEF Remember, rest

\* The state after a message was taken, whatever the client did.
Took(p) ==
  /\ toClient' = [toClient EXCEPT ![p] = Tail(@)]
  /\ UNCHANGED <<online, inventory, registry, ids, sweep, commits>>
LEMMA TookDelivered ==
  ASSUME TradeInv, NEW p \in Players, toClient[p] # <<>>, Took(p)
  PROVE  /\ Delivered' /\ UNCHANGED <<online, inventory, registry, ids>>
         /\ Head(toClient[p]) \in Current(sessions, nextSessionId)
         /\ Head(toClient[p]) \in Mail
  <1> DEFINE D == Current(sessions, nextSessionId)
  <1>1. toClient \in [Players -> Seq(D)]
    BY DEF TradeInv, ServerInv, Delivered
  <1>2. UNCHANGED <<sessions, nextSessionId>>
    BY DEF Took, registry, ids
  <1> HIDE DEF D
  <1>3. Head(toClient[p]) \in D /\ Tail(toClient[p]) \in Seq(D)
    BY <1>1, SeqItems
  <1>4. toClient' \in [Players -> Seq(D)]
    BY <1>1, <1>3 DEF Took
  <1>5. Delivered'
    BY <1>2, <1>4 DEF Delivered, D
  <1> QED  BY <1>3, <1>5 DEF D, Current, Took

\* OnNotifyTradeApply.
LEMMA ApplyKeeps ==
  ASSUME TradeInv, NEW p \in Players, NEW m \in Mail, m.type = "Apply",
         NEW fault \in BOOLEAN, OnNotifyTradeApply(p, m, fault), Thrifty,
         UNCHANGED <<online, inventory, registry, ids>>, Delivered'
  PROVE  TradeInv'
  <1> DEFINE c == client[p]
             todo == Touched(m.delta)
             after == [done \in SUBSET todo |-> Apply(c.inv, m.delta, done)]
             known == Recorded(c.applied, m.apply)
  <1>1. client \in [Players -> Client] /\ c \in Client /\ toServer \in [Players -> Seq(Requests)]
    BY DEF TradeInv, Peers
  <1>2. m.session \in Nat /\ m.revision \in Nat /\ m.apply \in Nat /\ m.delta \in Delta
    BY MailFields
  <1>3. c.inv \in Inventory /\ c.applied \in Seq(AppliedRow)
    BY <1>1 DEF Client
  <1>4. ASSUME NEW result \in Outcomes PROVE ApplyResult(m, result) \in Requests
    BY <1>2 DEF ApplyResult, Requests
  <1>5. MaxRestarts = 0 => Shown(c.view, sessions, nextSessionId)
    BY DEF TradeInv, Views
  <1>6. ASSUME NEW n \in known,
               Send(p, ApplyResult(m, IF c.applied[n].session = m.session
                                           /\ c.applied[n].revision = m.revision
                                      THEN c.applied[n].result ELSE "MalformedPlan")),
               UNCHANGED client
        PROVE  TradeInv'
    <2> DEFINE result == IF c.applied[n].session = m.session /\ c.applied[n].revision = m.revision
                         THEN c.applied[n].result ELSE "MalformedPlan"
    <2>1. c.applied[n] \in AppliedRow
      BY <1>3, <1>6 DEF Recorded
    <2>2. result \in Outcomes
      BY <2>1 DEF AppliedRow, Outcomes
    <2>3. Send(p, ApplyResult(m, result))
      BY <1>6
    <2> HIDE DEF result
    <2>4. toServer' \in [Players -> Seq(Requests)]
      BY <1>1, <1>4, <2>2, <2>3, SentTyped
    <2>5. client' = [client EXCEPT ![p] = c]
      BY <1>1, <1>6
    <2> HIDE DEF c
    <2> QED  BY <1>1, <1>5, <2>4, <2>5, OneClient
  <1>7. ASSUME NEW a \in Attempt(c.inv, ApplyCheck(c, m), todo, after, fault),
               Send(p, ApplyResult(m, a.result)),
               client' = [client EXCEPT
                   ![p].inv = a.inv,
                   ![p].applied = Remember(@, [id |-> m.apply, session |-> m.session,
                                     revision |-> m.revision, result |-> a.result])]
        PROVE  TradeInv'
    <2> DEFINE row == [id |-> m.apply, session |-> m.session, revision |-> m.revision,
                       result |-> a.result]
               rows == Remember(c.applied, row)
               d == [c EXCEPT !.inv = a.inv, !.applied = rows]
    <2>1. \A done \in SUBSET todo : after[done] \in Inventory
      BY <1>2, <1>3, AppliedTyped
    <2>2. ApplyCheck(c, m) \in {"SessionMismatch", "Refused", "Ready"}
      BY DEF ApplyCheck
    <2>3. a.inv \in Inventory /\ a.result \in Outcomes
      <3> HIDE DEF after, todo, c
      <3> QED  BY <1>3, <1>7, <2>1, <2>2, AttemptTyped
    <2>4. row \in AppliedRow
      BY <1>2, <2>3 DEF AppliedRow
    <2>5. client' = [client EXCEPT ![p] = d]
      BY <1>1, <1>7
    <2> HIDE DEF row
    <2>6. rows \in Seq(AppliedRow)
      BY <1>3, <2>4, RememberTyped
    <2> HIDE DEF rows
    <2>7. d \in Client /\ d.view = c.view
      <3> HIDE DEF c
      <3> QED  BY <1>1, <2>3, <2>6, ClientFields, ZenonT(60)
    <2> HIDE DEF d
    <2>8. toServer' \in [Players -> Seq(Requests)]
      BY <1>1, <1>4, <1>7, <2>3, SentTyped
    <2>9. MaxRestarts = 0 => Shown(d.view, sessions, nextSessionId)
      BY <1>5, <2>7
    <2> QED  BY <2>5, <2>7, <2>8, <2>9, OneClient
  <1> QED  BY <1>6, <1>7 DEF OnNotifyTradeApply

\* OnNotifyTradeReconcile.
LEMMA CorrectKeeps ==
  ASSUME TradeInv, NEW p \in Players, NEW m \in Mail, m.type = "Reconcile",
         NEW fault \in BOOLEAN, OnNotifyTradeReconcile(p, m, fault), Thrifty,
         UNCHANGED <<online, inventory, registry, ids>>, Delivered'
  PROVE  TradeInv'
  <1> DEFINE c == client[p]
             todo == {i \in DOMAIN m.targets : m.targets[i] # c.inv.count[i]}
             after == [done \in SUBSET todo |-> Correct(c.inv, m.targets, done)]
             known == Recorded(c.reconciled, m.reconcile)
  <1>1. client \in [Players -> Client] /\ c \in Client /\ toServer \in [Players -> Seq(Requests)]
    BY DEF TradeInv, Peers
  <1>2. m.session \in Nat /\ m.revision \in Nat /\ m.apply \in Nat /\ m.reconcile \in Nat
          /\ m.targets \in Quantities
    BY MailFields
  <1>3. c.inv \in Inventory /\ c.reconciled \in Seq(ReconciledRow)
    BY <1>1 DEF Client
  <1>4. ASSUME NEW result \in Outcomes PROVE ReconcileResult(m, result) \in Requests
    BY <1>2 DEF ReconcileResult, Requests
  <1>5. MaxRestarts = 0 => Shown(c.view, sessions, nextSessionId)
    BY DEF TradeInv, Views
  <1>6. ASSUME NEW n \in known,
               Send(p, ReconcileResult(m, IF /\ c.reconciled[n].session = m.session
                                             /\ c.reconciled[n].revision = m.revision
                                             /\ c.reconciled[n].apply = m.apply
                                          THEN c.reconciled[n].result ELSE "MalformedPlan")),
               UNCHANGED client
        PROVE  TradeInv'
    <2> DEFINE result == IF /\ c.reconciled[n].session = m.session
                            /\ c.reconciled[n].revision = m.revision
                            /\ c.reconciled[n].apply = m.apply
                         THEN c.reconciled[n].result ELSE "MalformedPlan"
    <2>1. c.reconciled[n] \in ReconciledRow
      BY <1>3, <1>6 DEF Recorded
    <2>2. result \in Outcomes
      BY <2>1 DEF ReconciledRow, Outcomes
    <2>3. Send(p, ReconcileResult(m, result))
      BY <1>6
    <2> HIDE DEF result
    <2>4. toServer' \in [Players -> Seq(Requests)]
      BY <1>1, <1>4, <2>2, <2>3, SentTyped
    <2>5. client' = [client EXCEPT ![p] = c]
      BY <1>1, <1>6
    <2> HIDE DEF c
    <2> QED  BY <1>1, <1>5, <2>4, <2>5, OneClient
  <1>7. ASSUME NEW a \in Attempt(c.inv, ReconcileCheck(c, m), todo, after, fault),
               Send(p, ReconcileResult(m, a.result)),
               client' = [client EXCEPT
                   ![p].inv = a.inv,
                   ![p].reconciled = Remember(@, [id |-> m.reconcile, session |-> m.session,
                                       revision |-> m.revision, apply |-> m.apply,
                                       result |-> a.result])]
        PROVE  TradeInv'
    <2> DEFINE row == [id |-> m.reconcile, session |-> m.session, revision |-> m.revision,
                       apply |-> m.apply, result |-> a.result]
               rows == Remember(c.reconciled, row)
               d == [c EXCEPT !.inv = a.inv, !.reconciled = rows]
    <2>1. \A done \in SUBSET todo : after[done] \in Inventory
      BY <1>2, <1>3, CorrectedTyped
    <2>2. ReconcileCheck(c, m) \in {"SessionMismatch", "Refused", "Ready"}
      BY DEF ReconcileCheck
    <2>3. a.inv \in Inventory /\ a.result \in Outcomes
      <3> HIDE DEF after, todo, c
      <3> QED  BY <1>3, <1>7, <2>1, <2>2, AttemptTyped
    <2>4. row \in ReconciledRow
      BY <1>2, <2>3 DEF ReconciledRow
    <2>5. client' = [client EXCEPT ![p] = d]
      BY <1>1, <1>7
    <2> HIDE DEF row
    <2>6. rows \in Seq(ReconciledRow)
      BY <1>3, <2>4, RememberTyped
    <2> HIDE DEF rows
    <2>7. d \in Client /\ d.view = c.view
      <3> HIDE DEF c
      <3> QED  BY <1>1, <2>3, <2>6, ClientFields, ZenonT(60)
    <2> HIDE DEF d
    <2>8. toServer' \in [Players -> Seq(Requests)]
      BY <1>1, <1>4, <1>7, <2>3, SentTyped
    <2>9. MaxRestarts = 0 => Shown(d.view, sessions, nextSessionId)
      BY <1>5, <2>7
    <2> QED  BY <2>5, <2>7, <2>8, <2>9, OneClient
  <1> QED  BY <1>6, <1>7 DEF OnNotifyTradeReconcile

LEMMA ReceiveKeeps ==
  ASSUME TradeInv, NEW p \in Players, Receive(p)
  PROVE  TradeInv'
  <1> DEFINE m == Head(toClient[p])
  <1>1. Took(p) /\ toClient[p] # <<>>
    BY DEF Receive, Took
  <1>2. /\ Delivered' /\ UNCHANGED <<online, inventory, registry, ids>>
        /\ m \in Current(sessions, nextSessionId) /\ m \in Mail
    BY <1>1, TookDelivered
  <1>3. budget \in [Allowances -> Int] /\ client \in [Players -> Client]
          /\ toServer \in [Players -> Seq(Requests)]
    BY DEF TradeInv, Peers
  <1>4. UNCHANGED budget \/ Spend("faults") => Thrifty
    <2>1. "faults" \in Allowances \ {"upsets", "restarts"}
      BY DEF Allowances
    <2> QED  BY <1>3, <2>1, SpendsNoRestart
  <1>5. \/ /\ m.type \in {"Invite", "Started", "Cancelled", "State"}
           /\ client' = [client EXCEPT ![p] = Show(@, m)]
           /\ UNCHANGED <<toServer, budget>>
        \/ m.type = "Apply" /\ \E fault \in BOOLEAN : OnNotifyTradeApply(p, m, fault) /\ Thrifty
        \/ m.type = "Reconcile"
             /\ \E fault \in BOOLEAN : OnNotifyTradeReconcile(p, m, fault) /\ Thrifty
    BY <1>4 DEF Receive
  <1> HIDE DEF m
  <1>6. CASE /\ m.type \in {"Invite", "Started", "Cancelled", "State"}
             /\ client' = [client EXCEPT ![p] = Show(@, m)]
             /\ UNCHANGED <<toServer, budget>>
    <2> DEFINE d == Show(client[p], m)
    <2>1. d \in Client /\ (Shown(client[p].view, sessions, nextSessionId)
                             => Shown(d.view, sessions, nextSessionId))
      BY <1>2, <1>3, <1>6, ShowTyped
    <2>2. client' = [client EXCEPT ![p] = d]
      BY <1>3, <1>6
    <2>3. MaxRestarts = 0 => Shown(d.view, sessions, nextSessionId)
      BY <2>1 DEF TradeInv, Views
    <2>4. toServer' \in [Players -> Seq(Requests)] /\ Thrifty
      BY <1>3, <1>4, <1>6
    <2> HIDE DEF d
    <2> QED  BY <1>2, <2>1, <2>2, <2>3, <2>4, OneClient
  <1>7. ASSUME m.type = "Apply", NEW fault \in BOOLEAN, OnNotifyTradeApply(p, m, fault), Thrifty
        PROVE  TradeInv'
    BY <1>2, <1>7, ApplyKeeps
  <1>8. ASSUME m.type = "Reconcile", NEW fault \in BOOLEAN, OnNotifyTradeReconcile(p, m, fault), Thrifty
        PROVE  TradeInv'
    BY <1>2, <1>8, CorrectKeeps
  <1> QED  BY <1>5, <1>6, <1>7, <1>8

-----------------------------------------------------------------------------
(* The server at work, links and processes.                                 *)

LEMMA ServeKeeps ==
  ASSUME TradeInv, NEW p \in Players, Serve(p)
  PROVE  TradeInv'
  <1>1. toServer \in [Players -> Seq(Requests)] /\ ServerInv /\ budget \in [Allowances -> Int]
    BY DEF TradeInv, Peers
  <1>2. Head(toServer[p]) \in Requests /\ Tail(toServer[p]) \in Seq(Requests)
    BY <1>1, SeqItems DEF Serve
  <1>3. Legal(Head(toServer[p])) /\ Handle(p, Head(toServer[p]))
    BY <1>2, RequestIsLegal DEF Serve
  <1>4. Advances
    BY <1>1, <1>3, HandleKeeps
  <1>5. toServer' \in [Players -> Seq(Requests)]
    BY <1>1, <1>2 DEF Serve
  <1>6. UNCHANGED client /\ Thrifty
    BY <1>1 DEF Serve, Thrifty
  <1> QED  BY <1>4, <1>5, <1>6, ServerMoves

\* A link that delivers a message twice.
LEMMA TwiceTyped ==
  ASSUME NEW S, NEW link \in [Players -> Seq(S)], NEW new, NEW p \in Players, link[p] # <<>>,
         NEW k \in 2..(Len(link[p]) + 1),
         new = [link EXCEPT ![p] = InsertAt(@, k, Head(@))]
  PROVE  new \in [Players -> Seq(S)]
  <1>1. InsertAt(link[p], k, Head(link[p])) \in Seq(S)
    BY InsertedItems
  <1> QED  BY <1>1

LEMMA RepeatedKeeps ==
  ASSUME TradeInv, NEW p \in Players, Repeated(p)
  PROVE  TradeInv'
  <1>1. /\ toServer \in [Players -> Seq(Requests)] /\ ServerInv /\ budget \in [Allowances -> Int]
        /\ client \in [Players -> Client]
    BY DEF TradeInv, Peers
  <1>2. Thrifty
    <2>1. "repeats" \in Allowances \ {"upsets", "restarts"}
      BY DEF Allowances
    <2> QED  BY <1>1, <2>1, SpendsNoRestart DEF Repeated
  <1>3. CASE Twice(toServer, p) /\ UNCHANGED <<serverVars, client>>
    <2>1. toServer' \in [Players -> Seq(Requests)]
      BY <1>1, <1>3, TwiceTyped DEF Twice
    <2>2. Advances
      BY <1>1, <1>3, IgnoreKeeps DEF Ignore
    <2> QED  BY <1>2, <1>3, <2>1, <2>2, ServerMoves
  <1>4. CASE /\ Twice(toClient, p)
             /\ UNCHANGED <<online, inventory, registry, ids, sweep, commits, clientVars>>
    <2> DEFINE D == Current(sessions, nextSessionId)
    <2>1. toClient \in [Players -> Seq(D)]
      BY <1>1 DEF ServerInv, Delivered
    <2>2. UNCHANGED <<sessions, nextSessionId>> /\ UNCHANGED <<client, toServer>>
      BY <1>4 DEF registry, ids, clientVars
    <2> HIDE DEF D
    <2>3. toClient' \in [Players -> Seq(D)]
      BY <1>4, <2>1, TwiceTyped DEF Twice
    <2>4. Delivered'
      BY <2>2, <2>3 DEF Delivered, D
    <2>5. Peers'
      BY <1>1, <1>2, <2>2 DEF Peers, Thrifty
    <2>6. MaxRestarts = 0 => \A q \in Players : Shown(client'[q].view, sessions, nextSessionId)
      BY <2>2 DEF TradeInv, Views
    <2>7. UNCHANGED <<online, inventory, registry, ids>>
      BY <1>4
    <2> QED  BY <1>2, <2>4, <2>5, <2>6, <2>7, ClientMoves
  <1> QED  BY <1>3, <1>4 DEF Repeated

LEMMA LeaveGameKeeps ==
  ASSUME TradeInv, NEW p \in Players, LeaveGame(p)
  PROVE  TradeInv'
  <1>1. toServer \in [Players -> Seq(Requests)] /\ ServerInv /\ budget \in [Allowances -> Int]
    BY DEF TradeInv, Peers
  <1>2. Thrifty
    <2>1. "leaves" \in Allowances \ {"upsets", "restarts"}
      BY DEF Allowances
    <2> QED  BY <1>1, <2>1, SpendsNoRestart DEF LeaveGame
  <1>3. Advances
    BY <1>1, LeaveKeeps DEF LeaveGame
  <1>4. toServer' \in [Players -> Seq(Requests)]
    BY <1>1, SeqItems DEF LeaveGame
  <1> QED  BY <1>2, <1>3, <1>4, ServerMoves DEF LeaveGame

\* The sweep and the clock.
LEMMA ClockKeeps ==
  ASSUME TradeInv, Sweep \/ TimePasses
  PROVE  TradeInv'
  <1>1. toServer \in [Players -> Seq(Requests)] /\ ServerInv /\ budget \in [Allowances -> Int]
    BY DEF TradeInv, Peers
  <1>2. Advances
    BY <1>1, SweepKeeps, TickKeeps DEF Sweep, TimePasses
  <1>3. UNCHANGED client /\ toServer' \in [Players -> Seq(Requests)] /\ Thrifty
    BY <1>1 DEF Sweep, TimePasses, clientVars, Thrifty
  <1> QED  BY <1>2, <1>3, ServerMoves

\* A registry with nothing in it.
LEMMA EmptyRegistry ==
  ASSUME NEW S, S = Nothing
  PROVE  /\ \A T : S \in [SessionIds -> T \cup {None}]
         /\ \A s \in SessionIds : S[s] = None
  BY DEF Nothing

\* A restart is not in the budget, or forgets everything.
LEMMA RestartKeeps ==
  ASSUME TradeInv, Restart
  PROVE  TradeInv'
  <1>1. client \in [Players -> Client] /\ budget \in [Allowances -> Int]
    BY DEF TradeInv, Peers
  <1>2. "restarts" \in Allowances
    BY DEF Allowances
  <1>3. budget' \in [Allowances -> Int] /\ budget["restarts"] > 0
    BY <1>1, <1>2, SpendIs DEF Restart
  <1>4. /\ \A s \in SessionIds : /\ sessions'[s] = None /\ applications'[s] = None
                                 /\ reconciliations'[s] = None
        /\ sessions' \in [SessionIds -> Session \cup {None}]
        /\ applications' \in [SessionIds -> Application \cup {None}]
        /\ baselines' \in [SessionIds -> ForSome(Quantities) \cup {None}]
        /\ reconciliations' \in [SessionIds -> Reconciliation \cup {None}]
        /\ cleanup' \in [SessionIds -> (0..TerminalRetention) \cup {None}]
    BY EmptyRegistry DEF Restart, ServerRestart
  <1>5. playerSession' \in [Players -> 0..MaxSessions] /\ \A p \in Players : playerSession'[p] = 0
    BY SessionsAssumption DEF Restart, ServerRestart
  <1>6. inventory' \in [Players -> Inventory]
    BY <1>1 DEF Restart, Client
  <1>7. nextSessionId' = 1 /\ nextApplyId' = 1 /\ nextReconcileId' = 1 /\ online' = Players
    BY DEF Restart, ServerRestart
  <1>8. Shapes'
    BY <1>4, <1>5, <1>6, <1>7 DEF Shapes
  <1>9. Book'
    BY <1>4, <1>5, SessionsAssumption DEF Book, Entry, SessionIds
  <1>10. Numbered'
    BY <1>4 DEF Numbered, Number
  <1>11. Delivered'
    BY SeqItems DEF Delivered, Restart, ServerRestart
  <1>12. Peers'
    BY <1>1, <1>3, SeqItems DEF Peers, Restart
  <1>13. Views'
    <2>1. MaxRestarts # 0
      BY <1>3 DEF TradeInv, Views
    <2> QED  BY <2>1 DEF Views
  <1> QED  BY <1>8, <1>9, <1>10, <1>11, <1>12, <1>13 DEF TradeInv, ServerInv

-----------------------------------------------------------------------------
(* The invariant holds.                                                     *)

LEMMA InitHolds ==
  ASSUME Init
  PROVE  TradeInv
  <1>1. ServerInit /\ online = Players
    BY DEF Init
  <1>2. /\ \A s \in SessionIds : /\ sessions[s] = None /\ applications[s] = None
                                 /\ reconciliations[s] = None
        /\ sessions \in [SessionIds -> Session \cup {None}]
        /\ applications \in [SessionIds -> Application \cup {None}]
        /\ baselines \in [SessionIds -> ForSome(Quantities) \cup {None}]
        /\ reconciliations \in [SessionIds -> Reconciliation \cup {None}]
        /\ cleanup \in [SessionIds -> (0..TerminalRetention) \cup {None}]
    BY <1>1, EmptyRegistry DEF ServerInit
  <1>3. playerSession \in [Players -> 0..MaxSessions] /\ \A p \in Players : playerSession[p] = 0
    BY <1>1, SessionsAssumption DEF ServerInit
  <1>4. \A p \in Players : [count |-> InitialCount[p], fixed |-> {}] \in Inventory
    BY ChoiceAssumption DEF Inventory
  <1>5. inventory \in [Players -> Inventory]
    BY <1>4 DEF Init
  <1>6. nextSessionId = 1 /\ nextApplyId = 1 /\ nextReconcileId = 1
    BY <1>1 DEF ServerInit
  <1>7. Shapes
    BY <1>1, <1>2, <1>3, <1>5, <1>6 DEF Shapes
  <1>8. Book
    BY <1>2, <1>3, SessionsAssumption DEF Book, Entry, SessionIds
  <1>9. Numbered
    BY <1>2 DEF Numbered, Number
  <1>10. Delivered
    BY <1>1, SeqItems DEF Delivered, ServerInit
  <1>11. ASSUME NEW p \in Players PROVE NewClient(p) \in Client
    <2> DEFINE inv == [count |-> InitialCount[p], fixed |-> {}]
    <2>1. inv \in Inventory
      BY <1>4
    <2>2. NewClient(p) = [invite |-> 0, active |-> 0, view |-> None, applied |-> <<>>,
                          reconciled |-> <<>>, inv |-> inv]
      BY DEF NewClient
    <2> HIDE DEF inv
    <2> QED  BY <2>1, <2>2, SeqItems DEF Client
  <1>12. client \in [Players -> Client] /\ \A p \in Players : client[p].view = None
    BY <1>11 DEF Init, NewClient
  <1>13. budget \in [Allowances -> Int] /\ budget["restarts"] = MaxRestarts
    BY BudgetAssumption DEF Init, Allowances
  <1>14. Peers
    BY <1>12, <1>13, SeqItems DEF Peers, Init
  <1>15. Views
    BY <1>12, <1>13 DEF Views, Shown
  <1> QED  BY <1>7, <1>8, <1>9, <1>10, <1>14, <1>15 DEF TradeInv, ServerInv

LEMMA StutterKeeps ==
  ASSUME TradeInv, UNCHANGED vars
  PROVE  TradeInv'
  <1>1. UNCHANGED <<serverVars, client, toServer, budget>>
    BY DEF vars, clientVars
  <1>2. Advances
    BY <1>1, IgnoreKeeps DEF Ignore, TradeInv
  <1>3. Thrifty /\ toServer' \in [Players -> Seq(Requests)]
    BY <1>1 DEF Thrifty, TradeInv, Peers
  <1> QED  BY <1>1, <1>2, <1>3, ServerMoves

LEMMA NextKeeps ==
  ASSUME TradeInv, [Next]_vars
  PROVE  TradeInv'
  <1>1. ASSUME NEW p \in Players, PlayerActs(p) PROVE TradeInv'
    BY <1>1, ActsKeep
  <1>2. ASSUME NEW p \in Players, Receive(p) PROVE TradeInv'
    BY <1>2, ReceiveKeeps
  <1>3. ASSUME NEW p \in Players, Serve(p) PROVE TradeInv'
    BY <1>3, ServeKeeps
  <1>4. ASSUME NEW p \in Players, Repeated(p) PROVE TradeInv'
    BY <1>4, RepeatedKeeps
  <1>5. ASSUME NEW p \in Players, LeaveGame(p) PROVE TradeInv'
    BY <1>5, LeaveGameKeeps
  <1>6. CASE Sweep \/ TimePasses
    BY <1>6, ClockKeeps
  <1>7. CASE Restart
    BY <1>7, RestartKeeps
  <1>8. CASE UNCHANGED vars
    BY <1>8, StutterKeeps
  <1> QED  BY <1>1, <1>2, <1>3, <1>4, <1>5, <1>6, <1>7, <1>8 DEF Next

\* The inductive invariant: the registry of the server, session by session,
\* the messages on every link, and what the clients show.
THEOREM TradeInvariance == Spec => []TradeInv
  <1>1. Init => TradeInv
    BY InitHolds
  <1>2. TradeInv /\ [Next]_vars => TradeInv'
    BY NextKeeps
  <1> QED  BY <1>1, <1>2, PTL DEF Spec

-----------------------------------------------------------------------------
(* What it implies.                                                         *)

\* What the invariant says of a session with an application or a
\* reconciliation.
LEMMA TradeTypesHold ==
  ASSUME TradeInv
  PROVE  TypeOK
  <1>1. Shapes /\ Book /\ Numbered
    BY DEF TradeInv, ServerInv
  <1>2. ASSUME NEW s \in SessionIds
        PROVE  /\ applications[s] # None =>
                    /\ IsLive(s)
                    /\ applications[s].id \in 1..(nextApplyId - 1)
                    /\ applications[s].status \in [Participants(sessions[s]) -> Statuses]
               /\ reconciliations[s] # None =>
                    /\ IsLive(s)
                    /\ reconciliations[s].id \in 1..(nextReconcileId - 1)
                    /\ reconciliations[s].status \in [Participants(sessions[s]) -> Statuses]
               /\ cleanup[s] \in (0..TerminalRetention) \cup {None}
    <2>1. Entry(s, sessions[s], applications[s], reconciliations[s], playerSession)
      BY <1>1 DEF Book
    <2>2. Number(s, sessions[s], applications[s], reconciliations[s],
                 nextSessionId, nextApplyId, nextReconcileId)
      BY <1>1 DEF Numbered
    <2>3. cleanup[s] \in (0..TerminalRetention) \cup {None}
      BY <1>1 DEF Shapes
    <2> QED  BY <2>1, <2>2, <2>3 DEF Entry, Kept, Agreed, Number, IsLive
  <1> QED  BY <1>1, <1>2 DEF TypeOK, Shapes

\* TradeService.h: every registry holds what its declaration says, and every
\* record belongs to a session that is there.
THEOREM TradeTypes == Spec => []TypeOK
  <1>1. TradeInv => TypeOK
    BY TradeTypesHold
  <1> QED  BY <1>1, TradeInvariance, PTL

\* m_playerSessions is exact in every state: nobody is in two sessions, and
\* nobody is kept busy by a session that is over and settled, whoever leaves,
\* times out, reports late or is swept.
THEOREM Index == Spec => []IndexIsExact
  <1>1. ASSUME TradeInv PROVE IndexIsExact
    <2>1. Shapes /\ Book
      BY <1>1 DEF TradeInv, ServerInv
    <2>2. ASSUME NEW p \in Players, playerSession[p] # 0
          PROVE  /\ IsLive(playerSession[p])
                 /\ IsParticipant(sessions[playerSession[p]], p)
                 /\ IsTerminal(sessions[playerSession[p]]) =>
                      /\ reconciliations[playerSession[p]] # None
                      /\ ~IsSettled(reconciliations[playerSession[p]].status)
      <3> DEFINE s == playerSession[p]
      <3>1. s \in 0..MaxSessions /\ s # 0
        BY <2>1, <2>2 DEF Shapes
      <3>2. s \in SessionIds
        BY <3>1, SessionsAssumption DEF SessionIds
      <3>3. Entry(s, sessions[s], applications[s], reconciliations[s], playerSession)
        BY <2>1, <3>2 DEF Book
      <3>4. sessions[s] # None /\ Indexed(s, sessions[s], reconciliations[s], playerSession)
        BY <3>3 DEF Entry
      <3> QED  BY <3>2, <3>4 DEF Indexed, IsLive
    <2>3. ASSUME NEW s \in SessionIds, IsLive(s)
          PROVE  \/ IsTerminal(sessions[s])
                 \/ \A p \in Participants(sessions[s]) : playerSession[p] = s
      BY <2>1, <2>3 DEF Book, Entry, Indexed, IsLive
    <2> QED  BY <2>2, <2>3 DEF IndexIsExact
  <1> QED  BY <1>1, TradeInvariance, PTL

\* The plan under an application is the exchange of the two offers both
\* participants confirmed at their last revision, in every state.
THEOREM Agreements == Spec => []AppliedIsAgreed
  <1>1. ASSUME TradeInv PROVE AppliedIsAgreed
    <2>1. ASSUME NEW s \in SessionIds, applications[s] # None
          PROVE  sessions[s] # None /\ Agreed(sessions[s], applications[s])
      BY <1>1, <2>1 DEF TradeInv, ServerInv, Book, Entry, Kept
    <2> QED  BY <2>1 DEF AppliedIsAgreed, Agreed, IsLive
  <1> QED  BY <1>1, TradeInvariance, PTL

\* While the server is not restarted, a snapshot a client shows or is about to
\* show at the revision in force shows the offers in force: the revision a
\* player sends with its confirmation names what it saw, whatever was delayed
\* or delivered twice.  A new server process numbers its sessions from 1 again,
\* so a client that shows a session of the old one is outside this.
THEOREM Seen == MaxRestarts = 0 => (Spec => []ConfirmedIsSeen)
  <1> SUFFICES ASSUME MaxRestarts = 0 PROVE Spec => []ConfirmedIsSeen
    OBVIOUS
  <1>1. ASSUME TradeInv PROVE ConfirmedIsSeen
    <2> SUFFICES ASSUME NEW p \in Players, NEW m \in Snapshots(p), IsLive(m.session),
                        m.revision = sessions[m.session].revision
                 PROVE  m.offers = sessions[m.session].offers
      BY DEF ConfirmedIsSeen
    <2>1. sessions[m.session] # None
      BY DEF IsLive
    <2>2. ASSUME NEW k \in 1..Len(toClient[p]), toClient[p][k].type = "State", m = toClient[p][k]
          PROVE  Tells(m, sessions[m.session])
      <3> DEFINE D == Current(sessions, nextSessionId)
      <3>1. toClient[p] \in Seq(D)
        BY <1>1 DEF TradeInv, ServerInv, Delivered
      <3> HIDE DEF D
      <3>2. toClient[p][k] \in D
        BY <2>2, <3>1, SeqItems
      <3> QED  BY <2>2, <3>2 DEF D, Current
    <2>3. ASSUME client[p].view # None, m = client[p].view
          PROVE  Tells(m, sessions[m.session])
      BY <1>1, <2>3 DEF TradeInv, Views, Shown
    <2>4. Tells(m, sessions[m.session])
      BY <2>2, <2>3 DEF Snapshots
    <2> QED  BY <2>1, <2>4 DEF Tells
  <1> QED  BY <1>1, TradeInvariance, PTL

-----------------------------------------------------------------------------
(* What a step does to the inventories.                                     *)

\* A plan that can be applied moves exactly what it says.
LEMMA AppliedCount ==
  ASSUME NEW inv \in Inventory, NEW delta \in Delta, CanApply(inv, delta), NEW i \in Items
  PROVE  Apply(inv, delta, Touched(delta)).count[i] = inv.count[i] + delta[i]
  <1>1. inv.count[i] \in Int /\ delta[i] \in Int
    BY DEF Inventory, Delta
  <1>2. Apply(inv, delta, Touched(delta)).count[i]
          = IF i \in Touched(delta) THEN AddOrRemoveEntry(inv.count[i], delta[i]) ELSE inv.count[i]
    BY DEF Apply, Inventory
  <1>3. CASE i \notin Touched(delta)
    BY <1>1, <1>2, <1>3 DEF Touched
  <1>4. CASE i \in Touched(delta)
    <2>1. inv.count[i] + delta[i] >= 0
      BY <1>4 DEF CanApply
    <2>2. AddOrRemoveEntry(inv.count[i], delta[i]) = inv.count[i] + delta[i]
      BY <1>1, <2>1 DEF AddOrRemoveEntry
    <2> QED  BY <1>2, <1>4, <2>2
  <1> QED  BY <1>3, <1>4

\* CommitMutationPlan: what one participant gets, the other gives.
LEMMA CommitExchanges ==
  ASSUME ServerInv, NEW s, IsLive(s), applications[s] # None,
         CanCommit(applications[s].plan), CommitMutationPlan(applications[s].plan)
  PROVE  \E a, b \in Players : a # b /\ Exchange(a, b)
  <1> DEFINE ss == sessions[s]
             plan == applications[s].plan
             a == ss.initiator
             b == ss.recipient
  <1>1. s \in SessionIds /\ ss \in Session
    BY LiveSession
  <1>2. a \in Players /\ b \in Players /\ ss.offers[a] \in Offers /\ ss.offers[b] \in Offers
    BY <1>1 DEF Session
  <1>3. a # b /\ plan = MutationPlan(ss)
    BY <1>1, SMTT(60) DEF ServerInv, Book, Entry, Kept, Agreed, IsLive
  <1>4. /\ DOMAIN plan = {a, b}
        /\ plan[a] = [i \in Items |-> ss.offers[b][i] - ss.offers[a][i]]
        /\ plan[b] = [i \in Items |-> ss.offers[a][i] - ss.offers[b][i]]
    BY <1>3, ZenonT(60) DEF MutationPlan, Participants, Other
  <1>5. \A i \in Items : ss.offers[a][i] \in Int /\ ss.offers[b][i] \in Int
    BY <1>2, QuantityAssumption DEF Offers
  <1>6. inventory[a] \in Inventory /\ inventory[b] \in Inventory
    BY <1>2 DEF ServerInv, Shapes
  <1>7. CanApply(inventory[a], plan[a]) /\ CanApply(inventory[b], plan[b])
    BY <1>4, SMTT(60) DEF CanCommit
  <1>8. /\ inventory'[a] = Apply(inventory[a], plan[a], Touched(plan[a]))
        /\ inventory'[b] = Apply(inventory[b], plan[b], Touched(plan[b]))
        /\ \A p \in Players \ {a, b} : inventory'[p] = inventory[p]
    BY <1>2, <1>4, SMTT(60) DEF CommitMutationPlan
  <1>9. plan[a] \in Delta /\ plan[b] \in Delta
    BY <1>4, <1>5 DEF Delta
  <1>10. ASSUME NEW i \in Items
         PROVE  /\ inventory[a].count[i] \in Int /\ inventory[b].count[i] \in Int
                /\ plan[a][i] = ss.offers[b][i] - ss.offers[a][i]
                /\ plan[b][i] = ss.offers[a][i] - ss.offers[b][i]
    BY <1>4, <1>6 DEF Inventory
  <1> HIDE DEF plan, a, b, ss
  <1>11. ASSUME NEW i \in Items
         PROVE  inventory'[a].count[i] + inventory'[b].count[i]
                  = inventory[a].count[i] + inventory[b].count[i]
    <2>1. inventory'[a].count[i] = inventory[a].count[i] + plan[a][i]
      BY <1>6, <1>7, <1>8, <1>9, AppliedCount
    <2>2. inventory'[b].count[i] = inventory[b].count[i] + plan[b][i]
      BY <1>6, <1>7, <1>8, <1>9, AppliedCount
    <2> QED  BY <1>5, <1>10, <2>1, <2>2
  <1>12. Exchange(a, b)
    BY <1>8, <1>11 DEF Exchange
  <1> QED  BY <1>2, <1>3, <1>12

\* The handlers of the negotiation leave the inventories alone.
LEMMA NegotiationOwnsNothing ==
  ASSUME NEW p, NEW r,
         \/ OnTradeInviteRequest(p, r) \/ OnTradeInviteResponseRequest(p, r)
         \/ OnTradeOfferUpdateRequest(p, r) \/ OnTradeConfirmRequest(p, r)
         \/ OnTradeCancelRequest(p, r) \/ OnTradeReconcileResultRequest(p, r)
  PROVE  inventory' = inventory
  <1>1. Ignore => inventory' = inventory
    BY DEF Ignore, serverVars
  <1>2. \A mail : Answer(mail) => inventory' = inventory
    BY DEF Answer
  <1>3. \A s, mail : EndSession(s, mail) => inventory' = inventory
    BY DEF EndSession
  <1>4. \A s, after : Update(s, after) => inventory' = inventory
    BY DEF Update
  <1>5. CASE OnTradeInviteRequest(p, r)
    BY <1>1, <1>2, <1>5 DEF OnTradeInviteRequest, CreateSession
  <1>6. CASE OnTradeInviteResponseRequest(p, r)
    BY <1>1, <1>3, <1>6 DEF OnTradeInviteResponseRequest
  <1>7. CASE OnTradeOfferUpdateRequest(p, r)
    BY <1>1, <1>2, <1>4, <1>7 DEF OnTradeOfferUpdateRequest
  <1>8. CASE OnTradeConfirmRequest(p, r)
    BY <1>1, <1>2, <1>3, <1>4, <1>8 DEF OnTradeConfirmRequest, BeginApplication
  <1>9. CASE OnTradeCancelRequest(p, r)
    BY <1>1, <1>2, <1>3, <1>9 DEF OnTradeCancelRequest
  <1>10. CASE OnTradeReconcileResultRequest(p, r)
    BY <1>1, <1>2, <1>10 DEF OnTradeReconcileResultRequest
  <1> QED  BY <1>5, <1>6, <1>7, <1>8, <1>9, <1>10

\* OnTradeApplyResultRequest commits, or leaves them alone.
LEMMA ApplyResultExchanges ==
  ASSUME ServerInv, NEW p, NEW r, OnTradeApplyResultRequest(p, r)
  PROVE  inventory' = inventory \/ \E a, b \in Players : a # b /\ Exchange(a, b)
  <1> DEFINE s == r.session
             app == [applications[s] EXCEPT !.status = Record(@, p, r.result)]
  <1>1. Ignore => inventory' = inventory
    BY DEF Ignore, serverVars
  <1>2. \A mail : Answer(mail) => inventory' = inventory
    BY DEF Answer
  <1>3. SettleFailed(s, app) => inventory' = inventory
    BY DEF SettleFailed
  <1>4. ASSUME IsLive(s), applications[s] # None, CanCommit(applications[s].plan),
               SettleSucceeded(s, app)
        PROVE  \E a, b \in Players : a # b /\ Exchange(a, b)
    <2>1. s \in SessionIds
      BY <1>4 DEF IsLive
    <2>2. applications[s] \in Application
      BY <1>4, <2>1 DEF ServerInv, Shapes
    <2>3. app.plan = applications[s].plan
      BY <2>2 DEF Application
    <2>4. CommitMutationPlan(applications[s].plan)
      BY <1>4, <2>3 DEF SettleSucceeded
    <2> HIDE DEF s
    <2> QED  BY <1>4, <2>4, CommitExchanges
  <1> QED  BY <1>1, <1>2, <1>3, <1>4 DEF OnTradeApplyResultRequest

\* Nothing is created or lost by a trade: the only steps that change an
\* inventory on the server are the game's own traffic, a new process that takes
\* the inventories from the clients, and a commit, which moves between two
\* players what each offered the other.
THEOREM Conserves == Spec => TradesConserve
  <1> DEFINE Moves == \E a, b \in Players : a # b /\ Exchange(a, b)
  <1>1. ASSUME TradeInv, [Next]_vars
        PROVE  [inventory' = inventory \/ OutsideTrades \/ Moves]_vars
    <2>1. ASSUME NEW p \in Players, PlayerActs(p) PROVE inventory' = inventory
      BY <2>1 DEF PlayerActs, InvitePlayer, RespondToInvite, UpdateOffer, ConfirmTrade, CancelTrade,
                  Request, ChangeItem, ChangeEquipment, serverVars
    <2>2. ASSUME NEW p \in Players, Receive(p) PROVE inventory' = inventory
      BY <2>2 DEF Receive
    <2>3. ASSUME NEW p \in Players, Serve(p)
          PROVE  inventory' = inventory \/ OutsideTrades \/ Moves
      <3> DEFINE r == Head(toServer[p])
      <3>1. /\ toServer[p] # <<>> /\ Handle(p, r) /\ ServerInv
            /\ toServer' = [toServer EXCEPT ![p] = Tail(toServer[p])]
            /\ toServer \in [Players -> Seq(Requests)]
        BY <1>1, <2>3 DEF Serve, TradeInv, Peers
      <3>2. toServer'[p] = Tail(toServer[p])
        BY <3>1
      <3>3. CASE r.type \in {"Change", "Equipment"}
        BY <3>1, <3>2, <3>3 DEF OutsideTrades
      <3>4. CASE r.type = "ApplyResult"
        BY <3>1, <3>4, ApplyResultExchanges DEF Handle
      <3>5. CASE r.type \notin {"Change", "Equipment", "ApplyResult"}
        <4> HIDE DEF r
        <4> QED  BY <3>1, <3>5, NegotiationOwnsNothing DEF Handle
      <3> QED  BY <3>3, <3>4, <3>5
    <2>4. ASSUME NEW p \in Players, Repeated(p) PROVE inventory' = inventory
      BY <2>4 DEF Repeated, serverVars
    <2>5. ASSUME NEW p \in Players, LeaveGame(p) PROVE inventory' = inventory
      BY <2>5 DEF LeaveGame, Leave
    <2>6. CASE Sweep
      BY <2>6 DEF Sweep, OnUpdate
    <2>7. CASE TimePasses
      BY <2>7 DEF TimePasses, Tick
    <2>8. CASE Restart
      <3>1. budget \in [Allowances -> Int] /\ "restarts" \in Allowances
        BY <1>1 DEF TradeInv, Peers, Allowances
      <3>2. budget'["restarts"] = budget["restarts"] - 1 /\ budget["restarts"] \in Int
        BY <2>8, <3>1, SpendIs DEF Restart
      <3>3. budget'["restarts"] # budget["restarts"]
        BY <3>2
      <3> QED  BY <3>3 DEF OutsideTrades
    <2> HIDE DEF Moves
    <2> QED  BY <1>1, <2>1, <2>2, <2>3, <2>4, <2>5, <2>6, <2>7, <2>8 DEF Next
  <1>2. TradeInv /\ [Next]_vars => [inventory' = inventory \/ OutsideTrades \/ Moves]_vars
    BY <1>1
  <1> QED  BY <1>2, TradeInvariance, PTL DEF Spec, TradesConserve
-----------------------------------------------------------------------------
(***************************************************************************)
(* How often a plan is committed.  An application is answered once by each  *)
(* participant: from the moment it is sent, its order to apply, or the      *)
(* report on it, is on its way, or the report has been recorded.            *)
(***************************************************************************)
Bears(m, t, a) == m.type = t /\ m.apply = a
Has(q, t, a) == \E n \in DOMAIN q : Bears(q[n], t, a)
AtMostOne(q, t, a) ==
  \A m, n \in DOMAIN q : Bears(q[m], t, a) /\ Bears(q[n], t, a) => m = n

\* Of the messages that matter, r has some of those of q, in the same order.
Watched == {"Apply", "ApplyResult"}
Follows(q, r, f) ==
  /\ f \in [DOMAIN r -> Nat]
  /\ \A i \in DOMAIN r : r[i].type \in Watched =>
       /\ f[i] \in DOMAIN q /\ q[f[i]] = r[i]
       /\ \A j \in DOMAIN r : i < j /\ r[j].type \in Watched => f[i] < f[j]
Thinned(q, r) == \E f : Follows(q, r, f)

LEMMA ThinnedHas ==
  ASSUME NEW S, NEW q \in Seq(S), NEW r \in Seq(S), Thinned(q, r), NEW t \in Watched, NEW a
  PROVE  /\ Has(r, t, a) => Has(q, t, a)
         /\ AtMostOne(q, t, a) => AtMostOne(r, t, a)
  <1>1. PICK f : Follows(q, r, f)
    BY DEF Thinned
  <1>2. DOMAIN r \subseteq Nat
    OBVIOUS
  <1>3. Has(r, t, a) => Has(q, t, a)
    BY <1>1 DEF Has, Bears, Follows
  <1>4. ASSUME AtMostOne(q, t, a), NEW m \in DOMAIN r, NEW n \in DOMAIN r,
               Bears(r[m], t, a), Bears(r[n], t, a)
        PROVE  m = n
    <2>1. /\ f[m] \in DOMAIN q /\ q[f[m]] = r[m] /\ f[n] \in DOMAIN q /\ q[f[n]] = r[n]
          /\ f[m] \in Nat /\ f[n] \in Nat
          /\ m < n => f[m] < f[n]
          /\ n < m => f[n] < f[m]
      BY <1>1, <1>4 DEF Bears, Follows
    <2>2. f[m] = f[n]
      BY <1>4, <2>1 DEF AtMostOne
    <2>3. ~(m < n) /\ ~(n < m)
      BY <2>1, <2>2
    <2> QED  BY <1>2, <2>3
  <1> QED  BY <1>3, <1>4 DEF AtMostOne

LEMMA ThinnedSame ==
  ASSUME NEW S, NEW q \in Seq(S)
  PROVE  Thinned(q, q) /\ Thinned(q, <<>>)
  <1>1. Follows(q, q, [i \in DOMAIN q |-> i])
    BY DEF Follows
  <1>2. Follows(q, <<>>, [i \in DOMAIN <<>> |-> 0])
    BY DEF Follows
  <1> QED  BY <1>1, <1>2 DEF Thinned

LEMMA ThinnedTail ==
  ASSUME NEW S, NEW q \in Seq(S), q # <<>>
  PROVE  Thinned(q, Tail(q))
  <1> DEFINE f == [i \in DOMAIN Tail(q) |-> i + 1]
  <1>1. ASSUME NEW i \in DOMAIN Tail(q)
        PROVE  i \in Nat /\ i + 1 \in DOMAIN q /\ q[i + 1] = Tail(q)[i] /\ f[i] = i + 1
    OBVIOUS
  <1> HIDE DEF f
  <1>2. f \in [DOMAIN Tail(q) -> Nat]
    BY <1>1 DEF f
  <1>3. Follows(q, Tail(q), f)
    BY <1>1, <1>2 DEF Follows
  <1> QED  BY <1>3 DEF Thinned

LEMMA ThinnedMore ==
  ASSUME NEW S, NEW q \in Seq(S), NEW v \in Seq(S), \A n \in DOMAIN v : v[n].type \notin Watched
  PROVE  Thinned(q, q \o v)
  <1> DEFINE r == q \o v
             f == [i \in DOMAIN r |-> i]
  <1>1. ASSUME NEW i \in DOMAIN r, r[i].type \in Watched
        PROVE  i \in DOMAIN q /\ q[i] = r[i]
    <2>1. i \in 1..(Len(q) + Len(v)) /\ Len(q) \in Nat /\ Len(v) \in Nat
      OBVIOUS
    <2>2. CASE i <= Len(q)
      BY <2>1, <2>2
    <2>3. CASE i > Len(q)
      <3>1. i - Len(q) \in DOMAIN v /\ r[i] = v[i - Len(q)]
        BY <2>1, <2>3
      <3> QED  BY <1>1, <3>1
    <2> QED  BY <2>1, <2>2, <2>3
  <1>2. f \in [DOMAIN r -> Nat] /\ \A i \in DOMAIN r : f[i] = i
    OBVIOUS
  <1> HIDE DEF f, r
  <1>3. Follows(q, r, f)
    BY <1>1, <1>2 DEF Follows
  <1> QED  BY <1>3 DEF Thinned, r

\* A message that is delivered twice is none of them.
LEMMA ThinnedTwice ==
  ASSUME NEW S, NEW q \in Seq(S), q # <<>>, Head(q).type \notin Watched,
         NEW k \in 2..(Len(q) + 1)
  PROVE  Thinned(q, InsertAt(q, k, Head(q)))
  <1> DEFINE r == InsertAt(q, k, Head(q))
             f == [i \in DOMAIN r |-> IF i < k THEN i ELSE IF i = k THEN 0 ELSE i - 1]
  <1>1. /\ Len(q) \in Nat /\ k \in Nat /\ DOMAIN r = 1..(Len(q) + 1)
        /\ \A i \in 1..(Len(q) + 1) :
             r[i] = IF i < k THEN q[i] ELSE IF i = k THEN Head(q) ELSE q[i - 1]
    <2> DEFINE u == SubSeq(q, 1, k - 1)
               w == SubSeq(q, k, Len(q))
    <2>1. /\ Len(q) \in Nat /\ k \in Nat /\ k >= 2 /\ k <= Len(q) + 1
      OBVIOUS
    <2>2. u \in Seq(S) /\ Len(u) = k - 1 /\ \A i \in 1..(k - 1) : u[i] = q[i]
      BY <2>1
    <2>3. w \in Seq(S) /\ Len(w) = Len(q) - k + 1 /\ \A i \in 1..(Len(q) - k + 1) : w[i] = q[k + i - 1]
      BY <2>1
    <2>4. r = (u \o <<Head(q)>>) \o w
      BY DEF InsertAt
    <2>5. Head(q) \in S
      OBVIOUS
    <2> HIDE DEF u, w, r
    <2> DEFINE h == u \o <<Head(q)>>
    <2>6. h \in Seq(S) /\ Len(h) = k /\ h[k] = Head(q) /\ \A i \in 1..(k - 1) : h[i] = q[i]
      BY <2>1, <2>2, <2>5
    <2> HIDE DEF h
    <2>7. /\ Len(r) = Len(q) + 1 /\ r \in Seq(S)
          /\ \A i \in 1..k : r[i] = h[i]
          /\ \A i \in (k + 1)..(Len(q) + 1) : r[i] = w[i - k]
      BY <2>1, <2>3, <2>4, <2>6 DEF h
    <2>8. ASSUME NEW i \in (k + 1)..(Len(q) + 1) PROVE r[i] = q[i - 1]
      <3>1. i - k \in 1..(Len(q) - k + 1) /\ k + (i - k) - 1 = i - 1
        BY <2>1
      <3> QED  BY <2>3, <2>7, <3>1
    <2>9. DOMAIN r = 1..(Len(q) + 1)
      BY <2>7
    <2>10. ASSUME NEW i \in 1..(Len(q) + 1)
           PROVE  r[i] = IF i < k THEN q[i] ELSE IF i = k THEN Head(q) ELSE q[i - 1]
      <3>1. CASE i < k
        BY <2>1, <2>6, <2>7, <3>1
      <3>2. CASE i = k
        BY <2>1, <2>6, <2>7, <3>2
      <3>3. CASE i > k
        BY <2>1, <2>8, <3>3
      <3> QED  BY <2>1, <3>1, <3>2, <3>3
    <2> QED  BY <2>1, <2>9, <2>10
  <1>2. f \in [DOMAIN r -> Nat]
        /\ \A i \in DOMAIN r : f[i] = IF i < k THEN i ELSE IF i = k THEN 0 ELSE i - 1
    BY <1>1
  <1> HIDE DEF f, r
  <1>3. ASSUME NEW i \in DOMAIN r, r[i].type \in Watched
        PROVE  i # k /\ f[i] \in DOMAIN q /\ q[f[i]] = r[i]
    <2>1. i # k
      BY <1>1, <1>3
    <2>2. DOMAIN q = 1..Len(q)
      OBVIOUS
    <2> QED  BY <1>1, <1>2, <2>1, <2>2
  <1>4. Follows(q, r, f)
    <2>1. ASSUME NEW i \in DOMAIN r, NEW j \in DOMAIN r, i # k, j # k, i < j
          PROVE  f[i] < f[j]
      BY <1>1, <1>2, <2>1
    <2> QED  BY <1>2, <1>3, <2>1 DEF Follows
  <1> QED  BY <1>4 DEF Thinned, r

\* One queue after another.
LEMMA HasMore ==
  ASSUME NEW S, NEW q \in Seq(S), NEW v \in Seq(S), NEW t, NEW a
  PROVE  /\ Has(q \o v, t, a) => Has(q, t, a) \/ Has(v, t, a)
         /\ AtMostOne(q, t, a) /\ AtMostOne(v, t, a) /\ ~(Has(q, t, a) /\ Has(v, t, a))
              => AtMostOne(q \o v, t, a)
  <1> DEFINE r == q \o v
  <1>1. Len(q) \in Nat /\ Len(v) \in Nat
    OBVIOUS
  <1>2. ASSUME NEW i \in DOMAIN r
        PROVE  \/ i \in DOMAIN q /\ r[i] = q[i]
               \/ i - Len(q) \in DOMAIN v /\ r[i] = v[i - Len(q)] /\ i \in Nat
    <2>1. i \in 1..(Len(q) + Len(v))
      OBVIOUS
    <2>2. CASE i <= Len(q)
      BY <1>1, <2>1, <2>2
    <2>3. CASE i > Len(q)
      BY <1>1, <2>1, <2>3
    <2> QED  BY <1>1, <2>1, <2>2, <2>3
  <1> HIDE DEF r
  <1>3. Has(r, t, a) => Has(q, t, a) \/ Has(v, t, a)
    BY <1>2 DEF Has
  <1>4. ASSUME AtMostOne(q, t, a), AtMostOne(v, t, a), ~(Has(q, t, a) /\ Has(v, t, a)),
               NEW m \in DOMAIN r, NEW n \in DOMAIN r, Bears(r[m], t, a), Bears(r[n], t, a)
        PROVE  m = n
    <2>1. CASE Has(q, t, a)
      <3>1. ASSUME NEW i \in DOMAIN r, Bears(r[i], t, a) PROVE i \in DOMAIN q /\ r[i] = q[i]
        BY <1>2, <1>4, <2>1, <3>1 DEF Has
      <3> QED  BY <1>4, <3>1 DEF AtMostOne
    <2>2. CASE ~Has(q, t, a)
      <3>1. ASSUME NEW i \in DOMAIN r, Bears(r[i], t, a)
            PROVE  i - Len(q) \in DOMAIN v /\ r[i] = v[i - Len(q)] /\ i \in Nat
        BY <1>2, <2>2, <3>1 DEF Has
      <3>2. m - Len(q) = n - Len(q)
        BY <1>4, <3>1 DEF AtMostOne
      <3> QED  BY <1>1, <1>4, <3>1, <3>2
    <2> QED  BY <2>1, <2>2
  <1> QED  BY <1>3, <1>4 DEF AtMostOne, r

\* What is first in a queue is not in the rest of it.
LEMMA HeadOnly ==
  ASSUME NEW S, NEW q \in Seq(S), q # <<>>, NEW t, NEW a, AtMostOne(q, t, a), Bears(Head(q), t, a)
  PROVE  Has(q, t, a) /\ ~Has(Tail(q), t, a)
  <1>1. 1 \in DOMAIN q /\ q[1] = Head(q)
    OBVIOUS
  <1>2. ASSUME NEW i \in DOMAIN Tail(q)
        PROVE  i + 1 \in DOMAIN q /\ q[i + 1] = Tail(q)[i] /\ i + 1 # 1
    OBVIOUS
  <1> QED  BY <1>1, <1>2 DEF Has, AtMostOne

-----------------------------------------------------------------------------
(* The invariant.                                                           *)

\* The order to apply a and the report on it are at most once on the links of
\* a player, and never both; while one is, the report was not recorded.
Token(in, out, a) ==
  /\ AtMostOne(in, "Apply", a) /\ AtMostOne(out, "ApplyResult", a)
  /\ ~(Has(in, "Apply", a) /\ Has(out, "ApplyResult", a))
Asked(p, a) == Has(toClient[p], "Apply", a) \/ Has(toServer[p], "ApplyResult", a)
Awaited(p, a) ==
  \A s \in SessionIds :
    /\ applications[s] # None /\ applications[s].id = a /\ p \in DOMAIN applications[s].status
    => applications[s].status[p] = "Pending"
Ordered ==
  \A p \in Players, a \in Nat :
    /\ Token(toClient[p], toServer[p], a)
    /\ Asked(p, a) => a < nextApplyId /\ Awaited(p, a)

\* What a session, its application and its reconciliation say of the number of
\* commits c; n is the next session id.
Fine(s, ss, app, rec, c, n) ==
  /\ s >= n => c = 0
  /\ ss # None =>
       /\ c \in {0, 1}
       /\ ss.state = "Completed" => c = 1
       /\ c = 1 => /\ ss.state \in {"Completed", "Failed"} /\ rec = None
                   /\ app # None /\ AllSucceeded(app.status)
Committed ==
  /\ commits \in [SessionIds -> Int]
  /\ \A s \in SessionIds : Fine(s, sessions[s], applications[s], reconciliations[s], commits[s],
                                nextSessionId)
OnceInv == Ordered /\ Committed

-----------------------------------------------------------------------------
(* What a step does to the links.                                           *)
Fewer ==
  \A p \in Players, a \in Nat :
    Token(toClient'[p], toServer'[p], a) /\ (Asked(p, a)' => Asked(p, a))
Thins(link, new) == \A p \in Players : Thinned(link[p], new[p])

LEMMA ThinsFewer ==
  ASSUME TradeInv, Ordered, Thins(toClient, toClient'), Thins(toServer, toServer'),
         TradeInv'
  PROVE  Fewer
  <1> SUFFICES ASSUME NEW p \in Players, NEW a \in Nat
               PROVE  Token(toClient'[p], toServer'[p], a) /\ (Asked(p, a)' => Asked(p, a))
    BY DEF Fewer
  <1>1. /\ toClient[p] \in Seq(Mail) /\ toClient'[p] \in Seq(Mail)
        /\ toServer[p] \in Seq(Requests) /\ toServer'[p] \in Seq(Requests)
    BY SeqGrows DEF TradeInv, ServerInv, Delivered, Current, Peers
  <1>2. "Apply" \in Watched /\ "ApplyResult" \in Watched
    BY DEF Watched
  <1>3. /\ Has(toClient'[p], "Apply", a) => Has(toClient[p], "Apply", a)
        /\ AtMostOne(toClient[p], "Apply", a) => AtMostOne(toClient'[p], "Apply", a)
    BY <1>1, <1>2, ThinnedHas DEF Thins
  <1>4. /\ Has(toServer'[p], "ApplyResult", a) => Has(toServer[p], "ApplyResult", a)
        /\ AtMostOne(toServer[p], "ApplyResult", a) => AtMostOne(toServer'[p], "ApplyResult", a)
    BY <1>1, <1>2, ThinnedHas DEF Thins
  <1>5. Token(toClient[p], toServer[p], a)
    BY DEF Ordered
  <1> QED  BY <1>3, <1>4, <1>5 DEF Token, Asked

\* The applications keep their identities and their reports, but for the report
\* of p on the application a.
SameBut(p, a) ==
  \A s \in SessionIds : applications'[s] # None =>
    /\ applications[s] # None /\ applications'[s].id = applications[s].id
    /\ \A q \in DOMAIN applications'[s].status :
         /\ q \in DOMAIN applications[s].status
         /\ \/ applications'[s].status[q] = applications[s].status[q]
            \/ q = p /\ a = applications[s].id

LEMMA OrderedStays ==
  ASSUME Ordered, Fewer, nextApplyId \in Nat, nextApplyId' \in Nat, nextApplyId <= nextApplyId',
         NEW p, NEW a, SameBut(p, a), ~Asked(p, a)' \/ UNCHANGED applications
  PROVE  Ordered'
  <1> SUFFICES ASSUME NEW q \in Players, NEW b \in Nat, Asked(q, b)'
               PROVE  b < nextApplyId' /\ Awaited(q, b)'
    BY DEF Ordered, Fewer
  <1>1. Asked(q, b) /\ b < nextApplyId /\ Awaited(q, b)
    BY DEF Fewer, Ordered
  <1>2. CASE UNCHANGED applications
    BY <1>1, <1>2 DEF Awaited
  <1>3. CASE ~Asked(p, a)'
    <2> SUFFICES ASSUME NEW s \in SessionIds, applications'[s] # None, applications'[s].id = b,
                        q \in DOMAIN applications'[s].status
                 PROVE  applications'[s].status[q] = "Pending"
      BY <1>1 DEF Awaited
    <2>1. ~(q = p /\ a = b)
      BY <1>3
    <2>2. /\ applications[s] # None /\ applications[s].id = b
          /\ q \in DOMAIN applications[s].status
          /\ applications'[s].status[q] = applications[s].status[q]
      BY <2>1 DEF SameBut
    <2> QED  BY <1>1, <2>2 DEF Awaited
  <1> QED  BY <1>2, <1>3

\* A mail without an order to apply.
Plain(mail) ==
  \E S : (\A m \in S : m.type \notin Watched) /\ \A q \in Players : mail[q] \in Seq(S)

LEMMA PlainPost ==
  ASSUME ServerInv, NEW gone, NEW mail, Plain(mail), PostBut(gone, mail)
  PROVE  Thins(toClient, toClient')
  <1>1. PICK S : (\A m \in S : m.type \notin Watched) /\ \A q \in Players : mail[q] \in Seq(S)
    BY DEF Plain
  <1>2. ASSUME NEW q \in Players PROVE Thinned(toClient[q], toClient'[q])
    <2> DEFINE T == Mail \cup S
    <2>1. toClient[q] \in Seq(T)
      BY SeqGrows DEF ServerInv, Delivered, Current
    <2>2. mail[q] \in Seq(T) /\ \A n \in DOMAIN mail[q] : mail[q][n].type \notin Watched
      <3>1. mail[q] \in Seq(S)
        BY <1>1
      <3>2. \A n \in DOMAIN mail[q] : mail[q][n] \in S
        BY <3>1
      <3> QED  BY <1>1, <3>1, <3>2, SeqGrows
    <2> HIDE DEF T
    <2>3. toClient'[q] \in {<<>>, toClient[q] \o mail[q], toClient[q]}
      BY DEF PostBut
    <2> QED  BY <2>1, <2>2, <2>3, ThinnedSame, ThinnedMore
  <1> QED  BY <1>2 DEF Thins

LEMMA ShortSeq ==
  ASSUME NEW S, NEW x \in S
  PROVE  <<x>> \in Seq(S) /\ <<>> \in Seq(S)
  OBVIOUS

LEMMA PlainMails ==
  /\ Plain(NoMail)
  /\ \A who, m : m.type \notin Watched => Plain(To(who, m))
  /\ \A a, b : Plain(a) /\ Plain(b) => Plain(Then(a, b))
  /\ \A s, rec, who : Plain(SendReconciliation(s, rec, who))
  <1>1. Plain(NoMail)
    <2>1. \A q \in Players : NoMail[q] \in Seq({})
      BY SeqItems DEF NoMail
    <2> QED  BY <2>1 DEF Plain
  <1>2. ASSUME NEW who, NEW m, m.type \notin Watched PROVE Plain(To(who, m))
    <2>1. <<m>> \in Seq({m}) /\ <<>> \in Seq({m})
      BY ShortSeq
    <2>2. \A q \in Players : To(who, m)[q] \in Seq({m})
      BY <2>1 DEF To
    <2> QED  BY <1>2, <2>2 DEF Plain
  <1>3. ASSUME NEW a, NEW b, Plain(a), Plain(b) PROVE Plain(Then(a, b))
    <2>1. PICK S : (\A m \in S : m.type \notin Watched) /\ \A q \in Players : a[q] \in Seq(S)
      BY <1>3 DEF Plain
    <2>2. PICK T : (\A m \in T : m.type \notin Watched) /\ \A q \in Players : b[q] \in Seq(T)
      BY <1>3 DEF Plain
    <2>3. ASSUME NEW q \in Players PROVE Then(a, b)[q] \in Seq(S \cup T)
      <3>1. a[q] \in Seq(S \cup T) /\ b[q] \in Seq(S \cup T)
        BY <2>1, <2>2, SeqGrows
      <3>2. Then(a, b)[q] = a[q] \o b[q]
        BY DEF Then
      <3> QED  BY <3>1, <3>2, SeqItems
    <2>4. \A m \in S \cup T : m.type \notin Watched
      BY <2>1, <2>2
    <2> QED  BY <2>3, <2>4 DEF Plain
  <1>4. ASSUME NEW s, NEW rec, NEW who PROVE Plain(SendReconciliation(s, rec, who))
    <2> DEFINE M(q) == [type |-> "Reconcile", session |-> s, revision |-> rec.revision,
                        apply |-> rec.apply, reconcile |-> rec.id, targets |-> rec.targets[q]]
               S == {M(q) : q \in Players}
    <2>1. \A m \in S : m.type \notin Watched
      BY DEF Watched
    <2>2. ASSUME NEW q \in Players
          PROVE  M(q) \in S /\ SendReconciliation(s, rec, who)[q] \in {<<M(q)>>, <<>>}
      BY DEF SendReconciliation
    <2> HIDE DEF M, S
    <2>3. ASSUME NEW q \in Players PROVE SendReconciliation(s, rec, who)[q] \in Seq(S)
      <3>1. <<M(q)>> \in Seq(S) /\ <<>> \in Seq(S)
        BY <2>2, ShortSeq
      <3> QED  BY <2>2, <3>1
    <2> QED  BY <2>1, <2>3 DEF Plain
  <1> QED  BY <1>1, <1>2, <1>3, <1>4

LEMMA PlainNotices ==
  ASSUME NEW s, NEW who, NEW ss
  PROVE  /\ Plain(To(who, Invite(s))) /\ Plain(To(who, Started(s))) /\ Plain(To(who, Cancelled(s)))
         /\ Plain(To(who, Snapshot(s, ss))) /\ Plain(SendState(s, ss))
  <1>1. /\ Invite(s).type \notin Watched /\ Started(s).type \notin Watched
        /\ Cancelled(s).type \notin Watched /\ Snapshot(s, ss).type \notin Watched
    BY DEF Invite, Started, Cancelled, Snapshot, Watched
  <1> QED  BY <1>1, PlainMails DEF SendState

\* The links that are as they were.
LEMMA SameThins ==
  ASSUME NEW S, NEW link \in [Players -> Seq(S)]
  PROVE  Thins(link, link)
  BY ThinnedSame DEF Thins

-----------------------------------------------------------------------------
(* What a step does to the number of commits.                               *)

LEMMA FineStays ==
  ASSUME NEW s \in Nat, NEW ss, NEW app, NEW rec, NEW c, NEW n \in Nat, NEW m \in Nat, n <= m,
         Fine(s, ss, app, rec, c, n)
  PROVE  Fine(s, ss, app, rec, c, m)
  <1>1. s >= m => s >= n
    OBVIOUS
  <1> QED  BY <1>1 DEF Fine

\* The other sessions are as they were.
Beside(s) ==
  \A t \in SessionIds \ {s} :
    /\ sessions'[t] = sessions[t] /\ applications'[t] = applications[t]
    /\ reconciliations'[t] = reconciliations[t] /\ commits'[t] = commits[t]
FineAt(s) == Fine(s, sessions[s], applications[s], reconciliations[s], commits[s],
                  nextSessionId)

LEMMA OneCommitted ==
  ASSUME ServerInv, Committed,
         nextSessionId' \in Nat, nextSessionId <= nextSessionId', NEW s \in SessionIds, Beside(s),
         commits' \in [SessionIds -> Int], FineAt(s)'
  PROVE  Committed'
  <1>1. nextSessionId \in Nat
    BY DEF ServerInv, Shapes
  <1>2. ASSUME NEW t \in SessionIds \ {s} PROVE FineAt(t)'
    <2>1. FineAt(t) /\ t \in Nat
      BY SessionsAssumption DEF Committed, FineAt, SessionIds
    <2> QED  BY <1>1, <1>2, <2>1, FineStays DEF FineAt, Beside
  <1> QED  BY <1>2 DEF Committed, FineAt

LEMMA SameCommitted ==
  ASSUME ServerInv, Committed,
         UNCHANGED <<sessions, applications, reconciliations, commits, nextSessionId>>
  PROVE  Committed'
  <1>1. nextSessionId \in Nat
    BY DEF ServerInv, Shapes
  <1>2. ASSUME NEW t \in SessionIds PROVE FineAt(t)'
    <2>1. FineAt(t) /\ t \in Nat
      BY SessionsAssumption DEF Committed, FineAt, SessionIds
    <2> QED  BY <1>1, <1>2, <2>1, FineStays DEF FineAt
  <1> QED  BY <1>2 DEF Committed, FineAt

\* A step of the server that sends no order to apply, and records at most the
\* report of p on the application a.
Mild(p, a) ==
  /\ Committed' /\ SameBut(p, a) /\ Thins(toClient, toClient') /\ nextApplyId' = nextApplyId

LEMMA SameReports ==
  ASSUME NEW p, NEW a,
         \A s \in SessionIds : applications'[s] \in {None, applications[s]}
  PROVE  SameBut(p, a)
  BY DEF SameBut

LEMMA ToClientSame ==
  ASSUME ServerInv, UNCHANGED toClient
  PROVE  Thins(toClient, toClient')
  BY SameThins DEF ServerInv, Delivered

LEMMA AnswerMild ==
  ASSUME ServerInv, Committed, NEW p, NEW a, NEW gone, NEW mail, Plain(mail),
         PostBut(gone, mail),
         UNCHANGED <<registry, ids, commits>>
  PROVE  Mild(p, a)
  BY PlainPost, SameCommitted, SameReports DEF Mild, registry, ids

LEMMA SilentMild ==
  ASSUME ServerInv, Committed, NEW p, NEW a, UNCHANGED toClient,
         UNCHANGED <<registry, ids, commits>>
  PROVE  Mild(p, a)
  BY ToClientSame, SameCommitted, SameReports DEF Mild, registry, ids

\* A session that is there, and how often its plan was committed.
LEMMA LiveFine ==
  ASSUME ServerInv, Committed, NEW s, IsLive(s)
  PROVE  /\ s \in SessionIds /\ s \in Nat /\ ~(s >= nextSessionId) /\ FineAt(s)
         /\ nextSessionId \in Nat /\ commits[s] \in Int /\ sessions[s] # None
         /\ commits[s] \in {0, 1}
         /\ sessions[s].state = "Completed" => commits[s] = 1
         /\ commits[s] = 1 =>
              /\ sessions[s].state \in {"Completed", "Failed"} /\ reconciliations[s] = None
              /\ applications[s] # None /\ AllSucceeded(applications[s].status)
  <1>1. s \in SessionIds /\ s \in Nat /\ s < nextSessionId /\ sessions[s] # None /\ nextSessionId \in Nat
    BY LiveSession DEF ServerInv, Shapes
  <1>2. FineAt(s) /\ commits[s] \in Int
    BY <1>1 DEF Committed, FineAt
  <1> QED  BY <1>1, <1>2 DEF FineAt, Fine

\* While a report is missing, or the session has not been decided, nothing was.
LEMMA NotYet ==
  ASSUME ServerInv, Committed, NEW s, IsLive(s),
         sessions[s].state \notin {"Completed", "Failed"}
           \/ applications[s] = None \/ ~AllSucceeded(applications[s].status)
  PROVE  commits[s] = 0 /\ sessions[s].state # "Completed"
  BY LiveFine

LEMMA RemoveMild ==
  ASSUME ServerInv, Committed, NEW p, NEW a, NEW s, IsLive(s), RemoveSession(s),
         NEW gone, NEW mail, Plain(mail), PostBut(gone, mail),
         UNCHANGED <<commits, nextSessionId, nextApplyId>>
  PROVE  Mild(p, a)
  <1>1. s \in SessionIds /\ ~(s >= nextSessionId)
    BY LiveFine
  <1>2. /\ sessions \in [SessionIds -> Session \cup {None}]
        /\ applications \in [SessionIds -> Application \cup {None}]
        /\ reconciliations \in [SessionIds -> Reconciliation \cup {None}]
        /\ commits \in [SessionIds -> Int] /\ nextSessionId \in Nat
    BY DEF ServerInv, Shapes, Committed
  <1>3. Beside(s) /\ sessions'[s] = None /\ applications'[s] = None
    BY <1>1, <1>2 DEF Beside, RemoveSession, Forget
  <1>4. FineAt(s)'
    BY <1>1, <1>3 DEF FineAt, Fine
  <1>5. Committed'
    BY <1>1, <1>2, <1>3, <1>4, OneCommitted
  <1>6. \A t \in SessionIds : applications'[t] \in {None, applications[t]}
    BY <1>3 DEF Beside
  <1> QED  BY <1>5, <1>6, PlainPost, SameReports DEF Mild

LEMMA EndMild ==
  ASSUME ServerInv, Committed, NEW p, NEW a, NEW s, IsLive(s), NEW mail, Plain(mail),
         EndSession(s, mail)
  PROVE  Mild(p, a)
  BY RemoveMild DEF EndSession, Post, ids

\* A session without an application changes.
LEMMA OpenMild ==
  ASSUME ServerInv, Committed, NEW p, NEW a, NEW s, IsLive(s), NEW tt,
         tt = sessions[s] \/ (applications[s] = None /\ tt.state # "Completed"),
         sessions' = [sessions EXCEPT ![s] = tt],
         NEW mail, Plain(mail), Post(mail),
         UNCHANGED <<online, inventory, applications, reconciliations, commits, ids>>
  PROVE  Mild(p, a)
  <1>1. s \in SessionIds /\ FineAt(s) /\ ~(s >= nextSessionId) /\ sessions[s] # None
    BY LiveFine
  <1>2. /\ sessions \in [SessionIds -> Session \cup {None}]
        /\ commits \in [SessionIds -> Int] /\ nextSessionId \in Nat
    BY DEF ServerInv, Shapes, Committed
  <1>3. Beside(s) /\ sessions'[s] = tt
    BY <1>1, <1>2 DEF Beside
  <1>4. FineAt(s)'
    <2>1. CASE tt = sessions[s]
      BY <1>1, <1>3, <2>1 DEF FineAt, ids
    <2>2. CASE applications[s] = None /\ tt.state # "Completed"
      <3>1. commits[s] = 0
        BY <2>2, NotYet
      <3> QED  BY <1>1, <1>3, <2>2, <3>1 DEF FineAt, Fine, ids
    <2> QED  BY <2>1, <2>2
  <1>5. Committed'
    BY <1>1, <1>2, <1>3, <1>4, OneCommitted DEF ids
  <1> QED  BY <1>5, PlainPost, SameReports DEF Mild, Post, ids

-----------------------------------------------------------------------------
(* The handlers, but for the one that starts an application.                *)

LEMMA IgnoreMild ==
  ASSUME ServerInv, Committed, NEW p, NEW a, Ignore
  PROVE  Mild(p, a)
  BY SilentMild DEF Ignore, serverVars

LEMMA AnsweredMild ==
  ASSUME ServerInv, Committed, NEW p, NEW a, NEW mail, Plain(mail), Answer(mail)
  PROVE  Mild(p, a)
  BY AnswerMild DEF Answer, Post

LEMMA InviteMild ==
  ASSUME ServerInv, Committed, NEW p, NEW a, NEW r, OnTradeInviteRequest(p, r)
  PROVE  Mild(p, a)
  <1>1. CASE Ignore
    BY <1>1, IgnoreMild
  <1>2. CASE Answer(To({r.target}, Invite(playerSession[p])))
    BY <1>2, PlainNotices, AnsweredMild
  <1>3. CASE nextSessionId \in SessionIds /\ CreateSession(p, r.target)
    <2>0. PICK s \in SessionIds : s = nextSessionId
      BY <1>3
    <2> DEFINE tt == NewSession(p, r.target, InviteLifetime)
    <2>1. /\ sessions \in [SessionIds -> Session \cup {None}] /\ nextSessionId \in Nat
          /\ commits \in [SessionIds -> Int] /\ s \in SessionIds /\ FineAt(s)
      BY <1>3, <2>0 DEF ServerInv, Shapes, Committed, FineAt
    <2>2. sessions[s] = None /\ commits[s] = 0
      BY <2>0, <2>1 DEF FineAt, Fine, ServerInv, Numbered, Number
    <2>3. applications[s] = None
      BY <2>1, <2>2 DEF ServerInv, Book, Entry
    <2>4. tt.state = "PendingAcceptance"
      BY DEF NewSession
    <2>5. /\ Beside(s) /\ sessions'[s] = tt /\ applications'[s] = None /\ commits'[s] = 0
          /\ nextSessionId' = nextSessionId + 1
      BY <1>3, <2>0, <2>1, <2>2, <2>3 DEF Beside, CreateSession
    <2> HIDE DEF tt
    <2>6. FineAt(s)'
      BY <2>0, <2>1, <2>4, <2>5 DEF FineAt, Fine
    <2>7. Committed'
      BY <1>3, <2>1, <2>5, <2>6, OneCommitted DEF CreateSession
    <2>8. Plain(To({r.target}, Invite(s)))
      BY PlainNotices
    <2>9. Thins(toClient, toClient')
      BY <1>3, <2>0, <2>8, PlainPost DEF CreateSession, Post
    <2> QED  BY <1>3, <2>7, <2>9, SameReports DEF Mild, CreateSession
  <1> QED  BY <1>1, <1>2, <1>3 DEF OnTradeInviteRequest

LEMMA ResponseMild ==
  ASSUME ServerInv, Committed, NEW p, NEW a, NEW r, OnTradeInviteResponseRequest(p, r)
  PROVE  Mild(p, a)
  <1> DEFINE s == r.session
             ss == sessions[s]
             tt == IF AcceptVerdict(ss, p) = "Changed" THEN Accepted(ss) ELSE ss
  <1>1. CASE Ignore
    BY <1>1, IgnoreMild
  <1>2. CASE IsLive(s) /\ EndSession(s, To(Participants(ss), Cancelled(s)))
    BY <1>2, PlainNotices, EndMild
  <1>3. CASE /\ IsLive(s)
             /\ sessions' = [sessions EXCEPT ![s] = tt]
             /\ Post(Then(To(Participants(ss), Started(s)), SendState(s, tt)))
             /\ UNCHANGED <<online, inventory, playerSession, applications, baselines,
                            reconciliations, cleanup, ids, sweep, commits>>
    <2>1. /\ ss \in Session
          /\ applications[s] # None => ss.state \in {"Applying", "Completed", "Failed"}
      BY <1>3, LiveSession DEF Kept, Agreed
    <2>2. tt = ss \/ (applications[s] = None /\ tt.state # "Completed")
      <3>1. CASE AcceptVerdict(ss, p) = "Changed"
        <4>1. ss.state = "PendingAcceptance"
          BY <3>1 DEF AcceptVerdict
        <4>2. tt.state = "Negotiating"
          BY <2>1, <3>1, SessionCommands
        <4> QED  BY <2>1, <4>1, <4>2
      <3>2. CASE AcceptVerdict(ss, p) # "Changed"
        BY <3>2
      <3> QED  BY <3>1, <3>2
    <2> HIDE DEF tt
    <2>3. Plain(Then(To(Participants(ss), Started(s)), SendState(s, tt)))
      BY PlainNotices, PlainMails
    <2> QED  BY <1>3, <2>2, <2>3, OpenMild
  <1> QED  BY <1>1, <1>2, <1>3 DEF OnTradeInviteResponseRequest, IsIndexedParticipant

\* A command of the negotiation.
LEMMA UpdateMild ==
  ASSUME ServerInv, Committed, NEW p, NEW a, NEW s, IsLive(s), applications[s] = None,
         NEW tt, tt.state # "Completed", Update(s, tt)
  PROVE  Mild(p, a)
  BY PlainNotices, OpenMild DEF Update

LEMMA OfferMild ==
  ASSUME ServerInv, Committed, NEW p \in Players, NEW a, NEW r,
         r.offer \in Offers \cup {Malformed}, OnTradeOfferUpdateRequest(p, r)
  PROVE  Mild(p, a)
  <1> DEFINE s == r.session
             ss == sessions[s]
             tt == Offered(ss, p, r.offer)
  <1>1. CASE Ignore
    BY <1>1, IgnoreMild
  <1>2. CASE Answer(To({p}, Snapshot(s, ss)))
    BY <1>2, PlainNotices, AnsweredMild
  <1>3. CASE IsLive(s) /\ OfferVerdict(ss, p, r.revision, r.offer) = "Changed" /\ Update(s, tt)
    <2>1. ss.state = "Negotiating" /\ r.offer \in Offers
      BY <1>3 DEF OfferVerdict
    <2>2. ss \in Session /\ applications[s] = None
      BY <1>3, <2>1, LiveSession DEF Kept, Agreed
    <2>3. tt.state # "Completed"
      BY <2>1, <2>2, OfferCommand
    <2> HIDE DEF tt
    <2> QED  BY <1>3, <2>2, <2>3, UpdateMild
  <1> QED  BY <1>1, <1>2, <1>3 DEF OnTradeOfferUpdateRequest, IsIndexedParticipant

LEMMA CancelMild ==
  ASSUME ServerInv, Committed, NEW p, NEW a, NEW r, OnTradeCancelRequest(p, r)
  PROVE  Mild(p, a)
  <1> DEFINE s == r.session
  <1>1. CASE Ignore
    BY <1>1, IgnoreMild
  <1>2. CASE Answer(To({p}, Snapshot(s, sessions[s])))
    BY <1>2, PlainNotices, AnsweredMild
  <1>3. CASE IsLive(s) /\ EndSession(s, To(Participants(sessions[s]), Cancelled(s)))
    BY <1>3, PlainNotices, EndMild
  <1> QED  BY <1>1, <1>2, <1>3 DEF OnTradeCancelRequest, IsIndexedParticipant

\* OnTradeConfirmRequest, unless it starts the application.
Begins(s, locked) ==
  /\ IsLive(s) /\ sessions[s].state = "Negotiating" /\ applications[s] = None
  /\ locked \in Session /\ Participants(locked) = Participants(sessions[s])
  /\ BeginApplication(s, locked)

LEMMA ConfirmMild ==
  ASSUME ServerInv, Committed, NEW p \in Players, NEW a, NEW r, OnTradeConfirmRequest(p, r)
  PROVE  Mild(p, a) \/ \E locked : Begins(r.session, locked)
  <1> DEFINE s == r.session
             ss == sessions[s]
             tt == Confirmed(ss, p)
  <1>1. CASE Ignore
    BY <1>1, IgnoreMild
  <1>2. CASE Answer(To({p}, Snapshot(s, ss)))
    BY <1>2, PlainNotices, AnsweredMild
  <1>3. ASSUME IsLive(s), ConfirmVerdict(ss, p, r.revision) = "Changed"
        PROVE  /\ ss.state = "Negotiating" /\ applications[s] = None
               /\ SameTerms(ss, tt) /\ tt.state # "Completed"
               /\ Participants(tt) = Participants(ss)
    <2>1. ss \in Session /\ Kept(ss, applications[s], reconciliations[s])
      BY <1>3, LiveSession
    <2>2. ss.state = "Negotiating"
      BY <1>3 DEF ConfirmVerdict
    <2>3. applications[s] = None
      BY <2>1, <2>2 DEF Kept, Agreed
    <2>4. SameTerms(ss, tt) /\ tt.state \in {ss.state, "Locked"}
      BY <2>1, ConfirmCommand
    <2> HIDE DEF tt, ss
    <2>5. Participants(tt) = Participants(ss)
      BY <2>4 DEF SameTerms, Participants
    <2> QED  BY <2>2, <2>3, <2>4, <2>5
  <1>4. CASE /\ IsLive(s) /\ ConfirmVerdict(ss, p, r.revision) = "Changed"
             /\ Update(s, tt)
    <2>1. applications[s] = None /\ tt.state # "Completed"
      BY <1>3, <1>4
    <2> HIDE DEF tt
    <2> QED  BY <1>4, <2>1, UpdateMild
  <1>5. CASE /\ IsLive(s) /\ ConfirmVerdict(ss, p, r.revision) = "Changed"
             /\ BeginApplication(s, tt)
    <2>1. ss.state = "Negotiating" /\ applications[s] = None /\ tt \in Session
            /\ Participants(tt) = Participants(ss)
      BY <1>3, <1>5 DEF SameTerms
    <2> HIDE DEF tt
    <2> QED  BY <1>5, <2>1 DEF Begins
  <1>6. CASE IsLive(s) /\ EndSession(s, SendState(s, Fail(tt)))
    <2> HIDE DEF tt
    <2>1. Plain(SendState(s, Fail(tt)))
      BY PlainNotices
    <2> QED  BY <1>6, <2>1, EndMild
  <1> QED  BY <1>1, <1>2, <1>4, <1>5, <1>6 DEF OnTradeConfirmRequest, IsIndexedParticipant

\* A reconciliation takes a report: nothing of it is about commits.
LEMMA ReportedMild ==
  ASSUME ServerInv, Committed, NEW p, NEW a, NEW s, IsLive(s), reconciliations[s] # None,
         NEW rec, rec # None, reconciliations' = [reconciliations EXCEPT ![s] = rec],
         Thins(toClient, toClient'),
         UNCHANGED <<sessions, applications, commits, nextSessionId, nextApplyId>>
  PROVE  Mild(p, a)
  <1>1. s \in SessionIds /\ FineAt(s)
    BY LiveFine
  <1>2. /\ reconciliations \in [SessionIds -> Reconciliation \cup {None}]
        /\ commits \in [SessionIds -> Int] /\ nextSessionId \in Nat
    BY DEF ServerInv, Shapes, Committed
  <1>3. Beside(s) /\ reconciliations'[s] # None
    BY <1>1, <1>2 DEF Beside
  <1>4. FineAt(s)'
    BY <1>1, <1>3 DEF FineAt, Fine
  <1>5. Committed'
    BY <1>1, <1>2, <1>3, <1>4, OneCommitted
  <1> QED  BY <1>5, SameReports DEF Mild

\* What a report of p leaves of a reconciliation is one.
LEMMA ReportedIs ==
  ASSUME ServerInv, NEW s, IsLive(s), reconciliations[s] # None, NEW p, NEW outcome \in Outcomes
  PROVE  [reconciliations[s] EXCEPT !.status = Record(@, p, outcome)] # None
  <1> DEFINE old == reconciliations[s]
             status == Record(old.status, p, outcome)
             new == [old EXCEPT !.status = status]
  <1>1. old \in Reconciliation /\ old.status \in [Participants(sessions[s]) -> Statuses]
        /\ Participants(sessions[s]) \subseteq Players
    BY LiveSession DEF Kept
  <1> HIDE DEF old
  <1>2. status \in ForSome(Statuses)
    <2>1. status \in [Participants(sessions[s]) -> Statuses]
      BY <1>1, RecordTyped
    <2> HIDE DEF status
    <2> QED  BY <1>1, <2>1, ForSomeIs
  <1> HIDE DEF status
  <1>3. new \in Reconciliation
    BY <1>1, <1>2, ReportedReconciliation
  <1>4. new # None
    BY <1>3, NoRecord
  <1> QED  BY <1>4 DEF old, status

LEMMA ReconcileResultMild ==
  ASSUME ServerInv, Committed, NEW p, NEW a, NEW r, r.result \in Outcomes,
         OnTradeReconcileResultRequest(p, r)
  PROVE  Mild(p, a)
  <1> DEFINE s == r.session
             rec == [reconciliations[s] EXCEPT !.status = Record(@, p, r.result)]
  <1>1. CASE Ignore
    BY <1>1, IgnoreMild
  <1>2. CASE Answer(To({p}, Snapshot(s, sessions[s])))
    BY <1>2, PlainNotices, AnsweredMild
  <1>3. CASE /\ IsLive(s) /\ reconciliations[s] # None
             /\ reconciliations' = [reconciliations EXCEPT ![s] = rec]
             /\ UNCHANGED <<online, inventory, sessions, applications, baselines, ids, sweep,
                            toClient, commits>>
    <2>1. rec # None
      BY <1>3, ReportedIs
    <2> HIDE DEF rec
    <2> QED  BY <1>3, <2>1, ReportedMild, ToClientSame DEF ids
  <1> QED  BY <1>1, <1>2, <1>3 DEF OnTradeReconcileResultRequest

-----------------------------------------------------------------------------
(* The report of a participant on the application.                          *)

LEMMA FailMild ==
  ASSUME ServerInv, Committed, NEW p, NEW a, NEW s, IsLive(s), reconciliations[s] = None,
         commits[s] = 0, sessions[s].state # "Completed", NEW app, NEW gone,
         sessions' = [sessions EXCEPT ![s] = Fail(sessions[s])],
         applications' = [applications EXCEPT ![s] = app], SameBut(p, a),
         BeginReconciliation(s, gone, SendState(s, Fail(sessions[s]))),
         UNCHANGED <<commits, nextSessionId, nextApplyId>>
  PROVE  Mild(p, a)
  <1> DEFINE tt == Fail(sessions[s])
             rec == NewReconciliation(nextReconcileId, s, gone)
  <1>1. s \in SessionIds /\ FineAt(s) /\ ~(s >= nextSessionId) /\ sessions[s] \in Session
    BY LiveFine, LiveSession
  <1>2. tt.state # "Completed" /\ tt # None
    <2>1. tt \in Session /\ tt.state \in {sessions[s].state, "Failed"}
      BY <1>1, SessionCommands DEF SameTerms
    <2> QED  BY <2>1, NoRecord
  <1>3. /\ sessions \in [SessionIds -> Session \cup {None}]
        /\ applications \in [SessionIds -> Application \cup {None}]
        /\ reconciliations \in [SessionIds -> Reconciliation \cup {None}]
        /\ commits \in [SessionIds -> Int] /\ nextSessionId \in Nat
        /\ nextReconcileId \in Nat
    BY DEF ServerInv, Shapes, Committed
  <1>4. Beside(s) /\ Thins(toClient, toClient')
    <2>1. Plain(SendState(s, tt)) /\ Plain(Then(SendState(s, tt), SendReconciliation(s, rec, Players)))
      BY PlainNotices, PlainMails
    <2>2. CASE ReconciliationTargets(s) = None
      <3>1. UNCHANGED reconciliations /\ PostBut(gone, SendState(s, tt))
        BY <2>2 DEF BeginReconciliation
      <3> QED  BY <1>1, <1>3, <2>1, <3>1, PlainPost DEF Beside
    <2>3. CASE ReconciliationTargets(s) # None
      <3>1. /\ reconciliations' = [reconciliations EXCEPT ![s] = rec]
            /\ PostBut(gone, Then(SendState(s, tt), SendReconciliation(s, rec, Players)))
        BY <2>3 DEF BeginReconciliation
      <3> HIDE DEF rec
      <3> QED  BY <1>1, <1>3, <2>1, <3>1, PlainPost DEF Beside
    <2> QED  BY <2>2, <2>3
  <1>5. FineAt(s)'
    <2>1. sessions'[s] = tt /\ applications'[s] = app
      BY <1>1, <1>3
    <2> HIDE DEF tt
    <2> QED  BY <1>1, <1>2, <1>4, <2>1 DEF FineAt, Fine
  <1>6. Committed'
    BY <1>1, <1>3, <1>4, <1>5, OneCommitted
  <1> QED  BY <1>4, <1>6 DEF Mild

LEMMA OneReport ==
  ASSUME ServerInv, NEW s, IsLive(s), NEW p, applications[s] # None,
         NEW app \in Application, app.id = applications[s].id,
         DOMAIN app.status = DOMAIN applications[s].status,
         \A q \in DOMAIN app.status \ {p} : app.status[q] = applications[s].status[q],
         applications' = [applications EXCEPT ![s] = app]
  PROVE  SameBut(p, applications[s].id)
  <1>1. s \in SessionIds /\ applications \in [SessionIds -> Application \cup {None}]
    BY DEF ServerInv, Shapes, IsLive
  <1> QED  BY <1>1 DEF SameBut

LEMMA SucceedMild ==
  ASSUME ServerInv, Committed, NEW p, NEW a, NEW s, IsLive(s), reconciliations[s] = None,
         commits[s] = 0, sessions[s].state \in {"Applying", "Failed"},
         NEW app \in Application, AllSucceeded(app.status), SameBut(p, a), SettleSucceeded(s, app)
  PROVE  Mild(p, a)
  <1> DEFINE tt == Complete(sessions[s])
  <1>1. s \in SessionIds /\ FineAt(s) /\ ~(s >= nextSessionId) /\ sessions[s] \in Session
    BY LiveFine, LiveSession
  <1>2. tt.state \in {"Completed", "Failed"} /\ app # None
    BY <1>1, SessionCommands, NoRecord
  <1>3. /\ sessions \in [SessionIds -> Session \cup {None}]
        /\ applications \in [SessionIds -> Application \cup {None}]
        /\ reconciliations \in [SessionIds -> Reconciliation \cup {None}]
        /\ commits \in [SessionIds -> Int] /\ nextSessionId \in Nat
    BY DEF ServerInv, Shapes, Committed
  <1> HIDE DEF tt
  <1>4. /\ Beside(s) /\ sessions'[s] = tt /\ applications'[s] = app /\ commits'[s] = 1
        /\ commits' \in [SessionIds -> Int]
    BY <1>1, <1>3 DEF Beside, SettleSucceeded, tt
  <1>6. FineAt(s)'
    BY <1>1, <1>2, <1>4 DEF FineAt, Fine, SettleSucceeded, ids
  <1>7. Committed'
    BY <1>1, <1>3, <1>4, <1>6, OneCommitted DEF SettleSucceeded, ids
  <1>8. Thins(toClient, toClient')
    BY PlainNotices, PlainPost DEF SettleSucceeded, Post
  <1> QED  BY <1>7, <1>8 DEF Mild, SettleSucceeded, ids

\* An application with one more report, of p, is told from what it was.
Receives(old, app, p) ==
  /\ DOMAIN app.status = DOMAIN old.status
  /\ \A q \in DOMAIN app.status \ {p} : app.status[q] = old.status[q]
  /\ HasFailed(old.status) => HasFailed(app.status)
  /\ HasFailed(app.status) => ~AllSucceeded(app.status)
  /\ ~AllSucceeded(old.status)

LEMMA FirstReport ==
  ASSUME ServerInv, NEW s, IsLive(s), applications[s] # None, NEW p, NEW outcome \in Outcomes,
         IsParticipant(sessions[s], p), applications[s].status[p] = "Pending",
         NEW app, app = [applications[s] EXCEPT !.status = Record(@, p, outcome)]
  PROVE  Receives(applications[s], app, p)
  <1> DEFINE old == applications[s]
             status == Record(old.status, p, outcome)
  <1>1. /\ old \in Application /\ old.status \in [Participants(sessions[s]) -> Statuses]
        /\ Participants(sessions[s]) \subseteq Players
        /\ p \in DOMAIN old.status
    BY LiveSession DEF Kept, Agreed, IsParticipant
  <1>2. status = [old.status EXCEPT ![p] = outcome]
    BY <1>1 DEF Record, RecordVerdict
  <1>3. app.status = status
    <2>1. app = [old EXCEPT !.status = status]
      OBVIOUS
    <2>2. old \in Application
      BY <1>1
    <2>3. ASSUME NEW new, new = [old EXCEPT !.status = status] PROVE new.status = status
      <3> HIDE DEF status, old
      <3> QED  BY ONLY <2>2, <2>3 DEF Application
    <2> QED  BY <2>1, <2>3
  <1>4. /\ DOMAIN status = DOMAIN old.status /\ status[p] = outcome
        /\ \A q \in DOMAIN status \ {p} : status[q] = old.status[q]
    BY <1>1, <1>2
  <1>5. old.status[p] = "Pending"
    OBVIOUS
  <1> HIDE DEF status, old
  <1>6. HasFailed(old.status) => HasFailed(status)
    BY <1>4, <1>5 DEF HasFailed
  <1> QED  BY <1>1, <1>3, <1>4, <1>5, <1>6 DEF Receives, HasFailed, AllSucceeded, old

\* While a report is missing, the session is applied, or has failed.
LEMMA FailedStays ==
  ASSUME ServerInv, Committed, NEW s, IsLive(s), applications[s] # None,
         ~AllSucceeded(applications[s].status)
  PROVE  sessions[s].state \in {"Applying", "Failed"} /\ commits[s] = 0
  <1>1. commits[s] = 0 /\ sessions[s].state # "Completed"
    BY NotYet
  <1>2. Kept(sessions[s], applications[s], reconciliations[s])
    BY LiveSession
  <1> QED  BY <1>1, <1>2 DEF Kept, Agreed

LEMMA ApplyResultMild ==
  ASSUME ServerInv, Committed, NEW p, NEW r, r.result \in Outcomes, Awaited(p, r.apply),
         OnTradeApplyResultRequest(p, r)
  PROVE  Mild(p, r.apply)
  <1> DEFINE s == r.session
             old == applications[s]
             app == [old EXCEPT !.status = Record(@, p, r.result)]
             known == IsLive(s) /\ old # None
             counts == known /\ reconciliations[s] = None /\ IsParticipant(sessions[s], p)
                         /\ old.id = r.apply
  <1>1. CASE Ignore
    BY <1>1, IgnoreMild
  <1>2. CASE Answer(To({p}, Snapshot(s, sessions[s])))
    BY <1>2, PlainNotices, AnsweredMild
  <1>3. CASE Answer(SendReconciliation(s, reconciliations[s], {p}))
    BY <1>3, PlainMails, AnsweredMild
  <1>4. ASSUME counts
        PROVE  /\ app \in Application /\ app # None /\ app.id = old.id /\ app.plan = old.plan
               /\ DOMAIN app.status = DOMAIN old.status
               /\ \A q \in DOMAIN app.status \ {p} : app.status[q] = old.status[q]
               /\ HasFailed(old.status) => HasFailed(app.status)
               /\ HasFailed(app.status) => ~AllSucceeded(app.status)
               /\ ~AllSucceeded(old.status)
               /\ sessions[s].state \in {"Applying", "Failed"} /\ commits[s] = 0
    <2>1. s \in SessionIds /\ old.status \in [Participants(sessions[s]) -> Statuses]
      BY <1>4, LiveSession DEF Kept, Agreed
    <2>2. old.status[p] = "Pending"
      BY <1>4, <2>1 DEF Awaited, IsParticipant
    <2>3. app = [applications[s] EXCEPT !.status = Record(@, p, r.result)]
      OBVIOUS
    <2> HIDE DEF app
    <2>4. app \in Application /\ app.id = old.id /\ app.plan = old.plan
      BY <1>4, <2>3, ReportFits
    <2>5. Receives(old, app, p)
      <3>1. /\ IsLive(s) /\ applications[s] # None /\ IsParticipant(sessions[s], p)
            /\ applications[s].status[p] = "Pending" /\ r.result \in Outcomes
        BY <1>4, <2>2
      <3> HIDE DEF s
      <3> QED  BY <2>3, <3>1, FirstReport
    <2> QED  BY <1>4, <2>4, <2>5, FailedStays, NoRecord DEF Receives
  <1>5. ASSUME counts, applications' = [applications EXCEPT ![s] = app]
        PROVE  SameBut(p, r.apply)
    <2> HIDE DEF app
    <2> QED  BY <1>4, <1>5, OneReport
  <1>6. CASE counts /\ HasFailed(app.status) /\ SettleFailed(s, app)
    <2> HIDE DEF app
    <2>1. applications' = [applications EXCEPT ![s] = app]
      BY <1>6 DEF SettleFailed
    <2>2. commits[s] = 0 /\ sessions[s].state # "Completed" /\ SameBut(p, r.apply)
      BY <1>4, <1>5, <1>6, <2>1
    <2> QED  BY <1>6, <2>2, FailMild DEF SettleFailed
  <1>7. CASE counts /\ AllSucceeded(app.status) /\ SettleFailed(s, app)
    <2> HIDE DEF app
    <2>1. applications' = [applications EXCEPT ![s] = app]
      BY <1>7 DEF SettleFailed
    <2>2. commits[s] = 0 /\ sessions[s].state # "Completed" /\ SameBut(p, r.apply)
      BY <1>4, <1>5, <1>7, <2>1
    <2> QED  BY <1>7, <2>2, FailMild DEF SettleFailed
  <1>8. CASE counts /\ AllSucceeded(app.status) /\ SettleSucceeded(s, app)
    <2> HIDE DEF app
    <2>1. applications' = [applications EXCEPT ![s] = app]
      BY <1>8 DEF SettleSucceeded
    <2>2. /\ app \in Application /\ SameBut(p, r.apply)
          /\ sessions[s].state \in {"Applying", "Failed"} /\ commits[s] = 0
      BY <1>4, <1>5, <1>8, <2>1
    <2> QED  BY <1>8, <2>2, SucceedMild
  <1>9. CASE /\ counts /\ ~HasFailed(app.status) /\ ~AllSucceeded(app.status)
             /\ applications' = [applications EXCEPT ![s] = app]
             /\ UNCHANGED <<online, inventory, sessions, playerSession, baselines,
                            reconciliations, cleanup, ids, sweep, toClient, commits>>
    <2> HIDE DEF app
    <2>1. s \in SessionIds /\ FineAt(s) /\ ~(s >= nextSessionId) /\ commits[s] = 0
      BY <1>4, <1>9, LiveFine
    <2>2. /\ applications \in [SessionIds -> Application \cup {None}]
          /\ commits \in [SessionIds -> Int] /\ nextSessionId \in Nat
      BY DEF ServerInv, Shapes, Committed
    <2>3. Beside(s) /\ applications'[s] = app
      BY <1>9, <2>1, <2>2 DEF Beside
    <2>5. app # None /\ sessions[s].state \in {"Applying", "Failed"} /\ SameBut(p, r.apply)
      BY <1>4, <1>5, <1>9
    <2>6. FineAt(s)'
      BY <1>9, <2>1, <2>3, <2>5 DEF FineAt, Fine, ids
    <2>7. Committed'
      BY <1>9, <2>1, <2>2, <2>3, <2>6, OneCommitted DEF ids
    <2> QED  BY <1>9, <2>5, <2>7, ToClientSame DEF Mild, ids
  <1>10. counts \/ Ignore \/ Answer(To({p}, Snapshot(s, sessions[s])))
           \/ Answer(SendReconciliation(s, reconciliations[s], {p}))
    BY DEF OnTradeApplyResultRequest
  <1>11. CASE counts
    <2> HIDE DEF app, counts
    <2> SUFFICES ASSUME /\ ~Ignore /\ ~Answer(To({p}, Snapshot(s, sessions[s])))
                        /\ ~Answer(SendReconciliation(s, reconciliations[s], {p}))
                 PROVE  Mild(p, r.apply)
      BY <1>1, <1>2, <1>3
    <2> QED  BY <1>4, <1>6, <1>7, <1>8, <1>9, <1>11 DEF OnTradeApplyResultRequest, app
  <1> QED  BY <1>1, <1>2, <1>3, <1>10, <1>11

-----------------------------------------------------------------------------
(* Leaving, the sweep and the clock.                                        *)

LEMMA LeaveMild ==
  ASSUME ServerInv, Committed, NEW p \in Players, NEW a, Leave(p)
  PROVE  Mild(p, a)
  <1>0. PICK s : s = playerSession[p]
    OBVIOUS
  <1>1. OnPlayerLeave(p) /\ UNCHANGED <<nextSessionId, nextApplyId, commits>>
    BY DEF Leave
  <1>2. ASSUME PostBut(p, NoMail), UNCHANGED <<sessions, applications, reconciliations>>
        PROVE  Mild(p, a)
    BY <1>1, <1>2, PlainMails, PlainPost, SameCommitted, SameReports DEF Mild
  <1>3. CASE IsLive(s) /\ reconciliations[s] # None /\ LeaveWhileReconciling(p, s)
    <2> DEFINE rec == [reconciliations[s] EXCEPT !.status = Record(@, p, "ParticipantUnavailable")]
    <2>1. rec # None
      <3>1. "ParticipantUnavailable" \in Outcomes
        BY DEF Outcomes
      <3> QED  BY <1>3, <3>1, ReportedIs
    <2>2. /\ reconciliations' = [reconciliations EXCEPT ![s] = rec] /\ PostBut(p, NoMail)
          /\ UNCHANGED <<sessions, applications>>
      BY <1>3 DEF LeaveWhileReconciling
    <2>3. Thins(toClient, toClient')
      BY <2>2, PlainMails, PlainPost
    <2> HIDE DEF rec
    <2> QED  BY <1>1, <1>3, <2>1, <2>2, <2>3, ReportedMild
  <1>4. CASE /\ IsLive(s) /\ reconciliations[s] = None /\ sessions[s].state = "Applying"
             /\ LeaveWhileApplying(p, s)
    <2>1. s \in SessionIds /\ applications \in [SessionIds -> Application \cup {None}]
      BY <1>4, LiveSession DEF ServerInv, Shapes
    <2>2. commits[s] = 0 /\ sessions[s].state # "Completed"
      BY <1>4, NotYet
    <2>3. /\ sessions' = [sessions EXCEPT ![s] = Fail(sessions[s])]
          /\ applications' = [applications EXCEPT ![s] = applications[s]]
          /\ BeginReconciliation(s, p, SendState(s, Fail(sessions[s])))
          /\ UNCHANGED applications
      BY <1>4, <2>1 DEF LeaveWhileApplying
    <2>4. SameBut(p, a)
      BY <2>3, SameReports
    <2> QED  BY <1>1, <1>4, <2>2, <2>3, <2>4, FailMild
  <1>5. CASE IsLive(s) /\ LeaveOtherwise(p, s)
    <2>1. CASE UNCHANGED registry /\ PostBut(p, NoMail)
      BY <1>2, <2>1 DEF registry
    <2>2. CASE RemoveSession(s) /\ PostBut(p, To(Participants(sessions[s]), Cancelled(s)))
      BY <1>1, <1>5, <2>2, PlainNotices, RemoveMild
    <2> QED  BY <1>5, <2>1, <2>2 DEF LeaveOtherwise
  <1>6. CASE PostBut(p, NoMail) /\ UNCHANGED <<sessions, applications, reconciliations>>
    BY <1>2, <1>6
  <1> QED  BY <1>0, <1>1, <1>3, <1>4, <1>5, <1>6 DEF OnPlayerLeave

LEMMA SweepMailPlain ==
  ASSUME NEW s, NEW recs
  PROVE  Plain(SweepMail(s, recs))
  BY PlainMails, PlainNotices DEF SweepMail

LEMMA SweptFine ==
  ASSUME ServerInv, Committed, Swept, UNCHANGED <<nextSessionId, commits>>,
         NEW s \in SessionIds
  PROVE  FineAt(s)'
  <1>1. FineAt(s) /\ SweptRecord(s)
    BY DEF Committed, FineAt, Swept
  <1>2. CASE s \in Ending
    BY <1>1, <1>2 DEF FineAt, Fine, SweptRecord
  <1>3. CASE s \notin Ending /\ s \notin TimedOutApplications
    <2>1. s \notin Starting
      BY <1>3 DEF Starting
    <2> QED  BY <1>1, <1>3, <2>1 DEF FineAt, SweptRecord
  <1>4. CASE s \notin Ending /\ s \in TimedOutApplications
    <2>1. IsLive(s) /\ applications[s] # None /\ reconciliations[s] = None
            /\ ~IsSettled(applications[s].status)
      BY <1>4, DueSession DEF TimedOutApplications, IsDue
    <2>2. ~AllSucceeded(applications[s].status)
      BY <2>1 DEF IsSettled, AllSucceeded
    <2>3. sessions[s].state \in {"Applying", "Failed"} /\ commits[s] = 0
      BY <2>1, <2>2, FailedStays
    <2>4. sessions[s] \in Session /\ ~(s >= nextSessionId)
      BY <2>1, LiveFine, LiveSession
    <2>5. Fail(sessions[s]).state \in {"Applying", "Failed"}
      BY <2>3, <2>4, SessionCommands
    <2>6. sessions'[s] = Fail(sessions[s])
      BY <1>1, <1>4, <2>1 DEF SweptRecord
    <2> QED  BY <2>3, <2>4, <2>5, <2>6 DEF FineAt, Fine
  <1> QED  BY <1>2, <1>3, <1>4

LEMMA SweepMild ==
  ASSUME ServerInv, Committed, NEW p, NEW a, OnUpdate
  PROVE  Mild(p, a)
  <1>1. Swept /\ UNCHANGED <<nextSessionId, nextApplyId, commits>>
    BY SweepIs DEF OnUpdate
  <1>2. Committed'
    <2>1. \A s \in SessionIds : FineAt(s)'
      BY <1>1, SweptFine
    <2> QED  BY <1>1, <2>1 DEF Committed, FineAt
  <1>3. SameBut(p, a)
    <2>1. \A s \in SessionIds : applications'[s] \in {None, applications[s]}
      BY <1>1 DEF Swept, SweptRecord
    <2> QED  BY <2>1, SameReports
  <1>4. Thins(toClient, toClient')
    <2> DEFINE recs == [t \in Starting |-> Begun(t)]
               Part(q) == [s \in SessionIds |-> SweepMail(s, recs)[q]]
               mail == [q \in Players |-> FlattenSeq(Part(q))]
               Fits(s, S) == (\A m \in S : m.type \notin Watched)
                               /\ \A q \in Players : SweepMail(s, recs)[q] \in Seq(S)
               From(s) == CHOOSE S : Fits(s, S)
               T == UNION {From(s) : s \in SessionIds}
    <2>1. ASSUME NEW s \in SessionIds PROVE Fits(s, From(s))
      <3>1. \E S : Fits(s, S)
        BY SweepMailPlain DEF Plain
      <3> HIDE DEF Fits
      <3> QED  BY <3>1
    <2>2. \A m \in T : m.type \notin Watched
      BY <2>1
    <2>3. ASSUME NEW q \in Players PROVE Part(q) \in Seq(Seq(T))
      <3>1. ASSUME NEW s \in SessionIds PROVE SweepMail(s, recs)[q] \in Seq(T)
        <4>1. SweepMail(s, recs)[q] \in Seq(From(s))
          BY <2>1
        <4>2. From(s) \subseteq T
          OBVIOUS
        <4> HIDE DEF From, T, recs
        <4> QED  BY <4>1, <4>2, SeqGrows
      <3> HIDE DEF T, recs
      <3>2. Part(q) \in [SessionIds -> Seq(T)]
        BY <3>1
      <3> HIDE DEF Part
      <3> QED  BY <3>2, SessionsAssumption DEF SessionIds
    <2>4. ASSUME NEW q \in Players PROVE mail[q] \in Seq(T)
      <3> HIDE DEF T, Part
      <3> QED  BY <2>3, FlattenedItems
    <2>5. PostBut(None, mail)
      BY DEF OnUpdate, Post, Starting, Begun
    <2> HIDE DEF mail, T
    <2>6. Plain(mail)
      BY <2>2, <2>4 DEF Plain
    <2> QED  BY <2>5, <2>6, PlainPost
  <1> QED  BY <1>1, <1>2, <1>3, <1>4 DEF Mild

LEMMA TickMild ==
  ASSUME ServerInv, Committed, NEW p, NEW a, Tick
  PROVE  Mild(p, a)
  <1>1. UNCHANGED <<nextSessionId, nextApplyId, commits, toClient>>
    BY DEF Tick, ids
  <1>2. ASSUME NEW s \in SessionIds
        PROVE  /\ sessions[s] = None => sessions'[s] = None
               /\ sessions[s] # None => sessions'[s] # None /\ sessions'[s].state = sessions[s].state
               /\ IF applications[s] = None THEN applications'[s] = None
                  ELSE /\ applications'[s] # None
                       /\ applications'[s].id = applications[s].id
                       /\ applications'[s].plan = applications[s].plan
                       /\ applications'[s].status = applications[s].status
               /\ reconciliations[s] = None => reconciliations'[s] = None
    <2>0. /\ sessions[s] \in Session \cup {None} /\ applications[s] \in Application \cup {None}
          /\ reconciliations[s] \in Reconciliation \cup {None}
      BY DEF ServerInv, Shapes
    <2>1. sessions'[s] = IF sessions[s] = None THEN None ELSE [sessions[s] EXCEPT !.expiry = Less(@)]
      BY DEF Tick
    <2>2. applications'[s] = IF applications[s] = None THEN None
                             ELSE [applications[s] EXCEPT !.deadline = Less(@)]
      BY DEF Tick
    <2>3. reconciliations'[s] = IF reconciliations[s] = None THEN None
                                ELSE [reconciliations[s] EXCEPT !.deadline = Less(@)]
      BY DEF Tick
    <2>4. sessions[s] # None => /\ sessions'[s] \in Session
                                /\ sessions'[s].state = sessions[s].state
      BY <2>0, <2>1, OlderRecords DEF SameTerms
    <2>5. applications[s] # None =>
            /\ applications'[s] \in Application /\ applications'[s].id = applications[s].id
            /\ applications'[s].plan = applications[s].plan
            /\ applications'[s].status = applications[s].status
      BY <2>0, <2>2, OlderRecords
    <2>6. reconciliations[s] # None => reconciliations'[s] \in Reconciliation
      BY <2>0, <2>3, OlderRecords
    <2> QED  BY <2>1, <2>2, <2>3, <2>4, <2>5, <2>6, NoRecord
  <1>3. Committed'
    <2>1. ASSUME NEW s \in SessionIds PROVE FineAt(s)'
      <3>1. FineAt(s)
        BY DEF Committed, FineAt
      <3> QED  BY <1>1, <1>2, <3>1 DEF FineAt, Fine
    <2> QED  BY <1>1, <2>1 DEF Committed, FineAt
  <1>4. SameBut(p, a)
    BY <1>2 DEF SameBut
  <1> QED  BY <1>1, <1>3, <1>4, ToClientSame DEF Mild

-----------------------------------------------------------------------------
(* The orders to apply on the links.                                        *)

LEMMA HasOne ==
  ASSUME NEW x, NEW t, NEW a
  PROVE  /\ Has(<<x>>, t, a) <=> Bears(x, t, a)
         /\ AtMostOne(<<x>>, t, a) /\ AtMostOne(<<>>, t, a) /\ ~Has(<<>>, t, a)
  BY DEF Has, AtMostOne

LEMMA LinksTyped ==
  ASSUME TradeInv, NEW p \in Players
  PROVE  toClient[p] \in Seq(Mail) /\ toServer[p] \in Seq(Requests)
  BY SeqGrows DEF TradeInv, ServerInv, Delivered, Current, Peers

LEMMA LinksTypedAfter ==
  ASSUME TradeInv', NEW p \in Players
  PROVE  toClient'[p] \in Seq(Mail) /\ toServer'[p] \in Seq(Requests)
  BY SeqGrows DEF TradeInv, ServerInv, Delivered, Current, Peers

LEMMA AppendIs ==
  ASSUME NEW S, NEW q \in Seq(S), NEW x
  PROVE  Append(q, x) = q \o <<x>>
  OBVIOUS

\* A client sends something else than a report on an application.
LEMMA SentFewer ==
  ASSUME TradeInv, TradeInv', Ordered, Thins(toClient, toClient'), NEW p \in Players, NEW x,
         Send(p, x), x.type # "ApplyResult"
  PROVE  Fewer
  <1> SUFFICES ASSUME NEW q \in Players, NEW a \in Nat
               PROVE  Token(toClient'[q], toServer'[q], a) /\ (Asked(q, a)' => Asked(q, a))
    BY DEF Fewer
  <1>1. /\ toClient[q] \in Seq(Mail) /\ toClient'[q] \in Seq(Mail)
        /\ toServer[q] \in Seq(Requests) /\ toServer \in [Players -> Seq(Requests)]
    BY LinksTyped, LinksTypedAfter DEF TradeInv, Peers
  <1>2. /\ Has(toClient'[q], "Apply", a) => Has(toClient[q], "Apply", a)
        /\ AtMostOne(toClient[q], "Apply", a) => AtMostOne(toClient'[q], "Apply", a)
    <2>1. "Apply" \in Watched
      BY DEF Watched
    <2> QED  BY <1>1, <2>1, ThinnedHas DEF Thins
  <1>3. /\ Has(toServer'[q], "ApplyResult", a) => Has(toServer[q], "ApplyResult", a)
        /\ AtMostOne(toServer[q], "ApplyResult", a) => AtMostOne(toServer'[q], "ApplyResult", a)
    <2>1. CASE q # p
      BY <1>1, <2>1 DEF Send
    <2>2. CASE q = p
      <3> DEFINE T == Requests \cup {x}
                 w == <<x>>
      <3>1. toServer'[q] = toServer[q] \o w
        BY <1>1, <2>2, AppendIs DEF Send
      <3>2. ~Has(w, "ApplyResult", a) /\ AtMostOne(w, "ApplyResult", a)
        BY HasOne DEF Bears
      <3>3. toServer[q] \in Seq(T) /\ w \in Seq(T)
        BY <1>1, SeqGrows, ShortSeq
      <3> HIDE DEF T, w
      <3> QED  BY <3>1, <3>2, <3>3, HasMore
    <2> QED  BY <2>1, <2>2
  <1>4. Token(toClient[q], toServer[q], a)
    BY DEF Ordered
  <1> QED  BY <1>2, <1>3, <1>4 DEF Token, Asked

\* A client takes an order to apply and sends its report: one takes the place of
\* the other.
LEMMA TokenMoves ==
  ASSUME TradeInv, TradeInv', Ordered, NEW p \in Players, toClient[p] # <<>>,
         Head(toClient[p]).type = "Apply",
         toClient' = [toClient EXCEPT ![p] = Tail(@)],
         NEW x, Send(p, x), x.type = "ApplyResult", x.apply = Head(toClient[p]).apply
  PROVE  Fewer
  <1> SUFFICES ASSUME NEW q \in Players, NEW a \in Nat
               PROVE  Token(toClient'[q], toServer'[q], a) /\ (Asked(q, a)' => Asked(q, a))
    BY DEF Fewer
  <1>1. /\ toClient[q] \in Seq(Mail) /\ toClient'[q] \in Seq(Mail)
        /\ toServer[q] \in Seq(Requests) /\ toServer \in [Players -> Seq(Requests)]
        /\ toClient \in [Players -> Seq(Current(sessions, nextSessionId))]
    BY LinksTyped, LinksTypedAfter DEF TradeInv, ServerInv, Delivered, Peers
  <1>2. Token(toClient[q], toServer[q], a)
    BY DEF Ordered
  <1>3. CASE q # p
    BY <1>1, <1>2, <1>3 DEF Send, Token, Asked
  <1>4. CASE q = p
    <2> DEFINE T == Requests \cup {x}
               w == <<x>>
    <2>1. toServer'[q] = toServer[q] \o w /\ toClient'[q] = Tail(toClient[q])
      BY <1>1, <1>4, AppendIs DEF Send
    <2>2. toServer[q] \in Seq(T) /\ w \in Seq(T)
      BY <1>1, SeqGrows, ShortSeq
    <2>0. /\ Has(w, "ApplyResult", a) => a = x.apply
          /\ AtMostOne(w, "ApplyResult", a)
      BY HasOne DEF Bears
    <2> HIDE DEF T, w
    <2>3. /\ Has(toServer'[q], "ApplyResult", a) => Has(toServer[q], "ApplyResult", a) \/ a = x.apply
          /\ AtMostOne(toServer[q], "ApplyResult", a)
               /\ ~(Has(toServer[q], "ApplyResult", a) /\ a = x.apply)
               => AtMostOne(toServer'[q], "ApplyResult", a)
      BY <2>0, <2>1, <2>2, HasMore
    <2>4. /\ Has(toClient'[q], "Apply", a) => Has(toClient[q], "Apply", a)
          /\ AtMostOne(toClient'[q], "Apply", a)
      <3>1. "Apply" \in Watched /\ AtMostOne(toClient[q], "Apply", a)
        BY <1>2 DEF Watched, Token
      <3>2. Thinned(toClient[q], Tail(toClient[q]))
        BY <1>1, <1>4, ThinnedTail
      <3> QED  BY <1>1, <2>1, <3>1, <3>2, ThinnedHas
    <2>5. CASE a = x.apply
      <3>1. Has(toClient[q], "Apply", a) /\ ~Has(Tail(toClient[q]), "Apply", a)
        <4>1. Bears(Head(toClient[q]), "Apply", a) /\ toClient[q] # <<>>
          BY <1>4, <2>5 DEF Bears
        <4>2. AtMostOne(toClient[q], "Apply", a)
          BY <1>2 DEF Token
        <4> QED  BY <1>1, <4>1, <4>2, HeadOnly
      <3> QED  BY <1>2, <2>1, <2>3, <2>4, <3>1 DEF Token, Asked
    <2>6. CASE a # x.apply
      BY <1>2, <2>3, <2>4, <2>6 DEF Token, Asked
    <2> QED  BY <2>5, <2>6
  <1> QED  BY <1>3, <1>4

\* A report that is handled was the only one on its way.
LEMMA ReportTaken ==
  ASSUME TradeInv, Ordered, Fewer, NEW p \in Players, toServer[p] # <<>>,
         Head(toServer[p]).type = "ApplyResult", NEW a \in Nat, a = Head(toServer[p]).apply,
         toServer' = [toServer EXCEPT ![p] = Tail(@)], Thins(toClient, toClient'), TradeInv'
  PROVE  Awaited(p, a) /\ ~Asked(p, a)'
  <1>1. /\ toClient[p] \in Seq(Mail) /\ toClient'[p] \in Seq(Mail)
        /\ toServer[p] \in Seq(Requests) /\ toServer \in [Players -> Seq(Requests)]
    BY LinksTyped, LinksTypedAfter DEF TradeInv, Peers
  <1>2. Token(toClient[p], toServer[p], a)
    BY DEF Ordered
  <1>3. Has(toServer[p], "ApplyResult", a) /\ ~Has(Tail(toServer[p]), "ApplyResult", a)
    <2>1. Bears(Head(toServer[p]), "ApplyResult", a) /\ AtMostOne(toServer[p], "ApplyResult", a)
      BY <1>2 DEF Bears, Token
    <2> QED  BY <1>1, <2>1, HeadOnly
  <1>4. ~Has(toClient'[p], "Apply", a)
    <2>1. "Apply" \in Watched /\ ~Has(toClient[p], "Apply", a)
      BY <1>2, <1>3 DEF Watched, Token
    <2> QED  BY <1>1, <2>1, ThinnedHas DEF Thins
  <1>5. Awaited(p, a)
    BY <1>3 DEF Ordered, Asked
  <1>6. ~Asked(p, a)'
    BY <1>1, <1>3, <1>4 DEF Asked
  <1> QED  BY <1>5, <1>6

-----------------------------------------------------------------------------
(* The start of an application: the orders it sends are the first of it.    *)
LEMMA BeginCommitted ==
  ASSUME ServerInv, Committed, NEW s, NEW locked, Begins(s, locked)
  PROVE  Committed'
  <1>1. s \in SessionIds /\ FineAt(s) /\ ~(s >= nextSessionId) /\ commits[s] = 0
    BY LiveFine, NotYet DEF Begins
  <1>2. /\ sessions \in [SessionIds -> Session \cup {None}]
        /\ applications \in [SessionIds -> Application \cup {None}]
        /\ commits \in [SessionIds -> Int] /\ nextSessionId \in Nat
    BY DEF ServerInv, Shapes, Committed
  <1>3. /\ Beside(s) /\ sessions'[s] = StartApplying(locked)
        /\ UNCHANGED <<commits, nextSessionId>>
    BY <1>1, <1>2 DEF Beside, Begins, BeginApplication
  <1>4. StartApplying(locked).state = "Applying"
    BY SessionCommands DEF Begins
  <1>5. FineAt(s)'
    BY <1>1, <1>3, <1>4 DEF FineAt, Fine
  <1> QED  BY <1>1, <1>2, <1>3, <1>5, OneCommitted

LEMMA BeginMail ==
  ASSUME TradeInv, NEW s, NEW ss, NEW app, NEW q \in Players, NEW a,
         Post(Then(SendState(s, ss), SendApply(s, app)))
  PROVE  /\ Has(toClient'[q], "Apply", a) => Has(toClient[q], "Apply", a) \/ a = app.id
         /\ AtMostOne(toClient[q], "Apply", a) /\ ~(Has(toClient[q], "Apply", a) /\ a = app.id)
              => AtMostOne(toClient'[q], "Apply", a)
  <1> DEFINE x == Snapshot(s, ss)
             y == [type |-> "Apply", session |-> s, revision |-> app.revision,
                   apply |-> app.id, delta |-> app.plan[q]]
             u == SendState(s, ss)[q]
             v == SendApply(s, app)[q]
             T == Mail \cup {x, y}
  <1>1. u \in {<<x>>, <<>>} /\ v \in {<<y>>, <<>>}
    BY DEF SendState, To, SendApply
  <1>2. x.type # "Apply" /\ y.apply = app.id
    BY DEF Snapshot
  <1>3. toClient'[q] \in {toClient[q], <<>>, toClient[q] \o (u \o v)}
    BY DEF Post, PostBut, Then
  <1>4. toClient[q] \in Seq(T) /\ <<x>> \in Seq(T) /\ <<y>> \in Seq(T) /\ <<>> \in Seq(T)
    BY LinksTyped, SeqGrows, ShortSeq
  <1> HIDE DEF x, y, u, v, T
  <1>5. /\ u \in Seq(T) /\ ~Has(u, "Apply", a) /\ AtMostOne(u, "Apply", a)
    BY <1>1, <1>2, <1>4, HasOne DEF Bears
  <1>6. /\ v \in Seq(T) /\ AtMostOne(v, "Apply", a) /\ (Has(v, "Apply", a) => a = app.id)
    BY <1>1, <1>2, <1>4, HasOne DEF Bears
  <1>7. /\ u \o v \in Seq(T) /\ AtMostOne(u \o v, "Apply", a)
        /\ Has(u \o v, "Apply", a) => a = app.id
    <2>1. u \o v \in Seq(T)
      BY <1>5, <1>6, SeqItems
    <2> QED  BY <1>5, <1>6, <2>1, HasMore
  <1> DEFINE w == u \o v
  <1>8. w \in Seq(T) /\ AtMostOne(w, "Apply", a) /\ (Has(w, "Apply", a) => a = app.id)
    BY <1>7
  <1>9. toClient'[q] \in {toClient[q], <<>>, toClient[q] \o w}
    BY <1>3
  <1> HIDE DEF w
  <1>10. CASE toClient'[q] = toClient[q] \o w
    BY <1>4, <1>8, <1>10, HasMore
  <1>11. CASE toClient'[q] \in {toClient[q], <<>>}
    BY <1>11, HasOne
  <1> QED  BY <1>9, <1>10, <1>11

LEMMA BeginOrdered ==
  ASSUME TradeInv, TradeInv', Ordered, NEW s, NEW locked, Begins(s, locked),
         Thins(toServer, toServer')
  PROVE  Ordered'
  <1>0. PICK n \in Nat : n = nextApplyId
    BY DEF TradeInv, ServerInv, Shapes
  <1> DEFINE app == NewApplication(n, locked)
             ss == StartApplying(locked)
  <1>1. /\ Post(Then(SendState(s, ss), SendApply(s, app)))
        /\ applications' = [applications EXCEPT ![s] = app]
        /\ nextApplyId' = n + 1 /\ applications[s] = None /\ s \in SessionIds
        /\ applications \in [SessionIds -> Application \cup {None}]
    BY <1>0 DEF Begins, BeginApplication, IsLive, TradeInv, ServerInv, Shapes
  <1>2. app.id = n /\ \A q \in DOMAIN app.status : app.status[q] = "Pending"
    BY DEF NewApplication
  <1> HIDE DEF app, ss
  <1> SUFFICES ASSUME NEW q \in Players, NEW a \in Nat
               PROVE  /\ Token(toClient'[q], toServer'[q], a)
                      /\ Asked(q, a)' => a < nextApplyId' /\ Awaited(q, a)'
    BY DEF Ordered
  <1>3. /\ Token(toClient[q], toServer[q], a)
        /\ Asked(q, a) => a < n /\ Awaited(q, a)
    BY <1>0 DEF Ordered
  <1>4. /\ Has(toServer'[q], "ApplyResult", a) => Has(toServer[q], "ApplyResult", a)
        /\ AtMostOne(toServer[q], "ApplyResult", a) => AtMostOne(toServer'[q], "ApplyResult", a)
    <2>1. "ApplyResult" \in Watched /\ toServer[q] \in Seq(Requests) /\ toServer'[q] \in Seq(Requests)
      BY LinksTyped DEF Watched, TradeInv, Peers
    <2> QED  BY <2>1, ThinnedHas DEF Thins
  <1>5. /\ Has(toClient'[q], "Apply", a) => Has(toClient[q], "Apply", a) \/ a = n
        /\ AtMostOne(toClient[q], "Apply", a) /\ ~(Has(toClient[q], "Apply", a) /\ a = n)
             => AtMostOne(toClient'[q], "Apply", a)
    BY <1>1, <1>2, BeginMail
  <1>6. Token(toClient'[q], toServer'[q], a)
    BY <1>3, <1>4, <1>5 DEF Token, Asked
  <1>7. ASSUME Asked(q, a)' PROVE a < nextApplyId' /\ Awaited(q, a)'
    <2>1. a = n \/ (a < n /\ Awaited(q, a))
      BY <1>3, <1>4, <1>5, <1>7 DEF Asked
    <2>2. ASSUME NEW t \in SessionIds, applications'[t] # None, applications'[t].id = a,
                 q \in DOMAIN applications'[t].status
          PROVE  applications'[t].status[q] = "Pending"
      <3>1. CASE t = s
        BY <1>1, <1>2, <2>2, <3>1
      <3>2. CASE t # s
        <4>1. applications'[t] = applications[t]
          BY <1>1, <3>2
        <4>2. applications[t].id < n
          BY <1>0, <2>2, <4>1 DEF TradeInv, ServerInv, Numbered, Number
        <4> QED  BY <2>1, <2>2, <4>1, <4>2 DEF Awaited
      <3> QED  BY <3>1, <3>2
    <2> QED  BY <1>1, <2>1, <2>2 DEF Awaited
  <1> QED  BY <1>6, <1>7

-----------------------------------------------------------------------------
(* The server at work.                                                      *)

\* An identity that was not given out is on no link.
LEMMA Unasked ==
  ASSUME TradeInv, Ordered, Fewer, NEW p \in Players
  PROVE  \E a \in Nat : ~Asked(p, a)'
  <1>1. PICK a \in Nat : a = nextApplyId
    BY DEF TradeInv, ServerInv, Shapes
  <1>2. ~(a < nextApplyId)
    BY <1>1
  <1>3. ~Asked(p, a)'
    BY <1>2 DEF Fewer, Ordered
  <1> QED  BY <1>3

LEMMA ServedOnce ==
  ASSUME TradeInv, TradeInv', OnceInv, NEW p, NEW a, Mild(p, a), Thins(toServer, toServer'),
         ~Asked(p, a)'
  PROVE  OnceInv'
  <1>1. Fewer
    BY ThinsFewer DEF OnceInv, Mild
  <1>2. nextApplyId \in Nat /\ nextApplyId' = nextApplyId
    BY DEF TradeInv, ServerInv, Shapes, Mild
  <1>3. nextApplyId' \in Nat /\ nextApplyId <= nextApplyId'
    BY <1>2
  <1>4. Ordered'
    BY <1>1, <1>2, <1>3, OrderedStays DEF OnceInv, Mild
  <1> QED  BY <1>4 DEF OnceInv, Mild

\* A step that records no report on an application.
LEMMA QuietOnce ==
  ASSUME TradeInv, TradeInv', OnceInv, NEW p \in Players, \A a \in Nat : Mild(p, a),
         Thins(toServer, toServer')
  PROVE  OnceInv'
  <1>1. Thins(toClient, toClient')
    BY DEF Mild
  <1>2. Fewer
    BY <1>1, ThinsFewer DEF OnceInv
  <1>3. PICK a \in Nat : ~Asked(p, a)'
    BY <1>2, Unasked DEF OnceInv
  <1> QED  BY <1>3, ServedOnce

LEMMA ServeOnce ==
  ASSUME TradeInv, TradeInv', OnceInv, NEW p \in Players, Serve(p)
  PROVE  OnceInv'
  <1>1. PICK r : r = Head(toServer[p])
    OBVIOUS
  <1>2. /\ toServer[p] # <<>> /\ Handle(p, r) /\ ServerInv /\ Ordered /\ Committed
        /\ toServer' = [toServer EXCEPT ![p] = Tail(@)] /\ UNCHANGED <<client, budget>>
    BY <1>1 DEF Serve, TradeInv, OnceInv
  <1>3. toServer \in [Players -> Seq(Requests)]
    BY DEF TradeInv, Peers
  <1>4. r \in Requests /\ Legal(r)
    BY <1>1, <1>2, <1>3, SeqItems, RequestIsLegal
  <1>6. Thins(toServer, toServer')
    <2>1. Thinned(toServer[p], Tail(toServer[p]))
      BY <1>2, <1>3, ThinnedTail
    <2>2. \A q \in Players : Thinned(toServer[q], toServer[q])
      BY <1>3, ThinnedSame
    <2> QED  BY <1>2, <1>3, <2>1, <2>2 DEF Thins
  <1>8. ASSUME \A a \in Nat : Mild(p, a)
        PROVE  OnceInv'
    BY <1>6, <1>8, QuietOnce
  <1>9. CASE r.type = "Invite" /\ OnTradeInviteRequest(p, r)
    BY <1>2, <1>8, <1>9, InviteMild
  <1>10. CASE r.type = "Response" /\ OnTradeInviteResponseRequest(p, r)
    BY <1>2, <1>8, <1>10, ResponseMild
  <1>11. CASE r.type = "Offer" /\ OnTradeOfferUpdateRequest(p, r)
    BY <1>2, <1>4, <1>8, <1>11, OfferMild DEF Legal
  <1>12. CASE r.type = "Cancel" /\ OnTradeCancelRequest(p, r)
    BY <1>2, <1>8, <1>12, CancelMild
  <1>13. CASE r.type = "ReconcileResult" /\ OnTradeReconcileResultRequest(p, r)
    <2>1. r.result \in Outcomes
      BY <1>4, <1>13 DEF Legal
    <2> QED  BY <1>2, <1>8, <1>13, <2>1, ReconcileResultMild
  <1>14. CASE r.type = "Confirm" /\ OnTradeConfirmRequest(p, r)
    <2>2. ASSUME NEW locked, Begins(r.session, locked)
          PROVE  OnceInv'
      <3>1. Committed'
        BY <1>2, <2>2, BeginCommitted
      <3>2. Ordered'
        BY <1>2, <1>6, <2>2, BeginOrdered
      <3> QED  BY <3>1, <3>2 DEF OnceInv
    <2>3. CASE \A a \in Nat : Mild(p, a)
      BY <1>8, <2>3
    <2>4. CASE \E a \in Nat : ~Mild(p, a)
      BY <1>2, <1>14, <2>2, <2>4, ConfirmMild
    <2> QED  BY <2>3, <2>4
  <1>15. CASE r.type = "ApplyResult" /\ OnTradeApplyResultRequest(p, r)
    <2>1. r.result \in Outcomes
      BY <1>4, <1>15 DEF Legal
    <2>2. PICK a \in Nat : a = r.apply
      BY <1>4, <1>15 DEF Requests
    <2>3. Bears(Head(toServer[p]), "ApplyResult", a)
      BY <1>1, <1>15, <2>2 DEF Bears
    <2>4. Has(toServer[p], "ApplyResult", a)
      <3>1. AtMostOne(toServer[p], "ApplyResult", a)
        BY <1>2 DEF Ordered, Token
      <3> QED  BY <1>2, <1>3, <2>3, <3>1, HeadOnly
    <2>5. Awaited(p, a)
      BY <1>2, <2>4 DEF Ordered, Asked
    <2>6. Mild(p, a)
      BY <1>2, <1>15, <2>1, <2>2, <2>5, ApplyResultMild
    <2>7. Thins(toClient, toClient')
      BY <2>6 DEF Mild
    <2>8. Fewer
      BY <1>2, <1>6, <2>7, ThinsFewer
    <2>9. ~Asked(p, a)'
      BY <1>1, <1>2, <1>15, <2>2, <2>7, <2>8, ReportTaken
    <2> QED  BY <1>6, <2>6, <2>9, ServedOnce
  <1>16. CASE OnInventoryChanges(p, r) \/ OnEquipmentChanges(p, r)
    <2>1. \A a \in Nat : Mild(p, a)
      BY <1>2, <1>16, SilentMild DEF OnInventoryChanges, OnEquipmentChanges
    <2> QED  BY <1>8, <2>1
  <1> QED  BY <1>2, <1>9, <1>10, <1>11, <1>12, <1>13, <1>14, <1>15, <1>16 DEF Handle

-----------------------------------------------------------------------------
(* The clients at work.                                                     *)

\* A step of the clients: the registry is as it was.
LEMMA ClientOnce ==
  ASSUME TradeInv, TradeInv', OnceInv, NEW p \in Players, Fewer,
         UNCHANGED <<registry, ids, commits>>
  PROVE  OnceInv'
  <1>1. /\ ServerInv /\ Committed /\ Ordered
        /\ UNCHANGED <<sessions, applications, reconciliations, commits, nextSessionId>>
    BY DEF TradeInv, OnceInv, registry, ids
  <1>2. Committed'
    BY <1>1, SameCommitted
  <1>3. nextApplyId \in Nat /\ nextApplyId' = nextApplyId
    BY DEF TradeInv, ServerInv, Shapes, ids
  <1>4. PICK a \in Nat : a = 0
    OBVIOUS
  <1>5. SameBut(p, a)
    BY <1>1, SameReports
  <1>6. Ordered'
    <2>1. nextApplyId' \in Nat /\ nextApplyId <= nextApplyId'
      BY <1>3
    <2> QED  BY <1>1, <1>3, <1>5, <2>1, OrderedStays
  <1> QED  BY <1>2, <1>6 DEF OnceInv

\* A client sends something that is no report on an application.
LEMMA SendOnce ==
  ASSUME TradeInv, TradeInv', OnceInv, NEW p \in Players, NEW x, Send(p, x),
         x.type # "ApplyResult", Thins(toClient, toClient'), UNCHANGED <<registry, ids, commits>>
  PROVE  OnceInv'
  <1>1. Fewer
    BY SentFewer DEF OnceInv
  <1> QED  BY <1>1, ClientOnce

LEMMA PostOnce ==
  ASSUME TradeInv, TradeInv', OnceInv, NEW p \in Players, NEW x, Send(p, x),
         x.type # "ApplyResult", UNCHANGED serverVars
  PROVE  OnceInv'
  <1>1. Thins(toClient, toClient') /\ UNCHANGED <<registry, ids, commits>>
    BY ToClientSame DEF TradeInv, serverVars
  <1> QED  BY <1>1, SendOnce

LEMMA ActsOnce ==
  ASSUME TradeInv, TradeInv', OnceInv, NEW p \in Players, PlayerActs(p)
  PROVE  OnceInv'
  <1>1. ASSUME NEW x, Request(p, x), x.type # "ApplyResult" PROVE OnceInv'
    BY <1>1, PostOnce DEF Request
  <1>2. ASSUME NEW target \in Players, InvitePlayer(p, target) PROVE OnceInv'
    BY <1>1, <1>2 DEF InvitePlayer
  <1>3. ASSUME NEW accepted \in BOOLEAN, RespondToInvite(p, accepted) PROVE OnceInv'
    BY <1>1, <1>3 DEF RespondToInvite
  <1>4. ASSUME NEW offer \in OfferChoices, UpdateOffer(p, offer) PROVE OnceInv'
    BY <1>1, <1>4 DEF UpdateOffer
  <1>5. CASE ConfirmTrade(p)
    BY <1>1, <1>5 DEF ConfirmTrade
  <1>6. CASE CancelTrade(p)
    BY <1>1, <1>6 DEF CancelTrade
  <1>7. ASSUME NEW i \in Items, NEW delta \in {-1, 1}, ChangeItem(p, i, delta) PROVE OnceInv'
    <2>1. PICK x : x = [type |-> "Change", item |-> i, delta |-> delta]
      OBVIOUS
    <2> QED  BY <1>7, <2>1, PostOnce DEF ChangeItem
  <1>8. ASSUME NEW fixed \in SUBSET Items, ChangeEquipment(p, fixed) PROVE OnceInv'
    <2>1. PICK x : x = [type |-> "Equipment", fixed |-> fixed]
      OBVIOUS
    <2> QED  BY <1>8, <2>1, PostOnce DEF ChangeEquipment
  <1> QED  BY <1>2, <1>3, <1>4, <1>5, <1>6, <1>7, <1>8 DEF PlayerActs

-----------------------------------------------------------------------------
\* A plan is applied, or was, and the report is sent.
LEMMA ApplySends ==
  ASSUME NEW p, NEW m, NEW fault, OnNotifyTradeApply(p, m, fault)
  PROVE  \E result : Send(p, ApplyResult(m, result))
  BY DEF OnNotifyTradeApply

LEMMA ReconcileSends ==
  ASSUME NEW p, NEW m, NEW fault, OnNotifyTradeReconcile(p, m, fault)
  PROVE  \E result : Send(p, ReconcileResult(m, result))
  BY DEF OnNotifyTradeReconcile

LEMMA ReceiveOnce ==
  ASSUME TradeInv, TradeInv', OnceInv, NEW p \in Players, Receive(p)
  PROVE  OnceInv'
  <1>1. PICK m : m = Head(toClient[p])
    OBVIOUS
  <1>2. /\ toClient[p] # <<>> /\ toClient' = [toClient EXCEPT ![p] = Tail(@)]
        /\ UNCHANGED <<registry, ids, commits>>
    BY DEF Receive
  <1>3. /\ toServer \in [Players -> Seq(Requests)]
        /\ toClient \in [Players -> Seq(Current(sessions, nextSessionId))]
    BY DEF TradeInv, Peers, ServerInv, Delivered
  <1>5. \/ UNCHANGED toServer
        \/ m.type = "Apply" /\ \E fault \in BOOLEAN : OnNotifyTradeApply(p, m, fault)
        \/ m.type = "Reconcile" /\ \E fault \in BOOLEAN : OnNotifyTradeReconcile(p, m, fault)
    BY <1>1 DEF Receive
  <1>6. Thins(toClient, toClient')
    <2> DEFINE D == Current(sessions, nextSessionId)
    <2>0. toClient \in [Players -> Seq(D)]
      BY <1>3
    <2> HIDE DEF D
    <2>1. Thinned(toClient[p], Tail(toClient[p]))
      BY <1>2, <2>0, ThinnedTail
    <2>2. \A q \in Players : Thinned(toClient[q], toClient[q])
      BY <2>0, ThinnedSame
    <2> QED  BY <1>2, <2>0, <2>1, <2>2 DEF Thins
  <1>7. CASE UNCHANGED toServer
    <2>1. Thins(toServer, toServer')
      BY <1>3, <1>7, ThinnedSame DEF Thins
    <2>2. Fewer
      BY <1>6, <2>1, ThinsFewer DEF OnceInv
    <2> QED  BY <1>2, <2>2, ClientOnce
  <1>8. ASSUME m.type = "Apply", NEW fault \in BOOLEAN, OnNotifyTradeApply(p, m, fault)
        PROVE  OnceInv'
    <2>1. PICK result : Send(p, ApplyResult(m, result))
      BY <1>8, ApplySends
    <2>2. PICK x : x = ApplyResult(m, result)
      OBVIOUS
    <2>3. x.type = "ApplyResult" /\ x.apply = m.apply /\ Send(p, x)
      BY <2>1, <2>2 DEF ApplyResult
    <2>4. Fewer
      BY <1>1, <1>2, <1>8, <2>3, TokenMoves DEF OnceInv
    <2> QED  BY <1>2, <2>4, ClientOnce
  <1>9. ASSUME m.type = "Reconcile", NEW fault \in BOOLEAN, OnNotifyTradeReconcile(p, m, fault)
        PROVE  OnceInv'
    <2>1. PICK result : Send(p, ReconcileResult(m, result))
      BY <1>9, ReconcileSends
    <2>2. PICK x : x = ReconcileResult(m, result)
      OBVIOUS
    <2>3. x.type # "ApplyResult" /\ Send(p, x)
      BY <2>1, <2>2 DEF ReconcileResult
    <2> QED  BY <1>2, <1>6, <2>3, SendOnce
  <1> QED  BY <1>5, <1>7, <1>8, <1>9

-----------------------------------------------------------------------------
(* What happens to links and processes.                                     *)

\* A step of the server that nobody asked for.
LEMMA IdleOnce ==
  ASSUME TradeInv, TradeInv', OnceInv, \A p \in Players, a \in Nat : Mild(p, a), Committed',
         Thins(toServer, toServer')
  PROVE  OnceInv'
  <1>1. ASSUME NEW p \in Players PROVE OnceInv'
    BY QuietOnce
  <1>2. CASE Players = {}
    BY <1>2 DEF Ordered, OnceInv
  <1> QED  BY <1>1, <1>2

LEMMA RepeatedOnce ==
  ASSUME TradeInv, TradeInv', OnceInv, Repeatable \cap Watched = {}, NEW p \in Players, Repeated(p)
  PROVE  OnceInv'
  <1>1. /\ toServer \in [Players -> Seq(Requests)]
        /\ toClient \in [Players -> Seq(Current(sessions, nextSessionId))]
    BY DEF TradeInv, Peers, ServerInv, Delivered
  <1>3. ASSUME NEW S, NEW link \in [Players -> Seq(S)], NEW new, link[p] # <<>>,
               Head(link[p]).type \in Repeatable, NEW k \in 2..(Len(link[p]) + 1),
               new = [link EXCEPT ![p] = InsertAt(@, k, Head(@))]
        PROVE  Thins(link, new)
    <2>1. Head(link[p]).type \notin Watched
      BY <1>3
    <2>2. Thinned(link[p], InsertAt(link[p], k, Head(link[p])))
      BY <1>3, <2>1, ThinnedTwice
    <2>3. \A q \in Players : Thinned(link[q], link[q])
      BY <1>3, ThinnedSame
    <2> QED  BY <1>3, <2>2, <2>3 DEF Thins
  <1>4. UNCHANGED <<registry, ids, commits>>
    BY DEF Repeated, serverVars
  <1>5. Thins(toServer, toServer') /\ Thins(toClient, toClient')
    <2>1. Thins(toServer, toServer) /\ Thins(toClient, toClient)
      BY <1>1, SameThins
    <2>2. CASE Twice(toServer, p) /\ UNCHANGED <<serverVars, client>>
      <3>1. Thins(toServer, toServer')
        BY <1>1, <1>3, <2>2 DEF Twice
      <3> QED  BY <2>1, <2>2, <3>1 DEF serverVars
    <2>3. CASE Twice(toClient, p) /\ UNCHANGED clientVars
      <3>1. Thins(toClient, toClient')
        BY <1>1, <1>3, <2>3 DEF Twice
      <3> QED  BY <2>1, <2>3, <3>1 DEF clientVars
    <2> QED  BY <2>2, <2>3 DEF Repeated
  <1>6. Fewer
    BY <1>5, ThinsFewer DEF OnceInv
  <1> QED  BY <1>4, <1>6, ClientOnce

LEMMA LeaveGameOnce ==
  ASSUME TradeInv, TradeInv', OnceInv, NEW p \in Players, LeaveGame(p)
  PROVE  OnceInv'
  <1>1. toServer \in [Players -> Seq(Requests)]
    BY DEF TradeInv, Peers
  <1>2. Thins(toServer, toServer')
    <2>1. \A q \in Players : toServer'[q] \in {toServer[q], <<>>}
      BY <1>1 DEF LeaveGame
    <2> QED  BY <1>1, <2>1, ThinnedSame DEF Thins
  <1>3. \A a \in Nat : Mild(p, a)
    BY LeaveMild DEF LeaveGame, TradeInv, OnceInv
  <1> QED  BY <1>2, <1>3, QuietOnce

LEMMA ClockOnce ==
  ASSUME TradeInv, TradeInv', OnceInv, Sweep \/ TimePasses
  PROVE  OnceInv'
  <1>1. ServerInv /\ Committed /\ (OnUpdate \/ Tick) /\ UNCHANGED toServer
    BY DEF Sweep, TimePasses, clientVars, TradeInv, OnceInv
  <1>2. \A p, a : Mild(p, a)
    BY <1>1, SweepMild, TickMild
  <1>3. Committed'
    BY <1>2 DEF Mild
  <1>4. Thins(toServer, toServer')
    BY <1>1, SameThins DEF TradeInv, Peers
  <1> QED  BY <1>2, <1>3, <1>4, IdleOnce

\* Nothing is on its way.
LEMMA EmptyLinks ==
  \A a : Token(<<>>, <<>>, a) /\ ~Has(<<>>, "Apply", a) /\ ~Has(<<>>, "ApplyResult", a)
  BY DEF Token, AtMostOne, Has

LEMMA RestartOnce ==
  ASSUME Restart
  PROVE  OnceInv'
  <1>1. \A p \in Players : toClient'[p] = <<>> /\ toServer'[p] = <<>>
    BY DEF Restart, ServerRestart
  <1>2. Ordered'
    BY <1>1, EmptyLinks DEF Ordered, Asked
  <1>3. Committed'
    <2>1. /\ commits' = [s \in SessionIds |-> 0]
          /\ \A s \in SessionIds : sessions'[s] = None
      BY DEF Restart, ServerRestart, Nothing
    <2> QED  BY <2>1 DEF Committed, Fine
  <1> QED  BY <1>2, <1>3 DEF OnceInv

LEMMA StutterOnce ==
  ASSUME TradeInv, TradeInv', OnceInv, UNCHANGED vars
  PROVE  OnceInv'
  <1>1. UNCHANGED <<registry, ids, toClient, commits, toServer>>
    BY DEF vars, serverVars, clientVars
  <1> QED  BY <1>1 DEF OnceInv, Ordered, Committed, Token, Asked, Awaited, Fine, registry, ids

LEMMA InitOnce ==
  ASSUME Init
  PROVE  OnceInv
  <1>1. Ordered
    BY EmptyLinks DEF Ordered, Asked, Init, ServerInit
  <1>2. Committed
    <2>1. commits = [s \in SessionIds |-> 0] /\ \A s \in SessionIds : sessions[s] = None
      BY DEF Init, ServerInit, Nothing
    <2> QED  BY <2>1 DEF Committed, Fine
  <1> QED  BY <1>1, <1>2 DEF OnceInv

LEMMA NextOnce ==
  ASSUME TradeInv, OnceInv, Repeatable \cap Watched = {}, [Next]_vars
  PROVE  OnceInv'
  <1>0. TradeInv'
    BY NextKeeps
  <1>1. ASSUME NEW p \in Players, PlayerActs(p) PROVE OnceInv'
    BY <1>0, <1>1, ActsOnce
  <1>2. ASSUME NEW p \in Players, Receive(p) PROVE OnceInv'
    BY <1>0, <1>2, ReceiveOnce
  <1>3. ASSUME NEW p \in Players, Serve(p) PROVE OnceInv'
    BY <1>0, <1>3, ServeOnce
  <1>4. ASSUME NEW p \in Players, Repeated(p) PROVE OnceInv'
    BY <1>0, <1>4, RepeatedOnce
  <1>5. ASSUME NEW p \in Players, LeaveGame(p) PROVE OnceInv'
    BY <1>0, <1>5, LeaveGameOnce
  <1>6. CASE Sweep \/ TimePasses
    BY <1>0, <1>6, ClockOnce
  <1>7. CASE Restart
    BY <1>7, RestartOnce
  <1>8. CASE UNCHANGED vars
    BY <1>0, <1>8, StutterOnce
  <1> QED  BY <1>1, <1>2, <1>3, <1>4, <1>5, <1>6, <1>7, <1>8 DEF Next

\* Whoever leaves, answers late, fails, is restarted, or changes what it owns and
\* wears, as often as it likes: no plan is committed twice, that of a Completed
\* session was committed, and what was committed was reported applied by both and
\* nobody is told to take it back.  It takes links that deliver the order to apply,
\* and the report on it, once.
THEOREM Commits ==
  ASSUME Repeatable \cap {"Apply", "ApplyResult"} = {}
  PROVE  Spec => []CommittedOnce
  <1>1. Init => OnceInv
    BY InitOnce
  <1>2. TradeInv /\ OnceInv /\ [Next]_vars => OnceInv'
    BY NextOnce DEF Watched
  <1>3. TradeInv /\ OnceInv => CommittedOnce
    BY LiveFine DEF TradeInv, OnceInv, CommittedOnce
  <1> QED  BY <1>1, <1>2, <1>3, TradeInvariance, PTL DEF Spec
=============================================================================
