---------------------------- MODULE CampaignLobby ----------------------------
(***************************************************************************)
(* From an empty server to a sealed roster: CampaignAdmissionService,       *)
(* CampaignLobbyDirectory and the lobby handlers of CampaignProtocolService *)
(* over the journaled roster commands of CampaignRuntimeService, together   *)
(* with the parties they depend on.  Several campaigns, several players,    *)
(* each with at most one connection.  A client may repeat any command under *)
(* its mutation identifier, at any later time and on any later connection.  *)
(* A handler that rejects a command and undoes what it did is no step.      *)
(***************************************************************************)
EXTENDS PartyService

CONSTANTS Campaigns,        \* campaign identifiers
          Mutations,        \* bound: mutation identifiers of the clients
          RollbackId,       \* "bootstrap-code-rollback"
          CodesMayRunOut    \* whether Allocate may exhaust its attempts

ASSUME LobbyAssumption ==
  RollbackId \notin Mutations /\ CodesMayRunOut \in BOOLEAN

VARIABLES campaigns,       \* durable: each campaign's roster and journal
          admission,       \* m_connections: admitted and previous identity
          lobbies,         \* m_lobbies: the party behind a live join code
          pendingResume,   \* m_pendingResumeAlignments
          sent             \* the command a mutation identifier was drawn for
vars == <<online, party, invitations, campaigns, admission, lobbies,
          pendingResume, sent>>

Slots == 1..Cardinality(Players)   \* slot-01, slot-02, ...
Entry == [player: Players, binding: Nat]
Identity == [campaign: Campaigns, slot: Slots, binding: Nat]
Kinds == {"CreateCampaign", "AddRosterSlot", "RemoveRosterSlot",
          "CommitCampaignStart", "SetReady"}
JournalRow ==
  [id: Mutations \cup {RollbackId}, expected: Nat, kind: Kinds,
   slot: Slots \cup {0}, player: Players \cup {None}, binding: Nat, flag: BOOLEAN]
Campaign ==
  [revision: Nat, sealed: BOOLEAN, manager: Players \cup {None},
   ready: SUBSET Slots, roster: [Slots -> Entry \cup {None}], journal: SUBSET JournalRow]
Pending == [party: PartyIds \cup {Dissolved}, added: BOOLEAN]
ASSUME NoRecord ==
  None \notin Entry /\ None \notin Identity /\ None \notin Campaign /\ None \notin Pending

\* A journal row.  A binding is named by the revision that introduced it.
Row(m, expected, kind, slot, player, binding, flag) ==
  [id |-> m, expected |-> expected, kind |-> kind, slot |-> slot,
   player |-> player, binding |-> binding, flag |-> flag]

Taken(camp) == {s \in Slots : camp.roster[s] # None}
SlotOf(camp, p) == {s \in Taken(camp) : camp.roster[s].player = p}
MinOf(S) == CHOOSE x \in S : \A y \in S : x <= y

NoAdmission == [admitted |-> None, previous |-> None]
IsAdmitted(p, c) ==
  admission[p].admitted # None /\ admission[p].admitted.campaign = c
AdmittedElsewhere(p, c) ==
  admission[p].admitted # None /\ admission[p].admitted.campaign # c
GetAdmittedConnections(c) == {p \in online : IsAdmitted(p, c)}
Exact(camp, p, identity) ==
  camp.roster[identity.slot] = [player |-> p, binding |-> identity.binding]

\* CampaignPublicSlotData::Present, for every slot.
EveryonePresent(c) ==
  \A s \in Taken(campaigns[c]) : \E p \in GetAdmittedConnections(c) :
     admission[p].admitted.slot = s /\ Exact(campaigns[c], p, admission[p].admitted)

\* SharesCampaignParty without and with aRequireCompleteRoster.
SharesCampaignParty(p, c) ==
  /\ party.joined[p] # None
  /\ GetAdmittedConnections(c) # {}
  /\ \A q \in GetAdmittedConnections(c) : party.joined[q] = party.joined[p]
\* Mutant: the party may hold others.
SharesOnlyPresence(p, c) == SharesCampaignParty(p, c) /\ EveryonePresent(c)
SharesCompleteParty(p, c) ==
  LET n == Cardinality(GetAdmittedConnections(c))
  IN  /\ SharesCampaignParty(p, c) /\ EveryonePresent(c)
      /\ n = Cardinality(Taken(campaigns[c]))
      /\ n = Len(party.parties[party.joined[p]].members)

-----------------------------------------------------------------------------
(***************************************************************************)
(* The roster commands: FindMutationReplay, the revision check, the domain  *)
(* rule, and the one transaction that writes result and journal row.        *)
(***************************************************************************)
\* Mutant: a repeated identifier is not looked up.
VerdictWithoutLookup(camp, row, allowed) ==
  IF row.expected # camp.revision THEN "StaleRevision"
  ELSE IF allowed THEN "Applied" ELSE "Rejected"

Verdict(camp, row, allowed) ==
  LET known == {r \in camp.journal : r.id = row.id}
  IN  CASE known # {} /\ row \in known    -> "IdempotentReplay"
        [] known # {} /\ row \notin known -> "IdempotencyConflict"
        [] known = {} /\ row.expected # camp.revision -> "StaleRevision"
        [] OTHER -> IF allowed THEN "Applied" ELSE "Rejected"
Succeeded(result) == result \in {"Applied", "IdempotentReplay"}

PersistAcceptedNoOp(camp, row) == [camp EXCEPT !.journal = @ \cup {row}]
PersistMutation(camp, row) ==
  [camp EXCEPT !.journal = @ \cup {row}, !.revision = @ + 1]

\* CreateLobbyCampaign: revision 1, the host in slot-01.
NewCampaign(p, m) ==
  [revision |-> 1, sealed |-> FALSE, manager |-> None, ready |-> {},
   roster |-> [s \in Slots |-> IF s = 1 THEN [player |-> p, binding |-> 1] ELSE None],
   journal |-> {Row(m, 0, "CreateCampaign", 1, p, 1, FALSE)}]

\* AddRosterSlot, RemoveRosterSlot, CommitCampaignStart and SetReady, once the
\* domain allows them.  Readiness that does not change is only journaled.
AddRosterSlot(camp, row, entry) ==
  PersistMutation([camp EXCEPT !.roster[row.slot] = entry], row)
RemoveRosterSlot(camp, row) ==
  PersistMutation([camp EXCEPT !.roster[row.slot] = None], row)
CommitCampaignStart(camp, row) ==
  PersistMutation([camp EXCEPT !.sealed = TRUE, !.manager = row.player], row)
SetReady(camp, row) ==
  LET ready == IF row.flag THEN camp.ready \cup {row.slot} ELSE camp.ready \ {row.slot}
  IN  IF ready = camp.ready THEN PersistAcceptedNoOp(camp, row)
      ELSE PersistMutation([camp EXCEPT !.ready = ready], row)

\* FindCampaignCreation: campaigns whose creation p journaled under m.
Creations(p, m) ==
  {c \in Campaigns : campaigns[c] # None /\
     \E r \in campaigns[c].journal :
        r.id = m /\ r.kind = "CreateCampaign" /\ r.player = p}

\* CampaignAdmissionService::CreateCampaign and ResumeCampaign accept.
CreateAccepted(p, c, camp, replay) ==
  IF replay
    THEN /\ ~AdmittedElsewhere(p, c)
         /\ Exact(camp, p, [campaign |-> c, slot |-> 1, binding |-> 1])
    ELSE admission[p].admitted = None
ResumeAccepted(p, c, binding) ==
  LET own == SlotOf(campaigns[c], p)
  IN  /\ ~AdmittedElsewhere(p, c) /\ own # {}
      /\ campaigns[c].roster[MinOf(own)].binding = binding

\* CampaignAdmissionService::JoinCampaign, up to the admission it grants.
JoinCampaign(p, c, m, expected) ==
  LET camp    == campaigns[c]
      own     == SlotOf(camp, p)
      slot    == IF own # {} THEN MinOf(own) ELSE MinOf(Slots \ Taken(camp))
      entry   == IF own # {} THEN camp.roster[slot]
                 ELSE [player |-> p, binding |-> camp.revision + 1]
      row     == Row(m, expected, "AddRosterSlot", slot, p, entry.binding, FALSE)
      verdict == Verdict(camp, row, own = {})
  IN  [result |-> IF camp.sealed THEN "RosterSealed"
                  ELSE IF own # {} /\ verdict = "Rejected"
                    THEN "ExistingMembershipRequiresResume"
                  ELSE verdict,
       identity |-> [campaign |-> c, slot |-> slot, binding |-> entry.binding],
       campaign |-> IF verdict = "Applied"
                      THEN AddRosterSlot(camp, row, entry)
                      ELSE camp]

\* CampaignAdmissionService::LeaveCampaign for a connection with that record.
MayLeave(record, c) ==
  \/ record.admitted # None /\ record.admitted.campaign = c
  \/ record.previous # None /\ record.previous.campaign = c
LeaveCampaign(record, camp, c, m, expected) ==
  LET identity == IF record.admitted # None /\ record.admitted.campaign = c
                    THEN record.admitted ELSE record.previous
      row == Row(m, expected, "RemoveRosterSlot", identity.slot, None, 0, FALSE)
      verdict == Verdict(camp, row, ~camp.sealed /\ identity.slot \in Taken(camp))
  IN  [result |-> verdict,
       campaign |-> IF verdict = "Applied" THEN RemoveRosterSlot(camp, row) ELSE camp,
       record |-> IF ~Succeeded(verdict) \/ record.admitted = None THEN record
                  ELSE [admitted |-> None, previous |-> record.admitted]]

-----------------------------------------------------------------------------
(***************************************************************************)
(* The lobby directory.                                                     *)
(***************************************************************************)
\* Allocate, and Invalidate: a campaign has at most one code.
Allocate(directory, c, i) == [directory EXCEPT ![c] = i]
Invalidate(directory, c) == [directory EXCEPT ![c] = None]

\* Mutant: a sealed campaign keeps its code.
BroadcastKeepsSealed(directory, c, camp) ==
  IF Taken(camp) = {} THEN Invalidate(directory, c) ELSE directory

\* BroadcastLobbyState, which Finish calls after every accepted command: the
\* code of a sealed or empty campaign is invalidated.
BroadcastLobbyState(directory, c, camp) ==
  IF camp.sealed \/ Taken(camp) = {} THEN Invalidate(directory, c) ELSE directory

\* References to a party that has dissolved.
LiveLobbies(directory, s) == [c \in Campaigns |-> Live(s, directory[c])]
LivePending(pending, s) ==
  [p \in Players |-> IF pending[p] = None THEN None
                     ELSE [pending[p] EXCEPT !.party = Live(s, @)]]

\* A mutation identifier is drawn for one command and only repeated for it.
Command(op, p, c, expected) ==
  [op |-> op, player |-> p, campaign |-> c, expected |-> expected]
MayUse(m, command) == sent[m] = None \/ sent[m] = command

-----------------------------------------------------------------------------
(***************************************************************************)
(* Lobby handlers.                                                          *)
(***************************************************************************)
\* OnCreate: lead a party, create or replay, then publish a code, or undo.
OnCreate(p, m) ==
  /\ p \in online /\ MayLeadCampaign(party, p)
  /\ MayUse(m, Command("Create", p, None, 0))
  /\ LET replay == Creations(p, m) # {} IN
     \E c \in IF replay THEN Creations(p, m) ELSE {x \in Campaigns : campaigns[x] = None},
        code \in IF CodesMayRunOut THEN BOOLEAN ELSE {TRUE} :
       LET ensured  == Ensured(party, NextId(party), p)
           identity == [campaign |-> c, slot |-> 1, binding |-> 1]
           camp     == IF replay THEN campaigns[c] ELSE NewCampaign(p, m)
           accepted == CreateAccepted(p, c, camp, replay)
           admitted == [admission[p] EXCEPT !.admitted = identity]
           undone   == LeaveCampaign(admitted, camp, c, RollbackId, 1)
       IN  /\ party' = IF accepted /\ (code \/ lobbies[c] # None \/ ~Succeeded(undone.result))
                         THEN ensured ELSE RolledBack(party, ensured, p)
           /\ IF ~accepted THEN UNCHANGED <<campaigns, admission, lobbies, sent>>
              ELSE /\ sent' = [sent EXCEPT ![m] = Command("Create", p, None, 0)]
                   /\ IF code \/ lobbies[c] # None
                        THEN /\ campaigns' = [campaigns EXCEPT ![c] = camp]
                             /\ admission' = [admission EXCEPT ![p] = admitted]
                             /\ lobbies' = BroadcastLobbyState(
                                   Allocate(lobbies, c, ensured.joined[p]), c, camp)
                        ELSE /\ campaigns' = [campaigns EXCEPT ![c] = undone.campaign]
                             /\ admission' = [admission EXCEPT ![p] = undone.record]
                             /\ UNCHANGED lobbies
  /\ UNCHANGED <<online, invitations, pendingResume>>

\* What an accepted join does to store, admission and mutation identifier.
Join(p, c, m, command, joined) ==
  /\ campaigns' = [campaigns EXCEPT ![c] = joined.campaign]
  /\ admission' = [admission EXCEPT ![p].admitted = joined.identity]
  /\ sent' = [sent EXCEPT ![m] = command]

\* OnJoin: by campaign identifier, from within the campaign's party.
OnJoin(p, c, m, expected) ==
  /\ p \in online /\ campaigns[c] # None
  /\ SharesCampaignParty(p, c) /\ ~AdmittedElsewhere(p, c)
  /\ MayUse(m, Command("Join", p, c, expected))
  /\ LET joined == JoinCampaign(p, c, m, expected)
     IN  /\ Succeeded(joined.result)
         /\ Join(p, c, m, Command("Join", p, c, expected), joined)
         /\ lobbies' = BroadcastLobbyState(lobbies, c, joined.campaign)
  /\ UNCHANGED <<online, party, invitations, pendingResume>>

\* AlignPlayerWithCampaignParty, or the recreation of a party that dissolved
\* while nobody of the roster is present; the table itself when neither works.
Alignment(p, c) ==
  CASE party.joined[p] # None -> party
    [] party.joined[p] = None /\ lobbies[c] \in Existing(party) ->
         Added(party, lobbies[c], p)
    [] OTHER ->
         IF \E s \in Taken(campaigns[c]), q \in GetAdmittedConnections(c) :
              admission[q].admitted.slot = s /\ Exact(campaigns[c], q, admission[q].admitted)
           THEN party ELSE NewParty(party, NextId(party), p, TRUE)
Aligned(s, p, c) == s.joined[p] # None /\ (party.joined[p] # None => s.joined[p] = lobbies[c])

\* OnJoinByCode for a connection that is not admitted yet: align, join at the
\* revision just read, keep the alignment for a resume, or roll it back.
OnJoinByCode(p, c, m) ==
  /\ p \in online /\ lobbies[c] # None /\ admission[p].admitted = None
  /\ MayUse(m, Command("JoinByCode", p, c, 0))
  /\ LET s       == Alignment(p, c)
         joined  == JoinCampaign(p, c, m, campaigns[c].revision)
         home    == s.joined[p]
         added   == party.joined[p] = None
         pending == pendingResume[p]
         later   == joined.result = "ExistingMembershipRequiresResume" /\
                    (pending = None \/ pending.party = home)
         directory == IF added THEN Allocate(lobbies, c, home) ELSE lobbies
     IN  /\ Aligned(s, p, c)
         /\ party' = IF Succeeded(joined.result) \/ later THEN s
                     ELSE RolledBack(party, s, p)
         /\ pendingResume' = IF ~later THEN pendingResume
                             ELSE [pendingResume EXCEPT ![p] =
                               [party |-> home,
                                added |-> added \/ (pending # None /\ pending.added)]]
         /\ IF Succeeded(joined.result)
              THEN /\ Join(p, c, m, Command("JoinByCode", p, c, 0), joined)
                   /\ lobbies' = BroadcastLobbyState(directory, c, joined.campaign)
              ELSE /\ lobbies' = LiveLobbies(directory, party')
                   /\ UNCHANGED <<campaigns, admission, sent>>
  /\ UNCHANGED <<online, invitations>>

\* OnResume with the binding the client has cached.
OnResume(p, c, binding) ==
  /\ p \in online /\ campaigns[c] # None
  /\ LET own      == SlotOf(campaigns[c], p)
         accepted == ResumeAccepted(p, c, binding)
         pending  == pendingResume[p]
     IN  /\ admission' = IF ~accepted THEN admission
                         ELSE [admission EXCEPT ![p].admitted =
                           [campaign |-> c, slot |-> MinOf(own), binding |-> binding]]
         /\ party' = IF ~accepted /\ pending # None /\ pending.added
                          /\ party.joined[p] = pending.party
                       THEN Removed(party, p) ELSE party
         /\ lobbies' = IF accepted THEN BroadcastLobbyState(lobbies, c, campaigns[c])
                       ELSE LiveLobbies(lobbies, party')
  /\ pendingResume' = LivePending([pendingResume EXCEPT ![p] = None], party')
  /\ UNCHANGED <<online, invitations, campaigns, sent>>

\* OnStart: the leader seals the roster that shares its party.
OnStart(p, c, m, expected) ==
  /\ p \in online /\ IsAdmitted(p, c)
  /\ IsPlayerLeader(party, p) /\ SharesCompleteParty(p, c)
  /\ MayUse(m, Command("Start", p, c, expected))
  /\ LET camp    == campaigns[c]
         row     == Row(m, expected, "CommitCampaignStart", 0, p, 0, FALSE)
         verdict == Verdict(camp, row, ~camp.sealed /\ SlotOf(camp, p) # {})
     IN  /\ Succeeded(verdict)
         /\ campaigns' = IF verdict = "IdempotentReplay" THEN campaigns
                         ELSE [campaigns EXCEPT ![c] = CommitCampaignStart(camp, row)]
  /\ lobbies' = Invalidate(lobbies, c)
  /\ sent' = [sent EXCEPT ![m] = Command("Start", p, c, expected)]
  /\ UNCHANGED <<online, party, invitations, admission, pendingResume>>

\* OnSetReady; a repetition changes nothing.
OnSetReady(p, c, m, expected, flag) ==
  /\ p \in online /\ IsAdmitted(p, c)
  /\ MayUse(m, Command("SetReady", p, c, expected))
  /\ LET camp     == campaigns[c]
         identity == admission[p].admitted
         row      == Row(m, expected, "SetReady", identity.slot, p, identity.binding, flag)
         verdict  == Verdict(camp, row, camp.sealed /\ Exact(camp, p, identity))
     IN  /\ verdict = "Applied"
         /\ campaigns' = [campaigns EXCEPT ![c] = SetReady(camp, row)]
  /\ sent' = [sent EXCEPT ![m] = Command("SetReady", p, c, expected)]
  /\ UNCHANGED <<online, party, invitations, admission, lobbies, pendingResume>>

\* OnLeave, as a member or by the identity left behind.
OnLeave(p, c, m, expected) ==
  /\ p \in online /\ MayLeave(admission[p], c)
  /\ MayUse(m, Command("Leave", p, c, expected))
  /\ LET left == LeaveCampaign(admission[p], campaigns[c], c, m, expected)
     IN  /\ Succeeded(left.result)
         /\ campaigns' = [campaigns EXCEPT ![c] = left.campaign]
         /\ admission' = [admission EXCEPT ![p] = left.record]
         /\ lobbies' = BroadcastLobbyState(lobbies, c, left.campaign)
  /\ sent' = [sent EXCEPT ![m] = Command("Leave", p, c, expected)]
  /\ UNCHANGED <<online, party, invitations, pendingResume>>

-----------------------------------------------------------------------------
(***************************************************************************)
(* Connections and the process.                                             *)
(***************************************************************************)
\* RegisterConnection and PlayerJoinEvent: one connection per PlayerId.
Connect(p) ==
  /\ PlayerJoins(p)
  /\ admission' = [admission EXCEPT ![p] = NoAdmission]
  /\ UNCHANGED <<campaigns, lobbies, pendingResume, sent>>

\* PlayerLeaveEvent in PartyService and CampaignProtocolService.
Disconnect(p) ==
  /\ PlayerLeaves(p)
  /\ admission' = [admission EXCEPT ![p] = NoAdmission]
  /\ pendingResume' = LivePending([pendingResume EXCEPT ![p] = None], party')
  /\ lobbies' = LiveLobbies(lobbies, party')
  /\ UNCHANGED <<campaigns, sent>>

\* The server process restarts: only the database survives.
Restart ==
  /\ online' = {} /\ party' = NoParties /\ invitations' = {}
  /\ admission' = [p \in Players |-> NoAdmission]
  /\ lobbies' = [c \in Campaigns |-> None]
  /\ pendingResume' = [p \in Players |-> None]
  /\ UNCHANGED <<campaigns, sent>>

PartyMenuStep ==
  /\ PartyMenu
  /\ lobbies' = LiveLobbies(lobbies, party')
  /\ pendingResume' = LivePending(pendingResume, party')
  /\ UNCHANGED <<campaigns, admission, sent>>

Init ==
  /\ online = {} /\ party = NoParties /\ invitations = {}
  /\ campaigns = [c \in Campaigns |-> None]
  /\ admission = [p \in Players |-> NoAdmission]
  /\ lobbies = [c \in Campaigns |-> None]
  /\ pendingResume = [p \in Players |-> None]
  /\ sent = [m \in Mutations |-> None]

\* Revisions the server has published for c, what a client can expect, and
\* bindings a client can have cached: one of the roster's, or a stale one.
Revisions(c) == IF campaigns[c] = None THEN {} ELSE 1..campaigns[c].revision
Bindings(c) == IF campaigns[c] = None THEN {}
               ELSE {0} \cup {campaigns[c].roster[s].binding : s \in Taken(campaigns[c])}

Next ==
  \/ \E p \in Players : Connect(p) \/ Disconnect(p)
  \/ \E p \in Players, m \in Mutations : OnCreate(p, m)
  \/ \E p \in Players, c \in Campaigns, m \in Mutations :
       \/ OnJoinByCode(p, c, m)
       \/ \E r \in Revisions(c) :
            \/ OnJoin(p, c, m, r) \/ OnStart(p, c, m, r) \/ OnLeave(p, c, m, r)
            \/ \E flag \in BOOLEAN : OnSetReady(p, c, m, r, flag)
  \/ \E p \in Players, c \in Campaigns : \E b \in Bindings(c) : OnResume(p, c, b)
  \/ PartyMenuStep
  \/ Restart
Spec == Init /\ [][Next]_vars

-----------------------------------------------------------------------------
\* Every variable has the shape its declaration gives it; an offline player
\* has no admission record and no pending alignment.
TypeOK ==
  /\ online \subseteq Players
  /\ invitations \subseteq Players \X Players
  /\ DOMAIN party = {"parties", "joined"}
  /\ \A i \in PartyIds : party.parties[i] = None \/
       DOMAIN party.parties[i] = DOMAIN [members |-> 0, leader |-> 0, managed |-> 0]
  /\ \A c \in Campaigns : campaigns[c] = None \/
       /\ DOMAIN campaigns[c] = {"revision", "sealed", "manager", "ready", "roster", "journal"}
       /\ campaigns[c].roster \in [Slots -> Entry \cup {None}]
  /\ \A p \in Players :
       /\ {admission[p].admitted, admission[p].previous} \subseteq Identity \cup {None}
       /\ p \notin online => admission[p] = NoAdmission /\ pendingResume[p] = None
  /\ lobbies \in [Campaigns -> PartyIds \cup {None, Dissolved}]

\* The roster is what the journal says, however often commands were repeated:
\* a slot holds exactly what the last row about it put there, no two rows share
\* a mutation identifier, and every revision was produced by one row.
RosterFollowsJournal ==
  \A c \in {x \in Campaigns : campaigns[x] # None} :
    LET camp    == campaigns[c]
        adds    == {r \in camp.journal : r.kind \in {"CreateCampaign", "AddRosterSlot"}}
        removes == {r \in camp.journal : r.kind = "RemoveRosterSlot"}
        standing == {a \in adds : ~\E r \in removes : r.slot = a.slot /\ r.expected > a.expected}
    IN  /\ {<<s, camp.roster[s].player, camp.roster[s].binding>> : s \in Taken(camp)}
             = {<<a.slot, a.player, a.binding>> : a \in standing}
        /\ \A p \in Players : Cardinality(SlotOf(camp, p)) <= 1
        /\ \A r, s \in camp.journal : r.id = s.id => r = s
        /\ \A v \in 0..(camp.revision - 1) : \E r \in camp.journal : r.expected = v

\* A join code lives as long as its lobby: no code of a sealed or abandoned
\* campaign resolves, although a repeated Create publishes one for a moment.
CodesExpire ==
  \A c \in Campaigns : lobbies[c] # None =>
    campaigns[c] # None /\ ~campaigns[c].sealed /\ Taken(campaigns[c]) # {}

\* A roster is sealed by the leader of a party that consists of the roster,
\* everyone admitted under exactly its slot and binding; what is sealed stays.
SealedTogether ==
  [][\A c \in Campaigns : campaigns'[c] # None /\ campaigns'[c].sealed =>
       IF campaigns[c].sealed
         THEN campaigns'[c].roster = campaigns[c].roster
         ELSE LET p == campaigns'[c].manager
                  i == party.joined[p]
                  camp == campaigns'[c]
              IN  /\ party.parties[i].leader = p
                  /\ Members(party, i) = {camp.roster[s].player : s \in Taken(camp)}
                  /\ \A s \in Taken(camp) : LET q == camp.roster[s].player IN
                       admission[q].admitted =
                         [campaign |-> c, slot |-> s, binding |-> camp.roster[s].binding]
    ]_vars

\* A campaign command moves a player into a party only along with an
\* admission, or with an alignment that is remembered until the resume, and
\* moves a player out only to undo that: a failed admission leaves no trace
\* in the parties.
AlignmentFollowsAdmission ==
  [][~PartyMenuStep => \A p \in online \cap online' :
       party'.joined[p] # party.joined[p] =>
         IF party'.joined[p] # None
           THEN admission'[p].admitted # None \/ pendingResume'[p] # None
           ELSE pendingResume[p] # None /\ pendingResume[p].added
    ]_vars

\* Stated by the adapter specification's "pre-seal LeaveCampaign": while a
\* member of a sealed roster stays connected, it stays admitted.
LeaveIsPreSeal ==
  [][\A p \in online \cap online' : \A c \in Campaigns :
       IsAdmitted(p, c) /\ campaigns[c].sealed => admission'[p].admitted # None]_vars

\* Stated by "pre-seal join/leave in the current party/session": what is
\* admitted is on the roster, so nobody is removed by another's leave.
AdmittedIsRostered ==
  \A p \in online : admission[p].admitted # None =>
    Exact(campaigns[admission[p].admitted.campaign], p, admission[p].admitted)
===============================================================================
