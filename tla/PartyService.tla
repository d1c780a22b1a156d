----------------------------- MODULE PartyService -----------------------------
(***************************************************************************)
(* The server's PartyService: who groups with whom, who leads, and which    *)
(* parties belong to a campaign.  The party table is one value, so that a   *)
(* campaign command can align a player, run, and roll the alignment back    *)
(* within its own handler (module CampaignLobby).                           *)
(***************************************************************************)
EXTENDS Naturals, FiniteSets, SequencesExt

CONSTANTS Players,        \* durable player identities
          None,           \* the empty std::optional
          MaxInvitations, \* bound: invitations outstanding at once
          AutoPartyJoin   \* the setting Gameplay:bAutoPartyJoin

ASSUME PartyAssumption ==
  IsFiniteSet(Players) /\ MaxInvitations \in Nat /\ AutoPartyJoin \in BOOLEAN

VARIABLES online,       \* players of the PlayerManager
          party,        \* m_parties and every PartyComponent::JoinedPartyId
          invitations   \* <<inviter, invitee>> of PartyComponent::Invitations
partyVars == <<online, party, invitations>>

PartyIds == 1..Cardinality(Players)
Party == [members: Seq(Players), leader: Players, managed: BOOLEAN]
ASSUME NoParty == None \notin Nat /\ None \notin Party

NoParties == [parties |-> [i \in PartyIds |-> None],
              joined |-> [p \in Players |-> None]]

Existing(s) == {i \in PartyIds : s.parties[i] # None}
Members(s, i) == ToSet(s.parties[i].members)
IsPlayerLeader(s, p) ==
  s.joined[p] # None /\ s.parties[s.joined[p]].leader = p

\* m_nextId counts up, so a number is never issued twice.  Here the numbers of
\* dissolved parties are reissued, and whoever still refers to a dissolved
\* party is made to refer to Dissolved, the number of no party.
Dissolved == 0
NextId(s) ==
  CHOOSE i \in PartyIds \ Existing(s) : \A j \in PartyIds \ Existing(s) : i <= j
Live(s, i) == IF i \in Existing(s) \cup {None} THEN i ELSE Dissolved

NewParty(s, i, p, isManaged) ==
  [parties |-> [s.parties EXCEPT ![i] =
                  [members |-> <<p>>, leader |-> p, managed |-> isManaged]],
   joined |-> [s.joined EXCEPT ![p] = i]]
Added(s, i, p) ==
  [parties |-> [s.parties EXCEPT ![i].members = Append(@, p)],
   joined |-> [s.joined EXCEPT ![p] = i]]
AllAdded(s, i, others) ==
  [parties |-> [s.parties EXCEPT ![i].members = @ \o others],
   joined |-> [q \in Players |-> IF q \in ToSet(others) THEN i ELSE s.joined[q]]]

\* members.erase(std::find(...)), of a member.
Erased(members, p) == RemoveAt(members, CHOOSE j \in DOMAIN members : members[j] = p)

\* Mutant: the party keeps the leader that left.
RemovedKeepsLeader(s, p) ==
  LET i    == s.joined[p]
      rest == Erased(s.parties[i].members, p)
  IN  IF i = None THEN s
      ELSE [parties |-> [s.parties EXCEPT ![i] =
                           IF rest = << >> THEN None ELSE [@ EXCEPT !.members = rest]],
            joined |-> [s.joined EXCEPT ![p] = None]]

\* RemovePlayerFromParty: the last member dissolves the party, a leader is
\* succeeded by the member who has been in it longest.
Removed(s, p) ==
  LET i    == s.joined[p]
      old  == s.parties[i]
      rest == Erased(old.members, p)
  IN  IF i = None THEN s
      ELSE [parties |-> [s.parties EXCEPT ![i] =
              IF rest = << >> THEN None
              ELSE [old EXCEPT !.members = rest,
                               !.leader = IF old.leader = p THEN rest[1] ELSE old.leader]],
            joined |-> [s.joined EXCEPT ![p] = None]]

\* OnPlayerJoin: the only party of the server takes every newcomer, unless a
\* campaign manages it.
AutoJoined(s, p) ==
  LET open == {i \in Existing(s) : ~s.parties[i].managed}
  IN  IF AutoPartyJoin /\ Cardinality(Existing(s)) = 1 /\ open # {}
        THEN Added(s, CHOOSE i \in open : TRUE, p) ELSE s

\* EnsureCampaignLeaderParty, for a player without a party or leading one.
MayLeadCampaign(s, p) == s.joined[p] = None \/ IsPlayerLeader(s, p)
Ensured(s, i, p) ==
  IF s.joined[p] = None THEN NewParty(s, i, p, TRUE)
  ELSE [s EXCEPT !.parties[s.joined[p]].managed = TRUE]

\* Mutant: the alignment of a command that failed stays.
KeepsAlignment(s, t, p) == t

\* RollbackCampaignLeaderParty and RollbackCampaignPartyAlignment: s is the
\* table before the command, t the one it left.
RolledBack(s, t, p) ==
  IF s.joined[p] = None /\ t.joined[p] # None THEN Removed(t, p)
  ELSE IF s.joined[p] # None
    THEN [t EXCEPT !.parties[s.joined[p]].managed = s.parties[s.joined[p]].managed]
  ELSE t

-----------------------------------------------------------------------------
(***************************************************************************)
(* The packets of the party menu.                                           *)
(***************************************************************************)
\* OnPartyCreate: the first party of the server takes everyone.
OnPartyCreate(p) ==
  /\ p \in online /\ party.joined[p] = None
  /\ \E others \in SetToSeqs(online \ {p}) :
       LET i    == NextId(party)
           made == NewParty(party, i, p, FALSE)
       IN  party' = IF AutoPartyJoin /\ Existing(made) = {i}
                      THEN AllAdded(made, i, others) ELSE made
  /\ UNCHANGED <<online, invitations>>

OnPartyChangeLeader(p, q) ==
  /\ {p, q} \subseteq online /\ IsPlayerLeader(party, p)
  /\ q \in Members(party, party.joined[p])
  /\ party' = [party EXCEPT !.parties[party.joined[p]].leader = q]
  /\ UNCHANGED <<online, invitations>>

\* The leader's own party is checked, the party of the kicked player is not.
OnPartyKick(p, q) ==
  /\ {p, q} \subseteq online /\ IsPlayerLeader(party, p)
  /\ party' = Removed(party, q)
  /\ UNCHANGED <<online, invitations>>

OnPartyInvite(p, q) ==
  /\ {p, q} \subseteq online /\ p # q
  /\ IsPlayerLeader(party, p) /\ party.joined[q] = None
  /\ Cardinality(invitations) < MaxInvitations
  /\ invitations' = invitations \cup {<<p, q>>}
  /\ UNCHANGED <<online, party>>

\* The invitation outlives its acceptance, until it expires.
OnPartyAcceptInvite(p, q) ==
  /\ {p, q} \subseteq online /\ <<p, q>> \in invitations
  /\ IsPlayerLeader(party, p) /\ party.joined[q] = None
  /\ party' = Added(party, party.joined[p], q)
  /\ UNCHANGED <<online, invitations>>

\* OnUpdate: sixty seconds have passed.
ExpireInvitation(i) ==
  /\ invitations' = invitations \ {i}
  /\ UNCHANGED <<online, party>>

OnPartyLeave(p) ==
  /\ p \in online
  /\ party' = Removed(party, p)
  /\ UNCHANGED <<online, invitations>>

\* One packet of the party menu, or the expiry of an invitation.
PartyMenu ==
  \/ \E p \in Players : OnPartyCreate(p) \/ OnPartyLeave(p)
  \/ \E p, q \in Players : \/ OnPartyChangeLeader(p, q) \/ OnPartyKick(p, q)
                           \/ OnPartyInvite(p, q) \/ OnPartyAcceptInvite(p, q)
  \/ \E i \in invitations : ExpireInvitation(i)

\* PlayerJoinEvent and PlayerLeaveEvent as PartyService handles them.  The
\* map of invitations is keyed by the inviter's address: an entry of a player
\* who left is found again when a later Player object takes that address.
PlayerJoins(p) ==
  /\ p \notin online
  /\ online' = online \cup {p}
  /\ party' = AutoJoined(party, p)
  /\ UNCHANGED invitations
PlayerLeaves(p) ==
  /\ p \in online
  /\ online' = online \ {p}
  /\ party' = Removed(party, p)
  /\ \E readdressed \in SUBSET {i \in invitations : i[1] = p} :
       invitations' = {i \in invitations : p \notin {i[1], i[2]}}
                      \cup {i \in readdressed : i[2] # p}

-----------------------------------------------------------------------------
\* Every JoinedPartyId names a party that lists the player exactly once, every
\* listed player is online and joined, and a leader is a member of the party
\* it leads: the code follows JoinedPartyId with m_parties[id], which would
\* silently create a party, and erases with an unchecked std::find.
PartyIndexIsExact ==
  /\ \A p \in Players : party.joined[p] # None =>
       /\ p \in online /\ party.joined[p] \in Existing(party)
       /\ p \in Members(party, party.joined[p])
  /\ \A i \in Existing(party) :
       /\ party.parties[i].leader \in Members(party, i)
       /\ \A p \in Members(party, i) : party.joined[p] = i
       /\ Cardinality(Members(party, i)) = Len(party.parties[i].members)
===============================================================================
