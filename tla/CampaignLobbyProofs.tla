------------------------- MODULE CampaignLobbyProofs -------------------------
(***************************************************************************)
(* Parties, rosters and join codes, for any number of players, campaigns    *)
(* and mutation identifiers.                                                *)
(*                                                                          *)
(* The invariant has three parts, each about one value: the party table     *)
(* (Grouped), the stored campaign (Recorded), and the references the lobby  *)
(* service keeps between packets (Shapes).                                  *)
(***************************************************************************)
EXTENDS CampaignLobby, FiniteSetTheorems, TLAPS

-----------------------------------------------------------------------------
(* Least elements, and room for one more.                                   *)

\* A non-empty set of numbers has a least one.
LEMMA LeastExists ==
  ASSUME NEW T \in SUBSET Nat, NEW n \in T
  PROVE  \E x \in T : \A y \in T : x <= y
  <1> DEFINE R == OpToRel(<, Nat)
  <1>1. IsWellFoundedOn(R, Nat)
    BY NatLessThanWellFounded
  <1>2. R = {ss \in Nat \X Nat : ss[1] < ss[2]}
    BY DEF OpToRel
  <1> HIDE DEF R
  <1>3. PICK x \in T : \A y \in T : ~(<<y, x>> \in R)
    BY <1>1, WFMin
  <1>4. \A y \in T : ~(y < x)
    BY <1>2, <1>3
  <1> QED BY <1>3, <1>4

\* MinOf picks it.
LEMMA MinOfIsLeast ==
  ASSUME NEW T \in SUBSET Nat, T # {}
  PROVE  MinOf(T) \in T
  <1>1. PICK n \in T : TRUE
    OBVIOUS
  <1>2. \E x \in T : \A y \in T : x <= y
    BY LeastExists
  <1> QED BY <1>2 DEF MinOf

\* The numbers 1..|Players| cannot all be given to the players but one.
LEMMA OneIsFree ==
  ASSUME NEW p \in Players,
         NEW f \in [1..Cardinality(Players) -> Players],
         \A i, j \in 1..Cardinality(Players) : f[i] = f[j] => i = j
  PROVE  \E i \in 1..Cardinality(Players) : f[i] = p
  <1> DEFINE n == Cardinality(Players)
  <1>1. IsFiniteSet(Players) /\ n \in Nat
    BY PartyAssumption, FS_CardinalityType
  <1>2. IsFiniteSet(Players \ {p}) /\ Cardinality(Players \ {p}) = n - 1
    BY <1>1, FS_RemoveElement
  <1>3. Cardinality(1..n) = n
    BY <1>1, FS_Interval
  <1> HIDE DEF n
  <1>4. SUFFICES ASSUME \A i \in 1..n : f[i] # p
                 PROVE  FALSE
    BY DEF n
  <1>5. f \in [1..n -> Players \ {p}]
    BY <1>4 DEF n
  <1>6. f \in Injection(1..n, Players \ {p})
    BY <1>5 DEF n, Injection, IsInjective
  <1>7. Cardinality(1..n) <= Cardinality(Players \ {p})
    BY <1>2, <1>6, FS_Injection
  <1> QED BY <1>1, <1>2, <1>3, <1>7

-----------------------------------------------------------------------------
(* The party table.                                                         *)

Table == [parties: [PartyIds -> Party \cup {None}],
          joined: [Players -> PartyIds \cup {None}]]
Distinct(list) == \A j, k \in DOMAIN list : list[j] = list[k] => j = k

\* Whoever has joined a party is connected and listed in it; whoever is listed
\* has joined it, and is listed once; the leader is listed.
Grouped(s, on) ==
  /\ s \in Table /\ on \subseteq Players
  /\ \A p \in Players : s.joined[p] # None =>
       /\ p \in on /\ s.joined[p] \in Existing(s)
       /\ p \in Members(s, s.joined[p])
  /\ \A i \in Existing(s) :
       /\ s.parties[i].leader \in Members(s, i)
       /\ \A p \in Members(s, i) : s.joined[p] = i
       /\ Distinct(s.parties[i].members)

\* Nobody is in a party of an empty server.
LEMMA NoPartiesGrouped == Grouped(NoParties, {})
  BY DEF Grouped, NoParties, Table, Existing

\* Members are players.
LEMMA MembersArePlayers ==
  ASSUME NEW s, NEW on, Grouped(s, on), NEW i \in Existing(s)
  PROVE  /\ i \in PartyIds /\ s.parties[i] \in Party
         /\ s.parties[i].members \in Seq(Players)
         /\ Members(s, i) \subseteq Players
         /\ Members(s, i) # {} /\ i # None
  <1>1. i \in PartyIds /\ i \in Nat /\ s.parties[i] \in Party
    BY PartyAssumption, FS_CardinalityType DEF Grouped, Table, Existing, PartyIds
  <1>2. s.parties[i].members \in Seq(Players)
    BY <1>1 DEF Party
  <1>3. Members(s, i) \subseteq Players
    BY <1>2 DEF Members, ToSet
  <1>4. i # None /\ Members(s, i) # {}
    BY <1>1, NoParty DEF Grouped
  <1> QED BY <1>1, <1>2, <1>3, <1>4

\* Connecting changes nothing for the parties.
LEMMA MoreOnline ==
  ASSUME NEW s, NEW on, NEW more, Grouped(s, on), on \subseteq more, more \subseteq Players
  PROVE  Grouped(s, more)
  BY DEF Grouped

\* As long as a player has no party there is an unused number.
LEMMA NextIdIsFree ==
  ASSUME NEW s, NEW on, Grouped(s, on), NEW p \in Players, s.joined[p] = None
  PROVE  NextId(s) \in PartyIds \ Existing(s)
  <1> DEFINE T == PartyIds \ Existing(s)
             f == [i \in PartyIds |-> s.parties[i].leader]
  <1>1. T # {}
    <2> SUFFICES ASSUME T = {} PROVE FALSE
      OBVIOUS
    <2>1. \A i \in PartyIds : i \in Existing(s)
      OBVIOUS
    <2>2. \A i \in PartyIds : /\ s.parties[i].leader \in Players
                              /\ s.joined[s.parties[i].leader] = i /\ i # None
      BY <2>1, MembersArePlayers, ZenonT(60) DEF Grouped
    <2>3. f \in [PartyIds -> Players]
      BY <2>2
    <2>4. \A i, j \in PartyIds : f[i] = f[j] => i = j
      BY <2>2
    <2>5. PICK i \in PartyIds : f[i] = p
      BY <2>3, <2>4, OneIsFree DEF PartyIds
    <2> QED BY <2>2, <2>5
  <1>2. T \subseteq Nat
    BY PartyAssumption, FS_CardinalityType DEF PartyIds
  <1>3. \E x \in T : \A y \in T : x <= y
    BY <1>1, <1>2, LeastExists
  <1> QED BY <1>3 DEF NextId

\* A party of one's own.
Alone(s, i, p) == i \in Existing(s) /\ Members(s, i) = {p}

\* NewParty makes one, and changes nobody else's.
LEMMA NewPartyGroups ==
  ASSUME NEW s, NEW on, Grouped(s, on), NEW p \in on, s.joined[p] = None,
         NEW i \in PartyIds \ Existing(s), NEW flag \in BOOLEAN
  PROVE  /\ Grouped(NewParty(s, i, p, flag), on)
         /\ NewParty(s, i, p, flag).joined = [s.joined EXCEPT ![p] = i]
         /\ Alone(NewParty(s, i, p, flag), i, p)
  <1> DEFINE t == NewParty(s, i, p, flag)
             new == [members |-> <<p>>, leader |-> p, managed |-> flag]
  <1>1. p \in Players /\ s \in Table
    BY DEF Grouped
  <1>2. new \in Party /\ new # None
    <2>1. <<p>> \in Seq(Players)
      BY <1>1
    <2>2. new \in Party
      BY <1>1, <2>1 DEF Party
    <2> QED BY <2>2, NoParty
  <1>3. ToSet(new.members) = {p} /\ Distinct(new.members)
    BY DEF ToSet, Distinct
  <1> HIDE DEF new
  <1>4. /\ t.parties = [s.parties EXCEPT ![i] = new]
        /\ t.joined = [s.joined EXCEPT ![p] = i]
        /\ t \in Table
    BY <1>1, <1>2 DEF NewParty, Table, new
  <1> HIDE DEF t
  <1>5. i # None
    BY NoParty DEF PartyIds
  <1>6. Existing(t) = Existing(s) \cup {i}
    BY <1>1, <1>2, <1>4 DEF Existing, Table
  <1>7. /\ t.parties[i] = new
        /\ \A j \in Existing(s) : t.parties[j] = s.parties[j] /\ j # i
    BY <1>1, <1>4, <1>6 DEF Table, Existing
  <1>8. Members(t, i) = {p} /\ \A j \in Existing(s) : Members(t, j) = Members(s, j)
    BY <1>3, <1>7 DEF Members
  <1>9. /\ t.joined[p] = i
        /\ \A q \in Players \ {p} : t.joined[q] = s.joined[q]
    BY <1>1, <1>4 DEF Table
  <1>10. \A j \in Existing(s) : p \notin Members(s, j)
    BY MembersArePlayers DEF Grouped
  <1>11. Grouped(t, on)
    <2>1. ASSUME NEW q \in Players, t.joined[q] # None
          PROVE  q \in on /\ t.joined[q] \in Existing(t) /\ q \in Members(t, t.joined[q])
      BY <2>1, <1>6, <1>8, <1>9 DEF Grouped
    <2>2. ASSUME NEW j \in Existing(t)
          PROVE  /\ t.parties[j].leader \in Members(t, j)
                 /\ \A q \in Members(t, j) : t.joined[q] = j
                 /\ Distinct(t.parties[j].members)
      <3>1. CASE j = i
        BY <3>1, <1>3, <1>7, <1>8, <1>9 DEF new
      <3>2. CASE j \in Existing(s)
        BY <3>2, <1>7, <1>8, <1>9, <1>10, MembersArePlayers, ZenonT(60) DEF Grouped
      <3> QED BY <3>1, <3>2, <1>6
    <2> QED BY <2>1, <2>2, <1>4 DEF Grouped
  <1> QED BY <1>4, <1>6, <1>8, <1>11 DEF t, Alone


\* One party becomes `new`, or none, and only its members' entries change.
Regroup(s, t, i, new, now) ==
  /\ i \in PartyIds /\ t \in Table /\ now \subseteq Players
  /\ t.parties = [s.parties EXCEPT ![i] = new]
  /\ \A q \in Players : \/ t.joined[q] = s.joined[q] /\ q \in now
                        \/ t.joined[q] \in {i, None} /\ s.joined[q] \in {i, None}
                        \/ t.joined[q] = None /\ s.joined[q] = None
  /\ \A q \in Players : t.joined[q] = i =>
       q \in now /\ new # None /\ q \in ToSet(new.members)
  /\ new # None => /\ new.leader \in ToSet(new.members)
                   /\ \A q \in ToSet(new.members) : t.joined[q] = i
                   /\ Distinct(new.members)

\* Then the table stays in order.
LEMMA Regrouped ==
  ASSUME NEW s, NEW on, Grouped(s, on), NEW i, NEW t, NEW now, NEW new,
         Regroup(s, t, i, new, now)
  PROVE  Grouped(t, now)
  <1> USE DEF Regroup
  <1>1. s \in Table
    BY DEF Grouped
  <1>2. /\ t.parties[i] = new
        /\ \A j \in PartyIds \ {i} : t.parties[j] = s.parties[j]
    BY <1>1 DEF Table
  <1>3. \A j \in PartyIds \ {i} : /\ Members(t, j) = Members(s, j)
                                  /\ j \in Existing(t) <=> j \in Existing(s)
    BY <1>2 DEF Members, Existing
  <1>4. (i \in Existing(t) <=> new # None) /\ Members(t, i) = ToSet(new.members)
    BY <1>2 DEF Members, Existing
  <1>5. Existing(t) \subseteq PartyIds /\ i # None
    BY NoParty DEF Existing, PartyIds
  <1>6. ASSUME NEW q \in Players, t.joined[q] # None
        PROVE  q \in now /\ t.joined[q] \in Existing(t) /\ q \in Members(t, t.joined[q])
    <2>1. CASE t.joined[q] = i
      BY <2>1, <1>4
    <2>2. CASE t.joined[q] # i
      <3>1. t.joined[q] = s.joined[q] /\ q \in now
        BY <1>6, <2>2
      <3>2. s.joined[q] \in PartyIds /\ s.joined[q] \in Existing(s) /\ q \in Members(s, s.joined[q])
        BY <1>6, <3>1 DEF Grouped, Existing
      <3> QED BY <3>1, <3>2, <2>2, <1>3
    <2> QED BY <2>1, <2>2
  <1>7. ASSUME NEW j \in Existing(t)
        PROVE  /\ t.parties[j].leader \in Members(t, j)
               /\ \A q \in Members(t, j) : t.joined[q] = j
               /\ Distinct(t.parties[j].members)
    <2>1. CASE j = i
      BY <2>1, <1>2, <1>4
    <2>2. CASE j # i
      <3>1. j \in PartyIds \ {i} /\ j \in Existing(s) /\ Members(t, j) = Members(s, j)
        BY <2>2, <1>3, <1>5
      <3>2. /\ s.parties[j].leader \in Members(s, j)
            /\ Distinct(s.parties[j].members)
            /\ \A q \in Members(s, j) : q \in Players /\ s.joined[q] = j /\ j # None
        BY <3>1, MembersArePlayers DEF Grouped
      <3>3. \A q \in Members(s, j) : t.joined[q] = j
        BY <2>2, <3>2
      <3> QED BY <3>1, <3>2, <3>3, <1>2
    <2> QED BY <2>1, <2>2
  <1> QED BY <1>6, <1>7 DEF Grouped

\* Lists grow and are joined.
LEMMA ListGrows ==
  ASSUME NEW list \in Seq(Players), NEW p \in Players, p \notin ToSet(list), Distinct(list)
  PROVE  /\ Append(list, p) \in Seq(Players)
         /\ ToSet(Append(list, p)) = ToSet(list) \cup {p}
         /\ Distinct(Append(list, p))
  <1> DEFINE a == Append(list, p)
             n == Len(list)
  <1>1. /\ a \in Seq(Players) /\ n \in Nat /\ DOMAIN list = 1..n /\ DOMAIN a = 1..(n + 1)
        /\ \A j \in 1..n : a[j] = list[j]
        /\ a[n + 1] = p
    OBVIOUS
  <1> HIDE DEF a, n
  <1>2. \A j \in 1..(n + 1) : j \in 1..n \/ j = n + 1
    BY <1>1
  <1>3. \A j \in 1..n : j \in 1..(n + 1)
    BY <1>1
  <1>4. n + 1 \in 1..(n + 1)
    BY <1>1
  <1>5. ToSet(a) = ToSet(list) \cup {p}
    BY <1>1, <1>2, <1>3, <1>4 DEF ToSet
  <1>6. \A j \in 1..n : list[j] # p
    BY <1>1 DEF ToSet
  <1>7. Distinct(a)
    BY <1>1, <1>2, <1>6 DEF Distinct
  <1> QED BY <1>1, <1>5, <1>7 DEF a

\* A member is added at the end.
LEMMA AddedGroups ==
  ASSUME NEW s, NEW on, Grouped(s, on), NEW p \in on, s.joined[p] = None,
         NEW i \in Existing(s)
  PROVE  /\ Grouped(Added(s, i, p), on)
         /\ Added(s, i, p).joined = [s.joined EXCEPT ![p] = i]
         /\ Existing(Added(s, i, p)) = Existing(s)
  <1> DEFINE t == Added(s, i, p)
             old == s.parties[i]
             new == [old EXCEPT !.members = Append(@, p)]
             list == Append(old.members, p)
  <1>1. p \in Players /\ s \in Table /\ i \in PartyIds /\ i # None
        /\ old \in Party /\ old.members \in Seq(Players) /\ on \subseteq Players
    BY MembersArePlayers DEF Grouped
  <1>3. p \notin Members(s, i) /\ Members(s, i) = ToSet(old.members) /\ Distinct(old.members)
    BY <1>1 DEF Grouped, Members
  <1>2. /\ list \in Seq(Players) /\ ToSet(list) = Members(s, i) \cup {p}
        /\ Distinct(list)
    BY <1>1, <1>3, ListGrows
  <1>5. new \in Party /\ new.members = list /\ new.leader = old.leader /\ new # None
    <2>1. new \in Party /\ new.members = list /\ new.leader = old.leader
      BY <1>1, <1>2 DEF Party
    <2> QED BY <2>1, NoParty
  <1> HIDE DEF list, old
  <1>6. /\ t.parties = [s.parties EXCEPT ![i] = new]
        /\ t.joined = [s.joined EXCEPT ![p] = i]
    BY <1>1 DEF Added, Table, old
  <1> HIDE DEF new, t
  <1>7. t = [parties |-> [s.parties EXCEPT ![i] = new], joined |-> [s.joined EXCEPT ![p] = i]]
    BY <1>6 DEF t, Added
  <1>8. t \in Table
    BY <1>1, <1>5, <1>7 DEF Table
  <1>9. /\ t.joined[p] = i
        /\ \A q \in Players \ {p} : t.joined[q] = s.joined[q]
    BY <1>1, <1>6 DEF Table
  <1>10. Existing(t) = Existing(s)
    BY <1>1, <1>5, <1>6 DEF Existing, Table
  <1>11. \A q \in Players : \/ t.joined[q] = s.joined[q] /\ q \in on
                            \/ t.joined[q] \in {i, None} /\ s.joined[q] \in {i, None}
                            \/ t.joined[q] = None /\ s.joined[q] = None
    BY <1>1, <1>9 DEF Grouped
  <1>12. \A q \in Players : t.joined[q] = i => q \in on /\ q \in ToSet(new.members)
    BY <1>1, <1>2, <1>5, <1>9 DEF Grouped
  <1>13. /\ new.leader \in ToSet(new.members) /\ ToSet(new.members) \subseteq Players
         /\ \A q \in ToSet(new.members) : t.joined[q] = i
    <2>1. Members(s, i) \subseteq Players /\ old.leader \in Members(s, i)
          /\ \A q \in Members(s, i) : s.joined[q] = i
      BY MembersArePlayers DEF Grouped, old
    <2> QED BY <2>1, <1>1, <1>2, <1>3, <1>5, <1>9
  <1>14. Grouped(t, on)
    <2>1. Regroup(s, t, i, new, on)
      BY <1>1, <1>2, <1>5, <1>6, <1>8, <1>11, <1>12, <1>13 DEF Regroup
    <2> QED BY <2>1, Regrouped
  <1> QED BY <1>6, <1>10, <1>14 DEF t

\* A party changes its leader or its campaign flag.
LEMMA RelabelledGroups ==
  ASSUME NEW s, NEW on, Grouped(s, on), NEW i \in Existing(s), NEW t, NEW new \in Party,
         t = [parties |-> [s.parties EXCEPT ![i] = new], joined |-> s.joined],
         new.members = s.parties[i].members, new.leader \in Members(s, i)
  PROVE  Grouped(t, on) /\ t.joined = s.joined /\ Existing(t) = Existing(s)
  <1>1. s \in Table /\ on \subseteq Players /\ i \in PartyIds /\ i # None /\ new # None
    BY MembersArePlayers, NoParty DEF Grouped
  <1>2. t \in Table /\ t.joined = s.joined /\ t.parties = [s.parties EXCEPT ![i] = new]
    BY <1>1 DEF Table
  <1>3. Existing(t) = Existing(s)
    BY <1>1, <1>2 DEF Existing, Table
  <1>4. ToSet(new.members) = Members(s, i) /\ Members(s, i) \subseteq Players
    BY MembersArePlayers DEF Members
  <1>5. \A q \in Players : \/ t.joined[q] = s.joined[q] /\ q \in on
                           \/ t.joined[q] \in {i, None} /\ s.joined[q] \in {i, None}
                           \/ t.joined[q] = None /\ s.joined[q] = None
    BY <1>1, <1>2 DEF Grouped
  <1>6. /\ \A q \in Players : t.joined[q] = i => q \in on /\ q \in Members(s, i)
        /\ \A q \in Members(s, i) : t.joined[q] = i
        /\ Distinct(new.members)
    BY <1>1, <1>2 DEF Grouped
  <1>7. Regroup(s, t, i, new, on)
    BY <1>1, <1>2, <1>4, <1>5, <1>6 DEF Regroup
  <1>8. Grouped(t, on)
    BY <1>7, Regrouped
  <1> QED BY <1>2, <1>3, <1>8

\* Erasing a member leaves the others, in order.
LEMMA ListShrinks ==
  ASSUME NEW list \in Seq(Players), NEW p \in ToSet(list), Distinct(list)
  PROVE  /\ Erased(list, p) \in Seq(Players)
         /\ ToSet(Erased(list, p)) = ToSet(list) \ {p}
         /\ Distinct(Erased(list, p))
  <1> DEFINE k == CHOOSE j \in DOMAIN list : list[j] = p
             n == Len(list)
             r == SubSeq(list, 1, k - 1) \o SubSeq(list, k + 1, n)
  <1>1. k \in DOMAIN list /\ list[k] = p
    BY DEF ToSet
  <1>2. n \in Nat /\ DOMAIN list = 1..n
    OBVIOUS
  <1>3. Erased(list, p) = r
    BY DEF Erased, RemoveAt
  <1> HIDE DEF k
  <1>4. k \in 1..n
    BY <1>1, <1>2
  <1>5. /\ SubSeq(list, 1, k - 1) \in Seq(Players) /\ Len(SubSeq(list, 1, k - 1)) = k - 1
        /\ \A j \in 1..(k - 1) : SubSeq(list, 1, k - 1)[j] = list[j]
    BY <1>4
  <1>6. /\ SubSeq(list, k + 1, n) \in Seq(Players) /\ Len(SubSeq(list, k + 1, n)) = n - k
        /\ \A j \in 1..(n - k) : SubSeq(list, k + 1, n)[j] = list[j + k]
    BY <1>4
  <1>7. /\ r \in Seq(Players) /\ DOMAIN r = 1..(n - 1)
        /\ \A j \in 1..(n - 1) : r[j] = IF j < k THEN list[j] ELSE list[j + 1]
    <2> DEFINE a == SubSeq(list, 1, k - 1)
               b == SubSeq(list, k + 1, n)
    <2> HIDE DEF a, b
    <2>1. a \in Seq(Players) /\ b \in Seq(Players) /\ Len(a) = k - 1 /\ Len(b) = n - k
      BY <1>5, <1>6 DEF a, b
    <2>2. r = a \o b
      BY DEF a, b
    <2> HIDE DEF r, n
    <2>3. r \in Seq(Players) /\ DOMAIN r = 1..(n - 1)
      BY <1>2, <1>4, <2>1, <2>2
    <2>4. \A j \in 1..(n - 1) : r[j] = IF j <= k - 1 THEN a[j] ELSE b[j - (k - 1)]
      BY <1>2, <1>4, <2>1, <2>2
    <2>5. ASSUME NEW j \in 1..(n - 1)
          PROVE  r[j] = IF j < k THEN list[j] ELSE list[j + 1]
      <3>1. CASE j < k
        <4>1. j \in 1..(k - 1) /\ j <= k - 1
          BY <1>2, <1>4, <3>1
        <4> QED BY <1>5, <2>4, <3>1, <4>1 DEF a
      <3>2. CASE ~(j < k)
        <4>1. ~(j <= k - 1) /\ j - (k - 1) \in 1..(n - k) /\ (j - (k - 1)) + k = j + 1
          BY <1>2, <1>4, <3>2
        <4>2. b[j - (k - 1)] = list[j + 1]
          BY <1>6, <4>1 DEF b
        <4> QED BY <2>4, <3>2, <4>1, <4>2
      <3> QED BY <3>1, <3>2
    <2> QED BY <2>3, <2>5
  <1> HIDE DEF r, n
  <1>8. ToSet(r) = ToSet(list) \ {p}
    <2>1. ASSUME NEW x \in ToSet(r)
          PROVE  x \in ToSet(list) \ {p}
      <3>1. PICK j \in 1..(n - 1) : x = r[j]
        BY <1>7 DEF ToSet
      <3>2. PICK l \in 1..n : x = list[l] /\ l # k
        BY <1>2, <1>4, <1>7, <3>1
      <3> QED BY <1>1, <1>2, <3>2 DEF ToSet, Distinct
    <2>2. ASSUME NEW x \in ToSet(list) \ {p}
          PROVE  x \in ToSet(r)
      <3>1. PICK j \in 1..n : x = list[j] /\ j # k
        BY <1>1, <1>2 DEF ToSet
      <3>2. CASE j < k
        <4>1. j \in 1..(n - 1) /\ r[j] = x
          BY <1>2, <1>4, <1>7, <3>1, <3>2
        <4> QED BY <1>7, <4>1 DEF ToSet
      <3>3. CASE j > k
        <4>1. j - 1 \in 1..(n - 1) /\ ~(j - 1 < k) /\ (j - 1) + 1 = j
          BY <1>2, <1>4, <3>1, <3>3
        <4>2. r[j - 1] = x
          BY <1>7, <3>1, <4>1
        <4> QED BY <1>7, <4>1, <4>2 DEF ToSet
      <3> QED BY <1>2, <1>4, <3>1, <3>2, <3>3
    <2> QED BY <2>1, <2>2
  <1>9. Distinct(r)
    BY <1>2, <1>4, <1>7, SMTT(60) DEF Distinct
  <1> QED BY <1>3, <1>7, <1>8, <1>9

\* RemovePlayerFromParty: nobody else's entry changes, and the player may go.
LEMMA RemovedGroups ==
  ASSUME NEW s, NEW on, Grouped(s, on), NEW p \in Players
  PROVE  /\ Grouped(Removed(s, p), on \ {p})
         /\ Removed(s, p).joined = [s.joined EXCEPT ![p] = None]
  <1> DEFINE i == s.joined[p]
             old == s.parties[i]
             rest == Erased(old.members, p)
             left == [old EXCEPT !.members = rest,
                                 !.leader = IF old.leader = p THEN rest[1] ELSE old.leader]
             new == IF rest = << >> THEN None ELSE left
             t == Removed(s, p)
  <1>1. s \in Table /\ on \subseteq Players
    BY DEF Grouped
  <1>2. CASE i = None
    <2>1. t = s
      BY <1>2 DEF Removed
    <2>2. s.joined = [s.joined EXCEPT ![p] = None]
      BY <1>1, <1>2 DEF Table
    <2>3. Grouped(s, on \ {p})
      BY <1>1, <1>2 DEF Grouped
    <2> QED BY <2>1, <2>2, <2>3
  <1>3. CASE i # None
    <2>1. /\ i \in Existing(s) /\ i \in PartyIds
          /\ old \in Party /\ old.members \in Seq(Players)
      BY <1>3, MembersArePlayers DEF Grouped
    <2>2. /\ Members(s, i) = ToSet(old.members) /\ Distinct(old.members)
          /\ p \in ToSet(old.members) /\ old.leader \in ToSet(old.members)
          /\ ToSet(old.members) \subseteq Players
          /\ \A q \in ToSet(old.members) : s.joined[q] = i
      BY <1>3, <2>1, MembersArePlayers DEF Grouped, Members
    <2>3. /\ rest \in Seq(Players) /\ Distinct(rest)
          /\ ToSet(rest) = ToSet(old.members) \ {p}
      BY <2>1, <2>2, ListShrinks
    <2>4. t = [parties |-> [s.parties EXCEPT ![i] = new],
               joined |-> [s.joined EXCEPT ![p] = None]]
      BY <1>3, Zenon DEF Removed
    <2> HIDE DEF rest, old, t
    <2>5. rest # << >> => rest[1] \in ToSet(rest)
      BY <2>3 DEF ToSet
    <2>6. rest # << >> => /\ left \in Party /\ left.members = rest
                          /\ left.leader \in ToSet(rest)
      <3>1. old.leader # p => old.leader \in ToSet(rest)
        BY <2>2, <2>3
      <3> QED BY <2>1, <2>2, <2>3, <2>5, <3>1 DEF Party
    <2> HIDE DEF left
    <2>7. rest = << >> => ToSet(rest) = {}
      BY DEF ToSet
    <2>8. /\ new \in Party \cup {None}
          /\ new # None => new.members = rest /\ new.leader \in ToSet(rest)
          /\ ToSet(rest) # {} => new # None
      BY <2>6, <2>7, NoParty
    <2> HIDE DEF new
    <2>9. t \in Table /\ t.parties = [s.parties EXCEPT ![i] = new]
          /\ t.joined = [s.joined EXCEPT ![p] = None]
      BY <1>1, <2>1, <2>4, <2>8 DEF Table
    <2>10. /\ t.joined[p] = None
           /\ \A q \in Players \ {p} : t.joined[q] = s.joined[q]
      BY <1>1, <2>9 DEF Table
    <2> HIDE DEF i
    <2>11. \A q \in Players : \/ t.joined[q] = s.joined[q] /\ q \in on \ {p}
                              \/ t.joined[q] \in {i, None} /\ s.joined[q] \in {i, None}
                              \/ t.joined[q] = None /\ s.joined[q] = None
      BY <1>1, <2>10 DEF Grouped, i
    <2>12. \A q \in Players : t.joined[q] = i => q \in on \ {p} /\ q \in ToSet(rest)
      BY <1>3, <2>2, <2>3, <2>10 DEF Grouped
    <2>13. \A q \in ToSet(rest) : t.joined[q] = i
      BY <2>2, <2>3, <2>10
    <2>14. Regroup(s, t, i, new, on \ {p})
      BY <1>1, <2>1, <2>3, <2>8, <2>9, <2>11, <2>12, <2>13 DEF Regroup
    <2>15. Grouped(t, on \ {p})
      BY <2>14, Regrouped
    <2> QED BY <2>9, <2>15 DEF t
  <1> QED BY <1>2, <1>3

\* OnPartyCreate takes everyone else in, in some order.
LEMMA AllAddedGroups ==
  ASSUME NEW s, NEW on, Grouped(s, on), NEW i \in Existing(s),
         Existing(s) = {i}, NEW others \in SetToSeqs(on \ Members(s, i))
  PROVE  Grouped(AllAdded(s, i, others), on)
  <1> DEFINE t == AllAdded(s, i, others)
             old == s.parties[i]
             list == old.members \o others
             new == [old EXCEPT !.members = list]
             n == Len(old.members)
             m == Cardinality(on \ Members(s, i))
  <1>1. /\ s \in Table /\ on \subseteq Players /\ i \in PartyIds /\ i # None
        /\ old \in Party /\ old.members \in Seq(Players)
        /\ Members(s, i) = ToSet(old.members) /\ ToSet(old.members) \subseteq Players
        /\ Distinct(old.members) /\ old.leader \in ToSet(old.members)
        /\ \A q \in ToSet(old.members) : s.joined[q] = i /\ q \in on
    BY MembersArePlayers DEF Grouped, Members
  <1>2. \A q \in Players : q \notin ToSet(old.members) => s.joined[q] = None
    BY <1>1 DEF Grouped
  <1>3. m \in Nat
    <2>1. IsFiniteSet(on \ Members(s, i))
      BY <1>1, PartyAssumption, FS_Subset
    <2> QED BY <2>1, FS_CardinalityType
  <1>4. /\ others \in [1..m -> on \ ToSet(old.members)]
        /\ \A j, k \in 1..m : others[j] = others[k] => j = k
    BY <1>1 DEF SetToSeqs
  <1> HIDE DEF m, old
  <1>5. others \in Seq(Players) /\ Len(others) = m /\ DOMAIN others = 1..m
    BY <1>1, <1>3, <1>4
  <1>6. ToSet(others) \subseteq on \ ToSet(old.members)
    BY <1>4, <1>5 DEF ToSet
  <1>7. /\ list \in Seq(Players) /\ n \in Nat /\ DOMAIN list = 1..(n + m)
        /\ DOMAIN old.members = 1..n
        /\ \A j \in 1..(n + m) : list[j] = IF j <= n THEN old.members[j] ELSE others[j - n]
    BY <1>1, <1>3, <1>5
  <1> HIDE DEF list, n
  <1>8. ToSet(list) = ToSet(old.members) \cup ToSet(others)
    <2>1. ASSUME NEW j \in 1..(n + m)
          PROVE  list[j] \in ToSet(old.members) \cup ToSet(others)
      <3>1. CASE j <= n
        BY <1>3, <1>7, <3>1 DEF ToSet
      <3>2. CASE ~(j <= n)
        <4>1. j - n \in 1..m
          BY <1>3, <1>7, <3>2
        <4> QED BY <1>5, <1>7, <3>2, <4>1 DEF ToSet
      <3> QED BY <3>1, <3>2
    <2>2. ASSUME NEW j \in 1..n
          PROVE  old.members[j] \in ToSet(list)
      <3>1. j \in 1..(n + m) /\ list[j] = old.members[j]
        BY <1>3, <1>7
      <3> QED BY <1>7, <3>1 DEF ToSet
    <2>3. ASSUME NEW j \in 1..m
          PROVE  others[j] \in ToSet(list)
      <3>1. j + n \in 1..(n + m) /\ ~(j + n <= n) /\ (j + n) - n = j
        BY <1>3, <1>7
      <3>2. list[j + n] = others[j]
        BY <1>7, <3>1
      <3> QED BY <1>7, <3>1, <3>2 DEF ToSet
    <2> QED BY <2>1, <2>2, <2>3, <1>5, <1>7 DEF ToSet
  <1>9. Distinct(list)
    <2> SUFFICES ASSUME NEW j \in 1..(n + m), NEW k \in 1..(n + m), list[j] = list[k]
                 PROVE  j = k
      BY <1>7 DEF Distinct
    <2>1. \A x \in 1..(n + m) : ~(x <= n) => x - n \in 1..m
      BY <1>3, <1>7
    <2>2. \A x \in 1..(n + m) : x <= n => x \in 1..n
      BY <1>3, <1>7
    <2>3. \A x \in 1..n : old.members[x] \in ToSet(old.members)
      BY <1>7 DEF ToSet
    <2>4. \A x \in 1..m : others[x] \notin ToSet(old.members)
      BY <1>4
    <2>5. CASE j <= n /\ k <= n
      BY <1>1, <1>7, <2>2, <2>5 DEF Distinct
    <2>6. CASE ~(j <= n) /\ ~(k <= n)
      <3>1. j - n = k - n
        BY <1>4, <1>7, <2>1, <2>6
      <3> QED BY <1>3, <1>7, <3>1
    <2>7. CASE ~((j <= n) <=> (k <= n))
      BY <1>7, <2>1, <2>2, <2>3, <2>4, <2>7
    <2> QED BY <2>5, <2>6, <2>7
  <1>10. new \in Party /\ new # None /\ new.members = list /\ new.leader = old.leader
    <2>1. new \in Party /\ new.members = list /\ new.leader = old.leader
      BY <1>1, <1>7 DEF Party
    <2> QED BY <2>1, NoParty
  <1>11. t = [parties |-> [s.parties EXCEPT ![i] = new],
              joined |-> [q \in Players |-> IF q \in ToSet(others) THEN i ELSE s.joined[q]]]
    BY <1>1 DEF AllAdded, Table, old, list
  <1> HIDE DEF new, t
  <1>12. t \in Table /\ t.parties = [s.parties EXCEPT ![i] = new]
         /\ \A q \in Players : t.joined[q] = IF q \in ToSet(others) THEN i ELSE s.joined[q]
    BY <1>1, <1>10, <1>11 DEF Table
  <1>13. \A q \in Players : t.joined[q] = i <=> q \in ToSet(list)
    BY <1>1, <1>2, <1>8, <1>12
  <1>14. \A q \in Players : q \notin ToSet(list) => t.joined[q] = None
    BY <1>2, <1>8, <1>12
  <1>15. ToSet(list) \subseteq on
    BY <1>1, <1>6, <1>8
  <1>16. Regroup(s, t, i, new, on)
    BY <1>1, <1>2, <1>8, <1>9, <1>10, <1>12, <1>13, <1>14, <1>15 DEF Regroup
  <1>17. Grouped(t, on)
    BY <1>16, Regrouped
  <1> QED BY <1>17 DEF t

\* EnsureCampaignLeaderParty: only the player's own entry can change.
LEMMA EnsuredGroups ==
  ASSUME NEW s, NEW on, Grouped(s, on), NEW p \in on, MayLeadCampaign(s, p)
  PROVE  LET t == Ensured(s, NextId(s), p)
         IN  /\ Grouped(t, on) /\ t.joined[p] \in PartyIds
             /\ s.joined[p] = None => t = NewParty(s, NextId(s), p, TRUE)
             /\ s.joined[p] # None => t.joined = s.joined
             /\ \A q \in Players \ {p} : t.joined[q] = s.joined[q]
  <1> DEFINE i == NextId(s)
             t == Ensured(s, i, p)
  <1>1. s \in Table /\ p \in Players
    BY DEF Grouped
  <1>2. CASE s.joined[p] = None
    <2>1. t = NewParty(s, i, p, TRUE)
      BY <1>2 DEF Ensured
    <2>2. i \in PartyIds \ Existing(s)
      BY <1>1, <1>2, NextIdIsFree
    <2>3. Grouped(t, on) /\ t.joined = [s.joined EXCEPT ![p] = i]
      <3> DEFINE yes == TRUE
      <3>1. yes \in BOOLEAN /\ t = NewParty(s, i, p, yes)
        BY <2>1
      <3> HIDE DEF yes, t, i
      <3> QED BY <1>2, <2>2, <3>1, NewPartyGroups
    <2> QED BY <1>1, <1>2, <2>1, <2>2, <2>3 DEF Table
  <1>3. CASE s.joined[p] # None
    <2> DEFINE j == s.joined[p]
               yes == TRUE
               new == [s.parties[j] EXCEPT !.managed = yes]
    <2>1. j \in Existing(s) /\ j \in PartyIds
      BY <1>1, <1>3, MembersArePlayers DEF Grouped
    <2>2. s.parties[j] \in Party /\ yes \in BOOLEAN /\ s.parties[j].leader \in Members(s, j)
      BY <2>1, MembersArePlayers DEF Grouped
    <2> HIDE DEF yes
    <2>3. t = [s EXCEPT !.parties[j].managed = yes]
      BY <1>3 DEF Ensured, yes
    <2>4. t = [parties |-> [s.parties EXCEPT ![j] = new], joined |-> s.joined]
      BY <1>1, <2>3 DEF Table
    <2>5. new \in Party /\ new.members = s.parties[j].members /\ new.leader = s.parties[j].leader
      BY <2>2 DEF Party
    <2> HIDE DEF new, t, j
    <2>6. Grouped(t, on) /\ t.joined = s.joined
      BY <2>1, <2>2, <2>4, <2>5, RelabelledGroups
    <2> QED BY <1>3, <2>1, <2>6 DEF t, j
  <1> QED BY <1>2, <1>3

\* A rollback gives everyone the party they had.
LEMMA RolledBackGroups ==
  ASSUME NEW s, NEW t, NEW on, Grouped(s, on), Grouped(t, on), NEW p \in on,
         s.joined[p] # None => t.joined[p] = s.joined[p],
         \A q \in Players \ {p} : t.joined[q] = s.joined[q]
  PROVE  Grouped(RolledBack(s, t, p), on) /\ RolledBack(s, t, p).joined = s.joined
  <1> DEFINE r == RolledBack(s, t, p)
  <1>1. s \in Table /\ t \in Table /\ p \in Players /\ on \subseteq Players
    BY DEF Grouped
  <1>2. CASE s.joined[p] = None /\ t.joined[p] # None
    <2>1. r = Removed(t, p)
      BY <1>2 DEF RolledBack
    <2>2. Grouped(r, on \ {p}) /\ r.joined = [t.joined EXCEPT ![p] = None]
      BY <1>1, <2>1, RemovedGroups
    <2>3. Grouped(r, on)
      BY <1>1, <2>2, MoreOnline
    <2>4. [t.joined EXCEPT ![p] = None] = s.joined
      BY <1>1, <1>2 DEF Table
    <2> QED BY <2>2, <2>3, <2>4
  <1>3. CASE s.joined[p] # None
    <2> DEFINE j == s.joined[p]
               was == s.parties[j].managed
               new == [t.parties[j] EXCEPT !.managed = was]
    <2>1. j \in Existing(s) /\ j \in Existing(t) /\ j \in PartyIds
      BY <1>1, <1>3, MembersArePlayers DEF Grouped
    <2>2. s.parties[j] \in Party
      BY <2>1, MembersArePlayers
    <2>3. t.parties[j] \in Party /\ was \in BOOLEAN /\ t.parties[j].leader \in Members(t, j)
      BY <2>1, <2>2, MembersArePlayers DEF Grouped, Party
    <2> HIDE DEF was
    <2>4. r = [t EXCEPT !.parties[j].managed = was]
      BY <1>3 DEF RolledBack, was
    <2>5. r = [parties |-> [t.parties EXCEPT ![j] = new], joined |-> t.joined]
      BY <1>1, <2>4 DEF Table
    <2>6. new \in Party /\ new.members = t.parties[j].members /\ new.leader = t.parties[j].leader
      BY <2>3 DEF Party
    <2> HIDE DEF new, r, j
    <2>7. Grouped(r, on) /\ r.joined = t.joined
      BY <2>1, <2>3, <2>5, <2>6, RelabelledGroups
    <2>8. t.joined = s.joined
      BY <1>1, <1>3 DEF Table
    <2> QED BY <2>7, <2>8 DEF r
  <1>4. CASE s.joined[p] = None /\ t.joined[p] = None
    <2>1. r = t
      BY <1>4 DEF RolledBack
    <2>2. t.joined = s.joined
      BY <1>1, <1>4 DEF Table
    <2> QED BY <2>1, <2>2
  <1> QED BY <1>2, <1>3, <1>4

\* OnPlayerJoin gives a party to nobody but the newcomer.
LEMMA AutoJoinedGroups ==
  ASSUME NEW s, NEW on, Grouped(s, on), NEW p \in Players, p \notin on
  PROVE  /\ Grouped(AutoJoined(s, p), on \cup {p})
         /\ \A q \in Players \ {p} : AutoJoined(s, p).joined[q] = s.joined[q]
  <1> DEFINE open == {i \in Existing(s) : ~s.parties[i].managed}
             i == CHOOSE i \in open : TRUE
  <1>1. s \in Table /\ on \cup {p} \subseteq Players /\ s.joined[p] = None
    BY DEF Grouped
  <1>2. Grouped(s, on \cup {p})
    BY <1>1, MoreOnline
  <1>3. CASE AutoJoined(s, p) = s
    BY <1>2, <1>3
  <1>4. CASE AutoJoined(s, p) # s
    <2>1. AutoJoined(s, p) = Added(s, i, p) /\ open # {}
      BY <1>4 DEF AutoJoined
    <2>2. i \in Existing(s)
      BY <2>1
    <2> HIDE DEF i
    <2>3. /\ Grouped(Added(s, i, p), on \cup {p})
          /\ Added(s, i, p).joined = [s.joined EXCEPT ![p] = i]
      BY <1>1, <1>2, <2>2, AddedGroups
    <2> QED BY <1>1, <2>1, <2>3 DEF Table
  <1> QED BY <1>3, <1>4

\* Every packet of the party menu keeps the table in order.
LEMMA PartyMenuGroups ==
  ASSUME Grouped(party, online), invitations \subseteq Players \X Players, PartyMenu
  PROVE  /\ Grouped(party', online') /\ online' = online
         /\ invitations' \subseteq Players \X Players
  <1>1. party \in Table /\ online \subseteq Players
    BY DEF Grouped
  <1>2. ASSUME NEW p \in Players, OnPartyCreate(p)
        PROVE  Grouped(party', online)
    <2> DEFINE i == NextId(party)
               no == FALSE
               made == NewParty(party, i, p, no)
    <2>1. p \in online /\ party.joined[p] = None
      BY <1>2 DEF OnPartyCreate
    <2>3. i \in PartyIds \ Existing(party) /\ no \in BOOLEAN
      BY <2>1, NextIdIsFree
    <2> HIDE DEF no, i
    <2>4. Grouped(made, online) /\ i \in Existing(made) /\ Members(made, i) = {p}
      <3>1. made = NewParty(party, i, p, no)
        OBVIOUS
      <3> HIDE DEF made
      <3>2. Grouped(made, online)
        BY <2>1, <2>3, <3>1, NewPartyGroups
      <3>3. Alone(made, i, p)
        BY <2>1, <2>3, <3>1, NewPartyGroups
      <3> QED BY <3>2, <3>3 DEF Alone
    <2> HIDE DEF made
    <2>2. PICK

 others \in SetToSeqs(online \ {p}) :
            party' = IF AutoPartyJoin /\ Existing(made) = {i}
                       THEN AllAdded(made, i, others) ELSE made
      BY <1>2 DEF OnPartyCreate, made, i, no
    <2>5. CASE AutoPartyJoin /\ Existing(made) = {i}
      <3>1. i \in Existing(made) /\ others \in SetToSeqs(online \ Members(made, i))
        BY <2>4
      <3> QED BY <2>2, <2>4, <2>5, <3>1, AllAddedGroups
    <2>6. CASE ~(AutoPartyJoin /\ Existing(made) = {i})
      BY <2>2, <2>4, <2>6
    <2> QED BY <2>5, <2>6
  <1>3. ASSUME NEW p \in Players, NEW q \in Players, OnPartyChangeLeader(p, q)
        PROVE  Grouped(party', online)
    <2> DEFINE j == party.joined[p]
               new == [party.parties[j] EXCEPT !.leader = q]
    <2>1. /\ j # None /\ q \in Members(party, j)
          /\ party' = [party EXCEPT !.parties[j].leader = q]
      BY <1>3 DEF OnPartyChangeLeader, IsPlayerLeader
    <2>2. j \in Existing(party) /\ party.parties[j] \in Party
      BY <2>1, MembersArePlayers DEF Grouped
    <2>3. party' = [parties |-> [party.parties EXCEPT ![j] = new], joined |-> party.joined]
      BY <1>1, <2>1 DEF Table
    <2>4. new \in Party /\ new.members = party.parties[j].members /\ new.leader = q
      BY <2>2 DEF Party
    <2> HIDE DEF new, j
    <2> QED BY <2>1, <2>2, <2>3, <2>4, RelabelledGroups
  <1>4. ASSUME NEW q \in Players
        PROVE  Grouped(Removed(party, q), online)
    <2>1. Grouped(Removed(party, q), online \ {q})
      BY RemovedGroups
    <2> QED BY <1>1, <2>1, MoreOnline
  <1>5. ASSUME NEW p \in Players, NEW q \in Players, OnPartyAcceptInvite(p, q)
        PROVE  Grouped(party', online)
    <2>1. /\ party.joined[p] # None /\ q \in online /\ party.joined[q] = None
          /\ party' = Added(party, party.joined[p], q)
      BY <1>5 DEF OnPartyAcceptInvite, IsPlayerLeader
    <2>2. party.joined[p] \in Existing(party)
      BY <2>1 DEF Grouped
    <2> QED BY <2>1, <2>2, AddedGroups
  <1>6. CASE \E p \in Players : OnPartyCreate(p) \/ OnPartyLeave(p)
    <2>1. PICK p \in Players : OnPartyCreate(p) \/ OnPartyLeave(p)
      BY <1>6
    <2>2. CASE OnPartyCreate(p)
      BY <1>2, <2>2 DEF OnPartyCreate
    <2>3. CASE OnPartyLeave(p)
      BY <1>4, <2>3 DEF OnPartyLeave
    <2> QED BY <2>1, <2>2, <2>3
  <1>7. ASSUME NEW p \in Players, NEW q \in Players,
               \/ OnPartyChangeLeader(p, q) \/ OnPartyKick(p, q)
               \/ OnPartyInvite(p, q) \/ OnPartyAcceptInvite(p, q)
        PROVE  /\ Grouped(party', online') /\ online' = online
               /\ invitations' \subseteq Players \X Players
    <2>1. CASE OnPartyChangeLeader(p, q)
      BY <1>3, <2>1 DEF OnPartyChangeLeader
    <2>2. CASE OnPartyKick(p, q)
      BY <1>4, <2>2 DEF OnPartyKick
    <2>3. CASE OnPartyInvite(p, q)
      BY <2>3 DEF OnPartyInvite
    <2>4. CASE OnPartyAcceptInvite(p, q)
      BY <1>5, <2>4 DEF OnPartyAcceptInvite
    <2> QED BY <1>7, <2>1, <2>2, <2>3, <2>4
  <1>8. CASE \E i \in invitations : ExpireInvitation(i)
    BY <1>8 DEF ExpireInvitation
  <1> QED BY <1>6, <1>7, <1>8 DEF PartyMenu

-----------------------------------------------------------------------------
(* A stored campaign: its roster and its journal.                           *)

Adds(camp) == {r \in camp.journal : r.kind \in {"CreateCampaign", "AddRosterSlot"}}
Removes(camp) == {r \in camp.journal : r.kind = "RemoveRosterSlot"}
Standing(camp) ==
  {a \in Adds(camp) : ~\E r \in Removes(camp) : r.slot = a.slot /\ r.expected > a.expected}

\* The journal is a history of the revisions so far.
Historic(camp) ==
  /\ \A r \in camp.journal : /\ r.expected <= camp.revision
                             /\ r.kind # "SetReady" => r.expected < camp.revision
  /\ \A r, s \in camp.journal : r.id = s.id => r = s
  /\ \A v \in 0..(camp.revision - 1) : \E r \in camp.journal : r.expected = v

\* The roster is what the standing additions put there, one slot per player.
Rostered(camp) ==
  /\ \A a \in Standing(camp) :
       a.slot \in Taken(camp) /\ camp.roster[a.slot] = [player |-> a.player, binding |-> a.binding]
  /\ \A s \in Taken(camp) : \E a \in Standing(camp) : a.slot = s
  /\ \A s, u \in Taken(camp) : camp.roster[s].player = camp.roster[u].player => s = u
Recorded(camp) == camp \in Campaign /\ Historic(camp) /\ Rostered(camp)

\* Fields of a campaign.
LEMMA CampaignFields ==
  ASSUME NEW camp \in Campaign
  PROVE  /\ camp.revision \in Nat /\ camp.sealed \in BOOLEAN
         /\ camp.manager \in Players \cup {None} /\ camp.ready \in SUBSET Slots
         /\ camp.roster \in [Slots -> Entry \cup {None}]
         /\ camp.journal \in SUBSET JournalRow
         /\ Slots \subseteq Nat /\ camp # None
         /\ \A s \in Taken(camp) : /\ s \in Slots /\ camp.roster[s] \in Entry
                                   /\ camp.roster[s].player \in Players
                                   /\ camp.roster[s].binding \in Nat
  <1>1. /\ camp.revision \in Nat /\ camp.sealed \in BOOLEAN
        /\ camp.manager \in Players \cup {None} /\ camp.ready \in SUBSET Slots
        /\ camp.roster \in [Slots -> Entry \cup {None}]
        /\ camp.journal \in SUBSET JournalRow
    BY DEF Campaign
  <1>2. \A s \in Taken(camp) : s \in Slots /\ camp.roster[s] \in Entry
    BY <1>1 DEF Taken
  <1>3. \A e \in Entry : e.player \in Players /\ e.binding \in Nat
    BY DEF Entry
  <1>4. Slots \subseteq Nat
    BY PartyAssumption, FS_CardinalityType DEF Slots
  <1> QED BY <1>1, <1>2, <1>3, <1>4, NoRecord

\* What a transaction that raises the revision leaves.
Written(camp, new, row) ==
  /\ new.revision = camp.revision + 1
  /\ new.journal = camp.journal \cup {row}

\* A row at the current revision, under an identifier not used before.
Fresh(camp, row) ==
  /\ row \in JournalRow /\ row.expected = camp.revision
  /\ \A r \in camp.journal : r.id # row.id

\* It extends the history.
LEMMA WrittenIsHistoric ==
  ASSUME NEW camp \in Campaign, NEW new, NEW row,
         Historic(camp), Fresh(camp, row), Written(camp, new, row)
  PROVE  Historic(new)
  <1>1. camp.revision \in Nat /\ camp.journal \subseteq JournalRow
    BY CampaignFields
  <1>2. \A r \in JournalRow : r.expected \in Nat
    BY DEF JournalRow
  <1>3. \A r \in new.journal : /\ r.expected <= new.revision
                               /\ r.kind # "SetReady" => r.expected < new.revision
    <2> TAKE r \in new.journal
    <2>1. CASE r = row
      BY <2>1, <1>1 DEF Fresh, Written
    <2>2. CASE r \in camp.journal
      <3>1. r.expected \in Nat /\ r.expected <= camp.revision /\ new.revision = camp.revision + 1
        BY <2>2, <1>1, <1>2 DEF Historic, Written
      <3> QED BY <3>1, <1>1
    <2> QED BY <2>1, <2>2 DEF Written
  <1>4. \A r, s \in new.journal : r.id = s.id => r = s
    BY DEF Historic, Fresh, Written
  <1>5. \A v \in 0..(new.revision - 1) : \E r \in new.journal : r.expected = v
    <2> TAKE v \in 0..(new.revision - 1)
    <2>1. CASE v = camp.revision
      BY <2>1 DEF Fresh, Written
    <2>2. CASE v # camp.revision
      <3>1. v \in 0..(camp.revision - 1)
        BY <2>2, <1>1 DEF Written
      <3> QED BY <3>1 DEF Historic, Written
    <2> QED BY <2>1, <2>2
  <1> QED BY <1>3, <1>4, <1>5 DEF Historic

\* Rows that do not touch the roster leave what stands.
LEMMA OtherRowsStand ==
  ASSUME NEW camp, NEW new, NEW row, Rostered(camp),
         new.journal = camp.journal \cup {row}, new.roster = camp.roster,
         row.kind \notin {"CreateCampaign", "AddRosterSlot", "RemoveRosterSlot"}
  PROVE  Rostered(new) /\ Taken(new) = Taken(camp)
  <1>1. Adds(new) = Adds(camp) /\ Removes(new) = Removes(camp)
    BY DEF Adds, Removes
  <1>2. Standing(new) = Standing(camp)
    BY <1>1 DEF Standing
  <1>3. Taken(new) = Taken(camp)
    BY DEF Taken
  <1> QED BY <1>2, <1>3 DEF Rostered

\* A new campaign: its creator in the first slot.
LEMMA NewCampaignRecorded ==
  ASSUME NEW p \in Players, NEW m \in Mutations
  PROVE  /\ Recorded(NewCampaign(p, m)) /\ ~NewCampaign(p, m).sealed
         /\ 1 \in Slots /\ 1 \in Taken(NewCampaign(p, m))
  <1> DEFINE camp == NewCampaign(p, m)
             no == FALSE
             entry == [player |-> p, binding |-> 1]
             row == Row(m, 0, "CreateCampaign", 1, p, 1, no)
  <1>1. 1 \in Slots
    <2>1. Cardinality(Players) \in Nat /\ Cardinality(Players) # 0
      BY PartyAssumption, FS_CardinalityType, FS_EmptySet
    <2> QED BY <2>1 DEF Slots
  <1>2. entry \in Entry /\ entry # None
    BY NoRecord DEF Entry
  <1>3. no \in BOOLEAN /\ ~no
    OBVIOUS
  <1> HIDE DEF no
  <1>4. /\ row \in JournalRow /\ row.id = m /\ row.expected = 0 /\ row.slot = 1
        /\ row.kind = "CreateCampaign" /\ row.player = p /\ row.binding = 1
    BY <1>1, <1>3 DEF Row, JournalRow, Kinds
  <1> HIDE DEF entry, row
  <1>5. camp = [revision |-> 1, sealed |-> no, manager |-> None, ready |-> {},
                roster |-> [s \in Slots |-> IF s = 1 THEN entry ELSE None],
                journal |-> {row}]
    BY DEF NewCampaign, no, entry, row
  <1> HIDE DEF camp
  <1>6. /\ camp.revision = 1 /\ camp.sealed = no /\ camp.journal = {row}
        /\ camp.roster = [s \in Slots |-> IF s = 1 THEN entry ELSE None]
    BY <1>5
  <1>7. camp \in Campaign
    BY <1>2, <1>3, <1>4, <1>5 DEF Campaign
  <1>8. Historic(camp)
    BY <1>4, <1>6 DEF Historic
  <1>9. Taken(camp) = {1} /\ camp.roster[1] = entry
    BY <1>1, <1>2, <1>6 DEF Taken
  <1>10. Standing(camp) = {row}
    BY <1>4, <1>6 DEF Standing, Adds, Removes
  <1>11. Rostered(camp)
    BY <1>1, <1>4, <1>9, <1>10 DEF Rostered, entry
  <1> QED BY <1>1, <1>3, <1>6, <1>7, <1>8, <1>9, <1>11 DEF Recorded, camp

\* A player without a slot takes a free one.
LEMMA AddRecorded ==
  ASSUME NEW camp, Recorded(camp), NEW row, Fresh(camp, row), NEW entry \in Entry,
         row.kind = "AddRosterSlot", row.slot \in Slots \ Taken(camp),
         entry = [player |-> row.player, binding |-> row.binding],
         SlotOf(camp, row.player) = {}
  PROVE  LET new == AddRosterSlot(camp, row, entry)
         IN  Recorded(new) /\ new.sealed = camp.sealed /\ Taken(new) # {}
  <1> DEFINE new == AddRosterSlot(camp, row, entry)
             seated == [camp.roster EXCEPT ![row.slot] = entry]
             longer == camp.journal \cup {row}
             next == camp.revision + 1
  <1>1. camp \in Campaign /\ Historic(camp) /\ Rostered(camp)
    BY DEF Recorded
  <1>2. /\ camp.revision \in Nat /\ camp.journal \subseteq JournalRow
        /\ camp.roster \in [Slots -> Entry \cup {None}] /\ row \in JournalRow
        /\ entry # None
    BY <1>1, CampaignFields, NoRecord DEF Fresh
  <1>3. /\ seated \in [Slots -> Entry \cup {None}] /\ seated[row.slot] = entry
        /\ \A s \in Slots \ {row.slot} : seated[s] = camp.roster[s]
        /\ longer \in SUBSET JournalRow /\ next \in Nat
    BY <1>2
  <1>4. new = [camp EXCEPT !.roster = seated, !.journal = longer, !.revision = next]
    BY <1>1 DEF AddRosterSlot, PersistMutation, Campaign
  <1> HIDE DEF seated, longer, next, new
  <1>5. /\ new \in Campaign /\ new.roster = seated /\ new.journal = longer
        /\ new.revision = next /\ new.sealed = camp.sealed
    BY <1>1, <1>3, <1>4 DEF Campaign
  <1>6. Historic(new)
    <2>1. Written(camp, new, row)
      BY <1>5 DEF Written, longer, next
    <2> QED BY <1>1, <2>1, WrittenIsHistoric
  <1>7. Taken(new) = Taken(camp) \cup {row.slot}
    BY <1>2, <1>3, <1>5 DEF Taken
  <1>8. Adds(new) = Adds(camp) \cup {row} /\ Removes(new) = Removes(camp)
    BY <1>5 DEF Adds, Removes, longer
  <1>9. \A r \in Removes(camp) : ~(r.expected > row.expected)
    <2>1. \A r \in Removes(camp) : /\ r \in JournalRow /\ r.expected \in Nat
                                   /\ r.expected < camp.revision
      BY <1>1, <1>2 DEF Removes, Historic, JournalRow
    <2> QED BY <1>2, <2>1 DEF Fresh
  <1>10. Standing(new) = Standing(camp) \cup {row}
    BY <1>8, <1>9 DEF Standing
  <1>11. Rostered(new)
    <2>1. \A a \in Standing(new) :
            /\ a.slot \in Taken(new)
            /\ new.roster[a.slot] = [player |-> a.player, binding |-> a.binding]
      <3> TAKE a \in Standing(new)
      <3>1. CASE a = row
        BY <3>1, <1>3, <1>5, <1>7
      <3>2. CASE a \in Standing(camp)
        <4>1. /\ a.slot \in Taken(camp) /\ a.slot \in Slots \ {row.slot}
              /\ camp.roster[a.slot] = [player |-> a.player, binding |-> a.binding]
          BY <3>2, <1>1 DEF Rostered, Taken
        <4> QED BY <4>1, <1>3, <1>5, <1>7
      <3> QED BY <3>1, <3>2, <1>10
    <2>2. \A s \in Taken(new) : \E a \in Standing(new) : a.slot = s
      BY <1>1, <1>7, <1>10 DEF Rostered
    <2>3. \A s \in Taken(camp) : /\ new.roster[s] = camp.roster[s]
                                 /\ camp.roster[s].player # row.player
      BY <1>3, <1>5 DEF Taken, SlotOf
    <2>4. new.roster[row.slot].player = row.player
      BY <1>3, <1>5
    <2>5. \A s, u \in Taken(new) : new.roster[s].player = new.roster[u].player => s = u
      BY <1>1, <1>7, <2>3, <2>4 DEF Rostered
    <2> QED BY <2>1, <2>2, <2>5 DEF Rostered
  <1> QED BY <1>5, <1>6, <1>7, <1>11 DEF Recorded, new

\* A slot is given up.
LEMMA RemoveRecorded ==
  ASSUME NEW camp, Recorded(camp), NEW row, Fresh(camp, row),
         row.kind = "RemoveRosterSlot", row.slot \in Slots
  PROVE  LET new == RemoveRosterSlot(camp, row)
         IN  Recorded(new) /\ new.sealed = camp.sealed
  <1> DEFINE new == RemoveRosterSlot(camp, row)
             seated == [camp.roster EXCEPT ![row.slot] = None]
             longer == camp.journal \cup {row}
             next == camp.revision + 1
  <1>1. camp \in Campaign /\ Historic(camp) /\ Rostered(camp)
    BY DEF Recorded
  <1>2. /\ camp.revision \in Nat /\ camp.journal \subseteq JournalRow
        /\ camp.roster \in [Slots -> Entry \cup {None}] /\ row \in JournalRow
    BY <1>1, CampaignFields DEF Fresh
  <1>3. /\ seated \in [Slots -> Entry \cup {None}] /\ seated[row.slot] = None
        /\ \A s \in Slots \ {row.slot} : seated[s] = camp.roster[s]
        /\ longer \in SUBSET JournalRow /\ next \in Nat
    BY <1>2
  <1>4. new = [camp EXCEPT !.roster = seated, !.journal = longer, !.revision = next]
    BY <1>1 DEF RemoveRosterSlot, PersistMutation, Campaign
  <1> HIDE DEF seated, longer, next, new
  <1>5. /\ new \in Campaign /\ new.roster = seated /\ new.journal = longer
        /\ new.revision = next /\ new.sealed = camp.sealed
    BY <1>1, <1>3, <1>4 DEF Campaign
  <1>6. Historic(new)
    <2>1. Written(camp, new, row)
      BY <1>5 DEF Written, longer, next
    <2> QED BY <1>1, <2>1, WrittenIsHistoric
  <1>7. Taken(new) = Taken(camp) \ {row.slot}
    BY <1>2, <1>3, <1>5 DEF Taken
  <1>8. Adds(new) = Adds(camp) /\ Removes(new) = Removes(camp) \cup {row}
    BY <1>5 DEF Adds, Removes, longer
  <1>9. \A a \in Adds(camp) : row.expected > a.expected
    <2>1. \A a \in Adds(camp) : /\ a \in JournalRow /\ a.expected \in Nat
                                /\ a.expected < camp.revision
      BY <1>1, <1>2 DEF Adds, Historic, JournalRow
    <2> QED BY <1>2, <2>1 DEF Fresh
  <1>10. Standing(new) = {a \in Standing(camp) : a.slot # row.slot}
    BY <1>8, <1>9 DEF Standing
  <1>11. \A s \in Taken(new) : s \in Slots \ {row.slot} /\ new.roster[s] = camp.roster[s]
    BY <1>3, <1>5, <1>7 DEF Taken
  <1>12. Rostered(new)
    <2>1. \A a \in Standing(new) :
            /\ a.slot \in Taken(new)
            /\ new.roster[a.slot] = [player |-> a.player, binding |-> a.binding]
      BY <1>1, <1>7, <1>10, <1>11 DEF Rostered
    <2>2. \A s \in Taken(new) : \E a \in Standing(new) : a.slot = s
      BY <1>1, <1>7, <1>10 DEF Rostered
    <2>3. \A s, u \in Taken(new) : new.roster[s].player = new.roster[u].player => s = u
      BY <1>1, <1>7, <1>11 DEF Rostered
    <2> QED BY <2>1, <2>2, <2>3 DEF Rostered
  <1> QED BY <1>5, <1>6, <1>12 DEF Recorded, new

\* The roster is sealed as it is.
LEMMA StartRecorded ==
  ASSUME NEW camp, Recorded(camp), NEW row, Fresh(camp, row),
         row.kind = "CommitCampaignStart", row.player \in Players
  PROVE  LET new == CommitCampaignStart(camp, row)
         IN  /\ Recorded(new) /\ new.roster = camp.roster /\ new.manager = row.player
             /\ Taken(new) = Taken(camp)
  <1> DEFINE new == CommitCampaignStart(camp, row)
             longer == camp.journal \cup {row}
             next == camp.revision + 1
             yes == TRUE
  <1>1. camp \in Campaign /\ Historic(camp) /\ Rostered(camp)
    BY DEF Recorded
  <1>2. /\ longer \in SUBSET JournalRow /\ next \in Nat /\ yes \in BOOLEAN
    BY <1>1, CampaignFields DEF Fresh
  <1>3. new = [camp EXCEPT !.sealed = yes, !.manager = row.player, !.journal = longer,
                           !.revision = next]
    BY <1>1 DEF CommitCampaignStart, PersistMutation, Campaign
  <1> HIDE DEF longer, next, new, yes
  <1>4. /\ new \in Campaign /\ new.roster = camp.roster /\ new.journal = longer
        /\ new.revision = next /\ new.manager = row.player
    BY <1>1, <1>2, <1>3 DEF Campaign
  <1>5. Historic(new)
    <2>1. Written(camp, new, row)
      BY <1>4 DEF Written, longer, next
    <2> QED BY <1>1, <2>1, WrittenIsHistoric
  <1>6. Rostered(new) /\ Taken(new) = Taken(camp)
    BY <1>1, <1>4, OtherRowsStand DEF longer
  <1> QED BY <1>4, <1>5, <1>6 DEF Recorded, new

\* Readiness does not touch the roster; when it stays, the revision stays.
LEMMA ReadyRecorded ==
  ASSUME NEW camp, Recorded(camp), NEW row, Fresh(camp, row),
         row.kind = "SetReady", row.slot \in Slots
  PROVE  LET new == SetReady(camp, row)
         IN  /\ Recorded(new) /\ new.roster = camp.roster /\ new.sealed = camp.sealed
             /\ new.manager = camp.manager /\ Taken(new) = Taken(camp)
  <1> DEFINE new == SetReady(camp, row)
             longer == camp.journal \cup {row}
             next == camp.revision + 1
             ready == IF row.flag THEN camp.ready \cup {row.slot} ELSE camp.ready \ {row.slot}
  <1>1. camp \in Campaign /\ Historic(camp) /\ Rostered(camp)
    BY DEF Recorded
  <1>2. /\ longer \in SUBSET JournalRow /\ next \in Nat /\ ready \in SUBSET Slots
        /\ camp.revision \in Nat /\ row \in JournalRow /\ row.expected = camp.revision
        /\ camp.journal \in SUBSET JournalRow
    BY <1>1, CampaignFields DEF Fresh
  <1>3. new = IF ready = camp.ready THEN [camp EXCEPT !.journal = longer]
              ELSE [camp EXCEPT !.ready = ready, !.journal = longer, !.revision = next]
    BY <1>1 DEF SetReady, PersistAcceptedNoOp, PersistMutation, Campaign
  <1> HIDE DEF longer, next, new, ready
  <1>4. /\ new \in Campaign /\ new.roster = camp.roster /\ new.journal = longer
        /\ new.manager = camp.manager /\ new.sealed = camp.sealed
        /\ new.revision = next \/ new.revision = camp.revision
    BY <1>1, <1>2, <1>3 DEF Campaign
  <1>5. Historic(new)
    <2>1. CASE new.revision = next
      <3>1. Written(camp, new, row)
        BY <2>1, <1>4 DEF Written, longer, next
      <3> QED BY <1>1, <3>1, WrittenIsHistoric
    <2>2. CASE new.revision = camp.revision
      BY <1>1, <1>2, <1>4, <2>2 DEF Historic, Fresh, longer
    <2> QED BY <1>4, <2>1, <2>2
  <1>6. Rostered(new) /\ Taken(new) = Taken(camp)
    BY <1>1, <1>4, OtherRowsStand DEF longer
  <1> QED BY <1>4, <1>5, <1>6 DEF Recorded, new

\* A command is applied once, at the revision it expects.
LEMMA AppliedIsFresh ==
  ASSUME NEW camp, NEW row \in JournalRow, NEW allowed \in BOOLEAN,
         Verdict(camp, row, allowed) = "Applied"
  PROVE  allowed /\ Fresh(camp, row)
  <1> DEFINE known == {r \in camp.journal : r.id = row.id}
  <1>1. known = {} /\ row.expected = camp.revision
    <2>1. CASE known # {} /\ row \in known
      BY <2>1 DEF Verdict
    <2>2. CASE known # {} /\ row \notin known
      BY <2>2 DEF Verdict
    <2>3. CASE known = {} /\ row.expected # camp.revision
      BY <2>3 DEF Verdict
    <2> QED BY <2>1, <2>2, <2>3
  <1>2. allowed
    BY <1>1 DEF Verdict
  <1> QED BY <1>1, <1>2 DEF Fresh

\* A slot of one's own, or a free one for whoever has none.
LEMMA SlotExists ==
  ASSUME NEW camp, Recorded(camp), NEW p \in Players
  PROVE  /\ SlotOf(camp, p) # {} => /\ MinOf(SlotOf(camp, p)) \in Taken(camp)
                                    /\ camp.roster[MinOf(SlotOf(camp, p))].player = p
         /\ SlotOf(camp, p) = {} => MinOf(Slots \ Taken(camp)) \in Slots \ Taken(camp)
  <1>1. camp \in Campaign /\ Rostered(camp)
    BY DEF Recorded
  <1>2. /\ Slots \subseteq Nat /\ SlotOf(camp, p) \subseteq Taken(camp) /\ Taken(camp) \subseteq Slots
        /\ \A s \in Taken(camp) : camp.roster[s].player \in Players
    BY <1>1, CampaignFields DEF SlotOf, Taken
  <1>3. SlotOf(camp, p) # {} => MinOf(SlotOf(camp, p)) \in SlotOf(camp, p)
    BY <1>2, MinOfIsLeast
  <1>4. ASSUME SlotOf(camp, p) = {}
        PROVE  Slots \ Taken(camp) # {}
    <2> SUFFICES ASSUME Slots \ Taken(camp) = {} PROVE FALSE
      OBVIOUS
    <2> DEFINE f == [s \in Slots |-> camp.roster[s].player]
    <2>1. \A s \in Slots : s \in Taken(camp)
      OBVIOUS
    <2>2. f \in [Slots -> Players] /\ \A i, j \in Slots : f[i] = f[j] => i = j
      BY <1>1, <1>2, <2>1 DEF Rostered
    <2>3. PICK s \in Slots : f[s] = p
      BY <2>2, OneIsFree DEF Slots
    <2> QED BY <1>4, <2>1, <2>3 DEF SlotOf
  <1>5. SlotOf(camp, p) = {} => MinOf(Slots \ Taken(camp)) \in Slots \ Taken(camp)
    BY <1>2, <1>4, MinOfIsLeast
  <1> QED BY <1>3, <1>5 DEF SlotOf

\* What a command leaves of a campaign: in order, and as sealed as before.
Follows(camp, new) ==
  /\ Recorded(new) /\ new.sealed = camp.sealed
  /\ camp.sealed => new.roster = camp.roster

\* CampaignAdmissionService::JoinCampaign.
LEMMA JoinFollows ==
  ASSUME NEW p \in Players, NEW c \in Campaigns, NEW m \in Mutations, NEW expected \in Nat,
         Recorded(campaigns[c])
  PROVE  LET j == JoinCampaign(p, c, m, expected)
         IN  /\ j.identity \in Identity
             /\ Succeeded(j.result) => Follows(campaigns[c], j.campaign)
  <1> DEFINE camp == campaigns[c]
             own == SlotOf(camp, p)
             slot == IF own # {} THEN MinOf(own) ELSE MinOf(Slots \ Taken(camp))
             entry == IF own # {} THEN camp.roster[slot]
                      ELSE [player |-> p, binding |-> camp.revision + 1]
             no == FALSE
             row == Row(m, expected, "AddRosterSlot", slot, p, entry.binding, no)
             verdict == Verdict(camp, row, own = {})
             j == JoinCampaign(p, c, m, expected)
  <1>1. camp \in Campaign
    BY DEF Recorded
  <1>2. /\ slot \in Slots /\ (own = {} => slot \notin Taken(camp))
        /\ entry \in Entry /\ entry.player = p /\ entry.binding \in Nat
    <2>1. CASE own # {}
      <3>1. slot \in Taken(camp) /\ camp.roster[slot].player = p /\ entry = camp.roster[slot]
        BY <2>1, SlotExists
      <3> QED BY <1>1, <2>1, <3>1, CampaignFields
    <2>2. CASE own = {}
      <3>1. slot \in Slots \ Taken(camp) /\ entry = [player |-> p, binding |-> camp.revision + 1]
        BY <2>2, SlotExists
      <3>2. camp.revision \in Nat
        BY <1>1, CampaignFields
      <3> QED BY <2>2, <3>1, <3>2 DEF Entry
    <2> QED BY <2>1, <2>2
  <1>3. no \in BOOLEAN
    OBVIOUS
  <1>4. /\ j.result = IF camp.sealed THEN "RosterSealed"
                      ELSE IF own # {} /\ verdict = "Rejected"
                        THEN "ExistingMembershipRequiresResume" ELSE verdict
        /\ j.identity = [campaign |-> c, slot |-> slot, binding |-> entry.binding]
        /\ j.campaign = IF verdict = "Applied" THEN AddRosterSlot(camp, row, entry) ELSE camp
    BY DEF JoinCampaign
  <1> HIDE DEF camp, own, slot, entry, no, verdict, j
  <1>5. row \in JournalRow /\ row.kind = "AddRosterSlot" /\ row.slot = slot
        /\ row.player = p /\ row.binding = entry.binding
    BY <1>2, <1>3 DEF Row, JournalRow, Kinds
  <1>6. entry = [player |-> row.player, binding |-> row.binding]
    BY <1>2, <1>5 DEF Entry
  <1>7. verdict = Verdict(camp, row, own = {})
    BY DEF verdict
  <1> HIDE DEF row
  <1>8. j.identity \in Identity
    BY <1>2, <1>4 DEF Identity
  <1>9. ASSUME Succeeded(j.result)
        PROVE  Follows(camp, j.campaign)
    <2>1. ~camp.sealed
      BY <1>4, <1>9 DEF Succeeded
    <2>2. Recorded(camp)
      BY DEF camp
    <2>3. CASE verdict = "Applied"
      <3>1. own = {} /\ Fresh(camp, row)
        BY <1>5, <1>7, <2>3, AppliedIsFresh
      <3>2. SlotOf(camp, row.player) = {} /\ row.slot \in Slots \ Taken(camp)
        BY <1>2, <1>5, <3>1 DEF own
      <3>3. /\ Recorded(AddRosterSlot(camp, row, entry))
            /\ AddRosterSlot(camp, row, entry).sealed = camp.sealed
        BY <1>2, <1>5, <1>6, <2>2, <3>1, <3>2, AddRecorded
      <3> QED BY <1>4, <2>1, <2>3, <3>3 DEF Follows
    <2>4. CASE verdict # "Applied"
      BY <1>4, <2>2, <2>4 DEF Follows
    <2> QED BY <2>3, <2>4
  <1> QED BY <1>8, <1>9 DEF camp, j

\* CampaignAdmissionService::LeaveCampaign.
Connection == [admitted: Identity \cup {None}, previous: Identity \cup {None}]

\* It gives up the slot of the identity, and the identity.
LEMMA LeaveFollows ==
  ASSUME NEW record \in Connection, NEW camp, Recorded(camp), NEW c, MayLeave(record, c),
         NEW m \in Mutations \cup {RollbackId}, NEW expected \in Nat
  PROVE  LET left == LeaveCampaign(record, camp, c, m, expected)
         IN  /\ Follows(camp, left.campaign) /\ left.record \in Connection
             /\ ~Succeeded(left.result) => left.record = record /\ left.campaign = camp
  <1> DEFINE identity == IF record.admitted # None /\ record.admitted.campaign = c
                           THEN record.admitted ELSE record.previous
             no == FALSE
             row == Row(m, expected, "RemoveRosterSlot", identity.slot, None, 0, no)
             may == ~camp.sealed /\ identity.slot \in Taken(camp)
             verdict == Verdict(camp, row, may)
             left == LeaveCampaign(record, camp, c, m, expected)
  <1>1. camp \in Campaign /\ camp.sealed \in BOOLEAN
    BY CampaignFields DEF Recorded
  <1>2. identity \in Identity /\ identity.slot \in Slots
    BY DEF MayLeave, Connection, Identity
  <1>3. no \in BOOLEAN /\ may \in BOOLEAN
    OBVIOUS
  <1>4. /\ left.result = verdict
        /\ left.campaign = IF verdict = "Applied" THEN RemoveRosterSlot(camp, row) ELSE camp
        /\ left.record = IF ~Succeeded(verdict) \/ record.admitted = None THEN record
                         ELSE [admitted |-> None, previous |-> record.admitted]
    BY DEF LeaveCampaign
  <1> HIDE DEF identity, no, left
  <1>5. row \in JournalRow /\ row.kind = "RemoveRosterSlot" /\ row.slot = identity.slot
    BY <1>2, <1>3 DEF Row, JournalRow, Kinds
  <1> HIDE DEF row
  <1>6. verdict = "Applied" => Fresh(camp, row) /\ ~camp.sealed
    BY <1>3, <1>5, AppliedIsFresh
  <1> HIDE DEF verdict, may
  <1>7. Follows(camp, left.campaign)
    <2>1. CASE verdict = "Applied"
      <3>1. /\ Recorded(RemoveRosterSlot(camp, row))
            /\ RemoveRosterSlot(camp, row).sealed = camp.sealed
        BY <1>2, <1>5, <1>6, <2>1, RemoveRecorded
      <3> QED BY <1>4, <1>6, <2>1, <3>1 DEF Follows
    <2>2. CASE verdict # "Applied"
      BY <1>4, <2>2 DEF Follows
    <2> QED BY <2>1, <2>2
  <1>8. left.record \in Connection
    BY <1>4 DEF Connection
  <1>9. ~Succeeded(left.result) => left.record = record /\ left.campaign = camp
    BY <1>4 DEF Succeeded
  <1> QED BY <1>7, <1>8, <1>9 DEF left

-----------------------------------------------------------------------------
(* The lobby between two packets.                                           *)

PartyRef == PartyIds \cup {None, Dissolved}
Shapes ==
  /\ invitations \subseteq Players \X Players
  /\ admission \in [Players -> Connection]
  /\ lobbies \in [Campaigns -> PartyRef]
  /\ pendingResume \in [Players -> Pending \cup {None}]
  /\ \A p \in Players \ online : admission[p] = NoAdmission /\ pendingResume[p] = None
Stored(camps) ==
  /\ camps \in [Campaigns -> Campaign \cup {None}]
  /\ \A c \in Campaigns : camps[c] = None \/ Recorded(camps[c])

\* A code resolves to a campaign one can still join.
Open(camps, c) == camps[c] # None /\ ~camps[c].sealed /\ Taken(camps[c]) # {}
Codes(directory, camps) == \A c \in Campaigns : directory[c] # None => Open(camps, c)
LobbyInv ==
  Grouped(party, online) /\ Shapes /\ Stored(campaigns) /\ Codes(lobbies, campaigns)

\* The bodies of SealedTogether and AlignmentFollowsAdmission.
SealStep ==
  \A c \in Campaigns : campaigns'[c] # None /\ campaigns'[c].sealed =>
    IF campaigns[c].sealed
      THEN campaigns'[c].roster = campaigns[c].roster
      ELSE LET p == campaigns'[c].manager
               i == party.joined[p]
               camp == campaigns'[c]
           IN  /\ party.parties[i].leader = p
               /\ Members(party, i) = {camp.roster[s].player : s \in Taken(camp)}
               /\ \A s \in Taken(camp) : LET q == camp.roster[s].player IN
                    admission[q].admitted =
                      [campaign |-> c, slot |-> s, binding |-> camp.roster[s].binding]
AlignStep ==
  \A p \in online \cap online' : party'.joined[p] # party.joined[p] =>
    IF party'.joined[p] # None
      THEN admission'[p].admitted # None \/ pendingResume'[p] # None
      ELSE pendingResume[p] # None /\ pendingResume[p].added

\* References to a dissolved party are kept apart from no reference.
LEMMA LiveRefs ==
  ASSUME NEW s, NEW i \in PartyRef
  PROVE  /\ Live(s, i) \in PartyRef
         /\ Live(s, i) = None <=> i = None
         /\ i # None => Live(s, i) \in PartyIds \cup {Dissolved}
  BY NoParty DEF Live, PartyRef, Dissolved, Existing

\* So the codes that resolve are the same.
LEMMA LiveLobbiesShape ==
  ASSUME NEW s, NEW directory \in [Campaigns -> PartyRef]
  PROVE  /\ LiveLobbies(directory, s) \in [Campaigns -> PartyRef]
         /\ \A c \in Campaigns : LiveLobbies(directory, s)[c] = None <=> directory[c] = None
  BY LiveRefs DEF LiveLobbies

\* And the alignments that wait are the same.
LEMMA LivePendingShape ==
  ASSUME NEW s, NEW pending \in [Players -> Pending \cup {None}]
  PROVE  /\ LivePending(pending, s) \in [Players -> Pending \cup {None}]
         /\ \A p \in Players : pending[p] = None => LivePending(pending, s)[p] = None
  <1>1. ASSUME NEW p \in Players
        PROVE  (IF pending[p] = None THEN None ELSE [pending[p] EXCEPT !.party = Live(s, @)])
                 \in Pending \cup {None}
    <2>1. CASE pending[p] = None
      BY <2>1
    <2>2. CASE pending[p] # None
      <3>1. pending[p] \in Pending /\ pending[p].party \in PartyRef /\ pending[p].party # None
        BY <2>2, NoParty DEF Pending, PartyRef, Dissolved, PartyIds
      <3>2. Live(s, pending[p].party) \in PartyIds \cup {Dissolved}
        BY <3>1, LiveRefs
      <3> QED BY <2>2, <3>1, <3>2 DEF Pending
    <2> QED BY <2>1, <2>2
  <1> QED BY <1>1 DEF LivePending

\* One campaign is written.
LEMMA StoredUpdates ==
  ASSUME NEW camps, Stored(camps), NEW c \in Campaigns, NEW new, Recorded(new),
         NEW all, all = [camps EXCEPT ![c] = new]
  PROVE  Stored(all) /\ all[c] = new /\ \A x \in Campaigns \ {c} : all[x] = camps[x]
  BY DEF Stored, Recorded

\* BroadcastLobbyState, after c was written: no code outlives its lobby.
LEMMA BroadcastCodes ==
  ASSUME NEW camps, Stored(camps), NEW directory \in [Campaigns -> PartyRef],
         NEW c \in Campaigns, NEW new, Recorded(new),
         \A x \in Campaigns \ {c} : directory[x] # None => Open(camps, x)
  PROVE  /\ BroadcastLobbyState(directory, c, new) \in [Campaigns -> PartyRef]
         /\ Codes(BroadcastLobbyState(directory, c, new), [camps EXCEPT ![c] = new])
  <1> DEFINE d == BroadcastLobbyState(directory, c, new)
             all == [camps EXCEPT ![c] = new]
  <1>1. /\ d \in [Campaigns -> PartyRef]
        /\ \A x \in Campaigns \ {c} : d[x] = directory[x]
        /\ d[c] # None => ~(new.sealed \/ Taken(new) = {})
    BY DEF BroadcastLobbyState, Invalidate, PartyRef
  <1>2. all[c] = new /\ \A x \in Campaigns \ {c} : all[x] = camps[x]
    BY DEF Stored
  <1>3. new # None
    BY CampaignFields DEF Recorded
  <1> HIDE DEF d, all
  <1>4. Codes(d, all)
    <2> SUFFICES ASSUME NEW x \in Campaigns, d[x] # None
                 PROVE  Open(all, x)
      BY DEF Codes
    <2>1. CASE x = c
      BY <1>1, <1>2, <1>3, <2>1 DEF Open
    <2>2. CASE x # c
      <3>1. Open(camps, x) /\ all[x] = camps[x]
        BY <1>1, <1>2, <2>2
      <3> QED BY <3>1 DEF Open
    <2> QED BY <2>1, <2>2
  <1> QED BY <1>1, <1>4 DEF d, all

\* When a command only follows up on one campaign, nothing is sealed.
LEMMA FollowingSealsNothing ==
  ASSUME Stored(campaigns), NEW c \in Campaigns, NEW new,
         campaigns' = [campaigns EXCEPT ![c] = new],
         IF campaigns[c] = None THEN Recorded(new) /\ ~new.sealed
         ELSE Follows(campaigns[c], new)
  PROVE  SealStep /\ Stored(campaigns)'
  <1>1. Recorded(new)
    BY DEF Follows
  <1>2. /\ Stored(campaigns') /\ campaigns'[c] = new
        /\ \A x \in Campaigns \ {c} : campaigns'[x] = campaigns[x]
    <2>1. Stored(campaigns')
      BY <1>1, StoredUpdates
    <2> QED BY <2>1 DEF Stored
  <1>3. SealStep
    <2> SUFFICES ASSUME NEW x \in Campaigns, campaigns'[x] # None /\ campaigns'[x].sealed
                 PROVE  campaigns[x].sealed /\ campaigns'[x].roster = campaigns[x].roster
      BY DEF SealStep
    <2>1. CASE x = c
      BY <1>2, <2>1 DEF Follows
    <2>2. CASE x # c
      BY <1>2, <2>2
    <2> QED BY <2>1, <2>2
  <1> QED BY <1>2, <1>3

\* Nor when none is written.
LEMMA SameCampaigns ==
  ASSUME Stored(campaigns), campaigns' = campaigns
  PROVE  SealStep /\ Stored(campaigns)'
  BY DEF SealStep

LobbyStep == LobbyInv' /\ SealStep /\ AlignStep

\* A connection comes: alone the newcomer may get a party.
LEMMA ConnectStep ==
  ASSUME LobbyInv, NEW p \in Players, Connect(p)
  PROVE  LobbyStep
  <1> USE DEF LobbyInv
  <1>1. /\ p \notin online /\ online' = online \cup {p} /\ party' = AutoJoined(party, p)
        /\ invitations' = invitations /\ admission' = [admission EXCEPT ![p] = NoAdmission]
        /\ campaigns' = campaigns /\ lobbies' = lobbies /\ pendingResume' = pendingResume
    BY DEF Connect, PlayerJoins
  <1>2. /\ Grouped(party', online')
        /\ \A q \in Players \ {p} : party'.joined[q] = party.joined[q]
    BY <1>1, AutoJoinedGroups
  <1>3. SealStep /\ Stored(campaigns)'
    BY <1>1, SameCampaigns
  <1>4. Shapes'
    BY <1>1 DEF Shapes, Connection, NoAdmission
  <1>5. AlignStep
    BY <1>1, <1>2 DEF AlignStep, Grouped
  <1>6. Codes(lobbies, campaigns)'
    BY <1>1 DEF Codes, Open
  <1> QED BY <1>2, <1>3, <1>4, <1>5, <1>6 DEF LobbyStep

\* A connection is lost: so is its place in a party.
LEMMA DisconnectStep ==
  ASSUME LobbyInv, NEW p \in Players, Disconnect(p)
  PROVE  LobbyStep
  <1> USE DEF LobbyInv
  <1> DEFINE cleared == [pendingResume EXCEPT ![p] = None]
  <1>1. /\ online' = online \ {p} /\ party' = Removed(party, p)
        /\ admission' = [admission EXCEPT ![p] = NoAdmission]
        /\ pendingResume' = LivePending(cleared, party')
        /\ lobbies' = LiveLobbies(lobbies, party') /\ campaigns' = campaigns
    BY DEF Disconnect, PlayerLeaves
  <1>2. invitations' \subseteq Players \X Players
    BY DEF Disconnect, PlayerLeaves, Shapes
  <1>3. /\ Grouped(party', online')
        /\ party'.joined = [party.joined EXCEPT ![p] = None]
    BY <1>1, RemovedGroups
  <1>4. SealStep /\ Stored(campaigns)'
    BY <1>1, SameCampaigns
  <1>5. /\ cleared \in [Players -> Pending \cup {None}] /\ cleared[p] = None
        /\ \A q \in Players \ {p} : cleared[q] = pendingResume[q]
    BY DEF Shapes
  <1> HIDE DEF cleared
  <1>6. /\ pendingResume' \in [Players -> Pending \cup {None}]
        /\ \A q \in Players : cleared[q] = None => pendingResume'[q] = None
    BY <1>1, <1>5, LivePendingShape
  <1>7. /\ lobbies' \in [Campaigns -> PartyRef]
        /\ \A c \in Campaigns : lobbies'[c] = None <=> lobbies[c] = None
    BY <1>1, LiveLobbiesShape DEF Shapes
  <1>8. /\ admission' \in [Players -> Connection] /\ admission'[p] = NoAdmission
        /\ \A q \in Players \ {p} : admission'[q] = admission[q]
    BY <1>1 DEF Shapes, Connection, NoAdmission
  <1>9. Shapes'
    BY <1>1, <1>2, <1>5, <1>6, <1>7, <1>8 DEF Shapes
  <1>10. AlignStep
    BY <1>1, <1>3 DEF AlignStep, Grouped, Table
  <1>11. Codes(lobbies, campaigns)'
    BY <1>1, <1>7 DEF Codes, Open
  <1> QED BY <1>3, <1>4, <1>9, <1>10, <1>11 DEF LobbyStep

\* The process restarts.
LEMMA RestartStep ==
  ASSUME LobbyInv, Restart
  PROVE  LobbyStep
  <1> USE DEF LobbyInv
  <1>1. /\ online' = {} /\ party' = NoParties /\ invitations' = {} /\ campaigns' = campaigns
        /\ admission' = [p \in Players |-> NoAdmission]
        /\ lobbies' = [c \in Campaigns |-> None]
        /\ pendingResume' = [p \in Players |-> None]
    BY DEF Restart
  <1>2. SealStep /\ Stored(campaigns)'
    BY <1>1, SameCampaigns
  <1>3. Grouped(party', online')
    BY <1>1, NoPartiesGrouped
  <1>4. Shapes'
    BY <1>1 DEF Shapes, Connection, NoAdmission, PartyRef
  <1>5. AlignStep /\ Codes(lobbies, campaigns)'
    BY <1>1 DEF AlignStep, Codes
  <1> QED BY <1>2, <1>3, <1>4, <1>5 DEF LobbyStep

\* The party menu; it is the other way into and out of a party.
LEMMA MenuStep ==
  ASSUME LobbyInv, PartyMenuStep
  PROVE  LobbyInv' /\ SealStep
  <1> USE DEF LobbyInv
  <1>1. /\ lobbies' = LiveLobbies(lobbies, party') /\ campaigns' = campaigns
        /\ pendingResume' = LivePending(pendingResume, party') /\ admission' = admission
    BY DEF PartyMenuStep
  <1>2. /\ Grouped(party', online') /\ online' = online
        /\ invitations' \subseteq Players \X Players
    BY PartyMenuGroups DEF PartyMenuStep, Shapes
  <1>3. SealStep /\ Stored(campaigns)'
    BY <1>1, SameCampaigns
  <1>4. /\ pendingResume' \in [Players -> Pending \cup {None}]
        /\ \A q \in Players : pendingResume[q] = None => pendingResume'[q] = None
    BY <1>1, LivePendingShape DEF Shapes
  <1>5. /\ lobbies' \in [Campaigns -> PartyRef]
        /\ \A c \in Campaigns : lobbies'[c] = None <=> lobbies[c] = None
    BY <1>1, LiveLobbiesShape DEF Shapes
  <1>6. Shapes'
    BY <1>1, <1>2, <1>4, <1>5 DEF Shapes
  <1>7. Codes(lobbies, campaigns)'
    BY <1>1, <1>5 DEF Codes, Open
  <1> QED BY <1>2, <1>3, <1>6, <1>7

\* A roster command of a connected player that leaves the parties alone.
LEMMA CommandStep ==
  ASSUME LobbyInv, NEW p \in online, NEW c \in Campaigns, NEW new, NEW record \in Connection,
         Grouped(party, online)',
         online' = online, invitations' = invitations,
         pendingResume' \in [Players -> Pending \cup {None}],
         \A q \in Players \ {p} : pendingResume'[q] = pendingResume[q],
         campaigns' = [campaigns EXCEPT ![c] = new],
         IF campaigns[c] = None THEN Recorded(new) /\ ~new.sealed
         ELSE Follows(campaigns[c], new),
         admission' = [admission EXCEPT ![p] = record],
         NEW directory \in [Campaigns -> PartyRef],
         \A x \in Campaigns \ {c} : directory[x] # None => Open(campaigns, x),
         lobbies' = BroadcastLobbyState(directory, c, new)
  PROVE  LobbyInv' /\ SealStep
  <1> USE DEF LobbyInv
  <1>1. SealStep /\ Stored(campaigns)' /\ Recorded(new)
    BY FollowingSealsNothing DEF Follows
  <1>2. lobbies' \in [Campaigns -> PartyRef] /\ Codes(lobbies, campaigns)'
    BY <1>1, BroadcastCodes
  <1>3. online \subseteq Players
    BY DEF Grouped
  <1>4. Shapes'
    BY <1>2, <1>3 DEF Shapes
  <1> QED BY <1>1, <1>2, <1>4

\* OnJoin.
LEMMA JoinStep ==
  ASSUME LobbyInv, NEW p \in Players, NEW c \in Campaigns, NEW m \in Mutations,
         NEW expected \in Nat, OnJoin(p, c, m, expected)
  PROVE  LobbyStep
  <1> USE DEF LobbyInv
  <1> DEFINE joined == JoinCampaign(p, c, m, expected)
             record == [admission[p] EXCEPT !.admitted = joined.identity]
  <1>1. /\ p \in online /\ campaigns[c] # None /\ Succeeded(joined.result)
        /\ campaigns' = [campaigns EXCEPT ![c] = joined.campaign]
        /\ lobbies' = BroadcastLobbyState(lobbies, c, joined.campaign)
        /\ UNCHANGED <<online, party, invitations, pendingResume>>
    BY DEF OnJoin, Join
  <1>9. admission' = [admission EXCEPT ![p].admitted = joined.identity]
    BY DEF OnJoin, Join
  <1>2. Recorded(campaigns[c])
    BY <1>1 DEF Stored
  <1>3. joined.identity \in Identity /\ Follows(campaigns[c], joined.campaign)
    BY <1>1, <1>2, JoinFollows
  <1> HIDE DEF joined
  <1>4. record \in Connection /\ admission' = [admission EXCEPT ![p] = record]
    BY <1>3, <1>9 DEF Shapes, Connection
  <1> HIDE DEF record
  <1>5. \A x \in Campaigns \ {c} : lobbies[x] # None => Open(campaigns, x)
    BY DEF Codes
  <1>6. lobbies \in [Campaigns -> PartyRef] /\ Grouped(party, online)'
        /\ pendingResume' \in [Players -> Pending \cup {None}]
    BY <1>1 DEF Shapes
  <1>7. LobbyInv' /\ SealStep
    BY <1>1, <1>3, <1>4, <1>5, <1>6, CommandStep
  <1>8. AlignStep
    BY <1>1 DEF AlignStep
  <1> QED BY <1>7, <1>8 DEF LobbyStep

\* OnLeave.
LEMMA LeaveStep ==
  ASSUME LobbyInv, NEW p \in Players, NEW c \in Campaigns, NEW m \in Mutations,
         NEW expected \in Nat, campaigns[c] # None, OnLeave(p, c, m, expected)
  PROVE  LobbyStep
  <1> USE DEF LobbyInv
  <1> DEFINE left == LeaveCampaign(admission[p], campaigns[c], c, m, expected)
  <1>1. /\ p \in online /\ MayLeave(admission[p], c)
        /\ campaigns' = [campaigns EXCEPT ![c] = left.campaign]
        /\ admission' = [admission EXCEPT ![p] = left.record]
        /\ lobbies' = BroadcastLobbyState(lobbies, c, left.campaign)
        /\ UNCHANGED <<online, party, invitations, pendingResume>>
    BY DEF OnLeave
  <1>2. Recorded(campaigns[c]) /\ admission[p] \in Connection
    BY DEF Stored, Shapes
  <1>3. left.record \in Connection /\ Follows(campaigns[c], left.campaign)
    BY <1>1, <1>2, LeaveFollows
  <1> HIDE DEF left
  <1>5. \A x \in Campaigns \ {c} : lobbies[x] # None => Open(campaigns, x)
    BY DEF Codes
  <1>6. lobbies \in [Campaigns -> PartyRef] /\ Grouped(party, online)'
        /\ pendingResume' \in [Players -> Pending \cup {None}]
    BY <1>1 DEF Shapes
  <1>7. LobbyInv' /\ SealStep
    BY <1>1, <1>3, <1>5, <1>6, CommandStep
  <1>8. AlignStep
    BY <1>1 DEF AlignStep
  <1> QED BY <1>7, <1>8 DEF LobbyStep

\* OnSetReady, of a sealed campaign.
LEMMA SetReadyStep ==
  ASSUME LobbyInv, NEW p \in Players, NEW c \in Campaigns, NEW m \in Mutations,
         NEW expected \in Nat, NEW flag \in BOOLEAN, campaigns[c] # None,
         OnSetReady(p, c, m, expected, flag)
  PROVE  LobbyStep
  <1> USE DEF LobbyInv
  <1> DEFINE camp == campaigns[c]
             identity == admission[p].admitted
             row == Row(m, expected, "SetReady", identity.slot, p, identity.binding, flag)
             may == camp.sealed /\ Exact(camp, p, identity)
             new == SetReady(camp, row)
  <1>1. /\ p \in online /\ IsAdmitted(p, c) /\ Verdict(camp, row, may) = "Applied"
        /\ campaigns' = [campaigns EXCEPT ![c] = new]
        /\ UNCHANGED <<online, party, invitations, admission, lobbies, pendingResume>>
    BY DEF OnSetReady
  <1>2. Recorded(camp) /\ admission[p] \in Connection
    BY DEF Stored, Shapes
  <1>3. identity \in Identity
    BY <1>1, <1>2 DEF IsAdmitted, Connection
  <1>4. /\ row \in JournalRow /\ row.kind = "SetReady" /\ row.slot \in Slots
    BY <1>3 DEF Identity, Row, JournalRow, Kinds
  <1>5. may \in BOOLEAN
    <2>1. camp.sealed \in BOOLEAN
      BY <1>2, CampaignFields DEF Recorded
    <2> QED BY <2>1 DEF Exact
  <1> HIDE DEF row, identity, may
  <1>6. Fresh(camp, row)
    BY <1>1, <1>4, <1>5, AppliedIsFresh
  <1>7. /\ Recorded(new) /\ new.roster = camp.roster /\ new.sealed = camp.sealed
        /\ new.manager = camp.manager /\ Taken(new) = Taken(camp)
    BY <1>2, <1>4, <1>6, ReadyRecorded
  <1> HIDE DEF new
  <1>8. Follows(camp, new)
    BY <1>7 DEF Follows
  <1>9. SealStep /\ Stored(campaigns)'
    BY <1>1, <1>8, FollowingSealsNothing
  <1>10. Codes(lobbies, campaigns)'
    <2> SUFFICES ASSUME NEW x \in Campaigns, lobbies[x] # None
                 PROVE  Open(campaigns', x)
      BY <1>1 DEF Codes
    <2>1. Open(campaigns, x)
      BY DEF Codes
    <2>2. CASE x = c
      <3>1. campaigns'[c] = new /\ new # None
        BY <1>1, <1>7, CampaignFields DEF Stored, Recorded
      <3> QED BY <1>7, <2>1, <2>2, <3>1 DEF Open
    <2>3. CASE x # c
      <3>1. campaigns'[x] = campaigns[x]
        BY <1>1, <2>3 DEF Stored
      <3> QED BY <2>1, <3>1 DEF Open
    <2> QED BY <2>2, <2>3
  <1>11. Shapes' /\ AlignStep /\ Grouped(party, online)'
    BY <1>1 DEF Shapes, AlignStep
  <1> QED BY <1>9, <1>10, <1>11 DEF LobbyStep

\* A party as long as the roster, whose members are all present, is the roster.
LEMMA PartyIsRoster ==
  ASSUME LobbyInv, NEW p \in online, NEW c \in Campaigns, campaigns[c] # None,
         SharesCompleteParty(p, c)
  PROVE  LET camp == campaigns[c] IN
         /\ Members(party, party.joined[p]) = {camp.roster[s].player : s \in Taken(camp)}
         /\ \A s \in Taken(camp) :
              admission[camp.roster[s].player].admitted =
                [campaign |-> c, slot |-> s, binding |-> camp.roster[s].binding]
  <1> USE DEF LobbyInv
  <1> DEFINE camp == campaigns[c]
             i == party.joined[p]
             here == GetAdmittedConnections(c)
             list == party.parties[i].members
             players == {camp.roster[s].player : s \in Taken(camp)}
             f == [s \in Taken(camp) |-> camp.roster[s].player]
  <1>1. /\ i # None /\ \A q \in here : party.joined[q] = i
        /\ EveryonePresent(c)
        /\ Cardinality(here) = Cardinality(Taken(camp))
        /\ Cardinality(here) = Len(list)
    BY DEF SharesCompleteParty, SharesCampaignParty
  <1>2. /\ p \in Players /\ here \subseteq Players /\ here \subseteq online
        /\ i \in Existing(party) /\ list \in Seq(Players) /\ Distinct(list)
        /\ Members(party, i) = ToSet(list) /\ Members(party, i) \subseteq Players
    <2>1. p \in Players /\ here \subseteq online /\ online \subseteq Players
      BY DEF Grouped, GetAdmittedConnections
    <2>2. i \in Existing(party)
      BY <1>1, <2>1 DEF Grouped
    <2>3. list \in Seq(Players) /\ Members(party, i) \subseteq Players
      BY <2>2, MembersArePlayers
    <2>4. Distinct(list) /\ Members(party, i) = ToSet(list)
      BY <2>2 DEF Grouped, Members
    <2> QED BY <2>1, <2>2, <2>3, <2>4
  <1>3. Recorded(camp) /\ camp \in Campaign /\ Rostered(camp)
    BY DEF Stored, Recorded
  <1>4. \A s \in Taken(camp) : /\ s \in Slots /\ camp.roster[s] \in Entry
                               /\ camp.roster[s].player \in Players
    BY <1>3, CampaignFields
  <1> HIDE DEF camp, i, list
  <1>5. ASSUME NEW s \in Taken(camp)
        PROVE  /\ camp.roster[s].player \in here
               /\ admission[camp.roster[s].player].admitted =
                    [campaign |-> c, slot |-> s, binding |-> camp.roster[s].binding]
    <2>1. PICK q \in here : /\ admission[q].admitted.slot = s
                            /\ Exact(camp, q, admission[q].admitted)
      BY <1>1 DEF EveryonePresent, camp
    <2>2. camp.roster[s] = [player |-> q, binding |-> admission[q].admitted.binding]
      BY <2>1 DEF Exact
    <2>3. camp.roster[s].player = q /\ camp.roster[s].binding = admission[q].admitted.binding
      BY <2>2
    <2>4. admission[q].admitted \in Identity /\ admission[q].admitted.campaign = c
      BY <1>2, <2>1 DEF GetAdmittedConnections, IsAdmitted, Shapes, Connection
    <2>5. admission[q].admitted =
            [campaign |-> c, slot |-> s, binding |-> admission[q].admitted.binding]
      BY <2>1, <2>4 DEF Identity
    <2> QED BY <2>1, <2>3, <2>5
  <1>6. IsFiniteSet(Players) /\ IsFiniteSet(here) /\ IsFiniteSet(Members(party, i))
    BY <1>2, PartyAssumption, FS_Subset
  <1>7. Cardinality(Members(party, i)) = Len(list)
    <2>1. list \in Surjection(1..Len(list), ToSet(list)) /\ Len(list) \in Nat
      BY <1>2 DEF Surjection, ToSet
    <2>2. list \in Injection(1..Len(list), ToSet(list))
      BY <1>2, <2>1 DEF Injection, IsInjective, Surjection, Distinct
    <2>3. IsFiniteSet(1..Len(list)) /\ Cardinality(1..Len(list)) = Len(list)
      BY <2>1, FS_Interval
    <2> QED BY <1>2, <2>1, <2>2, <2>3, FS_Surjection
  <1>8. here = Members(party, i)
    <2>1. \A q \in here : q \in Members(party, i)
      <3> TAKE q \in here
      <3>1. q \in Players /\ party.joined[q] = i
        BY <1>1, <1>2
      <3> QED BY <1>1, <3>1 DEF Grouped
    <2> QED BY <1>1, <1>6, <1>7, <2>1, FS_Subset
  <1>9. Cardinality(players) = Cardinality(Taken(camp)) /\ players \subseteq here
    <2>1. f \in Surjection(Taken(camp), players)
      BY DEF Surjection
    <2>2. f \in Injection(Taken(camp), players)
      BY <1>3, <2>1 DEF Injection, IsInjective, Surjection, Rostered
    <2>3. players \subseteq here /\ IsFiniteSet(players)
      <3>1. players \subseteq here
        BY <1>5
      <3> QED BY <1>6, <3>1, FS_Subset
    <2>4. IsFiniteSet(Taken(camp))
      BY <2>2, <2>3, FS_Injection
    <2> QED BY <2>1, <2>2, <2>3, <2>4, FS_Surjection
  <1>10. players = here
    BY <1>1, <1>6, <1>9, FS_Subset
  <1> QED BY <1>5, <1>8, <1>10 DEF camp, i

\* OnStart: what is sealed is the party that stands there.
LEMMA StartStep ==
  ASSUME LobbyInv, NEW p \in Players, NEW c \in Campaigns, NEW m \in Mutations,
         NEW expected \in Nat, campaigns[c] # None, OnStart(p, c, m, expected)
  PROVE  LobbyStep
  <1> USE DEF LobbyInv
  <1> DEFINE camp == campaigns[c]
             no == FALSE
             row == Row(m, expected, "CommitCampaignStart", 0, p, 0, no)
             may == ~camp.sealed /\ SlotOf(camp, p) # {}
             verdict == Verdict(camp, row, may)
             new == CommitCampaignStart(camp, row)
  <1>1. /\ p \in online /\ IsPlayerLeader(party, p) /\ SharesCompleteParty(p, c)
        /\ Succeeded(verdict) /\ lobbies' = Invalidate(lobbies, c)
        /\ campaigns' = IF verdict = "IdempotentReplay" THEN campaigns
                        ELSE [campaigns EXCEPT ![c] = new]
        /\ UNCHANGED <<online, party, invitations, admission, pendingResume>>
    BY DEF OnStart
  <1>2. Recorded(camp) /\ no \in BOOLEAN /\ may \in BOOLEAN
    BY DEF Stored
  <1> HIDE DEF no, may
  <1>3. /\ row \in JournalRow /\ row.kind = "CommitCampaignStart" /\ row.player = p
    BY <1>2 DEF Row, JournalRow, Kinds
  <1> HIDE DEF row
  <1>4. /\ lobbies' \in [Campaigns -> PartyRef] /\ lobbies'[c] = None
        /\ \A x \in Campaigns \ {c} : lobbies'[x] = lobbies[x]
    BY <1>1 DEF Invalidate, Shapes, PartyRef
  <1>5. Shapes' /\ AlignStep /\ Grouped(party, online)'
    BY <1>1, <1>4 DEF Shapes, AlignStep
  <1>6. ASSUME \A x \in Campaigns \ {c} : campaigns'[x] = campaigns[x]
        PROVE  Codes(lobbies, campaigns)'
    BY <1>4, <1>6 DEF Codes, Open
  <1>7. CASE verdict = "IdempotentReplay"
    <2>1. campaigns' = campaigns
      BY <1>1, <1>7
    <2>2. SealStep /\ Stored(campaigns)'
      BY <2>1, SameCampaigns
    <2> QED BY <1>5, <1>6, <2>1, <2>2 DEF LobbyStep
  <1>8. CASE verdict = "Applied"
    <2>1. may /\ Fresh(camp, row)
      BY <1>2, <1>3, <1>8, AppliedIsFresh
    <2>2. /\ Recorded(new) /\ new.roster = camp.roster /\ new.manager = p
          /\ Taken(new) = Taken(camp)
      BY <1>2, <1>3, <2>1, StartRecorded
    <2> HIDE DEF new, verdict
    <2>3. campaigns' = [campaigns EXCEPT ![c] = new]
      BY <1>1, <1>8
    <2>4. /\ Stored(campaigns') /\ campaigns'[c] = new
          /\ \A x \in Campaigns \ {c} : campaigns'[x] = campaigns[x]
      <3>1. Stored(campaigns')
        BY <2>2, <2>3, StoredUpdates
      <3> QED BY <2>3, <3>1 DEF Stored
    <2>5. ~camp.sealed
      BY <2>1 DEF may
    <2>6. /\ Members(party, party.joined[p]) = {camp.roster[s].player : s \in Taken(camp)}
          /\ \A s \in Taken(camp) :
               admission[camp.roster[s].player].admitted =
                 [campaign |-> c, slot |-> s, binding |-> camp.roster[s].binding]
      BY <1>1, PartyIsRoster
    <2>7. party.parties[party.joined[p]].leader = p
      BY <1>1 DEF IsPlayerLeader
    <2>8. SealStep
      <3> SUFFICES ASSUME NEW x \in Campaigns, campaigns'[x] # None, campaigns'[x].sealed
                   PROVE  IF campaigns[x].sealed
                          THEN campaigns'[x].roster = campaigns[x].roster
                          ELSE LET q == campaigns'[x].manager
                                   all == campaigns'[x]
                               IN  /\ party.parties[party.joined[q]].leader = q
                                   /\ Members(party, party.joined[q]) =
                                        {all.roster[s].player : s \in Taken(all)}
                                   /\ \A s \in Taken(all) :
                                        admission[all.roster[s].player].admitted =
                                          [campaign |-> x, slot |-> s,
                                           binding |-> all.roster[s].binding]
        BY DEF SealStep
      <3>1. CASE x = c
        BY <2>2, <2>4, <2>5, <2>6, <2>7, <3>1
      <3>2. CASE x # c
        BY <2>4, <3>2
      <3> QED BY <3>1, <3>2
    <2> QED BY <1>5, <1>6, <2>4, <2>8 DEF LobbyStep
  <1> QED BY <1>1, <1>7, <1>8 DEF Succeeded

\* OnResume: what it undoes is an alignment that was kept for it.
LEMMA ResumeStep ==
  ASSUME LobbyInv, NEW p \in Players, NEW c \in Campaigns, NEW binding \in Bindings(c),
         OnResume(p, c, binding)
  PROVE  LobbyStep
  <1> USE DEF LobbyInv
  <1> DEFINE own == SlotOf(campaigns[c], p)
             accepted == ResumeAccepted(p, c, binding)
             pending == pendingResume[p]
             undo == ~accepted /\ pending # None /\ pending.added
                       /\ party.joined[p] = pending.party
             identity == [campaign |-> c, slot |-> MinOf(own), binding |-> binding]
             cleared == [pendingResume EXCEPT ![p] = None]
  <1>1. /\ p \in online /\ campaigns[c] # None
        /\ admission' = IF ~accepted THEN admission
                        ELSE [admission EXCEPT ![p].admitted = identity]
        /\ party' = IF undo THEN Removed(party, p) ELSE party
        /\ lobbies' = IF accepted THEN BroadcastLobbyState(lobbies, c, campaigns[c])
                      ELSE LiveLobbies(lobbies, party')
        /\ pendingResume' = LivePending(cleared, party')
        /\ UNCHANGED <<online, invitations, campaigns>>
    BY DEF OnResume
  <1>2. Recorded(campaigns[c])
    BY <1>1 DEF Stored
  <1>3. SealStep /\ Stored(campaigns)'
    BY <1>1, SameCampaigns
  <1>4. accepted => identity \in Identity
    <2>1. accepted => MinOf(own) \in Slots
      BY <1>2, SlotExists DEF ResumeAccepted, Taken
    <2>2. binding \in Nat
      BY <1>1, <1>2, CampaignFields DEF Bindings, Recorded
    <2> QED BY <2>1, <2>2 DEF Identity
  <1>5. cleared \in [Players -> Pending \cup {None}]
        /\ \A q \in Players : pendingResume[q] = None => cleared[q] = None
    BY DEF Shapes
  <1> HIDE DEF cleared, identity, accepted
  <1>6. /\ pendingResume' \in [Players -> Pending \cup {None}]
        /\ \A q \in Players : pendingResume[q] = None => pendingResume'[q] = None
    BY <1>1, <1>5, LivePendingShape
  <1>7. /\ admission' \in [Players -> Connection]
        /\ \A q \in Players \ {p} : admission'[q] = admission[q]
    BY <1>1, <1>4 DEF Shapes, Connection
  <1>8. Grouped(party', online')
    <2>1. Grouped(Removed(party, p), online \ {p}) /\ online \subseteq Players
      BY RemovedGroups DEF Grouped
    <2>2. Grouped(Removed(party, p), online)
      BY <2>1, MoreOnline
    <2> QED BY <1>1, <2>2
  <1>9. lobbies' \in [Campaigns -> PartyRef] /\ Codes(lobbies, campaigns)'
    <2>1. CASE accepted
      <3>1. campaigns' = [campaigns EXCEPT ![c] = campaigns[c]]
        BY <1>1 DEF Stored
      <3>2. \A x \in Campaigns \ {c} : lobbies[x] # None => Open(campaigns, x)
        BY DEF Codes
      <3>3. lobbies \in [Campaigns -> PartyRef]
            /\ lobbies' = BroadcastLobbyState(lobbies, c, campaigns[c])
        BY <1>1, <2>1 DEF Shapes
      <3> QED BY <1>2, <3>1, <3>2, <3>3, BroadcastCodes
    <2>2. CASE ~accepted
      <3>1. /\ lobbies' \in [Campaigns -> PartyRef]
            /\ \A x \in Campaigns : lobbies'[x] = None <=> lobbies[x] = None
        BY <1>1, <2>2, LiveLobbiesShape DEF Shapes
      <3> QED BY <1>1, <3>1 DEF Codes, Open
    <2> QED BY <2>1, <2>2
  <1>10. Shapes'
    BY <1>1, <1>6, <1>7, <1>9 DEF Shapes, Grouped
  <1>11. AlignStep
    <2>1. Removed(party, p).joined = [party.joined EXCEPT ![p] = None]
      BY RemovedGroups
    <2>2. party \in Table
      BY DEF Grouped
    <2>3. CASE undo
      <3>1. /\ party'.joined[p] = None
            /\ \A q \in Players \ {p} : party'.joined[q] = party.joined[q]
        BY <1>1, <2>1, <2>2, <2>3 DEF Table
      <3> QED BY <1>1, <2>3, <3>1 DEF AlignStep, Grouped
    <2>4. CASE ~undo
      BY <1>1, <2>4 DEF AlignStep
    <2> QED BY <2>3, <2>4
  <1> QED BY <1>3, <1>8, <1>9, <1>10, <1>11 DEF LobbyStep

\* Only p's entry can change, and only along with an admission of p.
LEMMA AlignedAlone ==
  ASSUME LobbyInv, NEW p \in Players, online' = online,
         \A q \in Players \ {p} : party'.joined[q] = party.joined[q],
         party'.joined[p] # party.joined[p] =>
           /\ party'.joined[p] # None
           /\ admission'[p].admitted # None \/ pendingResume'[p] # None
  PROVE  AlignStep
  BY DEF AlignStep, LobbyInv, Grouped

\* OnCreate: a party led, a campaign created or found, and a code, or nothing.
LEMMA CreateStep ==
  ASSUME LobbyInv, NEW p \in Players, NEW m \in Mutations, OnCreate(p, m)
  PROVE  LobbyStep
  <1> USE DEF LobbyInv
  <1> DEFINE replay == Creations(p, m) # {}
             ensured == Ensured(party, NextId(party), p)
             undo == RolledBack(party, ensured, p)
             Identified(c) == [campaign |-> c, slot |-> 1, binding |-> 1]
             Camp(c) == IF replay THEN campaigns[c] ELSE NewCampaign(p, m)
             Admitted(c) == [admission[p] EXCEPT !.admitted = Identified(c)]
             Undone(c) == LeaveCampaign(Admitted(c), Camp(c), c, RollbackId, 1)
             Accepted(c) == CreateAccepted(p, c, Camp(c), replay)
  <1>1. p \in online /\ MayLeadCampaign(party, p)
        /\ UNCHANGED <<online, invitations, pendingResume>>
    BY DEF OnCreate
  <1>2. PICK c \in IF replay THEN Creations(p, m) ELSE {x \in Campaigns : campaigns[x] = None},
             code \in IF CodesMayRunOut THEN BOOLEAN ELSE {TRUE} :
          /\ party' = IF Accepted(c) /\ (code \/ lobbies[c] # None \/ ~Succeeded(Undone(c).result))
                        THEN ensured ELSE undo
          /\ IF ~Accepted(c) THEN UNCHANGED <<campaigns, admission, lobbies, sent>>
             ELSE IF code \/ lobbies[c] # None
                    THEN /\ campaigns' = [campaigns EXCEPT ![c] = Camp(c)]
                         /\ admission' = [admission EXCEPT ![p] = Admitted(c)]
                         /\ lobbies' = BroadcastLobbyState(
                               Allocate(lobbies, c, ensured.joined[p]), c, Camp(c))
                    ELSE /\ campaigns' = [campaigns EXCEPT ![c] = Undone(c).campaign]
                         /\ admission' = [admission EXCEPT ![p] = Undone(c).record]
                         /\ UNCHANGED lobbies
    BY ZenonT(60) DEF OnCreate
  <1> DEFINE published == code \/ lobbies[c] # None
             camp == Camp(c)
             admitted == Admitted(c)
             undone == Undone(c)
             accepted == Accepted(c)
             directory == Allocate(lobbies, c, ensured.joined[p])
  <1>3. /\ Grouped(ensured, online) /\ ensured.joined[p] \in PartyIds
        /\ party.joined[p] # None => ensured.joined[p] = party.joined[p]
        /\ \A q \in Players \ {p} : ensured.joined[q] = party.joined[q]
    BY <1>1, EnsuredGroups
  <1> HIDE DEF ensured
  <1>4. Grouped(undo, online) /\ undo.joined = party.joined
    BY <1>1, <1>3, RolledBackGroups
  <1> HIDE DEF undo
  <1>5. Grouped(party', online')
    BY <1>1, <1>2, <1>3, <1>4
  <1>6. /\ c \in Campaigns /\ Recorded(camp)
        /\ IF campaigns[c] = None THEN ~camp.sealed ELSE camp = campaigns[c]
    <2>1. Recorded(NewCampaign(p, m)) /\ ~NewCampaign(p, m).sealed
      BY NewCampaignRecorded
    <2> QED BY <1>2, <2>1 DEF Creations, Stored
  <1>7. 1 \in Slots
    BY NewCampaignRecorded
  <1>8. /\ admitted \in Connection /\ admitted.admitted # None
        /\ MayLeave(admitted, c)
    <2>1. Identified(c) \in Identity /\ Identified(c) # None /\ Identified(c).campaign = c
      BY <1>6, <1>7, NoRecord DEF Identity
    <2>2. admission[p] \in Connection
      BY DEF Shapes
    <2> HIDE DEF Identified
    <2>3. admitted \in Connection /\ admitted.admitted = Identified(c)
      BY <2>1, <2>2 DEF Connection
    <2> QED BY <2>1, <2>3 DEF MayLeave
  <1> HIDE DEF Camp, Admitted
  <1>9. /\ Follows(camp, undone.campaign) /\ undone.record \in Connection
        /\ ~Succeeded(undone.result) => undone.record = admitted
    BY <1>6, <1>8, LeaveFollows
  <1>10. /\ party' = IF accepted /\ (published \/ ~Succeeded(undone.result)) THEN ensured ELSE undo
         /\ ~accepted => UNCHANGED <<campaigns, admission, lobbies>>
         /\ accepted /\ published => /\ campaigns' = [campaigns EXCEPT ![c] = camp]
                                     /\ admission' = [admission EXCEPT ![p] = admitted]
                                     /\ lobbies' = BroadcastLobbyState(directory, c, camp)
         /\ accepted /\ ~published =>
              /\ campaigns' = [campaigns EXCEPT ![c] = undone.campaign]
              /\ admission' = [admission EXCEPT ![p] = undone.record]
              /\ lobbies' = lobbies
    BY <1>2
  <1>11. ~published => lobbies[c] = None
    OBVIOUS
  <1> HIDE DEF camp, admitted, undone, accepted, published, directory, Accepted, Undone, replay
  <1>12. Follows(camp, camp)
    BY <1>6 DEF Follows
  <1>13. AlignStep
    <2>1. admission' = [admission EXCEPT ![p] = admitted] => admission'[p].admitted # None
      BY <1>8 DEF Shapes
    <2>2. CASE accepted /\ (published \/ ~Succeeded(undone.result))
      <3>1. admission' = [admission EXCEPT ![p] = admitted] /\ party' = ensured
        BY <1>9, <1>10, <2>2
      <3>2. ensured.joined[p] # None
        BY <1>3, NoParty DEF PartyIds
      <3> QED BY <1>1, <1>3, <2>1, <3>1, <3>2, AlignedAlone
    <2>3. CASE ~(accepted /\ (published \/ ~Succeeded(undone.result)))
      <3>1. party'.joined = party.joined
        BY <1>4, <1>10, <2>3
      <3> QED BY <3>1 DEF AlignStep
    <2> QED BY <2>2, <2>3
  <1>14. CASE ~accepted
    <2>1. SealStep /\ Stored(campaigns)'
      BY <1>10, <1>14, SameCampaigns
    <2>2. Shapes' /\ Codes(lobbies, campaigns)'
      BY <1>1, <1>10, <1>14 DEF Shapes, Codes, Open
    <2> QED BY <1>5, <1>13, <2>1, <2>2 DEF LobbyStep
  <1>15. CASE accepted /\ published
    <2>1. /\ directory \in [Campaigns -> PartyRef]
          /\ \A x \in Campaigns \ {c} : directory[x] = lobbies[x]
      BY <1>3, <1>6 DEF directory, Allocate, Shapes, PartyRef
    <2>2. \A x \in Campaigns \ {c} : directory[x] # None => Open(campaigns, x)
      BY <2>1 DEF Codes
    <2>3. IF campaigns[c] = None THEN Recorded(camp) /\ ~camp.sealed
          ELSE Follows(campaigns[c], camp)
      BY <1>6, <1>12
    <2>4. /\ campaigns' = [campaigns EXCEPT ![c] = camp]
          /\ admission' = [admission EXCEPT ![p] = admitted]
          /\ lobbies' = BroadcastLobbyState(directory, c, camp)
          /\ pendingResume' \in [Players -> Pending \cup {None}]
          /\ online' = online /\ invitations' = invitations /\ pendingResume' = pendingResume
      BY <1>1, <1>10, <1>15 DEF Shapes
    <2>5. LobbyInv' /\ SealStep
      BY <1>1, <1>5, <1>6, <1>8, <2>1, <2>2, <2>3, <2>4, CommandStep
    <2> QED BY <1>13, <2>5 DEF LobbyStep
  <1>16. CASE accepted /\ ~published
    <2> DEFINE new == undone.campaign
    <2>1. /\ campaigns' = [campaigns EXCEPT ![c] = new]
          /\ admission' = [admission EXCEPT ![p] = undone.record]
          /\ lobbies' = lobbies
      BY <1>10, <1>16
    <2>2. IF campaigns[c] = None THEN Recorded(new) /\ ~new.sealed
          ELSE Follows(campaigns[c], new)
      BY <1>6, <1>9 DEF Follows
    <2> HIDE DEF new
    <2>3. SealStep /\ Stored(campaigns)'
      BY <1>6, <2>1, <2>2, FollowingSealsNothing
    <2>4. Shapes'
      BY <1>1, <1>9, <2>1 DEF Shapes
    <2>5. Codes(lobbies, campaigns)'
      <3>1. \A x \in Campaigns \ {c} : campaigns'[x] = campaigns[x]
        BY <2>1 DEF Stored
      <3>2. lobbies[c] = None
        BY <1>11, <1>16
      <3> QED BY <2>1, <3>1, <3>2 DEF Codes, Open
    <2> QED BY <1>5, <1>13, <2>3, <2>4, <2>5 DEF LobbyStep
  <1> QED BY <1>14, <1>15, <1>16

\* AlignPlayerWithCampaignParty, when it works.
LEMMA AlignmentGroups ==
  ASSUME LobbyInv, NEW p \in online, NEW c \in Campaigns, Aligned(Alignment(p, c), p, c)
  PROVE  LET s == Alignment(p, c)
         IN  /\ Grouped(s, online) /\ s.joined[p] \in PartyIds
             /\ party.joined[p] # None => s.joined[p] = party.joined[p]
             /\ \A q \in Players \ {p} : s.joined[q] = party.joined[q]
  <1> USE DEF LobbyInv
  <1> DEFINE s == Alignment(p, c)
             yes == TRUE
             i == NextId(party)
  <1>1. party \in Table /\ p \in Players /\ yes \in BOOLEAN
    BY DEF Grouped
  <1>2. s.joined[p] # None
    BY DEF Aligned
  <1>3. CASE party.joined[p] # None
    <2>1. s = party
      BY <1>3 DEF Alignment
    <2> QED BY <1>1, <1>3, <2>1 DEF Table
  <1>4. CASE party.joined[p] = None /\ lobbies[c] \in Existing(party)
    <2> DEFINE home == lobbies[c]
    <2>1. s = Added(party, home, p)
      BY <1>4 DEF Alignment
    <2>2. home \in Existing(party) /\ home \in PartyIds
      BY <1>4 DEF Existing
    <2> HIDE DEF s, home
    <2>3. Grouped(s, online) /\ s.joined = [party.joined EXCEPT ![p] = home]
      BY <1>4, <2>1, <2>2, AddedGroups
    <2> QED BY <1>1, <1>4, <2>2, <2>3 DEF Table, s
  <1>5. CASE party.joined[p] = None /\ lobbies[c] \notin Existing(party)
    <2>1. s = NewParty(party, i, p, yes) \/ s = party
      BY <1>5 DEF Alignment
    <2>2. s = NewParty(party, i, p, yes)
      BY <1>2, <1>5, <2>1
    <2>3. i \in PartyIds \ Existing(party)
      BY <1>1, <1>5, NextIdIsFree
    <2> HIDE DEF s, i, yes
    <2>4. Grouped(s, online) /\ s.joined = [party.joined EXCEPT ![p] = i]
      BY <1>1, <1>5, <2>2, <2>3, NewPartyGroups
    <2> QED BY <1>1, <1>5, <2>3, <2>4 DEF Table, s
  <1> QED BY <1>3, <1>4, <1>5

\* OnJoinByCode: aligned and joined, aligned until the resume, or rolled back.
LEMMA JoinByCodeStep ==
  ASSUME LobbyInv, NEW p \in Players, NEW c \in Campaigns, NEW m \in Mutations,
         OnJoinByCode(p, c, m)
  PROVE  LobbyStep
  <1> USE DEF LobbyInv
  <1> DEFINE s == Alignment(p, c)
             joined == JoinCampaign(p, c, m, campaigns[c].revision)
             home == s.joined[p]
             added == party.joined[p] = None
             pending == pendingResume[p]
             later == joined.result = "ExistingMembershipRequiresResume" /\
                      (pending = None \/ pending.party = home)
             directory == IF added THEN Allocate(lobbies, c, home) ELSE lobbies
             undo == RolledBack(party, s, p)
             kept == [party |-> home, added |-> added \/ (pending # None /\ pending.added)]
             record == [admission[p] EXCEPT !.admitted = joined.identity]
             done == Succeeded(joined.result)
  <1>1. /\ p \in online /\ lobbies[c] # None /\ Aligned(s, p, c)
        /\ party' = IF done \/ later THEN s ELSE undo
        /\ pendingResume' = IF ~later THEN pendingResume ELSE [pendingResume EXCEPT ![p] = kept]
        /\ done => /\ campaigns' = [campaigns EXCEPT ![c] = joined.campaign]
                   /\ lobbies' = BroadcastLobbyState(directory, c, joined.campaign)
        /\ ~done => /\ lobbies' = LiveLobbies(directory, party')
                    /\ campaigns' = campaigns /\ admission' = admission
        /\ online' = online /\ invitations' = invitations
    BY DEF OnJoinByCode, Join
  <1>2. done => admission' = [admission EXCEPT ![p].admitted = joined.identity]
    BY DEF OnJoinByCode, Join
  <1>3. campaigns[c] # None /\ Recorded(campaigns[c]) /\ campaigns[c].revision \in Nat
    <2>1. campaigns[c] # None
      BY <1>1 DEF Codes, Open
    <2> QED BY <2>1, CampaignFields DEF Stored, Recorded
  <1>4. /\ joined.identity \in Identity
        /\ done => Follows(campaigns[c], joined.campaign)
    BY <1>3, JoinFollows
  <1>5. done => ~later
    BY DEF Succeeded
  <1>6. /\ Grouped(s, online) /\ s.joined[p] \in PartyIds
        /\ party.joined[p] # None => s.joined[p] = party.joined[p]
        /\ \A q \in Players \ {p} : s.joined[q] = party.joined[q]
    BY <1>1, AlignmentGroups
  <1>7. Grouped(undo, online) /\ undo.joined = party.joined
    <2> HIDE DEF s
    <2> QED BY <1>1, <1>6, RolledBackGroups
  <1>8. kept \in Pending /\ kept # None
    <2> DEFINE flag == added \/ (pending # None /\ pending.added)
    <2>1. flag \in BOOLEAN
      OBVIOUS
    <2>2. kept = [party |-> home, added |-> flag]
      OBVIOUS
    <2> HIDE DEF flag, kept, s
    <2>3. kept \in Pending
      BY <1>6, <2>1, <2>2 DEF Pending
    <2> QED BY <2>3, NoRecord
  <1>9. record \in Connection /\ record.admitted # None
    <2>1. admission[p] \in Connection
      BY DEF Shapes
    <2> HIDE DEF joined
    <2> QED BY <1>4, <2>1, NoRecord DEF Connection
  <1>10. /\ directory \in [Campaigns -> PartyRef]
         /\ \A x \in Campaigns : directory[x] # None => Open(campaigns, x)
    <2>1. home \in PartyRef
      BY <1>6 DEF PartyRef
    <2> HIDE DEF home
    <2>2. /\ directory \in [Campaigns -> PartyRef]
          /\ \A x \in Campaigns \ {c} : directory[x] = lobbies[x]
      BY <2>1 DEF Allocate, Shapes
    <2> QED BY <1>1, <2>2 DEF Codes
  <1> HIDE DEF s, undo, kept, later, directory, done, added, pending, home
  <1>11. Grouped(party', online')
    BY <1>1, <1>6, <1>7
  <1>12. /\ pendingResume' \in [Players -> Pending \cup {None}]
         /\ \A q \in Players \ {p} : pendingResume'[q] = pendingResume[q]
         /\ later => pendingResume'[p] # None
    BY <1>1, <1>8 DEF Shapes
  <1>13. done => admission' = [admission EXCEPT ![p] = record]
    BY <1>2 DEF Shapes, Connection
  <1> HIDE DEF record, joined
  <1>14. AlignStep
    <2>1. CASE done \/ later
      <3>1. party' = s /\ s.joined[p] # None
        BY <1>1, <1>6, <2>1, NoParty DEF PartyIds
      <3>2. done => admission'[p].admitted # None
        BY <1>9, <1>13 DEF Shapes
      <3> QED BY <1>1, <1>6, <1>12, <2>1, <3>1, <3>2, AlignedAlone
    <2>2. CASE ~(done \/ later)
      <3>1. party'.joined = party.joined
        BY <1>1, <1>7, <2>2
      <3> QED BY <3>1 DEF AlignStep
    <2> QED BY <2>1, <2>2
  <1>15. CASE done
    <2> DEFINE new == joined.campaign
    <2>1. /\ campaigns' = [campaigns EXCEPT ![c] = new]
          /\ lobbies' = BroadcastLobbyState(directory, c, new)
          /\ admission' = [admission EXCEPT ![p] = record]
      BY <1>1, <1>13, <1>15
    <2>2. Follows(campaigns[c], new)
      BY <1>4, <1>15
    <2> HIDE DEF new
    <2>3. /\ online' = online /\ invitations' = invitations /\ p \in online
          /\ \A x \in Campaigns \ {c} : directory[x] # None => Open(campaigns, x)
      BY <1>1, <1>10
    <2>4. LobbyInv' /\ SealStep
      BY <1>3, <1>9, <1>10, <1>11, <1>12, <2>1, <2>2, <2>3, CommandStep
    <2> QED BY <1>14, <2>4 DEF LobbyStep
  <1>16. CASE ~done
    <2>1. campaigns' = campaigns /\ admission' = admission
          /\ lobbies' = LiveLobbies(directory, party')
      BY <1>1, <1>16
    <2>2. SealStep /\ Stored(campaigns)'
      BY <2>1, SameCampaigns
    <2>3. /\ lobbies' \in [Campaigns -> PartyRef]
          /\ \A x \in Campaigns : lobbies'[x] = None <=> directory[x] = None
      BY <1>10, <2>1, LiveLobbiesShape
    <2>4. Codes(lobbies, campaigns)'
      BY <1>10, <2>1, <2>3 DEF Codes, Open
    <2>5. Shapes'
      BY <1>1, <1>12, <2>1, <2>3 DEF Shapes
    <2> QED BY <1>11, <1>14, <2>2, <2>4, <2>5 DEF LobbyStep
  <1> QED BY <1>15, <1>16

-----------------------------------------------------------------------------
(* The theorems.                                                            *)

\* Nothing is there yet.
LEMMA LobbyInit ==
  ASSUME Init
  PROVE  LobbyInv
  <1>1. /\ online = {} /\ party = NoParties /\ invitations = {}
        /\ campaigns = [c \in Campaigns |-> None]
        /\ admission = [p \in Players |-> NoAdmission]
        /\ lobbies = [c \in Campaigns |-> None]
        /\ pendingResume = [p \in Players |-> None]
    BY DEF Init
  <1>2. Grouped(party, online)
    BY <1>1, NoPartiesGrouped
  <1>3. Shapes
    BY <1>1 DEF Shapes, Connection, NoAdmission, PartyRef
  <1>4. Stored(campaigns) /\ Codes(lobbies, campaigns)
    BY <1>1 DEF Stored, Codes
  <1> QED BY <1>2, <1>3, <1>4 DEF LobbyInv

\* One step.
LEMMA LobbyNext ==
  ASSUME LobbyInv, [Next]_vars
  PROVE  LobbyInv' /\ SealStep /\ (~PartyMenuStep => AlignStep)
  <1>1. CASE vars' = vars
    <2>1. /\ online' = online /\ party' = party /\ invitations' = invitations
          /\ campaigns' = campaigns /\ admission' = admission /\ lobbies' = lobbies
          /\ pendingResume' = pendingResume
      BY <1>1 DEF vars
    <2>2. LobbyInv'
      BY <2>1 DEF LobbyInv, Shapes, Stored, Codes, Open
    <2>3. SealStep
      BY <2>1, SameCampaigns DEF LobbyInv
    <2>4. AlignStep
      BY <2>1 DEF AlignStep
    <2> QED BY <2>2, <2>3, <2>4
  <1>2. \A c \in Campaigns : Revisions(c) \subseteq Nat /\ (Revisions(c) # {} => campaigns[c] # None)
    BY DEF Revisions
  <1>3. CASE \E p \in Players : Connect(p) \/ Disconnect(p)
    BY <1>3, ConnectStep, DisconnectStep DEF LobbyStep
  <1>4. CASE \E p \in Players, m \in Mutations : OnCreate(p, m)
    BY <1>4, CreateStep DEF LobbyStep
  <1>5. ASSUME NEW p \in Players, NEW c \in Campaigns, NEW m \in Mutations,
               \/ OnJoinByCode(p, c, m)
               \/ \E r \in Revisions(c) :
                    \/ OnJoin(p, c, m, r) \/ OnStart(p, c, m, r) \/ OnLeave(p, c, m, r)
                    \/ \E flag \in BOOLEAN : OnSetReady(p, c, m, r, flag)
        PROVE  LobbyStep
    <2>1. CASE OnJoinByCode(p, c, m)
      BY <2>1, JoinByCodeStep
    <2>2. ASSUME NEW r \in Revisions(c),
                 \/ OnJoin(p, c, m, r) \/ OnStart(p, c, m, r) \/ OnLeave(p, c, m, r)
                 \/ \E flag \in BOOLEAN : OnSetReady(p, c, m, r, flag)
          PROVE  LobbyStep
      <3>1. r \in Nat /\ campaigns[c] # None
        BY <1>2
      <3>2. CASE OnJoin(p, c, m, r)
        BY <3>1, <3>2, JoinStep
      <3>3. CASE OnStart(p, c, m, r)
        BY <3>1, <3>3, StartStep
      <3>4. CASE OnLeave(p, c, m, r)
        BY <3>1, <3>4, LeaveStep
      <3>5. CASE \E flag \in BOOLEAN : OnSetReady(p, c, m, r, flag)
        BY <3>1, <3>5, SetReadyStep
      <3> QED BY <2>2, <3>2, <3>3, <3>4, <3>5
    <2> QED BY <1>5, <2>1, <2>2
  <1>6. CASE \E p \in Players, c \in Campaigns : \E b \in Bindings(c) : OnResume(p, c, b)
    BY <1>6, ResumeStep DEF LobbyStep
  <1>7. CASE PartyMenuStep
    BY <1>7, MenuStep
  <1>8. CASE Restart
    BY <1>8, RestartStep DEF LobbyStep
  <1> QED BY <1>1, <1>3, <1>4, <1>5, <1>6, <1>7, <1>8 DEF Next, LobbyStep

\* The invariant holds throughout.
THEOREM LobbyInvariance == Spec => []LobbyInv
  <1>1. Init => LobbyInv
    BY LobbyInit
  <1>2. LobbyInv /\ [Next]_vars => LobbyInv'
    BY LobbyNext
  <1> QED BY <1>1, <1>2, PTL DEF Spec

\* Every variable keeps its shape, and an offline player has no admission
\* record and no alignment waiting.
THEOREM LobbyTypes == Spec => []TypeOK
  <1>1. LobbyInv => TypeOK
    <2> SUFFICES ASSUME LobbyInv PROVE TypeOK
      OBVIOUS
    <2> USE DEF LobbyInv
    <2>1. /\ party \in Table /\ online \subseteq Players
          /\ invitations \subseteq Players \X Players
          /\ lobbies \in [Campaigns -> PartyIds \cup {None, Dissolved}]
      BY DEF Grouped, Shapes, PartyRef
    <2>2. DOMAIN party = {"parties", "joined"}
      BY <2>1 DEF Table
    <2>3. \A x \in Party : DOMAIN x = DOMAIN [members |-> 0, leader |-> 0, managed |-> 0]
      BY DEF Party
    <2>4. \A i \in PartyIds : party.parties[i] \in Party \cup {None}
      BY <2>1 DEF Table
    <2>5. \A x \in Campaign :
            /\ DOMAIN x = {"revision", "sealed", "manager", "ready", "roster", "journal"}
            /\ x.roster \in [Slots -> Entry \cup {None}]
      BY DEF Campaign
    <2>6. \A c \in Campaigns : campaigns[c] \in Campaign \cup {None}
      BY DEF Stored
    <2>7. \A p \in Players :
            /\ {admission[p].admitted, admission[p].previous} \subseteq Identity \cup {None}
            /\ p \notin online => admission[p] = NoAdmission /\ pendingResume[p] = None
      BY DEF Shapes, Connection
    <2> QED BY <2>1, <2>2, <2>3, <2>4, <2>5, <2>6, <2>7 DEF TypeOK
  <1> QED BY <1>1, LobbyInvariance, PTL

\* Every JoinedPartyId names a party that lists the player once, however
\* parties are made, led, joined, left, rolled back and dissolved.
THEOREM Parties == Spec => []PartyIndexIsExact
  <1>1. LobbyInv => PartyIndexIsExact
    <2> SUFFICES ASSUME LobbyInv PROVE PartyIndexIsExact
      OBVIOUS
    <2>1. Grouped(party, online)
      BY DEF LobbyInv
    <2>2. ASSUME NEW i \in Existing(party)
          PROVE  Cardinality(Members(party, i)) = Len(party.parties[i].members)
      <3> DEFINE list == party.parties[i].members
      <3>1. list \in Seq(Players) /\ Distinct(list) /\ Members(party, i) = ToSet(list)
        BY <2>1, MembersArePlayers DEF Grouped, Members
      <3> HIDE DEF list
      <3>2. list \in Surjection(1..Len(list), ToSet(list)) /\ Len(list) \in Nat
        BY <3>1 DEF Surjection, ToSet
      <3>3. list \in Injection(1..Len(list), ToSet(list))
        BY <3>1, <3>2 DEF Injection, IsInjective, Surjection, Distinct
      <3>4. IsFiniteSet(1..Len(list)) /\ Cardinality(1..Len(list)) = Len(list)
        BY <3>2, FS_Interval
      <3>5. Cardinality(ToSet(list)) = Len(list)
        BY <3>2, <3>3, <3>4, FS_Surjection
      <3> QED BY <3>1, <3>5 DEF list
    <2> QED BY <2>1, <2>2 DEF PartyIndexIsExact, Grouped
  <1> QED BY <1>1, LobbyInvariance, PTL

\* The roster is what the journal says, however often commands are repeated,
\* and at whatever revision.
THEOREM Journals == Spec => []RosterFollowsJournal
  <1>1. LobbyInv => RosterFollowsJournal
    <2> SUFFICES ASSUME LobbyInv, NEW c \in Campaigns, campaigns[c] # None
                 PROVE  LET camp == campaigns[c] IN
                        /\ {<<s, camp.roster[s].player, camp.roster[s].binding>> : s \in Taken(camp)}
                             = {<<a.slot, a.player, a.binding>> : a \in Standing(camp)}
                        /\ \A p \in Players : Cardinality(SlotOf(camp, p)) <= 1
                        /\ \A r, s \in camp.journal : r.id = s.id => r = s
                        /\ \A v \in 0..(camp.revision - 1) : \E r \in camp.journal : r.expected = v
      BY DEF RosterFollowsJournal, Standing, Adds, Removes
    <2> DEFINE camp == campaigns[c]
    <2>1. Historic(camp) /\ Rostered(camp)
      BY DEF LobbyInv, Stored, Recorded
    <2> HIDE DEF camp
    <2>2. \A a \in Standing(camp) : /\ a.slot \in Taken(camp)
                                    /\ camp.roster[a.slot].player = a.player
                                    /\ camp.roster[a.slot].binding = a.binding
      <3> TAKE a \in Standing(camp)
      <3>1. /\ a.slot \in Taken(camp)
            /\ camp.roster[a.slot] = [player |-> a.player, binding |-> a.binding]
        BY <2>1 DEF Rostered
      <3> QED BY <3>1
    <2>3. {<<s, camp.roster[s].player, camp.roster[s].binding>> : s \in Taken(camp)}
            = {<<a.slot, a.player, a.binding>> : a \in Standing(camp)}
      BY <2>1, <2>2 DEF Rostered
    <2>4. ASSUME NEW p \in Players
          PROVE  Cardinality(SlotOf(camp, p)) <= 1
      <3>1. CASE SlotOf(camp, p) = {}
        BY <3>1, FS_EmptySet
      <3>2. CASE SlotOf(camp, p) # {}
        <4>1. PICK s \in SlotOf(camp, p) : TRUE
          BY <3>2
        <4>2. SlotOf(camp, p) = {s}
          BY <2>1, <4>1 DEF Rostered, SlotOf
        <4>3. Cardinality({s}) = 1
          BY FS_Singleton
        <4> QED BY <4>2, <4>3
      <3> QED BY <3>1, <3>2
    <2> QED BY <2>1, <2>3, <2>4 DEF Historic, camp
  <1> QED BY <1>1, LobbyInvariance, PTL

\* No code of a sealed or abandoned campaign resolves.
THEOREM LiveCodes == Spec => []CodesExpire
  <1>1. LobbyInv => CodesExpire
    BY DEF LobbyInv, Codes, Open, CodesExpire
  <1> QED BY <1>1, LobbyInvariance, PTL

\* A roster is sealed only as the party that stands there, and stays.
THEOREM SealsTogether == Spec => SealedTogether
  <1>1. LobbyInv /\ [Next]_vars => SealStep
    BY LobbyNext
  <1> QED BY <1>1, LobbyInvariance, PTL DEF Spec, SealedTogether, SealStep

\* A failed admission leaves no trace in the parties.
THEOREM AlignsTogether == Spec => AlignmentFollowsAdmission
  <1>1. LobbyInv /\ [Next]_vars => (~PartyMenuStep => AlignStep)
    BY LobbyNext
  <1> QED BY <1>1, LobbyInvariance, PTL DEF Spec, AlignmentFollowsAdmission, AlignStep
==============================================================================
