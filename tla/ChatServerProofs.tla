--------------------------- MODULE ChatServerProofs ---------------------------
(***************************************************************************)
(* ChatServer: its maps and sector vectors never lead to a player that was *)
(* given back, every player is where its sectorIndex says, jobs come in    *)
(* the order of a session's life, none is forgotten, and what the contents *)
(* thread makes of them is the room of ChatRoom: proofs, for any number of *)
(* sessions, players, accounts and sectors.                                *)
(***************************************************************************)
EXTENDS ChatServer, FiniteSetTheorems, TLAPS

----------------------------------------------------------------------------
(***************************************************************************)
(* The inductive invariant.                                                *)
(***************************************************************************)

MapType ==
  /\ player \in [Players -> Player]
  /\ sessionMap \in [Sessions -> Players \cup {NoPlayer}]
  /\ accountMap \in [Accounts -> Players \cup {NoPlayer}]
  /\ sectors \in [Sectors -> Seq(Players)]

QueueType == opened \subseteq Sessions /\ jobs \in Seq(Job)

\* The first job of a session is queued at most once, before it has a player.
AcceptsOnce ==
  /\ \A s \in Sessions \ opened : sessionMap[s] = NoPlayer
  /\ \A i \in 1 .. Len(jobs) : jobs[i].session \in opened
  /\ \A i \in 1 .. Len(jobs) : jobs[i].type = "ACCEPT" =>
       /\ sessionMap[jobs[i].session] = NoPlayer
       /\ \A j \in 1 .. Len(jobs) :
            jobs[j].type = "ACCEPT" /\ jobs[j].session = jobs[i].session => i = j

MapsInv  == MapType /\ NoDangling /\ SectorsExact
QueueInv == QueueType /\ AcceptsOnce
ChatInv  == MapsInv /\ QueueInv

\* What a step leaves alone that moves no player and changes no map.
Keeps(pl) ==
  \A p \in Players :
    /\ pl[p].sessionId = player[p].sessionId /\ pl[p].accountNo = player[p].accountNo
    /\ pl[p].sector = player[p].sector /\ pl[p].sectorIndex = player[p].sectorIndex
    /\ pl[p].isLogin = player[p].isLogin

SameMaps == UNCHANGED <<sessionMap, accountMap, sectors>>

----------------------------------------------------------------------------
(***************************************************************************)
(* Lemmas.                                                                 *)
(***************************************************************************)

\* The session of a live player.
LEMMA LiveSession ==
  ASSUME NEW p, p \in Live
  PROVE  p # NoPlayer /\ \E s \in Sessions : sessionMap[s] = p
BY DEF Live

\* Live players are Player objects.
LEMMA LivePlayers ==
  ASSUME MapType
  PROVE  Live \subseteq Players
BY DEF Live, MapType

\* A vector whose last element took the place of another one.
LEMMA SwapOut ==
  ASSUME NEW S, NEW v \in Seq(S), NEW i \in Nat, i < Len(v)
  PROVE  LET w == Front([v EXCEPT ![i + 1] = Last(v)])
         IN  /\ w \in Seq(S)
             /\ Len(w) = Len(v) - 1
             /\ \A j \in 1 .. Len(w) : w[j] = IF j = i + 1 THEN v[Len(v)] ELSE v[j]
<1> DEFINE u == [v EXCEPT ![i + 1] = v[Len(v)]]
           w == Front(u)
           n == Len(v) - 1
<1>1. n \in Nat /\ Len(v) = n + 1 /\ v \in [1 .. n + 1 -> S]
  OBVIOUS
<1>2. u \in [1 .. n + 1 -> S]
  BY <1>1
<1>3. u \in Seq(S) /\ Len(u) = n + 1
  BY <1>1, <1>2
<1>4. w = [j \in 1 .. n |-> u[j]]
  <2> HIDE DEF u, n
  <2>1. w = SubSeq(u, 1, n)
    BY <1>1, <1>3 DEF Front
  <2> QED
    BY <1>1, <1>3, <2>1
<1>5. w \in [1 .. n -> S]
  <2> HIDE DEF u, n
  <2> QED
    BY <1>1, <1>2, <1>4
<1>6. w \in Seq(S) /\ Len(w) = n
  <2> HIDE DEF u, n, w
  <2> QED
    BY <1>1, <1>5
<1>7. \A j \in 1 .. n : w[j] = IF j = i + 1 THEN v[Len(v)] ELSE v[j]
  BY <1>1, <1>4
<1> QED
  BY <1>6, <1>7 DEF Last

\* The invariant of the maps does not look at the other fields of a player.
LEMMA QuietMaps ==
  ASSUME MapsInv, SameMaps, player' \in [Players -> Player], Keeps(player')
  PROVE  MapsInv'
<1>1. Live' = Live
  BY DEF Live, SameMaps
<1>2. Live \subseteq Players
  BY LivePlayers DEF MapsInv
<1>3. MapType'
  BY DEF MapsInv, MapType, SameMaps
<1>4. NoDangling'
  BY <1>1, <1>2 DEF MapsInv, MapType, NoDangling, SameMaps, Keeps
<1>5. SectorsExact'
  <2>1. ASSUME NEW p \in Live, player'[p].sector # NoSector
        PROVE  /\ player'[p].sectorIndex < Len(sectors[player'[p].sector])
               /\ sectors[player'[p].sector][player'[p].sectorIndex + 1] = p
    BY <1>2, <2>1 DEF MapsInv, SectorsExact, Keeps
  <2>2. ASSUME NEW c \in Sectors, NEW i \in 1 .. Len(sectors[c])
        PROVE  /\ sectors[c][i] \in Live
               /\ player'[sectors[c][i]].sector = c
               /\ player'[sectors[c][i]].sectorIndex = i - 1
    BY <1>2, <2>2 DEF MapsInv, SectorsExact, Keeps
  <2> QED
    BY <1>1, <2>1, <2>2 DEF SectorsExact, SameMaps
<1> QED
  BY <1>3, <1>4, <1>5 DEF MapsInv

\* A job other than the first one of a session is queued.
LEMMA QueueMore ==
  ASSUME QueueInv, NEW j \in Job, j.type # "ACCEPT", j.session \in opened,
         jobs' = Append(jobs, j), UNCHANGED <<opened, sessionMap>>
  PROVE  QueueInv'
<1>1. QueueType'
  BY DEF QueueInv, QueueType
<1>2. Len(jobs') = Len(jobs) + 1 /\ \A i \in 1 .. Len(jobs') :
        jobs'[i] = IF i = Len(jobs) + 1 THEN j ELSE jobs[i]
  BY DEF QueueInv, QueueType
<1>3. AcceptsOnce'
  BY <1>2 DEF QueueInv, QueueType, AcceptsOnce
<1> QED
  BY <1>1, <1>3 DEF QueueInv

\* The first job of a session is queued.
LEMMA QueueFirst ==
  ASSUME QueueInv, NEW s \in Sessions, s \notin opened,
         NEW j \in Job, j.type = "ACCEPT", j.session = s,
         jobs' = Append(jobs, j), opened' = opened \cup {s}, UNCHANGED sessionMap
  PROVE  QueueInv'
<1>1. QueueType'
  BY DEF QueueInv, QueueType
<1>2. Len(jobs') = Len(jobs) + 1 /\ \A i \in 1 .. Len(jobs') :
        jobs'[i] = IF i = Len(jobs) + 1 THEN j ELSE jobs[i]
  BY DEF QueueInv, QueueType
<1>3. \A i \in 1 .. Len(jobs) : jobs[i].session # s
  BY DEF QueueInv, AcceptsOnce
<1>4. sessionMap[s] = NoPlayer
  BY DEF QueueInv, AcceptsOnce
<1>5. \A i \in 1 .. Len(jobs) : i \in 1 .. Len(jobs') /\ jobs'[i] = jobs[i]
  BY <1>2 DEF QueueInv, QueueType
<1>6. \A i \in 1 .. Len(jobs') : jobs'[i].session \in opened'
  BY <1>2 DEF QueueInv, QueueType, AcceptsOnce
<1>7. ASSUME NEW i \in 1 .. Len(jobs'), jobs'[i].type = "ACCEPT"
      PROVE  /\ sessionMap[jobs'[i].session] = NoPlayer
             /\ \A k \in 1 .. Len(jobs') :
                  jobs'[k].type = "ACCEPT" /\ jobs'[k].session = jobs'[i].session => i = k
  BY <1>2, <1>3, <1>4, <1>7 DEF QueueInv, QueueType, AcceptsOnce
<1>8. AcceptsOnce'
  BY <1>6, <1>7 DEF QueueInv, AcceptsOnce
<1> QED
  BY <1>1, <1>8 DEF QueueInv

\* A job is taken out, and a session other than those waiting for their player
\* may get one.
LEMMA QueueLess ==
  ASSUME QueueInv, jobs # <<>>, jobs' = Tail(jobs), UNCHANGED opened,
         \A s \in Sessions : \/ sessionMap'[s] = sessionMap[s]
                             \/ sessionMap'[s] = NoPlayer
                             \/ Head(jobs).type = "ACCEPT" /\ s = Head(jobs).session
  PROVE  QueueInv'
<1>1. QueueType'
  BY DEF QueueInv, QueueType
<1>2. Len(jobs') = Len(jobs) - 1 /\ \A i \in 1 .. Len(jobs') :
        i + 1 \in 1 .. Len(jobs) /\ jobs'[i] = jobs[i + 1]
  BY DEF QueueInv, QueueType
<1>3. 1 \in 1 .. Len(jobs) /\ Head(jobs) = jobs[1]
  BY DEF QueueInv, QueueType
<1>4. Head(jobs).session \in opened
  BY <1>3 DEF QueueInv, AcceptsOnce
<1>5. \A i \in 1 .. Len(jobs') : jobs'[i].session \in opened'
  BY <1>2 DEF QueueInv, AcceptsOnce
<1>6. ASSUME NEW i \in 1 .. Len(jobs'), jobs'[i].type = "ACCEPT"
      PROVE  /\ sessionMap'[jobs'[i].session] = NoPlayer
             /\ \A k \in 1 .. Len(jobs') :
                  jobs'[k].type = "ACCEPT" /\ jobs'[k].session = jobs'[i].session => i = k
  <2>1. /\ i + 1 \in 1 .. Len(jobs) /\ jobs'[i] = jobs[i + 1]
        /\ sessionMap[jobs'[i].session] = NoPlayer
    BY <1>2, <1>6 DEF QueueInv, AcceptsOnce
  <2>2. ~(Head(jobs).type = "ACCEPT" /\ jobs'[i].session = Head(jobs).session)
    BY <1>3, <1>6, <2>1 DEF QueueInv, AcceptsOnce
  <2>3. jobs'[i].session \in Sessions
    BY <1>5 DEF QueueInv, QueueType
  <2>4. sessionMap'[jobs'[i].session] = NoPlayer
    BY <2>1, <2>2, <2>3
  <2>5. ASSUME NEW k \in 1 .. Len(jobs'),
               jobs'[k].type = "ACCEPT", jobs'[k].session = jobs'[i].session
        PROVE  i = k
    <3>1. k + 1 \in 1 .. Len(jobs) /\ jobs'[k] = jobs[k + 1]
      BY <1>2
    <3>2. i + 1 = k + 1
      BY <1>6, <2>1, <2>5, <3>1 DEF QueueInv, AcceptsOnce
    <3> QED
      BY <3>2
  <2> QED
    BY <2>4, <2>5
<1>7. \A s \in Sessions \ opened' : sessionMap'[s] = NoPlayer
  BY <1>4 DEF QueueInv, AcceptsOnce
<1>8. AcceptsOnce'
  BY <1>5, <1>6, <1>7 DEF AcceptsOnce
<1> QED
  BY <1>1, <1>8 DEF QueueInv

\* The sector vectors hold every live player but p, and each at its index.
PlacedBut(pl, se, p) ==
  /\ \A q \in Live \ {p} : pl[q].sector # NoSector =>
       /\ pl[q].sectorIndex < Len(se[pl[q].sector])
       /\ se[pl[q].sector][pl[q].sectorIndex + 1] = q
  /\ \A c \in Sectors : \A i \in 1 .. Len(se[c]) :
       /\ se[c][i] \in Live \ {p}
       /\ pl[se[c][i]].sector = c /\ pl[se[c][i]].sectorIndex = i - 1

\* All that differs between two assignments of players is their indices.
IndexOnly(pl) ==
  \A q \in Players :
    /\ pl[q].sessionId = player[q].sessionId /\ pl[q].accountNo = player[q].accountNo
    /\ pl[q].sector = player[q].sector /\ pl[q].isLogin = player[q].isLogin

\* A player that is in no sector is in no vector.
LEMMA NoPlace ==
  ASSUME MapsInv, NEW p, player[p].sector = NoSector
  PROVE  PlacedBut(player, sectors, p)
<1>1. NoSector \notin Sectors
  BY ChatAssumption
<1> QED
  BY <1>1 DEF MapsInv, SectorsExact, PlacedBut

\* A player is taken out of its vector, and the last one takes its place.
LEMMA LeaveSector ==
  ASSUME MapsInv, NEW p \in Live, player[p].sector # NoSector
  PROVE  /\ PlayersWithout(p) \in [Players -> Player]
         /\ SectorsWithout(p) \in [Sectors -> Seq(Players)]
         /\ IndexOnly(PlayersWithout(p))
         /\ PlacedBut(PlayersWithout(p), SectorsWithout(p), p)
<1> DEFINE c0 == player[p].sector
           i0 == player[p].sectorIndex
           v  == sectors[c0]
           w  == Front([v EXCEPT ![i0 + 1] = Last(v)])
           pl == PlayersWithout(p)
           se == SectorsWithout(p)
<1>1. /\ player \in [Players -> Player] /\ sectors \in [Sectors -> Seq(Players)]
      /\ Live \subseteq Players
  BY LivePlayers DEF MapsInv, MapType
<1>2. c0 \in Sectors /\ i0 \in Nat /\ v \in Seq(Players)
  BY <1>1 DEF Player
<1>3. i0 < Len(v) /\ v[i0 + 1] = p
  BY DEF MapsInv, SectorsExact
<1>4. /\ w \in Seq(Players)
      /\ Len(w) = Len(v) - 1
      /\ \A j \in 1 .. Len(w) : w[j] = IF j = i0 + 1 THEN v[Len(v)] ELSE v[j]
  BY <1>2, <1>3, SwapOut
<1>5. se = [sectors EXCEPT ![c0] = w]
  BY DEF SectorsWithout, Moved
<1>6. Moved(p) = v[Len(v)] /\ Len(v) \in Nat /\ Len(v) >= 1
  BY <1>2, <1>3 DEF Moved, Last
<1>7. /\ Moved(p) \in Live
      /\ player[Moved(p)].sector = c0 /\ player[Moved(p)].sectorIndex = Len(v) - 1
  BY <1>2, <1>6 DEF MapsInv, SectorsExact
<1> HIDE DEF w
<1>8. pl = [player EXCEPT ![Moved(p)].sectorIndex = i0]
  BY DEF PlayersWithout
<1>9. pl \in [Players -> Player] /\ IndexOnly(pl)
  <2> DEFINE r == [player[Moved(p)] EXCEPT !.sectorIndex = i0]
  <2> HIDE DEF pl, i0
  <2>1. player[Moved(p)] \in Player /\ i0 \in Nat
    BY <1>1, <1>2, <1>7
  <2>2. /\ r \in Player /\ r.sessionId = player[Moved(p)].sessionId
        /\ r.accountNo = player[Moved(p)].accountNo
        /\ r.sector = player[Moved(p)].sector /\ r.isLogin = player[Moved(p)].isLogin
    BY <2>1 DEF Player
  <2>3. pl = [player EXCEPT ![Moved(p)] = r]
    BY <1>1, <1>8
  <2> HIDE DEF r
  <2>4. pl \in [Players -> Player]
    BY <1>1, <2>2, <2>3
  <2>5. IndexOnly(pl)
    BY <1>1, <2>2, <2>3 DEF IndexOnly
  <2> QED
    BY <2>4, <2>5
<1>10. se \in [Sectors -> Seq(Players)]
  BY <1>1, <1>4, <1>5
<1>11. \A q \in Live : pl[q].sectorIndex = IF q = Moved(p) THEN i0 ELSE player[q].sectorIndex
  BY <1>1, <1>7, <1>8 DEF Player
<1>12. \A q \in Live : player[q].sectorIndex \in Nat /\ player[q].sector \in Sectors \cup {NoSector}
  BY <1>1 DEF Player
<1>13. \A q \in Live : pl[q].sector = player[q].sector
  BY <1>1, <1>9 DEF IndexOnly
<1> HIDE DEF pl, se, v, c0, i0
<1>14. ASSUME NEW q \in Live \ {p}, pl[q].sector # NoSector
       PROVE  /\ pl[q].sectorIndex < Len(se[pl[q].sector])
              /\ se[pl[q].sector][pl[q].sectorIndex + 1] = q
  <2>1. /\ player[q].sectorIndex < Len(sectors[player[q].sector])
        /\ sectors[player[q].sector][player[q].sectorIndex + 1] = q
        /\ player[q].sector \in Sectors /\ player[q].sectorIndex \in Nat
    BY <1>12, <1>13, <1>14 DEF MapsInv, SectorsExact
  <2>2. CASE player[q].sector # c0
    <3>1. q # Moved(p)
      BY <1>7, <2>2
    <3> QED
      BY <1>1, <1>5, <1>11, <1>13, <2>1, <2>2, <3>1
  <2>3. CASE player[q].sector = c0
    <3>1. se[c0] = w
      BY <1>1, <1>2, <1>5
    <3>2. player[q].sectorIndex < Len(v) /\ v[player[q].sectorIndex + 1] = q
      BY <2>1, <2>3 DEF v
    <3>3. player[q].sectorIndex # i0
      BY <1>3, <1>14, <3>2
    <3>4. CASE q = Moved(p)
      <4>1. i0 < Len(w)
        BY <1>2, <1>3, <1>4, <1>6, <1>7, <3>3, <3>4
      <4>2. w[i0 + 1] = q
        BY <1>2, <1>4, <1>6, <3>4, <4>1
      <4> QED
        BY <1>11, <1>13, <2>3, <3>1, <3>4, <4>1, <4>2
    <3>5. CASE q # Moved(p)
      <4>1. player[q].sectorIndex # Len(v) - 1
        BY <1>2, <1>6, <2>1, <3>2, <3>5
      <4>2. player[q].sectorIndex < Len(w)
        BY <1>4, <1>6, <2>1, <3>2, <4>1
      <4>3. w[player[q].sectorIndex + 1] = q
        <5> DEFINE k == player[q].sectorIndex + 1
        <5>1. k \in 1 .. Len(w) /\ k # i0 + 1
          BY <1>2, <1>4, <1>6, <2>1, <3>3, <4>2
        <5> HIDE DEF k
        <5>2. w[k] = v[k]
          BY <1>4, <5>1
        <5> QED
          BY <3>2, <5>2 DEF k
      <4> QED
        BY <1>11, <1>13, <2>3, <3>1, <3>5, <4>2, <4>3
    <3> QED
      BY <3>4, <3>5
  <2> QED
    BY <2>2, <2>3
<1>15. ASSUME NEW c \in Sectors, NEW i \in 1 .. Len(se[c])
       PROVE  /\ se[c][i] \in Live \ {p}
              /\ pl[se[c][i]].sector = c /\ pl[se[c][i]].sectorIndex = i - 1
  <2>1. CASE c # c0
    <3>1. se[c] = sectors[c]
      BY <1>1, <1>5, <2>1
    <3>2. /\ sectors[c][i] \in Live /\ player[sectors[c][i]].sector = c
          /\ player[sectors[c][i]].sectorIndex = i - 1
      BY <1>15, <3>1 DEF MapsInv, SectorsExact
    <3>3. sectors[c][i] # p /\ sectors[c][i] # Moved(p)
      BY <1>7, <2>1, <3>2 DEF c0
    <3> QED
      BY <1>11, <1>13, <3>1, <3>2, <3>3
  <2>2. CASE c = c0
    <3>1. se[c] = w /\ i \in 1 .. Len(w) /\ i \in 1 .. Len(v)
      BY <1>1, <1>2, <1>4, <1>5, <1>6, <1>15, <2>2
    <3>2. /\ v[i] \in Live /\ player[v[i]].sector = c
          /\ player[v[i]].sectorIndex = i - 1
      BY <2>2, <3>1 DEF MapsInv, SectorsExact, v
    <3>3. CASE i = i0 + 1
      <4>1. w[i] = Moved(p)
        BY <1>4, <1>6, <3>1, <3>3
      <4>2. Moved(p) # p
        BY <1>2, <1>4, <1>6, <1>7, <3>1, <3>3 DEF i0
      <4> QED
        BY <1>2, <1>7, <1>11, <1>13, <2>2, <3>1, <3>3, <4>1, <4>2
    <3>4. CASE i # i0 + 1
      <4>1. w[i] = v[i]
        BY <1>4, <3>1, <3>4
      <4>2. v[i] # p
        BY <1>2, <3>1, <3>2, <3>4 DEF i0
      <4>3. v[i] # Moved(p)
        BY <1>4, <1>6, <1>7, <3>1, <3>2
      <4> QED
        BY <1>11, <1>13, <2>2, <3>1, <3>2, <4>1, <4>2, <4>3
    <3> QED
      BY <3>3, <3>4
  <2> QED
    BY <2>1, <2>2
<1>16. PlacedBut(pl, se, p)
  BY <1>14, <1>15 DEF PlacedBut
<1> QED
  BY <1>9, <1>10, <1>16 DEF pl, se

\* What the contents thread takes is a job.
LEMMA HeadJob ==
  ASSUME QueueInv, jobs # <<>>
  PROVE  Head(jobs) \in Job
BY DEF QueueInv, QueueType

\* DisconnectPlayers marks players and touches nothing else of them.
LEMMA Marks ==
  ASSUME NEW pl \in [Players -> Player], NEW P, DisconnectPlayers(pl, P)
  PROVE  /\ player' \in [Players -> Player]
         /\ \A q \in Players :
              /\ player'[q].sessionId = pl[q].sessionId /\ player'[q].accountNo = pl[q].accountNo
              /\ player'[q].sector = pl[q].sector
              /\ player'[q].sectorIndex = pl[q].sectorIndex
              /\ player'[q].isLogin = pl[q].isLogin
         /\ UNCHANGED opened
<1> DEFINE Q == {q \in P : ~pl[q].isDisconnecting}
<1>1. player' = [q \in Players |-> [pl[q] EXCEPT !.isDisconnecting = @ \/ q \in Q]]
  BY DEF DisconnectPlayers
<1> HIDE DEF Q
<1>2. ASSUME NEW q \in Players
      PROVE  /\ player'[q] \in Player
             /\ player'[q].sessionId = pl[q].sessionId /\ player'[q].accountNo = pl[q].accountNo
             /\ player'[q].sector = pl[q].sector
             /\ player'[q].sectorIndex = pl[q].sectorIndex
             /\ player'[q].isLogin = pl[q].isLogin
  <2>1. player'[q] = [pl[q] EXCEPT !.isDisconnecting = @ \/ q \in Q]
    BY <1>1
  <2>2. pl[q].isDisconnecting \in BOOLEAN
    BY DEF Player
  <2>3. (pl[q].isDisconnecting \/ q \in Q) \in BOOLEAN
    BY <2>2, Zenon
  <2>4. PICK b \in BOOLEAN : player'[q] = [pl[q] EXCEPT !.isDisconnecting = b]
    BY <2>1, <2>3
  <2> QED
    BY <2>4 DEF Player
<1>3. player' \in [Players -> Player]
  BY <1>1, <1>2
<1> QED
  BY <1>2, <1>3 DEF DisconnectPlayers

\* Steps that change nothing the invariant of the maps looks at.
LEMMA Idle ==
  ASSUME MapsInv, SameMaps, UNCHANGED player
  PROVE  MapsInv'
BY QuietMaps DEF MapsInv, MapType, Keeps

\* Giving a player a session: nobody but it is concerned.
LEMMA AcceptMaps ==
  ASSUME MapsInv, QueueInv, ProcessAccept
  PROVE  MapsInv'
<1> DEFINE s == Head(jobs).session
<1>1. PICK p \in Players \ Live :
        /\ player' = [player EXCEPT ![p] = NewPlayer(s)]
        /\ sessionMap' = [sessionMap EXCEPT ![s] = p]
  BY DEF ProcessAccept
<1>2. /\ Head(jobs) = jobs[1] /\ 1 \in 1 .. Len(jobs) /\ jobs[1] \in Job
      /\ Head(jobs).type = "ACCEPT"
  BY DEF ProcessAccept, Take, QueueInv, QueueType
<1>3. s \in Sessions /\ sessionMap[s] = NoPlayer
  BY <1>2 DEF Job, QueueInv, AcceptsOnce
<1>4. UNCHANGED <<accountMap, sectors>>
  BY DEF ProcessAccept
<1> HIDE DEF s
<1>5. NewPlayer(s) \in Player /\ NewPlayer(s).sessionId = s /\ NewPlayer(s).sector = NoSector
  BY <1>3, ChatBounds DEF NewPlayer, Player
<1>6. MapType'
  BY <1>1, <1>3, <1>4, <1>5 DEF MapsInv, MapType
<1>7. Live' = Live \cup {p}
  BY <1>1, <1>3, ChatAssumption DEF Live, MapsInv, MapType
<1>8. Live \subseteq Players /\ p \notin Live
  BY <1>1, LivePlayers DEF MapsInv
<1>9. \A q \in Live : player'[q] = player[q]
  BY <1>1, <1>8 DEF MapsInv, MapType
<1>10. player'[p] = NewPlayer(s)
  BY <1>1 DEF MapsInv, MapType
<1>11. \A u \in Sessions : sessionMap'[u] = IF u = s THEN p ELSE sessionMap[u]
  BY <1>1, <1>3 DEF MapsInv, MapType
<1>12. \A u \in Sessions : sessionMap[u] # NoPlayer => sessionMap[u] \in Live
  BY DEF Live
<1>13. NoDangling'
  BY <1>4, <1>5, <1>7, <1>9, <1>10, <1>11, <1>12 DEF MapsInv, NoDangling
<1>14. SectorsExact'
  BY <1>4, <1>5, <1>7, <1>9, <1>10 DEF MapsInv, SectorsExact
<1> QED
  BY <1>6, <1>13, <1>14 DEF MapsInv

\* A player is given back: the account, the session and the sector forget it.
LEMMA ReleaseMaps ==
  ASSUME MapsInv, QueueInv, ProcessRelease
  PROVE  MapsInv'
<1> DEFINE s == Head(jobs).session
           p == sessionMap[s]
<1>1. s \in Sessions
  <2>1. jobs # <<>>
    BY DEF ProcessRelease, Take
  <2> QED
    BY <2>1, HeadJob DEF Job
<1>2. CASE p = NoPlayer
  BY <1>2, Idle DEF ProcessRelease, FindPlayer, SameMaps
<1>3. CASE p # NoPlayer
  <2>1. p \in Live /\ p \in Players /\ Live \subseteq Players
    BY <1>1, <1>3, LivePlayers DEF Live, MapsInv
  <2>2. /\ player' \in [Players -> Player]
        /\ sectors' \in [Sectors -> Seq(Players)]
        /\ IndexOnly(player')
        /\ PlacedBut(player', sectors', p)
    <3>1. CASE player[p].sector = NoSector
      <4>1. player' = player /\ sectors' = sectors
        BY <1>3, <3>1 DEF ProcessRelease, FindPlayer
      <4>2. PlacedBut(player, sectors, p)
        BY <3>1, NoPlace
      <4> QED
        BY <4>1, <4>2 DEF MapsInv, MapType, IndexOnly
    <3>2. CASE player[p].sector # NoSector
      <4>1. player' = PlayersWithout(p) /\ sectors' = SectorsWithout(p)
        BY <1>3, <3>2 DEF ProcessRelease, FindPlayer
      <4> QED
        BY <2>1, <3>2, <4>1, LeaveSector
    <3> QED
      BY <3>1, <3>2
  <2>3. /\ accountMap' = IF player[p].isLogin
                         THEN [accountMap EXCEPT ![player[p].accountNo] = NoPlayer]
                         ELSE accountMap
        /\ sessionMap' = [sessionMap EXCEPT ![s] = NoPlayer]
    BY <1>3 DEF ProcessRelease, FindPlayer
  <2>4. MapType'
    BY <2>2, <2>3 DEF MapsInv, MapType
  <2>5. \A u \in Sessions : sessionMap[u] = p => u = s
    BY <1>1, <1>3 DEF MapsInv, NoDangling
  <2> HIDE DEF p, s
  <2>6. \A u \in Sessions : sessionMap'[u] = IF u = s THEN NoPlayer ELSE sessionMap[u]
    BY <1>1, <2>3 DEF MapsInv, MapType
  <2>7. Live' = Live \ {p}
    BY <1>1, <1>3, <2>5, <2>6 DEF Live, p
  <2>8. \A q \in Live : /\ player'[q].sessionId = player[q].sessionId
                        /\ player'[q].accountNo = player[q].accountNo
                        /\ player'[q].isLogin = player[q].isLogin
    BY <2>1, <2>2 DEF IndexOnly
  <2>9. NoDangling'
    <3>1. ASSUME NEW u \in Sessions, sessionMap'[u] # NoPlayer
          PROVE  player'[sessionMap'[u]].sessionId = u
      <4>1. sessionMap'[u] = sessionMap[u] /\ sessionMap[u] \in Live
        BY <2>6, <3>1 DEF Live
      <4> QED
        BY <2>8, <3>1, <4>1 DEF MapsInv, NoDangling
    <3>2. ASSUME NEW a \in Accounts, accountMap'[a] # NoPlayer
          PROVE  /\ accountMap'[a] \in Live'
                 /\ player'[accountMap'[a]].isLogin /\ player'[accountMap'[a]].accountNo = a
      <4>1. accountMap'[a] = accountMap[a]
        BY <2>3, <3>2 DEF MapsInv, MapType
      <4>2. /\ accountMap[a] \in Live /\ player[accountMap[a]].isLogin
            /\ player[accountMap[a]].accountNo = a
        BY <3>2, <4>1 DEF MapsInv, NoDangling
      <4>3. accountMap[a] # p
        BY <2>3, <3>2, <4>2 DEF MapsInv, MapType
      <4> QED
        BY <2>7, <2>8, <4>1, <4>2, <4>3
    <3> QED
      BY <3>1, <3>2 DEF NoDangling
  <2>10. SectorsExact'
    BY <2>2, <2>7 DEF PlacedBut, SectorsExact
  <2> QED
    BY <2>4, <2>9, <2>10 DEF MapsInv
<1> QED
  BY <1>2, <1>3

\* A login: the entry of the account leads to the player that logged in.
LEMMA LoginMaps ==
  ASSUME MapsInv, NEW s \in Sessions, NEW p \in Players, p = sessionMap[s],
         NEW m \in Messages \cup {Nothing},
         PacketProcLogin(p, m, [player EXCEPT ![p].quiet = 0])
  PROVE  MapsInv' /\ UNCHANGED <<opened, sessionMap>>
<1> DEFINE pl0 == [player EXCEPT ![p].quiet = 0]
           a == m.account
           pl1 == [pl0 EXCEPT ![p].accountNo = a, ![p].isLogin = TRUE]
<1>1. player \in [Players -> Player]
  BY DEF MapsInv, MapType
<1>2. pl0 \in [Players -> Player] /\ Keeps(pl0)
  <2>1. 0 \in 0 .. Timeout
    BY ChatBounds
  <2>2. pl0 \in [Players -> Player]
    BY <1>1, <2>1 DEF Player
  <2>3. Keeps(pl0)
    BY <1>1 DEF Keeps, Player
  <2> QED
    BY <2>2, <2>3
<1>3. m.type = "login" /\ a \in Accounts
  BY ChatAssumption DEF PacketProcLogin, AllMessages, Nothing
<1>4. p \in Live /\ Live \subseteq Players
  BY ChatAssumption, LivePlayers DEF Live, MapsInv
<1> HIDE DEF pl0
<1>5. CASE pl0[p].isLogin
  <2>1. DisconnectPlayers(pl0, {p}) /\ SameMaps
    BY <1>5 DEF PacketProcLogin, Refuse, SameMaps, pl0
  <2>2. player' \in [Players -> Player] /\ Keeps(player') /\ UNCHANGED opened
    BY <1>2, <2>1, Marks DEF Keeps
  <2> QED
    BY <2>1, <2>2, QuietMaps DEF SameMaps
<1>6. CASE ~pl0[p].isLogin
  <2>1. /\ DisconnectPlayers(pl1, {accountMap[a]} \ {NoPlayer})
        /\ accountMap' = [accountMap EXCEPT ![a] = p]
        /\ UNCHANGED <<sessionMap, sectors>>
    BY <1>6 DEF PacketProcLogin, pl0
  <2>2. /\ pl1 \in [Players -> Player]
        /\ pl1[p].accountNo = a /\ pl1[p].isLogin
        /\ \A q \in Players : q # p => pl1[q] = pl0[q]
        /\ \A q \in Players : /\ pl1[q].sessionId = pl0[q].sessionId
                              /\ pl1[q].sector = pl0[q].sector
                              /\ pl1[q].sectorIndex = pl0[q].sectorIndex
    <3> DEFINE r == [pl0[p] EXCEPT !.accountNo = a, !.isLogin = TRUE]
    <3>1. pl1 = [pl0 EXCEPT ![p] = r]
      BY <1>2
    <3>2. /\ r \in Player
          /\ r.accountNo = a /\ r.isLogin = TRUE /\ r.sessionId = pl0[p].sessionId
          /\ r.sector = pl0[p].sector /\ r.sectorIndex = pl0[p].sectorIndex
      <4>1. pl0[p] \in Player
        BY <1>2
      <4> HIDE DEF a, pl1
      <4> QED
        BY <1>3, <4>1 DEF Player
    <3> HIDE DEF r, pl1
    <3>3. pl1 \in [Players -> Player]
      BY <1>2, <3>1, <3>2
    <3>4. pl1[p] = r /\ \A q \in Players : q # p => pl1[q] = pl0[q]
      BY <1>2, <3>1
    <3> QED
      BY <3>2, <3>3, <3>4
  <2> HIDE DEF pl1
  <2>3. player' \in [Players -> Player] /\ UNCHANGED opened
    BY <2>1, <2>2, Marks
  <2>4. player'[p].accountNo = a /\ player'[p].isLogin
    BY <2>1, <2>2, Marks
  <2>5. \A q \in Players : q # p => /\ player'[q].accountNo = player[q].accountNo
                                  /\ player'[q].isLogin = player[q].isLogin
    BY <1>2, <2>1, <2>2, Marks DEF Keeps
  <2>6. \A q \in Players : /\ player'[q].sessionId = player[q].sessionId
                          /\ player'[q].sector = player[q].sector
                          /\ player'[q].sectorIndex = player[q].sectorIndex
    BY <1>2, <2>1, <2>2, Marks DEF Keeps
  <2>7. MapType'
    BY <2>1, <2>3 DEF MapsInv, MapType
  <2>8. Live' = Live
    BY <2>1 DEF Live
  <2>9. ~player[p].isLogin
    BY <1>2, <1>6 DEF Keeps
  <2>10. NoDangling'
    <3>1. \A u \in Sessions : sessionMap'[u] # NoPlayer =>
            player'[sessionMap'[u]].sessionId = u
      BY <2>1, <2>6 DEF MapsInv, MapType, NoDangling
    <3>2. ASSUME NEW b \in Accounts, accountMap'[b] # NoPlayer
          PROVE  /\ accountMap'[b] \in Live'
                 /\ player'[accountMap'[b]].isLogin /\ player'[accountMap'[b]].accountNo = b
      <4>1. CASE b = a
        BY <1>3, <1>4, <2>1, <2>4, <2>8, <4>1 DEF MapsInv, MapType
      <4>2. CASE b # a
        <5>1. accountMap'[b] = accountMap[b]
          BY <2>1, <4>2 DEF MapsInv, MapType
        <5>2. /\ accountMap[b] \in Live /\ player[accountMap[b]].isLogin
              /\ player[accountMap[b]].accountNo = b
          BY <3>2, <5>1 DEF MapsInv, NoDangling
        <5> QED
          BY <1>4, <2>5, <2>8, <2>9, <5>1, <5>2
      <4> QED
        BY <4>1, <4>2
    <3> QED
      BY <3>1, <3>2 DEF NoDangling
  <2>11. SectorsExact'
    BY <1>4, <2>1, <2>6, <2>8 DEF MapsInv, SectorsExact
  <2> QED
    BY <2>1, <2>3, <2>7, <2>10, <2>11 DEF MapsInv
<1> QED
  BY <1>5, <1>6

\* A sector the range check lets pass is on the map.
LEMMA MoveInRange ==
  ASSUME NEW m \in AllMessages, m.type = "move", InRange(m.to)
  PROVE  m.to \in Sectors
<1>1. m.to \in (0 .. SectorMaxX) \X (0 .. SectorMaxY)
  BY DEF AllMessages
<1>2. PICK x \in 0 .. SectorMaxX, y \in 0 .. SectorMaxY : m.to = <<x, y>>
  BY <1>1
<1>3. x < SectorMaxX /\ y < SectorMaxY
  BY <1>2 DEF InRange
<1>4. x \in 0 .. SectorMaxX - 1 /\ y \in 0 .. SectorMaxY - 1
  BY <1>2, <1>3, ChatBounds
<1> QED
  BY <1>2, <1>4 DEF Sectors

\* A move: out of the one vector, to the end of the other.
LEMMA MoveMaps ==
  ASSUME MapsInv, NEW s \in Sessions, NEW p \in Players, p = sessionMap[s],
         NEW m \in Messages \cup {Nothing},
         PacketProcSectorMove(p, m, [player EXCEPT ![p].quiet = 0])
  PROVE  MapsInv' /\ UNCHANGED <<opened, sessionMap>>
<1> DEFINE pl0 == [player EXCEPT ![p].quiet = 0]
           there == player[p].sector # NoSector
           left == IF there THEN SectorsWithout(p) ELSE sectors
           rest == IF there THEN PlayersWithout(p) ELSE player
           c == m.to
           r == [rest[p] EXCEPT !.quiet = 0, !.sector = c, !.sectorIndex = Len(left[c])]
<1>1. player \in [Players -> Player]
  BY DEF MapsInv, MapType
<1>2. 0 \in 0 .. Timeout
  BY ChatBounds
<1>3. pl0 \in [Players -> Player] /\ Keeps(pl0) /\ pl0[p].sector = player[p].sector
  <2>1. pl0 \in [Players -> Player]
    BY <1>1, <1>2 DEF Player
  <2>2. Keeps(pl0)
    BY <1>1 DEF Keeps, Player
  <2> QED
    BY <2>1, <2>2 DEF Keeps
<1>4. m.type = "move" /\ m \in AllMessages
  <2>1. m.type = "move"
    BY DEF PacketProcSectorMove
  <2>2. m # Nothing
    BY <2>1 DEF Nothing
  <2> QED
    BY <2>1, <2>2, ChatAssumption
<1>5. p \in Live /\ Live \subseteq Players
  BY ChatAssumption, LivePlayers DEF Live, MapsInv
<1> HIDE DEF pl0
<1>6. CASE Refuse(p, pl0)
  <2>1. DisconnectPlayers(pl0, {p}) /\ SameMaps
    BY <1>6 DEF Refuse, SameMaps
  <2>2. player' \in [Players -> Player] /\ Keeps(player') /\ UNCHANGED opened
    BY <1>3, <2>1, Marks DEF Keeps
  <2> QED
    BY <2>1, <2>2, QuietMaps DEF SameMaps
<1>7. CASE Break(pl0)
  BY <1>3, <1>7, QuietMaps DEF Break, SameMaps, netVars
<1>8. CASE /\ InRange(c)
           /\ player' = [rest EXCEPT ![p].quiet = 0, ![p].sector = c,
                                     ![p].sectorIndex = Len(left[c])]
           /\ sectors' = [left EXCEPT ![c] = Append(@, p)]
           /\ UNCHANGED <<netVars, sessionMap, accountMap, crashed>>
  <2>1. c \in Sectors
    BY <1>4, <1>8, MoveInRange
  <2>2. /\ rest \in [Players -> Player] /\ left \in [Sectors -> Seq(Players)]
        /\ IndexOnly(rest) /\ PlacedBut(rest, left, p)
    <3>1. CASE there
      BY <1>5, <3>1, LeaveSector
    <3>2. CASE ~there
      <4>1. IndexOnly(player)
        BY DEF IndexOnly
      <4>2. PlacedBut(player, sectors, p)
        BY <3>2, NoPlace
      <4> QED
        BY <3>2, <4>1, <4>2 DEF MapsInv, MapType
    <3> QED
      BY <3>1, <3>2
  <2> HIDE DEF rest, left, there, c
  <2>3. /\ r \in Player /\ r.sector = c /\ r.sectorIndex = Len(left[c])
        /\ r.sessionId = rest[p].sessionId /\ r.accountNo = rest[p].accountNo
        /\ r.isLogin = rest[p].isLogin
    <3>1. Len(left[c]) \in Nat
      BY <2>1, <2>2
    <3>2. rest[p] \in Player
      BY <2>2
    <3> QED
      BY <1>2, <2>1, <3>1, <3>2 DEF Player
  <2>4. player' = [rest EXCEPT ![p] = r]
    BY <1>8, <2>2
  <2> HIDE DEF r
  <2>5. player' \in [Players -> Player]
    BY <2>2, <2>3, <2>4
  <2>6. player'[p] = r /\ \A q \in Players : q # p => player'[q] = rest[q]
    BY <2>2, <2>4
  <2>7. /\ sectors' \in [Sectors -> Seq(Players)]
        /\ sectors'[c] = Append(left[c], p)
        /\ \A d \in Sectors : d # c => sectors'[d] = left[d]
    BY <1>8, <2>1, <2>2
  <2>8. /\ Len(sectors'[c]) = Len(left[c]) + 1 /\ Len(left[c]) \in Nat
        /\ \A i \in 1 .. Len(sectors'[c]) :
             sectors'[c][i] = IF i = Len(left[c]) + 1 THEN p ELSE left[c][i]
    BY <2>1, <2>2, <2>7
  <2>9. MapType'
    BY <1>8, <2>5, <2>7 DEF MapsInv, MapType
  <2>10. Live' = Live
    BY <1>8 DEF Live
  <2>11. \A q \in Live : /\ player'[q].sessionId = player[q].sessionId
                        /\ player'[q].accountNo = player[q].accountNo
                        /\ player'[q].isLogin = player[q].isLogin
    BY <1>5, <2>2, <2>3, <2>6 DEF IndexOnly
  <2>12. NoDangling'
    <3>1. \A u \in Sessions : sessionMap[u] # NoPlayer => sessionMap[u] \in Live
      BY DEF Live
    <3>2. UNCHANGED <<sessionMap, accountMap>>
      BY <1>8
    <3> QED
      BY <2>10, <2>11, <3>1, <3>2 DEF MapsInv, NoDangling
  <2>13. SectorsExact'
    <3>1. ASSUME NEW q \in Live, player'[q].sector # NoSector
          PROVE  /\ player'[q].sectorIndex < Len(sectors'[player'[q].sector])
                 /\ sectors'[player'[q].sector][player'[q].sectorIndex + 1] = q
      <4>1. CASE q = p
        BY <2>3, <2>6, <2>8, <4>1
      <4>2. CASE q # p
        <5> DEFINE d == rest[q].sector
                   k == rest[q].sectorIndex
        <5>1. player'[q].sector = d /\ player'[q].sectorIndex = k
          BY <1>5, <2>6, <4>2
        <5>2. d \in Sectors /\ k \in Nat
          BY <1>5, <2>2, <3>1, <5>1 DEF Player
        <5>3. k < Len(left[d]) /\ left[d][k + 1] = q
          BY <2>2, <3>1, <4>2, <5>1 DEF PlacedBut
        <5> HIDE DEF d, k
        <5>4. k < Len(sectors'[d]) /\ sectors'[d][k + 1] = q
          <6>1. CASE d = c
            <7> DEFINE n == Len(left[c])
            <7>1. n \in Nat /\ k < n /\ Len(sectors'[c]) = n + 1
              BY <2>8, <5>3, <6>1
            <7> HIDE DEF n
            <7>2. k + 1 \in 1 .. n + 1 /\ k + 1 # n + 1
              BY <5>2, <7>1
            <7>3. sectors'[c][k + 1] = left[c][k + 1]
              BY <2>8, <7>1, <7>2 DEF n
            <7> QED
              BY <5>2, <5>3, <6>1, <7>1, <7>3
          <6>2. CASE d # c
            BY <2>7, <5>2, <5>3, <6>2
          <6> QED
            BY <6>1, <6>2
        <5> QED
          BY <5>1, <5>4
      <4> QED
        BY <4>1, <4>2
    <3>2. ASSUME NEW d \in Sectors, NEW i \in 1 .. Len(sectors'[d])
          PROVE  /\ sectors'[d][i] \in Live /\ player'[sectors'[d][i]].sector = d
                 /\ player'[sectors'[d][i]].sectorIndex = i - 1
      <4>1. CASE d = c /\ i = Len(left[c]) + 1
        BY <1>5, <2>3, <2>6, <2>8, <4>1
      <4>2. CASE ~(d = c /\ i = Len(left[c]) + 1)
        <5>1. i \in 1 .. Len(left[d]) /\ sectors'[d][i] = left[d][i]
          BY <2>7, <2>8, <3>2, <4>2
        <5>2. /\ left[d][i] \in Live \ {p} /\ rest[left[d][i]].sector = d
              /\ rest[left[d][i]].sectorIndex = i - 1
          BY <2>2, <5>1 DEF PlacedBut
        <5> QED
          BY <1>5, <2>6, <5>1, <5>2
      <4> QED
        BY <4>1, <4>2
    <3> QED
      BY <2>10, <3>1, <3>2 DEF SectorsExact
  <2> QED
    BY <1>8, <2>9, <2>12, <2>13 DEF MapsInv, netVars
<1> QED
  BY <1>3, <1>6, <1>7, <1>8 DEF PacketProcSectorMove, pl0

----------------------------------------------------------------------------
(***************************************************************************)
(* The invariant holds at first, and every step keeps it.                  *)
(***************************************************************************)

\* Nobody is there at first.
LEMMA InitInv == Init => ChatInv
<1> SUFFICES ASSUME Init
             PROVE  ChatInv
  OBVIOUS
<1>1. Live = {}
  BY DEF Init, Live
<1>2. NewPlayer(NoSession) \in Player
  BY ChatBounds DEF NewPlayer, Player
<1>3. MapType
  BY <1>2 DEF Init, MapType
<1>4. NoDangling
  BY DEF Init, NoDangling
<1>5. SectorsExact
  BY <1>1 DEF Init, SectorsExact
<1>6. QueueInv
  BY DEF Init, QueueInv, QueueType, AcceptsOnce
<1> QED
  BY <1>3, <1>4, <1>5, <1>6 DEF ChatInv, MapsInv

\* Steps of the queue's other variables, and those of time.
LEMMA IdleInv ==
  ASSUME ChatInv, SameMaps, UNCHANGED <<player, opened, jobs>>
  PROVE  ChatInv'
<1>1. MapsInv'
  BY Idle DEF ChatInv
<1>2. QueueInv'
  BY DEF ChatInv, QueueInv, QueueType, AcceptsOnce, SameMaps
<1> QED
  BY <1>1, <1>2 DEF ChatInv

\* The callbacks only push jobs.
LEMMA CallbackInv ==
  ASSUME ChatInv, NEW s \in Sessions, OnAccept(s) \/ OnRecv(s) \/ OnRelease(s)
  PROVE  ChatInv'
<1>1. UNCHANGED chatVars
  BY DEF OnAccept, OnRecv, OnRelease
<1>2. MapsInv'
  BY <1>1, Idle DEF ChatInv, SameMaps, chatVars
<1>3. QueueInv'
  <2>1. CASE OnAccept(s)
    <3> DEFINE j == [type |-> "ACCEPT", session |-> s, packet |-> Nothing]
    <3>1. j \in Job /\ j.type = "ACCEPT" /\ j.session = s
      BY DEF Job
    <3>2. /\ jobs' = Append(jobs, j) /\ opened' = opened \cup {s} /\ s \notin opened
          /\ UNCHANGED sessionMap
      BY <1>1, <2>1 DEF OnAccept, Link, chatVars
    <3> QED
      BY <3>1, <3>2, QueueFirst DEF ChatInv
  <2>2. CASE OnRecv(s)
    <3>1. PICK m \in Messages : Link(s, "RECV", m)
      BY <2>2 DEF OnRecv
    <3> DEFINE j == [type |-> "RECV", session |-> s, packet |-> m]
    <3>2. j \in Job /\ j.type # "ACCEPT" /\ j.session = s
      BY DEF Job
    <3>3. jobs' = Append(jobs, j) /\ s \in opened /\ UNCHANGED <<opened, sessionMap>>
      BY <1>1, <2>2, <3>1 DEF OnRecv, Link, chatVars
    <3> QED
      BY <3>2, <3>3, QueueMore DEF ChatInv
  <2>3. CASE OnRelease(s)
    <3> DEFINE j == [type |-> "RELEASE", session |-> s, packet |-> Nothing]
    <3>1. j \in Job /\ j.type # "ACCEPT" /\ j.session = s
      BY DEF Job
    <3>2. jobs' = Append(jobs, j) /\ s \in opened /\ UNCHANGED <<opened, sessionMap>>
      BY <1>1, <2>3 DEF OnRelease, Link, chatVars
    <3> QED
      BY <3>1, <3>2, QueueMore DEF ChatInv
  <2> QED
    BY <2>1, <2>2, <2>3
<1> QED
  BY <1>2, <1>3 DEF ChatInv

\* Time: the fields it changes are not looked at.
LEMMA TimeInv ==
  ASSUME ChatInv, Tick \/ CheckTimeout
  PROVE  ChatInv'
<1>1. player \in [Players -> Player]
  BY DEF ChatInv, MapsInv, MapType
<1>2. SameMaps /\ UNCHANGED <<opened, jobs>>
  BY DEF Tick, CheckTimeout, DisconnectPlayers, SameMaps, netVars, jobVars
<1>3. player' \in [Players -> Player] /\ Keeps(player')
  <2>1. CASE CheckTimeout
    BY <1>1, <2>1, Marks DEF CheckTimeout, Keeps
  <2>2. CASE Tick
    <3>1. ASSUME NEW p \in Players
          PROVE  /\ player'[p] \in Player
                 /\ player'[p].sessionId = player[p].sessionId
                 /\ player'[p].accountNo = player[p].accountNo
                 /\ player'[p].sector = player[p].sector
                 /\ player'[p].sectorIndex = player[p].sectorIndex
                 /\ player'[p].isLogin = player[p].isLogin
      <4> DEFINE t == IF p \in Live /\ player[p].quiet < Timeout
                      THEN player[p].quiet + 1 ELSE player[p].quiet
      <4>1. player'[p] = [player[p] EXCEPT !.quiet = t]
        BY <2>2 DEF Tick
      <4>2. t \in 0 .. Timeout
        BY <1>1, ChatBounds DEF Player
      <4> QED
        BY <1>1, <4>1, <4>2 DEF Player
    <3>2. player' \in [Players -> Player]
      BY <2>2, <3>1 DEF Tick
    <3> QED
      BY <3>1, <3>2 DEF Keeps
  <2> QED
    BY <2>1, <2>2
<1>4. MapsInv'
  BY <1>2, <1>3, QuietMaps DEF ChatInv
<1>5. QueueInv'
  BY <1>2 DEF ChatInv, QueueInv, QueueType, AcceptsOnce, SameMaps
<1> QED
  BY <1>4, <1>5 DEF ChatInv

\* The handlers of packets.
LEMMA PacketInv ==
  ASSUME ChatInv, ProcessPacket
  PROVE  ChatInv'
<1> DEFINE s == Head(jobs).session
           m == Head(jobs).packet
<1>1. PICK p \in Players :
        LET pl == [player EXCEPT ![p].quiet = 0]
        IN  /\ Take("RECV") /\ p = FindPlayer
            /\ \/ PacketProcLogin(p, m, pl) \/ PacketProcSectorMove(p, m, pl)
               \/ PacketProcMessage(p, m, pl) \/ PacketProcHeartbeat(p, m, pl)
               \/ PacketMalformed(p, m, pl)
  BY DEF ProcessPacket
<1> DEFINE pl0 == [player EXCEPT ![p].quiet = 0]
<1>2. jobs # <<>> /\ jobs' = Tail(jobs)
  BY <1>1 DEF Take
<1>3. s \in Sessions /\ m \in Messages \cup {Nothing}
  BY <1>2, HeadJob DEF ChatInv, Job
<1>4. p = sessionMap[s]
  BY <1>1 DEF FindPlayer
<1>5. player \in [Players -> Player] /\ 0 \in 0 .. Timeout
  BY ChatBounds DEF ChatInv, MapsInv, MapType
<1>6. pl0 \in [Players -> Player] /\ Keeps(pl0)
  <2>1. pl0 \in [Players -> Player]
    BY <1>5 DEF Player
  <2>2. Keeps(pl0)
    BY <1>5 DEF Keeps, Player
  <2> QED
    BY <2>1, <2>2
<1> HIDE DEF s, m
<1>7. MapsInv' /\ UNCHANGED <<opened, sessionMap>>
  <2>1. CASE PacketProcLogin(p, m, pl0)
    BY <1>3, <1>4, <2>1, LoginMaps DEF ChatInv
  <2>2. CASE PacketProcSectorMove(p, m, pl0)
    BY <1>3, <1>4, <2>2, MoveMaps DEF ChatInv
  <2> HIDE DEF pl0
  <2>3. ASSUME SameMaps, DisconnectPlayers(pl0, {p}) \/ (player' = pl0 /\ UNCHANGED netVars)
        PROVE  MapsInv' /\ UNCHANGED <<opened, sessionMap>>
    <3>1. player' \in [Players -> Player] /\ Keeps(player') /\ UNCHANGED opened
      <4>1. CASE DisconnectPlayers(pl0, {p})
        BY <1>6, <4>1, Marks DEF Keeps
      <4>2. CASE player' = pl0 /\ UNCHANGED netVars
        BY <1>6, <4>2 DEF netVars
      <4> QED
        BY <2>3, <4>1, <4>2
    <3> QED
      BY <2>3, <3>1, QuietMaps DEF ChatInv, SameMaps
  <2>4. CASE PacketProcMessage(p, m, pl0)
    BY <2>3, <2>4 DEF PacketProcMessage, Refuse, Break, SameMaps
  <2>5. CASE PacketProcHeartbeat(p, m, pl0)
    BY <2>3, <2>5 DEF PacketProcHeartbeat, SameMaps
  <2>6. CASE PacketMalformed(p, m, pl0)
    BY <2>3, <2>6 DEF PacketMalformed, Refuse, SameMaps
  <2> QED
    BY <1>1, <2>1, <2>2, <2>4, <2>5, <2>6 DEF pl0, m
<1>8. QueueInv'
  BY <1>2, <1>7, QueueLess DEF ChatInv
<1> QED
  BY <1>7, <1>8 DEF ChatInv

\* Every step keeps the invariant.
LEMMA NextInv == ChatInv /\ [Next]_vars => ChatInv'
<1> SUFFICES ASSUME ChatInv, [Next]_vars
             PROVE  ChatInv'
  OBVIOUS
<1>1. CASE TestRunning \/ Wake \/ Drained \/ NoTimeYet \/ Stop
  BY <1>1, IdleInv
  DEF TestRunning, Wake, Drained, NoTimeYet, Stop, netVars, jobVars, chatVars, SameMaps
<1>2. CASE Tick \/ CheckTimeout
  BY <1>2, TimeInv
<1>3. CASE ProcessAccept
  <2>1. MapsInv'
    BY <1>3, AcceptMaps DEF ChatInv
  <2>2. QueueInv'
    <3>1. /\ jobs # <<>> /\ jobs' = Tail(jobs) /\ Head(jobs).type = "ACCEPT"
          /\ UNCHANGED opened
      BY <1>3 DEF ProcessAccept, Take, netVars
    <3>2. \A s \in Sessions : s # Head(jobs).session => sessionMap'[s] = sessionMap[s]
      BY <1>3 DEF ProcessAccept, ChatInv, MapsInv, MapType
    <3> QED
      BY <3>1, <3>2, QueueLess DEF ChatInv
  <2> QED
    BY <2>1, <2>2 DEF ChatInv
<1>4. CASE ProcessRelease
  <2>1. MapsInv'
    BY <1>4, ReleaseMaps DEF ChatInv
  <2>2. QueueInv'
    <3>1. jobs # <<>> /\ jobs' = Tail(jobs) /\ UNCHANGED opened
      BY <1>4 DEF ProcessRelease, Take, netVars
    <3>2. \/ UNCHANGED sessionMap
          \/ sessionMap' = [sessionMap EXCEPT ![Head(jobs).session] = NoPlayer]
      BY <1>4 DEF ProcessRelease
    <3>3. \A s \in Sessions : sessionMap'[s] = sessionMap[s] \/ sessionMap'[s] = NoPlayer
      BY <3>2 DEF ChatInv, MapsInv, MapType
    <3> QED
      BY <3>1, <3>3, QueueLess DEF ChatInv
  <2> QED
    BY <2>1, <2>2 DEF ChatInv
<1>5. CASE PacketDropped
  <2>1. MapsInv'
    BY <1>5, Idle DEF PacketDropped, SameMaps, ChatInv
  <2>2. QueueInv'
    BY <1>5, QueueLess DEF PacketDropped, Take, netVars, ChatInv
  <2> QED
    BY <2>1, <2>2 DEF ChatInv
<1>6. CASE ProcessPacket
  BY <1>6, PacketInv
<1>7. CASE \E s \in Sessions : OnAccept(s) \/ OnRecv(s) \/ OnRelease(s)
  BY <1>7, CallbackInv
<1>8. CASE \E s \in Sessions : Pushing(s)
  BY <1>8, IdleInv DEF Pushing, Count, Announce, chatVars, SameMaps
<1>9. CASE UNCHANGED vars
  BY <1>9, IdleInv DEF vars, netVars, jobVars, chatVars, SameMaps
<1> QED
  BY <1>1, <1>2, <1>3, <1>4, <1>5, <1>6, <1>7, <1>8, <1>9 DEF Next, Contents

----------------------------------------------------------------------------
(***************************************************************************)
(* The theorems.                                                           *)
(***************************************************************************)

\* The invariant always holds.
LEMMA Always == Spec => []ChatInv
BY InitInv, NextInv, PTL DEF Spec

\* No entry of _sessionMap or _accountMap leads to a player given back to the
\* pool, or to one that belongs to another session or account by now.
THEOREM MapsNeverDangle == Spec => []NoDangling
<1>1. ChatInv => NoDangling
  BY DEF ChatInv, MapsInv
<1> QED
  BY <1>1, Always, PTL

\* Players and sector vectors agree, whatever order of moves and releases they
\* went through: every swap with the last of a vector told the one that moved.
THEOREM VectorsExact == Spec => []SectorsExact
<1>1. ChatInv => SectorsExact
  BY DEF ChatInv, MapsInv
<1> QED
  BY <1>1, Always, PTL

----------------------------------------------------------------------------
(***************************************************************************)
(* The event.                                                              *)
(***************************************************************************)

\* Whoever counts a job sets the event after that, and only a thread that goes
\* on to drain the queue resets it.
Told ==
  /\ push \in [Sessions -> {"none", "linked", "counted"}] /\ size \in Int
  /\ pc # "drain" /\ size > 0 => event \/ \E s \in Sessions : push[s] = "counted"

\* No handler lets a job come, or a session.
LEMMA HandlersKeep ==
  ASSUME ProcessPacket
  PROVE  UNCHANGED <<push, opened, closed, sessionMap>>
<1>1. ASSUME NEW pl, NEW P, DisconnectPlayers(pl, P)
      PROVE  UNCHANGED <<push, opened, closed>>
  BY <1>1 DEF DisconnectPlayers
<1>2. ASSUME NEW p, NEW pl, Refuse(p, pl) \/ Break(pl)
      PROVE  UNCHANGED <<push, opened, closed, sessionMap>>
  BY <1>1, <1>2 DEF Refuse, Break, netVars
<1>3. ASSUME NEW p, NEW m, NEW pl, PacketProcLogin(p, m, pl)
      PROVE  UNCHANGED <<push, opened, closed, sessionMap>>
  BY <1>1, <1>2, <1>3 DEF PacketProcLogin
<1>4. ASSUME NEW p, NEW m, NEW pl, PacketProcSectorMove(p, m, pl)
      PROVE  UNCHANGED <<push, opened, closed, sessionMap>>
  BY <1>2, <1>4 DEF PacketProcSectorMove, netVars
<1>5. ASSUME NEW p, NEW m, NEW pl, PacketProcMessage(p, m, pl)
      PROVE  UNCHANGED <<push, opened, closed, sessionMap>>
  BY <1>2, <1>5 DEF PacketProcMessage, netVars
<1>6. ASSUME NEW p, NEW m, NEW pl, PacketProcHeartbeat(p, m, pl) \/ PacketMalformed(p, m, pl)
      PROVE  UNCHANGED <<push, opened, closed, sessionMap>>
  BY <1>2, <1>6 DEF PacketProcHeartbeat, PacketMalformed, netVars
<1> QED
  BY <1>3, <1>4, <1>5, <1>6 DEF ProcessPacket

LEMMA ToldStep == Told /\ [Next]_vars => Told'
<1> SUFFICES ASSUME Told, [Next]_vars
             PROVE  Told'
  OBVIOUS
<1> USE DEF Told
<1>1. CASE UNCHANGED <<push, size, event, pc>>
  BY <1>1
<1>2. CASE TestRunning \/ NoTimeYet \/ CheckTimeout
  <2>1. UNCHANGED <<push, size, event>> /\ pc # "drain"
    BY <1>2 DEF TestRunning, NoTimeYet, CheckTimeout, DisconnectPlayers, netVars, jobVars
  <2> QED
    BY <2>1
<1>3. CASE Wake
  BY <1>3 DEF Wake, netVars
<1>4. CASE Drained
  BY <1>4 DEF Drained, netVars, jobVars
<1>5. CASE ProcessAccept \/ ProcessRelease \/ PacketDropped
  <2>1. UNCHANGED <<push, pc>> /\ pc = "drain" /\ size' = size - 1
    BY <1>5 DEF ProcessAccept, ProcessRelease, PacketDropped, Take, netVars, loopVars
  <2> QED
    BY <2>1
<1>6. CASE ProcessPacket
  <2>1. UNCHANGED pc /\ pc = "drain" /\ size' = size - 1
    BY <1>6 DEF ProcessPacket, Take, loopVars
  <2>2. UNCHANGED push
    BY <1>6, HandlersKeep
  <2> QED
    BY <2>1, <2>2
<1>7. CASE Stop
  BY <1>7 DEF Stop, netVars
<1>8. ASSUME NEW s \in Sessions, OnAccept(s) \/ OnRecv(s) \/ OnRelease(s)
      PROVE  Told'
  <2>1. push[s] = "none" /\ push' = [push EXCEPT ![s] = "linked"]
    BY <1>8 DEF OnAccept, OnRecv, OnRelease, Link
  <2>2. UNCHANGED <<size, event, pc>>
    BY <1>8 DEF OnAccept, OnRecv, OnRelease, Link, loopVars
  <2> QED
    BY <2>1, <2>2
<1>9. ASSUME NEW s \in Sessions, Count(s)
      PROVE  Told'
  BY <1>9 DEF Count
<1>10. ASSUME NEW s \in Sessions, Announce(s)
      PROVE  Told'
  BY <1>10 DEF Announce
<1>11. CASE Tick
  BY <1>1, <1>11 DEF Tick, netVars, jobVars
<1>12. CASE UNCHANGED vars
  BY <1>1, <1>12 DEF vars, netVars, jobVars, loopVars
<1> QED
  BY <1>2, <1>3, <1>4, <1>5, <1>6, <1>7, <1>8, <1>9, <1>10, <1>11, <1>12
  DEF Next, Contents, Pushing

\* When the contents thread waits, every job that is counted was announced or
\* is about to be: no order of linking, counting, announcing, draining and
\* resetting the event leaves it asleep on a job.
THEOREM JobsAnnounced == Spec => []NoForgottenJob
<1>1. Init => Told
  BY DEF Init, Told
<1>2. Told => NoForgottenJob
  BY DEF Told, NoForgottenJob
<1> QED
  BY <1>1, <1>2, ToldStep, PTL DEF Spec

----------------------------------------------------------------------------
(***************************************************************************)
(* The order of the jobs.                                                  *)
(***************************************************************************)

\* What JobsInOrder says of one session, and that one which is open has a
\* player or a job that makes it.
InOrder(s) ==
  /\ \A i \in JobsOf(s) :
       /\ jobs[i].type = "ACCEPT" <=>
            sessionMap[s] = NoPlayer /\ \A j \in JobsOf(s) : i <= j
       /\ jobs[i].type = "RELEASE" <=>
            s \in closed /\ \A j \in JobsOf(s) : j <= i
  /\ sessionMap[s] # NoPlayer /\ s \in closed => JobsOf(s) # {}
  /\ s \in opened \ closed => sessionMap[s] # NoPlayer \/ JobsOf(s) # {}

OrderInv == closed \subseteq opened /\ \A s \in Sessions : InOrder(s)

\* The jobs of a session after one more was queued.
LEMMA JobsMore ==
  ASSUME jobs \in Seq(Job), NEW j \in Job, jobs' = Append(jobs, j)
  PROVE  /\ JobsOf(j.session)' = JobsOf(j.session) \cup {Len(jobs) + 1}
         /\ jobs'[Len(jobs) + 1] = j
         /\ \A s : s # j.session => JobsOf(s)' = JobsOf(s)
         /\ \A i \in 1 .. Len(jobs) : jobs'[i] = jobs[i]
<1>1. Len(jobs') = Len(jobs) + 1 /\ \A i \in 1 .. Len(jobs') :
        jobs'[i] = IF i = Len(jobs) + 1 THEN j ELSE jobs[i]
  OBVIOUS
<1>2. Len(jobs) \in Nat
  OBVIOUS
<1> QED
  BY <1>1, <1>2 DEF JobsOf

\* And after the first of the queue was taken.
LEMMA JobsLess ==
  ASSUME jobs \in Seq(Job), jobs # <<>>, jobs' = Tail(jobs)
  PROVE  /\ \A s : \A i \in Int : i \in JobsOf(s)' <=> i # 0 /\ i + 1 \in JobsOf(s)
         /\ \A i \in 1 .. Len(jobs') : jobs'[i] = jobs[i + 1]
         /\ 1 \in JobsOf(Head(jobs).session) /\ Head(jobs) = jobs[1]
         /\ \A s : s # Head(jobs).session => 1 \notin JobsOf(s)
         /\ \A s : JobsOf(s) \subseteq 1 .. Len(jobs) /\ JobsOf(s)' \subseteq 1 .. Len(jobs')
<1>1. Len(jobs') = Len(jobs) - 1 /\ Len(jobs) \in Nat \ {0}
  OBVIOUS
<1>2. \A i \in 1 .. Len(jobs') : jobs'[i] = jobs[i + 1]
  OBVIOUS
<1>3. Head(jobs) = jobs[1]
  OBVIOUS
<1> QED
  BY <1>1, <1>2, <1>3 DEF JobsOf

\* Nothing a session's order speaks of has changed.
LEMMA OrderStays ==
  ASSUME NEW s \in Sessions, InOrder(s),
         JobsOf(s)' = JobsOf(s), \A i \in JobsOf(s) : jobs'[i] = jobs[i],
         sessionMap'[s] = sessionMap[s],
         s \in closed' <=> s \in closed, s \in opened' <=> s \in opened
  PROVE  InOrder(s)'
BY DEF InOrder

LEMMA OrderQuiet ==
  ASSUME OrderInv, UNCHANGED <<opened, closed, jobs, sessionMap>>
  PROVE  OrderInv'
BY DEF OrderInv, InOrder, JobsOf

\* The callbacks push jobs in the order they are called in.
LEMMA OrderMore ==
  ASSUME ChatInv, OrderInv, NEW s \in Sessions, OnAccept(s) \/ OnRecv(s) \/ OnRelease(s)
  PROVE  OrderInv'
<1>1. jobs \in Seq(Job) /\ Len(jobs) \in Nat
  BY DEF ChatInv, QueueInv, QueueType
<1>2. PICK j \in Job :
        /\ jobs' = Append(jobs, j) /\ j.session = s
        /\ \/ OnAccept(s) /\ j.type = "ACCEPT"
           \/ OnRecv(s) /\ j.type = "RECV"
           \/ OnRelease(s) /\ j.type = "RELEASE"
  <2>1. CASE OnAccept(s)
    BY <2>1 DEF OnAccept, Link, Job
  <2>2. CASE OnRecv(s)
    BY <2>2 DEF OnRecv, Link, Job
  <2>3. CASE OnRelease(s)
    BY <2>3 DEF OnRelease, Link, Job
  <2> QED
    BY <2>1, <2>2, <2>3
<1>3. UNCHANGED sessionMap
  BY DEF OnAccept, OnRecv, OnRelease, chatVars
<1>4. /\ JobsOf(s)' = JobsOf(s) \cup {Len(jobs) + 1}
      /\ jobs'[Len(jobs) + 1] = j
      /\ \A u : u # s => JobsOf(u)' = JobsOf(u)
      /\ \A i \in 1 .. Len(jobs) : jobs'[i] = jobs[i]
  BY <1>1, <1>2, JobsMore
<1>5. \A u : JobsOf(u) \subseteq 1 .. Len(jobs)
  BY DEF JobsOf
<1>6. closed' \subseteq opened' /\ \A u \in Sessions :
        u # s => (u \in closed' <=> u \in closed) /\ (u \in opened' <=> u \in opened)
  BY DEF OrderInv, OnAccept, OnRecv, OnRelease
<1>7. ASSUME NEW u \in Sessions, u # s
      PROVE  InOrder(u)'
  BY <1>3, <1>4, <1>5, <1>6, <1>7, OrderStays DEF OrderInv
<1>8. InOrder(s)'
  <2>1. CASE OnAccept(s) /\ j.type = "ACCEPT"
    <3>1. s \notin opened /\ opened' = opened \cup {s} /\ UNCHANGED closed
      BY <2>1 DEF OnAccept
    <3>2. JobsOf(s) = {} /\ sessionMap[s] = NoPlayer /\ s \notin closed
      BY <3>1 DEF ChatInv, QueueInv, AcceptsOnce, JobsOf, OrderInv
    <3> QED
      BY <1>1, <1>2, <1>3, <1>4, <2>1, <3>1, <3>2 DEF InOrder
  <2>2. CASE OnRecv(s) /\ j.type = "RECV"
    <3>1. s \in opened \ closed /\ UNCHANGED <<opened, closed>>
      BY <2>2 DEF OnRecv
    <3>2. InOrder(s)
      BY DEF OrderInv
    <3> QED
      BY <1>1, <1>2, <1>3, <1>4, <1>5, <2>2, <3>1, <3>2 DEF InOrder
  <2>3. CASE OnRelease(s) /\ j.type = "RELEASE"
    <3>1. s \in opened \ closed /\ UNCHANGED opened /\ closed' = closed \cup {s}
      BY <2>3 DEF OnRelease
    <3>2. InOrder(s)
      BY DEF OrderInv
    <3> QED
      BY <1>1, <1>2, <1>3, <1>4, <1>5, <2>3, <3>1, <3>2 DEF InOrder
  <2> QED
    BY <1>2, <2>1, <2>2, <2>3
<1> QED
  BY <1>6, <1>7, <1>8 DEF OrderInv

\* Taking a job: the first of a session gives it its player, the last takes it
\* away, one between finds it.
LEMMA OrderLess ==
  ASSUME ChatInv, OrderInv, jobs # <<>>, jobs' = Tail(jobs), UNCHANGED <<opened, closed>>,
         NEW s \in Sessions, s = Head(jobs).session,
         \A u \in Sessions \ {s} : sessionMap'[u] = sessionMap[u],
         \/ Head(jobs).type = "ACCEPT" /\ sessionMap'[s] # NoPlayer
         \/ Head(jobs).type = "RELEASE" /\ sessionMap'[s] = NoPlayer
         \/ Head(jobs).type = "RECV" /\ sessionMap'[s] = sessionMap[s]
  PROVE  OrderInv'
<1>1. jobs \in Seq(Job)
  BY DEF ChatInv, QueueInv, QueueType
<1>2. /\ \A u : \A i \in Int : i \in JobsOf(u)' <=> i # 0 /\ i + 1 \in JobsOf(u)
      /\ \A i \in 1 .. Len(jobs') : jobs'[i] = jobs[i + 1]
      /\ 1 \in JobsOf(s) /\ Head(jobs) = jobs[1]
      /\ \A u : u # s => 1 \notin JobsOf(u)
      /\ \A u : JobsOf(u) \subseteq 1 .. Len(jobs) /\ JobsOf(u)' \subseteq 1 .. Len(jobs')
  BY <1>1, JobsLess
<1>3. Len(jobs) \in Nat /\ Len(jobs') \in Nat
  BY <1>1
<1>4. ASSUME NEW u \in Sessions
      PROVE  /\ \A i \in JobsOf(u)' : i \in Int /\ i + 1 \in JobsOf(u) /\ jobs'[i] = jobs[i + 1]
             /\ \A i \in JobsOf(u) : i \in Int /\ i >= 1 /\ (i # 1 => i - 1 \in JobsOf(u)')
  BY <1>2, <1>3
<1>5. ASSUME NEW u \in Sessions, NEW i \in JobsOf(u)'
      PROVE  /\ (\A j \in JobsOf(u)' : j <= i) <=> (\A j \in JobsOf(u) : j <= i + 1)
             /\ u # s => ((\A j \in JobsOf(u)' : i <= j) <=> (\A j \in JobsOf(u) : i + 1 <= j))
             /\ jobs'[i] = jobs[i + 1] /\ i + 1 \in JobsOf(u) /\ i + 1 # 1
  <2>1. i \in Int /\ i >= 1
    BY <1>2, <1>3
  <2>2. \A j \in JobsOf(u)' : j \in Int /\ j + 1 \in JobsOf(u)
    BY <1>4
  <2>3. \A j \in JobsOf(u) : j \in Int /\ (j # 1 => j - 1 \in JobsOf(u)')
    BY <1>4
  <2>4. (\A j \in JobsOf(u)' : j <= i) => (\A j \in JobsOf(u) : j <= i + 1)
    BY <2>1, <2>3
  <2>5. (\A j \in JobsOf(u) : j <= i + 1) => (\A j \in JobsOf(u)' : j <= i)
    BY <2>1, <2>2
  <2>6. ASSUME u # s, \A j \in JobsOf(u)' : i <= j
        PROVE  \A j \in JobsOf(u) : i + 1 <= j
    <3> TAKE j \in JobsOf(u)
    <3>1. j # 1
      BY <1>2, <2>6
    <3>2. j \in Int /\ j - 1 \in JobsOf(u)'
      BY <2>3, <3>1
    <3>3. i <= j - 1
      BY <2>6, <3>2
    <3> QED
      BY <2>1, <3>2, <3>3
  <2>7. (\A j \in JobsOf(u) : i + 1 <= j) => (\A j \in JobsOf(u)' : i <= j)
    BY <2>1, <2>2
  <2>8. jobs'[i] = jobs[i + 1] /\ i + 1 \in JobsOf(u)
    BY <1>4
  <2>9. i + 1 # 1
    BY <2>1
  <2> QED
    BY <2>4, <2>5, <2>6, <2>7, <2>8, <2>9, Zenon
<1>6. ASSUME NEW u \in Sessions
      PROVE  JobsOf(u)' = {} => JobsOf(u) \subseteq {1}
  BY <1>4
<1>7. ASSUME NEW u \in Sessions, u # s
      PROVE  InOrder(u)'
  <2>1. InOrder(u)
    BY DEF OrderInv
  <2>2. JobsOf(u)' = {} => JobsOf(u) = {}
    BY <1>2, <1>6, <1>7
  <2>3. sessionMap'[u] = sessionMap[u]
    BY <1>7
  <2>4. ASSUME NEW i \in JobsOf(u)'
        PROVE  /\ jobs'[i].type = "ACCEPT" <=>
                    sessionMap'[u] = NoPlayer /\ \A j \in JobsOf(u)' : i <= j
               /\ jobs'[i].type = "RELEASE" <=>
                    u \in closed' /\ \A j \in JobsOf(u)' : j <= i
    <3>1. /\ jobs[i + 1].type = "ACCEPT" <=>
               sessionMap[u] = NoPlayer /\ \A j \in JobsOf(u) : i + 1 <= j
          /\ jobs[i + 1].type = "RELEASE" <=>
               u \in closed /\ \A j \in JobsOf(u) : j <= i + 1
      BY <1>5, <2>1 DEF InOrder
    <3> QED
      BY <1>5, <1>7, <2>3, <3>1
  <2> QED
    BY <2>1, <2>2, <2>3, <2>4 DEF InOrder
<1>8. InOrder(s)'
  <2>1. InOrder(s)
    BY DEF OrderInv
  <2>2. /\ jobs[1].type = "ACCEPT" <=> sessionMap[s] = NoPlayer
        /\ jobs[1].type = "RELEASE" <=> s \in closed /\ \A j \in JobsOf(s) : j <= 1
    BY <1>2, <1>4, <2>1 DEF InOrder
  <2>3. CASE jobs[1].type = "RELEASE"
    <3>1. sessionMap'[s] = NoPlayer /\ s \in closed /\ \A j \in JobsOf(s) : j <= 1
      BY <1>2, <2>2, <2>3
    <3>2. JobsOf(s)' = {}
      <4>1. ASSUME NEW i \in JobsOf(s)'
            PROVE  FALSE
        <5>1. i \in Int /\ i >= 1 /\ i + 1 <= 1
          BY <1>2, <1>3, <1>4, <3>1
        <5> QED
          BY <5>1
      <4> QED
        BY <4>1
    <3> QED
      BY <3>1, <3>2 DEF InOrder
  <2>4. CASE jobs[1].type # "RELEASE"
    <3>1. sessionMap'[s] # NoPlayer
      BY <1>2, <2>2, <2>4
    <3>2. s \in closed => JobsOf(s)' # {}
      <4>1. ASSUME s \in closed
            PROVE  \E j \in JobsOf(s) : j # 1
        BY <2>2, <2>4, <4>1
      <4>2. JobsOf(s)' = {} => JobsOf(s) \subseteq {1}
        BY <1>6
      <4> QED
        BY <4>1, <4>2
    <3>3. ASSUME NEW i \in JobsOf(s)'
          PROVE  /\ jobs'[i].type # "ACCEPT"
                 /\ jobs'[i].type = "RELEASE" <=>
                      s \in closed' /\ \A j \in JobsOf(s)' : j <= i
      <4>1. /\ jobs[i + 1].type = "ACCEPT" =>
                 sessionMap[s] = NoPlayer /\ \A j \in JobsOf(s) : i + 1 <= j
            /\ jobs[i + 1].type = "RELEASE" <=>
                 s \in closed /\ \A j \in JobsOf(s) : j <= i + 1
        BY <1>5, <2>1 DEF InOrder
      <4>2. ~(i + 1 <= 1)
        BY <1>2, <1>3
      <4> QED
        BY <1>2, <1>5, <4>1, <4>2
    <3> QED
      BY <3>1, <3>2, <3>3 DEF InOrder
  <2> QED
    BY <2>3, <2>4
<1> QED
  BY <1>7, <1>8 DEF OrderInv

\* Every step keeps the order.
LEMMA OrderStep == ChatInv /\ OrderInv /\ [Next]_vars => OrderInv'
<1> SUFFICES ASSUME ChatInv, OrderInv, [Next]_vars
             PROVE  OrderInv'
  OBVIOUS
<1>0. sessionMap \in [Sessions -> Players \cup {NoPlayer}]
  BY DEF ChatInv, MapsInv, MapType
<1> DEFINE s == Head(jobs).session
<1>h. jobs # <<>> => s \in Sessions
  BY HeadJob DEF ChatInv, Job
<1>1. CASE TestRunning \/ Wake \/ Drained \/ NoTimeYet \/ Stop \/ Tick \/ CheckTimeout
  BY <1>1, OrderQuiet
  DEF TestRunning, Wake, Drained, NoTimeYet, Stop, Tick, CheckTimeout, DisconnectPlayers,
      netVars, jobVars, chatVars
<1>2. CASE ProcessAccept
  <2>1. /\ jobs # <<>> /\ jobs' = Tail(jobs) /\ Head(jobs).type = "ACCEPT"
        /\ UNCHANGED <<opened, closed>>
    BY <1>2 DEF ProcessAccept, Take, netVars
  <2>2. PICK p \in Players : sessionMap' = [sessionMap EXCEPT ![s] = p]
    BY <1>2 DEF ProcessAccept
  <2>3. sessionMap'[s] # NoPlayer /\ \A u \in Sessions \ {s} : sessionMap'[u] = sessionMap[u]
    BY <1>0, <1>h, <2>1, <2>2, ChatAssumption
  <2> HIDE DEF s
  <2> QED
    BY <1>h, <2>1, <2>3, OrderLess DEF s
<1>3. CASE ProcessRelease
  <2>1. /\ jobs # <<>> /\ jobs' = Tail(jobs) /\ Head(jobs).type = "RELEASE"
        /\ UNCHANGED <<opened, closed>>
    BY <1>3 DEF ProcessRelease, Take, netVars
  <2>2. sessionMap'[s] = NoPlayer /\ \A u \in Sessions \ {s} : sessionMap'[u] = sessionMap[u]
    BY <1>0, <1>3, <1>h, <2>1 DEF ProcessRelease, FindPlayer
  <2> HIDE DEF s
  <2> QED
    BY <1>h, <2>1, <2>2, OrderLess DEF s
<1>4. CASE PacketDropped \/ ProcessPacket
  <2>1. /\ jobs # <<>> /\ jobs' = Tail(jobs) /\ Head(jobs).type = "RECV"
    BY <1>4 DEF PacketDropped, ProcessPacket, Take
  <2>2. UNCHANGED <<opened, closed, sessionMap>>
    BY <1>4, HandlersKeep DEF PacketDropped, netVars
  <2> HIDE DEF s
  <2> QED
    BY <1>h, <2>1, <2>2, OrderLess DEF s
<1>5. CASE \E u \in Sessions : OnAccept(u) \/ OnRecv(u) \/ OnRelease(u)
  BY <1>5, OrderMore
<1>6. CASE \E u \in Sessions : Pushing(u)
  BY <1>6, OrderQuiet DEF Pushing, Count, Announce, chatVars
<1>7. CASE UNCHANGED vars
  BY <1>7, OrderQuiet DEF vars, netVars, jobVars, chatVars
<1> QED
  BY <1>1, <1>2, <1>3, <1>4, <1>5, <1>6, <1>7 DEF Next, Contents

LEMMA Ordered == Spec => []OrderInv
<1>1. Init => OrderInv
  BY DEF Init, OrderInv, InOrder, JobsOf
<1> QED
  BY <1>1, Always, OrderStep, PTL DEF Spec

\* Jobs come in the order of a session's life: the job that makes its player
\* first, the one that takes it away last, however many threads push them.
THEOREM JobsOrdered == Spec => []JobsInOrder
<1>1. OrderInv => JobsInOrder
  BY DEF OrderInv, InOrder, JobsInOrder
<1> QED
  BY <1>1, Ordered, PTL

----------------------------------------------------------------------------
(***************************************************************************)
(* The room.                                                               *)
(***************************************************************************)

\* A player has an account number once it is logged in, and a sector only then.
LoginOK ==
  \A p \in Live :
    /\ player[p].isLogin <=> player[p].accountNo # NoAccount
    /\ player[p].sector # NoSector => player[p].isLogin

\* Only the jobs of OnRecv carry a packet.
KindOK == \A i \in 1 .. Len(jobs) : jobs[i].type # "RECV" => jobs[i].packet = Nothing

RoomInv == LoginOK /\ KindOK

\* The room, as Room reads it off the maps.
Here  == {s \in Sessions : sessionMap[s] # NoPlayer}
Name  == [s \in Sessions |-> IF sessionMap[s] = NoPlayer THEN NoAccount
                             ELSE player[sessionMap[s]].accountNo]
Place == [s \in Sessions |-> IF sessionMap[s] = NoPlayer THEN NoSector
                             ELSE player[sessionMap[s]].sector]

\* A player of the room keeps its account number and its sector.
SameIn(p) ==
  /\ player'[p].accountNo = player[p].accountNo /\ player'[p].sector = player[p].sector
  /\ player'[p].isLogin = player[p].isLogin

\* Nothing in the room changes.
LEMMA SameRoom ==
  ASSUME UNCHANGED sessionMap, \A p \in Live : SameIn(p)
  PROVE  /\ Here' = Here /\ Name' = Name /\ Place' = Place
         /\ LoginOK => LoginOK'
<1>1. \A s \in Sessions : sessionMap[s] # NoPlayer => sessionMap[s] \in Live
  BY DEF Live
<1>2. Live' = Live
  BY DEF Live
<1>3. Here' = Here
  BY DEF Here
<1>4. Name' = Name
  BY <1>1 DEF Name, SameIn
<1>5. Place' = Place
  BY <1>1 DEF Place, SameIn
<1>6. LoginOK => LoginOK'
  BY <1>2 DEF LoginOK, SameIn
<1> QED
  BY <1>3, <1>4, <1>5, <1>6

\* The queue carries packets in the jobs of OnRecv alone.
LEMMA KindMore ==
  ASSUME QueueInv, KindOK, NEW s \in Sessions, OnAccept(s) \/ OnRecv(s) \/ OnRelease(s)
  PROVE  KindOK'
<1>1. jobs \in Seq(Job)
  BY DEF QueueInv, QueueType
<1>2. PICK j \in Job :
        jobs' = Append(jobs, j) /\ (j.type # "RECV" => j.packet = Nothing)
  <2>1. CASE OnAccept(s)
    BY <2>1 DEF OnAccept, Link, Job
  <2>2. CASE OnRecv(s)
    BY <2>2 DEF OnRecv, Link, Job
  <2>3. CASE OnRelease(s)
    BY <2>3 DEF OnRelease, Link, Job
  <2> QED
    BY <2>1, <2>2, <2>3
<1>3. Len(jobs') = Len(jobs) + 1 /\ \A i \in 1 .. Len(jobs') :
        jobs'[i] = IF i = Len(jobs) + 1 THEN j ELSE jobs[i]
  BY <1>1, <1>2
<1> QED
  BY <1>1, <1>2, <1>3 DEF KindOK

LEMMA KindLess ==
  ASSUME QueueInv, KindOK, jobs # <<>>, jobs' = Tail(jobs)
  PROVE  KindOK'
<1>1. Len(jobs') = Len(jobs) - 1 /\ \A i \in 1 .. Len(jobs') :
        i + 1 \in 1 .. Len(jobs) /\ jobs'[i] = jobs[i + 1]
  BY DEF QueueInv, QueueType
<1> QED
  BY <1>1 DEF KindOK

\* A step of the room is one of these.
LEMMA RoomCases ==
  ASSUME \/ Room!Refuse
         \/ \E s \in Sessions :
              \/ Room!Come(s) \/ Room!Go(s) \/ Room!Say(s)
              \/ \E a \in Accounts : Room!Login(s, a)
              \/ \E c \in Sectors : Room!Move(s, c)
  PROVE  Room!Next
BY DEF Room!Next, Room!Sectors, Sectors

\* A session comes.
LEMMA Coming ==
  ASSUME ChatInv, RoomInv, ProcessAccept
  PROVE  LoginOK' /\ Room!Next
<1> SUFFICES ASSUME NEW s, s = Head(jobs).session
             PROVE  LoginOK' /\ Room!Next
  OBVIOUS
<1>1. PICK p \in Players \ Live :
        /\ player' = [player EXCEPT ![p] = NewPlayer(s)]
        /\ sessionMap' = [sessionMap EXCEPT ![s] = p]
  BY DEF ProcessAccept
<1>2. /\ Head(jobs) = jobs[1] /\ 1 \in 1 .. Len(jobs) /\ jobs[1] \in Job
      /\ Head(jobs).type = "ACCEPT"
  BY DEF ProcessAccept, Take, ChatInv, QueueInv, QueueType
<1>3. s \in Sessions /\ sessionMap[s] = NoPlayer
  BY <1>2 DEF Job, ChatInv, QueueInv, AcceptsOnce
<1>4. /\ sessionMap \in [Sessions -> Players \cup {NoPlayer}]
      /\ player \in [Players -> Player] /\ p # NoPlayer
  BY ChatAssumption DEF ChatInv, MapsInv, MapType
<1>5. \A u \in Sessions : sessionMap'[u] = IF u = s THEN p ELSE sessionMap[u]
  BY <1>1, <1>3, <1>4
<1>6. \A u \in Sessions : sessionMap[u] # NoPlayer => sessionMap[u] \in Live
  BY DEF Live
<1>7. \A q \in Live : q \in Players /\ player'[q] = player[q]
  BY <1>1, <1>4, LivePlayers DEF ChatInv, MapsInv
<1>8. /\ player'[p].accountNo = NoAccount /\ player'[p].sector = NoSector
      /\ player'[p].isLogin = FALSE
  BY <1>1, <1>4 DEF NewPlayer
<1>9. Here' = Here \cup {s} /\ s \notin Here
  BY <1>3, <1>4, <1>5 DEF Here
<1>10. Name' = Name
  <2>1. \A u \in Sessions : Name'[u] = Name[u]
    BY <1>3, <1>5, <1>6, <1>7, <1>8 DEF Name
  <2> QED
    BY <2>1 DEF Name
<1>11. Place' = Place
  <2>1. \A u \in Sessions : Place'[u] = Place[u]
    BY <1>3, <1>5, <1>6, <1>7, <1>8 DEF Place
  <2> QED
    BY <2>1 DEF Place
<1>12. sent' = Silence
  BY DEF ProcessAccept
<1>13. Room!Come(s)
  BY <1>9, <1>10, <1>11, <1>12 DEF Room!Come, Room!Silence, Silence, Here, Name, Place
<1>14. Live' \subseteq Live \cup {p}
  BY <1>5 DEF Live
<1>15. LoginOK'
  BY <1>7, <1>8, <1>14 DEF LoginOK, RoomInv
<1> QED
  BY <1>3, <1>13, <1>15, RoomCases

\* A session goes.
LEMMA Going ==
  ASSUME ChatInv, RoomInv, ProcessRelease
  PROVE  LoginOK' /\ Room!Next
<1> SUFFICES ASSUME NEW s, s = Head(jobs).session, NEW p, p = sessionMap[s]
             PROVE  LoginOK' /\ Room!Next
  OBVIOUS
<1>1. s \in Sessions
  <2>1. jobs # <<>>
    BY DEF ProcessRelease, Take
  <2> QED
    BY <2>1, HeadJob DEF Job, ChatInv
<1>2. sent' = Silence
  BY DEF ProcessRelease
<1>3. CASE p = NoPlayer
  <2>1. UNCHANGED <<player, sessionMap>>
    BY <1>3 DEF ProcessRelease, FindPlayer
  <2>2. Here' = Here /\ Name' = Name /\ Place' = Place /\ LoginOK'
    BY <2>1, SameRoom DEF SameIn, RoomInv
  <2> QED
    BY <1>2, <2>2, RoomCases DEF Room!Refuse, Room!Silence, Silence, Here, Name, Place
<1>4. CASE p # NoPlayer
  <2>1. p \in Live /\ p \in Players /\ Live \subseteq Players
    BY <1>1, <1>4, LivePlayers DEF Live, ChatInv, MapsInv
  <2>2. IndexOnly(player')
    <3>1. CASE player[p].sector = NoSector
      BY <1>4, <3>1 DEF ProcessRelease, FindPlayer, IndexOnly
    <3>2. CASE player[p].sector # NoSector
      BY <1>4, <2>1, <3>2, LeaveSector DEF ProcessRelease, FindPlayer, ChatInv
    <3> QED
      BY <3>1, <3>2
  <2>3. sessionMap' = [sessionMap EXCEPT ![s] = NoPlayer]
    BY <1>4 DEF ProcessRelease, FindPlayer
  <2>4. \A u \in Sessions : sessionMap'[u] = IF u = s THEN NoPlayer ELSE sessionMap[u]
    BY <1>1, <2>3 DEF ChatInv, MapsInv, MapType
  <2>5. \A q \in Live : SameIn(q)
    BY <2>1, <2>2 DEF IndexOnly, SameIn
  <2>6. \A u \in Sessions : sessionMap[u] # NoPlayer => sessionMap[u] \in Live
    BY DEF Live
  <2>7. Here' = Here \ {s} /\ s \in Here
    BY <1>1, <1>4, <2>4 DEF Here
  <2>8. Name' = [Name EXCEPT ![s] = NoAccount]
    <3>1. \A u \in Sessions : Name'[u] = IF u = s THEN NoAccount ELSE Name[u]
      BY <2>4, <2>5, <2>6 DEF Name, SameIn
    <3> QED
      BY <3>1 DEF Name
  <2>9. Place' = [Place EXCEPT ![s] = NoSector]
    <3>1. \A u \in Sessions : Place'[u] = IF u = s THEN NoSector ELSE Place[u]
      BY <2>4, <2>5, <2>6 DEF Place, SameIn
    <3> QED
      BY <3>1 DEF Place
  <2>10. Room!Go(s)
    BY <1>2, <2>7, <2>8, <2>9 DEF Room!Go, Room!Silence, Silence, Here, Name, Place
  <2>11. Live' \subseteq Live
    BY <2>4 DEF Live
  <2>12. LoginOK'
    BY <2>5, <2>11 DEF LoginOK, RoomInv, SameIn
  <2> QED
    BY <1>1, <2>10, <2>12, RoomCases
<1> QED
  BY <1>3, <1>4

----------------------------------------------------------------------------
(***************************************************************************)
(* What is said.                                                           *)
(***************************************************************************)

\* The loops of PacketProcMessage go over the sectors around, and no other.
LEMMA AroundNear ==
  ASSUME NEW c \in Sectors
  PROVE  Around(c) \subseteq Sectors /\ \A d \in Sectors : d \in Around(c) <=> Room!Near(d, c)
<1> DEFINE begin(x) == IF x = 0 THEN 0 ELSE x - 1
           end(x, max) == IF x = max - 1 THEN x ELSE x + 1
<1>1. PICK x \in 0 .. SectorMaxX - 1, y \in 0 .. SectorMaxY - 1 : c = <<x, y>>
  BY DEF Sectors
<1>2. Around(c) = (begin(x) .. end(x, SectorMaxX)) \X (begin(y) .. end(y, SectorMaxY))
  BY <1>1 DEF Around
<1>3. ASSUME NEW n \in Nat \ {0}, NEW z \in 0 .. n - 1
      PROVE  /\ begin(z) .. end(z, n) \subseteq 0 .. n - 1
             /\ \A w \in 0 .. n - 1 : w \in begin(z) .. end(z, n) <=> w - z \in -1 .. 1
  OBVIOUS
<1> HIDE DEF begin, end
<1>4. /\ begin(x) .. end(x, SectorMaxX) \subseteq 0 .. SectorMaxX - 1
      /\ begin(y) .. end(y, SectorMaxY) \subseteq 0 .. SectorMaxY - 1
  BY <1>3, ChatBounds
<1>5. Around(c) \subseteq Sectors
  BY <1>2, <1>4 DEF Sectors
<1>6. ASSUME NEW d \in Sectors
      PROVE  d \in Around(c) <=> Room!Near(d, c)
  <2>1. PICK u \in 0 .. SectorMaxX - 1, v \in 0 .. SectorMaxY - 1 : d = <<u, v>>
    BY DEF Sectors
  <2>2. d \in Around(c) <=> /\ u \in begin(x) .. end(x, SectorMaxX)
                            /\ v \in begin(y) .. end(y, SectorMaxY)
    BY <1>2, <2>1
  <2>3. /\ u \in begin(x) .. end(x, SectorMaxX) <=> u - x \in -1 .. 1
        /\ v \in begin(y) .. end(y, SectorMaxY) <=> v - y \in -1 .. 1
    BY <1>3, ChatBounds
  <2> QED
    BY <1>1, <2>1, <2>2, <2>3 DEF Room!Near
<1> QED
  BY <1>5, <1>6

\* A session is in the room, in a sector next to c.
Hears(s, c) ==
  /\ sessionMap[s] # NoPlayer
  /\ player[sessionMap[s]].sector # NoSector
  /\ Room!Near(player[sessionMap[s]].sector, c)

\* A broadcast reaches those around once, and nobody else.
LEMMA BroadcastReaches ==
  ASSUME MapsInv, NEW pl, Keeps(pl), NEW c \in Sectors
  PROVE  Broadcast(pl, Around(c)) = [s \in Sessions |-> IF Hears(s, c) THEN 1 ELSE 0]
<1> DEFINE C == Around(c)
           Row(d, s) == {j \in 1 .. Len(sectors[d]) : pl[sectors[d][j]].sessionId = s}
           Hits(s) == UNION {{<<d, i>> : i \in Row(d, s)} : d \in C}
<1>1. C \subseteq Sectors /\ \A d \in Sectors : d \in C <=> Room!Near(d, c)
  BY AroundNear
<1>2. Live \subseteq Players /\ player \in [Players -> Player]
  BY LivePlayers DEF MapsInv, MapType
<1>3. ASSUME NEW s \in Sessions
      PROVE  Cardinality(Hits(s)) = IF Hears(s, c) THEN 1 ELSE 0
  <2> DEFINE p == sessionMap[s]
  <2>1. ASSUME NEW d \in C, NEW i \in Row(d, s)
        PROVE  /\ p # NoPlayer /\ player[p].sector = d
               /\ i = player[p].sectorIndex + 1
    <3>1. /\ sectors[d][i] \in Live /\ player[sectors[d][i]].sector = d
          /\ player[sectors[d][i]].sectorIndex = i - 1 /\ i \in Int
      BY <1>1 DEF MapsInv, SectorsExact
    <3>2. PICK u \in Sessions : sessionMap[u] = sectors[d][i] /\ sessionMap[u] # NoPlayer
      BY <3>1 DEF Live
    <3>3. player[sectors[d][i]].sessionId = s
      BY <1>2, <3>1 DEF Keeps
    <3>4. u = s
      BY <3>2, <3>3 DEF MapsInv, NoDangling
    <3> QED
      BY <3>1, <3>2, <3>4
  <2>2. CASE Hears(s, c)
    <3> DEFINE d0 == player[p].sector
               i0 == player[p].sectorIndex + 1
    <3>1. p \in Live /\ p # NoPlayer /\ d0 # NoSector /\ Room!Near(d0, c)
      BY <2>2 DEF Hears, Live
    <3>2. d0 \in Sectors /\ player[p].sectorIndex \in Nat
      BY <1>2, <3>1 DEF Player
    <3>3. d0 \in C /\ player[p].sectorIndex < Len(sectors[d0]) /\ sectors[d0][i0] = p
      BY <1>1, <3>1, <3>2 DEF MapsInv, SectorsExact
    <3>4. Len(sectors[d0]) \in Nat
      BY <3>2 DEF MapsInv, MapType
    <3>5. pl[p].sessionId = s
      BY <1>2, <3>1 DEF Keeps, MapsInv, NoDangling
    <3>6. i0 \in Row(d0, s)
      <4>1. i0 \in 1 .. Len(sectors[d0])
        BY <3>2, <3>3, <3>4
      <4>2. pl[sectors[d0][i0]].sessionId = s
        BY <3>3, <3>5
      <4> QED
        BY <4>1, <4>2
    <3> HIDE DEF d0, i0, C, Row
    <3>7. Hits(s) = {<<d0, i0>>}
      <4>1. <<d0, i0>> \in Hits(s)
        BY <3>3, <3>6
      <4>2. \A x \in Hits(s) : x = <<d0, i0>>
        BY <2>1 DEF d0, i0
      <4> HIDE DEF Hits
      <4> QED
        BY <4>1, <4>2
    <3> QED
      BY <2>2, <3>7, FS_Singleton
  <2>3. CASE ~Hears(s, c)
    <3>1. Hits(s) = {}
      <4>1. ASSUME NEW d \in C, NEW i \in Row(d, s)
            PROVE  FALSE
        <5>1. d \in Sectors /\ Room!Near(d, c) /\ d # NoSector
          BY <1>1, ChatAssumption
        <5>2. p # NoPlayer /\ player[p].sector = d
          BY <2>1
        <5> QED
          BY <2>3, <5>1, <5>2 DEF Hears
      <4> HIDE DEF C, Row
      <4> QED
        BY <4>1
    <3> QED
      BY <2>3, <3>1, FS_EmptySet
  <2> QED
    BY <2>2, <2>3
<1>4. Broadcast(pl, C) = [s \in Sessions |-> Cardinality(Hits(s))]
  BY DEF Broadcast
<1> HIDE DEF C, Hits
<1> QED
  BY <1>3, <1>4 DEF C

----------------------------------------------------------------------------
(***************************************************************************)
(* The packets.                                                            *)
(***************************************************************************)

\* PacketProc calls a handler: it has set the lastRecvTime of the player.
Answering(s, p, pl) ==
  /\ s \in Sessions /\ p \in Players /\ p = sessionMap[s]
  /\ pl = [player EXCEPT ![p].quiet = 0]

\* What the handler finds: the player of the session.
Finds(s, p, pl) ==
  /\ pl \in [Players -> Player] /\ Keeps(pl)
  /\ p \in Live /\ Live \subseteq Players /\ pl[p].sessionId = s
  /\ \A u \in Sessions : sessionMap[u] = p => u = s
  /\ player \in [Players -> Player]

LEMMA Handled ==
  ASSUME ChatInv, NEW s, NEW p, NEW pl, Answering(s, p, pl)
  PROVE  Finds(s, p, pl)
<1> USE DEF Answering
<1>1. player \in [Players -> Player] /\ 0 \in 0 .. Timeout
  BY ChatBounds DEF ChatInv, MapsInv, MapType
<1>2. pl \in [Players -> Player] /\ Keeps(pl)
  BY <1>1 DEF Player, Keeps
<1>3. p \in Live /\ Live \subseteq Players /\ p # NoPlayer
  BY ChatAssumption, LivePlayers DEF Live, ChatInv, MapsInv
<1> QED
  BY <1>1, <1>2, <1>3 DEF Finds, Keeps, ChatInv, MapsInv, NoDangling

\* The player of one session changes, and no other.
LEMMA RoomChange ==
  ASSUME NEW s \in Sessions, NEW p \in Live, p = sessionMap[s],
         \A u \in Sessions : sessionMap[u] = p => u = s,
         UNCHANGED sessionMap, \A q \in Live \ {p} : SameIn(q)
  PROVE  /\ s \in Here /\ Here' = Here
         /\ Name[s] = player[p].accountNo /\ Place[s] = player[p].sector
         /\ Name' = [Name EXCEPT ![s] = player'[p].accountNo]
         /\ Place' = [Place EXCEPT ![s] = player'[p].sector]
<1>1. p # NoPlayer /\ \A u \in Sessions : sessionMap[u] # NoPlayer => sessionMap[u] \in Live
  BY LiveSession DEF Live
<1>2. s \in Here /\ Here' = Here
  BY <1>1 DEF Here
<1>3. Name[s] = player[p].accountNo /\ Place[s] = player[p].sector
  BY <1>1 DEF Name, Place
<1>4. \A u \in Sessions : /\ Name'[u] = IF u = s THEN player'[p].accountNo ELSE Name[u]
                          /\ Place'[u] = IF u = s THEN player'[p].sector ELSE Place[u]
  BY <1>1 DEF Name, Place, SameIn
<1>5. Name' = [Name EXCEPT ![s] = player'[p].accountNo]
  BY <1>4 DEF Name
<1>6. Place' = [Place EXCEPT ![s] = player'[p].sector]
  BY <1>4 DEF Place
<1> QED
  BY <1>2, <1>3, <1>5, <1>6

\* A request that is refused, or has no answer.
LEMMA Refusing ==
  ASSUME LoginOK, UNCHANGED sessionMap, \A q \in Live : SameIn(q), sent' = Silence
  PROVE  LoginOK' /\ Room!Next
<1>1. Here' = Here /\ Name' = Name /\ Place' = Place /\ LoginOK'
  BY SameRoom
<1>2. Room!Refuse
  BY <1>1 DEF Room!Refuse, Room!Silence, Silence, Here, Name, Place
<1> QED
  BY <1>1, <1>2, RoomCases

\* A handler that changes what the room does not show.
LEMMA HandlerQuiet ==
  ASSUME ChatInv, RoomInv, NEW s \in Sessions, NEW p \in Players, p = sessionMap[s],
         NEW pl, pl = [player EXCEPT ![p].quiet = 0],
         UNCHANGED sessionMap, sent' = Silence, NEW P,
         DisconnectPlayers(pl, P) \/ player' = pl
  PROVE  LoginOK' /\ Room!Next
<1>1. /\ pl \in [Players -> Player] /\ Keeps(pl) /\ Live \subseteq Players
  <2>1. Answering(s, p, pl)
    BY DEF Answering
  <2>2. Finds(s, p, pl)
    BY <2>1, Handled
  <2> QED
    BY <2>2 DEF Finds
<1>2. \A q \in Live : SameIn(q)
  <2>1. CASE DisconnectPlayers(pl, P)
    <3>1. \A q \in Players : /\ player'[q].accountNo = pl[q].accountNo
                             /\ player'[q].sector = pl[q].sector
                             /\ player'[q].isLogin = pl[q].isLogin
      BY <1>1, <2>1, Marks
    <3> QED
      BY <1>1, <3>1 DEF SameIn, Keeps
  <2>2. CASE player' = pl
    BY <1>1, <2>2 DEF SameIn, Keeps
  <2> QED
    BY <2>1, <2>2
<1> QED
  BY <1>2, Refusing DEF RoomInv

\* A login names the session.
LEMMA LoggingIn ==
  ASSUME ChatInv, RoomInv, NEW s \in Sessions, NEW p \in Players, p = sessionMap[s],
         NEW m \in Messages \cup {Nothing},
         NEW pl, pl = [player EXCEPT ![p].quiet = 0], PacketProcLogin(p, m, pl)
  PROVE  LoginOK' /\ Room!Next
<1> DEFINE a == m.account
           pl1 == [pl EXCEPT ![p].accountNo = a, ![p].isLogin = TRUE]
<1>1. m.type = "login" /\ a \in Accounts
  BY ChatAssumption DEF PacketProcLogin, AllMessages, Nothing
<1>2. /\ pl \in [Players -> Player] /\ Keeps(pl)
      /\ p \in Live /\ Live \subseteq Players /\ pl[p].sessionId = s
      /\ \A u \in Sessions : sessionMap[u] = p => u = s
  <2>1. Answering(s, p, pl)
    BY DEF Answering
  <2>2. Finds(s, p, pl)
    BY <2>1, Handled
  <2> QED
    BY <2>2 DEF Finds
<1>3. CASE pl[p].isLogin
  BY <1>3, HandlerQuiet DEF PacketProcLogin, Refuse
<1>4. CASE ~pl[p].isLogin
  <2>1. /\ DisconnectPlayers(pl1, {accountMap[a]} \ {NoPlayer})
        /\ sent' = Only(s) /\ UNCHANGED sessionMap
    BY <1>2, <1>4 DEF PacketProcLogin
  <2>2. /\ pl1 \in [Players -> Player]
        /\ pl1[p].accountNo = a /\ pl1[p].isLogin /\ pl1[p].sector = pl[p].sector
        /\ \A q \in Players : q # p => pl1[q] = pl[q]
    <3> DEFINE r == [pl[p] EXCEPT !.accountNo = a, !.isLogin = TRUE]
    <3>1. pl1 = [pl EXCEPT ![p] = r]
      BY <1>2
    <3>2. r \in Player /\ r.accountNo = a /\ r.isLogin = TRUE /\ r.sector = pl[p].sector
      <4>1. pl[p] \in Player
        BY <1>2
      <4> HIDE DEF a, pl1
      <4> QED
        BY <1>1, <4>1 DEF Player
    <3> HIDE DEF r, pl1
    <3>3. pl1 \in [Players -> Player]
      BY <1>2, <3>1, <3>2
    <3>4. pl1[p] = r /\ \A q \in Players : q # p => pl1[q] = pl[q]
      BY <1>2, <3>1
    <3> QED
      BY <3>2, <3>3, <3>4
  <2> HIDE DEF pl1, a
  <2>3. /\ player'[p].accountNo = a /\ player'[p].isLogin
        /\ player'[p].sector = player[p].sector
        /\ \A q \in Live \ {p} : SameIn(q)
    BY <1>2, <2>1, <2>2, Marks DEF SameIn, Keeps
  <2>4. /\ s \in Here /\ Here' = Here
        /\ Name[s] = player[p].accountNo /\ Place[s] = player[p].sector
        /\ Name' = [Name EXCEPT ![s] = player'[p].accountNo]
        /\ Place' = [Place EXCEPT ![s] = player'[p].sector]
    BY <1>2, <2>1, <2>3, RoomChange
  <2>5. Name[s] = NoAccount
    BY <1>2, <1>4, <2>4 DEF Keeps, RoomInv, LoginOK
  <2>6. Place' = Place
    BY <2>3, <2>4 DEF Place
  <2>7. Room!Login(s, a)
    BY <2>1, <2>3, <2>4, <2>5, <2>6
    DEF Room!Login, Room!Only, Room!Silence, Only, Silence, Here, Name, Place
  <2>8. Live' = Live /\ NoAccount \notin Accounts
    BY <2>1, ChatAssumption DEF Live
  <2>9. LoginOK'
    BY <1>1, <2>3, <2>8 DEF LoginOK, RoomInv, SameIn, a
  <2> QED
    BY <1>1, <2>7, <2>9, RoomCases DEF a
<1> QED
  BY <1>3, <1>4

\* A move, or a refusal of one.
LEMMA Moving ==
  ASSUME ChatInv, RoomInv, NEW s \in Sessions, NEW p \in Players, p = sessionMap[s],
         NEW m \in Messages \cup {Nothing},
         NEW pl, pl = [player EXCEPT ![p].quiet = 0], PacketProcSectorMove(p, m, pl)
  PROVE  LoginOK' /\ Room!Next
<1> DEFINE there == player[p].sector # NoSector
           left == IF there THEN SectorsWithout(p) ELSE sectors
           rest == IF there THEN PlayersWithout(p) ELSE player
           c == m.to
           r == [rest[p] EXCEPT !.quiet = 0, !.sector = c, !.sectorIndex = Len(left[c])]
<1>1. m.type = "move" /\ m \in AllMessages
  <2>1. m.type = "move"
    BY DEF PacketProcSectorMove
  <2> QED
    BY <2>1, ChatAssumption DEF Nothing
<1>2. /\ pl \in [Players -> Player] /\ Keeps(pl) /\ player \in [Players -> Player]
      /\ p \in Live /\ Live \subseteq Players /\ pl[p].sessionId = s
      /\ \A u \in Sessions : sessionMap[u] = p => u = s
  <2>1. Answering(s, p, pl)
    BY DEF Answering
  <2>2. Finds(s, p, pl)
    BY <2>1, Handled
  <2> QED
    BY <2>2 DEF Finds
<1>3. CASE Refuse(p, pl) \/ Break(pl)
  BY <1>3, HandlerQuiet DEF Refuse, Break
<1>4. CASE /\ pl[p].isLogin /\ InRange(c)
           /\ player' = [rest EXCEPT ![p].quiet = 0, ![p].sector = c,
                                     ![p].sectorIndex = Len(left[c])]
           /\ sent' = Only(pl[p].sessionId)
           /\ UNCHANGED sessionMap
  <2>1. c \in Sectors /\ c # NoSector
    BY <1>1, <1>4, MoveInRange, ChatAssumption
  <2>2. rest \in [Players -> Player] /\ IndexOnly(rest)
    BY <1>2, LeaveSector DEF IndexOnly, ChatInv
  <2> HIDE DEF rest, left, there, c
  <2>3. r.sector = c /\ r.accountNo = rest[p].accountNo /\ r.isLogin = rest[p].isLogin
    BY <1>2, <2>2 DEF Player
  <2>4. player' = [rest EXCEPT ![p] = r]
    BY <1>4, <2>2
  <2> HIDE DEF r
  <2>5. player'[p] = r /\ \A q \in Players : q # p => player'[q] = rest[q]
    BY <2>2, <2>4
  <2>6. /\ player'[p].accountNo = player[p].accountNo /\ player'[p].isLogin = player[p].isLogin
        /\ player'[p].sector = c /\ player[p].isLogin
        /\ \A q \in Live \ {p} : SameIn(q)
    <3>1. player[p].isLogin
      BY <1>2, <1>4 DEF Keeps
    <3>2. \A q \in Live \ {p} : SameIn(q)
      BY <1>2, <2>2, <2>5 DEF SameIn, IndexOnly
    <3> QED
      BY <1>2, <2>2, <2>3, <2>5, <3>1, <3>2 DEF IndexOnly
  <2>7. /\ s \in Here /\ Here' = Here
        /\ Name[s] = player[p].accountNo /\ Place[s] = player[p].sector
        /\ Name' = [Name EXCEPT ![s] = player'[p].accountNo]
        /\ Place' = [Place EXCEPT ![s] = player'[p].sector]
    <3>1. UNCHANGED sessionMap
      BY <1>4
    <3> QED
      BY <1>2, <2>6, <3>1, RoomChange
  <2>8. Name[s] # NoAccount
    BY <1>2, <2>6, <2>7 DEF RoomInv, LoginOK
  <2>9. Name' = Name
    BY <2>6, <2>7 DEF Name
  <2>10. Room!Move(s, c)
    <3>1. sent' = Only(s) /\ Place' = [Place EXCEPT ![s] = c] /\ UNCHANGED <<Here, Name>>
      BY <1>2, <1>4, <2>6, <2>7, <2>9
    <3>2. /\ s \in Here /\ Name[s] # NoAccount
          /\ Place' = [Place EXCEPT ![s] = c]
          /\ sent' = Only(s)
          /\ UNCHANGED <<Here, Name>>
      BY <2>7, <2>8, <3>1
    <3> QED
      BY <3>2, Zenon DEF Room!Move, Room!Only, Room!Silence, Only, Silence, Here, Name, Place
  <2>11. Live' = Live
    BY <1>4 DEF Live
  <2>12. LoginOK'
    <3>1. player[p].isLogin <=> player[p].accountNo # NoAccount
      BY <1>2 DEF LoginOK, RoomInv
    <3>2. ASSUME NEW q \in Live
          PROVE  /\ player'[q].isLogin <=> player'[q].accountNo # NoAccount
                 /\ player'[q].sector # NoSector => player'[q].isLogin
      <4>1. CASE q = p
        BY <2>6, <3>1, <4>1
      <4>2. CASE q # p
        <5>1. SameIn(q)
          BY <2>6, <4>2
        <5>2. /\ player[q].isLogin <=> player[q].accountNo # NoAccount
              /\ player[q].sector # NoSector => player[q].isLogin
          BY DEF LoginOK, RoomInv
        <5> QED
          BY <5>1, <5>2 DEF SameIn
      <4> QED
        BY <4>1, <4>2
    <3> QED
      BY <2>11, <3>2 DEF LoginOK
  <2> QED
    BY <2>1, <2>10, <2>12, RoomCases
<1>5. (pl[p].sector # NoSector) = there
  BY <1>2 DEF Keeps
<1> QED
  BY <1>3, <1>4, <1>5 DEF PacketProcSectorMove

\* What PacketProcMessage sends when it accepts the message.
Spoken(p, pl) == player' = pl /\ sent' = Broadcast(pl, Around(pl[p].sector)) /\ UNCHANGED sessionMap

\* A message, or a refusal of one.
LEMMA Saying ==
  ASSUME ChatInv, RoomInv, NEW s \in Sessions, NEW p \in Players, p = sessionMap[s],
         NEW m \in Messages \cup {Nothing},
         NEW pl, pl = [player EXCEPT ![p].quiet = 0], PacketProcMessage(p, m, pl)
  PROVE  LoginOK' /\ Room!Next
<1>1. /\ pl \in [Players -> Player] /\ Keeps(pl) /\ player \in [Players -> Player]
      /\ p \in Live /\ Live \subseteq Players
  <2>1. Answering(s, p, pl)
    BY DEF Answering
  <2>2. Finds(s, p, pl)
    BY <2>1, Handled
  <2> QED
    BY <2>2 DEF Finds
<1>0. p # NoPlayer
  BY ChatAssumption
<1>2. CASE Refuse(p, pl) \/ Break(pl)
  BY <1>2, HandlerQuiet DEF Refuse, Break
<1>3. CASE Spoken(p, pl) /\ pl[p].sector # NoSector
  <2> DEFINE c == player[p].sector
  <2>1. c \in Sectors /\ pl[p].sector = c /\ c # NoSector
    BY <1>1, <1>3 DEF Keeps, Player
  <2>2. sent' = [u \in Sessions |-> IF Hears(u, c) THEN 1 ELSE 0]
    BY <1>1, <1>3, <2>1, BroadcastReaches DEF Spoken, ChatInv
  <2>3. \A q \in Live : SameIn(q)
    BY <1>1, <1>3 DEF SameIn, Keeps, Spoken
  <2>4. Here' = Here /\ Name' = Name /\ Place' = Place /\ LoginOK'
    BY <1>3, <2>3, SameRoom DEF RoomInv, Spoken
  <2>5. s \in Here /\ Place[s] = c
    BY <1>0 DEF Here, Place
  <2> HIDE DEF c
  <2>6. \A u \in Sessions : Hears(u, c) <=>
          u \in Here /\ Place[u] # NoSector /\ Room!Near(Place[u], Place[s])
    BY <2>5 DEF Hears, Here, Place
  <2>7. sent' = [u \in Sessions |->
          IF u \in Here /\ Place[u] # NoSector /\ Room!Near(Place[u], Place[s]) THEN 1 ELSE 0]
    BY <2>2, <2>6
  <2>8. Room!Say(s)
    BY <2>1, <2>4, <2>5, <2>7 DEF Room!Say, Here, Name, Place
  <2> QED
    BY <2>4, <2>8, RoomCases
<1> QED
  BY <1>2, <1>3 DEF PacketProcMessage, Spoken

\* A packet that is taken.
LEMMA PacketRoom ==
  ASSUME ChatInv, RoomInv, ProcessPacket
  PROVE  LoginOK' /\ Room!Next
<1>1. PICK p \in Players :
        LET m == Head(jobs).packet
            pl == [player EXCEPT ![p].quiet = 0]
        IN  /\ Take("RECV") /\ p = FindPlayer
            /\ \/ PacketProcLogin(p, m, pl) \/ PacketProcSectorMove(p, m, pl)
               \/ PacketProcMessage(p, m, pl) \/ PacketProcHeartbeat(p, m, pl)
               \/ PacketMalformed(p, m, pl)
  BY DEF ProcessPacket
<1> SUFFICES ASSUME NEW s, s = Head(jobs).session, NEW m, m = Head(jobs).packet,
                    NEW pl, pl = [player EXCEPT ![p].quiet = 0],
                    \/ PacketProcLogin(p, m, pl) \/ PacketProcSectorMove(p, m, pl)
                    \/ PacketProcMessage(p, m, pl) \/ PacketProcHeartbeat(p, m, pl)
                    \/ PacketMalformed(p, m, pl)
             PROVE  LoginOK' /\ Room!Next
  BY <1>1
<1>2. s \in Sessions /\ m \in Messages \cup {Nothing} /\ p = sessionMap[s]
  BY <1>1, HeadJob DEF Take, ChatInv, Job, FindPlayer
<1>3. CASE PacketProcLogin(p, m, pl)
  BY <1>2, <1>3, LoggingIn
<1>4. CASE PacketProcSectorMove(p, m, pl)
  BY <1>2, <1>4, Moving
<1>5. CASE PacketProcMessage(p, m, pl)
  BY <1>2, <1>5, Saying
<1>6. CASE PacketProcHeartbeat(p, m, pl) \/ PacketMalformed(p, m, pl)
  BY <1>2, <1>6, HandlerQuiet DEF PacketProcHeartbeat, PacketMalformed, Refuse
<1> QED
  BY <1>3, <1>4, <1>5, <1>6

\* Steps the room does not see.
LEMMA RoomStays ==
  ASSUME ChatInv, RoomInv, UNCHANGED <<sessionMap, sent>>, \A q \in Live : SameIn(q), KindOK'
  PROVE  RoomInv' /\ UNCHANGED Room!vars
<1>1. Here' = Here /\ Name' = Name /\ Place' = Place /\ LoginOK'
  BY SameRoom DEF RoomInv
<1>2. UNCHANGED Room!vars
  BY <1>1 DEF Room!vars, Here, Name, Place
<1> QED
  BY <1>1, <1>2 DEF RoomInv

\* Every step keeps the invariant, and is a step of the room or none.
LEMMA RoomStep ==
  ASSUME ChatInv, RoomInv, [Next]_vars
  PROVE  RoomInv' /\ [Room!Next]_Room!vars
<1>0. QueueInv /\ KindOK /\ player \in [Players -> Player] /\ Live \subseteq Players
  BY LivePlayers DEF ChatInv, MapsInv, MapType, RoomInv
<1>1. ASSUME UNCHANGED <<player, sessionMap, sent, jobs>>
      PROVE  RoomInv' /\ UNCHANGED Room!vars
  BY <1>0, <1>1, RoomStays DEF SameIn, KindOK
<1>2. CASE TestRunning \/ Wake \/ Drained \/ NoTimeYet \/ Stop
  BY <1>1, <1>2 DEF TestRunning, Wake, Drained, NoTimeYet, Stop, jobVars, chatVars
<1>3. CASE CheckTimeout
  <2>1. /\ UNCHANGED <<sessionMap, sent, jobs>>
        /\ DisconnectPlayers(player, {p \in Live : player[p].quiet >= Timeout})
    BY <1>3 DEF CheckTimeout, jobVars
  <2>2. \A q \in Live : SameIn(q)
    BY <1>0, <2>1, Marks DEF SameIn
  <2> QED
    BY <1>0, <2>1, <2>2, RoomStays DEF KindOK
<1>4. CASE Tick
  <2>1. UNCHANGED <<sessionMap, sent, jobs>>
    BY <1>4 DEF Tick, jobVars
  <2>2. ASSUME NEW q \in Live
        PROVE  SameIn(q)
    <3>1. PICK n : player'[q] = [player[q] EXCEPT !.quiet = n]
      BY <1>0, <1>4 DEF Tick
    <3> QED
      BY <1>0, <3>1 DEF SameIn, Player
  <2> QED
    BY <1>0, <2>1, <2>2, RoomStays DEF KindOK
<1>5. CASE ProcessAccept
  BY <1>0, <1>5, Coming, KindLess DEF ProcessAccept, Take, RoomInv
<1>6. CASE ProcessRelease
  BY <1>0, <1>6, Going, KindLess DEF ProcessRelease, Take, RoomInv
<1>7. CASE PacketDropped
  <2>1. UNCHANGED <<player, sessionMap>> /\ sent' = Silence
    BY <1>7 DEF PacketDropped
  <2>2. \A q \in Live : SameIn(q)
    BY <2>1 DEF SameIn
  <2>3. KindOK'
    BY <1>0, <1>7, KindLess DEF PacketDropped, Take
  <2> QED
    BY <2>1, <2>2, <2>3, Refusing DEF RoomInv
<1>8. CASE ProcessPacket
  BY <1>0, <1>8, PacketRoom, KindLess DEF ProcessPacket, Take, RoomInv
<1>9. ASSUME NEW s \in Sessions, OnAccept(s) \/ OnRecv(s) \/ OnRelease(s)
      PROVE  RoomInv' /\ UNCHANGED Room!vars
  <2>1. UNCHANGED <<player, sessionMap, sent>>
    BY <1>9 DEF OnAccept, OnRecv, OnRelease, chatVars
  <2>2. KindOK'
    BY <1>0, <1>9, KindMore
  <2> QED
    BY <2>1, <2>2, RoomStays DEF SameIn
<1>10. ASSUME NEW s \in Sessions, Pushing(s)
       PROVE  RoomInv' /\ UNCHANGED Room!vars
  BY <1>1, <1>10 DEF Pushing, Count, Announce, chatVars
<1>11. CASE UNCHANGED vars
  BY <1>1, <1>11 DEF vars, jobVars, chatVars
<1> QED
  BY <1>2, <1>3, <1>4, <1>5, <1>6, <1>7, <1>8, <1>9, <1>10, <1>11 DEF Next, Contents

LEMMA RoomInit == Init => RoomInv /\ Room!Init
<1> SUFFICES ASSUME Init
             PROVE  RoomInv /\ Room!Init
  OBVIOUS
<1>1. \A s \in Sessions : sessionMap[s] = NoPlayer
  BY DEF Init
<1>2. Live = {} /\ jobs = <<>>
  BY DEF Init, Live
<1>3. RoomInv
  BY <1>2 DEF RoomInv, LoginOK, KindOK
<1>4. Room!Init
  BY <1>1 DEF Init, Room!Init, Room!Silence, Silence
<1> QED
  BY <1>3, <1>4

LEMMA RoomHolds == Spec => []RoomInv
BY RoomInit, RoomStep, Always, PTL DEF Spec

\* Whatever callbacks and jobs it is made of, and however late they are, what
\* the clients of ChatServer see is the room: every step of the contents thread
\* is one of ChatRoom's, a broadcast reaches each session around exactly once.
THEOREM RoomImplemented == Spec => ImplementsRoom
<1>1. ChatInv /\ RoomInv /\ [Next]_vars => [Room!Next]_Room!vars
  BY RoomStep
<1> QED
  BY <1>1, RoomInit, RoomHolds, Always, PTL DEF Spec, ImplementsRoom, Room!Spec

\* A message the contents thread takes is heard by all who are around.
LEMMA Heard ==
  ASSUME ChatInv, RoomInv, [Next]_vars, NEW s \in Sessions, Says(s, sessionMap[s]),
         NEW q \in Live
  PROVE  sent'[player[q].sessionId] =
           IF /\ player[q].sector # NoSector
              /\ Room!Near(player[q].sector, player[sessionMap[s]].sector)
           THEN 1 ELSE 0
<1> DEFINE m == Head(jobs).packet
<1>1. /\ jobs # <<>> /\ jobs' = Tail(jobs) /\ jobs \in Seq(Job)
      /\ m.type = "message" /\ m.own /\ m # Nothing
      /\ Head(jobs).session = s
  BY DEF Says, ChatInv, QueueInv, QueueType, Nothing
<1>2. Head(jobs).type = "RECV"
  BY <1>1 DEF RoomInv, KindOK
<1>3. Len(jobs') = Len(jobs) - 1 /\ Len(jobs) \in Nat
  BY <1>1
<1>4. ~UNCHANGED jobs
  BY <1>3
<1>5. ASSUME NEW u \in Sessions
      PROVE  ~(OnAccept(u) \/ OnRecv(u) \/ OnRelease(u))
  <2>1. ASSUME NEW j, jobs' = Append(jobs, j)
        PROVE  FALSE
    <3>1. Len(jobs') = Len(jobs) + 1
      BY <1>1, <2>1
    <3> QED
      BY <1>3, <3>1
  <2> QED
    BY <2>1 DEF OnAccept, OnRecv, OnRelease, Link
<1>6. PacketDropped \/ ProcessPacket
  <2>1. ~(TestRunning \/ Wake \/ Drained \/ NoTimeYet \/ Stop \/ Tick \/ CheckTimeout)
    BY <1>4 DEF TestRunning, Wake, Drained, NoTimeYet, Stop, Tick, CheckTimeout, jobVars
  <2>2. ~(ProcessAccept \/ ProcessRelease)
    BY <1>2 DEF ProcessAccept, ProcessRelease, Take
  <2>3. ~ \E u \in Sessions : Pushing(u)
    BY <1>4 DEF Pushing, Count, Announce
  <2>4. ~UNCHANGED vars
    BY <1>4 DEF vars, jobVars
  <2> QED
    BY <1>5, <2>1, <2>2, <2>3, <2>4 DEF Next, Contents
<1>7. ProcessPacket
  BY <1>1, <1>6 DEF PacketDropped, FindPlayer, Says
<1>8. PICK p \in Players :
        /\ p = sessionMap[s]
        /\ LET pl == [player EXCEPT ![p].quiet = 0] IN PacketProcMessage(p, m, pl)
  BY <1>1, <1>7 DEF ProcessPacket, FindPlayer, PacketProcLogin, PacketProcSectorMove,
                    PacketProcHeartbeat, PacketMalformed
<1> SUFFICES ASSUME NEW pl, pl = [player EXCEPT ![p].quiet = 0], PacketProcMessage(p, m, pl)
             PROVE  sent'[player[q].sessionId] =
                      IF /\ player[q].sector # NoSector
                         /\ Room!Near(player[q].sector, player[sessionMap[s]].sector)
                      THEN 1 ELSE 0
  BY <1>8
<1>9. /\ pl \in [Players -> Player] /\ Keeps(pl) /\ player \in [Players -> Player]
      /\ p \in Live
  <2>1. Answering(s, p, pl)
    BY <1>8 DEF Answering
  <2>2. Finds(s, p, pl)
    BY <2>1, Handled
  <2> QED
    BY <2>2 DEF Finds
<1>10. pl[p].sector = player[p].sector /\ player[p].sector # NoSector /\ pl[p].isLogin
  BY <1>8, <1>9 DEF Keeps, Says, RoomInv, LoginOK
<1>11. sent' = Broadcast(pl, Around(player[p].sector))
  BY <1>1, <1>10 DEF PacketProcMessage
<1>12. player[p].sector \in Sectors
  BY <1>9, <1>10 DEF Player
<1>13. sent' = [u \in Sessions |-> IF Hears(u, player[p].sector) THEN 1 ELSE 0]
  BY <1>9, <1>11, <1>12, BroadcastReaches DEF ChatInv
<1>14. PICK u \in Sessions : sessionMap[u] = q /\ q # NoPlayer
  BY DEF Live
<1>15. player[q].sessionId = u
  BY <1>14 DEF ChatInv, MapsInv, NoDangling
<1> QED
  BY <1>8, <1>13, <1>14, <1>15 DEF Hears

\* No message that PacketProcMessage accepts is lost on its way to those in the
\* sectors around, the speaker included, or sent to one of them twice.
THEOREM MessagesHeard == Spec => MessageHeard
<1>1. ASSUME ChatInv, RoomInv, [Next]_vars
      PROVE  [\A s \in Sessions : Says(s, sessionMap[s]) =>
                \A q \in Live :
                  sent'[player[q].sessionId] =
                    IF /\ player[q].sector # NoSector
                       /\ Room!Near(player[q].sector, player[sessionMap[s]].sector)
                    THEN 1 ELSE 0]_vars
  BY <1>1, Heard
<1> QED
  BY <1>1, RoomHolds, Always, PTL DEF Spec, MessageHeard

=============================================================================
