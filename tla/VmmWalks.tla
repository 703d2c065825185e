------------------------------ MODULE VmmWalks ------------------------------
(***************************************************************************)
(* What the processor's walks through the page tables depend on, and what  *)
(* one store of map_page or unmap_page does to them, for every tree of     *)
(* tables.                                                                 *)
(***************************************************************************)
EXTENDS Vmm, TLAPS

(* The walk to v comes to a table at level l, and which one.               *)
Reaches(m, v, l) == \A j \in 1 .. l - 1 : Path(m, v)[j].present /\ ~ Path(m, v)[j].huge
TableAt(m, v, l) == IF l = 1 THEN Root ELSE Path(m, v)[l - 1].frame

-----------------------------------------------------------------------------
(* The processor's walk, level by level.                                   *)

LEMMA PathUnfolds ==
  ASSUME NEW m, NEW v
  PROVE  /\ Path(m, v)[1] = m[Root][v[1]]
         /\ \A l \in 2 .. 4 :
              Path(m, v)[l] = IF Path(m, v)[l - 1].present /\ ~ Path(m, v)[l - 1].huge
                                THEN m[Path(m, v)[l - 1].frame][v[l]]
                                ELSE Path(m, v)[l - 1]
         /\ Path(m, v) = <<Path(m, v)[1], Path(m, v)[2], Path(m, v)[3], Path(m, v)[4]>>
  <1> DEFINE Below(e, l) == IF e.present /\ ~ e.huge THEN m[e.frame][v[l]] ELSE e
             e1 == m[Root][v[1]]
             e2 == Below(e1, 2)
             e3 == Below(e2, 3)
             e4 == Below(e3, 4)
  <1>1. Path(m, v) = <<e1, e2, e3, e4>>
    BY Zenon DEF Path
  <1>2. /\ Path(m, v)[1] = e1 /\ Path(m, v)[2] = e2
        /\ Path(m, v)[3] = e3 /\ Path(m, v)[4] = e4
    <2> HIDE DEF e1, e2, e3, e4
    <2> QED BY SMTT(60), <1>1
  <1>3. /\ Path(m, v)[2] = Below(Path(m, v)[1], 2)
        /\ Path(m, v)[3] = Below(Path(m, v)[2], 3)
        /\ Path(m, v)[4] = Below(Path(m, v)[3], 4)
    BY ZenonT(60), <1>2
  <1>4. Path(m, v) = <<Path(m, v)[1], Path(m, v)[2], Path(m, v)[3], Path(m, v)[4]>>
    <2> HIDE DEF e1, e2, e3, e4
    <2> QED BY <1>1, <1>2
  <1>5. ASSUME NEW l \in 2 .. 4
        PROVE  Path(m, v)[l] = Below(Path(m, v)[l - 1], l)
    <2>1. l = 2 \/ l = 3 \/ l = 4
      OBVIOUS
    <2> HIDE DEF Below
    <2>2. QED
      BY <2>1, <1>3
  <1>6. QED
    BY ZenonT(60), <1>2, <1>4, <1>5

LEMMA ReachesStep ==
  ASSUME NEW m, NEW v, NEW l \in 2 .. 4
  PROVE  /\ Reaches(m, v, 1)
         /\ Reaches(m, v, l) <=>
              Reaches(m, v, l - 1) /\ Path(m, v)[l - 1].present /\ ~ Path(m, v)[l - 1].huge
  <1>1. 1 .. 1 - 1 = {} /\ 1 .. l - 1 = (1 .. (l - 1) - 1) \cup {l - 1}
    OBVIOUS
  <1>2. QED
    BY <1>1 DEF Reaches

LEMMA PathAt ==
  ASSUME NEW m, NEW v, NEW l \in 1 .. 4, Reaches(m, v, l)
  PROVE  Path(m, v)[l] = m[TableAt(m, v, l)][v[l]]
  <1>1. CASE l = 1
    BY <1>1, PathUnfolds DEF TableAt
  <1>2. CASE l \in 2 .. 4
    BY <1>2, PathUnfolds, ReachesStep DEF TableAt
  <1>3. QED
    BY <1>1, <1>2

(* Below a hole the walk repeats it.                                       *)
LEMMA PathStuck ==
  ASSUME NEW m, NEW v, NEW l \in 2 .. 4, ~ Reaches(m, v, l)
  PROVE  Path(m, v)[l] = Path(m, v)[l - 1]
  <1> DEFINE p == Path(m, v)
             ok(j) == p[j].present /\ ~ p[j].huge
  <1>1. \A j \in 2 .. 4 : ~ ok(j - 1) => p[j] = p[j - 1]
    BY PathUnfolds
  <1>2. Reaches(m, v, l) <=> \A j \in 1 .. l - 1 : ok(j)
    BY DEF Reaches
  <1> HIDE DEF p
  <1>3. CASE l = 2
    <2>1. ~ ok(1)
      BY <1>2, <1>3
    <2>2. p[2] = p[1]
      BY <1>1, <2>1
    <2>3. QED
      BY <2>2, <1>3 DEF p
  <1>4. CASE l = 3
    <2>1. \E j \in {1, 2} : ~ ok(j)
      BY <1>2, <1>4
    <2>2. (~ ok(1) => p[2] = p[1]) /\ (~ ok(2) => p[3] = p[2])
      BY <1>1
    <2>3. QED
      BY <2>1, <2>2, <1>4 DEF p
  <1>5. CASE l = 4
    <2>1. \E j \in {1, 2, 3} : ~ ok(j)
      BY <1>2, <1>5
    <2>2. (~ ok(1) => p[2] = p[1]) /\ (~ ok(2) => p[3] = p[2]) /\ (~ ok(3) => p[4] = p[3])
      BY <1>1
    <2>3. QED
      BY <2>1, <2>2, <1>5 DEF p
  <1>6. QED
    BY <1>3, <1>4, <1>5

(* The walk depends on the entries it meets and on nothing else.           *)
Agree(m, n, v, k) ==
  \A l \in 1 .. k : Reaches(m, v, l) =>
    n[TableAt(m, v, l)][v[l]] = m[TableAt(m, v, l)][v[l]]

LEMMA PathSameUpTo ==
  ASSUME NEW m, NEW n, NEW v, NEW k \in 1 .. 4, Agree(m, n, v, k)
  PROVE  \A l \in 1 .. k : Path(n, v)[l] = Path(m, v)[l]
  <1>1. Path(n, v)[1] = Path(m, v)[1]
    BY PathUnfolds, ReachesStep DEF TableAt, Agree
  <1>2. ASSUME NEW l \in 2 .. 4, l <= k, Path(n, v)[l - 1] = Path(m, v)[l - 1],
               Reaches(n, v, l - 1) <=> Reaches(m, v, l - 1)
        PROVE  /\ Path(n, v)[l] = Path(m, v)[l]
               /\ Reaches(n, v, l) <=> Reaches(m, v, l)
    <2>1. Reaches(n, v, l) <=> Reaches(m, v, l)
      BY <1>2, ReachesStep
    <2>2. CASE Reaches(m, v, l)
      <3>1. TableAt(n, v, l) = TableAt(m, v, l)
        BY <1>2 DEF TableAt
      <3>2. n[TableAt(m, v, l)][v[l]] = m[TableAt(m, v, l)][v[l]]
        BY <1>2, <2>2 DEF Agree
      <3>3. QED
        BY <2>1, <2>2, <3>1, <3>2, PathAt
    <2>3. CASE ~ Reaches(m, v, l)
      BY <1>2, <2>1, <2>3, PathStuck
    <2>4. QED
      BY <2>1, <2>2, <2>3
  <1>3. Reaches(n, v, 1) <=> Reaches(m, v, 1)
    BY ReachesStep
  <1>4. 2 <= k => Path(n, v)[2] = Path(m, v)[2] /\ (Reaches(n, v, 2) <=> Reaches(m, v, 2))
    BY <1>1, <1>3, <1>2
  <1>5. 3 <= k => Path(n, v)[3] = Path(m, v)[3] /\ (Reaches(n, v, 3) <=> Reaches(m, v, 3))
    BY <1>4, <1>2
  <1>6. 4 <= k => Path(n, v)[4] = Path(m, v)[4]
    BY <1>5, <1>2
  <1>7. QED
    <2>1. \A l \in 1 .. k : l = 1 \/ l = 2 \/ l = 3 \/ l = 4
      OBVIOUS
    <2>2. QED
      BY <2>1, <1>1, <1>4, <1>5, <1>6

LEMMA PathSame ==
  ASSUME NEW m, NEW n, NEW v, Agree(m, n, v, 4)
  PROVE  Path(n, v) = Path(m, v)
  <1>1. \A l \in 1 .. 4 : Path(n, v)[l] = Path(m, v)[l]
    BY PathSameUpTo
  <1>2. /\ Path(n, v)[1] = Path(m, v)[1] /\ Path(n, v)[2] = Path(m, v)[2]
        /\ Path(n, v)[3] = Path(m, v)[3] /\ Path(n, v)[4] = Path(m, v)[4]
    BY <1>1
  <1>3. QED
    BY <1>2, PathUnfolds

(* Pages with the first k indices in common share the way to level k + 1.  *)
LEMMA PathPrefix ==
  ASSUME NEW m, NEW u, NEW v, NEW k \in 0 .. 4, \A j \in 1 .. k : v[j] = u[j]
  PROVE  \A j \in 1 .. k : Path(m, v)[j] = Path(m, u)[j]
  <1>1. k >= 1 => Path(m, v)[1] = Path(m, u)[1]
    BY PathUnfolds
  <1>2. ASSUME NEW l \in 2 .. 4, l <= k, Path(m, v)[l - 1] = Path(m, u)[l - 1]
        PROVE  Path(m, v)[l] = Path(m, u)[l]
    <2>1. v[l] = u[l]
      BY <1>2
    <2>2. QED
      BY <2>1, <1>2, PathUnfolds
  <1>3. k >= 2 => Path(m, v)[2] = Path(m, u)[2]
    BY <1>1, <1>2
  <1>4. k >= 3 => Path(m, v)[3] = Path(m, u)[3]
    BY <1>3, <1>2
  <1>5. k >= 4 => Path(m, v)[4] = Path(m, u)[4]
    BY <1>4, <1>2
  <1>6. \A j \in 1 .. k : j = 1 \/ j = 2 \/ j = 3 \/ j = 4
    OBVIOUS
  <1>7. QED
    BY <1>1, <1>3, <1>4, <1>5, <1>6

-----------------------------------------------------------------------------
(* The tree of tables, level by level.                                     *)
Levels(m, T) ==
  /\ Root \in T
  /\ \A v \in Virts, l \in 1 .. 4 : Reaches(m, v, l) => TableAt(m, v, l) \in T
  /\ \A u, v \in Virts, k, l \in 1 .. 4 :
       Reaches(m, u, k) /\ Reaches(m, v, l) /\ TableAt(m, u, k) = TableAt(m, v, l)
         => k = l /\ \A j \in 1 .. k - 1 : u[j] = v[j]

NoHuge(m) == \A v \in Virts, l \in 1 .. 3 : Path(m, v)[l].present => ~ Path(m, v)[l].huge

LEMMA PrefixEqual ==
  ASSUME NEW u, NEW v, NEW k \in 1 .. 4, NEW l \in 1 .. 4
  PROVE  Prefix(u, k - 1) = Prefix(v, l - 1) <=> k = l /\ \A j \in 1 .. k - 1 : u[j] = v[j]
  <1>1. ASSUME Prefix(u, k - 1) = Prefix(v, l - 1)
        PROVE  k = l /\ \A j \in 1 .. k - 1 : u[j] = v[j]
    <2>1. 1 .. k - 1 = 1 .. l - 1
      <3>1. DOMAIN Prefix(u, k - 1) = 1 .. k - 1 /\ DOMAIN Prefix(v, l - 1) = 1 .. l - 1
        BY DEF Prefix
      <3>2. QED
        BY <1>1, <3>1
    <2>2. k = l
      <3>1. k - 1 \in 1 .. k - 1 \/ k = 1
        OBVIOUS
      <3>2. l - 1 \in 1 .. l - 1 \/ l = 1
        OBVIOUS
      <3>3. QED
        BY <2>1, <3>1, <3>2
    <2>3. ASSUME NEW j \in 1 .. k - 1
          PROVE  u[j] = v[j]
      <3>1. Prefix(u, k - 1)[j] = u[j] /\ Prefix(v, l - 1)[j] = v[j]
        BY <2>2 DEF Prefix
      <3>2. QED
        BY <1>1, <3>1
    <2>4. QED
      BY <2>2, <2>3
  <1>2. ASSUME k = l, \A j \in 1 .. k - 1 : u[j] = v[j]
        PROVE  Prefix(u, k - 1) = Prefix(v, l - 1)
    BY <1>2 DEF Prefix
  <1>3. QED
    BY <1>1, <1>2

LEMMA PlacesLevels ==
  ASSUME NEW m, NEW a
  PROVE  a \in Places(m) <=>
           \/ a = <<Prefix(<<>>, 0), Root>>
           \/ \E v \in Virts, l \in 1 .. 4 :
                Reaches(m, v, l) /\ a = <<Prefix(v, l - 1), TableAt(m, v, l)>>
  <1> DEFINE below(v) == {k \in 1 .. 3 : \A j \in 1 .. k : Path(m, v)[j].present /\ ~ Path(m, v)[j].huge}
  <1>1. a \in Places(m) <=>
          \/ a = <<Prefix(<<>>, 0), Root>>
          \/ \E v \in Virts : \E k \in below(v) : a = <<Prefix(v, k), Path(m, v)[k].frame>>
    BY DEF Places
  <1>2. ASSUME NEW v \in Virts, NEW k \in below(v), a = <<Prefix(v, k), Path(m, v)[k].frame>>
        PROVE  \E l \in 1 .. 4 : Reaches(m, v, l) /\ a = <<Prefix(v, l - 1), TableAt(m, v, l)>>
    <2> DEFINE l == k + 1
    <2>1. l \in 1 .. 4 /\ l - 1 = k /\ l # 1
      OBVIOUS
    <2>2. Reaches(m, v, l) /\ TableAt(m, v, l) = Path(m, v)[k].frame
      BY <2>1 DEF Reaches, TableAt
    <2> HIDE DEF l
    <2>3. QED
      BY <1>2, <2>1, <2>2
  <1>3. ASSUME NEW v \in Virts, NEW l \in 1 .. 4, Reaches(m, v, l),
               a = <<Prefix(v, l - 1), TableAt(m, v, l)>>
        PROVE  \/ a = <<Prefix(<<>>, 0), Root>>
               \/ \E k \in below(v) : a = <<Prefix(v, k), Path(m, v)[k].frame>>
    <2>1. CASE l = 1
      <3>1. Prefix(v, 0) = Prefix(<<>>, 0)
        BY DEF Prefix
      <3>2. QED
        BY <1>3, <2>1, <3>1 DEF TableAt
    <2>2. CASE l \in 2 .. 4
      <3> DEFINE k == l - 1
      <3>1. k \in 1 .. 3 /\ l # 1
        BY <2>2
      <3>2. k \in below(v)
        BY <1>3, <3>1 DEF Reaches
      <3>3. a = <<Prefix(v, k), Path(m, v)[k].frame>>
        BY <1>3, <3>1 DEF TableAt
      <3> HIDE DEF k
      <3>4. QED
        BY <3>2, <3>3
    <2>3. QED
      BY <2>1, <2>2
  <1>4. QED
    BY <1>1, <1>2, <1>3

LEMMA TreeLevels ==
  ASSUME NEW m, NEW T
  PROVE  Tree(m, T) <=> Levels(m, T)
  <1> DEFINE root == <<Prefix(<<>>, 0), Root>>
             at(v, l) == <<Prefix(v, l - 1), TableAt(m, v, l)>>
  <1>1. root \in Places(m) /\ \A v \in Virts, l \in 1 .. 4 : Reaches(m, v, l) => at(v, l) \in Places(m)
    BY PlacesLevels
  <1>2. ASSUME Tree(m, T) PROVE Levels(m, T)
    <2>1. Root \in T /\ \A v \in Virts, l \in 1 .. 4 : Reaches(m, v, l) => TableAt(m, v, l) \in T
      <3>1. root[2] = Root /\ \A v \in Virts, l \in 1 .. 4 : at(v, l)[2] = TableAt(m, v, l)
        OBVIOUS
      <3>2. QED
        BY ZenonT(60), <1>1, <1>2, <3>1 DEF Tree
    <2>2. ASSUME NEW u \in Virts, NEW v \in Virts, NEW k \in 1 .. 4, NEW l \in 1 .. 4,
                 Reaches(m, u, k), Reaches(m, v, l), TableAt(m, u, k) = TableAt(m, v, l)
          PROVE  k = l /\ \A j \in 1 .. k - 1 : u[j] = v[j]
      <3>1. at(u, k) \in Places(m) /\ at(v, l) \in Places(m) /\ at(u, k)[2] = at(v, l)[2]
        BY ZenonT(60), <1>1, <2>2
      <3>2. at(u, k)[1] = at(v, l)[1]
        BY <1>2, <3>1 DEF Tree
      <3>3. Prefix(u, k - 1) = Prefix(v, l - 1)
        BY <3>2
      <3>4. QED
        BY <3>3, PrefixEqual
    <2>3. QED
      BY <2>1, <2>2 DEF Levels
  <1>3. ASSUME Levels(m, T) PROVE Tree(m, T)
    <2>1. ASSUME NEW a \in Places(m)
          PROVE  a = root \/ \E v \in Virts, l \in 1 .. 4 : Reaches(m, v, l) /\ a = at(v, l)
      BY <2>1, PlacesLevels
    <2>2. ASSUME NEW a \in Places(m) PROVE a[2] \in T
      BY <1>3, <2>1 DEF Levels
    <2>3. ASSUME NEW a \in Places(m), NEW b \in Places(m), a[2] = b[2]
          PROVE  a[1] = b[1]
      <3>1. ASSUME NEW u \in Virts, NEW v \in Virts, NEW k \in 1 .. 4, NEW l \in 1 .. 4,
                   Reaches(m, u, k), Reaches(m, v, l), a = at(u, k), b = at(v, l)
            PROVE  a[1] = b[1]
        <4>1. TableAt(m, u, k) = TableAt(m, v, l)
          BY <2>3, <3>1
        <4>2. Prefix(u, k - 1) = Prefix(v, l - 1)
          BY <1>3, <3>1, <4>1, PrefixEqual DEF Levels
        <4>3. QED
          BY <3>1, <4>2
      <3>2. ASSUME NEW v \in Virts, NEW l \in 1 .. 4, Reaches(m, v, l),
                   TableAt(m, v, l) = Root
            PROVE  Prefix(v, l - 1) = Prefix(<<>>, 0)
        <4>1. Reaches(m, v, 1) /\ TableAt(m, v, 1) = Root
          BY ReachesStep DEF TableAt
        <4>2. l = 1
          BY <1>3, <3>2, <4>1 DEF Levels
        <4>3. QED
          BY <4>2 DEF Prefix
      <3>3. QED
        BY <2>1, <2>3, <3>1, <3>2
    <2>4. QED
      BY <2>2, <2>3 DEF Tree
  <1>4. QED
    BY <1>2, <1>3

-----------------------------------------------------------------------------
(* What one store into a table does to the walks.                          *)
Memory == [Reachable -> [Index -> Entry]]

Stored(m, u, n, e) == [m EXCEPT ![TableAt(m, u, n)][u[n]] = e]

LEMMA StoredWord ==
  ASSUME NEW m \in Memory, NEW T \in SUBSET Reachable, Levels(m, T),
         NEW u \in Virts, NEW n \in 1 .. 4, Reaches(m, u, n), NEW e
  PROVE  /\ TableAt(m, u, n) \in Reachable /\ u[n] \in Index
         /\ \A f \in Reachable, i \in Index :
              Stored(m, u, n, e)[f][i] =
                IF f = TableAt(m, u, n) /\ i = u[n] THEN e ELSE m[f][i]
         /\ e \in Entry => Stored(m, u, n, e) \in Memory
  <1>1. TableAt(m, u, n) \in Reachable /\ u[n] \in Index
    BY VmmAssumption DEF Levels
  <1>2. \A f \in Reachable, i \in Index :
          Stored(m, u, n, e)[f][i] =
            IF f = TableAt(m, u, n) /\ i = u[n] THEN e ELSE m[f][i]
    BY <1>1 DEF Stored, Memory
  <1>3. e \in Entry => Stored(m, u, n, e) \in Memory
    BY <1>1 DEF Stored, Memory
  <1>4. QED
    BY <1>1, <1>2, <1>3

(* A page with other indices does not see it.                              *)
LEMMA StoredElsewhere ==
  ASSUME NEW m \in Memory, NEW T \in SUBSET Reachable, Levels(m, T),
         NEW u \in Virts, NEW n \in 1 .. 4, Reaches(m, u, n), NEW e,
         NEW v \in Virts, ~ \A j \in 1 .. n : v[j] = u[j]
  PROVE  Path(Stored(m, u, n, e), v) = Path(m, v)
  <1> DEFINE w == Stored(m, u, n, e)
  <1>1. ASSUME NEW l \in 1 .. 4, Reaches(m, v, l)
        PROVE  w[TableAt(m, v, l)][v[l]] = m[TableAt(m, v, l)][v[l]]
    <2>1. TableAt(m, v, l) \in Reachable /\ v[l] \in Index
      BY <1>1, VmmAssumption DEF Levels
    <2>2. ~ (TableAt(m, v, l) = TableAt(m, u, n) /\ v[l] = u[n])
      <3>1. SUFFICES ASSUME TableAt(m, v, l) = TableAt(m, u, n), v[l] = u[n] PROVE FALSE
        OBVIOUS
      <3>2. l = n /\ \A j \in 1 .. l - 1 : v[j] = u[j]
        BY <1>1, <3>1 DEF Levels
      <3>3. \A j \in 1 .. n : j \in 1 .. l - 1 \/ j = l
        BY <3>2
      <3>4. QED
        BY <3>1, <3>2, <3>3
    <2>3. QED
      BY <2>1, <2>2, StoredWord
  <1>2. Agree(m, w, v, 4)
    BY <1>1 DEF Agree
  <1> HIDE DEF w
  <1>3. Path(w, v) = Path(m, v)
    BY <1>2, PathSame
  <1>4. QED
    BY <1>3 DEF w

(* A page that shares the table meets the new entry there.                 *)
LEMMA StoredBelow ==
  ASSUME NEW m \in Memory, NEW T \in SUBSET Reachable, Levels(m, T),
         NEW u \in Virts, NEW n \in 1 .. 4, Reaches(m, u, n), NEW e,
         NEW v \in Virts, \A j \in 1 .. n : v[j] = u[j]
  PROVE  /\ \A l \in 1 .. n - 1 : Path(Stored(m, u, n, e), v)[l] = Path(m, v)[l]
         /\ Reaches(m, v, n) /\ TableAt(m, v, n) = TableAt(m, u, n)
         /\ Reaches(Stored(m, u, n, e), v, n)
         /\ Path(Stored(m, u, n, e), v)[n] = e
  <1> DEFINE w == Stored(m, u, n, e)
  <1>1. \A j \in 1 .. n : Path(m, v)[j] = Path(m, u)[j]
    <2>1. n \in 0 .. 4
      OBVIOUS
    <2>2. QED
      BY <2>1, PathPrefix
  <1>2. Reaches(m, v, n) /\ TableAt(m, v, n) = TableAt(m, u, n)
    <2>1. \A j \in 1 .. n - 1 : j \in 1 .. n
      OBVIOUS
    <2>2. Reaches(m, v, n)
      BY <1>1, <2>1 DEF Reaches
    <2>3. n # 1 => n - 1 \in 1 .. n
      OBVIOUS
    <2>4. QED
      BY <1>1, <2>2, <2>3 DEF TableAt
  <1>3. ASSUME NEW l \in 1 .. n - 1, Reaches(m, v, l)
        PROVE  w[TableAt(m, v, l)][v[l]] = m[TableAt(m, v, l)][v[l]]
    <2>1. l \in 1 .. 4 /\ l # n
      OBVIOUS
    <2>2. TableAt(m, v, l) \in Reachable /\ v[l] \in Index
      BY <1>3, <2>1, VmmAssumption DEF Levels
    <2>3. TableAt(m, v, l) # TableAt(m, u, n)
      BY <1>3, <2>1 DEF Levels
    <2>4. QED
      BY <2>2, <2>3, StoredWord
  <1>4. \A l \in 1 .. n - 1 : Path(w, v)[l] = Path(m, v)[l]
    <2>1. CASE n = 1
      BY <2>1
    <2>2. CASE n \in 2 .. 4
      <3> DEFINE k == n - 1
      <3>1. k \in 1 .. 4
        BY <2>2
      <3>2. \A l \in 1 .. k : Reaches(m, v, l) =>
              w[TableAt(m, v, l)][v[l]] = m[TableAt(m, v, l)][v[l]]
        BY <1>3
      <3>3. Agree(m, w, v, k)
        BY <3>2 DEF Agree
      <3> HIDE DEF k, w
      <3>4. \A l \in 1 .. k : Path(w, v)[l] = Path(m, v)[l]
        BY <3>1, <3>3, PathSameUpTo
      <3>5. QED
        BY <3>4 DEF k
    <2>3. QED
      BY <2>1, <2>2
  <1>5. Reaches(w, v, n) /\ TableAt(w, v, n) = TableAt(m, u, n)
    <2> HIDE DEF w
    <2>1. Reaches(w, v, n)
      BY <1>2, <1>4 DEF Reaches
    <2>2. n # 1 => n - 1 \in 1 .. n - 1
      OBVIOUS
    <2>3. QED
      BY <1>2, <1>4, <2>1, <2>2 DEF TableAt
  <1>6. Path(w, v)[n] = e
    <2>1. w[TableAt(m, u, n)][u[n]] = e
      BY StoredWord
    <2>2. v[n] = u[n]
      OBVIOUS
    <2> HIDE DEF w
    <2>3. QED
      BY <1>5, <2>1, <2>2, PathAt
  <1>7. QED
    BY <1>2, <1>4, <1>5, <1>6

(* A tree is its entries above the last level.                             *)
LEMMA SameAbove ==
  ASSUME NEW m, NEW w, NEW v, NEW l \in 1 .. 4,
         \A j \in 1 .. 3 : Path(w, v)[j] = Path(m, v)[j]
  PROVE  (Reaches(w, v, l) <=> Reaches(m, v, l)) /\ TableAt(w, v, l) = TableAt(m, v, l)
  <1>1. \A j \in 1 .. l - 1 : j \in 1 .. 3
    OBVIOUS
  <1>2. l # 1 => l - 1 \in 1 .. 3
    OBVIOUS
  <1>3. QED
    BY <1>1, <1>2 DEF Reaches, TableAt

LEMMA SameTree ==
  ASSUME NEW m, NEW w, NEW T, Levels(m, T), NoHuge(m),
         \A v \in Virts, j \in 1 .. 3 : Path(w, v)[j] = Path(m, v)[j]
  PROVE  Levels(w, T) /\ NoHuge(w)
  <1>1. \A v \in Virts, l \in 1 .. 4 :
          (Reaches(w, v, l) <=> Reaches(m, v, l)) /\ TableAt(w, v, l) = TableAt(m, v, l)
    BY SameAbove
  <1>2. Levels(w, T)
    BY <1>1 DEF Levels
  <1>3. NoHuge(w)
    BY DEF NoHuge
  <1>4. QED
    BY <1>2, <1>3

(* The store of map_page and unmap_page at the last level.                 *)
LEMMA LeafStored ==
  ASSUME NEW m \in Memory, NEW T \in SUBSET Reachable, Levels(m, T), NoHuge(m),
         NEW u \in Virts, Reaches(m, u, 4), NEW e
  PROVE  /\ \A v \in Virts : v # u => Path(Stored(m, u, 4, e), v) = Path(m, v)
         /\ \A v \in Virts, j \in 1 .. 3 : Path(Stored(m, u, 4, e), v)[j] = Path(m, v)[j]
         /\ Path(Stored(m, u, 4, e), u)[4] = e
         /\ Levels(Stored(m, u, 4, e), T) /\ NoHuge(Stored(m, u, 4, e))
  <1> DEFINE n == 4
             w == Stored(m, u, n, e)
  <1>1. ASSUME NEW v \in Virts, v # u PROVE Path(w, v) = Path(m, v)
    <2>1. ~ \A j \in 1 .. n : v[j] = u[j]
      BY <1>1, VmmAssumption
    <2>2. n \in 1 .. 4 /\ Reaches(m, u, n)
      OBVIOUS
    <2> HIDE DEF n
    <2>3. QED
      BY <2>1, <2>2, StoredElsewhere
  <1>2. (\A j \in 1 .. n - 1 : Path(w, u)[j] = Path(m, u)[j]) /\ Path(w, u)[n] = e
    <2>1. n \in 1 .. 4 /\ Reaches(m, u, n)
      OBVIOUS
    <2> HIDE DEF n
    <2>2. QED
      BY <2>1, StoredBelow
  <1>3. \A v \in Virts, j \in 1 .. 3 : Path(w, v)[j] = Path(m, v)[j]
    <2> HIDE DEF w
    <2>1. QED
      BY <1>1, <1>2
  <1>4. Levels(w, T) /\ NoHuge(w)
    <2> HIDE DEF w
    <2>1. QED
      BY ZenonT(30), <1>3, SameTree
  <1>5. QED
    BY <1>1, <1>2, <1>3, <1>4

(* Below a hole there is nothing.                                          *)
LEMMA HoleBelow ==
  ASSUME NEW m, NEW v, NEW n \in 1 .. 4
  PROVE  /\ ~ Path(m, v)[n].present => \A l \in n .. 4 : ~ Path(m, v)[l].present
         /\ Path(m, v)[n] = Empty => \A l \in n .. 4 : Path(m, v)[l] = Empty
  <1> DEFINE p == Path(m, v)
  <1>1. \A l \in 2 .. 4 : ~ p[l - 1].present => p[l] = p[l - 1]
    BY PathUnfolds
  <1> HIDE DEF p
  <1>2. /\ ~ p[1].present => p[2] = p[1]
        /\ ~ p[2].present => p[3] = p[2]
        /\ ~ p[3].present => p[4] = p[3]
    BY ONLY <1>1
  <1>3. ~ Empty.present
    BY DEF Empty
  <1>4. \A l \in n .. 4 : l = 1 \/ l = 2 \/ l = 3 \/ l = 4
    OBVIOUS
  <1>5. n = 1 \/ n = 2 \/ n = 3 \/ n = 4
    OBVIOUS
  <1>6. ~ p[n].present => \A l \in n .. 4 : ~ p[l].present
    BY <1>2, <1>4, <1>5
  <1>7. p[n] = Empty => \A l \in n .. 4 : p[l] = Empty
    BY <1>2, <1>3, <1>4, <1>5
  <1>8. QED
    BY ONLY <1>6, <1>7 DEF p

(* The store of map_page that hangs a cleared table f, which no walk comes  *)
(* to yet, into the hole that u meets at level n.                          *)
Under(v, u, n) == \A j \in 1 .. n : v[j] = u[j]

Hangs(w, m, T, u, n, f, e) ==
  /\ m \in Memory /\ T \in SUBSET Reachable /\ Levels(m, T) /\ NoHuge(m)
  /\ u \in Virts /\ n \in 1 .. 3 /\ Reaches(m, u, n) /\ ~ Path(m, u)[n].present
  /\ f \in T /\ m[f] = [i \in Index |-> Empty]
  /\ \A v \in Virts, l \in 1 .. 4 : Reaches(m, v, l) => TableAt(m, v, l) # f
  /\ e.present /\ ~ e.huge /\ e.frame = f
  /\ w = Stored(m, u, n, e)

LEMMA HangElsewhere ==
  ASSUME NEW m, NEW T, NEW u, NEW n, NEW f, NEW e, NEW w, Hangs(w, m, T, u, n, f, e),
         NEW v \in Virts, ~ Under(v, u, n)
  PROVE  Path(w, v) = Path(m, v)
  <1>0. n \in 1 .. 3
    BY Zenon DEF Hangs
  <1>1. n \in 1 .. 4
    BY ONLY <1>0
  <1>2. /\ m \in Memory /\ T \in SUBSET Reachable /\ Levels(m, T)
        /\ u \in Virts /\ Reaches(m, u, n) /\ w = Stored(m, u, n, e)
    BY Zenon DEF Hangs
  <1>3. ~ \A j \in 1 .. n : v[j] = u[j]
    BY Zenon DEF Under
  <1>4. QED
    BY ONLY <1>1, <1>2, <1>3, v \in Virts, StoredElsewhere

LEMMA HangAbove ==
  ASSUME NEW m, NEW T, NEW u, NEW n, NEW f, NEW e, NEW w, Hangs(w, m, T, u, n, f, e),
         NEW v \in Virts, Under(v, u, n)
  PROVE  /\ \A l \in 1 .. n - 1 : Path(w, v)[l] = Path(m, v)[l]
         /\ Reaches(m, v, n) /\ Reaches(w, v, n)
         /\ Path(w, v)[n] = e /\ ~ Path(m, v)[n].present
  <1>0. n \in 1 .. 3
    BY Zenon DEF Hangs
  <1>1. n \in 1 .. 4 /\ n \in 0 .. 4 /\ n \in 1 .. n
    BY ONLY <1>0
  <1>2. /\ m \in Memory /\ T \in SUBSET Reachable /\ Levels(m, T)
        /\ u \in Virts /\ Reaches(m, u, n) /\ w = Stored(m, u, n, e)
    BY Zenon DEF Hangs
  <1>3. \A j \in 1 .. n : v[j] = u[j]
    BY Zenon DEF Under
  <1>4. /\ \A l \in 1 .. n - 1 : Path(w, v)[l] = Path(m, v)[l]
        /\ Reaches(m, v, n) /\ Reaches(w, v, n)
        /\ Path(w, v)[n] = e
    BY ONLY <1>1, <1>2, <1>3, v \in Virts, StoredBelow
  <1>5. Path(m, v)[n] = Path(m, u)[n]
    BY ONLY <1>1, <1>3, PathPrefix
  <1>6. QED
    BY <1>4, <1>5, Zenon DEF Hangs

(* A page below the hole: nothing before, the cleared table now.           *)
LEMMA HangBelow ==
  ASSUME NEW m, NEW T, NEW u, NEW n, NEW f, NEW e, NEW w, Hangs(w, m, T, u, n, f, e),
         NEW v \in Virts, Under(v, u, n)
  PROVE  /\ \A l \in n .. 4 : ~ Path(m, v)[l].present
         /\ \A l \in n + 1 .. 4 : ~ Path(w, v)[l].present
         /\ Reaches(w, v, n + 1) /\ TableAt(w, v, n + 1) = f
  <1>n. n \in 1 .. 3
    BY Zenon DEF Hangs
  <1>0. n \in 1 .. 4 /\ n + 1 \in 1 .. 4 /\ n + 1 \in 2 .. 4 /\ n + 1 # 1 /\ (n + 1) - 1 = n
    BY ONLY <1>n
  <1>1. /\ m \in Memory /\ T \in SUBSET Reachable /\ Levels(m, T) /\ f \in T
        /\ u \in Virts /\ Reaches(m, u, n) /\ w = Stored(m, u, n, e)
        /\ e.present /\ ~ e.huge /\ e.frame = f
    BY Zenon DEF Hangs
  <1>2. Reaches(w, v, n) /\ Path(w, v)[n] = e /\ ~ Path(m, v)[n].present
    BY HangAbove
  <1>3. Reaches(w, v, n + 1)
    BY ONLY <1>0, <1>1, <1>2, ReachesStep
  <1>4. TableAt(w, v, n + 1) = f
    BY ONLY <1>0, <1>1, <1>2 DEF TableAt
  <1>5. Path(w, v)[n + 1] = w[f][v[n + 1]]
    BY ONLY <1>0, <1>3, <1>4, PathAt
  <1>6. v[n + 1] \in Index /\ f \in Reachable
    BY ONLY <1>0, <1>1, v \in Virts, VmmAssumption
  <1>7. f # TableAt(m, u, n)
    BY <1>0, <1>1, Zenon DEF Hangs
  <1>8. w[f][v[n + 1]] = m[f][v[n + 1]]
    BY ONLY <1>0, <1>1, <1>6, <1>7, StoredWord
  <1>9. m[f][v[n + 1]] = Empty
    BY <1>6 DEF Hangs
  <1>10. Path(w, v)[n + 1] = Empty
    BY ONLY <1>5, <1>8, <1>9
  <1>11. \A l \in n + 1 .. 4 : Path(w, v)[l] = Empty
    BY ONLY <1>0, <1>10, HoleBelow
  <1>12. \A l \in n .. 4 : ~ Path(m, v)[l].present
    BY ONLY <1>0, <1>2, HoleBelow
  <1>13. ~ Empty.present
    BY DEF Empty
  <1>14. QED
    BY ONLY <1>3, <1>4, <1>11, <1>12, <1>13

(* The tables the walks come to: those of before, and the new one.         *)
LEMMA HangReaches ==
  ASSUME NEW m, NEW T, NEW u, NEW n, NEW f, NEW e, NEW w, Hangs(w, m, T, u, n, f, e),
         NEW v \in Virts, NEW l \in 1 .. 4, Reaches(w, v, l)
  PROVE  \/ Reaches(m, v, l) /\ TableAt(w, v, l) = TableAt(m, v, l)
         \/ Under(v, u, n) /\ l = n + 1 /\ TableAt(w, v, l) = f
  <1>0. n \in 1 .. 3
    BY Zenon DEF Hangs
  <1>1. CASE ~ Under(v, u, n)
    <2>1. Path(w, v) = Path(m, v)
      BY <1>1, HangElsewhere
    <2>2. QED
      BY ONLY <2>1, Reaches(w, v, l), Zenon DEF Reaches, TableAt
  <1>2. CASE Under(v, u, n) /\ l <= n
    <2>1. \A j \in 1 .. n - 1 : Path(w, v)[j] = Path(m, v)[j]
      BY <1>2, HangAbove
    <2>2. \A j \in 1 .. l - 1 : j \in 1 .. n - 1
      BY ONLY <1>0, <1>2, l \in 1 .. 4
    <2>3. Reaches(m, v, l)
      BY ONLY <2>1, <2>2, Reaches(w, v, l) DEF Reaches
    <2>4. l # 1 => l - 1 \in 1 .. n - 1
      BY ONLY <1>0, <1>2, l \in 1 .. 4
    <2>5. QED
      BY ONLY <2>1, <2>3, <2>4 DEF TableAt
  <1>3. CASE Under(v, u, n) /\ l = n + 1
    BY <1>3, HangBelow
  <1>4. CASE Under(v, u, n) /\ l > n + 1
    <2>1. n + 1 \in 1 .. l - 1 /\ n + 1 \in n + 1 .. 4
      BY ONLY <1>0, <1>4, l \in 1 .. 4
    <2>2. ~ Path(w, v)[n + 1].present
      BY <1>4, <2>1, HangBelow
    <2>3. QED
      BY ONLY <2>1, <2>2, Reaches(w, v, l) DEF Reaches
  <1>5. l <= n \/ l = n + 1 \/ l > n + 1
    BY ONLY <1>0, l \in 1 .. 4
  <1>6. QED
    BY <1>1, <1>2, <1>3, <1>4, <1>5, Zenon

(* The new table hangs in one place, so it joins the tree of tables.        *)
LEMMA HangLevels ==
  ASSUME NEW m, NEW T, NEW u, NEW n, NEW f, NEW e, NEW w, Hangs(w, m, T, u, n, f, e)
  PROVE  Levels(w, T)
  <1>0. Levels(m, T) /\ f \in T /\ n \in 1 .. 3
    BY Zenon DEF Hangs
  <1>1. ASSUME NEW v \in Virts, NEW l \in 1 .. 4, Reaches(w, v, l)
        PROVE  TableAt(w, v, l) \in T
    <2>1. \/ Reaches(m, v, l) /\ TableAt(w, v, l) = TableAt(m, v, l)
          \/ TableAt(w, v, l) = f
      BY <1>1, HangReaches
    <2>2. Reaches(m, v, l) => TableAt(m, v, l) \in T
      BY <1>0 DEF Levels
    <2>3. QED
      BY ONLY <1>0, <2>1, <2>2
  <1>2. ASSUME NEW x \in Virts, NEW v \in Virts, NEW k \in 1 .. 4, NEW l \in 1 .. 4,
               Reaches(w, x, k), Reaches(w, v, l), TableAt(w, x, k) = TableAt(w, v, l)
        PROVE  k = l /\ \A j \in 1 .. k - 1 : x[j] = v[j]
    <2>1. \/ Reaches(m, x, k) /\ TableAt(w, x, k) = TableAt(m, x, k)
          \/ Under(x, u, n) /\ k = n + 1 /\ TableAt(w, x, k) = f
      BY <1>2, HangReaches
    <2>2. \/ Reaches(m, v, l) /\ TableAt(w, v, l) = TableAt(m, v, l)
          \/ Under(v, u, n) /\ l = n + 1 /\ TableAt(w, v, l) = f
      BY <1>2, HangReaches
    <2>3. /\ Reaches(m, x, k) => TableAt(m, x, k) # f
          /\ Reaches(m, v, l) => TableAt(m, v, l) # f
      BY Zenon DEF Hangs
    <2>4. CASE Reaches(m, x, k) /\ Reaches(m, v, l) /\ TableAt(m, x, k) = TableAt(m, v, l)
      BY <1>0, <2>4 DEF Levels
    <2>5. CASE Under(x, u, n) /\ k = n + 1 /\ Under(v, u, n) /\ l = n + 1
      <3>1. \A j \in 1 .. k - 1 : j \in 1 .. n
        BY ONLY <1>0, <2>5
      <3>2. QED
        BY ONLY <2>5, <3>1, Zenon DEF Under
    <2>6. QED
      BY ONLY <1>2, <2>1, <2>2, <2>3, <2>4, <2>5
  <1>3. Root \in T
    BY <1>0 DEF Levels
  <1>4. QED
    BY ONLY <1>1, <1>2, <1>3 DEF Levels

LEMMA HangNoHuge ==
  ASSUME NEW m, NEW T, NEW u, NEW n, NEW f, NEW e, NEW w, Hangs(w, m, T, u, n, f, e)
  PROVE  NoHuge(w)
  <1>0. NoHuge(m) /\ n \in 1 .. 3 /\ ~ e.huge
    BY Zenon DEF Hangs
  <1>1. SUFFICES ASSUME NEW v \in Virts, NEW l \in 1 .. 3, Path(w, v)[l].present
                 PROVE  ~ Path(w, v)[l].huge
    BY DEF NoHuge
  <1>2. Path(m, v)[l].present => ~ Path(m, v)[l].huge
    BY ONLY <1>0, v \in Virts, l \in 1 .. 3 DEF NoHuge
  <1>3. CASE ~ Under(v, u, n)
    <2>1. Path(w, v) = Path(m, v)
      BY <1>3, HangElsewhere
    <2>2. QED
      BY ONLY <1>1, <1>2, <2>1
  <1>4. CASE Under(v, u, n)
    <2>1. l \in 1 .. n - 1 \/ l = n \/ l \in n + 1 .. 4
      BY ONLY <1>0, l \in 1 .. 3
    <2>2. l \in 1 .. n - 1 => Path(w, v)[l] = Path(m, v)[l]
      BY <1>4, HangAbove
    <2>3. Path(w, v)[n] = e
      BY <1>4, HangAbove
    <2>4. l \in n + 1 .. 4 => ~ Path(w, v)[l].present
      BY <1>4, HangBelow
    <2>5. QED
      BY ONLY <1>0, <1>1, <1>2, <2>1, <2>2, <2>3, <2>4
  <1>5. QED
    BY <1>3, <1>4

LEMMA LinkStored ==
  ASSUME NEW m, NEW T, NEW u, NEW n, NEW f, NEW e, NEW w, Hangs(w, m, T, u, n, f, e)
  PROVE  /\ Levels(w, T) /\ NoHuge(w)
         /\ Reaches(w, u, n + 1) /\ TableAt(w, u, n + 1) = f
         /\ \A v \in Virts : \/ Path(w, v)[4] = Path(m, v)[4]
                             \/ ~ Path(m, v)[4].present /\ ~ Path(w, v)[4].present
  <1>1. Levels(w, T) /\ NoHuge(w)
    BY HangLevels, HangNoHuge, Zenon
  <1>2. u \in Virts /\ n \in 1 .. 3
    BY Zenon DEF Hangs
  <1>3. Under(u, u, n)
    BY Zenon DEF Under
  <1>4. Reaches(w, u, n + 1) /\ TableAt(w, u, n + 1) = f
    BY <1>2, <1>3, HangBelow
  <1>5. ASSUME NEW v \in Virts
        PROVE  \/ Path(w, v)[4] = Path(m, v)[4]
               \/ ~ Path(m, v)[4].present /\ ~ Path(w, v)[4].present
    <2>1. 4 \in n .. 4 /\ 4 \in n + 1 .. 4
      BY ONLY <1>2
    <2>2. CASE ~ Under(v, u, n)
      <3>1. Path(w, v) = Path(m, v)
        BY <2>2, HangElsewhere
      <3>2. QED
        BY ONLY <3>1
    <2>3. CASE Under(v, u, n)
      BY <2>1, <2>3, HangBelow
    <2>4. QED
      BY ONLY <2>2, <2>3
  <1>6. QED
    BY ONLY <1>1, <1>4, <1>5, Zenon
=============================================================================
