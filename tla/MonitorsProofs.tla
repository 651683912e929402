--------------------------- MODULE MonitorsProofs ---------------------------
(***************************************************************************)
(* Proofs about Monitors, for any servers, scenes and thresholds: what a   *)
(* monitor remembers, what the document keeps of it, and what the admins   *)
(* heard; that every level is one and has a cause; and what one pass over  *)
(* a dump computes.                                                        *)
(***************************************************************************)
EXTENDS Monitors, FiniteSetTheorems, WellFoundedInduction, TLAPS

-----------------------------------------------------------------------------
(* One pass over a dump *)

\* Every nonempty set of numbers has a least one.
LEMMA LeastExists ==
    ASSUME NEW T \in SUBSET Nat, T # {}
    PROVE  \E x \in T : \A y \in T : x <= y
<1> DEFINE Less == {s \in Nat \X Nat : s[1] < s[2]}
<1>1. IsWellFoundedOn(Less, Nat)
  BY NatLessThanWellFounded DEF OpToRel
<1>2. \E x \in T : \A y \in T : <<y, x>> \notin Less
  <2> HIDE DEF Less
  <2> QED
    BY <1>1, WFMin
<1>3. PICK x \in T : \A y \in T : <<y, x>> \notin Less
  BY <1>2
<1>4. ASSUME NEW y \in T PROVE x <= y
  <2>1. <<y, x>> \in Nat \X Nat /\ ~(y < x)
    BY <1>3
  <2> QED
    BY <2>1
<1> QED
  BY <1>4

LEMMA GreatestExists ==
    ASSUME NEW n \in Nat, NEW T \in SUBSET (1..n), T # {}
    PROVE  Max(T) \in T /\ \A y \in T : Max(T) >= y
<1> DEFINE U == {n - y : y \in T}
<1>1. U \in SUBSET Nat /\ U # {}
  OBVIOUS
<1>2. PICK x \in U : \A y \in U : x <= y
  <2> HIDE DEF U
  <2> QED
    BY <1>1, LeastExists
<1>3. PICK z \in T : x = n - z
  OBVIOUS
<1>4. ASSUME NEW y \in T PROVE z >= y
  <2>1. x <= n - y
    BY <1>2
  <2> QED
    BY <1>3, <2>1
<1>5. \E m \in T : \A y \in T : m >= y
  BY <1>4
<1> QED
  BY <1>5 DEF Max

\* One pass, from the last token back.
Passed(dump, watched, g, p) ==
    IF p = {} THEN [ip \in watched |-> "ok"]
    ELSE ScanToken(g[p \ {Max(p)}], dump[Max(p)])
Pass(dump, watched) ==
    CHOOSE g : g = [p \in SUBSET DOMAIN dump |-> Passed(dump, watched, g, p)]

LEMMA ScanIsPass ==
    ASSUME NEW dump, NEW watched
    PROVE  Scan(dump, watched) = Pass(dump, watched)[DOMAIN dump]
BY DEF Scan, FoldLeft, MapThenFoldSet, Pass, Passed

\* What a part of the dump says of each address.
By(tokens, watched) == [ip \in watched |-> ScanLevel(tokens, watched, ip)]
Says(dump, watched, p) == By({dump[i] : i \in p}, watched)

LEMMA OneMoreToken ==
    ASSUME NEW tokens, NEW t, NEW watched
    PROVE  ScanToken(By(tokens, watched), t) = By(tokens \cup {t}, watched)
<1> DEFINE levels == [ip \in watched |-> ScanLevel(tokens, watched, ip)]
<1>1. DOMAIN levels = watched
  OBVIOUS
<1>2. ASSUME NEW ip \in watched
      PROVE  ScanToken(levels, t)[ip] = ScanLevel(tokens \cup {t}, watched, ip)
  <2>1. levels[ip] = ScanLevel(tokens, watched, ip)
    OBVIOUS
  <2>2. /\ Worse("at_risk", "ok") = "at_risk" /\ Worse("at_risk", "at_risk") = "at_risk"
        /\ Worse("at_risk", "blocked") = "blocked"
    BY DEF Worse, Rank
  <2>3. ScanToken(levels, t)[ip] =
          IF Covers(t, ip) THEN "blocked"
          ELSE IF Touches(t, ip) /\ ~Hits(t, watched)
               THEN Worse("at_risk", levels[ip]) ELSE levels[ip]
    BY <1>1 DEF ScanToken
  <2> HIDE DEF levels
  <2> QED
    BY <2>1, <2>2, <2>3 DEF ScanLevel
<1>3. ScanToken(levels, t) = [ip \in watched |-> ScanToken(levels, t)[ip]]
  BY <1>1 DEF ScanToken
<1> HIDE DEF levels
<1>4. [ip \in watched |-> ScanToken(levels, t)[ip]]
        = [ip \in watched |-> ScanLevel(tokens \cup {t}, watched, ip)]
  BY <1>2
<1> QED
  BY <1>3, <1>4 DEF levels, By

\* What is said of a part follows from what is said of the rest of it.
LEMMA SaysPasses ==
    ASSUME NEW dump, NEW n \in Nat, DOMAIN dump = 1..n, NEW watched,
           NEW p \in SUBSET DOMAIN dump, p # {}
    PROVE  /\ Max(p) \in p
           /\ Says(dump, watched, p)
                = ScanToken(Says(dump, watched, p \ {Max(p)}), dump[Max(p)])
<1>1. Max(p) \in p
  BY GreatestExists
<1>2. {dump[i] : i \in p} = {dump[i] : i \in p \ {Max(p)}} \cup {dump[Max(p)]}
  BY <1>1
<1> DEFINE rest == {dump[i] : i \in p \ {Max(p)}}
<1>3. Says(dump, watched, p) = By(rest \cup {dump[Max(p)]}, watched)
  BY <1>2 DEF Says
<1>4. Says(dump, watched, p \ {Max(p)}) = By(rest, watched)
  BY DEF Says
<1> HIDE DEF rest
<1> QED
  BY <1>1, <1>3, <1>4, OneMoreToken

LEMMA PassIsSays ==
    ASSUME NEW dump, NEW n \in Nat, DOMAIN dump = 1..n, NEW watched,
           NEW p \in SUBSET DOMAIN dump
    PROVE  Pass(dump, watched)[p] = Says(dump, watched, p)
<1> DEFINE says == [q \in SUBSET DOMAIN dump |-> Says(dump, watched, q)]
           g == Pass(dump, watched)
<1>1. Says(dump, watched, {}) = [ip \in watched |-> "ok"]
  <2>1. {dump[i] : i \in {}} = {}
    OBVIOUS
  <2> QED
    BY <2>1 DEF Says, By, ScanLevel
<1>2. ASSUME NEW q \in SUBSET DOMAIN dump
      PROVE  says[q] = Passed(dump, watched, says, q)
  <2>1. CASE q = {}
    BY <1>1, <2>1 DEF Passed
  <2>2. CASE q # {}
    <3>1. says[q \ {Max(q)}] = Says(dump, watched, q \ {Max(q)})
      OBVIOUS
    <3>2. Says(dump, watched, q)
            = ScanToken(Says(dump, watched, q \ {Max(q)}), dump[Max(q)])
      BY <2>2, SaysPasses
    <3>3. says[q] = Says(dump, watched, q)
      OBVIOUS
    <3> HIDE DEF says
    <3> QED
      BY <2>2, <3>1, <3>2, <3>3 DEF Passed
  <2> QED
    BY <2>1, <2>2
<1>3. says = [q \in SUBSET DOMAIN dump |-> Passed(dump, watched, says, q)]
  <2>1. says = [q \in SUBSET DOMAIN dump |-> says[q]]
    OBVIOUS
  <2> HIDE DEF says
  <2> QED
    BY <1>2, <2>1
<1>4. g = [q \in SUBSET DOMAIN dump |-> Passed(dump, watched, g, q)]
  <2> HIDE DEF says
  <2> QED
    BY <1>3 DEF Pass
<1> HIDE DEF g
<1> DEFINE Wrong == {q \in SUBSET DOMAIN dump : g[q] # Says(dump, watched, q)}
           Sizes == {Cardinality(q) : q \in Wrong}
<1>5. \A q \in SUBSET DOMAIN dump : IsFiniteSet(q) /\ Cardinality(q) \in Nat
  <2>1. IsFiniteSet(1..n)
    BY FS_Interval
  <2> QED
    BY <2>1, FS_Subset, FS_CardinalityType
<1>6. Wrong = {}
  <2> SUFFICES ASSUME Wrong # {} PROVE FALSE
    OBVIOUS
  <2>1. Sizes \in SUBSET Nat /\ Sizes # {}
    BY <1>5
  <2>2. PICK m \in Sizes : \A k \in Sizes : m <= k
    <3> HIDE DEF Sizes
    <3> QED
      BY <2>1, LeastExists
  <2>3. PICK q \in Wrong : m = Cardinality(q)
    OBVIOUS
  <2>4. g[q] = Passed(dump, watched, g, q)
    BY <1>4
  <2>5. q # {}
    BY <1>1, <2>3, <2>4 DEF Passed
  <2> DEFINE r == q \ {Max(q)}
  <2>6. Max(q) \in q /\ Says(dump, watched, q) = ScanToken(Says(dump, watched, r), dump[Max(q)])
    BY <2>5, SaysPasses
  <2>7. Cardinality(r) = Cardinality(q) - 1
    BY <1>5, <2>6, FS_RemoveElement
  <2>8. r \in SUBSET DOMAIN dump /\ Cardinality(r) \in Nat /\ Cardinality(q) \in Nat
    BY <1>5
  <2>9. r \notin Wrong
    <3>1. r \in Wrong => Cardinality(r) \in Sizes
      OBVIOUS
    <3>2. Cardinality(r) \in Sizes => Cardinality(q) <= Cardinality(r)
      BY <2>2, <2>3
    <3> HIDE DEF r, Sizes, Wrong
    <3> QED
      BY <2>7, <2>8, <3>1, <3>2
  <2>10. g[r] = Says(dump, watched, r)
    BY <2>8, <2>9
  <2> QED
    BY <2>3, <2>4, <2>5, <2>6, <2>10 DEF Passed
<1> QED
  BY <1>6 DEF g

\* One pass finds for each address the worst that any token says, however the
\* dump is ordered (match_ips_in_dump).
LEMMA ScanFinds ==
    ASSUME NEW dump \in Seq(Token), NEW watched
    PROVE  Scan(dump, watched) =
             [ip \in watched |->
                ScanLevel({dump[i] : i \in DOMAIN dump}, watched, ip)]
<1>1. DOMAIN dump = 1..Len(dump) /\ Len(dump) \in Nat
  OBVIOUS
<1>2. Pass(dump, watched)[DOMAIN dump] = Says(dump, watched, DOMAIN dump)
  BY <1>1, PassIsSays
<1> QED
  BY <1>2, ScanIsPass DEF Says, By

-----------------------------------------------------------------------------
(* What is told and what is kept *)

USE MonitorsAssumption DEF Hands

DocFields == {"list", "ips", "snap", "threshold"}
CheckFields ==
    {"copy", "index", "left", "at", "part", "listens", "sent", "tcp", "found", "rows", "step"}

\* Documents keep their form; a threshold is one that a count can reach.
IsDoc(d) ==
    /\ DOMAIN d = DocFields /\ d.threshold \in 1..MaxFails
    /\ d.snap = [primed |-> d.snap.primed, state |-> d.snap.state]
    /\ d.snap.primed \in BOOLEAN

FormInv ==
    /\ IsDoc(doc)
    /\ DOMAIN checks = Hands
    /\ \A h \in Hands : DOMAIN checks[h] = CheckFields /\ IsDoc(checks[h].copy)
    /\ streak \in [Servers -> 0..MaxFails]
    /\ primed \in BOOLEAN /\ undone \in BOOLEAN

\* What one server's entry says, in memory or in a snapshot.
ToldIn(st, s) == IF s \in DOMAIN st THEN st[s].told ELSE "ok"
FailsIn(st, s) == IF s \in DOMAIN st THEN st[s].fails ELSE 0

\* Counts are within bounds, and those of a server nobody was warned of are
\* covered by problems that were seen.
Counted(st) ==
    \A s \in Servers :
        /\ FailsIn(st, s) \in 0..MaxFails
        /\ ToldIn(st, s) = "ok" => FailsIn(st, s) <= streak[s]

\* The snapshot is what the memory holds and says what the admins heard, unless
\* an old one came back.
SnapInv ==
    ~undone =>
        /\ Counted(state) /\ Counted(doc.snap.state)
        /\ doc.snap.primed =>
              \A s \in Servers \ unsaid : ToldIn(doc.snap.state, s) = heard[s]
        /\ scene.kind = "rkn" /\ primed => doc.snap = [primed |-> TRUE, state |-> state]
        /\ scene.kind = "tcp" => doc.snap = NoSnap

MInv == FormInv /\ SnapInv /\ ToldIsHeard /\ SnapshotIsCurrent

LEMMA DocEdits ==
    ASSUME NEW d, IsDoc(d)
    PROVE  /\ \A x : IsDoc([d EXCEPT !.list = x]) /\ [d EXCEPT !.list = x].snap = d.snap
           /\ \A x : IsDoc([d EXCEPT !.ips = x]) /\ [d EXCEPT !.ips = x].snap = d.snap
           /\ \A n \in 1..MaxFails : /\ IsDoc([d EXCEPT !.threshold = n])
                                     /\ [d EXCEPT !.threshold = n].snap = d.snap
           /\ \A st : LET e == [d EXCEPT !.snap = [primed |-> TRUE, state |-> st]]
                      IN  IsDoc(e) /\ e.snap = [primed |-> TRUE, state |-> st]
BY DEF IsDoc, DocFields

LEMMA IdleForm == IsDoc(Idle.copy) /\ DOMAIN Idle = CheckFields
<1> DEFINE d == [list |-> {}, ips |-> {}, snap |-> NoSnap, threshold |-> 1]
<1>1. Idle.copy = d /\ DOMAIN Idle = CheckFields
  BY DEF Idle, CheckFields
<1>2. d.snap = NoSnap /\ d.threshold = 1 /\ DOMAIN d = DocFields
  BY DEF DocFields
<1>3. /\ NoSnap.primed = FALSE
      /\ NoSnap = [primed |-> NoSnap.primed, state |-> NoSnap.state]
  BY DEF NoSnap
<1>4. 1 \in 1..MaxFails
  OBVIOUS
<1> HIDE DEF d
<1> QED
  BY <1>1, <1>2, <1>3, <1>4 DEF IsDoc

LEMMA InitMonitors == Init => MInv
<1> SUFFICES ASSUME Init PROVE MInv
  OBVIOUS
<1>1. scene.threshold \in 1..MaxFails
  BY DEF Init, Scene
<1>2. IsDoc(doc) /\ doc.snap = NoSnap
  BY <1>1 DEF Init, IsDoc, DocFields, NoSnap
<1>3. IsDoc(Idle.copy) /\ DOMAIN Idle = CheckFields
  BY IdleForm
<1>4. FormInv
  <2>1. DOMAIN checks = Hands /\ \A h \in Hands : checks[h] = Idle
    BY DEF Init
  <2>2. streak \in [Servers -> 0..MaxFails] /\ primed = FALSE /\ undone = FALSE
    BY DEF Init
  <2> QED
    BY <1>2, <1>3, <2>1, <2>2 DEF FormInv
<1>5. SnapInv
  BY <1>2, <1>4 DEF Init, SnapInv, Counted, FailsIn, ToldIn, Nothing, NoSnap, FormInv
<1> QED
  BY <1>4, <1>5 DEF Init, MInv, ToldIsHeard, SnapshotIsCurrent

\* A check goes on: the copy is the one it began with.
GoesOn(h) ==
    /\ DOMAIN checks' = Hands
    /\ \A g \in Hands : /\ DOMAIN checks'[g] = CheckFields
                        /\ checks'[g].copy \in {checks[g].copy, doc}
    /\ \A g \in Hands \ {h} : checks'[g] = checks[g]
    /\ checks'[h].step # "idle"

\* Steps of a check that touch neither the memory nor the document.
LEMMA GoesOnKeeps ==
    ASSUME MInv, NEW h \in Hands, GoesOn(h),
           UNCHANGED <<scene, doc, memory, heard, unsaid, streak, undone>>
    PROVE  MInv'
<1>1. FormInv'
  BY DEF MInv, FormInv, GoesOn, memory, IsDoc
<1>2. SnapInv' /\ ToldIsHeard'
  BY DEF MInv, SnapInv, Counted, FailsIn, ToldIn, ToldIsHeard, Told, memory
<1>3. SnapshotIsCurrent'
  BY DEF GoesOn, SnapshotIsCurrent
<1> QED
  BY <1>1, <1>2, <1>3 DEF MInv

LEMMA RowGoesOn ==
    ASSUME FormInv, NEW h \in Hands, NEW s, NEW level, Row(h, s, level)
    PROVE  GoesOn(h)
<1>1. DOMAIN checks = Hands /\ DOMAIN checks[h] = CheckFields
  BY DEF FormInv
<1> QED
  BY <1>1 DEF FormInv, Row, GoesOn, CheckFields

LEMMA ProbingKeeps ==
    ASSUME MInv, NEW h \in Hands, NEW s \in Servers,
           \/ Connect(h, s) \/ ProbeBlind(h, s) \/ StartEcho(h, s)
           \/ CallProbe(h, s) \/ ProbeFails(h, s) \/ StopEcho(h, s)
    PROVE  MInv'
<1>1. UNCHANGED <<scene, doc, memory, heard, unsaid, streak, undone>>
  BY DEF Connect, ProbeBlind, StartEcho, CallProbe, ProbeFails, StopEcho, ghosts
<1>2. CASE Connect(h, s) \/ ProbeBlind(h, s) \/ ProbeFails(h, s) \/ StopEcho(h, s)
  BY <1>1, <1>2, RowGoesOn, GoesOnKeeps
  DEF MInv, Connect, ProbeBlind, ProbeFails, StopEcho
<1>3. FormInv
  BY DEF MInv
<1>4. CASE StartEcho(h, s)
  <2>1. PICK listens \in BOOLEAN :
          checks' = [checks EXCEPT ![h].at = {s}, ![h].step = "echo",
            ![h].found = @ \cup ((IF "ips" \in may THEN {s} ELSE {}) \ checks[h].copy.ips),
            ![h].listens = listens,
            ![h].part = Merged({Registry(h, s), HandshakeLevel(world.peers)})]
    BY <1>4 DEF StartEcho, Works
  <2>2. GoesOn(h)
    BY <1>3, <2>1 DEF FormInv, GoesOn, CheckFields
  <2> QED
    BY <1>1, <2>2, GoesOnKeeps
<1>5. CASE CallProbe(h, s)
  <2>1. PICK sent \in BOOLEAN :
          checks' = [checks EXCEPT ![h].step = "sent", ![h].sent = sent,
                                   ![h].tcp = s \notin world.dark]
    BY <1>5 DEF CallProbe, Works
  <2>2. GoesOn(h)
    BY <1>3, <2>1 DEF FormInv, GoesOn, CheckFields
  <2> QED
    BY <1>1, <2>2, GoesOnKeeps
<1> QED
  BY <1>2, <1>4, <1>5

LEMMA BeginKeeps ==
    ASSUME MInv, NEW h \in Hands, Begin(h)
    PROVE  MInv'
<1>1. UNCHANGED <<scene, doc, memory, heard, unsaid, streak, undone>>
  BY DEF Begin, ghosts
<1>2. DOMAIN Idle = CheckFields
  BY DEF Idle, CheckFields
<1>3. GoesOn(h)
  BY <1>2 DEF MInv, FormInv, Begin, GoesOn, CheckFields
<1> QED
  BY <1>1, <1>3, GoesOnKeeps

\* The copy of a check replaces the document: nothing is excused as long as its
\* snapshot is the last one.
LEMMA SaveIpsKeeps ==
    ASSUME MInv, NEW h \in Hands, SaveIps(h)
    PROVE  MInv'
<1>1. FormInv
  BY DEF MInv
<1>2. /\ IsDoc(doc') /\ doc'.snap = checks[h].copy.snap
      /\ UNCHANGED <<scene, memory, heard, unsaid, streak>>
      /\ undone' = (undone \/ checks[h].copy.snap # doc.snap)
  BY <1>1, DocEdits DEF FormInv, SaveIps
<1>3. /\ DOMAIN checks' = Hands /\ checks'[h].step = "probing"
      /\ \A g \in Hands : DOMAIN checks'[g] = CheckFields /\ checks'[g].copy = checks[g].copy
  BY <1>1 DEF FormInv, SaveIps, CheckFields
<1>4. FormInv'
  BY <1>1, <1>2, <1>3 DEF FormInv, memory, IsDoc
<1>5. ~undone' => ~undone /\ doc'.snap = doc.snap
  BY <1>2
<1>6. SnapInv' /\ ToldIsHeard'
  BY <1>2, <1>5 DEF MInv, SnapInv, Counted, FailsIn, ToldIn, ToldIsHeard, Told, memory
<1>7. SnapshotIsCurrent'
  BY <1>3 DEF SnapshotIsCurrent
<1> QED
  BY <1>4, <1>6, <1>7 DEF MInv

LEMMA BumpBounds ==
    ASSUME NEW n \in 0..MaxFails
    PROVE  Bump(n) \in 1..MaxFails /\ \A m \in 0..n : Bump(m) <= Bump(n)
BY DEF Bump

\* What is concluded from the row of a server that was fine so far, or not.
LEMMA ObserveCounts ==
    ASSUME NEW k, NEW level, NEW limit \in 1..MaxFails, NEW n \in 0..MaxFails,
           k.fails \in 0..MaxFails, k.told = "ok" => k.fails <= n,
           NEW m, m = IF level = "ok" THEN 0 ELSE Bump(n)
    PROVE  /\ Observe(k, level, limit).fails \in 0..MaxFails
           /\ Observe(k, level, limit).told = "ok" => Observe(k, level, limit).fails <= m
           /\ k.told = "ok" /\ Observe(k, level, limit).told # "ok" => m >= limit
<1>1. CASE level = "ok"
  BY <1>1 DEF Observe, New
<1>2. CASE level # "ok"
  <2> DEFINE worse == k.told # "ok" /\ Rank(level) > Rank(k.told)
             fails == IF worse THEN limit ELSE Bump(k.fails)
  <2>1. Observe(k, level, limit) =
          [level |-> level, fails |-> fails,
           told |-> IF fails >= limit THEN level ELSE k.told]
    BY <1>2 DEF Observe
  <2>2. fails \in 1..MaxFails
    BY BumpBounds
  <2>3. k.told = "ok" => fails <= m
    BY <1>2, BumpBounds
  <2>4. m \in 1..MaxFails
    BY <1>2, BumpBounds
  <2> HIDE DEF fails
  <2> QED
    BY <1>2, <2>1, <2>2, <2>3, <2>4
<1> QED
  BY <1>1, <1>2
\* The results of a check are taken over: counts stay covered, and a warning
\* has problems enough behind it.
LEMMA AfterCounts ==
    ASSUME MInv, ~undone, NEW h \in Hands, Apply(h), NEW s \in Servers
    PROVE  /\ FailsIn(state', s) \in 0..MaxFails
           /\ ToldIn(state', s) = "ok" => FailsIn(state', s) <= streak'[s]
           /\ primed /\ ToldIn(state, s) = "ok" /\ ToldIn(state', s) # "ok"
                => streak'[s] >= checks[h].copy.threshold
           /\ streak'[s] \in 0..MaxFails
<1> DEFINE rows  == checks[h].rows
           limit == checks[h].copy.threshold
           k     == Entry(s)
<1>1. limit \in 1..MaxFails /\ streak[s] \in 0..MaxFails /\ primed \in BOOLEAN
  BY DEF MInv, FormInv, IsDoc
<1>2. /\ DOMAIN state' = DOMAIN rows
      /\ s \in DOMAIN rows => state'[s] = IF ~primed THEN Prime(rows[s], limit)
                                          ELSE Observe(k, rows[s], limit)
  BY DEF Apply, After
<1>3. streak'[s] = IF s \notin DOMAIN rows \/ rows[s] = "ok" THEN 0 ELSE Bump(streak[s])
  BY DEF Apply
<1>4. streak'[s] \in 0..MaxFails
  BY <1>1, <1>3, BumpBounds
<1>5. k.told = ToldIn(state, s) /\ k.fails = FailsIn(state, s)
  BY DEF ToldIn, FailsIn, New, Entry
<1>6. k.fails \in 0..MaxFails /\ (k.told = "ok" => k.fails <= streak[s])
  BY <1>5 DEF MInv, SnapInv, Counted
<1>7. CASE s \notin DOMAIN rows
  BY <1>1, <1>2, <1>4, <1>7 DEF ToldIn, FailsIn
<1>8. CASE s \in DOMAIN rows /\ ~primed
  <2>1. Prime(rows[s], limit).told = rows[s]
    BY DEF Prime
  <2>2. /\ Prime(rows[s], limit).fails \in 0..MaxFails
        /\ rows[s] = "ok" => Prime(rows[s], limit).fails = 0
    BY <1>1 DEF Prime
  <2> QED
    BY <1>2, <1>4, <1>8, <2>1, <2>2 DEF ToldIn, FailsIn
<1>9. CASE s \in DOMAIN rows /\ primed
  <2>1. state'[s] = Observe(k, rows[s], limit)
    BY <1>2, <1>9
  <2>2. streak'[s] = IF rows[s] = "ok" THEN 0 ELSE Bump(streak[s])
    BY <1>3, <1>9
  <2>3. /\ Observe(k, rows[s], limit).fails \in 0..MaxFails
        /\ Observe(k, rows[s], limit).told = "ok"
             => Observe(k, rows[s], limit).fails <= streak'[s]
        /\ k.told = "ok" /\ Observe(k, rows[s], limit).told # "ok" => streak'[s] >= limit
    <3> HIDE DEF k, limit, rows
    <3> QED
      BY <1>1, <1>6, <2>2, ObserveCounts
  <2>4. ToldIn(state', s) = state'[s].told /\ FailsIn(state', s) = state'[s].fails
    BY <1>2, <1>9 DEF ToldIn, FailsIn
  <2> QED
    BY <1>4, <1>5, <2>1, <2>3, <2>4
<1> QED
  BY <1>7, <1>8, <1>9

\* A message goes out exactly where what is told changes.
LEMMA ObserveTold ==
    ASSUME NEW s, NEW level, NEW limit, primed
    PROVE  IF Announces(s, level, limit)
           THEN Observe(Entry(s), level, limit).told = level
           ELSE Observe(Entry(s), level, limit).told = Entry(s).told
BY DEF Announces, Observe, New

LEMMA ApplyHeard ==
    ASSUME MInv, ~undone, NEW h \in Hands, Apply(h), NEW s \in Servers \ unsaid'
    PROVE  ToldIn(state', s) = heard'[s]
<1> DEFINE rows  == checks[h].rows
           limit == checks[h].copy.threshold
<1>1. /\ DOMAIN state' = DOMAIN rows
      /\ s \in DOMAIN rows => state'[s] = IF primed THEN Observe(Entry(s), rows[s], limit)
                                          ELSE Prime(rows[s], limit)
      /\ heard'[s] = IF s \notin DOMAIN rows THEN "ok"
                     ELSE IF Announces(s, rows[s], limit) THEN rows[s] ELSE heard[s]
      /\ s \in DOMAIN rows => IF primed THEN s \notin unsaid \/ Announces(s, rows[s], limit)
                               ELSE rows[s] = heard[s]
  BY DEF Apply, After
<1> HIDE DEF rows, limit
<1>2. CASE s \notin DOMAIN rows
  BY <1>1, <1>2 DEF ToldIn
<1>3. CASE s \in DOMAIN rows /\ ~primed
  <2>1. Prime(rows[s], limit).told = rows[s] /\ ~Announces(s, rows[s], limit)
    BY <1>3 DEF Prime, Announces
  <2> QED
    BY <1>1, <1>3, <2>1 DEF ToldIn
<1>4. CASE s \in DOMAIN rows /\ primed
  <2>1. ToldIn(state', s) = Observe(Entry(s), rows[s], limit).told
    BY <1>1, <1>4 DEF ToldIn
  <2>2. CASE Announces(s, rows[s], limit)
    BY <1>1, <1>4, <2>1, <2>2, ObserveTold
  <2>3. CASE ~Announces(s, rows[s], limit)
    <3>1. Entry(s).told = heard[s]
      BY <1>1, <1>4, <2>3 DEF MInv, ToldIsHeard, Told, Entry, New
    <3> QED
      BY <1>1, <1>4, <2>1, <2>3, <3>1, ObserveTold
  <2> QED
    BY <2>2, <2>3
<1> QED
  BY <1>2, <1>3, <1>4

LEMMA ApplyKeeps ==
    ASSUME MInv, NEW h \in Hands, Apply(h)
    PROVE  MInv'
<1>1. FormInv /\ UNCHANGED <<scene, undone>> /\ primed' = TRUE
  BY DEF MInv, Apply
<1>2. ~undone => \A s \in Servers \ unsaid' : ToldIn(state', s) = heard'[s]
  BY ApplyHeard
<1>3. \/ scene.kind = "tcp" /\ doc' = doc
      \/ /\ scene.kind # "tcp"
         /\ doc' = [doc EXCEPT !.snap = [primed |-> TRUE, state |-> state']]
  BY DEF Apply, Persisted
<1>4. /\ IsDoc(doc')
      /\ \/ scene.kind = "tcp" /\ doc' = doc
         \/ scene.kind # "tcp" /\ doc'.snap = [primed |-> TRUE, state |-> state']
  <2>1. IsDoc(doc)
    BY <1>1 DEF FormInv
  <2>2. CASE scene.kind = "tcp" /\ doc' = doc
    BY <2>1, <2>2
  <2>3. CASE /\ scene.kind # "tcp"
             /\ doc' = [doc EXCEPT !.snap = [primed |-> TRUE, state |-> state']]
    <3>1. IsDoc(doc') /\ doc'.snap = [primed |-> TRUE, state |-> state']
      BY <2>1, <2>3, DocEdits
    <3> QED
      BY <2>3, <3>1
  <2> QED
    BY <1>3, <2>2, <2>3
<1>5. streak' \in [Servers -> 0..MaxFails]
  <2>1. \A s \in Servers : streak[s] \in 0..MaxFails
    BY <1>1 DEF FormInv
  <2>2. \A s \in Servers : Bump(streak[s]) \in 0..MaxFails
    BY <2>1, BumpBounds
  <2> QED
    BY <2>2 DEF Apply
<1>6. FormInv'
  <2>1. IsDoc(Idle.copy) /\ DOMAIN Idle = CheckFields
    BY IdleForm
  <2>2. /\ DOMAIN checks' = Hands
        /\ \A g \in Hands : checks'[g] \in {checks[g], Idle}
    BY <1>1 DEF FormInv, Apply
  <2>3. \A g \in Hands : DOMAIN checks'[g] = CheckFields /\ IsDoc(checks'[g].copy)
    BY <1>1, <2>1, <2>2 DEF FormInv
  <2> QED
    BY <1>1, <1>4, <1>5, <2>2, <2>3 DEF FormInv, IsDoc
<1>7. SnapInv'
  <2> SUFFICES ASSUME ~undone
               PROVE  /\ Counted(state)' /\ Counted(doc.snap.state)'
                      /\ doc'.snap.primed
                           => \A s \in Servers \ unsaid' :
                                  ToldIn(doc'.snap.state, s) = heard'[s]
                      /\ scene.kind = "rkn" => doc'.snap = [primed |-> TRUE, state |-> state']
                      /\ scene.kind = "tcp" => doc'.snap = NoSnap
    BY <1>1 DEF SnapInv, ToldIn
  <2>1. \A s \in Servers : /\ FailsIn(state', s) \in 0..MaxFails
                           /\ ToldIn(state', s) = "ok" => FailsIn(state', s) <= streak'[s]
                           /\ streak'[s] \in 0..MaxFails
    BY AfterCounts
  <2>2. Counted(state)'
    BY <2>1 DEF Counted, FailsIn, ToldIn
  <2>3. CASE scene.kind = "tcp"
    <3>1. doc'.snap = NoSnap
      BY <1>4, <2>3 DEF MInv, SnapInv
    <3>2. Counted(doc.snap.state)'
      BY <2>1, <3>1 DEF Counted, FailsIn, ToldIn, NoSnap, Nothing
    <3> QED
      BY <2>2, <2>3, <3>1, <3>2 DEF NoSnap
  <2>4. CASE scene.kind # "tcp"
    <3>1. doc'.snap.primed = TRUE /\ doc'.snap.state = state'
      BY <1>4, <2>4
    <3>2. Counted(doc.snap.state)'
      BY <2>2, <3>1 DEF Counted, FailsIn, ToldIn
    <3> QED
      BY <1>2, <1>4, <2>2, <2>4, <3>1, <3>2
  <2> QED
    BY <2>3, <2>4
<1>8. ToldIsHeard'
  BY <1>1, <1>2 DEF ToldIsHeard, Told, ToldIn
<1>9. SnapshotIsCurrent'
  BY <1>1, <1>4 DEF SnapshotIsCurrent
<1> QED
  BY <1>6, <1>7, <1>8, <1>9 DEF MInv

\* What was saved is loaded.
LEMMA EnsureLoadedKeeps ==
    ASSUME MInv, EnsureLoaded
    PROVE  MInv'
<1>1. /\ scene.kind = "rkn" /\ state' = doc.snap.state
      /\ primed' = (primed \/ doc.snap.primed) /\ state = Nothing
      /\ UNCHANGED <<scene, doc, checks, heard, unsaid, streak, undone>>
  BY DEF EnsureLoaded, ghosts
<1>2. doc.snap = [primed |-> doc.snap.primed, state |-> doc.snap.state]
      /\ doc.snap.primed \in BOOLEAN /\ primed \in BOOLEAN
  BY DEF MInv, FormInv, IsDoc
<1>3. FormInv'
  BY <1>1, <1>2 DEF MInv, FormInv, IsDoc
<1>4. SnapInv' /\ ToldIsHeard'
  <2> SUFFICES ASSUME ~undone PROVE SnapInv' /\ ToldIsHeard'
    BY <1>1 DEF SnapInv, ToldIsHeard
  <2>1. Counted(doc.snap.state)' /\ Counted(state)'
    BY <1>1 DEF MInv, SnapInv, Counted, FailsIn, ToldIn
  <2>2. primed => doc.snap.primed
    BY <1>1 DEF MInv, SnapInv
  <2>3. primed' => doc.snap = [primed |-> TRUE, state |-> state']
    BY <1>1, <1>2, <2>2
  <2>4. doc.snap.primed => \A s \in Servers \ unsaid : ToldIn(doc.snap.state, s) = heard[s]
    BY DEF MInv, SnapInv
  <2>5. SnapInv'
    BY <1>1, <2>1, <2>3, <2>4 DEF MInv, SnapInv, ToldIn
  <2>6. ToldIsHeard'
    BY <1>1, <1>2, <2>2, <2>4 DEF ToldIsHeard, Told, ToldIn
  <2> QED
    BY <2>5, <2>6
<1>5. SnapshotIsCurrent'
  <2> SUFFICES ASSUME primed', \A h \in Hands : checks[h].step = "idle"
               PROVE  doc.snap = [primed |-> primed', state |-> state']
    BY <1>1 DEF SnapshotIsCurrent
  <2>1. CASE primed
    <3>1. doc.snap = [primed |-> primed, state |-> state]
      BY <1>1, <2>1 DEF MInv, SnapshotIsCurrent
    <3>2. primed' = primed /\ state' = state
      BY <1>1, <1>2, <2>1, <3>1
    <3> QED
      BY <3>1, <3>2
  <2>2. CASE ~primed
    BY <1>1, <1>2, <2>2
  <2> QED
    BY <2>1, <2>2
<1> QED
  BY <1>3, <1>4, <1>5 DEF MInv

LEMMA RestartKeeps ==
    ASSUME MInv, Restart
    PROVE  MInv'
<1>1. UNCHANGED <<scene, doc, heard, unsaid, streak, undone>>
  BY DEF Restart, ghosts
<1>2. \/ scene.kind = "rkn" /\ state' = doc.snap.state /\ primed' = doc.snap.primed
      \/ scene.kind # "rkn" /\ state' = Nothing /\ primed' = FALSE
  BY DEF Restart
<1>3. doc.snap = [primed |-> doc.snap.primed, state |-> doc.snap.state]
      /\ doc.snap.primed \in BOOLEAN
  BY DEF MInv, FormInv, IsDoc
<1>4. FormInv'
  <2>1. IsDoc(Idle.copy) /\ DOMAIN Idle = CheckFields
    BY IdleForm
  <2>2. DOMAIN checks' = Hands /\ \A g \in Hands : checks'[g] = Idle
    BY DEF Restart
  <2> QED
    BY <1>1, <1>2, <1>3, <2>1, <2>2 DEF MInv, FormInv, IsDoc
<1>5. SnapInv' /\ ToldIsHeard'
  <2> SUFFICES ASSUME ~undone PROVE SnapInv' /\ ToldIsHeard'
    BY <1>1 DEF SnapInv, ToldIsHeard
  <2>1. Counted(doc.snap.state)' /\ Counted(state)'
    <3>1. \A s \in Servers : streak[s] \in 0..MaxFails
      BY DEF MInv, FormInv
    <3> QED
      BY <1>1, <1>2, <3>1 DEF MInv, SnapInv, Counted, FailsIn, ToldIn, Nothing
  <2>2. scene.kind = "rkn" /\ primed' => doc.snap = [primed |-> TRUE, state |-> state']
    BY <1>2, <1>3
  <2>3. doc.snap.primed => \A s \in Servers \ unsaid : ToldIn(doc.snap.state, s) = heard[s]
    BY DEF MInv, SnapInv
  <2>4. SnapInv'
    BY <1>1, <2>1, <2>2, <2>3 DEF MInv, SnapInv, ToldIn
  <2>5. ToldIsHeard'
    BY <1>1, <1>2, <2>3 DEF ToldIsHeard, Told, ToldIn
  <2> QED
    BY <2>4, <2>5
<1>6. SnapshotIsCurrent'
  BY <1>1, <1>2, <1>3 DEF SnapshotIsCurrent
<1> QED
  BY <1>4, <1>5, <1>6 DEF MInv

\* The document is edited, its snapshot stays.
LEMMA EditsKeep ==
    ASSUME MInv, UNCHANGED <<scene, memory, checks, ghosts>>,
           IsDoc(doc'), doc'.snap = doc.snap
    PROVE  MInv'
<1>1. FormInv'
  BY DEF MInv, FormInv, memory, ghosts, IsDoc
<1>2. SnapInv' /\ ToldIsHeard' /\ SnapshotIsCurrent'
  BY DEF MInv, SnapInv, Counted, FailsIn, ToldIn, ToldIsHeard, Told,
         SnapshotIsCurrent, memory, ghosts
<1> QED
  BY <1>1, <1>2 DEF MInv

LEMMA EditKeeps ==
    ASSUME MInv, \/ \E s \in Servers : Edit(s)
                 \/ \E n \in 1..MaxFails : SetThreshold(n)
    PROVE  MInv'
<1>1. IsDoc(doc)
  BY DEF MInv, FormInv
<1>2. ASSUME NEW s \in Servers, Edit(s) PROVE IsDoc(doc') /\ doc'.snap = doc.snap
  <2>1. CASE doc' = [doc EXCEPT !.list = @ \cup {s}]
    BY <1>1, <2>1, DocEdits
  <2>2. CASE doc' = [doc EXCEPT !.list = @ \ {s}, !.ips = @ \ {s}]
    BY <1>1, <2>2 DEF IsDoc, DocFields
  <2> QED
    BY <1>2, <2>1, <2>2 DEF Edit
<1>3. ASSUME NEW n \in 1..MaxFails, SetThreshold(n)
      PROVE  IsDoc(doc') /\ doc'.snap = doc.snap
  BY <1>1, <1>3, DocEdits DEF SetThreshold
<1> QED
  BY <1>2, <1>3, EditsKeep DEF Edit, SetThreshold

LEMMA NextMonitors == MInv /\ [Next]_vars => MInv'
<1> SUFFICES ASSUME MInv, [Next]_vars PROVE MInv'
  OBVIOUS
<1>1. IsDoc(doc)
  BY DEF MInv, FormInv
<1>2. ASSUME NEW w, Change(w) PROVE MInv'
  BY <1>1, <1>2, EditsKeep DEF Change
<1>3. CASE UNCHANGED vars \/ Mend
  BY <1>1, <1>3, EditsKeep DEF vars, Mend
<1> QED
  BY <1>2, <1>3, ProbingKeeps, BeginKeeps, SaveIpsKeeps, ApplyKeeps,
     EnsureLoadedKeeps, RestartKeeps, EditKeeps
  DEF Next, CheckStep

LEMMA SpecMonitors == Spec => []MInv
BY InitMonitors, NextMonitors, PTL DEF Spec

\* What a monitor believes to have told is what its last message said, over
\* checks by hand, servers that come and go and restarts: but for baselines
\* nobody was told of, and as long as no check saved its copy over the snapshot
\* of another (_apply_rkn_probe).
THEOREM MonitorsToldIsHeard == Spec => []ToldIsHeard
<1>1. MInv => ToldIsHeard
  BY DEF MInv
<1> QED
  BY <1>1, SpecMonitors, PTL

\* Between checks the document holds what the memory holds, whatever copies were
\* saved meanwhile (_persist_rkn_snapshot).
THEOREM MonitorsSnapshotIsCurrent == Spec => []SnapshotIsCurrent
<1>1. MInv => SnapshotIsCurrent
  BY DEF MInv
<1> QED
  BY <1>1, SpecMonitors, PTL

\* A step that makes the memory say of a server what it did not.
LEMMA AlarmStep ==
    ASSUME MInv, [Next]_vars, NEW s \in Servers, NEW h \in Hands,
           primed, ~undone, Told(s) = "ok", Told(s)' # "ok", checks'[h] # checks[h]
    PROVE  streak'[s] >= checks[h].copy.threshold
<1>1. state' # state
  BY DEF Told
<1>2. ASSUME NEW g \in Hands, Apply(g) PROVE streak'[s] >= checks[h].copy.threshold
  <2>1. g = h
    BY <1>2 DEF Apply
  <2>2. ToldIn(state, s) = "ok" /\ ToldIn(state', s) # "ok"
    BY DEF Told, ToldIn
  <2> QED
    BY <1>2, <2>1, <2>2, AfterCounts
<1>3. CASE Restart
  <2>1. CASE scene.kind = "rkn"
    <3>1. doc.snap.state = state
      BY <2>1 DEF MInv, SnapInv
    <3>2. state' = doc.snap.state
      BY <1>3, <2>1 DEF Restart
    <3> QED
      BY <3>1, <3>2 DEF Told
  <2>2. CASE scene.kind # "rkn"
    BY <1>3, <2>2 DEF Restart, Told, Nothing
  <2> QED
    BY <2>1, <2>2
<1>4. \/ \E g \in Hands : Apply(g)
      \/ EnsureLoaded \/ Restart
  <2>1. ~UNCHANGED memory
    BY <1>1 DEF memory
  <2>2. ASSUME NEW g \in Hands, CheckStep(g) PROVE Apply(g)
    <3>1. ~Begin(g) /\ ~SaveIps(g)
      BY <2>1 DEF Begin, SaveIps
    <3>2. ASSUME NEW t \in Servers
          PROVE  ~(\/ Connect(g, t) \/ ProbeBlind(g, t) \/ StartEcho(g, t)
                   \/ CallProbe(g, t) \/ ProbeFails(g, t) \/ StopEcho(g, t))
      BY <2>1 DEF Connect, ProbeBlind, StartEcho, CallProbe, ProbeFails, StopEcho
    <3> QED
      BY <2>2, <3>1, <3>2 DEF CheckStep
  <2>3. /\ \A t \in Servers : ~Edit(t)
        /\ \A n \in 1..MaxFails : ~SetThreshold(n)
        /\ \A w \in scene.worlds : ~Change(w)
        /\ ~Mend
    BY <2>1 DEF Edit, SetThreshold, Change, Mend
  <2>4. ~UNCHANGED vars
    BY <2>1 DEF vars
  <2> QED
    BY <2>2, <2>3, <2>4 DEF Next
<1>5. ~EnsureLoaded
  BY DEF EnsureLoaded
<1> QED
  BY <1>2, <1>3, <1>4, <1>5

\* After the baseline, a server that was fine is reported only after as many
\* problems in a row as the threshold of the check says, over restarts and
\* whatever else moves the memory (_apply_monitor_probe, _apply_rkn_probe).
THEOREM MonitorsAlarmsAreFirm == Spec => AlarmsAreFirm
<1>1. MInv /\ [Next]_vars =>
        [\A s \in Servers, h \in Hands :
          (/\ primed /\ ~undone /\ Told(s) = "ok" /\ Told(s)' # "ok"
           /\ checks'[h] # checks[h])
              => streak'[s] >= checks[h].copy.threshold]_vars
  BY AlarmStep
<1> QED
  BY <1>1, SpecMonitors, PTL DEF Spec, AlarmsAreFirm

-----------------------------------------------------------------------------
(* Types *)

\* A check in progress: what TypeOK says of it, and the levels it found.
IsCheck(k) ==
    /\ k.copy \in Doc
    /\ DOMAIN k.index \subseteq Ips /\ \A ip \in DOMAIN k.index : k.index[ip] \in Levels
    /\ k.left \subseteq Servers /\ k.at \subseteq Servers /\ k.found \subseteq Servers
    /\ k.part \in Levels
    /\ k.listens \in BOOLEAN /\ k.sent \in BOOLEAN /\ k.tcp \in BOOLEAN
    /\ DOMAIN k.rows \subseteq Servers /\ \A s \in DOMAIN k.rows : k.rows[s] \in Levels
    /\ k.step \in {"idle", "probing", "echo", "sent"}

ChecksOK ==
    /\ DOMAIN checks = Hands
    /\ \A h \in Hands : DOMAIN checks[h] = CheckFields /\ IsCheck(checks[h])

TInv == TypeOK /\ ChecksOK

LEMMA SceneTypes ==
    ASSUME TypeOK
    PROVE  /\ scene \in Scene /\ world \in World /\ world \in scene.worlds
           /\ world.dump \in Seq(Token) /\ world.dark \subseteq Servers
           /\ scene.list \subseteq Servers /\ scene.moves \subseteq Servers
           /\ scene.threshold \in 1..MaxFails /\ scene.acts \subseteq AllActs
           /\ \A w \in scene.worlds : w \in World
<1>1. scene \in Scene /\ world \in scene.worlds
  BY DEF TypeOK
<1>2. scene.worlds \subseteq World
  BY <1>1 DEF Scene
<1> QED
  BY <1>1, <1>2 DEF Scene, World

LEMMA ScanTyped ==
    ASSUME NEW dump \in Seq(Token), NEW watched
    PROVE  /\ DOMAIN Scan(dump, watched) = watched
           /\ \A ip \in watched : Scan(dump, watched)[ip] \in Levels
BY ScanFinds DEF ScanLevel, Levels

LEMMA MergedTyped ==
    ASSUME NEW ls \in SUBSET Levels
    PROVE  Merged(ls) \in Levels /\ Merged(ls) \in ls \cup {"ok"}
<1>1. \E l \in ls \cup {"ok"} : \A k \in ls : Rank(k) <= Rank(l)
  <2>1. CASE "blocked" \in ls
    BY <2>1 DEF Levels, Rank
  <2>2. CASE "blocked" \notin ls /\ "at_risk" \in ls
    BY <2>2 DEF Levels, Rank
  <2>3. CASE "blocked" \notin ls /\ "at_risk" \notin ls
    BY <2>3 DEF Levels, Rank
  <2> QED
    BY <2>1, <2>2, <2>3
<1>2. Merged(ls) \in ls \cup {"ok"}
  BY <1>1 DEF Merged
<1> QED
  BY <1>2 DEF Levels

LEMMA NothingTyped == Nothing \in States /\ NoSnap \in Snap
<1>1. Nothing \in [{} -> Known]
  BY DEF Nothing
<1>2. Nothing \in States
  BY <1>1 DEF States
<1> QED
  BY <1>2 DEF NoSnap, Snap

LEMMA IdleOK == IsCheck(Idle) /\ DOMAIN Idle = CheckFields
<1>1. DOMAIN Idle = CheckFields
  BY DEF Idle, CheckFields
<1>2. Nothing \in States /\ NoSnap \in Snap
  BY NothingTyped
<1>3. Idle.copy = [list |-> {}, ips |-> {}, snap |-> NoSnap, threshold |-> 1]
  BY DEF Idle
<1>4. Idle.copy \in Doc
  BY <1>2, <1>3 DEF Doc
<1>5. /\ Idle.index = [x \in {} |-> "ok"] /\ Idle.left = {} /\ Idle.at = {}
      /\ Idle.part = "ok" /\ Idle.found = {}
      /\ Idle.listens = TRUE /\ Idle.sent = TRUE /\ Idle.tcp = TRUE
      /\ Idle.rows = [x \in {} |-> "ok"] /\ Idle.step = "idle"
  BY DEF Idle
<1> QED
  BY <1>1, <1>4, <1>5 DEF IsCheck, Levels

LEMMA InitTypes == Init => TInv
<1> SUFFICES ASSUME Init PROVE TInv
  OBVIOUS
<1>1. scene \in Scenes /\ scene \in Scene
  BY DEF Init
<1>2. /\ may = scene.acts /\ world \in scene.worlds /\ file = NoFile
      /\ doc = [list |-> scene.list, ips |-> {}, snap |-> NoSnap,
                threshold |-> scene.threshold]
      /\ primed = FALSE /\ state = Nothing
      /\ checks = [h \in Hands |-> Idle]
      /\ echo = [s \in Servers |-> NoEcho]
      /\ heard = [s \in Servers |-> "ok"] /\ unsaid = {} /\ streak = [s \in Servers |-> 0]
      /\ cause = {} /\ overlap = {} /\ undone = FALSE
  BY DEF Init
<1>3. doc \in Doc
  <2>1. scene.list \subseteq Servers /\ scene.threshold \in 1..MaxFails
    BY <1>1 DEF Scene
  <2> QED
    BY <1>2, <2>1, NothingTyped DEF Doc
<1>4. ChecksOK
  BY <1>2, IdleOK DEF ChecksOK
<1>5. may \subseteq AllActs
  BY <1>1, <1>2 DEF Scene
<1>6. /\ echo \in [Servers -> [on : BOOLEAN, log : BOOLEAN]]
      /\ heard \in [Servers -> Levels] /\ streak \in [Servers -> 0..MaxFails]
  BY <1>2 DEF NoEcho, Levels
<1>7. \A h \in Hands : checks[h].left \subseteq Servers /\ DOMAIN checks[h].rows \subseteq Servers
  BY <1>4 DEF ChecksOK, IsCheck
<1>8. primed \in BOOLEAN /\ state \in States /\ undone \in BOOLEAN
  BY <1>2, NothingTyped
<1> QED
  BY <1>1, <1>2, <1>3, <1>4, <1>5, <1>6, <1>7, <1>8 DEF TInv, TypeOK

\* What of the type invariant the steps of a check leave alone.
LEMMA TypesGoOn ==
    ASSUME TInv, ChecksOK',
           UNCHANGED <<scene, may, world, doc, memory, heard, unsaid, streak, undone>>,
           file' = file \/ file' = {world.dump},
           echo' \in [Servers -> [on : BOOLEAN, log : BOOLEAN]],
           cause' \subseteq Servers, overlap' \subseteq Servers
    PROVE  TInv'
<1>1. \A h \in Hands : checks'[h].left \subseteq Servers /\ DOMAIN checks'[h].rows \subseteq Servers
  BY DEF ChecksOK, IsCheck
<1>2. file' \in {NoFile} \cup {{w.dump} : w \in scene.worlds}
  BY DEF TInv, TypeOK
<1>3. /\ scene' \in Scene /\ may' \subseteq AllActs /\ world' \in scene'.worlds
      /\ doc' \in Doc /\ primed' \in BOOLEAN /\ state' \in States
      /\ heard' \in [Servers -> Levels] /\ streak' \in [Servers -> 0..MaxFails]
      /\ unsaid' \subseteq Servers /\ undone' \in BOOLEAN
  BY DEF TInv, TypeOK, memory
<1>4. scene' = scene
  OBVIOUS
<1> QED
  BY <1>1, <1>2, <1>3, <1>4 DEF TInv, TypeOK

\* One check is replaced by another that is in order.
LEMMA OneCheck ==
    ASSUME ChecksOK, NEW h \in Hands, NEW k, IsCheck(k), DOMAIN k = CheckFields,
           checks' = [checks EXCEPT ![h] = k]
    PROVE  ChecksOK'
<1>1. DOMAIN checks' = Hands /\ \A g \in Hands : checks'[g] \in {k, checks[g]}
  BY DEF ChecksOK
<1> QED
  BY <1>1 DEF ChecksOK

LEMMA RowTypes ==
    ASSUME ChecksOK, NEW h \in Hands, NEW s \in Servers, NEW level \in Levels,
           Row(h, s, level)
    PROVE  ChecksOK'
<1> DEFINE k == [checks[h] EXCEPT !.left = @ \ {s}, !.at = {}, !.step = "probing",
                                  !.rows = With(@, s, level)]
<1>1. IsCheck(checks[h]) /\ DOMAIN checks[h] = CheckFields /\ DOMAIN checks = Hands
  BY DEF ChecksOK
<1>2. checks' = [checks EXCEPT ![h] = k]
  BY <1>1 DEF Row
<1>3. /\ DOMAIN k = CheckFields
      /\ k.left = checks[h].left \ {s} /\ k.at = {} /\ k.step = "probing"
      /\ k.rows = With(checks[h].rows, s, level)
      /\ k.copy = checks[h].copy /\ k.index = checks[h].index /\ k.part = checks[h].part
      /\ k.listens = checks[h].listens /\ k.sent = checks[h].sent
      /\ k.tcp = checks[h].tcp /\ k.found = checks[h].found
  BY <1>1 DEF CheckFields
<1> HIDE DEF k
<1>4. DOMAIN k.rows \subseteq Servers /\ \A t \in DOMAIN k.rows : k.rows[t] \in Levels
  <2> DEFINE r == checks[h].rows
  <2>1. DOMAIN r \subseteq Servers /\ \A t \in DOMAIN r : r[t] \in Levels
    BY <1>1 DEF IsCheck
  <2>2. k.rows = With(r, s, level)
    BY <1>3
  <2>3. /\ DOMAIN With(r, s, level) = DOMAIN r \cup {s}
        /\ \A z \in DOMAIN With(r, s, level) :
             With(r, s, level)[z] = IF z = s THEN level ELSE r[z]
    BY DEF With
  <2> HIDE DEF r
  <2> QED
    BY <2>1, <2>2, <2>3
<1>5. IsCheck(k)
  BY <1>1, <1>3, <1>4 DEF IsCheck
<1> QED
  BY <1>2, <1>3, <1>5, OneCheck

LEMMA RegistryTyped ==
    ASSUME ChecksOK, NEW h \in Hands, NEW s
    PROVE  Registry(h, s) \in Levels
BY DEF ChecksOK, IsCheck, Registry, MatchIp, Levels

LEMMA ProbingTypes ==
    ASSUME TInv, NEW h \in Hands, NEW s \in Servers,
           \/ Connect(h, s) \/ ProbeBlind(h, s) \/ StartEcho(h, s)
           \/ CallProbe(h, s) \/ ProbeFails(h, s) \/ StopEcho(h, s)
    PROVE  TInv'
<1>1. UNCHANGED <<scene, may, world, doc, memory, heard, unsaid, streak, undone>> /\ file' = file
  BY DEF Connect, ProbeBlind, StartEcho, CallProbe, ProbeFails, StopEcho, ghosts
<1>2. /\ ChecksOK /\ IsCheck(checks[h]) /\ DOMAIN checks[h] = CheckFields
      /\ cause \subseteq Servers /\ overlap \subseteq Servers
      /\ echo \in [Servers -> [on : BOOLEAN, log : BOOLEAN]]
  BY DEF TInv, TypeOK, ChecksOK
<1>3. Registry(h, s) \in Levels
  BY <1>2, RegistryTyped
<1>4. cause' \subseteq Servers /\ overlap' \subseteq Servers
  BY <1>2 DEF Connect, ProbeBlind, StartEcho, CallProbe, ProbeFails, StopEcho, ghosts, Listed
<1>5. echo' \in [Servers -> [on : BOOLEAN, log : BOOLEAN]]
  <2> DEFINE Echo == [on : BOOLEAN, log : BOOLEAN]
  <2>1. (\A b \in BOOLEAN : [on |-> b, log |-> FALSE] \in Echo) /\ NoEcho \in Echo
    BY DEF NoEcho
  <2>2. \A x \in Echo : \A b \in BOOLEAN : [x EXCEPT !.log = b] \in Echo
    OBVIOUS
  <2>3. \/ echo' = echo
        \/ \E x \in Echo : echo' = [echo EXCEPT ![s] = x]
    <3>1. CASE StartEcho(h, s)
      BY <2>1, <3>1 DEF StartEcho, Works
    <3>2. CASE ProbeFails(h, s) \/ StopEcho(h, s)
      BY <2>1, <3>2 DEF ProbeFails, StopEcho
    <3>3. CASE CallProbe(h, s)
      <4>1. PICK sent \in BOOLEAN :
              echo' = [echo EXCEPT ![s].log =
                @ \/ (sent /\ s \notin world.noudp \cup world.dark /\ echo[s].on)]
        BY <3>3 DEF CallProbe, Works
      <4> DEFINE b == echo[s].log
                   \/ (sent /\ s \notin world.noudp \cup world.dark /\ echo[s].on)
      <4>2. echo' = [echo EXCEPT ![s] = [echo[s] EXCEPT !.log = b]]
        BY <1>2, <4>1
      <4>3. b \in BOOLEAN
        BY <1>2
      <4> HIDE DEF b
      <4> QED
        BY <1>2, <2>2, <4>2, <4>3
    <3>4. CASE Connect(h, s) \/ ProbeBlind(h, s)
      BY <3>4 DEF Connect, ProbeBlind
    <3> QED
      BY <3>1, <3>2, <3>3, <3>4
  <2> HIDE DEF Echo
  <2>4. echo' \in [Servers -> Echo]
    BY <1>2, <2>3 DEF Echo
  <2> QED
    BY <2>4 DEF Echo
<1>6. ChecksOK'
  <2>1. ASSUME NEW level \in Levels, Row(h, s, level) PROVE ChecksOK'
    BY <1>2, <2>1, RowTypes
  <2>2. CASE Connect(h, s)
    <3>1. "ok" \in Levels /\ "blocked" \in Levels
      BY DEF Levels
    <3> QED
      BY <2>1, <2>2, <3>1 DEF Connect
  <2>3. CASE ProbeBlind(h, s)
    <3>1. "ok" \in Levels
      BY DEF Levels
    <3> QED
      BY <1>3, <2>1, <2>3, <3>1 DEF ProbeBlind
  <2>4. CASE StartEcho(h, s)
    <3> PICK listens \in BOOLEAN : checks' = [checks EXCEPT ![h].at = {s}, ![h].step = "echo",
            ![h].found = @ \cup ((IF "ips" \in may THEN {s} ELSE {}) \ checks[h].copy.ips),
            ![h].listens = listens,
            ![h].part = Merged({Registry(h, s), HandshakeLevel(world.peers)})]
      BY <2>4 DEF StartEcho, Works
    <3> DEFINE k == [checks[h] EXCEPT !.at = {s}, !.step = "echo",
            !.found = @ \cup ((IF "ips" \in may THEN {s} ELSE {}) \ checks[h].copy.ips),
            !.listens = listens,
            !.part = Merged({Registry(h, s), HandshakeLevel(world.peers)})]
    <3>1. HandshakeLevel(world.peers) \in Levels
      BY DEF HandshakeLevel, Levels
    <3>2. Merged({Registry(h, s), HandshakeLevel(world.peers)}) \in Levels
      BY <1>3, <3>1, MergedTyped
    <3>3. checks' = [checks EXCEPT ![h] = k]
      BY <1>2
    <3>4. /\ DOMAIN k = CheckFields
          /\ k.at = {s} /\ k.step = "echo" /\ k.found \subseteq checks[h].found \cup {s}
          /\ k.part = Merged({Registry(h, s), HandshakeLevel(world.peers)})
          /\ k.left = checks[h].left /\ k.rows = checks[h].rows
          /\ k.copy = checks[h].copy /\ k.index = checks[h].index /\ k.tcp = checks[h].tcp
          /\ k.listens = listens /\ k.sent = checks[h].sent
      BY <1>2 DEF CheckFields
    <3> HIDE DEF k
    <3>5. IsCheck(k)
      BY <1>2, <3>2, <3>4 DEF IsCheck
    <3> QED
      BY <1>2, <3>3, <3>4, <3>5, OneCheck
  <2>5. CASE CallProbe(h, s)
    <3> PICK sent \in BOOLEAN : checks' = [checks EXCEPT ![h].step = "sent",
                                  ![h].sent = sent, ![h].tcp = s \notin world.dark]
      BY <2>5 DEF CallProbe, Works
    <3> DEFINE k == [checks[h] EXCEPT !.step = "sent", !.sent = sent,
                                      !.tcp = s \notin world.dark]
    <3>1. checks' = [checks EXCEPT ![h] = k]
      BY <1>2
    <3>2. /\ DOMAIN k = CheckFields /\ k.step = "sent"
          /\ k.sent = sent /\ k.listens = checks[h].listens
          /\ k.at = checks[h].at /\ k.part = checks[h].part /\ k.found = checks[h].found
          /\ k.left = checks[h].left /\ k.rows = checks[h].rows
          /\ k.copy = checks[h].copy /\ k.index = checks[h].index
      BY <1>2 DEF CheckFields
    <3>3. k.tcp \in BOOLEAN
      BY <1>2 DEF CheckFields
    <3> HIDE DEF k
    <3>4. IsCheck(k)
      BY <1>2, <3>2, <3>3 DEF IsCheck
    <3> QED
      BY <1>2, <3>1, <3>2, <3>4, OneCheck
  <2>6. CASE ProbeFails(h, s)
    BY <1>2, <2>1, <2>6 DEF ProbeFails, IsCheck
  <2>7. CASE StopEcho(h, s)
    <3> DEFINE reach == ReachLevel({checks[h].tcp}, checks[h].listens, checks[h].sent,
                                   EchoLog(s))
    <3>1. reach \in Levels /\ checks[h].part \in Levels
      BY <1>2 DEF ReachLevel, Levels, IsCheck
    <3>2. Row(h, s, Merged({checks[h].part, reach}))
      BY <2>7 DEF StopEcho
    <3> HIDE DEF reach
    <3>3. Merged({checks[h].part, reach}) \in Levels
      BY <3>1, MergedTyped
    <3> QED
      BY <2>1, <3>2, <3>3
  <2> QED
    BY <2>2, <2>3, <2>4, <2>5, <2>6, <2>7
<1> QED
  BY <1>1, <1>4, <1>5, <1>6, TypesGoOn

LEMMA BeginTypes ==
    ASSUME TInv, NEW h \in Hands, Begin(h)
    PROVE  TInv'
<1> DEFINE k == [Idle EXCEPT !.copy = doc, !.left = doc.list, !.step = "probing",
                             !.index = Index(doc.list)]
<1>1. /\ UNCHANGED <<scene, may, world, doc, memory, heard, unsaid, streak, undone>>
      /\ UNCHANGED <<echo, cause, overlap>>
      /\ file' = file \/ file' = {world.dump}
      /\ checks' = [checks EXCEPT ![h] = k]
  BY DEF Begin, ghosts, Dump
<1>2. /\ ChecksOK /\ doc \in Doc /\ doc.list \subseteq Servers
      /\ cause \subseteq Servers /\ overlap \subseteq Servers
      /\ echo \in [Servers -> [on : BOOLEAN, log : BOOLEAN]]
  BY DEF TInv, TypeOK, Doc
<1>3. /\ DOMAIN Index(doc.list) \subseteq Ips
      /\ \A ip \in DOMAIN Index(doc.list) : Index(doc.list)[ip] \in Levels
  <2>1. file' \in {NoFile} \cup {{w.dump} : w \in scene.worlds}
    BY <1>1 DEF TInv, TypeOK
  <2>2. \A d \in file' : d \in Seq(Token)
    <3>1. \A w \in scene.worlds : w.dump \in Seq(Token)
      BY SceneTypes DEF TInv, World
    <3> QED
      BY <2>1, <3>1 DEF NoFile
  <2>3. Watched(doc.list) \subseteq Ips
    BY <1>2 DEF Watched
  <2>4. CASE file' = NoFile
    BY <2>4 DEF Index, Idle
  <2>5. CASE file' # NoFile
    <3>1. PICK d \in Seq(Token) : Index(doc.list) = Scan(d, Watched(doc.list))
      BY <2>2, <2>5 DEF Index, NoFile
    <3> QED
      BY <2>3, <3>1, ScanTyped
  <2> QED
    BY <2>4, <2>5
<1>4. /\ DOMAIN k = CheckFields /\ k.copy = doc /\ k.left = doc.list
      /\ k.step = "probing" /\ k.index = Index(doc.list)
      /\ k.at = Idle.at /\ k.part = Idle.part
      /\ k.listens = Idle.listens /\ k.sent = Idle.sent /\ k.tcp = Idle.tcp
      /\ k.found = Idle.found /\ k.rows = Idle.rows
  <2>1. DOMAIN Idle = CheckFields
    BY IdleOK
  <2> QED
    BY <2>1 DEF CheckFields
<1> HIDE DEF k
<1>5. IsCheck(k)
  BY <1>2, <1>3, <1>4, IdleOK DEF IsCheck
<1>6. ChecksOK'
  BY <1>1, <1>2, <1>4, <1>5, OneCheck
<1> QED
  BY <1>1, <1>2, <1>6, TypesGoOn

LEMMA SaveIpsTypes ==
    ASSUME TInv, NEW h \in Hands, SaveIps(h)
    PROVE  TInv'
<1> DEFINE k == [checks[h] EXCEPT !.found = {}]
<1>1. ChecksOK /\ IsCheck(checks[h]) /\ DOMAIN checks[h] = CheckFields
  BY DEF TInv, ChecksOK
<1>2. checks' = [checks EXCEPT ![h] = k]
  BY <1>1 DEF SaveIps
<1>3. /\ DOMAIN k = CheckFields /\ k.found = {}
      /\ k.copy = checks[h].copy /\ k.index = checks[h].index /\ k.left = checks[h].left
      /\ k.at = checks[h].at /\ k.part = checks[h].part
      /\ k.listens = checks[h].listens /\ k.sent = checks[h].sent /\ k.tcp = checks[h].tcp
      /\ k.rows = checks[h].rows /\ k.step = checks[h].step
  BY <1>1 DEF CheckFields
<1> HIDE DEF k
<1>4. IsCheck(k)
  BY <1>1, <1>3 DEF IsCheck
<1>5. ChecksOK'
  BY <1>1, <1>2, <1>3, <1>4, OneCheck
<1>6. doc' \in Doc
  BY <1>1 DEF SaveIps, IsCheck, Doc
<1>7. \A g \in Hands : checks'[g].left \subseteq Servers /\ DOMAIN checks'[g].rows \subseteq Servers
  BY <1>5 DEF ChecksOK, IsCheck
<1>8. /\ UNCHANGED <<scene, may, world, file, memory, echo, heard, unsaid, streak, cause, overlap>>
      /\ undone' \in BOOLEAN
  BY DEF SaveIps, TInv, TypeOK
<1> QED
  BY <1>5, <1>6, <1>7, <1>8 DEF TInv, TypeOK, memory

LEMMA KnownMade ==
    ASSUME NEW level \in Levels, NEW limit \in 1..MaxFails, NEW k \in Known
    PROVE  Prime(level, limit) \in Known /\ Observe(k, level, limit) \in Known
<1>1. k.fails \in 0..MaxFails /\ k.told \in Levels
  BY DEF Known
<1>2. Bump(k.fails) \in 0..MaxFails
  BY <1>1, BumpBounds
<1>3. New \in Known
  BY DEF New, Known, Levels
<1> QED
  BY <1>1, <1>2, <1>3 DEF Prime, Observe, Known

LEMMA ApplyTypes ==
    ASSUME TInv, NEW h \in Hands, Apply(h)
    PROVE  TInv'
<1> DEFINE rows == checks[h].rows
           limit == checks[h].copy.threshold
           after == After(rows, limit)
<1>1. /\ ChecksOK /\ IsCheck(checks[h]) /\ state \in States /\ doc \in Doc
      /\ streak \in [Servers -> 0..MaxFails]
  BY DEF TInv, ChecksOK, TypeOK
<1>2. /\ state' = after /\ primed' = TRUE /\ doc' = Persisted(h, after)
      /\ heard' = [s \in Servers |-> IF s \notin DOMAIN rows THEN "ok"
                                     ELSE IF Announces(s, rows[s], limit) THEN rows[s]
                                     ELSE heard[s]]
      /\ unsaid' \subseteq DOMAIN rows
      /\ streak' = [s \in Servers |->
            IF s \notin DOMAIN rows \/ rows[s] = "ok" THEN 0 ELSE Bump(streak[s])]
      /\ checks' = [checks EXCEPT ![h] = Idle]
      /\ UNCHANGED <<scene, may, world, file, echo, cause, overlap, undone>>
  BY DEF Apply
<1>3. /\ DOMAIN rows \subseteq Servers /\ \A s \in DOMAIN rows : rows[s] \in Levels
      /\ limit \in 1..MaxFails
  BY <1>1 DEF IsCheck, Doc
<1>4. \A s \in DOMAIN state : state[s] \in Known
  BY <1>1 DEF States
<1> HIDE DEF rows, limit
<1>5. DOMAIN after = DOMAIN rows /\ \A s \in DOMAIN rows : after[s] \in Known
  <2>1. New \in Known
    BY DEF New, Known, Levels
  <2>2. ASSUME NEW s \in DOMAIN rows PROVE after[s] \in Known
    <3> DEFINE m == Entry(s)
    <3>1. m \in Known
      BY <1>4, <2>1 DEF Entry
    <3>2. after[s] = IF ~primed THEN Prime(rows[s], limit) ELSE Observe(m, rows[s], limit)
      BY DEF After
    <3> HIDE DEF m, after
    <3>3. Prime(rows[s], limit) \in Known /\ Observe(m, rows[s], limit) \in Known
      BY <1>3, <3>1, KnownMade
    <3> QED
      BY <3>2, <3>3
  <2> QED
    BY <2>2 DEF After
<1>6. after \in States
  <2>1. after = [s \in DOMAIN rows |-> after[s]]
    BY DEF After
  <2> HIDE DEF after
  <2>2. after \in [DOMAIN rows -> Known]
    BY <1>5, <2>1
  <2> QED
    BY <1>3, <2>2 DEF States
<1> HIDE DEF after
<1>7. doc' \in Doc
  <2>1. [primed |-> TRUE, state |-> after] \in Snap
    BY <1>6 DEF Snap
  <2> QED
    BY <1>1, <1>2, <2>1 DEF Persisted, Doc
<1>8. heard' \in [Servers -> Levels] /\ streak' \in [Servers -> 0..MaxFails]
  <2>1. heard \in [Servers -> Levels]
    BY DEF TInv, TypeOK
  <2>2. \A s \in Servers : Bump(streak[s]) \in 0..MaxFails
    BY <1>1, BumpBounds
  <2>3. "ok" \in Levels /\ 0 \in 0..MaxFails
    BY DEF Levels
  <2> QED
    BY <1>2, <1>3, <2>1, <2>2, <2>3
<1>9. ChecksOK'
  BY <1>1, <1>2, IdleOK, OneCheck
<1>10. \A g \in Hands : checks'[g].left \subseteq Servers /\ DOMAIN checks'[g].rows \subseteq Servers
  BY <1>9 DEF ChecksOK, IsCheck
<1> QED
  BY <1>2, <1>3, <1>6, <1>7, <1>8, <1>9, <1>10 DEF TInv, TypeOK

LEMMA OtherTypes ==
    ASSUME TInv,
           \/ EnsureLoaded \/ Restart \/ Mend
           \/ \E s \in Servers : Edit(s)
           \/ \E n \in 1..MaxFails : SetThreshold(n)
           \/ \E w \in scene.worlds : Change(w)
           \/ UNCHANGED vars
    PROVE  TInv'
<1>1. doc \in Doc /\ doc.snap \in Snap /\ ChecksOK
  BY DEF TInv, TypeOK, Doc
<1>2. doc.snap.primed \in BOOLEAN /\ doc.snap.state \in States
  BY <1>1 DEF Snap
<1>3. doc' \in Doc
  <2>1. ASSUME NEW s \in Servers, Edit(s) PROVE doc' \in Doc
    BY <1>1, <2>1 DEF Edit, Doc
  <2>2. ASSUME NEW n \in 1..MaxFails, SetThreshold(n) PROVE doc' \in Doc
    BY <1>1, <2>2 DEF SetThreshold, Doc
  <2> QED
    BY <1>1, <2>1, <2>2 DEF EnsureLoaded, Restart, Mend, Change, vars
<1>4. primed' \in BOOLEAN /\ state' \in States
  BY <1>2, NothingTyped
  DEF EnsureLoaded, Restart, Mend, Edit, SetThreshold, Change, vars, memory, ghosts, TInv, TypeOK
<1>5. ChecksOK'
  <2>1. CASE Restart
    BY <2>1, IdleOK DEF Restart, ChecksOK
  <2>2. CASE ~Restart
    <3>1. checks' = checks
      BY <2>2 DEF EnsureLoaded, Mend, Edit, SetThreshold, Change, vars
    <3> QED
      BY <1>1, <3>1 DEF ChecksOK
  <2> QED
    BY <2>1, <2>2
<1>6. echo' \in [Servers -> [on : BOOLEAN, log : BOOLEAN]]
  <2>1. echo \in [Servers -> [on : BOOLEAN, log : BOOLEAN]]
    BY DEF TInv, TypeOK
  <2>2. NoEcho \in [on : BOOLEAN, log : BOOLEAN]
    BY DEF NoEcho
  <2>3. echo' = echo \/ echo' = [s \in Servers |-> NoEcho]
    BY DEF EnsureLoaded, Restart, Mend, Edit, SetThreshold, Change, vars
  <2> QED
    BY <2>1, <2>2, <2>3
<1>7. may' \subseteq AllActs
  BY DEF EnsureLoaded, Restart, Mend, Edit, SetThreshold, Change, vars, TInv, TypeOK
<1>8. /\ scene' = scene /\ world' \in scene'.worlds /\ file' = file
      /\ UNCHANGED ghosts
  BY DEF EnsureLoaded, Restart, Mend, Edit, SetThreshold, Change, vars, TInv, TypeOK
<1>9. \A g \in Hands : checks'[g].left \subseteq Servers /\ DOMAIN checks'[g].rows \subseteq Servers
  BY <1>5 DEF ChecksOK, IsCheck
<1> QED
  BY <1>3, <1>4, <1>5, <1>6, <1>7, <1>8, <1>9 DEF TInv, TypeOK, ghosts

LEMMA NextTypes == TInv /\ [Next]_vars => TInv'
<1> SUFFICES ASSUME TInv, [Next]_vars PROVE TInv'
  OBVIOUS
<1>1. ASSUME NEW h \in Hands, CheckStep(h) PROVE TInv'
  BY <1>1, BeginTypes, SaveIpsTypes, ApplyTypes, ProbingTypes DEF CheckStep
<1> QED
  BY <1>1, OtherTypes DEF Next

LEMMA SpecTypes == Spec => []TInv
BY InitTypes, NextTypes, PTL DEF Spec

\* Every variable of the monitors has its type: above all, whatever a dump holds
\* and in whatever order, a check comes to a level (match_ips_in_dump).
THEOREM MonitorsTypeOK == Spec => []TypeOK
<1>1. TInv => TypeOK
  BY DEF TInv
<1> QED
  BY <1>1, SpecTypes, PTL

\* However long the dump is and however it is ordered, one pass over it finds for
\* every server the worst that any token says (match_ips_in_dump).
THEOREM MonitorsScanFindsTheWorst == Spec => []ScanFindsTheWorst
<1>1. TInv => ScanFindsTheWorst
  <2> SUFFICES ASSUME TInv, NEW s \in scene.list
               PROVE  Scan(world.dump, Watched(scene.list))[Ip[s]] =
                        ScanLevel({world.dump[i] : i \in DOMAIN world.dump},
                                  Watched(scene.list), Ip[s])
    BY DEF ScanFindsTheWorst
  <2>1. world.dump \in Seq(Token)
    BY SceneTypes DEF TInv
  <2>2. Ip[s] \in Watched(scene.list)
    BY DEF Watched
  <2> QED
    BY <2>1, <2>2, ScanFinds
<1> QED
  BY <1>1, SpecTypes, PTL

-----------------------------------------------------------------------------
(* Alarms *)

Blamed == cause \cup overlap
BlockedIn(st) == {s \in Servers : ToldIn(st, s) = "blocked"}

\* A check h that is at the echo of server s: what it found so far has a cause;
\* its echo runs unless another check came in between; its probe was logged or
\* the path is cut.
AtEcho(h, s) ==
    /\ checks[h].at = {s} /\ checks[h].step \in {"echo", "sent"}
    /\ checks[h].part = "blocked" => s \in cause
    /\ checks[h].step = "echo" /\ checks[h].listens => echo[s].on \/ s \in overlap
    /\ checks[h].step = "sent" => /\ \/ echo[s].log \/ s \in Blamed
                                     \/ ~checks[h].listens \/ ~checks[h].sent
                                  /\ ~checks[h].tcp => s \in cause

\* Whatever says "blocked" -- a row, the memory, the snapshot, a snapshot in a
\* copy that a check may save -- says it of a server that is to blame.
AInv ==
    /\ \A h \in Hands : \A s \in checks[h].at : AtEcho(h, s)
    /\ \A h, g \in Hands : h # g => checks[h].at \cap checks[g].at \subseteq overlap
    /\ \A h \in Hands : \A s \in DOMAIN checks[h].rows :
            checks[h].rows[s] = "blocked" => s \in Blamed
    /\ BlockedIn(state) \subseteq Blamed /\ BlockedIn(doc.snap.state) \subseteq Blamed
    /\ \A h \in Hands : BlockedIn(checks[h].copy.snap.state) \subseteq Blamed

AlInv == TInv /\ AInv

LEMMA NothingBlocked == BlockedIn(Nothing) = {} /\ BlockedIn(Idle.copy.snap.state) = {}
<1>1. Idle.copy.snap = NoSnap
  BY DEF Idle
<1> QED
  BY <1>1 DEF BlockedIn, ToldIn, Nothing, NoSnap

LEMMA InitAlarms == Init => AlInv
<1> SUFFICES ASSUME Init PROVE AInv
  BY InitTypes DEF AlInv
<1>1. /\ \A h \in Hands : checks[h] = Idle
      /\ state = Nothing /\ doc.snap = NoSnap
  BY DEF Init
<1>2. Idle.at = {} /\ DOMAIN Idle.rows = {} /\ NoSnap.state = Nothing
  BY DEF Idle, NoSnap
<1> QED
  BY <1>1, <1>2, NothingBlocked DEF AInv

\* The part of the invariant about one check, and the rest of it.
OfCheck(h) ==
    /\ \A s \in checks[h].at : AtEcho(h, s)
    /\ \A g \in Hands : h # g => checks[h].at \cap checks[g].at \subseteq overlap
    /\ \A s \in DOMAIN checks[h].rows : checks[h].rows[s] = "blocked" => s \in Blamed
    /\ BlockedIn(checks[h].copy.snap.state) \subseteq Blamed

\* One check takes a step on its own; blame only grows, and other checks at the
\* same echo are excused by the overlap.
LEMMA OneAlarm ==
    ASSUME AlInv, NEW h \in Hands, UNCHANGED <<memory, doc>>,
           \A g \in Hands \ {h} : checks'[g] = checks[g],
           cause \subseteq cause', overlap \subseteq overlap',
           \A g \in Hands \ {h} : \A s \in checks[g].at :
                \/ s \in overlap'
                \/ (echo[s].on => echo'[s].on) /\ (echo[s].log => echo'[s].log),
           OfCheck(h)'
    PROVE  AInv'
<1>1. AInv
  BY DEF AlInv
<1>2. ASSUME NEW g \in Hands \ {h}, NEW s \in checks'[g].at PROVE AtEcho(g, s)'
  <2>1. AtEcho(g, s) /\ checks'[g] = checks[g]
    BY <1>1, <1>2 DEF AInv
  <2> QED
    BY <1>2, <2>1 DEF AtEcho, Blamed
<1>3. \A k, g \in Hands : k # g => checks'[k].at \cap checks'[g].at \subseteq overlap'
  BY <1>1 DEF AInv, OfCheck
<1>4. \A g \in Hands : \A s \in DOMAIN checks'[g].rows :
            checks'[g].rows[s] = "blocked" => s \in Blamed'
  BY <1>1 DEF AInv, OfCheck, Blamed
<1>5. BlockedIn(state)' \subseteq Blamed' /\ BlockedIn(doc.snap.state)' \subseteq Blamed'
  BY <1>1 DEF AInv, BlockedIn, Blamed, memory
<1>6. \A g \in Hands : BlockedIn(checks[g].copy.snap.state)' \subseteq Blamed'
  BY <1>1 DEF AInv, OfCheck, BlockedIn, Blamed
<1>7. \A g \in Hands : \A s \in checks'[g].at : AtEcho(g, s)'
  BY <1>2 DEF OfCheck
<1> QED
  BY <1>3, <1>4, <1>5, <1>6, <1>7 DEF AInv

\* A check has finished with server s and found a level for it.
LEMMA RowAlarm ==
    ASSUME AlInv, NEW h \in Hands, NEW s \in Servers, NEW level, Row(h, s, level),
           level = "blocked" => s \in Blamed',
           cause \subseteq cause', overlap \subseteq overlap'
    PROVE  OfCheck(h)' /\ \A g \in Hands \ {h} : checks'[g] = checks[g]
<1> DEFINE rows == checks[h].rows
<1>1. /\ checks'[h].at = {} /\ checks'[h].rows = With(rows, s, level)
      /\ checks'[h].copy = checks[h].copy
      /\ \A g \in Hands \ {h} : checks'[g] = checks[g]
  BY DEF Row, AlInv, TInv, ChecksOK, CheckFields
<1>2. \A t \in DOMAIN rows : rows[t] = "blocked" => t \in Blamed
  BY DEF AlInv, AInv
<1> HIDE DEF rows
<1>3. \A t \in DOMAIN checks'[h].rows : checks'[h].rows[t] = "blocked" => t \in Blamed'
  BY <1>1, <1>2 DEF With, Blamed
<1>4. BlockedIn(checks[h].copy.snap.state)' \subseteq Blamed'
  BY <1>1 DEF AlInv, AInv, BlockedIn, Blamed
<1> QED
  BY <1>1, <1>3, <1>4 DEF OfCheck

LEMMA ProbingAlarms ==
    ASSUME AlInv, NEW h \in Hands, NEW s \in Servers,
           \/ Connect(h, s) \/ ProbeBlind(h, s) \/ StartEcho(h, s)
           \/ CallProbe(h, s) \/ ProbeFails(h, s) \/ StopEcho(h, s)
    PROVE  AInv'
<1>1. UNCHANGED <<memory, doc>> /\ cause \subseteq cause' /\ overlap \subseteq overlap'
  BY DEF Connect, ProbeBlind, StartEcho, CallProbe, ProbeFails, StopEcho, ghosts
<1>2. /\ DOMAIN checks = Hands /\ DOMAIN checks[h] = CheckFields /\ IsCheck(checks[h])
      /\ DOMAIN echo = Servers /\ echo[s] \in [on : BOOLEAN, log : BOOLEAN]
      /\ cause \subseteq Servers
  BY DEF AlInv, TInv, TypeOK, ChecksOK
<1>3. AInv
  BY DEF AlInv
<1>4. Registry(h, s) \in Levels
  BY RegistryTyped DEF AlInv, TInv
<1>5. \A g \in Hands \ {h} : s \in checks[h].at \cap checks[g].at => s \in overlap
  BY <1>3 DEF AInv
<1>6. CASE Connect(h, s)
  <2>1. \E level : Row(h, s, level) /\ (level = "blocked" => s \in cause')
    BY <1>6 DEF Connect
  <2>2. OfCheck(h)' /\ \A g \in Hands \ {h} : checks'[g] = checks[g]
    BY <1>1, <2>1, RowAlarm DEF Blamed
  <2>3. echo' = echo
    BY <1>6 DEF Connect
  <2> QED
    BY <1>1, <2>2, <2>3, OneAlarm
<1>7. CASE ProbeBlind(h, s)
  <2>1. \E level : Row(h, s, level) /\ (level = "blocked" => s \in cause')
    BY <1>7 DEF ProbeBlind, Listed
  <2>2. OfCheck(h)' /\ \A g \in Hands \ {h} : checks'[g] = checks[g]
    BY <1>1, <2>1, RowAlarm DEF Blamed
  <2>3. echo' = echo
    BY <1>7 DEF ProbeBlind
  <2> QED
    BY <1>1, <2>2, <2>3, OneAlarm
<1>8. CASE StartEcho(h, s)
  <2>0. PICK listens \in BOOLEAN :
        /\ checks' = [checks EXCEPT ![h].at = {s}, ![h].step = "echo",
            ![h].found = @ \cup ((IF "ips" \in may THEN {s} ELSE {}) \ checks[h].copy.ips),
            ![h].listens = listens,
            ![h].part = Merged({Registry(h, s), HandshakeLevel(world.peers)})]
        /\ echo' = [echo EXCEPT ![s] = [on |-> listens, log |-> FALSE]]
    BY <1>8 DEF StartEcho, Works
  <2>1. /\ checks'[h].at = {s} /\ checks'[h].step = "echo"
        /\ checks'[h].part = Merged({Registry(h, s), HandshakeLevel(world.peers)})
        /\ checks'[h].rows = checks[h].rows /\ checks'[h].copy = checks[h].copy
        /\ checks'[h].listens = listens
        /\ \A g \in Hands \ {h} : checks'[g] = checks[g]
    BY <1>2, <2>0 DEF CheckFields
  <2>2. checks'[h].part = "blocked" => s \in cause'
    <3>1. HandshakeLevel(world.peers) \in Levels \ {"blocked"}
      BY DEF HandshakeLevel, Levels
    <3>2. Merged({Registry(h, s), HandshakeLevel(world.peers)})
            \in {Registry(h, s), HandshakeLevel(world.peers), "ok"}
      BY <1>4, <3>1, MergedTyped
    <3>3. Registry(h, s) = "blocked" => s \in cause'
      BY <1>8 DEF StartEcho, Listed
    <3> QED
      BY <2>1, <3>1, <3>2, <3>3
  <2>3. echo' = [echo EXCEPT ![s] = [on |-> listens, log |-> FALSE]]
    BY <2>0
  <2>4. \A g \in Hands \ {h} : s \in checks[g].at => s \in overlap'
    BY <1>8 DEF StartEcho
  <2>5. AtEcho(h, s)'
    BY <1>2, <2>1, <2>2, <2>3 DEF AtEcho
  <2>6. \A g \in Hands : h # g => checks'[h].at \cap checks'[g].at \subseteq overlap'
    BY <2>1, <2>4
  <2>7. OfCheck(h)'
    BY <1>1, <1>3, <2>1, <2>5, <2>6 DEF OfCheck, AInv, BlockedIn, Blamed
  <2>8. \A g \in Hands \ {h} : \A t \in checks[g].at :
                \/ t \in overlap'
                \/ (echo[t].on => echo'[t].on) /\ (echo[t].log => echo'[t].log)
    BY <1>2, <2>3, <2>4
  <2> QED
    BY <1>1, <2>1, <2>7, <2>8, OneAlarm
<1>9. CASE CallProbe(h, s)
  <2> DEFINE arrives == s \notin world.noudp \cup world.dark
  <2>0. PICK sent \in BOOLEAN :
        /\ checks' = [checks EXCEPT ![h].step = "sent", ![h].sent = sent,
                                    ![h].tcp = s \notin world.dark]
        /\ echo' = [echo EXCEPT ![s].log = @ \/ (sent /\ arrives /\ echo[s].on)]
        /\ cause' = cause \cup (IF arrives THEN {} ELSE {s})
    BY <1>9 DEF CallProbe, Works
  <2>1. /\ checks'[h].at = {s} /\ checks'[h].step = "sent"
        /\ checks'[h].tcp = (s \notin world.dark)
        /\ checks'[h].part = checks[h].part
        /\ checks'[h].rows = checks[h].rows /\ checks'[h].copy = checks[h].copy
        /\ \A g \in Hands \ {h} : checks'[g] = checks[g]
        /\ checks'[h].sent = sent /\ checks'[h].listens = checks[h].listens
        /\ checks[h].at = {s} /\ checks[h].step = "echo"
    BY <1>2, <1>9, <2>0 DEF CallProbe, CheckFields
  <2>2. /\ echo' = [echo EXCEPT ![s].log = @ \/ (sent /\ arrives /\ echo[s].on)]
        /\ cause' = cause \cup (IF arrives THEN {} ELSE {s})
    BY <2>0
  <2>3. AtEcho(h, s)
    BY <1>3, <2>1 DEF AInv
  <2>4. /\ echo[s].log => echo'[s].log
        /\ sent /\ arrives /\ echo[s].on => echo'[s].log
        /\ \A t \in Servers : echo[t].on => echo'[t].on
        /\ \A t \in Servers : echo[t].log => echo'[t].log
    BY <1>2, <2>2
  <2>5. ~arrives => s \in cause'
    BY <2>2
  <2>6. ~checks'[h].tcp => s \in cause'
    BY <2>1, <2>5
  <2> HIDE DEF arrives
  <2>7. \/ echo'[s].log \/ s \in Blamed'
        \/ ~checks'[h].listens \/ ~checks'[h].sent
    BY <1>1, <2>1, <2>3, <2>4, <2>5 DEF AtEcho, Blamed
  <2>8. AtEcho(h, s)'
    BY <1>1, <2>1, <2>3, <2>6, <2>7 DEF AtEcho
  <2>9. \A g \in Hands : h # g => checks'[h].at \cap checks'[g].at \subseteq overlap'
    BY <1>1, <1>5, <2>1
  <2>10. OfCheck(h)'
    BY <1>1, <1>3, <2>1, <2>8, <2>9 DEF OfCheck, AInv, BlockedIn, Blamed
  <2>11. \A g \in Hands \ {h} : checks[g].at \subseteq Servers
    BY DEF AlInv, TInv, ChecksOK, IsCheck
  <2> QED
    BY <1>1, <2>1, <2>4, <2>10, <2>11, OneAlarm
<1>10. ASSUME ProbeFails(h, s) \/ StopEcho(h, s), NEW level, Row(h, s, level),
              level = "blocked" => s \in Blamed
       PROVE  AInv'
  <2>1. checks[h].at = {s} /\ echo' = [echo EXCEPT ![s] = NoEcho]
    BY <1>10 DEF ProbeFails, StopEcho
  <2>2. OfCheck(h)' /\ \A g \in Hands \ {h} : checks'[g] = checks[g]
    BY <1>1, <1>10, RowAlarm DEF Blamed
  <2>3. \A g \in Hands \ {h} : \A t \in checks[g].at : t = s => t \in overlap'
    BY <1>1, <1>5, <2>1
  <2>4. \A t \in Servers : t # s => echo'[t] = echo[t]
    BY <1>2, <2>1
  <2>5. \A g \in Hands \ {h} : checks[g].at \subseteq Servers
    BY DEF AlInv, TInv, ChecksOK, IsCheck
  <2> QED
    BY <1>1, <2>2, <2>3, <2>4, <2>5, OneAlarm
<1>11. CASE ProbeFails(h, s)
  <2>1. Row(h, s, checks[h].part) /\ checks[h].at = {s}
    BY <1>11 DEF ProbeFails
  <2>2. checks[h].part = "blocked" => s \in Blamed
    BY <1>3, <2>1 DEF AInv, AtEcho, Blamed
  <2> QED
    BY <1>10, <1>11, <2>1, <2>2
<1>12. CASE StopEcho(h, s)
  <2> DEFINE reach == ReachLevel({checks[h].tcp}, checks[h].listens, checks[h].sent,
                                 EchoLog(s))
  <2>1. /\ Row(h, s, Merged({checks[h].part, reach}))
        /\ checks[h].at = {s} /\ checks[h].step = "sent"
    BY <1>12 DEF StopEcho
  <2>2. reach \in Levels /\ checks[h].part \in Levels
    BY <1>2 DEF ReachLevel, Levels, IsCheck
  <2>3. AtEcho(h, s)
    BY <1>3, <2>1 DEF AInv
  <2>4. reach = "blocked" => \/ ~checks[h].tcp
                             \/ checks[h].listens /\ checks[h].sent /\ ~echo[s].log
    BY DEF ReachLevel, EchoLog
  <2> HIDE DEF reach
  <2>5. Merged({checks[h].part, reach}) \in {checks[h].part, reach, "ok"}
    BY <2>2, MergedTyped
  <2>6. Merged({checks[h].part, reach}) = "blocked" => s \in Blamed
    BY <2>1, <2>3, <2>4, <2>5 DEF AtEcho, Blamed
  <2> QED
    BY <1>10, <1>12, <2>1, <2>6
<1> QED
  BY <1>6, <1>7, <1>8, <1>9, <1>11, <1>12

LEMMA BeginAlarms ==
    ASSUME AlInv, NEW h \in Hands, Begin(h)
    PROVE  AInv'
<1>1. /\ UNCHANGED <<memory, doc, echo, cause, overlap>>
  BY DEF Begin, ghosts
<1>2. /\ checks'[h].at = Idle.at /\ checks'[h].rows = Idle.rows /\ checks'[h].copy = doc
      /\ \A g \in Hands \ {h} : checks'[g] = checks[g]
  BY IdleOK DEF Begin, AlInv, TInv, ChecksOK, CheckFields
<1>3. Idle.at = {} /\ DOMAIN Idle.rows = {}
  BY DEF Idle
<1>4. BlockedIn(checks[h].copy.snap.state)' \subseteq Blamed'
  BY <1>1, <1>2 DEF AlInv, AInv, BlockedIn, Blamed
<1>5. OfCheck(h)'
  BY <1>2, <1>3, <1>4 DEF OfCheck
<1> QED
  BY <1>1, <1>2, <1>5, OneAlarm

\* The old snapshot that a copy brings back was raised with a cause too.
LEMMA SaveIpsAlarms ==
    ASSUME AlInv, NEW h \in Hands, SaveIps(h)
    PROVE  AInv'
<1>1. /\ UNCHANGED <<memory, echo, cause, overlap>>
      /\ doc' = [checks[h].copy EXCEPT !.ips = @ \cup checks[h].found]
      /\ checks' = [checks EXCEPT ![h].found = {}]
  BY DEF SaveIps
<1>2. AInv /\ checks[h].copy \in Doc
  BY DEF AlInv, TInv, ChecksOK, IsCheck
<1>3. doc'.snap = checks[h].copy.snap
  BY <1>1, <1>2 DEF Doc
<1>4. \A g \in Hands : /\ checks'[g].at = checks[g].at /\ checks'[g].rows = checks[g].rows
                       /\ checks'[g].copy = checks[g].copy /\ checks'[g].step = checks[g].step
                       /\ checks'[g].part = checks[g].part /\ checks'[g].tcp = checks[g].tcp
                       /\ checks'[g].listens = checks[g].listens
                       /\ checks'[g].sent = checks[g].sent
  BY <1>1 DEF AlInv, TInv, ChecksOK, CheckFields
<1>5. \A g \in Hands : \A s \in checks'[g].at : AtEcho(g, s)'
  BY <1>1, <1>2, <1>4 DEF AInv, AtEcho, Blamed
<1>6. /\ \A k, g \in Hands : k # g => checks'[k].at \cap checks'[g].at \subseteq overlap'
      /\ \A g \in Hands : \A s \in DOMAIN checks'[g].rows :
            checks'[g].rows[s] = "blocked" => s \in Blamed'
      /\ \A g \in Hands : BlockedIn(checks[g].copy.snap.state)' \subseteq Blamed'
  BY <1>1, <1>2, <1>4 DEF AInv, BlockedIn, Blamed
<1>7. BlockedIn(state)' \subseteq Blamed' /\ BlockedIn(doc.snap.state)' \subseteq Blamed'
  BY <1>1, <1>2, <1>3 DEF AInv, BlockedIn, Blamed, memory
<1> QED
  BY <1>5, <1>6, <1>7 DEF AInv

LEMMA ApplyAlarms ==
    ASSUME AlInv, NEW h \in Hands, Apply(h)
    PROVE  AInv'
<1> DEFINE rows == checks[h].rows
           limit == checks[h].copy.threshold
<1>1. /\ state' = After(rows, limit) /\ doc' = Persisted(h, state')
      /\ checks' = [checks EXCEPT ![h] = Idle]
      /\ UNCHANGED <<echo, cause, overlap>>
  BY DEF Apply
<1>2. AInv /\ DOMAIN checks = Hands /\ doc \in Doc
  BY DEF AlInv, TInv, ChecksOK, TypeOK
<1>3. BlockedIn(state') \subseteq Blamed
  <2> SUFFICES ASSUME NEW s \in Servers, ToldIn(state', s) = "blocked" PROVE s \in Blamed
    BY DEF BlockedIn
  <2> DEFINE m == Entry(s)
  <2>1. DOMAIN state' = DOMAIN rows /\ s \in DOMAIN state' /\ state'[s].told = "blocked"
    BY <1>1 DEF After, ToldIn
  <2>2. state'[s] = IF ~primed THEN Prime(rows[s], limit) ELSE Observe(m, rows[s], limit)
    BY <1>1, <2>1 DEF After
  <2>3. m.told = "blocked" => s \in Blamed
    BY <1>2 DEF AInv, BlockedIn, ToldIn, New, Entry
  <2>4. rows[s] = "blocked" => s \in Blamed
    BY <1>2, <2>1 DEF AInv
  <2>5. Prime(rows[s], limit).told = rows[s]
    BY DEF Prime
  <2> HIDE DEF m, rows, limit
  <2>6. Observe(m, rows[s], limit).told \in {"ok", rows[s], m.told}
    BY DEF Observe, New
  <2> QED
    BY <2>1, <2>2, <2>3, <2>4, <2>5, <2>6
<1>4. BlockedIn(doc'.snap.state) \subseteq Blamed
  <2>1. doc' = doc \/ doc'.snap.state = state'
    BY <1>1, <1>2 DEF Persisted, Doc
  <2>2. CASE doc' = doc
    BY <1>2, <2>2 DEF AInv
  <2>3. CASE doc'.snap.state = state'
    BY <1>3, <2>3
  <2> QED
    BY <2>1, <2>2, <2>3
<1>5. \A g \in Hands : checks'[g] = Idle \/ checks'[g] = checks[g]
  BY <1>1, <1>2
<1>6. Idle.at = {} /\ DOMAIN Idle.rows = {}
  BY DEF Idle
<1>7. \A g \in Hands : \A s \in checks'[g].at : AtEcho(g, s)'
  <2> SUFFICES ASSUME NEW g \in Hands, NEW s \in checks'[g].at PROVE AtEcho(g, s)'
    OBVIOUS
  <2>1. checks'[g] = checks[g] /\ AtEcho(g, s)
    BY <1>2, <1>5, <1>6 DEF AInv
  <2> QED
    BY <1>1, <2>1 DEF AtEcho, Blamed
<1>8. \A k, g \in Hands : k # g => checks'[k].at \cap checks'[g].at \subseteq overlap'
  BY <1>1, <1>2, <1>5, <1>6 DEF AInv
<1>9. \A g \in Hands : \A s \in DOMAIN checks'[g].rows :
            checks'[g].rows[s] = "blocked" => s \in Blamed'
  BY <1>1, <1>2, <1>5, <1>6 DEF AInv, Blamed
<1>10. \A g \in Hands : BlockedIn(checks[g].copy.snap.state)' \subseteq Blamed'
  <2> SUFFICES ASSUME NEW g \in Hands
               PROVE  BlockedIn(checks'[g].copy.snap.state) \subseteq Blamed
    BY <1>1 DEF BlockedIn, Blamed, ToldIn
  <2>1. CASE checks'[g] = Idle
    BY <2>1, NothingBlocked
  <2>2. CASE checks'[g] = checks[g]
    BY <1>2, <2>2 DEF AInv
  <2> QED
    BY <1>5, <2>1, <2>2
<1>11. BlockedIn(state)' \subseteq Blamed' /\ BlockedIn(doc.snap.state)' \subseteq Blamed'
  BY <1>1, <1>3, <1>4 DEF BlockedIn, Blamed, ToldIn
<1> QED
  BY <1>7, <1>8, <1>9, <1>10, <1>11 DEF AInv

LEMMA OtherAlarms ==
    ASSUME AlInv,
           \/ EnsureLoaded \/ Restart \/ Mend
           \/ \E s \in Servers : Edit(s)
           \/ \E n \in 1..MaxFails : SetThreshold(n)
           \/ \E w \in scene.worlds : Change(w)
           \/ UNCHANGED vars
    PROVE  AInv'
<1>1. AInv /\ doc \in Doc
  BY DEF AlInv, TInv, TypeOK
<1>2. UNCHANGED <<cause, overlap>>
  BY DEF EnsureLoaded, Restart, Mend, Edit, SetThreshold, Change, vars, ghosts
<1>3. doc'.snap = doc.snap
  BY <1>1 DEF EnsureLoaded, Restart, Mend, Edit, SetThreshold, Change, vars, Doc
<1>4. state' = state \/ state' = doc.snap.state \/ state' = Nothing
  BY DEF EnsureLoaded, Restart, Mend, Edit, SetThreshold, Change, vars, memory
<1>5. BlockedIn(state)' \subseteq Blamed' /\ BlockedIn(doc.snap.state)' \subseteq Blamed'
  <2>1. BlockedIn(state') \subseteq Blamed
    <3>1. CASE state' = state
      BY <1>1, <3>1 DEF AInv
    <3>2. CASE state' = doc.snap.state
      BY <1>1, <3>2 DEF AInv
    <3>3. CASE state' = Nothing
      BY <3>3, NothingBlocked
    <3> QED
      BY <1>4, <3>1, <3>2, <3>3
  <2>2. BlockedIn(doc'.snap.state) \subseteq Blamed
    BY <1>1, <1>3 DEF AInv
  <2> QED
    BY <1>2, <2>1, <2>2 DEF BlockedIn, Blamed, ToldIn
<1>6. CASE Restart
  <2>1. \A g \in Hands : checks'[g] = Idle
    BY <1>6 DEF Restart
  <2>2. Idle.at = {} /\ DOMAIN Idle.rows = {}
    BY DEF Idle
  <2>3. \A g \in Hands : BlockedIn(checks[g].copy.snap.state)' = {}
    <3> SUFFICES ASSUME NEW g \in Hands PROVE BlockedIn(checks'[g].copy.snap.state) = {}
      BY DEF BlockedIn, ToldIn
    <3> QED
      BY <2>1, NothingBlocked
  <2> QED
    BY <1>5, <2>1, <2>2, <2>3 DEF AInv
<1>7. CASE ~Restart
  <2>1. UNCHANGED <<checks, echo>>
    BY <1>7 DEF EnsureLoaded, Mend, Edit, SetThreshold, Change, vars
  <2>2. \A g \in Hands : \A s \in checks'[g].at : AtEcho(g, s)'
    BY <1>1, <1>2, <2>1 DEF AInv, AtEcho, Blamed
  <2>3. \A g \in Hands : BlockedIn(checks[g].copy.snap.state)' \subseteq Blamed'
    BY <1>1, <1>2, <2>1 DEF AInv, BlockedIn, Blamed, ToldIn
  <2>4. /\ \A k, g \in Hands : k # g => checks'[k].at \cap checks'[g].at \subseteq overlap'
        /\ \A g \in Hands : \A s \in DOMAIN checks'[g].rows :
            checks'[g].rows[s] = "blocked" => s \in Blamed'
    BY <1>1, <1>2, <2>1 DEF AInv, Blamed
  <2> QED
    BY <1>5, <2>2, <2>3, <2>4 DEF AInv
<1> QED
  BY <1>6, <1>7

LEMMA NextAlarms == AlInv /\ [Next]_vars => AlInv'
<1> SUFFICES ASSUME AlInv, [Next]_vars PROVE AInv'
  BY NextTypes DEF AlInv
<1>1. ASSUME NEW h \in Hands, CheckStep(h) PROVE AInv'
  BY <1>1, BeginAlarms, SaveIpsAlarms, ApplyAlarms, ProbingAlarms DEF CheckStep
<1> QED
  BY <1>1, OtherAlarms DEF Next

\* Nobody is told "blocked" of a server that no check found blocked, unless two
\* checks used its echo port at once: not through snapshots that old copies bring
\* back, restarts, or probes that fail halfway (check_server_reachability).
THEOREM MonitorsAlarmsHaveACause == Spec => []AlarmsHaveACause
<1>1. AlInv => AlarmsHaveACause
  BY DEF AlInv, AInv, AlarmsHaveACause, BlockedIn, Blamed, ToldIn, Told
<1> QED
  BY <1>1, InitAlarms, NextAlarms, PTL DEF Spec

=============================================================================
