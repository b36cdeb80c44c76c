--------------------------- MODULE BackOfficeProofs ---------------------------
(***************************************************************************)
(* Proofs about BackOffice, for any rows, destinations and requests, and   *)
(* any mix of operations.                                                  *)
(***************************************************************************)
EXTENDS BackOffice, FiniteSetTheorems, TLAPS

Locs == Answered \cup {"update", "delete", "audit", "count",
          "create single", "update single", "seed single", "seed find", "seed update",
          "seed create"}

Job == [op: Kinds \cup {"read", "edit", "seed", None}, of: Things \cup {None},
        name: Names \cup Counters \cup {None}, dto: Dto, seen: Nat, step: Nat]

Typed == TypeOK /\ job \in [Reqs -> Job]

(* What each statement needs of the request.                                 *)
Fits(loc, j) ==
    /\ loc \in {"update", "delete", "count", "seed update"} => j.of \in Items
    /\ loc = "update" => j.name \in Names \cup {None}
    /\ loc = "count" => j.name \in Counters
    /\ loc = "audit" => j.of \in Things
    /\ loc \in {"create single", "update single"} => j.of \in Singles
    /\ loc = "seed single" => j.step \in 1..3
    /\ loc \in {"seed find", "seed update", "seed create"} => j.step \in 1..Len(SeedRows)

Holds(r) == Fits(pc[r], job[r])

(* The requests that have changed x and not logged it yet.                   *)
Waiting(x) == {r \in Reqs : pc[r] = "audit" /\ job[r].of = x}

LinkOK(l) ==
    l.value # None /\ None \notin Readings(l.value) => l.target \in Readings(l.value)

RowOK(i) ==
    /\ item[i].state = "absent" => tracked[i]["clicks"] = 0 /\ tracked[i]["impressions"] = 0
    /\ Exists(i) => /\ item[i].clicks = tracked[i]["clicks"]
                    /\ item[i].impressions = tracked[i]["impressions"]
    /\ LinkOK(item[i].link)

(* The rows of that name which are the seed's.                               *)
Seeded(n) == {i \in Named(n) : item[i].by = "seed"}

SeedsOK ==
    ~overlapped =>
        /\ \A q, r \in Reqs : Seeding(q) /\ Seeding(r) => q = r
        /\ \A k \in 1..Len(SeedRows) : \A i, j \in Seeded(SeedRows[k]) : i = j
        /\ \A r \in Reqs : pc[r] = "seed create" => Seeded(SeedRows[job[r].step]) = {}

IInv ==
    /\ Typed /\ \A r \in Reqs : Holds(r)
    /\ AuditsFollow
    /\ \A i \in Items : RowOK(i)
    /\ SeedsOK

(***************************************************************************)
(* The destination of an ad.                                               *)
(***************************************************************************)
LEMMA Resolves ==
  ASSUME NEW t, NEW v \in Values PROVE resolveDestinationUrl(t, v) \in Values \cup {None}
  BY BackOfficeAssumption DEF BackOfficeAssumption, resolveDestinationUrl

(* What every type can read is not empty.                                    *)
LEMMA ReadableIsNotBlank == None \in Readings(Blank)
<1>1. resolveDestinationUrl("WEBSITE", Blank) = None
  BY BackOfficeAssumption DEF BackOfficeAssumption, resolveDestinationUrl
<1> QED BY <1>1 DEF Readings, DestinationTypes

LEMMA GivenTyped ==
  ASSUME NEW dto \in Dto
  PROVE  /\ Given(dto).type \in DestinationTypes \cup {None}
         /\ Given(dto).value \in Values \cup {None} /\ Given(dto).target \in Values \cup {None}
         /\ Given(dto).whatsapp \in Values \cup {None}
         /\ Given(dto).social \in Values \cup {None}
<1>1. Urls \subseteq Values
  BY BackOfficeAssumption DEF BackOfficeAssumption
<1> QED BY <1>1 DEF Given, Dto, Sent, DestinationTypes

LEMMA ResolvedOK ==
  ASSUME NEW dto \in Dto
  PROVE  /\ resolveDestination(dto) \in Link /\ LinkOK(resolveDestination(dto))
         /\ resolveDestination(dto).value = None => resolveDestination(dto).target = None
<1> DEFINE d == Given(dto)
           legacy == Or(d.target, Or(d.whatsapp, d.social))
           value == Or(d.value, legacy)
           type == DestinationTypeOf(d)
           url == IF value \notin {None, Blank}
                  THEN resolveDestinationUrl(type, value) ELSE legacy
           l == [type |-> type, value |-> value, target |-> Or(url, d.target),
                 whatsapp |-> IF type = "WHATSAPP" THEN url ELSE d.whatsapp,
                 social |-> IF type \in isSocialDestination THEN url ELSE d.social]
<1>1. /\ d.type \in DestinationTypes \cup {None} /\ d.value \in Values \cup {None}
      /\ d.target \in Values \cup {None} /\ d.whatsapp \in Values \cup {None}
      /\ d.social \in Values \cup {None}
  BY GivenTyped
<1>2. resolveDestination(dto) = l
  BY DEF resolveDestination
<1> HIDE DEF d
<1>3. legacy \in Values \cup {None} /\ value \in Values \cup {None}
      /\ (value = None => legacy = None /\ d.target = None)
  BY <1>1 DEF Or
<1>4. type \in DestinationTypes
  BY <1>1, BackOfficeAssumption
  DEF DestinationTypeOf, Or, BackOfficeAssumption, isSocialDestination, DestinationTypes
<1> HIDE DEF legacy, value, type
<1>5. /\ url \in Values \cup {None} /\ (value = None => url = None)
      /\ value \notin {None, Blank} =>
           url = resolveDestinationUrl(type, value)
  BY <1>3, Resolves, BackOfficeAssumption DEF BackOfficeAssumption
<1> HIDE DEF url
<1>6. /\ l.type = type /\ l.value = value /\ l.target = Or(url, d.target)
      /\ l \in Link
  BY <1>1, <1>3, <1>4, <1>5 DEF Link, Or
<1> HIDE DEF l
<1>7. LinkOK(l)
  <2> SUFFICES ASSUME value # None, None \notin Readings(value) PROVE l.target \in Readings(value)
    BY <1>6 DEF LinkOK
  <2>1. url \in Readings(value)
    BY <1>4, <1>5, ReadableIsNotBlank DEF Readings
  <2> QED BY <1>6, <2>1 DEF Or
<1>8. value = None => l.target = None
  BY <1>3, <1>5, <1>6 DEF Or
<1> QED BY <1>2, <1>6, <1>7, <1>8

LEMMA NoLinkOK == NoLink \in Link /\ LinkOK(NoLink) /\ NoDto \in Dto
  BY DEF NoLink, NoDto, Link, LinkOK, Dto, Sent

LEMMA UpdatedOK ==
  ASSUME NEW dto \in Dto, NEW old \in Link, LinkOK(old)
  PROVE  mapUpdateAdData(old, dto) \in Link /\ LinkOK(mapUpdateAdData(old, dto))
<1> DEFINE new == resolveDestination(dto)
           l == [f \in DOMAIN old |-> Or(new[f], old[f])]
<1>1. new \in Link /\ LinkOK(new) /\ (new.value = None => new.target = None)
  BY ResolvedOK
<1>2. mapUpdateAdData(old, dto) = IF dto = NoDto THEN old ELSE l
  BY DEF mapUpdateAdData
<1> HIDE DEF new
<1>3. /\ l \in Link /\ l.value = Or(new.value, old.value)
      /\ l.target = Or(new.target, old.target)
  BY <1>1 DEF Link, Or
<1> HIDE DEF l
<1>4. LinkOK(l)
  <2>1. CASE new.value = None
    BY <1>1, <1>3, <2>1 DEF LinkOK, Or
  <2>2. CASE new.value # None
    <3>1. l.value = new.value
      BY <1>3, <2>2 DEF Or
    <3> SUFFICES ASSUME None \notin Readings(new.value)
                 PROVE  l.target \in Readings(new.value)
      BY <3>1 DEF LinkOK
    <3>2. new.target \in Readings(new.value)
      BY <1>1, <2>2 DEF LinkOK
    <3> QED BY <1>3, <3>2 DEF Or
  <2> QED BY <2>1, <2>2
<1> QED BY <1>2, <1>3, <1>4

(***************************************************************************)
(* The initial states.                                                     *)
(***************************************************************************)
LEMMA NoJobTyped == NoJob \in Job /\ NoJob.of = None /\ NoJob.dto = NoDto
<1>1. NoDto \in Dto
  BY NoLinkOK
<1> QED BY <1>1 DEF NoJob, Job

LEMMA NoRowTyped ==
  /\ NoRow \in Row /\ NoRow.state = "absent" /\ NoRow.link = NoLink /\ NoRow.by = None
  /\ NoRow.clicks = 0 /\ NoRow.impressions = 0
<1>1. NoLink \in Link
  BY NoLinkOK
<1> QED BY <1>1 DEF NoRow, Row

LEMMA AnsweredHolds ==
  ASSUME NEW r \in Reqs, pc[r] \in Answered PROVE Holds(r) /\ ~Seeding(r) /\ pc[r] # "audit"
  BY DEF Holds, Fits, Answered, Seeding

LEMMA InitIInv == Init => IInv
<1> SUFFICES ASSUME Init PROVE IInv
  OBVIOUS
<1>0. /\ item = [i \in Items |-> NoRow]
      /\ \A r \in Reqs : pc[r] = "idle"
      /\ tracked = [i \in Items |-> [c \in Counters |-> 0]]
  BY DEF Init
<1>1. Typed
  <2>1. /\ changes \in [Things -> Nat] /\ logged \in [Things -> Nat]
        /\ unlogged \in [Things -> Nat] /\ begun \in 0..MaxRequests
    BY BackOfficeAssumption DEF Init, BackOfficeAssumption
  <2> QED BY <2>1, NoJobTyped, NoRowTyped DEF Init, Typed, TypeOK, Locs, Answered
<1>2. \A r \in Reqs : Holds(r) /\ ~Seeding(r)
  BY <1>0, AnsweredHolds DEF Answered
<1>3. AuditsFollow
  <2> SUFFICES ASSUME NEW x \in Things
               PROVE  changes[x] = logged[x] + unlogged[x] + Cardinality(Waiting(x))
    BY DEF AuditsFollow, Waiting
  <2>1. Waiting(x) = {}
    BY <1>0 DEF Waiting
  <2> QED BY <2>1, FS_EmptySet DEF Init
<1>4. \A i \in Items : RowOK(i)
  BY <1>0, NoRowTyped, NoLinkOK DEF RowOK, Exists, Counters
<1>5. SeedsOK
  <2>1. \A n : Seeded(n) = {}
    BY <1>0, NoRowTyped DEF Seeded, Named, Exists
  <2> QED BY <1>0, <1>2, <2>1 DEF SeedsOK
<1> QED BY <1>1, <1>2, <1>3, <1>4, <1>5 DEF IInv

(***************************************************************************)
(* A step of one request, and what it leaves of each part.                 *)
(***************************************************************************)
Moved(r) ==
    \A q \in Reqs \ {r} : pc'[q] = pc[q] /\ job'[q] = job[q]

LEMMA GotoMoves ==
  ASSUME Typed, NEW r \in Reqs, NEW loc \in Locs, NEW j \in Job, Goto(r, loc, j),
         Fits(loc, j)
  PROVE  /\ Moved(r) /\ Holds(r)' /\ pc'[r] = loc
         /\ job'[r] = IF loc \in Answered THEN NoJob ELSE j
         /\ pc' \in [Reqs -> Locs] /\ job' \in [Reqs -> Job]
<1>1. /\ Moved(r) /\ pc'[r] = loc /\ job'[r] = IF loc \in Answered THEN NoJob ELSE j
      /\ pc' \in [Reqs -> Locs] /\ job' \in [Reqs -> Job]
  BY NoJobTyped DEF Goto, Moved, Typed, TypeOK, Locs
<1>2. Holds(r)'
  <2>1. CASE loc \in Answered
    BY <1>1, <2>1 DEF Holds, Fits, Answered
  <2>2. CASE loc \notin Answered
    BY <1>1, <2>2 DEF Holds
  <2> QED BY <2>1, <2>2
<1> QED BY <1>1, <1>2

LEMMA Combine ==
  ASSUME IInv, NEW r \in Reqs, Typed', Moved(r), Holds(r)', AuditsFollow',
         \A i \in Items : RowOK(i)', SeedsOK'
  PROVE  IInv'
<1>1. ASSUME NEW q \in Reqs \ {r} PROVE Holds(q)'
  BY <1>1 DEF IInv, Holds, Moved
<1> QED BY <1>1 DEF IInv

LEMMA RowsKept ==
  ASSUME \A i \in Items : RowOK(i), UNCHANGED <<item, tracked>>
  PROVE  \A i \in Items : RowOK(i)'
  BY DEF RowOK, Exists

LEMMA SeededKept ==
  ASSUME UNCHANGED item PROVE \A n : Seeded(n)' = Seeded(n)
  BY DEF Seeded, Named, Exists

(* Any step that adds no row of the seed and starts no seed.                 *)
LEMMA SeedsKept ==
  ASSUME IInv, NEW r \in Reqs, Moved(r), overlapped' = overlapped,
         Seeding(r)' => Seeding(r),
         \A k \in 1..Len(SeedRows) : Seeded(SeedRows[k])' \subseteq Seeded(SeedRows[k]),
         pc'[r] = "seed create" /\ ~overlapped => Seeded(SeedRows[job[r].step])' = {}
  PROVE  SeedsOK'
<1> SUFFICES ASSUME ~overlapped PROVE SeedsOK'
  BY DEF SeedsOK
<1>1. \A q, s \in Reqs : Seeding(q) /\ Seeding(s) => q = s
  BY DEF IInv, SeedsOK
<1>2. \A q \in Reqs : Seeding(q)' => Seeding(q)
  BY DEF Moved, Seeding
<1>3. \A q, s \in Reqs : Seeding(q)' /\ Seeding(s)' => q = s
  BY <1>1, <1>2
<1>4. \A k \in 1..Len(SeedRows) : \A i, j \in Seeded(SeedRows[k])' : i = j
  BY DEF IInv, SeedsOK
<1>5. ASSUME NEW q \in Reqs, pc'[q] = "seed create"
      PROVE  Seeded(SeedRows[job[q].step])' = {}
  <2>1. CASE q = r
    BY <1>5, <2>1
  <2>2. CASE q # r
    <3>1. pc[q] = "seed create" /\ job'[q] = job[q]
      BY <1>5, <2>2 DEF Moved
    <3>2. job[q].step \in 1..Len(SeedRows) /\ Seeded(SeedRows[job[q].step]) = {}
      BY <3>1 DEF IInv, SeedsOK, Holds, Fits
    <3>3. Seeded(SeedRows[job[q].step])' \subseteq Seeded(SeedRows[job[q].step])
      BY <3>1, <3>2
    <3> QED BY <3>2, <3>3
  <2> QED BY <2>1, <2>2
<1> QED BY <1>3, <1>4, <1>5 DEF SeedsOK

LEMMA ChangeTyped ==
  ASSUME Typed, NEW y \in Things, Change(y)
  PROVE  changes' \in [Things -> Nat] /\ UNCHANGED <<logged, unlogged>>
<1>1. changes \in [Things -> Nat] /\ changes' = [changes EXCEPT ![y] = @ + 1]
  BY DEF Typed, TypeOK, Change
<1>2. changes[y] + 1 \in Nat
  BY <1>1
<1> QED BY <1>1, <1>2 DEF Change

LEMMA WaitingFinite == \A x : IsFiniteSet(Waiting(x))
<1>1. IsFiniteSet(Reqs)
  BY BackOfficeAssumption DEF BackOfficeAssumption
<1> QED BY <1>1, FS_Subset DEF Waiting

LEMMA AuditsKept ==
  ASSUME Typed, AuditsFollow, NEW r \in Reqs, Moved(r), UNCHANGED books,
         pc[r] # "audit", pc'[r] # "audit"
  PROVE  AuditsFollow'
<1>1. \A x : Waiting(x)' = Waiting(x)
  BY DEF Waiting, Moved
<1> QED BY <1>1 DEF AuditsFollow, books, Waiting

LEMMA AuditsBegun ==
  ASSUME Typed, AuditsFollow, NEW r \in Reqs, Moved(r), NEW y \in Things, Change(y),
         pc[r] # "audit", pc'[r] = "audit", job'[r].of = y
  PROVE  AuditsFollow'
<1> SUFFICES ASSUME NEW x \in Things
             PROVE  changes'[x] = logged'[x] + unlogged'[x] + Cardinality(Waiting(x)')
  BY DEF AuditsFollow, Waiting
<1>1. /\ changes[x] = logged[x] + unlogged[x] + Cardinality(Waiting(x))
      /\ logged[x] \in Nat /\ unlogged[x] \in Nat /\ changes[x] \in Nat
      /\ UNCHANGED <<logged, unlogged>>
      /\ changes'[x] = IF x = y THEN changes[x] + 1 ELSE changes[x]
  BY DEF AuditsFollow, Waiting, Typed, TypeOK, Change
<1>2. IsFiniteSet(Waiting(x)) /\ Cardinality(Waiting(x)) \in Nat
  BY WaitingFinite, FS_CardinalityType
<1>3. CASE x = y
  <2>1. Waiting(x)' = Waiting(x) \cup {r} /\ r \notin Waiting(x)
    BY <1>3 DEF Waiting, Moved
  <2>2. Cardinality(Waiting(x)') = Cardinality(Waiting(x)) + 1
    BY <1>2, <2>1, FS_AddElement
  <2> QED BY <1>1, <1>2, <1>3, <2>2
<1>4. CASE x # y
  <2>1. Waiting(x)' = Waiting(x)
    BY <1>4 DEF Waiting, Moved
  <2> QED BY <1>1, <1>4, <2>1
<1> QED BY <1>3, <1>4

LEMMA AuditsEnded ==
  ASSUME Typed, AuditsFollow, NEW r \in Reqs, Moved(r), NEW y \in Things,
         pc[r] = "audit", job[r].of = y, pc'[r] # "audit", UNCHANGED changes,
         \/ /\ logged' = [logged EXCEPT ![y] = @ + 1] /\ UNCHANGED unlogged
         \/ /\ unlogged' = [unlogged EXCEPT ![y] = @ + 1] /\ UNCHANGED logged
  PROVE  AuditsFollow'
<1> SUFFICES ASSUME NEW x \in Things
             PROVE  changes'[x] = logged'[x] + unlogged'[x] + Cardinality(Waiting(x)')
  BY DEF AuditsFollow, Waiting
<1>1. /\ changes[x] = logged[x] + unlogged[x] + Cardinality(Waiting(x))
      /\ logged[x] \in Nat /\ unlogged[x] \in Nat /\ changes[x] \in Nat
      /\ changes'[x] = changes[x]
  BY DEF AuditsFollow, Waiting, Typed, TypeOK
<1>5. logged'[x] + unlogged'[x] =
        IF x = y THEN logged[x] + unlogged[x] + 1 ELSE logged[x] + unlogged[x]
  <2>1. /\ logged \in [Things -> Nat] /\ unlogged \in [Things -> Nat]
        /\ logged[x] \in Nat /\ unlogged[x] \in Nat
    BY DEF Typed, TypeOK
  <2>2. CASE logged' = [logged EXCEPT ![y] = @ + 1] /\ UNCHANGED unlogged
    BY <2>1, <2>2
  <2>3. CASE unlogged' = [unlogged EXCEPT ![y] = @ + 1] /\ UNCHANGED logged
    BY <2>1, <2>3
  <2> QED BY <2>2, <2>3
<1>2. IsFiniteSet(Waiting(x)) /\ Cardinality(Waiting(x)) \in Nat
  BY WaitingFinite, FS_CardinalityType
<1>3. CASE x = y
  <2>1. Waiting(x)' = Waiting(x) \ {r} /\ r \in Waiting(x)
    BY <1>3 DEF Waiting, Moved
  <2>2. Cardinality(Waiting(x)') = Cardinality(Waiting(x)) - 1
    BY <1>2, <2>1, FS_RemoveElement
  <2> QED BY <1>1, <1>2, <1>3, <1>5, <2>2
<1>4. CASE x # y
  <2>1. Waiting(x)' = Waiting(x)
    BY <1>4 DEF Waiting, Moved
  <2> QED BY <1>1, <1>4, <1>5, <2>1
<1> QED BY <1>3, <1>4

(***************************************************************************)
(* Steps that write no row.                                                *)
(***************************************************************************)
SeedLocs == {"seed single", "seed find", "seed update", "seed create"}

LEMMA TablesKept ==
  ASSUME IInv, NEW r \in Reqs, NEW loc \in Locs, NEW j \in Job, Goto(r, loc, j),
         Fits(loc, j), UNCHANGED <<workload, item, books, tracked, overlapped>>,
         begun' \in 0..MaxRequests,
         content' \in [Singles -> {"absent", "default", "edited", "seeded"}],
         pc[r] # "audit", loc # "audit", loc \in SeedLocs => Seeding(r),
         loc = "seed create" => Seeded(SeedRows[j.step]) = {}
  PROVE  IInv'
<1>1. /\ Moved(r) /\ Holds(r)' /\ pc'[r] = loc
      /\ job'[r] = IF loc \in Answered THEN NoJob ELSE j
      /\ pc' \in [Reqs -> Locs] /\ job' \in [Reqs -> Job]
  BY GotoMoves DEF IInv
<1>2. Typed'
  BY <1>1 DEF IInv, Typed, TypeOK, books, Locs
<1>3. AuditsFollow'
  BY <1>1, AuditsKept DEF IInv
<1>4. \A i \in Items : RowOK(i)'
  BY RowsKept DEF IInv
<1>5. SeedsOK'
  <2>1. Seeding(r)' => Seeding(r)
    BY <1>1 DEF Seeding, SeedLocs
  <2>2. \A n : Seeded(n)' = Seeded(n)
    BY SeededKept
  <2>3. pc'[r] = "seed create" /\ ~overlapped => Seeded(SeedRows[job[r].step])' = {}
    <3> SUFFICES ASSUME loc = "seed create" PROVE Seeded(SeedRows[job[r].step])' = {}
      BY <1>1
    <3>1. job'[r] = j
      BY <1>1 DEF Answered
    <3> QED BY <2>2, <3>1
  <2> QED BY <1>1, <2>1, <2>2, <2>3, SeedsKept
<1> QED BY <1>1, <1>2, <1>3, <1>4, <1>5, Combine

LEMMA Leaves ==
  ASSUME IInv, NEW r \in Reqs, NEW answer \in Answered, Leave(r, answer), pc[r] # "audit"
  PROVE  IInv'
<1>1. /\ Goto(r, answer, NoJob) /\ Fits(answer, NoJob) /\ answer \in Locs
      /\ answer # "audit" /\ answer \notin SeedLocs /\ answer # "seed create"
  BY DEF Leave, Fits, Answered, Locs, SeedLocs
<1>2. /\ UNCHANGED <<workload, item, books, tracked, overlapped>>
      /\ begun' \in 0..MaxRequests
      /\ content' \in [Singles -> {"absent", "default", "edited", "seeded"}]
  BY DEF Leave, IInv, Typed, TypeOK
<1> QED BY <1>1, <1>2, NoJobTyped, TablesKept

LEMMA Begins ==
  ASSUME IInv, NEW r \in Reqs, NEW loc \in Locs \ SeedLocs, NEW j \in Job,
         Begin(r, j, loc), Fits(loc, j), loc # "audit",
         UNCHANGED <<item, content, books, tracked, overlapped>>
  PROVE  IInv'
<1>1. /\ begun \in 0..MaxRequests /\ begun < MaxRequests /\ begun' = begun + 1
      /\ pc[r] # "audit" /\ Goto(r, loc, j) /\ UNCHANGED workload
  BY AnsweredHolds DEF Begin, IInv, Typed, TypeOK
<1>2. begun' \in 0..MaxRequests
  BY <1>1, BackOfficeAssumption DEF BackOfficeAssumption
<1>3. content' \in [Singles -> {"absent", "default", "edited", "seeded"}]
  BY DEF IInv, Typed, TypeOK
<1>4. loc \in Locs /\ loc \notin SeedLocs /\ loc # "seed create"
  BY DEF SeedLocs
<1> QED BY <1>1, <1>2, <1>3, <1>4, TablesKept

LEMMA Ensures ==
  ASSUME IInv, NEW r \in Reqs, NEW k \in Kinds, NEW i \in Items, NEW j \in Job,
         NEW loc \in {"update", "delete", "count"}, Ensure(r, k, i, j, loc),
         loc = "update" => j.name \in Names \cup {None},
         loc = "count" => j.name \in Counters
  PROVE  IInv'
<1> DEFINE m == [j EXCEPT !.op = k, !.of = i]
<1>1. /\ Begin(r, m, loc) /\ UNCHANGED <<item, content, books, tracked, overlapped>>
      /\ m \in Job /\ m.of = i /\ m.name = j.name
  BY DEF Ensure, Job, Things
<1> HIDE DEF m
<1>2. Fits(loc, m) /\ loc \in Locs \ SeedLocs /\ loc # "audit"
  BY <1>1 DEF Fits, Locs, SeedLocs
<1> QED BY <1>1, <1>2, Begins

LEMMA Opens ==
  ASSUME IInv, NEW r \in Reqs, NEW s \in Singles, NEW op \in {"read", "edit"},
         GetOrCreate(r, s, op)
  PROVE  IInv'
<1> DEFINE j == [NoJob EXCEPT !.op = op, !.of = s]
           loc == IF content[s] = "absent" THEN "create single" ELSE After(op)
<1>1. /\ Begin(r, j, loc) /\ UNCHANGED <<item, content, books, tracked, overlapped>>
      /\ j \in Job /\ j.of = s
  BY NoJobTyped DEF GetOrCreate, Job, Things
<1>2. loc \in {"create single", "update single", "idle"}
  BY DEF After
<1> HIDE DEF j, loc
<1>3. Fits(loc, j) /\ loc \in Locs \ SeedLocs /\ loc # "audit"
  BY <1>1, <1>2 DEF Fits, Locs, SeedLocs, Answered
<1> QED BY <1>1, <1>3, Begins

LEMMA SingleCreates ==
  ASSUME IInv, NEW r \in Reqs, CreateSingle(r) PROVE IInv'
<1> DEFINE s == job[r].of
           loc == After(job[r].op)
<1>1. pc[r] = "create single" /\ s \in Singles /\ job[r] \in Job
  BY DEF CreateSingle, IInv, Holds, Fits, Typed
<1>2. CASE content[s] # "absent"
  <2>1. Leave(r, "failed")
    BY <1>2 DEF CreateSingle
  <2> QED BY <1>1, <2>1, Leaves DEF Answered
<1>3. CASE content[s] = "absent"
  <2>1. /\ content' = [content EXCEPT ![s] = "default"] /\ Goto(r, loc, job[r])
        /\ UNCHANGED <<workload, item, tracked, overlapped, begun, books>>
    BY <1>3 DEF CreateSingle, WriteSingle
  <2>2. /\ content' \in [Singles -> {"absent", "default", "edited", "seeded"}]
        /\ begun' \in 0..MaxRequests
    BY <2>1 DEF IInv, Typed, TypeOK
  <2>3. loc \in {"update single", "idle"}
    BY DEF After
  <2> HIDE DEF loc
  <2>4. /\ Fits(loc, job[r]) /\ loc \in Locs /\ loc # "audit" /\ loc # "seed create"
        /\ loc \notin SeedLocs
    BY <1>1, <2>3 DEF Fits, Locs, Answered, SeedLocs
  <2> QED BY <1>1, <2>1, <2>2, <2>4, TablesKept
<1> QED BY <1>2, <1>3

LEMMA SingleUpdates ==
  ASSUME IInv, NEW r \in Reqs, UpdateSingle(r) PROVE IInv'
<1> DEFINE s == job[r].of
<1>1. pc[r] = "update single" /\ s \in Singles /\ s \in Things /\ job[r] \in Job
  BY DEF UpdateSingle, IInv, Holds, Fits, Typed, Things
<1>2. /\ content' = [content EXCEPT ![s] = "edited"] /\ Goto(r, "audit", job[r])
      /\ Change(s) /\ UNCHANGED <<workload, item, tracked, overlapped, begun>>
  BY DEF UpdateSingle, WriteSingle
<1>3. Fits("audit", job[r])
  BY <1>1 DEF Fits
<1>4. /\ Moved(r) /\ Holds(r)' /\ pc'[r] = "audit" /\ job'[r] = job[r]
      /\ pc' \in [Reqs -> Locs] /\ job' \in [Reqs -> Job]
  <2>1. "audit" \in Locs \ Answered
    BY DEF Locs, Answered
  <2> QED BY <1>1, <1>2, <1>3, <2>1, GotoMoves DEF IInv
<1>5. Typed'
  <2>1. changes' \in [Things -> Nat] /\ UNCHANGED <<logged, unlogged>>
    BY <1>1, <1>2, ChangeTyped DEF IInv
  <2>2. content' \in [Singles -> {"absent", "default", "edited", "seeded"}]
    BY <1>2 DEF IInv, Typed, TypeOK
  <2> QED BY <1>2, <1>4, <2>1, <2>2 DEF IInv, Typed, TypeOK, Locs
<1>6. AuditsFollow'
  <2>1. job'[r].of = s /\ pc[r] # "audit"
    BY <1>1, <1>4
  <2> QED BY <1>1, <1>2, <1>4, <2>1, AuditsBegun DEF IInv
<1>7. \A i \in Items : RowOK(i)'
  BY <1>2, RowsKept DEF IInv
<1>8. SeedsOK'
  <2>1. ~Seeding(r)' /\ pc'[r] # "seed create"
    BY <1>4 DEF Seeding
  <2> QED BY <1>2, <1>4, <2>1, SeededKept, SeedsKept
<1> QED BY <1>4, <1>5, <1>6, <1>7, <1>8, Combine

(***************************************************************************)
(* Steps that write a row, none of them a row of the seed.                 *)
(***************************************************************************)
LEMMA RowWritten ==
  ASSUME IInv, NEW r \in Reqs, NEW loc \in Locs \ SeedLocs, NEW j \in Job,
         Goto(r, loc, j), Fits(loc, j), NEW i \in Items, NEW row \in Row,
         item' = [item EXCEPT ![i] = row],
         row.state # "absent", LinkOK(row.link),
         row.state = "there" => row.clicks = tracked[i]["clicks"]
                                /\ row.impressions = tracked[i]["impressions"],
         row.state = "there" /\ row.by = "seed" =>
             Exists(i) /\ item[i].by = "seed" /\ item[i].name = row.name,
         UNCHANGED <<workload, content, tracked, overlapped>>,
         begun' \in 0..MaxRequests, changes' \in [Things -> Nat],
         UNCHANGED <<logged, unlogged>>, Moved(r) => AuditsFollow'
  PROVE  IInv'
<1>1. /\ Moved(r) /\ Holds(r)' /\ pc'[r] = loc
      /\ pc' \in [Reqs -> Locs] /\ job' \in [Reqs -> Job]
  BY GotoMoves DEF IInv
<1>2. item \in [Items -> Row] /\ item' \in [Items -> Row]
  BY DEF IInv, Typed, TypeOK
<1>3. Typed'
  BY <1>1, <1>2 DEF IInv, Typed, TypeOK, Locs
<1>4. ASSUME NEW x \in Items PROVE RowOK(x)'
  <2>1. RowOK(x)
    BY DEF IInv
  <2>2. CASE x = i
    <3>1. item'[i] = row
      BY <1>2
    <3> QED BY <2>2, <3>1 DEF RowOK, Exists
  <2>3. CASE x # i
    <3>1. item'[x] = item[x]
      BY <1>2, <2>3
    <3> QED BY <2>1, <3>1 DEF RowOK, Exists
  <2> QED BY <2>2, <2>3
<1>5. SeedsOK'
  <2>1. ~Seeding(r)' /\ pc'[r] # "seed create"
    BY <1>1 DEF Seeding, SeedLocs
  <2>2. ASSUME NEW n PROVE Seeded(n)' \subseteq Seeded(n)
    <3> SUFFICES ASSUME NEW x \in Items, x \in Seeded(n)' PROVE x \in Seeded(n)
      BY DEF Seeded, Named
    <3>1. /\ item'[x].state = "there" /\ KindOf[x] = n.kind /\ item'[x].name = n.name
          /\ item'[x].by = "seed"
      BY DEF Seeded, Named, Exists
    <3>2. item'[x] = IF x = i THEN row ELSE item[x]
      BY <1>2
    <3>3. Exists(x) /\ item[x].by = "seed" /\ item[x].name = n.name
      BY <3>1, <3>2 DEF Exists
    <3> QED BY <3>1, <3>3 DEF Seeded, Named
  <2> QED BY <1>1, <2>1, <2>2, SeedsKept
<1> QED BY <1>1, <1>3, <1>4, <1>5, Combine

LEMMA Inserts ==
  ASSUME IInv, NEW r \in Reqs, NEW k \in Kinds, NEW i \in Items,
         NEW n \in Names \cup {None}, NEW l \in Link, LinkOK(l),
         NEW loc \in {"audit", "idle"}, Insert(r, k, i, n, l, loc)
  PROVE  IInv'
<1> DEFINE j == [NoJob EXCEPT !.op = k, !.of = i]
           row == [NoRow EXCEPT !.state = "there", !.name = n, !.by = "admin", !.link = l]
<1>1. /\ Begin(r, j, loc) /\ item' = [item EXCEPT ![i] = row] /\ item[i].state = "absent"
      /\ UNCHANGED <<content, tracked, overlapped>>
      /\ j \in Job /\ j.of = i /\ i \in Things
  BY NoJobTyped DEF Insert, Job, Things
<1>2. /\ row \in Row /\ row.state = "there" /\ row.link = l /\ row.by = "admin"
      /\ row.clicks = 0 /\ row.impressions = 0
  BY DEF NoRow, Row
<1>3. IF loc = "audit" THEN Change(i) ELSE UNCHANGED books
  BY DEF Insert
<1> HIDE DEF j, row
<1>4. /\ begun \in 0..MaxRequests /\ begun < MaxRequests /\ begun' = begun + 1
      /\ pc[r] # "audit" /\ Goto(r, loc, j) /\ UNCHANGED workload
  BY <1>1, AnsweredHolds DEF Begin, IInv, Typed, TypeOK
<1>5. begun' \in 0..MaxRequests
  BY <1>4, BackOfficeAssumption DEF BackOfficeAssumption
<1>6. /\ loc \in Locs \ SeedLocs /\ Fits(loc, j)
  BY <1>1 DEF Locs, SeedLocs, Fits, Answered
<1>7. changes' \in [Things -> Nat] /\ UNCHANGED <<logged, unlogged>>
  <2>1. CASE loc = "audit"
    BY <1>1, <1>3, <2>1, ChangeTyped DEF IInv
  <2>2. CASE loc = "idle"
    BY <1>3, <2>2 DEF books, IInv, Typed, TypeOK
  <2> QED BY <2>1, <2>2
<1>8. tracked[i]["clicks"] = 0 /\ tracked[i]["impressions"] = 0
  BY <1>1 DEF IInv, RowOK
<1>9. ASSUME Moved(r) PROVE AuditsFollow'
  <2>1. pc'[r] = loc /\ (loc = "audit" => job'[r] = j)
    BY <1>1, <1>4, <1>6, GotoMoves DEF IInv, Answered
  <2>2. CASE loc = "audit"
    BY <1>1, <1>3, <1>4, <1>9, <2>1, <2>2, AuditsBegun DEF IInv
  <2>3. CASE loc = "idle"
    BY <1>3, <1>4, <1>9, <2>1, <2>3, AuditsKept DEF IInv
  <2> QED BY <2>2, <2>3
<1> QED BY <1>1, <1>2, <1>4, <1>5, <1>6, <1>7, <1>8, <1>9, RowWritten

(* A row written under a check, to be logged next.                           *)
LEMMA RowChanged ==
  ASSUME IInv, NEW r \in Reqs, NEW i \in Items, job[r].of = i, pc[r] # "audit",
         Change(i), Goto(r, "audit", job[r]), NEW row \in Row,
         item' = [item EXCEPT ![i] = row],
         row.state # "absent", LinkOK(row.link),
         row.state = "there" => row.clicks = tracked[i]["clicks"]
                                /\ row.impressions = tracked[i]["impressions"],
         row.state = "there" /\ row.by = "seed" =>
             Exists(i) /\ item[i].by = "seed" /\ item[i].name = row.name,
         UNCHANGED <<workload, content, tracked, overlapped, begun>>
  PROVE  IInv'
<1>1. /\ i \in Things /\ job[r] \in Job /\ "audit" \in Locs \ SeedLocs
      /\ begun' \in 0..MaxRequests
  BY DEF Things, IInv, Typed, TypeOK, Locs, SeedLocs, Answered
<1>2. Fits("audit", job[r])
  BY <1>1 DEF Fits
<1>3. changes' \in [Things -> Nat] /\ UNCHANGED <<logged, unlogged>>
  BY <1>1, ChangeTyped DEF IInv
<1>4. ASSUME Moved(r) PROVE AuditsFollow'
  <2>1. pc'[r] = "audit" /\ job'[r] = job[r]
    BY <1>1, <1>2, GotoMoves DEF IInv, Answered
  <2> QED BY <1>1, <1>4, <2>1, AuditsBegun DEF IInv
<1> QED BY <1>1, <1>2, <1>3, <1>4, RowWritten

LEMMA RowUpdates ==
  ASSUME IInv, NEW r \in Reqs, UpdateRow(r) PROVE IInv'
<1> DEFINE i == job[r].of
           n == job[r].name
           old == item[i]
           by == IF n = None THEN old.by ELSE "admin"
           link == mapUpdateAdData(old.link, job[r].dto)
           row == [old EXCEPT !.name = Or(n, @), !.by = by, !.link = link]
<1>1. /\ pc[r] = "update" /\ i \in Items /\ n \in Names \cup {None} /\ job[r].dto \in Dto
      /\ old \in Row /\ RowOK(i)
  BY DEF UpdateRow, IInv, Holds, Fits, Typed, TypeOK, Job
<1>2. CASE ~Exists(i)
  <2>1. Leave(r, "failed")
    BY <1>2 DEF UpdateRow
  <2> QED BY <1>1, <2>1, Leaves DEF Answered
<1>3. CASE Exists(i)
  <2>1. /\ Change(i) /\ Goto(r, "audit", job[r])
        /\ UNCHANGED <<workload, content, tracked, overlapped, begun>>
        /\ item' = [item EXCEPT ![i].name = Or(n, @),
                                ![i].by = IF n = None THEN @ ELSE "admin",
                                ![i].link = mapUpdateAdData(@, job[r].dto)]
    BY <1>3 DEF UpdateRow, Leave
  <2>2. item' = [item EXCEPT ![i] = row]
    BY <1>1, <2>1 DEF IInv, Typed, TypeOK, Row
  <2>3. link \in Link /\ LinkOK(link)
    BY <1>1, UpdatedOK DEF RowOK, Row
  <2>4. /\ row \in Row /\ row.state = old.state /\ row.link = link /\ row.by = by
        /\ row.name = Or(n, old.name)
        /\ row.clicks = old.clicks /\ row.impressions = old.impressions
    <3> HIDE DEF link
    <3> QED BY <1>1, <2>3 DEF Row, Or
  <2>5. old.state = "there"
    BY <1>3 DEF Exists
  <2>6. by = "seed" => n = None /\ old.by = "seed"
    OBVIOUS
  <2> HIDE DEF row, link, by
  <2>7. /\ row.state = "there" /\ LinkOK(row.link)
        /\ row.clicks = tracked[i]["clicks"] /\ row.impressions = tracked[i]["impressions"]
    BY <1>1, <1>3, <2>3, <2>4, <2>5 DEF RowOK
  <2>8. row.by = "seed" => item[i].by = "seed" /\ item[i].name = row.name
    BY <2>4, <2>6 DEF Or
  <2>9. job[r].of = i /\ pc[r] # "audit" /\ row.state # "absent" /\ i \in Items /\ row \in Row
    BY <1>1, <2>4, <2>7
  <2>10. /\ Change(i) /\ Goto(r, "audit", job[r])
         /\ UNCHANGED <<workload, content, tracked, overlapped, begun>>
    BY <2>1
  <2> HIDE DEF i, n, old
  <2> QED BY <1>3, <2>2, <2>7, <2>8, <2>9, <2>10, RowChanged, Zenon
<1> QED BY <1>2, <1>3

LEMMA RowDeletes ==
  ASSUME IInv, NEW r \in Reqs, DeleteRow(r) PROVE IInv'
<1> DEFINE i == job[r].of
           row == [NoRow EXCEPT !.state = "gone"]
<1>1. pc[r] = "delete" /\ i \in Items
  BY DEF DeleteRow, IInv, Holds, Fits
<1>2. CASE ~Exists(i)
  <2>1. Leave(r, "failed")
    BY <1>2 DEF DeleteRow
  <2> QED BY <1>1, <2>1, Leaves DEF Answered
<1>3. CASE Exists(i)
  <2>1. /\ Change(i) /\ Goto(r, "audit", job[r]) /\ item' = [item EXCEPT ![i] = row]
        /\ UNCHANGED <<workload, content, tracked, overlapped, begun>>
    BY <1>3 DEF DeleteRow, Leave
  <2>2. row \in Row /\ row.state = "gone" /\ row.link = NoLink
    BY NoRowTyped DEF NoRow, Row
  <2> HIDE DEF row
  <2> QED BY <1>1, <2>1, <2>2, NoLinkOK, RowChanged
<1> QED BY <1>2, <1>3

(***************************************************************************)
(* The log, the counters and the seed.                                     *)
(***************************************************************************)
LEMMA Ends ==
  ASSUME IInv, NEW r \in Reqs, NEW answer \in Answered, pc[r] = "audit",
         Goto(r, answer, NoJob), NEW y \in Things, job[r].of = y,
         \/ /\ logged' = [logged EXCEPT ![y] = @ + 1] /\ UNCHANGED unlogged
         \/ /\ unlogged' = [unlogged EXCEPT ![y] = @ + 1] /\ UNCHANGED logged,
         UNCHANGED <<workload, item, content, changes, tracked, overlapped, begun>>
  PROVE  IInv'
<1>0. answer \in Locs /\ answer # "audit" /\ answer \notin SeedLocs /\ Fits(answer, NoJob)
  BY DEF Locs, Answered, SeedLocs, Fits
<1>1. /\ Moved(r) /\ Holds(r)' /\ pc'[r] = answer
      /\ pc' \in [Reqs -> Locs] /\ job' \in [Reqs -> Job]
  BY <1>0, NoJobTyped, GotoMoves DEF IInv
<1>2. logged' \in [Things -> Nat] /\ unlogged' \in [Things -> Nat]
  <2>1. logged \in [Things -> Nat] /\ unlogged \in [Things -> Nat]
    BY DEF IInv, Typed, TypeOK
  <2>2. logged[y] + 1 \in Nat /\ unlogged[y] + 1 \in Nat
    BY <2>1
  <2>3. CASE logged' = [logged EXCEPT ![y] = @ + 1] /\ UNCHANGED unlogged
    BY <2>1, <2>2, <2>3
  <2>4. CASE unlogged' = [unlogged EXCEPT ![y] = @ + 1] /\ UNCHANGED logged
    BY <2>1, <2>2, <2>4
  <2> QED BY <2>3, <2>4
<1>3. Typed'
  BY <1>1, <1>2 DEF IInv, Typed, TypeOK, Locs
<1>4. AuditsFollow'
  BY <1>0, <1>1, AuditsEnded DEF IInv
<1>5. \A i \in Items : RowOK(i)'
  BY RowsKept DEF IInv
<1>6. SeedsOK'
  <2>1. ~Seeding(r)' /\ pc'[r] # "seed create"
    BY <1>0, <1>1 DEF Seeding, SeedLocs
  <2> QED BY <1>1, <2>1, SeededKept, SeedsKept
<1> QED BY <1>1, <1>3, <1>4, <1>5, <1>6, Combine

LEMMA Logs ==
  ASSUME IInv, NEW r \in Reqs, Audit(r) PROVE IInv'
<1>1. pc[r] = "audit" /\ job[r].of \in Things
  BY DEF Audit, IInv, Holds, Fits
<1> QED BY <1>1, Ends DEF Audit, Answered

LEMMA Fails ==
  ASSUME IInv, NEW r \in Reqs, Fail(r) PROVE IInv'
<1>1. CASE pc[r] = "audit"
  <2>1. job[r].of \in Things
    BY <1>1 DEF IInv, Holds, Fits
  <2> QED BY <1>1, <2>1, Ends DEF Fail, Answered
<1>2. CASE pc[r] # "audit"
  <2>1. Leave(r, "failed")
    BY <1>2 DEF Fail, Leave, books
  <2> QED BY <1>2, <2>1, Leaves DEF Answered
<1> QED BY <1>1, <1>2

LEMMA Increments ==
  ASSUME IInv, NEW r \in Reqs, Increment(r) PROVE IInv'
<1> DEFINE i == job[r].of
           c == job[r].name
           old == item[i]
           seen == tracked[i]
           row == [old EXCEPT ![c] = @ + 1]
           now == [seen EXCEPT ![c] = @ + 1]
<1>1. /\ pc[r] = "count" /\ i \in Items /\ c \in Counters /\ old \in Row
      /\ seen \in [Counters -> Nat] /\ RowOK(i)
  BY DEF Increment, IInv, Holds, Fits, Typed, TypeOK
<1>2. CASE ~Exists(i)
  <2>1. Leave(r, "failed")
    BY <1>2 DEF Increment, Counted
  <2> QED BY <1>1, <2>1, Leaves DEF Answered
<1>3. CASE Exists(i)
  <2>1. /\ Goto(r, "idle", NoJob)
        /\ item' = [item EXCEPT ![i][c] = item[i][c] + 1]
        /\ tracked' = [tracked EXCEPT ![i][c] = @ + 1]
        /\ UNCHANGED <<workload, content, books, overlapped, begun>>
    BY <1>3 DEF Increment, Counted, Leave
  <2>2. item \in [Items -> Row] /\ tracked \in [Items -> [Counters -> Nat]]
    BY DEF IInv, Typed, TypeOK
  <2>3. item' = [item EXCEPT ![i] = row] /\ tracked' = [tracked EXCEPT ![i] = now]
    BY <1>1, <2>1, <2>2
  <2>4. /\ row \in Row /\ row.state = old.state /\ row.link = old.link /\ row.by = old.by
        /\ row.name = old.name
        /\ old.clicks = seen["clicks"] /\ old.impressions = seen["impressions"] =>
             row.clicks = now["clicks"] /\ row.impressions = now["impressions"]
    <3>1. c = "clicks" \/ c = "impressions"
      BY <1>1 DEF Counters
    <3>2. CASE c = "clicks"
      BY <1>1, <3>2 DEF Row, Counters
    <3>3. CASE c = "impressions"
      BY <1>1, <3>3 DEF Row, Counters
    <3> QED BY <3>1, <3>2, <3>3
  <2>5. now \in [Counters -> Nat]
    BY <1>1
  <2> HIDE DEF row, now
  <2>6. /\ Moved(r) /\ Holds(r)' /\ pc'[r] = "idle"
        /\ pc' \in [Reqs -> Locs] /\ job' \in [Reqs -> Job]
    <3>1. Fits("idle", NoJob) /\ "idle" \in Locs
      BY DEF Fits, Locs, Answered
    <3> QED BY <2>1, <3>1, NoJobTyped, GotoMoves DEF IInv
  <2>7. Typed'
    <3>1. item' \in [Items -> Row] /\ tracked' \in [Items -> [Counters -> Nat]]
      BY <2>2, <2>3, <2>4, <2>5
    <3> QED BY <2>1, <2>6, <3>1 DEF IInv, Typed, TypeOK, books, Locs
  <2>8. AuditsFollow'
    BY <1>1, <2>1, <2>6, AuditsKept DEF IInv
  <2>9. ASSUME NEW x \in Items PROVE RowOK(x)'
    <3>1. RowOK(x)
      BY DEF IInv
    <3>2. CASE x = i
      <4>1. item'[i] = row /\ tracked'[i] = now
        BY <1>1, <2>2, <2>3
      <4>2. old.state = "there" /\ row.clicks = now["clicks"]
            /\ row.impressions = now["impressions"] /\ LinkOK(row.link)
        BY <1>1, <1>3, <2>4 DEF RowOK, Exists
      <4>3. item'[x] = row /\ tracked'[x] = now
        BY <3>2, <4>1
      <4> QED BY <2>4, <4>2, <4>3 DEF RowOK, Exists
    <3>3. CASE x # i
      <4>1. item'[x] = item[x] /\ tracked'[x] = tracked[x]
        BY <2>2, <2>3, <3>3
      <4> QED BY <3>1, <4>1 DEF RowOK, Exists
    <3> QED BY <3>2, <3>3
  <2>10. SeedsOK'
    <3>1. ASSUME NEW x \in Items
          PROVE  /\ item'[x].state = item[x].state /\ item'[x].name = item[x].name
                 /\ item'[x].by = item[x].by
      <4>1. item'[x] = IF x = i THEN row ELSE item[x]
        BY <2>2, <2>3
      <4> QED BY <2>4, <4>1
    <3>2. \A n : Seeded(n)' = Seeded(n)
      BY <3>1 DEF Seeded, Named, Exists
    <3>3. ~Seeding(r)' /\ pc'[r] # "seed create"
      BY <2>6 DEF Seeding
    <3> QED BY <2>1, <2>6, <3>2, <3>3, SeedsKept
  <2> QED BY <2>6, <2>7, <2>8, <2>9, <2>10, Combine
<1> QED BY <1>2, <1>3

(***************************************************************************)
(* The seed.                                                               *)
(***************************************************************************)
LEMMA SeedRowsTyped ==
  /\ Len(SeedRows) \in Nat /\ Len(SeedRows) >= 1
  /\ \A k \in 1..Len(SeedRows) :
        SeedRows[k] \in [kind: {"CoinPackage", "Faq", "Sponsor"}, name: Names]
<1> DEFINE S == [kind: {"CoinPackage", "Faq", "Sponsor"}, name: Names]
<1>1. SeedRows \in Seq(S) /\ SeedRows # <<>>
  BY BackOfficeAssumption DEF BackOfficeAssumption
<1> HIDE DEF S
<1>2. Len(SeedRows) \in Nat /\ Len(SeedRows) # 0
  BY <1>1
<1>3. \A k \in 1..Len(SeedRows) : SeedRows[k] \in S
  BY <1>1
<1> QED BY <1>2, <1>3 DEF S

LEMMA AdvanceGoes ==
  ASSUME NEW r \in Reqs, NEW list, NEW here, NEW next, Advance(r, list, here, next),
         Len(list) \in Nat, job[r] \in Job, job[r].step \in 1..Len(list)
  PROVE  \/ \E j \in Job : j.step = 1 /\ Goto(r, next, j)
         \/ \E j \in Job : j.step \in 1..Len(list) /\ Goto(r, here, j)
<1>1. CASE job[r].step = Len(list)
  <2> DEFINE j == [job[r] EXCEPT !.step = 1]
  <2>1. j \in Job /\ j.step = 1 /\ Goto(r, next, j)
    BY <1>1 DEF Advance, Job
  <2> QED BY <2>1
<1>2. CASE job[r].step # Len(list)
  <2> DEFINE j == [job[r] EXCEPT !.step = @ + 1]
  <2>1. job[r].step + 1 \in 1..Len(list) /\ job[r].step + 1 \in Nat
    BY <1>2
  <2>2. j \in Job /\ j.step = job[r].step + 1 /\ Goto(r, here, j)
    BY <1>2, <2>1 DEF Advance, Job
  <2> HIDE DEF j
  <2> QED BY <2>1, <2>2
<1> QED BY <1>1, <1>2

LEMMA SeedSingles3 == Len(SeedSingles) = 3 /\ \A k \in 1..3 : SeedSingles[k] \in Singles
  BY DEF SeedSingles, Singles

LEMMA SinglesSeeded ==
  ASSUME IInv, NEW r \in Reqs, SeedSingle(r) PROVE IInv'
<1>1. pc[r] = "seed single" /\ job[r].step \in 1..3 /\ job[r] \in Job /\ Seeding(r)
  BY DEF SeedSingle, IInv, Holds, Fits, Typed, Seeding
<1>2. /\ content' = [content EXCEPT ![SeedSingles[job[r].step]] = "seeded"]
      /\ Advance(r, SeedSingles, "seed single", "seed find")
      /\ UNCHANGED <<workload, item, books, tracked, overlapped, begun>>
  BY DEF SeedSingle
<1>3. PICK loc \in {"seed single", "seed find"}, j \in Job :
        Goto(r, loc, j) /\ Fits(loc, j)
  <2>0. Len(SeedSingles) \in Nat /\ job[r].step \in 1..Len(SeedSingles)
    <3>1. job[r].step \in 1..3
      BY <1>1
    <3> QED BY <3>1, SeedSingles3
  <2>1. \/ \E j \in Job : j.step = 1 /\ Goto(r, "seed find", j)
        \/ \E j \in Job : j.step \in 1..3 /\ Goto(r, "seed single", j)
    BY <1>1, <1>2, <2>0, SeedSingles3, AdvanceGoes
  <2>2. 1 \in 1..Len(SeedRows)
    BY SeedRowsTyped
  <2> QED BY <2>1, <2>2 DEF Fits
<1>4. /\ content' \in [Singles -> {"absent", "default", "edited", "seeded"}]
      /\ begun' \in 0..MaxRequests
  BY <1>2 DEF IInv, Typed, TypeOK
<1>5. loc \in Locs /\ loc # "audit" /\ loc # "seed create" /\ pc[r] # "audit"
  BY <1>1 DEF Locs
<1> QED BY <1>1, <1>2, <1>3, <1>4, <1>5, TablesKept

LEMMA SeedFinds ==
  ASSUME IInv, NEW r \in Reqs, SeedFind(r) PROVE IInv'
<1> DEFINE n == SeedRows[job[r].step]
<1>1. pc[r] = "seed find" /\ job[r].step \in 1..Len(SeedRows) /\ job[r] \in Job /\ Seeding(r)
  BY DEF SeedFind, IInv, Holds, Fits, Typed, Seeding
<1>2. UNCHANGED <<workload, item, content, books, tracked, overlapped, begun>>
  BY DEF SeedFind
<1>3. /\ content' \in [Singles -> {"absent", "default", "edited", "seeded"}]
      /\ begun' \in 0..MaxRequests
  BY <1>2 DEF IInv, Typed, TypeOK
<1>4. CASE Named(n) = {} /\ Goto(r, "seed create", job[r])
  <2>1. Fits("seed create", job[r]) /\ "seed create" \in Locs
    BY <1>1 DEF Fits, Locs
  <2>2. Seeded(n) = {}
    BY <1>4 DEF Seeded
  <2> QED BY <1>1, <1>2, <1>3, <1>4, <2>1, <2>2, TablesKept
<1>5. CASE \E i \in Named(n) : Goto(r, "seed update", [job[r] EXCEPT !.of = i])
  <2>1. PICK i \in Named(n) : Goto(r, "seed update", [job[r] EXCEPT !.of = i])
    BY <1>5
  <2> DEFINE j == [job[r] EXCEPT !.of = i]
  <2>2. j \in Job /\ j.of = i /\ j.step = job[r].step /\ i \in Items
    BY <1>1 DEF Named, Job, Things
  <2>3. Goto(r, "seed update", j)
    BY <2>1
  <2> HIDE DEF j
  <2>4. Fits("seed update", j) /\ "seed update" \in Locs
    BY <1>1, <2>2 DEF Fits, Locs
  <2> QED BY <1>1, <1>2, <1>3, <2>2, <2>3, <2>4, TablesKept
<1> QED BY <1>4, <1>5 DEF SeedFind

LEMMA SeedUpdates ==
  ASSUME IInv, NEW r \in Reqs, SeedUpdate(r) PROVE IInv'
<1>1. pc[r] = "seed update" /\ job[r].step \in 1..Len(SeedRows) /\ job[r] \in Job /\ Seeding(r)
  BY DEF SeedUpdate, IInv, Holds, Fits, Typed, Seeding
<1>2. CASE ~Exists(job[r].of)
  <2>1. Leave(r, "failed")
    BY <1>2 DEF SeedUpdate
  <2> QED BY <1>1, <2>1, Leaves DEF Answered
<1>3. CASE Exists(job[r].of)
  <2>1. /\ Advance(r, SeedRows, "seed find", "idle")
        /\ UNCHANGED <<workload, item, content, books, tracked, overlapped, begun>>
    BY <1>3 DEF SeedUpdate
  <2>2. PICK loc \in {"seed find", "idle"}, j \in Job : Goto(r, loc, j) /\ Fits(loc, j)
    <3>1. \/ \E j \in Job : j.step = 1 /\ Goto(r, "idle", j)
          \/ \E j \in Job : j.step \in 1..Len(SeedRows) /\ Goto(r, "seed find", j)
      BY <1>1, <2>1, SeedRowsTyped, AdvanceGoes
    <3> QED BY <3>1 DEF Fits
  <2>3. /\ content' \in [Singles -> {"absent", "default", "edited", "seeded"}]
        /\ begun' \in 0..MaxRequests
    BY <2>1 DEF IInv, Typed, TypeOK
  <2>4. loc \in Locs /\ loc # "audit" /\ loc # "seed create" /\ pc[r] # "audit"
    BY <1>1 DEF Locs, Answered
  <2> QED BY <1>1, <2>1, <2>2, <2>3, <2>4, TablesKept
<1> QED BY <1>2, <1>3

LEMMA SeedStarts ==
  ASSUME IInv, NEW r \in Reqs, Seed(r) PROVE IInv'
<1> DEFINE j == [NoJob EXCEPT !.op = "seed"]
<1>1. /\ Begin(r, j, "seed single") /\ UNCHANGED <<item, content, books, tracked>>
      /\ j \in Job /\ j.step = 1
  BY NoJobTyped DEF Seed, NoJob, Job
<1>0. overlapped' = (overlapped \/ \E q \in Reqs : Seeding(q))
  BY DEF Seed
<1> HIDE DEF j
<1>2. /\ begun \in 0..MaxRequests /\ begun < MaxRequests /\ begun' = begun + 1
      /\ pc[r] # "audit" /\ Goto(r, "seed single", j) /\ UNCHANGED workload
  BY <1>1, AnsweredHolds DEF Begin, IInv, Typed, TypeOK
<1>3. begun' \in 0..MaxRequests
  <2>1. begun \in 0..MaxRequests /\ begun < MaxRequests /\ begun' = begun + 1
    BY <1>2
  <2> QED BY <2>1, BackOfficeAssumption DEF BackOfficeAssumption
<1>4. /\ Moved(r) /\ Holds(r)' /\ pc'[r] = "seed single"
      /\ pc' \in [Reqs -> Locs] /\ job' \in [Reqs -> Job]
  <2>1. Fits("seed single", j) /\ "seed single" \in Locs
    <3>1. j.step \in 1..3
      <4>1. j.step = 1
        BY <1>1
      <4> QED BY <4>1
    <3> QED BY <3>1 DEF Fits, Locs
  <2> QED BY <1>1, <1>2, <2>1, GotoMoves DEF IInv
<1>5. Typed'
  <2>1. overlapped' \in BOOLEAN
    BY <1>0 DEF IInv, Typed, TypeOK
  <2> QED BY <1>1, <1>2, <1>3, <1>4, <2>1 DEF IInv, Typed, TypeOK, books, Locs
<1>6. AuditsFollow'
  BY <1>1, <1>2, <1>4, AuditsKept DEF IInv
<1>7. \A i \in Items : RowOK(i)'
  BY <1>1, RowsKept DEF IInv
<1>8. SeedsOK'
  <2> SUFFICES ASSUME ~overlapped' PROVE SeedsOK'
    BY DEF SeedsOK
  <2>1. ~overlapped /\ \A q \in Reqs : ~Seeding(q)
    BY <1>0
  <2>2. \A q \in Reqs \ {r} : ~Seeding(q)'
    BY <1>4, <2>1 DEF Moved, Seeding
  <2>3. \A q, s \in Reqs : Seeding(q)' /\ Seeding(s)' => q = s
    BY <2>2
  <2>4. \A k \in 1..Len(SeedRows) : \A x, y \in Seeded(SeedRows[k])' : x = y
    BY <1>1, <2>1, SeededKept DEF IInv, SeedsOK
  <2>5. \A q \in Reqs : pc'[q] # "seed create"
    BY <1>4, <2>2 DEF Seeding
  <2> QED BY <2>3, <2>4, <2>5 DEF SeedsOK
<1> QED BY <1>4, <1>5, <1>6, <1>7, <1>8, Combine

LEMMA SeedCreates ==
  ASSUME IInv, NEW r \in Reqs, NEW i \in Items, SeedCreate(r, i) PROVE IInv'
<1> DEFINE n == SeedRows[job[r].step]
           row == [NoRow EXCEPT !.state = "there", !.name = n.name, !.by = "seed"]
<1>1. /\ pc[r] = "seed create" /\ job[r].step \in 1..Len(SeedRows) /\ job[r] \in Job
      /\ Seeding(r)
  BY DEF SeedCreate, IInv, Holds, Fits, Typed, Seeding
<1>2. /\ KindOf[i] = n.kind /\ item[i].state = "absent" /\ item' = [item EXCEPT ![i] = row]
      /\ Advance(r, SeedRows, "seed find", "idle")
      /\ UNCHANGED <<workload, content, books, tracked, overlapped, begun>>
  BY DEF SeedCreate
<1>3. n.kind \in {"CoinPackage", "Faq", "Sponsor"} /\ n.name \in Names
  <2>1. n \in [kind: {"CoinPackage", "Faq", "Sponsor"}, name: Names]
    BY <1>1, SeedRowsTyped
  <2> QED BY <2>1
<1>4. /\ row \in Row /\ row.state = "there" /\ row.name = n.name /\ row.by = "seed"
      /\ row.link = NoLink /\ row.clicks = 0 /\ row.impressions = 0
  BY <1>3, NoLinkOK DEF NoRow, Row
<1> HIDE DEF row
<1>5. PICK loc \in {"seed find", "idle"}, j \in Job : Goto(r, loc, j) /\ Fits(loc, j)
  <2>1. \/ \E j \in Job : j.step = 1 /\ Goto(r, "idle", j)
        \/ \E j \in Job : j.step \in 1..Len(SeedRows) /\ Goto(r, "seed find", j)
    BY <1>1, <1>2, SeedRowsTyped, AdvanceGoes
  <2> QED BY <2>1 DEF Fits
<1>6. /\ Moved(r) /\ Holds(r)' /\ pc'[r] = loc
      /\ pc' \in [Reqs -> Locs] /\ job' \in [Reqs -> Job]
  <2>1. loc \in Locs
    BY DEF Locs, Answered
  <2> QED BY <1>5, <2>1, GotoMoves DEF IInv
<1>7. item \in [Items -> Row] /\ item' \in [Items -> Row]
  BY <1>2, <1>4 DEF IInv, Typed, TypeOK
<1>8. Typed'
  BY <1>2, <1>6, <1>7 DEF IInv, Typed, TypeOK, books, Locs
<1>9. AuditsFollow'
  <2>1. pc[r] # "audit" /\ pc'[r] # "audit"
    BY <1>1, <1>6
  <2> QED BY <1>2, <1>6, <2>1, AuditsKept DEF IInv
<1>10. ASSUME NEW x \in Items PROVE RowOK(x)'
  <2>1. RowOK(x) /\ tracked' = tracked
    BY <1>2 DEF IInv
  <2>2. CASE x = i
    <3>1. item'[i] = row
      BY <1>2, <1>7
    <3> QED BY <1>2, <1>4, <2>1, <2>2, <3>1, NoLinkOK DEF RowOK, Exists
  <2>3. CASE x # i
    <3>1. item'[x] = item[x]
      BY <1>2, <1>7, <2>3
    <3> QED BY <2>1, <3>1 DEF RowOK, Exists
  <2> QED BY <2>2, <2>3
<1>11. SeedsOK'
  <2> SUFFICES ASSUME ~overlapped PROVE SeedsOK'
    BY <1>2 DEF SeedsOK
  <2>1. \A q, s \in Reqs : Seeding(q) /\ Seeding(s) => q = s
    BY DEF IInv, SeedsOK
  <2>2. \A q \in Reqs : Seeding(q)' => Seeding(q)
    BY <1>1, <1>6 DEF Moved, Seeding
  <2>3. ASSUME NEW m PROVE Seeded(m)' \subseteq Seeded(m) \cup {i}
    <3> SUFFICES ASSUME NEW x \in Items, x # i, x \in Seeded(m)' PROVE x \in Seeded(m)
      BY DEF Seeded, Named
    <3>1. item'[x] = item[x]
      BY <1>2, <1>7
    <3> QED BY <3>1 DEF Seeded, Named, Exists
  <2>4. ASSUME NEW k \in 1..Len(SeedRows), NEW x \in Seeded(SeedRows[k])',
               NEW y \in Seeded(SeedRows[k])'
        PROVE  x = y
    <3>1. CASE i \in Seeded(SeedRows[k])'
      <4>1. SeedRows[k].kind = n.kind /\ SeedRows[k].name = n.name
        <5>1. KindOf[i] = SeedRows[k].kind /\ item'[i].name = SeedRows[k].name
          BY <3>1 DEF Seeded, Named
        <5>2. item'[i] = row
          BY <1>2, <1>7
        <5> QED BY <1>2, <1>4, <5>1, <5>2
      <4>2. Seeded(SeedRows[k]) = Seeded(n)
        BY <4>1 DEF Seeded, Named
      <4>3. Seeded(n) = {}
        BY <1>1 DEF IInv, SeedsOK
      <4>4. Seeded(SeedRows[k])' \subseteq Seeded(SeedRows[k]) \cup {i}
        BY <2>3
      <4>5. Seeded(SeedRows[k]) = {}
        BY <4>2, <4>3
      <4> QED BY <4>4, <4>5
    <3>2. CASE i \notin Seeded(SeedRows[k])'
      <4>1. x \in Seeded(SeedRows[k]) /\ y \in Seeded(SeedRows[k])
        BY <2>3, <3>2
      <4> QED BY <4>1 DEF IInv, SeedsOK
    <3> QED BY <3>1, <3>2
  <2>5. ASSUME NEW q \in Reqs PROVE pc'[q] # "seed create"
    <3>1. CASE q = r
      BY <1>6, <3>1
    <3>2. CASE q # r
      <4> SUFFICES ASSUME pc'[q] = "seed create" PROVE FALSE
        OBVIOUS
      <4>1. pc[q] = "seed create"
        BY <1>6, <3>2 DEF Moved
      <4>2. Seeding(q)
        BY <4>1 DEF Seeding
      <4> QED BY <1>1, <2>1, <3>2, <4>2
    <3> QED BY <3>1, <3>2
  <2> QED BY <2>1, <2>2, <2>4, <2>5 DEF SeedsOK
<1> QED BY <1>6, <1>8, <1>9, <1>10, <1>11, Combine

(***************************************************************************)
(* Every step.                                                             *)
(***************************************************************************)
LEMMA AdminRequests ==
  ASSUME IInv, NEW r \in Reqs, AdminRequest(r) PROVE IInv'
<1>0. /\ \A k \in {"Faq", "Sponsor", "SponsoredAd", "CoinPackage", "ContactMessage"} : k \in Kinds
      /\ \A s \in {"SiteSettings", "HomepageContent", "CompetitionRules"} : s \in Singles
      /\ Dtos \subseteq Dto
  BY BackOfficeAssumption DEF Kinds, Singles, BackOfficeAssumption
<1>1. CASE updateSiteSettings(r) \/ updateHomepage(r) \/ updateRules(r)
  BY <1>0, <1>1, Opens DEF updateSiteSettings, updateHomepage, updateRules
<1>2. ASSUME NEW i \in Items, NEW n \in Names,
             createFaq(r, i, n) \/ createSponsor(r, i, n) \/ createCoinPackage(r, i, n)
      PROVE  IInv'
  BY <1>0, <1>2, NoLinkOK, Inserts DEF createFaq, createSponsor, createCoinPackage
<1>3. ASSUME NEW i \in Items, NEW n \in Names,
             updateFaq(r, i, n) \/ updateSponsor(r, i, n) \/ updateCoinPackage(r, i, n)
      PROVE  IInv'
  <2> DEFINE j == Edit(n, NoDto)
  <2>1. j \in Job /\ j.name \in Names \cup {None}
    BY NoJobTyped, NoLinkOK DEF Edit, Job
  <2>2. PICK k \in Kinds : Ensure(r, k, i, j, "update")
    BY <1>0, <1>3 DEF updateFaq, updateSponsor, updateCoinPackage
  <2> HIDE DEF j
  <2> QED BY <2>1, <2>2, Ensures
<1>4. ASSUME NEW i \in Items, NEW d \in Dtos, createAd(r, i, d) PROVE IInv'
  <2>1. d \in Dto
    BY <1>0
  <2>2. mapCreateAdData(d) \in Link /\ LinkOK(mapCreateAdData(d))
    BY <2>1, ResolvedOK DEF mapCreateAdData
  <2> QED BY <1>0, <1>4, <2>2, Inserts DEF createAd
<1>5. ASSUME NEW i \in Items, NEW d \in Dtos, updateAd(r, i, d) PROVE IInv'
  <2> DEFINE j == Edit(None, d)
  <2>1. j \in Job /\ j.name \in Names \cup {None}
    BY <1>0, NoJobTyped DEF Edit, Job
  <2>2. Ensure(r, "SponsoredAd", i, j, "update")
    BY <1>5 DEF updateAd
  <2> HIDE DEF j
  <2> QED BY <1>0, <2>1, <2>2, Ensures
<1>6. ASSUME NEW i \in Items, updateContactMessageStatus(r, i) PROVE IInv'
  <2> DEFINE j == Edit(None, NoDto)
  <2>1. j \in Job /\ j.name \in Names \cup {None}
    BY NoJobTyped, NoLinkOK DEF Edit, Job
  <2>2. Ensure(r, "ContactMessage", i, j, "update")
    BY <1>6 DEF updateContactMessageStatus
  <2> HIDE DEF j
  <2> QED BY <1>0, <2>1, <2>2, Ensures
<1>7. ASSUME NEW i \in Items,
             deleteFaq(r, i) \/ deleteSponsor(r, i) \/ deleteCoinPackage(r, i) \/ deleteAd(r, i)
      PROVE  IInv'
  <2>1. PICK k \in Kinds : Ensure(r, k, i, NoJob, "delete")
    BY <1>0, <1>7 DEF deleteFaq, deleteSponsor, deleteCoinPackage, deleteAd
  <2> QED BY <2>1, NoJobTyped, Ensures
<1> QED BY <1>1, <1>2, <1>3, <1>4, <1>5, <1>6, <1>7 DEF AdminRequest

LEMMA PublicRequests ==
  ASSUME IInv, NEW r \in Reqs, PublicRequest(r) PROVE IInv'
<1>0. /\ \A s \in {"SiteSettings", "HomepageContent", "CompetitionRules"} : s \in Singles
      /\ "SponsoredAd" \in Kinds /\ "ContactMessage" \in Kinds
  BY DEF Kinds, Singles
<1>1. CASE getSiteSettings(r) \/ getHomepage(r) \/ getRules(r)
  BY <1>0, <1>1, Opens DEF getSiteSettings, getHomepage, getRules
<1>2. ASSUME NEW i \in Items, createContactMessage(r, i) PROVE IInv'
  BY <1>0, <1>2, NoLinkOK, Inserts DEF createContactMessage
<1>3. ASSUME NEW i \in Items, NEW c \in Counters, Track(r, i, c) PROVE IInv'
  <2> DEFINE j == [NoJob EXCEPT !.name = c, !.seen = item[i][c]]
  <2>1. item[i][c] \in Nat
    <3>1. item[i] \in Row
      BY DEF IInv, Typed, TypeOK
    <3>2. item[i].clicks \in Nat /\ item[i].impressions \in Nat
      BY <3>1 DEF Row
    <3> QED BY <3>2 DEF Counters
  <2>2. j \in Job /\ j.name \in Counters
    BY <2>1, NoJobTyped DEF Job
  <2>3. Ensure(r, "SponsoredAd", i, j, "count")
    BY <1>3 DEF Track
  <2> HIDE DEF j
  <2> QED BY <1>0, <2>2, <2>3, Ensures
<1>4. ASSUME NEW i \in Items, trackClick(r, i) \/ trackImpression(r, i) PROVE IInv'
  BY <1>3, <1>4 DEF trackClick, trackImpression, Counters
<1> QED BY <1>1, <1>2, <1>4 DEF PublicRequest

LEMMA NextIInv == IInv /\ [Next]_vars => IInv'
<1> SUFFICES ASSUME IInv, [Next]_vars PROVE IInv'
  OBVIOUS
<1>1. ASSUME NEW r \in Reqs, Proceed(r) PROVE IInv'
  BY <1>1, RowUpdates, RowDeletes, Logs, Increments, SingleCreates, SingleUpdates,
     SinglesSeeded, SeedFinds, SeedUpdates, SeedCreates DEF Proceed
<1>2. CASE Next
  BY <1>1, <1>2, AdminRequests, PublicRequests, SeedStarts, Fails DEF Next
<1>3. CASE UNCHANGED vars
  <2> USE <1>3 DEF vars, books
  <2>1. Typed'
    BY DEF IInv, Typed, TypeOK
  <2>2. \A r \in Reqs : Holds(r)'
    BY DEF IInv, Holds
  <2>3. AuditsFollow'
    BY DEF IInv, AuditsFollow
  <2>4. \A i \in Items : RowOK(i)'
    BY RowsKept DEF IInv
  <2>5. SeedsOK'
    BY SeededKept DEF IInv, SeedsOK, Seeding
  <2> QED BY <2>1, <2>2, <2>3, <2>4, <2>5 DEF IInv
<1> QED BY <1>2, <1>3

(***************************************************************************)
(* The theorems.                                                           *)
(***************************************************************************)
LEMMA Inductive == Spec => []IInv
  BY InitIInv, NextIInv, PTL DEF Spec

(* Every variable keeps its type.                                            *)
THEOREM TypesHold == Spec => []TypeOK
<1>1. IInv => TypeOK
  BY DEF IInv, Typed
<1> QED BY <1>1, Inductive, PTL

(* One row of the log for each change, but for the requests still between    *)
(* the two and those that died there: admin.controller.ts and the services.  *)
THEOREM AuditLogFollows == Spec => []AuditsFollow
<1>1. IInv => AuditsFollow
  BY DEF IInv
<1> QED BY <1>1, Inductive, PTL

(* Each click and impression answered is counted once, whatever requests     *)
(* count at once: ads.service.ts.                                            *)
THEOREM CountersAreExact == Spec => []CountsExact
<1>1. IInv => CountsExact
  <2> SUFFICES ASSUME IInv, NEW i \in Items, NEW c \in Counters, Exists(i)
               PROVE  item[i][c] = tracked[i][c]
    BY DEF CountsExact
  <2>1. item[i].clicks = tracked[i]["clicks"] /\ item[i].impressions = tracked[i]["impressions"]
    BY DEF IInv, RowOK
  <2> QED BY <2>1 DEF Counters
<1> QED BY <1>1, Inductive, PTL

(* The target of an ad follows its destination through any creations and     *)
(* updates with any fields: mapCreateAdData and mapUpdateAdData.             *)
THEOREM TargetsFollow == Spec => []TargetFollowsValue
<1>1. IInv => TargetFollowsValue
  BY DEF IInv, RowOK, LinkOK, TargetFollowsValue
<1> QED BY <1>1, Inductive, PTL

(* Seeds that do not overlap leave one row of each name: prisma/seed.ts.     *)
THEOREM SeedingIsIdempotent == Spec => []SeededOnce
<1>1. IInv => SeededOnce
  <2> SUFFICES ASSUME IInv, ~overlapped, NEW k \in 1..Len(SeedRows)
               PROVE  Cardinality(Seeded(SeedRows[k])) <= 1
    BY DEF SeededOnce, Seeded
  <2>1. \A i, j \in Seeded(SeedRows[k]) : i = j
    BY DEF IInv, SeedsOK
  <2>2. CASE Seeded(SeedRows[k]) = {}
    BY <2>2, FS_EmptySet
  <2>3. ASSUME NEW i \in Seeded(SeedRows[k]) PROVE Cardinality(Seeded(SeedRows[k])) <= 1
    <3>1. Seeded(SeedRows[k]) = {i}
      BY <2>1
    <3>2. Cardinality({i}) = 1
      BY FS_Singleton
    <3> QED BY <3>1, <3>2
  <2> QED BY <2>2, <2>3
<1> QED BY <1>1, Inductive, PTL

(* A reader's defaults never replace what an administrator wrote: the        *)
(* getOrCreate of cms.service.ts, raced by any requests.                     *)
THEOREM EditsAreKept == Spec => EditsSurvive
<1> DEFINE A == \A s \in Singles :
                  content[s] = "edited" => content'[s] \in {"edited", "seeded"}
<1>1. IInv /\ [Next]_vars => [A]_vars
  <2> SUFFICES ASSUME IInv, [Next]_vars, NEW s \in Singles, content[s] = "edited"
               PROVE  content'[s] \in {"edited", "seeded"}
    OBVIOUS
  <2>0. content \in [Singles -> {"absent", "default", "edited", "seeded"}]
    BY DEF IInv, Typed, TypeOK
  <2>1. CASE UNCHANGED content
    BY <2>1
  <2>2. ASSUME NEW r \in Reqs, CreateSingle(r) \/ UpdateSingle(r) \/ SeedSingle(r)
        PROVE  content'[s] \in {"edited", "seeded"}
    <3>1. CASE CreateSingle(r)
      <4>1. CASE content[job[r].of] # "absent"
        BY <3>1, <4>1 DEF CreateSingle, Leave
      <4>2. CASE content[job[r].of] = "absent"
        <5>1. content' = [content EXCEPT ![job[r].of] = "default"] /\ job[r].of # s
          BY <3>1, <4>2 DEF CreateSingle, WriteSingle
        <5> QED BY <2>0, <5>1
      <4> QED BY <4>1, <4>2
    <3>2. CASE UpdateSingle(r)
      BY <2>0, <3>2 DEF UpdateSingle, WriteSingle
    <3>3. CASE SeedSingle(r)
      BY <2>0, <3>3 DEF SeedSingle
    <3> QED BY <2>2, <3>1, <3>2, <3>3
  <2>3. ASSUME NEW r \in Reqs, AdminRequest(r) \/ PublicRequest(r) PROVE UNCHANGED content
    BY <2>3 DEF AdminRequest, PublicRequest, updateSiteSettings, updateHomepage, updateRules,
       createFaq, createSponsor, createCoinPackage, updateFaq, updateSponsor,
       updateCoinPackage, createAd, updateAd, updateContactMessageStatus, deleteFaq,
       deleteSponsor, deleteCoinPackage, deleteAd, getSiteSettings, getHomepage, getRules,
       createContactMessage, trackClick, trackImpression, Track, Insert, Ensure, GetOrCreate
  <2>4. ASSUME NEW r \in Reqs,
               \/ UpdateRow(r) \/ DeleteRow(r) \/ Audit(r) \/ Increment(r)
               \/ SeedFind(r) \/ SeedUpdate(r) \/ Seed(r) \/ Fail(r)
               \/ \E i \in Items : SeedCreate(r, i)
        PROVE  UNCHANGED content
    BY <2>4 DEF UpdateRow, DeleteRow, Audit, Increment, Counted, SeedFind, SeedUpdate, Seed,
                Fail, SeedCreate, Leave
  <2> QED BY <2>1, <2>2, <2>3, <2>4 DEF Next, Proceed, vars
<1>2. Init /\ [][Next]_vars => [][A]_vars
  BY <1>1, Inductive, PTL DEF Spec
<1> QED BY <1>2, PTL DEF Spec, EditsSurvive
=============================================================================
