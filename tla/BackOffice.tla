------------------------------ MODULE BackOffice ------------------------------
(***************************************************************************)
(* What administrators edit outside a competition, and the audit log of    *)
(* it: FAQs, sponsors, sponsored ads, coin packages, contact messages, the *)
(* three singletons of the CMS, the counters of ads, and the seed that     *)
(* writes the same tables.  Nothing here runs in a transaction: a handler  *)
(* reads, then writes, then logs, each in a statement of its own.          *)
(*                                                                         *)
(* A request that finds no row (404) has no effect and is not modelled; a  *)
(* row that goes between the read and the write is.                        *)
(***************************************************************************)
EXTENDS Integers, Sequences, FiniteSets

CONSTANTS
    Items,       \* ids of rows, never used twice
    KindOf,      \* the table of each
    Names, Reqs, None,
    Values,      \* destinations administrators type
    Blank,       \* the empty one
    Trimmed,     \* each without the white space around it
    Links,       \* those that start with http:// or https://
    Urls,        \* those IsUrl lets through, with or without http://
    WaMe,        \* https://wa.me/ and the digits of a text, None without digits
    SocialType,  \* what inferSocialDestinationType makes of a value
    SeedRows,    \* the packages, FAQs and sponsors of the seed, in its order
    Dtos,        \* bound: destination fields of the ads that are sent
    MaxRequests, \* bound: requests of a behaviour
    Workloads    \* bound: the tables and operations of a behaviour

Kinds == {"Faq", "Sponsor", "SponsoredAd", "CoinPackage", "ContactMessage"}

Singles == {"SiteSettings", "HomepageContent", "CompetitionRules"}

SeedSingles == <<"SiteSettings", "HomepageContent", "CompetitionRules">>

DestinationTypes ==
    {"WEBSITE", "WHATSAPP", "FACEBOOK", "INSTAGRAM", "TIKTOK", "YOUTUBE", "OTHER"}

isSocialDestination == DestinationTypes \ {"WEBSITE", "WHATSAPP"}

Counters == {"clicks", "impressions"}

(* null is a field cleared, None one that was not sent.                      *)
Sent(S) == S \cup {"null", None}

Dto == [type: Sent(DestinationTypes), value: Sent(Values), target: Sent(Urls),
        whatsapp: Sent(Urls), social: Sent(Urls)]

ASSUME BackOfficeAssumption ==
    /\ IsFiniteSet(Reqs)
    /\ KindOf \in [Items -> Kinds]
    /\ Blank \in Values /\ Links \subseteq Values /\ Urls \subseteq Values \ {Blank}
    /\ Trimmed \in [Values -> Values] /\ Trimmed[Blank] = Blank
    /\ WaMe \in [Values -> Links \cup {None}]
    /\ SocialType \in [Values -> isSocialDestination]
    /\ SeedRows \in Seq([kind: {"CoinPackage", "Faq", "Sponsor"}, name: Names])
    /\ SeedRows # <<>>
    /\ Dtos \subseteq Dto
    /\ MaxRequests \in Nat
    /\ Items \cap Singles = {}
    /\ None \notin Items \cup Singles \cup Names \cup Reqs \cup Values
                    \cup DestinationTypes \cup {"null"}
    /\ "null" \notin Values

VARIABLES
    workload,    \* the tables and operations of this behaviour
    item,        \* the rows
    content,     \* what the row of a singleton shows, "absent" without one
    changes,     \* number of changes administrators made to a row (history)
    logged,      \* number of rows of AdminAuditLog about it
    unlogged,    \* changes whose request died before the log (history)
    tracked,     \* clicks and impressions answered, by ad (history)
    overlapped,  \* whether two seeds have run at once (history)
    begun,       \* number of requests so far
    pc,          \* where each request is
    job          \* what it works on

books == <<changes, logged, unlogged>>
vars == <<workload, item, content, books, tracked, overlapped, begun, pc, job>>

Answered == {"idle", "failed"}

NoDto == [type |-> None, value |-> None, target |-> None,
          whatsapp |-> None, social |-> None]

(* The destination columns of an ad, and those of any other row.             *)
NoLink == NoDto

(* seen is the row as the request read it, step where the seed is.           *)
NoJob == [op |-> None, of |-> None, name |-> None, dto |-> NoDto,
          seen |-> 0, step |-> 1]

NoRow == [state |-> "absent", name |-> None, by |-> None, link |-> NoLink,
          clicks |-> 0, impressions |-> 0]

Things == Items \cup Singles

Init ==
    /\ workload \in Workloads
    /\ item = [i \in Items |-> NoRow]
    /\ content = [s \in Singles |-> "absent"]
    /\ changes = [x \in Things |-> 0] /\ logged = changes /\ unlogged = changes
    /\ tracked = [i \in Items |-> [c \in Counters |-> 0]]
    /\ overlapped = FALSE
    /\ begun = 0
    /\ pc = [r \in Reqs |-> "idle"]
    /\ job = [r \in Reqs |-> NoJob]

(***************************************************************************)
(* Requests.                                                               *)
(***************************************************************************)
Goto(r, loc, j) ==
    /\ pc' = [pc EXCEPT ![r] = loc]
    /\ job' = [job EXCEPT ![r] = IF loc \in Answered THEN NoJob ELSE j]

Begin(r, j, loc) ==
    /\ j.op \in workload /\ pc[r] \in Answered /\ begun < MaxRequests
    /\ Goto(r, loc, j)
    /\ begun' = begun + 1
    /\ UNCHANGED workload

Leave(r, answer) ==
    /\ Goto(r, answer, NoJob)
    /\ UNCHANGED <<workload, item, content, books, tracked, overlapped, begun>>

Exists(i) == item[i].state = "there"

Change(x) == changes' = [changes EXCEPT ![x] = @ + 1] /\ UNCHANGED <<logged, unlogged>>

(***************************************************************************)
(* The destination of an ad.                                               *)
(***************************************************************************)
Or(a, b) == IF a # None THEN a ELSE b

resolveDestinationUrl(type, v) ==
    LET t == Trimmed[v] IN
    IF t = Blank THEN None
    ELSE IF type = "WHATSAPP" /\ t \notin Links THEN WaMe[t] ELSE t

DestinationTypeOf(d) ==
    Or(d.type, IF d.whatsapp # None THEN "WHATSAPP"
               ELSE IF d.social # None THEN SocialType[d.social] ELSE "WEBSITE")

(* Mutant: a type sent as null is kept.                                      *)
NullTypeKept(d) == [f \in DOMAIN d |-> IF f # "type" /\ d[f] = "null" THEN None ELSE d[f]]

(* null counts as not sent (??).                                             *)
Given(d) == [f \in DOMAIN d |-> IF d[f] = "null" THEN None ELSE d[f]]

(* Mutant: the target is kept as it was sent.                                *)
DestinationUnresolved(dto) ==
    LET d == Given(dto)
    IN [type |-> DestinationTypeOf(d), value |-> Or(d.value, d.target),
        target |-> d.target, whatsapp |-> d.whatsapp, social |-> d.social]

resolveDestination(dto) ==
    LET d == Given(dto)
        legacy == Or(d.target, Or(d.whatsapp, d.social))
        value == Or(d.value, legacy)
        type == DestinationTypeOf(d)
        url == IF value \notin {None, Blank}
               THEN resolveDestinationUrl(type, value) ELSE legacy
    IN [type |-> type, value |-> value, target |-> Or(url, d.target),
        whatsapp |-> IF type = "WHATSAPP" THEN url ELSE d.whatsapp,
        social |-> IF type \in isSocialDestination THEN url ELSE d.social]

mapCreateAdData(d) == resolveDestination(d)

(* What resolves to undefined leaves its column as it was.                   *)
mapUpdateAdData(old, d) ==
    LET new == resolveDestination(d)
    IN IF d = NoDto THEN old ELSE [f \in DOMAIN old |-> Or(new[f], old[f])]

(***************************************************************************)
(* Rows: create, find then update, find then delete; then the log.         *)
(***************************************************************************)
Insert(r, k, i, n, l, loc) ==
    /\ KindOf[i] = k /\ item[i].state = "absent"
    /\ Begin(r, [NoJob EXCEPT !.op = k, !.of = i], loc)
    /\ item' = [item EXCEPT ![i] = [NoRow EXCEPT !.state = "there", !.name = n,
                                                 !.by = "admin", !.link = l]]
    /\ IF loc = "audit" THEN Change(i) ELSE UNCHANGED books
    /\ UNCHANGED <<content, tracked, overlapped>>

createFaq(r, i, n) == Insert(r, "Faq", i, n, NoLink, "audit")
createSponsor(r, i, n) == Insert(r, "Sponsor", i, n, NoLink, "audit")
createCoinPackage(r, i, n) == Insert(r, "CoinPackage", i, n, NoLink, "audit")
createAd(r, i, d) == Insert(r, "SponsoredAd", i, None, mapCreateAdData(d), "audit")
createContactMessage(r, i) == Insert(r, "ContactMessage", i, None, NoLink, "idle")

(* ensureFaq, ensureSponsor, findOne, ensureExists, findContactMessage.      *)
Ensure(r, k, i, j, loc) ==
    /\ KindOf[i] = k /\ Exists(i)
    /\ Begin(r, [j EXCEPT !.op = k, !.of = i], loc)
    /\ UNCHANGED <<item, content, books, tracked, overlapped>>

Edit(n, d) == [NoJob EXCEPT !.name = n, !.dto = d]

updateFaq(r, i, n) == Ensure(r, "Faq", i, Edit(n, NoDto), "update")
updateSponsor(r, i, n) == Ensure(r, "Sponsor", i, Edit(n, NoDto), "update")
updateCoinPackage(r, i, n) == Ensure(r, "CoinPackage", i, Edit(n, NoDto), "update")
updateAd(r, i, d) == Ensure(r, "SponsoredAd", i, Edit(None, d), "update")
updateContactMessageStatus(r, i) ==
    Ensure(r, "ContactMessage", i, Edit(None, NoDto), "update")

deleteFaq(r, i) == Ensure(r, "Faq", i, NoJob, "delete")
deleteSponsor(r, i) == Ensure(r, "Sponsor", i, NoJob, "delete")
deleteCoinPackage(r, i) == Ensure(r, "CoinPackage", i, NoJob, "delete")
deleteAd(r, i) == Ensure(r, "SponsoredAd", i, NoJob, "delete")

(* A row that is gone by now is an error (P2025), not logged.                *)
UpdateRow(r) ==
    LET i == job[r].of
        n == job[r].name IN
    /\ pc[r] = "update"
    /\ \/ ~Exists(i) /\ Leave(r, "failed")
       \/ /\ Exists(i) /\ Change(i) /\ Goto(r, "audit", job[r])
          /\ item' = [item EXCEPT ![i].name = Or(n, @),
                                  ![i].by = IF n = None THEN @ ELSE "admin",
                                  ![i].link = mapUpdateAdData(@, job[r].dto)]
          /\ UNCHANGED <<workload, content, tracked, overlapped, begun>>

(* Mutant: a row already deleted counts as deleted, and is logged.           *)
DeleteAgain(r) ==
    LET i == job[r].of IN
    /\ pc[r] = "delete" /\ Goto(r, "audit", job[r])
    /\ item' = [item EXCEPT ![i] = [NoRow EXCEPT !.state = "gone"]]
    /\ IF Exists(i) THEN Change(i) ELSE UNCHANGED books
    /\ UNCHANGED <<workload, content, tracked, overlapped, begun>>

DeleteRow(r) ==
    LET i == job[r].of IN
    /\ pc[r] = "delete"
    /\ \/ ~Exists(i) /\ Leave(r, "failed")
       \/ /\ Exists(i) /\ Change(i) /\ Goto(r, "audit", job[r])
          /\ item' = [item EXCEPT ![i] = [NoRow EXCEPT !.state = "gone"]]
          /\ UNCHANGED <<workload, content, tracked, overlapped, begun>>

Audit(r) ==
    /\ pc[r] = "audit" /\ Goto(r, "idle", NoJob)
    /\ logged' = [logged EXCEPT ![job[r].of] = @ + 1]
    /\ UNCHANGED <<workload, item, content, changes, unlogged, tracked, overlapped, begun>>

(***************************************************************************)
(* The counters of an ad.                                                  *)
(***************************************************************************)
Track(r, i, c) ==
    Ensure(r, "SponsoredAd", i,
           [NoJob EXCEPT !.name = c, !.seen = item[i][c]], "count")

trackClick(r, i) == Track(r, i, "clicks")
trackImpression(r, i) == Track(r, i, "impressions")

Counted(r, n) ==
    LET i == job[r].of
        c == job[r].name IN
    /\ pc[r] = "count"
    /\ \/ ~Exists(i) /\ Leave(r, "failed")
       \/ /\ Exists(i) /\ Goto(r, "idle", NoJob)
          /\ item' = [item EXCEPT ![i][c] = n]
          /\ tracked' = [tracked EXCEPT ![i][c] = @ + 1]
          /\ UNCHANGED <<workload, content, books, overlapped, begun>>

(* Mutant: one more than what was read.                                      *)
IncrementSeen(r) == Counted(r, job[r].seen + 1)

Increment(r) == pc[r] = "count" /\ Counted(r, item[job[r].of][job[r].name] + 1)

(***************************************************************************)
(* Singletons: found, or created with defaults; then perhaps edited.       *)
(***************************************************************************)
After(op) == IF op = "edit" THEN "update single" ELSE "idle"

GetOrCreate(r, s, op) ==
    /\ Begin(r, [NoJob EXCEPT !.op = op, !.of = s],
             IF content[s] = "absent" THEN "create single" ELSE After(op))
    /\ UNCHANGED <<item, content, books, tracked, overlapped>>

getSiteSettings(r) == GetOrCreate(r, "SiteSettings", "read")
getHomepage(r) == GetOrCreate(r, "HomepageContent", "read")
getRules(r) == GetOrCreate(r, "CompetitionRules", "read")
updateSiteSettings(r) == GetOrCreate(r, "SiteSettings", "edit")
updateHomepage(r) == GetOrCreate(r, "HomepageContent", "edit")
updateRules(r) == GetOrCreate(r, "CompetitionRules", "edit")

WriteSingle(r, s, what, loc) ==
    /\ content' = [content EXCEPT ![s] = what]
    /\ Goto(r, loc, job[r])
    /\ UNCHANGED <<workload, item, tracked, overlapped, begun>>

(* Mutant: the defaults are written whatever is there.                       *)
CreateAnyway(r) ==
    /\ pc[r] = "create single"
    /\ WriteSingle(r, job[r].of, "default", After(job[r].op))
    /\ UNCHANGED books

(* Created by another request since it was looked for: the unique key.       *)
CreateSingle(r) ==
    LET s == job[r].of IN
    /\ pc[r] = "create single"
    /\ IF content[s] # "absent" THEN Leave(r, "failed")
       ELSE WriteSingle(r, s, "default", After(job[r].op)) /\ UNCHANGED books

UpdateSingle(r) ==
    /\ pc[r] = "update single"
    /\ WriteSingle(r, job[r].of, "edited", "audit") /\ Change(job[r].of)

(***************************************************************************)
(* prisma/seed.ts: the singletons, then packages, FAQs and sponsors, each  *)
(* looked for by name.  It logs nothing.                                   *)
(***************************************************************************)
Seeding(r) == pc[r] \in {"seed single", "seed find", "seed update", "seed create"}

Seed(r) ==
    /\ Begin(r, [NoJob EXCEPT !.op = "seed"], "seed single")
    /\ overlapped' = (overlapped \/ \E q \in Reqs : Seeding(q))
    /\ UNCHANGED <<item, content, books, tracked>>

Advance(r, list, here, next) ==
    IF job[r].step = Len(list)
    THEN Goto(r, next, [job[r] EXCEPT !.step = 1])
    ELSE Goto(r, here, [job[r] EXCEPT !.step = @ + 1])

(* upsert, one statement.                                                    *)
SeedSingle(r) ==
    /\ pc[r] = "seed single"
    /\ content' = [content EXCEPT ![SeedSingles[job[r].step]] = "seeded"]
    /\ Advance(r, SeedSingles, "seed single", "seed find")
    /\ UNCHANGED <<workload, item, books, tracked, overlapped, begun>>

Named(n) == {i \in Items : Exists(i) /\ KindOf[i] = n.kind /\ item[i].name = n.name}

(* Mutant: nothing is looked for.                                            *)
SeedWithoutLooking(r) ==
    /\ pc[r] = "seed find" /\ Goto(r, "seed create", job[r])
    /\ UNCHANGED <<workload, item, content, books, tracked, overlapped, begun>>

SeedFind(r) ==
    LET found == Named(SeedRows[job[r].step]) IN
    /\ pc[r] = "seed find"
    /\ \/ found = {} /\ Goto(r, "seed create", job[r])
       \/ \E i \in found : Goto(r, "seed update", [job[r] EXCEPT !.of = i])
    /\ UNCHANGED <<workload, item, content, books, tracked, overlapped, begun>>

SeedUpdate(r) ==
    /\ pc[r] = "seed update"
    /\ \/ ~Exists(job[r].of) /\ Leave(r, "failed")
       \/ /\ Exists(job[r].of) /\ Advance(r, SeedRows, "seed find", "idle")
          /\ UNCHANGED <<workload, item, content, books, tracked, overlapped, begun>>

SeedCreate(r, i) ==
    LET n == SeedRows[job[r].step] IN
    /\ pc[r] = "seed create"
    /\ KindOf[i] = n.kind /\ item[i].state = "absent"
    /\ item' = [item EXCEPT ![i] = [NoRow EXCEPT !.state = "there", !.name = n.name,
                                                 !.by = "seed"]]
    /\ Advance(r, SeedRows, "seed find", "idle")
    /\ UNCHANGED <<workload, content, books, tracked, overlapped, begun>>

(* A statement fails, or the process dies: what was written stays.           *)
Fail(r) ==
    /\ pc[r] \notin Answered /\ Goto(r, "failed", NoJob)
    /\ unlogged' = IF pc[r] = "audit"
                   THEN [unlogged EXCEPT ![job[r].of] = @ + 1] ELSE unlogged
    /\ UNCHANGED <<workload, item, content, changes, logged, tracked, overlapped, begun>>

AdminRequest(r) ==
    \/ updateSiteSettings(r) \/ updateHomepage(r) \/ updateRules(r)
    \/ \E i \in Items :
         \/ \E n \in Names :
              \/ createFaq(r, i, n) \/ createSponsor(r, i, n) \/ createCoinPackage(r, i, n)
              \/ updateFaq(r, i, n) \/ updateSponsor(r, i, n) \/ updateCoinPackage(r, i, n)
         \/ \E d \in Dtos : createAd(r, i, d) \/ updateAd(r, i, d)
         \/ updateContactMessageStatus(r, i)
         \/ deleteFaq(r, i) \/ deleteSponsor(r, i) \/ deleteCoinPackage(r, i)
         \/ deleteAd(r, i)

PublicRequest(r) ==
    \/ getSiteSettings(r) \/ getHomepage(r) \/ getRules(r)
    \/ \E i \in Items :
         createContactMessage(r, i) \/ trackClick(r, i) \/ trackImpression(r, i)

Proceed(r) ==
    \/ UpdateRow(r) \/ DeleteRow(r) \/ Audit(r) \/ Increment(r)
    \/ CreateSingle(r) \/ UpdateSingle(r)
    \/ SeedSingle(r) \/ SeedFind(r) \/ SeedUpdate(r)
    \/ \E i \in Items : SeedCreate(r, i)

Next == \E r \in Reqs : AdminRequest(r) \/ PublicRequest(r) \/ Seed(r) \/ Proceed(r) \/ Fail(r)

Spec == Init /\ [][Next]_vars

(***************************************************************************)
(* Properties.                                                             *)
(***************************************************************************)
Link == [type: DestinationTypes \cup {None}, value: Values \cup {None},
         target: Values \cup {None}, whatsapp: Values \cup {None},
         social: Values \cup {None}]

Row == [state: {"absent", "there", "gone"}, name: Names \cup {None},
        by: {"admin", "seed", None}, link: Link, clicks: Nat, impressions: Nat]

TypeOK ==
    /\ workload \in Workloads
    /\ item \in [Items -> Row]
    /\ content \in [Singles -> {"absent", "default", "edited", "seeded"}]
    /\ changes \in [Things -> Nat] /\ logged \in [Things -> Nat]
    /\ unlogged \in [Things -> Nat]
    /\ tracked \in [Items -> [Counters -> Nat]]
    /\ overlapped \in BOOLEAN /\ begun \in 0..MaxRequests
    /\ pc \in [Reqs -> Answered \cup {"update", "delete", "audit", "count",
                 "create single", "update single",
                 "seed single", "seed find", "seed update", "seed create"}]

(* The log has one row for each change an administrator made, no more and no *)
(* fewer, once requests are answered; only a request that died between its   *)
(* change and its log leaves a change without one.                           *)
AuditsFollow ==
    \A x \in Things :
        changes[x] = logged[x] + unlogged[x]
                     + Cardinality({r \in Reqs : pc[r] = "audit" /\ job[r].of = x})

(* An ad shows every click and impression that was answered, whatever        *)
(* requests count at once and whatever is edited meanwhile.                  *)
CountsExact ==
    \A i \in Items, c \in Counters : Exists(i) => item[i][c] = tracked[i][c]

Readings(v) == {resolveDestinationUrl(t, v) : t \in DestinationTypes}

(* A click on an ad opens what its destination says, in one of the readings  *)
(* of its type, whichever fields were sent and left out by the creation and  *)
(* the partial updates, if the destination has a reading as every type.  One *)
(* that has not, blank or without a digit, is stored beside the old target.  *)
TargetFollowsValue ==
    \A i \in Items :
        LET l == item[i].link IN
        l.value # None /\ None \notin Readings(l.value) => l.target \in Readings(l.value)

(* Running the seed again adds no second row of a name, unless two runs      *)
(* overlap: it may be run at every deployment.                               *)
SeededOnce ==
    ~overlapped =>
        \A k \in 1..Len(SeedRows) :
            Cardinality({i \in Named(SeedRows[k]) : item[i].by = "seed"}) <= 1

(* What an administrator wrote in a singleton is replaced by another edit or *)
(* by the seed, never by the defaults of a first reader.                     *)
EditsSurvive ==
    [][\A s \in Singles :
         content[s] = "edited" => content'[s] \in {"edited", "seeded"}]_vars
=============================================================================
