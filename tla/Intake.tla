-------------------------------- MODULE Intake --------------------------------
(***************************************************************************)
(* What the public sends before an administrator sees it: calls of the     *)
(* rate-limited voting routes, and uploaded files.                         *)
(*                                                                         *)
(* The rate limit is a map in the memory of the server process, from a key *)
(* to the times of the recent requests that have it.  The key is what the  *)
(* x-forwarded-for header names first, and the address of the connection   *)
(* only if it names nothing: an address may come under several keys, and   *)
(* several addresses under one.  Here a request that was let through is an *)
(* index of passed[k], which has its time and its address, and recent[k]   *)
(* is the list the map holds, as a set of indices.  A turned-away request  *)
(* changes nothing: the guard throws before it stores the list.            *)
(*                                                                         *)
(* An upload is received by multer (in memory, or as a temporary file for  *)
(* videos), checked again by UploadsService, streamed to Cloudinary, and,  *)
(* for a payment proof, attached to a payment intent.  A refused upload    *)
(* changes nothing.  A restart of the process drops the map and every      *)
(* request in flight, and leaves the temporary files.                      *)
(***************************************************************************)
EXTENDS Integers, Sequences, FiniteSets

CONSTANTS
    Addresses,     \* of connections, request.ip
    Forwarded,     \* what x-forwarded-for may name first, an address or not
    Senders,       \* bound: the address and header of the requests that come
    Window, Limit, \* the rate limit: 60 000 ms and 12 requests in the code
    Reqs, Payments, Assets,
    Files,         \* what clients upload: [type, ext, size]
    MaxSize,       \* the size limit of each kind of upload
    None,
    Traffic,       \* bound: the kinds of calls that come together in a behaviour
    MaxNow,        \* bound on the clock
    MaxSpilled,    \* bound on unlinks that fail
    MaxRestarts    \* bound on restarts of the process

Types == {"jpg", "gif", "mp4", "pdf"}

Kinds == {"video", "image", "registration", "proof"}

(* Of PublicVoteRateLimitGuard.requests.                                     *)
Keys == Addresses \cup Forwarded \cup {"unknown"}

ASSUME IntakeAssumption ==
    /\ IsFiniteSet(Addresses) /\ IsFiniteSet(Forwarded)
    /\ None \notin Addresses \cup Forwarded
    /\ Senders \subseteq (Addresses \cup {None}) \X (Forwarded \cup {None})
    /\ Window \in Nat \ {0} /\ Limit \in Nat
    /\ IsFiniteSet(Reqs)
    /\ Files \subseteq [type: Types, ext: {"image", "other"}, size: Nat]
    /\ MaxSize \in [Kinds -> Nat]
    /\ None \notin Payments \cup Assets /\ None \notin Files /\ None \notin Kinds
    /\ None \notin [of: Kinds, type: Types]
    /\ Traffic \subseteq SUBSET {"votes", "uploads"}
    /\ MaxNow \in Nat /\ MaxSpilled \in Nat /\ MaxRestarts \in Nat

VARIABLES
    traffic,    \* which calls clients make in this behaviour
    now,        \* the clock
    recent,     \* PublicVoteRateLimitGuard.requests
    passed,     \* the requests let through since a restart (history)
    configured, \* the process has Cloudinary's credentials
    open,       \* payment intents that are not yet submitted
    proof,      \* ManualVotePayment.proofPublicId
    stored,     \* Cloudinary's assets: what each one is
    temporary,  \* number of temporary files on the server's disk
    pc,         \* where each upload is
    kind, file, pay,
    got,        \* the asset an upload was answered with by Cloudinary
    vouched,    \* assets a client was told are the proof of its payment (history)
    wasted,     \* proof assets replaced, or whose upload failed later (history)
    spilled,    \* temporary files a restart or a failed unlink left (history)
    restarts

limiter == <<now, recent, passed>>
regs == <<kind, file, pay, got>>
disk == <<temporary, spilled>>
cloud == <<proof, stored, vouched, wasted>>
vars == <<traffic, limiter, configured, open, cloud, disk, pc, regs, restarts>>

Init ==
    /\ traffic \in Traffic
    /\ now = 0
    /\ recent = [k \in Keys |-> {}]
    /\ passed = [k \in Keys |-> <<>>]
    /\ configured \in BOOLEAN
    /\ open = Payments
    /\ proof = [p \in Payments |-> None]
    /\ stored = [a \in Assets |-> None]
    /\ temporary = 0
    /\ pc = [r \in Reqs |-> "idle"]
    /\ kind = [r \in Reqs |-> None]
    /\ file = [r \in Reqs |-> None]
    /\ pay = [r \in Reqs |-> None]
    /\ got = [r \in Reqs |-> None]
    /\ vouched = {} /\ wasted = {}
    /\ spilled = 0
    /\ restarts = 0

(***************************************************************************)
(* The rate limit of POST /public-votes, /intents and /submit.             *)
(***************************************************************************)
(* The header without a first element, or an address unknown, is None.       *)
KeyOf(address, header) ==
    IF header # None THEN header ELSE IF address # None THEN address ELSE "unknown"

(* Mutant: the list drops a request as soon as another time unit begins.     *)
KeptThisInstant(k) == {i \in recent[k] : now - passed[k][i].at < 1}

Kept(k) == {i \in recent[k] : now - passed[k][i].at < Window}

Admit(address, header) ==
    LET k == KeyOf(address, header) IN
    /\ "votes" \in traffic
    /\ Cardinality(Kept(k)) < Limit
    /\ passed' = [passed EXCEPT ![k] = Append(@, [at |-> now, from |-> address])]
    /\ recent' = [recent EXCEPT ![k] = Kept(k) \cup {Len(passed[k]) + 1}]
    /\ UNCHANGED <<traffic, now, configured, open, cloud, disk, pc, regs,
                   restarts>>

Tick ==
    /\ "votes" \in traffic
    /\ now < MaxNow
    /\ now' = now + 1
    /\ UNCHANGED <<traffic, recent, passed, configured, open, cloud, disk, pc,
                   regs, restarts>>

(***************************************************************************)
(* Receiving a file: authorization, multer's filter and size limit.        *)
(***************************************************************************)
Goto(r, loc) == pc' = [pc EXCEPT ![r] = loc]

Finish(r) ==
    /\ Goto(r, "idle")
    /\ kind' = [kind EXCEPT ![r] = None]
    /\ file' = [file EXCEPT ![r] = None]
    /\ pay' = [pay EXCEPT ![r] = None]
    /\ got' = [got EXCEPT ![r] = None]

(* Mutant: any image type, as for the images of administrators.              *)
IsAnyImage(f) == f.type \in {"jpg", "gif"} /\ f.ext = "image"

(* A JPG, PNG or WebP: the declared type and the extension of the name.      *)
IsPicture(f) == f.type = "jpg" /\ f.ext = "image"

Fits(k, f) == f.size <= MaxSize[k]

RegistrationImageFits(f) == Fits("registration", f)

PaymentProofFits(f) == Fits("proof", f)

MayUploadVideo(role) == role \in {"ADMIN", "SUPER_ADMIN"}

Receive(r, k, f, loc) ==
    /\ "uploads" \in traffic
    /\ pc[r] = "idle"
    /\ Goto(r, loc)
    /\ kind' = [kind EXCEPT ![r] = k]
    /\ file' = [file EXCEPT ![r] = f]
    /\ UNCHANGED <<traffic, limiter, configured, open, cloud, spilled, got,
                   restarts>>

(* The only upload that multer writes to disk.                               *)
UploadVideo(r, role, f) ==
    /\ MayUploadVideo(role)
    /\ Receive(r, "video", f, "receiving")
    /\ temporary' = temporary + 1
    /\ UNCHANGED pay

ReceiveVideo(r) ==
    /\ pc[r] = "receiving" /\ Fits("video", file[r])
    /\ Goto(r, "validate")
    /\ UNCHANGED <<traffic, limiter, configured, open, cloud, disk, regs,
                   restarts>>

(* multer removes what it has written of a file that is too large.           *)
VideoTooLarge(r) ==
    /\ pc[r] = "receiving" /\ ~Fits("video", file[r])
    /\ temporary' = temporary - 1
    /\ Finish(r)
    /\ UNCHANGED <<traffic, limiter, configured, open, cloud, spilled,
                   restarts>>

UploadImage(r, f) ==
    /\ Fits("image", f)
    /\ Receive(r, "image", f, "validate")
    /\ UNCHANGED <<pay, temporary>>

UploadRegistrationImage(r, f) ==
    /\ IsPicture(f) /\ RegistrationImageFits(f)
    /\ Receive(r, "registration", f, "validate")
    /\ UNCHANGED <<pay, temporary>>

(* Mutant: a proof without a payment reference is accepted.                  *)
UploadUnreferencedProof(r, f, p) ==
    /\ IsPicture(f) /\ PaymentProofFits(f)
    /\ Receive(r, "proof", f, "validate")
    /\ pay' = [pay EXCEPT ![r] = "undefined"]
    /\ UNCHANGED temporary

UploadPaymentProof(r, f, p) ==
    /\ IsPicture(f) /\ PaymentProofFits(f)
    /\ Receive(r, "proof", f, "validate")
    /\ pay' = [pay EXCEPT ![r] = p]
    /\ UNCHANGED temporary

(***************************************************************************)
(* UploadsService.  Whatever happens in its try block, the finally block   *)
(* runs next: "clean".                                                     *)
(***************************************************************************)
IsValidUpload(k, f) == f.type \in (IF k = "video" THEN {"mp4"} ELSE {"jpg", "gif"})

IsValidProof(f) == IsPicture(f)

IsValidRegistrationImage(f) == IsPicture(f)

IsValid(k, f) ==
    CASE k = "proof" -> IsValidProof(f)
      [] k = "registration" -> IsValidRegistrationImage(f)
      [] OTHER -> IsValidUpload(k, f)

IsConfigured == configured

(* Mutant: a file of the wrong type is refused before the try block.         *)
ValidateBeforeTry(r) ==
    /\ pc[r] = "validate"
    /\ IF IsValid(kind[r], file[r])
       THEN Goto(r, IF IsConfigured THEN "stream" ELSE "clean") /\ UNCHANGED regs
       ELSE Finish(r)
    /\ UNCHANGED <<traffic, limiter, configured, open, cloud, disk, restarts>>

Validate(r) ==
    /\ pc[r] = "validate"
    /\ Goto(r, IF IsValid(kind[r], file[r]) /\ IsConfigured
               THEN "stream" ELSE "clean")
    /\ UNCHANGED <<traffic, limiter, configured, open, cloud, disk, regs,
                   restarts>>

(* Cloudinary stores the file and answers with its address.                  *)
StreamStored(r, a) ==
    /\ pc[r] = "stream" /\ stored[a] = None
    /\ stored' = [stored EXCEPT ![a] = [of |-> kind[r], type |-> file[r].type]]
    /\ got' = [got EXCEPT ![r] = a]
    /\ Goto(r, "clean")
    /\ UNCHANGED <<traffic, limiter, configured, open, proof, vouched, wasted,
                   disk, kind, file, pay, restarts>>

(* Cloudinary reports an error, or answers without an address though it may  *)
(* have stored the file.                                                     *)
StreamFailed(r, a) ==
    /\ pc[r] = "stream" /\ stored[a] = None
    /\ \/ UNCHANGED <<stored, wasted>>
       \/ /\ stored' = [stored EXCEPT ![a] = [of |-> kind[r], type |-> file[r].type]]
          /\ wasted' = IF kind[r] = "proof" THEN wasted \cup {a} ELSE wasted
    /\ Goto(r, "clean")
    /\ UNCHANGED <<traffic, limiter, configured, open, proof, vouched, disk,
                   regs, restarts>>

(* The finally block of upload, then the answer; its failure is only logged. *)
Clean(r) ==
    /\ pc[r] = "clean" /\ kind[r] \in {"video", "image"}
    /\ \/ kind[r] = "image" /\ UNCHANGED disk
       \/ kind[r] = "video" /\ temporary' = temporary - 1 /\ UNCHANGED spilled
       \/ /\ kind[r] = "video" /\ spilled < MaxSpilled
          /\ spilled' = spilled + 1 /\ UNCHANGED temporary
    /\ Finish(r)
    /\ UNCHANGED <<traffic, limiter, configured, open, cloud, restarts>>

(* The other two kinds have no temporary file.                               *)
AnswerRegistrationImage(r) ==
    /\ pc[r] = "clean" /\ kind[r] = "registration"
    /\ Finish(r)
    /\ UNCHANGED <<traffic, limiter, configured, open, cloud, disk, restarts>>

AnswerPaymentProof(r) ==
    /\ pc[r] = "clean" /\ kind[r] = "proof"
    /\ IF got[r] # None THEN Goto(r, "attach") /\ UNCHANGED regs ELSE Finish(r)
    /\ UNCHANGED <<traffic, limiter, configured, open, cloud, disk, restarts>>

(***************************************************************************)
(* The upload becomes the proof of a payment intent: attachProof checks    *)
(* that the intent is open, and writes without looking again.              *)
(***************************************************************************)
Attach(r) ==
    /\ pc[r] = "attach"
    /\ IF pay[r] \in open
       THEN Goto(r, "write") /\ UNCHANGED <<regs, wasted>>
       ELSE Finish(r) /\ wasted' = wasted \cup {got[r]}
    /\ UNCHANGED <<traffic, limiter, configured, open, proof, stored, vouched,
                   disk, restarts>>

(* Mutant: an intent that already has a proof keeps the first one.           *)
StoreFirstProof(r) ==
    LET old == proof[pay[r]] IN
    /\ pc[r] = "write"
    /\ proof' = [proof EXCEPT ![pay[r]] = IF old = None THEN got[r] ELSE old]
    /\ vouched' = vouched \cup {got[r]}
    /\ Finish(r)
    /\ UNCHANGED <<traffic, limiter, configured, open, stored, wasted, disk,
                   restarts>>

StoreProof(r) ==
    LET old == proof[pay[r]] IN
    /\ pc[r] = "write"
    /\ proof' = [proof EXCEPT ![pay[r]] = got[r]]
    /\ wasted' = IF old = None THEN wasted ELSE wasted \cup {old}
    /\ vouched' = vouched \cup {got[r]}
    /\ Finish(r)
    /\ UNCHANGED <<traffic, limiter, configured, open, stored, disk, restarts>>

(* The database refuses or loses the write.                                  *)
StoreFails(r) ==
    /\ pc[r] = "write"
    /\ wasted' = wasted \cup {got[r]}
    /\ Finish(r)
    /\ UNCHANGED <<traffic, limiter, configured, open, proof, stored, vouched,
                   disk, restarts>>

(* The intent is submitted, which its proof allows, or expires.              *)
CloseIntent(p) ==
    /\ "uploads" \in traffic
    /\ p \in open
    /\ open' = open \ {p}
    /\ UNCHANGED <<traffic, limiter, configured, cloud, disk, pc, regs,
                   restarts>>

(* The server process ends and starts again.                                 *)
Restart ==
    /\ restarts < MaxRestarts
    /\ restarts' = restarts + 1
    /\ recent' = [k \in Keys |-> {}]
    /\ passed' = [k \in Keys |-> <<>>]
    /\ pc' = [r \in Reqs |-> "idle"]
    /\ kind' = [r \in Reqs |-> None]
    /\ file' = [r \in Reqs |-> None]
    /\ pay' = [r \in Reqs |-> None]
    /\ got' = [r \in Reqs |-> None]
    /\ spilled' = temporary
    /\ wasted' = wasted \cup {a \in Assets : \E r \in Reqs : kind[r] = "proof" /\ got[r] = a}
    /\ UNCHANGED <<traffic, now, configured, open, proof, stored, vouched,
                   temporary>>

Roles == {"USER", "CONTESTANT", "ADMIN", "SUPER_ADMIN"}

Next ==
    \/ Tick
    \/ Restart
    \/ \E s \in Senders : Admit(s[1], s[2])
    \/ \E p \in Payments : CloseIntent(p)
    \/ \E r \in Reqs :
         \/ ReceiveVideo(r) \/ VideoTooLarge(r) \/ Validate(r) \/ Clean(r)
         \/ AnswerRegistrationImage(r) \/ AnswerPaymentProof(r)
         \/ Attach(r) \/ StoreProof(r) \/ StoreFails(r)
         \/ \E a \in Assets : StreamStored(r, a) \/ StreamFailed(r, a)
         \/ \E f \in Files :
              \/ \E role \in Roles : UploadVideo(r, role, f)
              \/ UploadImage(r, f) \/ UploadRegistrationImage(r, f)
              \/ \E p \in Payments : UploadPaymentProof(r, f, p)

Spec == Init /\ [][Next]_vars

(***************************************************************************)
(* Properties.                                                             *)
(***************************************************************************)
Entry == [at: 0..MaxNow, from: Addresses \cup {None}]

TypeOK ==
    /\ traffic \in Traffic
    /\ now \in 0..MaxNow
    /\ passed \in [Keys -> Seq(Entry)]
    /\ recent \in [Keys -> SUBSET Nat]
    /\ configured \in BOOLEAN
    /\ open \subseteq Payments
    /\ proof \in [Payments -> Assets \cup {None}]
    /\ stored \in [Assets -> [of: Kinds, type: Types] \cup {None}]
    /\ temporary \in Int /\ spilled \in Int
    /\ pc \in [Reqs -> {"idle", "receiving", "validate", "stream", "clean",
                       "attach", "write"}]
    /\ kind \in [Reqs -> Kinds \cup {None}]
    /\ file \in [Reqs -> Files \cup {None}]
    /\ pay \in [Reqs -> Payments \cup {None}]
    /\ got \in [Reqs -> Assets \cup {None}]
    /\ vouched \subseteq Assets /\ wasted \subseteq Assets
    /\ restarts \in 0..MaxRestarts

(* The requests under a key that the last Window has let through.            *)
InWindow(k) == {i \in DOMAIN passed[k] : now - passed[k][i].at < Window}

(* Those of one address, whatever their keys, and the keys they had.         *)
InWindowFrom(a) == {p \in UNION {{k} \X InWindow(k) : k \in Keys} :
                      passed[p[1]][p[2]].from = a}

KeysFrom(a) == {k \in Keys : \E i \in InWindow(k) : passed[k][i].from = a}

(* While the process lives, no Window lets more than Limit requests through  *)
(* under one key, although the guard forgets, at each request, the ones it   *)
(* finds too old.  An address is held to the limit once for each key it has  *)
(* used: the limit "per-IP" of docs/FRONTEND_API_REFERENCE.md is what this   *)
(* says of an address whose requests have one key.                           *)
RateBounded ==
    /\ \A k \in Keys : Cardinality(InWindow(k)) <= Limit
    /\ \A a \in Addresses :
         Cardinality(InWindowFrom(a)) <= Limit * Cardinality(KeysFrom(a))

(* Every temporary file belongs to a video upload in flight, or was left by  *)
(* a restart or by an unlink that failed: no refusal, missing configuration  *)
(* or failure of Cloudinary leaves one (the finally block of upload).        *)
TemporaryFilesRemoved ==
    temporary = Cardinality({r \in Reqs : kind[r] = "video"}) + spilled

(* An asset uploaded as a proof is in exactly one place: the proof of one    *)
(* payment, held by one upload in flight, or known to be of no use (its      *)
(* upload failed after Cloudinary stored it, or another proof replaced it).  *)
ProofsAccounted ==
    \A a \in Assets :
        LET payments == {p \in Payments : proof[p] = a}
            uploads == {r \in Reqs : kind[r] = "proof" /\ got[r] = a}
            places == Cardinality(payments) + Cardinality(uploads)
                        + (IF a \in wasted THEN 1 ELSE 0)
        IN places = IF stored[a] # None /\ stored[a].of = "proof" THEN 1 ELSE 0

(* A client told that its upload is the proof of its payment was told the    *)
(* truth: the asset is the proof, or a later one has replaced it.  And what  *)
(* an administrator is shown as a proof was stored as a picture, whatever    *)
(* kinds of uploads, restarts and failures happened around it.               *)
ProofsAsTold ==
    /\ \A a \in vouched : a \in wasted \/ \E p \in Payments : proof[p] = a
    /\ \A p \in Payments : proof[p] # None =>
         /\ stored[proof[p]] = [of |-> "proof", type |-> "jpg"]
         /\ proof[p] \in vouched
=============================================================================
