----------------------------- MODULE IntakeProofs -----------------------------
(***************************************************************************)
(* Proofs about Intake, for any number of addresses, uploads, payments and *)
(* assets, any window and limit.                                           *)
(***************************************************************************)
EXTENDS Intake, FiniteSetTheorems, TLAPS

(* The list of a key holds every request of the last Window.                 *)
RecentComplete ==
    \A k \in Keys : \A i \in DOMAIN passed[k] :
        /\ passed[k][i].at <= now
        /\ now - passed[k][i].at < Window => i \in recent[k]

(* The first conjunct of RateBounded.                                        *)
KeysBounded == \A k \in Keys : Cardinality(InWindow(k)) <= Limit

(* Indices are those of requests that were let through.                      *)
RecentPassed == \A k \in Keys : recent[k] \subseteq 1..Len(passed[k])

(* What an upload in flight holds.                                           *)
UploadsHold ==
    \A r \in Reqs :
        /\ pc[r] \notin {"idle"} => kind[r] # None /\ file[r] # None
        /\ pc[r] \in {"attach", "write"} => got[r] # None /\ kind[r] = "proof"
        /\ kind[r] = "proof" => pay[r] # None /\ IsPicture(file[r])
        /\ got[r] # None => stored[got[r]] = [of |-> kind[r], type |-> file[r].type]
        /\ got[r] # None => pc[r] \in {"clean", "attach", "write"}

(* Only a request in flight has a kind, and multer receives only videos in   *)
(* steps of their own.                                                       *)
KindsOK ==
    \A r \in Reqs :
        /\ pc[r] = "idle" => kind[r] = None
        /\ pc[r] = "receiving" => kind[r] = "video"

Videos == {r \in Reqs : kind[r] = "video"}

HoldsProof(r, a) == kind[r] = "proof" /\ got[r] = a

StoredAsProof(a) == stored[a] # None /\ stored[a].of = "proof"

(* Where an asset is: at one payment at most, in the hands of one upload at  *)
(* most, or of no use, never two of these; and somewhere exactly if it was   *)
(* stored as a proof.                                                        *)
OnePlace(a) ==
    /\ \A p, q \in Payments : proof[p] = a /\ proof[q] = a => p = q
    /\ \A r, s \in Reqs : HoldsProof(r, a) /\ HoldsProof(s, a) => r = s
    /\ \A p \in Payments, r \in Reqs : ~ (proof[p] = a /\ HoldsProof(r, a))
    /\ a \in wasted => /\ \A p \in Payments : proof[p] # a
                       /\ \A r \in Reqs : ~ HoldsProof(r, a)
    /\ StoredAsProof(a) <=> \/ a \in wasted
                            \/ \E p \in Payments : proof[p] = a
                            \/ \E r \in Reqs : HoldsProof(r, a)

ProofsPlaced == \A a \in Assets : OnePlace(a)

(***************************************************************************)
(* Types.                                                                  *)
(***************************************************************************)
LEMMA InitTypeOK == Init => TypeOK
  BY IntakeAssumption DEF Init, TypeOK, IntakeAssumption

(* What an upload and its answer leave of the request's registers.           *)
Registers(p, k, f, y, g) ==
    /\ p \in [Reqs -> {"idle", "receiving", "validate", "stream", "clean", "attach", "write"}]
    /\ k \in [Reqs -> Kinds \cup {None}]
    /\ f \in [Reqs -> Files \cup {None}]
    /\ y \in [Reqs -> Payments \cup {None}]
    /\ g \in [Reqs -> Assets \cup {None}]

LEMMA FinishRegisters ==
  ASSUME TypeOK, NEW r \in Reqs, Finish(r)
  PROVE  Registers(pc', kind', file', pay', got')
  BY DEF TypeOK, Finish, Goto, Registers

LEMMA GotoRegisters ==
  ASSUME TypeOK, NEW r \in Reqs, UNCHANGED regs,
         NEW loc \in {"validate", "stream", "clean", "attach", "write"}, Goto(r, loc)
  PROVE  Registers(pc', kind', file', pay', got')
  BY DEF TypeOK, Goto, Registers, regs

LEMMA ReceiveRegisters ==
  ASSUME TypeOK, NEW r \in Reqs, NEW k \in Kinds, NEW f \in Files,
         NEW loc \in {"receiving", "validate"}, Receive(r, k, f, loc),
         pay' \in [Reqs -> Payments \cup {None}]
  PROVE  Registers(pc', kind', file', pay', got')
  BY DEF TypeOK, Receive, Goto, Registers

LEMMA SendersAre ==
  \A s \in Senders : s[1] \in Addresses \cup {None} /\ s[2] \in Forwarded \cup {None}
  BY IntakeAssumption DEF IntakeAssumption

LEMMA KeysAre ==
  ASSUME NEW a \in Addresses \cup {None}, NEW h \in Forwarded \cup {None}
  PROVE  KeyOf(a, h) \in Keys
  BY DEF KeyOf, Keys

(* What letting a request through adds.                                      *)
LEMMA Appended ==
  ASSUME now \in 0..MaxNow, passed \in [Keys -> Seq(Entry)],
         NEW a \in Addresses \cup {None}, NEW h \in Forwarded \cup {None}, Admit(a, h)
  PROVE  LET k == KeyOf(a, h)
         IN /\ k \in Keys /\ passed' \in [Keys -> Seq(Entry)]
            /\ passed'[k] = Append(passed[k], [at |-> now, from |-> a])
            /\ \A q \in Keys \ {k} : passed'[q] = passed[q]
<1> DEFINE k == KeyOf(a, h)
           e == [at |-> now, from |-> a]
<1>1. k \in Keys /\ e \in Entry
  BY KeysAre DEF Entry
<1>2. passed' = [passed EXCEPT ![k] = Append(@, e)]
  BY DEF Admit
<1> HIDE DEF k, e
<1>3. Append(passed[k], e) \in Seq(Entry)
  BY <1>1
<1> QED BY <1>1, <1>2, <1>3 DEF k, e

LEMMA TypeOKStep == TypeOK /\ UploadsHold /\ [Next]_vars => TypeOK'
<1> SUFFICES ASSUME TypeOK, UploadsHold, [Next]_vars PROVE TypeOK'
  OBVIOUS
<1> USE IntakeAssumption DEF IntakeAssumption, limiter, disk, cloud
<1>1. CASE Tick
  BY <1>1 DEF Tick, TypeOK, regs
<1>2. CASE Restart
  <2>1. wasted' \subseteq Assets
    BY <1>2 DEF Restart, TypeOK
  <2>2. Registers(pc', kind', file', pay', got')
    BY <1>2 DEF Restart, Registers
  <2>3. /\ restarts' \in 0..MaxRestarts /\ passed' \in [Keys -> Seq(Entry)]
        /\ recent' \in [Keys -> SUBSET Nat] /\ spilled' \in Int
    BY <1>2 DEF Restart, TypeOK
  <2> QED
    BY <1>2, <2>1, <2>2, <2>3 DEF Restart, TypeOK, Registers
<1>3. ASSUME NEW a \in Addresses \cup {None}, NEW h \in Forwarded \cup {None}, Admit(a, h)
      PROVE  TypeOK'
  <2>1. KeyOf(a, h) \in Keys
    BY KeysAre
  <2>2. recent' \in [Keys -> SUBSET Nat]
    BY <1>3, <2>1 DEF Admit, Kept, TypeOK
  <2>3. passed' \in [Keys -> Seq(Entry)]
    BY <1>3, <2>1, Appended DEF TypeOK
  <2> QED
    BY <1>3, <2>2, <2>3 DEF Admit, TypeOK, regs
<1>4. ASSUME NEW p \in Payments, CloseIntent(p) PROVE TypeOK'
  BY <1>4 DEF CloseIntent, TypeOK, regs
<1>5. ASSUME NEW r \in Reqs, ReceiveVideo(r) PROVE TypeOK'
  BY <1>5, GotoRegisters DEF ReceiveVideo, TypeOK, Registers, regs
<1>6. ASSUME NEW r \in Reqs, VideoTooLarge(r) PROVE TypeOK'
  BY <1>6, FinishRegisters DEF VideoTooLarge, TypeOK, Registers
<1>7. ASSUME NEW r \in Reqs, Validate(r) PROVE TypeOK'
  BY <1>7, GotoRegisters DEF Validate, TypeOK, Registers, regs
<1>8. ASSUME NEW r \in Reqs, Clean(r) \/ AnswerRegistrationImage(r) \/ AnswerPaymentProof(r)
      PROVE  TypeOK'
  <2>1. Registers(pc', kind', file', pay', got')
    BY <1>8, GotoRegisters, FinishRegisters
    DEF Clean, AnswerRegistrationImage, AnswerPaymentProof
  <2>2. temporary' \in Int /\ spilled' \in Int
    BY <1>8 DEF Clean, AnswerRegistrationImage, AnswerPaymentProof, TypeOK
  <2> QED
    BY <1>8, <2>1, <2>2
    DEF Clean, AnswerRegistrationImage, AnswerPaymentProof, TypeOK, Registers
<1>9. ASSUME NEW r \in Reqs, Attach(r) PROVE TypeOK'
  <2>1. Registers(pc', kind', file', pay', got')
    BY <1>9, GotoRegisters, FinishRegisters DEF Attach
  <2>2. got[r] \in Assets
    BY <1>9 DEF Attach, TypeOK, UploadsHold
  <2>3. wasted' \subseteq Assets
    BY <1>9, <2>2 DEF Attach, TypeOK
  <2> QED
    BY <1>9, <2>1, <2>3 DEF Attach, TypeOK, Registers
<1>10. ASSUME NEW r \in Reqs, StoreProof(r) \/ StoreFails(r) PROVE TypeOK'
  <2>1. Registers(pc', kind', file', pay', got')
    BY <1>10, FinishRegisters DEF StoreProof, StoreFails
  <2>2. got[r] \in Assets
    BY <1>10 DEF StoreProof, StoreFails, TypeOK, UploadsHold
  <2>3. proof' \in [Payments -> Assets \cup {None}]
    <3>1. proof' = [proof EXCEPT ![pay[r]] = got[r]] \/ proof' = proof
      BY <1>10 DEF StoreProof, StoreFails
    <3>2. proof \in [Payments -> Assets \cup {None}]
      BY DEF TypeOK
    <3> QED BY <2>2, <3>1, <3>2
  <2>4. wasted' \subseteq Assets /\ vouched' \subseteq Assets
    <3>1. CASE StoreProof(r)
      <4>1. pay[r] \in Payments
        BY <3>1 DEF StoreProof, TypeOK, UploadsHold
      <4> QED
        BY <3>1, <2>2, <4>1 DEF StoreProof, TypeOK
    <3>2. CASE StoreFails(r)
      BY <3>2, <2>2 DEF StoreFails, TypeOK
    <3> QED
      BY <1>10, <3>1, <3>2
  <2> QED
    BY <1>10, <2>1, <2>3, <2>4 DEF StoreProof, StoreFails, TypeOK, Registers
<1>11. ASSUME NEW r \in Reqs, NEW a \in Assets, StreamStored(r, a) \/ StreamFailed(r, a)
       PROVE  TypeOK'
  <2>1. [of |-> kind[r], type |-> file[r].type] \in [of: Kinds, type: Types]
    <3>1. pc[r] = "stream" /\ kind[r] \in Kinds /\ file[r] \in Files
      BY <1>11 DEF StreamStored, StreamFailed, TypeOK, UploadsHold
    <3>2. file[r].type \in Types
      BY <3>1
    <3> QED
      BY <3>1, <3>2
  <2>2. stored' \in [Assets -> [of: Kinds, type: Types] \cup {None}]
    <3>1. stored \in [Assets -> [of: Kinds, type: Types] \cup {None}]
      BY DEF TypeOK
    <3>2. \/ stored' = stored
          \/ stored' = [stored EXCEPT ![a] = [of |-> kind[r], type |-> file[r].type]]
      BY <1>11 DEF StreamStored, StreamFailed
    <3> QED
      BY <2>1, <3>1, <3>2
  <2>3. Registers(pc', kind', file', pay', got')
    <3>1. CASE StreamStored(r, a)
      BY <3>1 DEF StreamStored, TypeOK, Registers, Goto
    <3>2. CASE StreamFailed(r, a)
      BY <3>2, GotoRegisters DEF StreamFailed
    <3> QED
      BY <1>11, <3>1, <3>2
  <2>4. wasted' \subseteq Assets
    BY <1>11 DEF StreamStored, StreamFailed, TypeOK
  <2> QED
    BY <1>11, <2>2, <2>3, <2>4 DEF StreamStored, StreamFailed, TypeOK, Registers
<1>12. ASSUME NEW r \in Reqs, NEW f \in Files, NEW role \in Roles, UploadVideo(r, role, f)
       PROVE  TypeOK'
  <2>1. Registers(pc', kind', file', pay', got')
    BY <1>12, ReceiveRegisters DEF UploadVideo, Kinds, TypeOK
  <2> QED
    BY <1>12, <2>1 DEF UploadVideo, Receive, TypeOK, Registers
<1>13. ASSUME NEW r \in Reqs, NEW f \in Files,
              UploadImage(r, f) \/ UploadRegistrationImage(r, f)
       PROVE  TypeOK'
  <2>1. Registers(pc', kind', file', pay', got')
    BY <1>13, ReceiveRegisters DEF UploadImage, UploadRegistrationImage, Kinds, TypeOK
  <2> QED
    BY <1>13, <2>1 DEF UploadImage, UploadRegistrationImage, Receive, TypeOK, Registers
<1>14. ASSUME NEW r \in Reqs, NEW f \in Files, NEW p \in Payments, UploadPaymentProof(r, f, p)
       PROVE  TypeOK'
  <2>1. Registers(pc', kind', file', pay', got')
    BY <1>14, ReceiveRegisters DEF UploadPaymentProof, Kinds, TypeOK
  <2> QED
    BY <1>14, <2>1 DEF UploadPaymentProof, Receive, TypeOK, Registers
<1>15. CASE UNCHANGED vars
  BY <1>15 DEF vars, TypeOK, regs
<1> QED
  BY <1>1, <1>2, <1>3, <1>4, <1>5, <1>6, <1>7, <1>8, <1>9, <1>10, <1>11, <1>12, <1>13,
     <1>14, <1>15, SendersAre DEF Next

(***************************************************************************)
(* The rate limit.                                                         *)
(***************************************************************************)
LEMMA InitLimiter == Init => RecentComplete /\ RecentPassed /\ KeysBounded
<1> SUFFICES ASSUME Init PROVE RecentComplete /\ RecentPassed /\ KeysBounded
  OBVIOUS
<1>1. \A k \in Keys : DOMAIN passed[k] = {}
  BY DEF Init
<1>2. RecentPassed
  BY DEF Init, RecentPassed
<1>3. \A k \in Keys : InWindow(k) = {}
  BY <1>1 DEF InWindow
<1>4. Limit \in Nat /\ Cardinality({}) = 0
  BY FS_EmptySet, IntakeAssumption DEF IntakeAssumption
<1>5. KeysBounded
  BY <1>3, <1>4 DEF KeysBounded
<1> QED
  BY <1>1, <1>2, <1>5 DEF RecentComplete

(* Uploads and payments leave the rate limit alone.                          *)
LEMMA LimiterSteps ==
  ASSUME [Next]_vars
  PROVE  \/ Tick \/ Restart \/ UNCHANGED limiter
         \/ \E a \in Addresses \cup {None}, h \in Forwarded \cup {None} : Admit(a, h)
<1>1. CASE \E s \in Senders : Admit(s[1], s[2])
  BY <1>1, SendersAre
<1>2. CASE ~\E s \in Senders : Admit(s[1], s[2])
  BY <1>2 DEF Next, vars, CloseIntent, ReceiveVideo, VideoTooLarge, Validate, Clean, Attach,
         AnswerRegistrationImage, AnswerPaymentProof, StoreProof, StoreFails, StreamStored,
         StreamFailed, UploadVideo, UploadImage, UploadRegistrationImage, UploadPaymentProof,
         Receive
<1> QED BY <1>1, <1>2

LEMMA RecentCompleteStep == TypeOK /\ RecentComplete /\ [Next]_vars => RecentComplete'
<1> SUFFICES ASSUME TypeOK, RecentComplete, [Next]_vars PROVE RecentComplete'
  OBVIOUS
<1>0. /\ passed \in [Keys -> Seq(Entry)] /\ recent \in [Keys -> SUBSET Nat]
      /\ now \in 0..MaxNow /\ Window \in Nat /\ Window > 0
  BY IntakeAssumption DEF TypeOK, IntakeAssumption
<1>1. CASE Tick
  <2>1. passed' = passed /\ recent' = recent /\ now' = now + 1
    BY <1>1 DEF Tick
  <2> SUFFICES ASSUME NEW k \in Keys, NEW i \in DOMAIN passed'[k]
               PROVE  /\ passed'[k][i].at <= now'
                      /\ now' - passed'[k][i].at < Window => i \in recent'[k]
    BY DEF RecentComplete
  <2>2. passed[k][i] \in Entry /\ passed'[k][i] = passed[k][i]
    BY <1>0, <2>1
  <2>3. passed[k][i].at \in Int /\ now \in Int
    BY <1>0, <2>2 DEF Entry
  <2>4. /\ passed[k][i].at <= now
        /\ now - passed[k][i].at < Window => i \in recent[k]
    BY <2>1 DEF RecentComplete
  <2> QED
    BY <1>0, <2>1, <2>2, <2>3, <2>4
<1>2. CASE Restart
  <2>1. \A k \in Keys : DOMAIN passed'[k] = {}
    BY <1>2 DEF Restart
  <2> QED
    BY <2>1 DEF RecentComplete
<1>3. ASSUME NEW a \in Addresses \cup {None}, NEW h \in Forwarded \cup {None}, Admit(a, h)
      PROVE  RecentComplete'
  <2> DEFINE q == KeyOf(a, h)
  <2>1. /\ q \in Keys /\ passed'[q] = Append(passed[q], [at |-> now, from |-> a])
        /\ \A k \in Keys \ {q} : passed'[k] = passed[k]
    BY <1>0, <1>3, Appended
  <2>2. recent' = [recent EXCEPT ![q] = Kept(q) \cup {Len(passed[q]) + 1}] /\ now' = now
    BY <1>3 DEF Admit
  <2> HIDE DEF q
  <2> SUFFICES ASSUME NEW k \in Keys, NEW i \in DOMAIN passed'[k]
               PROVE  /\ passed'[k][i].at <= now
                      /\ now - passed'[k][i].at < Window => i \in recent'[k]
    BY <2>2 DEF RecentComplete
  <2>3. CASE k # q
    BY <1>0, <2>1, <2>2, <2>3 DEF RecentComplete
  <2>4. CASE k = q /\ i = Len(passed[q]) + 1
    <3>1. passed'[k][i].at = now
      BY <1>0, <2>1, <2>4
    <3> QED
      BY <1>0, <2>1, <2>2, <2>4, <3>1
  <2>5. CASE k = q /\ i # Len(passed[q]) + 1
    <3>1. i \in DOMAIN passed[q] /\ passed'[q][i] = passed[q][i]
      BY <1>0, <2>1, <2>5
    <3>2. recent'[q] = Kept(q) \cup {Len(passed[q]) + 1}
      BY <1>0, <2>1, <2>2
    <3> QED
      BY <2>1, <2>5, <3>1, <3>2 DEF Kept, RecentComplete
  <2> QED
    BY <2>3, <2>4, <2>5
<1>4. CASE UNCHANGED limiter
  BY <1>4 DEF limiter, RecentComplete
<1> QED
  BY <1>1, <1>2, <1>3, <1>4, LimiterSteps

LEMMA RecentPassedStep == TypeOK /\ RecentPassed /\ [Next]_vars => RecentPassed'
<1> SUFFICES ASSUME TypeOK, RecentPassed, [Next]_vars PROVE RecentPassed'
  OBVIOUS
<1>1. /\ passed \in [Keys -> Seq(Entry)] /\ recent \in [Keys -> SUBSET Nat]
      /\ now \in 0..MaxNow
  BY DEF TypeOK
<1>2. CASE Restart
  BY <1>2 DEF Restart, RecentPassed
<1>3. ASSUME NEW a \in Addresses \cup {None}, NEW h \in Forwarded \cup {None}, Admit(a, h)
      PROVE  RecentPassed'
  <2> DEFINE q == KeyOf(a, h)
  <2>1. /\ q \in Keys /\ passed'[q] = Append(passed[q], [at |-> now, from |-> a])
        /\ \A k \in Keys \ {q} : passed'[k] = passed[k]
    BY <1>1, <1>3, Appended
  <2>2. recent' = [recent EXCEPT ![q] = Kept(q) \cup {Len(passed[q]) + 1}]
    BY <1>3 DEF Admit
  <2> HIDE DEF q
  <2> SUFFICES ASSUME NEW k \in Keys PROVE recent'[k] \subseteq 1..Len(passed'[k])
    BY DEF RecentPassed
  <2>3. CASE k # q
    BY <1>1, <2>1, <2>2, <2>3 DEF RecentPassed
  <2>4. CASE k = q
    <3>1. Len(passed'[q]) = Len(passed[q]) + 1
      BY <1>1, <2>1
    <3>2. recent'[q] = Kept(q) \cup {Len(passed[q]) + 1}
      BY <1>1, <2>1, <2>2
    <3>3. Kept(q) \subseteq 1..Len(passed[q]) /\ Len(passed[q]) \in Nat
      BY <1>1, <2>1 DEF Kept, RecentPassed
    <3> QED
      BY <2>4, <3>1, <3>2, <3>3
  <2> QED
    BY <2>3, <2>4
<1>4. CASE UNCHANGED <<recent, passed>>
  BY <1>4 DEF RecentPassed
<1> QED
  BY <1>2, <1>3, <1>4, LimiterSteps DEF limiter, Tick

LEMMA WindowsFinite ==
  ASSUME TypeOK, NEW k \in Keys
  PROVE  InWindow(k) \in SUBSET Nat /\ IsFiniteSet(InWindow(k))
         /\ Cardinality(InWindow(k)) \in Nat
<1>1. Len(passed[k]) \in Nat /\ DOMAIN passed[k] = 1..Len(passed[k])
  BY DEF TypeOK
<1>2. IsFiniteSet(1..Len(passed[k]))
  BY <1>1, FS_Interval
<1>3. InWindow(k) \subseteq 1..Len(passed[k])
  BY <1>1 DEF InWindow
<1> QED BY <1>2, <1>3, FS_Subset, FS_CardinalityType

(* Every request of the Window is among those the guard counted before it    *)
(* let the last one through.                                                 *)
LEMMA KeysBoundedStep ==
  TypeOK /\ RecentComplete /\ RecentPassed /\ KeysBounded /\ [Next]_vars => KeysBounded'
<1> SUFFICES ASSUME TypeOK, RecentComplete, RecentPassed, KeysBounded, [Next]_vars,
                    NEW k \in Keys
             PROVE  Cardinality(InWindow(k)') <= Limit
  BY DEF KeysBounded, InWindow
<1>0. /\ passed \in [Keys -> Seq(Entry)] /\ now \in 0..MaxNow
      /\ Limit \in Nat /\ Window \in Nat /\ Window > 0
  BY IntakeAssumption DEF TypeOK, IntakeAssumption
<1>1. /\ InWindow(k) \subseteq Nat /\ IsFiniteSet(InWindow(k))
      /\ Cardinality(InWindow(k)) \in Nat /\ Cardinality(InWindow(k)) <= Limit
  BY WindowsFinite DEF KeysBounded
<1>2. CASE InWindow(k)' \subseteq InWindow(k)
  BY <1>0, <1>1, <1>2, FS_Subset, FS_CardinalityType
<1>3. CASE Tick
  <2>1. passed' = passed /\ now' = now + 1
    BY <1>3 DEF Tick
  <2>2. ASSUME NEW i \in DOMAIN passed[k] PROVE passed[k][i].at \in Int
    <3>1. passed[k][i] \in Entry
      BY <1>0
    <3> QED BY <3>1 DEF Entry
  <2>3. InWindow(k)' \subseteq InWindow(k)
    BY <1>0, <2>1, <2>2 DEF InWindow
  <2> QED BY <1>2, <2>3
<1>4. CASE Restart
  <2>1. DOMAIN passed'[k] = {}
    BY <1>4 DEF Restart
  <2> QED BY <1>2, <2>1 DEF InWindow
<1>5. ASSUME NEW a \in Addresses \cup {None}, NEW h \in Forwarded \cup {None}, Admit(a, h)
      PROVE  Cardinality(InWindow(k)') <= Limit
  <2> DEFINE q == KeyOf(a, h)
             n == Len(passed[q]) + 1
  <2>1. /\ q \in Keys /\ passed'[q] = Append(passed[q], [at |-> now, from |-> a])
        /\ \A l \in Keys \ {q} : passed'[l] = passed[l]
    BY <1>0, <1>5, Appended
  <2>2. now' = now /\ Cardinality(Kept(q)) < Limit
    BY <1>5 DEF Admit
  <2> HIDE DEF q
  <2>3. CASE k # q
    BY <1>2, <2>1, <2>2, <2>3 DEF InWindow
  <2>4. CASE k = q
    <3>1. n \in Nat /\ n \notin 1..Len(passed[q]) /\ DOMAIN passed[q] = 1..Len(passed[q])
      BY <1>0, <2>1
    <3>2. /\ DOMAIN passed'[q] = 1..n
          /\ \A i \in 1..Len(passed[q]) : passed'[q][i] = passed[q][i]
      BY <1>0, <2>1
    <3>3. InWindow(q)' \subseteq Kept(q) \cup {n}
      <4> SUFFICES ASSUME NEW i \in InWindow(q)', i # n PROVE i \in Kept(q)
        OBVIOUS
      <4>1. i \in 1..n /\ now - passed'[q][i].at < Window
        BY <2>2, <3>2 DEF InWindow
      <4>2. i \in DOMAIN passed[q] /\ passed'[q][i] = passed[q][i]
        BY <1>0, <2>1, <3>1, <3>2, <4>1
      <4> QED BY <2>1, <4>1, <4>2 DEF RecentComplete, Kept
    <3>4. Kept(q) \subseteq 1..Len(passed[q])
      BY <2>1 DEF Kept, RecentPassed
    <3>5. IsFiniteSet(Kept(q)) /\ Cardinality(Kept(q)) \in Nat
      <4>1. Len(passed[q]) \in Int
        BY <1>0, <2>1
      <4>2. IsFiniteSet(1..Len(passed[q]))
        BY <4>1, FS_Interval
      <4> QED BY <3>4, <4>2, FS_Subset, FS_CardinalityType
    <3>6. /\ IsFiniteSet(Kept(q) \cup {n})
          /\ Cardinality(Kept(q) \cup {n}) = Cardinality(Kept(q)) + 1
      BY <3>1, <3>4, <3>5, FS_AddElement
    <3>7. Cardinality(InWindow(q)') <= Cardinality(Kept(q)) + 1
      BY <3>3, <3>6, FS_Subset
    <3>8. IsFiniteSet(InWindow(q)')
      BY <3>3, <3>6, FS_Subset
    <3>9. Cardinality(InWindow(q)') \in Nat
      BY <3>8, FS_CardinalityType
    <3> QED BY <1>0, <2>2, <2>4, <3>5, <3>7, <3>9
  <2> QED
    BY <2>3, <2>4
<1>6. CASE UNCHANGED limiter
  BY <1>2, <1>6 DEF limiter, InWindow
<1> QED
  BY <1>3, <1>4, <1>5, <1>6, LimiterSteps

(* An address is bounded by its keys: its requests are pairs of a key and a  *)
(* place, from 1 to Limit, in the Window of that key.                        *)
LEMMA AddressesBounded == TypeOK /\ KeysBounded => RateBounded
<1> SUFFICES ASSUME TypeOK, KeysBounded, NEW a \in Addresses
             PROVE  Cardinality(InWindowFrom(a)) <= Limit * Cardinality(KeysFrom(a))
  BY DEF RateBounded, KeysBounded
<1> DEFINE Upto(k, i) == {j \in InWindow(k) : j <= i}
           f == [p \in InWindowFrom(a) |-> <<p[1], Cardinality(Upto(p[1], p[2]))>>]
<1>1. Limit \in Nat /\ IsFiniteSet(1..Limit) /\ Cardinality(1..Limit) = Limit
  <2>1. Limit \in Nat
    BY IntakeAssumption DEF IntakeAssumption
  <2> QED BY <2>1, FS_Interval
<1>2. IsFiniteSet(KeysFrom(a))
  <2>1. IsFiniteSet({"unknown"}) /\ IsFiniteSet(Addresses \cup Forwarded)
    BY IntakeAssumption, FS_Singleton, FS_Union DEF IntakeAssumption
  <2>2. IsFiniteSet(Keys)
    BY <2>1, FS_Union DEF Keys
  <2> QED BY <2>2, FS_Subset DEF KeysFrom
<1>3. ASSUME NEW p \in InWindowFrom(a)
      PROVE  p = <<p[1], p[2]>> /\ p[1] \in KeysFrom(a) /\ p[2] \in InWindow(p[1])
  BY DEF InWindowFrom, KeysFrom
<1>4. ASSUME NEW k \in Keys, NEW i \in InWindow(k)
      PROVE  /\ IsFiniteSet(Upto(k, i)) /\ Cardinality(Upto(k, i)) \in 1..Limit
  <2>1. IsFiniteSet(InWindow(k)) /\ InWindow(k) \subseteq Nat
        /\ Cardinality(InWindow(k)) \in Nat /\ Cardinality(InWindow(k)) <= Limit
    BY WindowsFinite DEF KeysBounded
  <2>2. IsFiniteSet(Upto(k, i)) /\ Cardinality(Upto(k, i)) <= Cardinality(InWindow(k))
    BY <2>1, FS_Subset
  <2>3. i \in Upto(k, i)
    BY <2>1
  <2>4. Cardinality(Upto(k, i)) \in Nat /\ Cardinality(Upto(k, i)) # 0
    BY <2>2, <2>3, FS_CardinalityType, FS_EmptySet
  <2> QED BY <1>1, <2>1, <2>2, <2>4
<1>5. ASSUME NEW k \in Keys, NEW i \in InWindow(k), NEW j \in InWindow(k), i < j
      PROVE  Cardinality(Upto(k, i)) # Cardinality(Upto(k, j))
  <2>1. Upto(k, i) \subseteq Upto(k, j) /\ j \in Upto(k, j) /\ j \notin Upto(k, i)
    BY <1>5, WindowsFinite
  <2>2. IsFiniteSet(Upto(k, j))
    BY <1>4
  <2> QED BY <2>1, <2>2, FS_Subset
<1> HIDE DEF Upto
<1>6. f \in Injection(InWindowFrom(a), KeysFrom(a) \X (1..Limit))
  <2>1. ASSUME NEW p \in InWindowFrom(a) PROVE f[p] \in KeysFrom(a) \X (1..Limit)
    BY <1>3, <1>4 DEF KeysFrom
  <2>2. ASSUME NEW p \in InWindowFrom(a), NEW q \in InWindowFrom(a), f[p] = f[q] PROVE p = q
    <3>1. p[1] = q[1] /\ Cardinality(Upto(p[1], p[2])) = Cardinality(Upto(p[1], q[2]))
      BY <2>2
    <3>2. p[1] \in Keys /\ p[2] \in InWindow(p[1]) /\ q[2] \in InWindow(p[1])
      BY <1>3, <3>1 DEF KeysFrom
    <3>3. p[2] \in Nat /\ q[2] \in Nat
      BY <3>2, WindowsFinite
    <3>4. p[2] = q[2]
      BY <1>5, <3>1, <3>2, <3>3
    <3> QED BY <1>3, <3>1, <3>4
  <2> QED BY <2>1, <2>2 DEF Injection, IsInjective
<1>7. /\ IsFiniteSet(KeysFrom(a) \X (1..Limit))
      /\ Cardinality(KeysFrom(a) \X (1..Limit)) = Cardinality(KeysFrom(a)) * Limit
  BY <1>1, <1>2, FS_Product
<1>8. Cardinality(InWindowFrom(a)) <= Cardinality(KeysFrom(a)) * Limit
  BY <1>6, <1>7, FS_Injection
<1>9. Cardinality(KeysFrom(a)) \in Nat
  BY <1>2, FS_CardinalityType
<1> QED BY <1>1, <1>8, <1>9

(***************************************************************************)
(* Uploads and proofs.                                                     *)
(***************************************************************************)
LEMMA InitProofs == Init => UploadsHold /\ ProofsAsTold
<1> SUFFICES ASSUME Init PROVE UploadsHold /\ ProofsAsTold
  OBVIOUS
<1>1. \A r \in Reqs : pc[r] = "idle" /\ kind[r] = None /\ got[r] = None
  BY DEF Init
<1>2. None # "proof"
  BY IntakeAssumption DEF IntakeAssumption, Kinds
<1>3. UploadsHold
  BY <1>1, <1>2 DEF UploadsHold
<1>4. ProofsAsTold
  BY DEF Init, ProofsAsTold
<1> QED
  BY <1>3, <1>4

(* A request that ends holds nothing, the others keep what they hold.        *)
LEMMA FinishHolds ==
  ASSUME TypeOK, UploadsHold, NEW r \in Reqs, Finish(r), UNCHANGED stored
  PROVE  UploadsHold'
<1>1. None # "proof"
  BY IntakeAssumption DEF IntakeAssumption, Kinds
<1> SUFFICES ASSUME NEW q \in Reqs
             PROVE  /\ pc'[q] \notin {"idle"} => kind'[q] # None /\ file'[q] # None
                    /\ pc'[q] \in {"attach", "write"} => got'[q] # None /\ kind'[q] = "proof"
                    /\ kind'[q] = "proof" => pay'[q] # None /\ IsPicture(file'[q])
                    /\ got'[q] # None =>
                         /\ stored[got'[q]] = [of |-> kind'[q], type |-> file'[q].type]
                         /\ pc'[q] \in {"clean", "attach", "write"}
  BY DEF UploadsHold
<1>2. CASE q = r
  BY <1>1, <1>2 DEF Finish, Goto, TypeOK
<1>3. CASE q # r
  BY <1>3 DEF Finish, Goto, TypeOK, UploadsHold
<1> QED
  BY <1>2, <1>3

LEMMA GotoHolds ==
  ASSUME TypeOK, UploadsHold, NEW r \in Reqs, NEW loc \in {"validate", "stream", "clean"},
         pc[r] # "idle", got[r] = None, Goto(r, loc), UNCHANGED <<kind, file, pay, got, stored>>
  PROVE  UploadsHold'
  BY DEF TypeOK, UploadsHold, Goto

LEMMA ReceiveHolds ==
  ASSUME TypeOK, UploadsHold, NEW r \in Reqs, NEW k \in Kinds, NEW f \in Files,
         NEW loc \in {"receiving", "validate"}, Receive(r, k, f, loc),
         pay' \in [Reqs -> Payments \cup {None}],
         \A q \in Reqs : q # r => pay'[q] = pay[q],
         k = "proof" => pay'[r] # None /\ IsPicture(f),
         got[r] = None
  PROVE  UploadsHold'
<1>1. None \notin Kinds /\ None \notin Files
  BY IntakeAssumption DEF IntakeAssumption
<1> SUFFICES ASSUME NEW q \in Reqs
             PROVE  /\ pc'[q] \notin {"idle"} => kind'[q] # None /\ file'[q] # None
                    /\ pc'[q] \in {"attach", "write"} => got'[q] # None /\ kind'[q] = "proof"
                    /\ kind'[q] = "proof" => pay'[q] # None /\ IsPicture(file'[q])
                    /\ got'[q] # None =>
                         /\ stored'[got'[q]] = [of |-> kind'[q], type |-> file'[q].type]
                         /\ pc'[q] \in {"clean", "attach", "write"}
  BY DEF UploadsHold
<1>2. stored' = stored /\ got' = got
  BY DEF Receive, cloud
<1>3. CASE q = r
  BY <1>1, <1>2, <1>3 DEF Receive, Goto, TypeOK
<1>4. CASE q # r
  BY <1>2, <1>4 DEF Receive, Goto, TypeOK, UploadsHold
<1> QED
  BY <1>3, <1>4

LEMMA UploadsHoldStep == TypeOK /\ UploadsHold /\ [Next]_vars => UploadsHold'
<1> SUFFICES ASSUME TypeOK, UploadsHold, [Next]_vars PROVE UploadsHold'
  OBVIOUS
<1>1. CASE UNCHANGED <<pc, regs, stored>>
  BY <1>1 DEF regs, UploadsHold
<1>2. CASE Restart
  <2>1. None # "proof"
    BY IntakeAssumption DEF IntakeAssumption, Kinds
  <2> QED
    BY <1>2, <2>1 DEF Restart, UploadsHold
<1>3. ASSUME NEW r \in Reqs, ReceiveVideo(r) \/ Validate(r) PROVE UploadsHold'
  <2>1. pc[r] \in {"receiving", "validate"}
    BY <1>3 DEF ReceiveVideo, Validate
  <2>2. got[r] = None
    BY <2>1 DEF UploadsHold
  <2>3. UNCHANGED <<kind, file, pay, got, stored>>
    BY <1>3 DEF ReceiveVideo, Validate, regs, cloud
  <2>4. PICK loc \in {"validate", "stream", "clean"} : Goto(r, loc)
    BY <1>3 DEF ReceiveVideo, Validate
  <2> QED
    BY <2>1, <2>2, <2>3, <2>4, GotoHolds
<1>4. ASSUME NEW r \in Reqs, VideoTooLarge(r) \/ StoreProof(r) \/ StoreFails(r)
      PROVE  UploadsHold'
  BY <1>4, FinishHolds DEF VideoTooLarge, StoreProof, StoreFails, cloud
<1>5. ASSUME NEW r \in Reqs, Clean(r) \/ AnswerRegistrationImage(r) \/ AnswerPaymentProof(r)
      PROVE  UploadsHold'
  <2>1. CASE kind[r] = "proof" /\ got[r] # None
    BY <1>5, <2>1
    DEF Clean, AnswerRegistrationImage, AnswerPaymentProof, Goto, regs, cloud, TypeOK, UploadsHold
  <2>2. CASE ~(kind[r] = "proof" /\ got[r] # None)
    BY <1>5, <2>2, FinishHolds
    DEF Clean, AnswerRegistrationImage, AnswerPaymentProof, cloud
  <2> QED
    BY <2>1, <2>2
<1>6. ASSUME NEW r \in Reqs, Attach(r) PROVE UploadsHold'
  <2>1. CASE pay[r] \in open
    BY <1>6, <2>1 DEF Attach, Goto, regs, TypeOK, UploadsHold
  <2>2. CASE pay[r] \notin open
    BY <1>6, <2>2, FinishHolds DEF Attach
  <2> QED
    BY <2>1, <2>2
<1>7. ASSUME NEW r \in Reqs, NEW a \in Assets, StreamStored(r, a) \/ StreamFailed(r, a)
      PROVE  UploadsHold'
  <2>1. \A q \in Reqs : got[q] # None => got[q] # a
    <3>1. stored[a] = None
      BY <1>7 DEF StreamStored, StreamFailed
    <3>2. ASSUME NEW q \in Reqs, got[q] # None PROVE stored[got[q]] # None
      <4>1. /\ stored[got[q]] = [of |-> kind[q], type |-> file[q].type]
            /\ kind[q] \in Kinds /\ file[q] \in Files
        BY <3>2 DEF UploadsHold, TypeOK
      <4>2. file[q].type \in Types /\ None \notin [of: Kinds, type: Types]
        BY <4>1, IntakeAssumption DEF IntakeAssumption
      <4> QED
        BY <4>1, <4>2
    <3> QED
      BY <3>1, <3>2
  <2>2. /\ stored[a] = None /\ pc[r] = "stream"
        /\ \A q \in Reqs : got[q] # None => stored'[got[q]] = stored[got[q]]
    BY <1>7, <2>1 DEF StreamStored, StreamFailed, TypeOK
  <2>3. CASE StreamStored(r, a)
    BY <2>2, <2>3 DEF StreamStored, Goto, TypeOK, UploadsHold
  <2>4. CASE StreamFailed(r, a)
    BY <2>2, <2>4 DEF StreamFailed, Goto, regs, TypeOK, UploadsHold
  <2> QED
    BY <1>7, <2>3, <2>4
<1>8. ASSUME NEW r \in Reqs, NEW f \in Files, NEW role \in Roles, UploadVideo(r, role, f)
      PROVE  UploadsHold'
  <2>1. pay' = pay /\ got[r] = None
    BY <1>8 DEF UploadVideo, Receive, UploadsHold
  <2> QED
    BY <1>8, <2>1, ReceiveHolds, IntakeAssumption DEF UploadVideo, TypeOK, Kinds
<1>9. ASSUME NEW r \in Reqs, NEW f \in Files,
             UploadImage(r, f) \/ UploadRegistrationImage(r, f)
      PROVE  UploadsHold'
  <2>1. pay' = pay /\ got[r] = None
    BY <1>9 DEF UploadImage, UploadRegistrationImage, Receive, UploadsHold
  <2> QED
    BY <1>9, <2>1, ReceiveHolds
    DEF UploadImage, UploadRegistrationImage, TypeOK, Kinds
<1>10. ASSUME NEW r \in Reqs, NEW f \in Files, NEW p \in Payments, UploadPaymentProof(r, f, p)
       PROVE  UploadsHold'
  <2>1. /\ pay' \in [Reqs -> Payments \cup {None}] /\ pay'[r] = p /\ got[r] = None
        /\ \A q \in Reqs : q # r => pay'[q] = pay[q]
    BY <1>10 DEF UploadPaymentProof, Receive, UploadsHold, TypeOK
  <2>2. p # None /\ IsPicture(f) /\ Receive(r, "proof", f, "validate")
    BY <1>10, IntakeAssumption DEF UploadPaymentProof, IntakeAssumption
  <2> QED
    BY <2>1, <2>2, ReceiveHolds DEF Kinds
<1> QED
  BY <1>1, <1>2, <1>3, <1>4, <1>5, <1>6, <1>7, <1>8, <1>9, <1>10
  DEF Next, vars, Tick, Admit, CloseIntent, regs, cloud

(* The proof of a payment changes only when an upload becomes it.            *)
LEMMA ProofsAsToldStep ==
  TypeOK /\ UploadsHold /\ ProofsAsTold /\ [Next]_vars => ProofsAsTold'
<1> SUFFICES ASSUME TypeOK, UploadsHold, ProofsAsTold, [Next]_vars PROVE ProofsAsTold'
  OBVIOUS
<1>1. \A p \in Payments : proof[p] # None => proof[p] \in Assets
  BY DEF TypeOK
<1>2. ASSUME UNCHANGED <<proof, vouched, stored>>, wasted \subseteq wasted'
      PROVE  ProofsAsTold'
  BY <1>2 DEF ProofsAsTold
<1>3. ASSUME NEW r \in Reqs, StoreProof(r) PROVE ProofsAsTold'
  <2>1. /\ pc[r] = "write" /\ got[r] \in Assets /\ pay[r] \in Payments
        /\ stored[got[r]] = [of |-> "proof", type |-> file[r].type]
        /\ IsPicture(file[r])
    BY <1>3 DEF StoreProof, UploadsHold, TypeOK
  <2>2. /\ proof' = [proof EXCEPT ![pay[r]] = got[r]] /\ stored' = stored
        /\ vouched' = vouched \cup {got[r]}
        /\ wasted \subseteq wasted'
        /\ proof[pay[r]] # None => proof[pay[r]] \in wasted'
    BY <1>3 DEF StoreProof
  <2>3. proof \in [Payments -> Assets \cup {None}] /\ vouched \subseteq Assets
    BY DEF TypeOK
  <2>4. None \notin Assets
    BY IntakeAssumption DEF IntakeAssumption
  <2>5. ASSUME NEW a \in vouched' PROVE a \in wasted' \/ \E p \in Payments : proof'[p] = a
    <3>1. CASE a = got[r]
      BY <2>1, <2>2, <2>3, <3>1
    <3>2. CASE a # got[r]
      <4>1. a \in wasted \/ \E p \in Payments : proof[p] = a
        BY <2>2, <2>5, <3>2 DEF ProofsAsTold
      <4> QED
        BY <2>2, <2>3, <2>4, <2>5, <3>2, <4>1
    <3> QED
      BY <3>1, <3>2
  <2>6. ASSUME NEW p \in Payments, proof'[p] # None
        PROVE  stored'[proof'[p]] = [of |-> "proof", type |-> "jpg"] /\ proof'[p] \in vouched'
    <3>1. CASE p = pay[r]
      BY <2>1, <2>2, <2>3, <3>1 DEF IsPicture
    <3>2. CASE p # pay[r]
      BY <2>2, <2>3, <2>6, <3>2 DEF ProofsAsTold
    <3> QED
      BY <3>1, <3>2
  <2> QED
    BY <2>5, <2>6 DEF ProofsAsTold
<1>4. ASSUME NEW r \in Reqs, NEW a \in Assets, StreamStored(r, a) \/ StreamFailed(r, a)
      PROVE  ProofsAsTold'
  <2>1. stored[a] = None /\ proof' = proof /\ vouched' = vouched /\ wasted \subseteq wasted'
    BY <1>4 DEF StreamStored, StreamFailed
  <2>2. \A b \in Assets : b # a => stored'[b] = stored[b]
    BY <1>4 DEF StreamStored, StreamFailed, TypeOK
  <2>3. None # [of |-> "proof", type |-> "jpg"]
    BY IntakeAssumption DEF IntakeAssumption, Kinds, Types
  <2> QED
    BY <1>1, <2>1, <2>2, <2>3 DEF ProofsAsTold
<1>5. ASSUME NEW r \in Reqs, Attach(r) \/ StoreFails(r) PROVE ProofsAsTold'
  BY <1>2, <1>5 DEF Attach, StoreFails
<1>6. CASE Restart
  BY <1>2, <1>6 DEF Restart
<1>7. CASE UNCHANGED cloud
  BY <1>2, <1>7 DEF cloud
<1>8. CASE Tick \/ (\E s \in Senders : Admit(s[1], s[2])) \/ UNCHANGED vars
  BY <1>7, <1>8 DEF Tick, Admit, vars
<1> QED
  BY <1>3, <1>4, <1>5, <1>6, <1>7, <1>8
  DEF Next, CloseIntent, ReceiveVideo, VideoTooLarge, Validate, Clean,
      AnswerRegistrationImage, AnswerPaymentProof, UploadVideo, UploadImage, UploadRegistrationImage, UploadPaymentProof, Receive

(***************************************************************************)
(* Temporary files.                                                        *)
(***************************************************************************)
LEMMA InitFiles == Init => KindsOK /\ TemporaryFilesRemoved
<1> SUFFICES ASSUME Init PROVE KindsOK /\ TemporaryFilesRemoved
  OBVIOUS
<1>1. KindsOK
  BY DEF Init, KindsOK
<1>2. None # "video"
  BY IntakeAssumption DEF IntakeAssumption, Kinds
<1>3. Videos = {}
  BY <1>2 DEF Init, Videos
<1>4. Cardinality(Videos) = 0
  BY <1>3, FS_EmptySet
<1> QED
  BY <1>1, <1>4 DEF Init, TemporaryFilesRemoved, Videos

LEMMA KindsOKStep == TypeOK /\ KindsOK /\ [Next]_vars => KindsOK'
<1> SUFFICES ASSUME TypeOK, KindsOK, [Next]_vars PROVE KindsOK'
  OBVIOUS
<1>1. pc \in [Reqs -> {"idle", "receiving", "validate", "stream", "clean", "attach", "write"}]
      /\ kind \in [Reqs -> Kinds \cup {None}]
  BY DEF TypeOK
<1>2. ASSUME NEW r \in Reqs, Finish(r) PROVE KindsOK'
  BY <1>1, <1>2 DEF Finish, Goto, KindsOK
<1>3. ASSUME NEW r \in Reqs, NEW loc \in {"validate", "stream", "clean", "attach", "write"},
             Goto(r, loc), UNCHANGED kind
      PROVE  KindsOK'
  BY <1>1, <1>3 DEF Goto, KindsOK
<1>4. ASSUME NEW r \in Reqs, NEW k, NEW f, NEW loc \in {"receiving", "validate"},
             Receive(r, k, f, loc), loc = "receiving" => k = "video"
      PROVE  KindsOK'
  BY <1>1, <1>4 DEF Receive, Goto, KindsOK
<1>5. CASE Restart
  BY <1>5 DEF Restart, KindsOK
<1>6. CASE UNCHANGED <<pc, kind>>
  BY <1>6 DEF KindsOK
<1>7. ASSUME NEW r \in Reqs,
             \/ VideoTooLarge(r) \/ Clean(r) \/ AnswerRegistrationImage(r)
             \/ StoreProof(r) \/ StoreFails(r)
      PROVE  KindsOK'
  BY <1>2, <1>7 DEF VideoTooLarge, Clean, AnswerRegistrationImage, StoreProof, StoreFails
<1>8. ASSUME NEW r \in Reqs, AnswerPaymentProof(r) \/ Attach(r) PROVE KindsOK'
  BY <1>2, <1>3, <1>8 DEF AnswerPaymentProof, Attach, regs
<1>9. ASSUME NEW r \in Reqs, ReceiveVideo(r) \/ Validate(r) PROVE KindsOK'
  BY <1>3, <1>9 DEF ReceiveVideo, Validate, regs
<1>10. ASSUME NEW r \in Reqs, NEW a \in Assets, StreamStored(r, a) \/ StreamFailed(r, a)
       PROVE  KindsOK'
  BY <1>3, <1>10 DEF StreamStored, StreamFailed, regs
<1>11. ASSUME NEW r \in Reqs, NEW f \in Files, NEW role \in Roles, UploadVideo(r, role, f)
       PROVE  KindsOK'
  BY <1>4, <1>11 DEF UploadVideo
<1>12. ASSUME NEW r \in Reqs, NEW f \in Files,
              \/ UploadImage(r, f) \/ UploadRegistrationImage(r, f)
              \/ \E p \in Payments : UploadPaymentProof(r, f, p)
       PROVE  KindsOK'
  BY <1>4, <1>12 DEF UploadImage, UploadRegistrationImage, UploadPaymentProof
<1>13. Tick \/ (\E s \in Senders : Admit(s[1], s[2])) \/ (\E p \in Payments : CloseIntent(p)) \/ UNCHANGED vars
         => UNCHANGED <<pc, kind>>
  BY DEF Tick, Admit, CloseIntent, vars, regs
<1> QED
  BY <1>5, <1>6, <1>7, <1>8, <1>9, <1>10, <1>11, <1>12, <1>13 DEF Next

(* A request that ends a video upload leaves the others.                     *)
LEMMA VideoEnds ==
  ASSUME TypeOK, NEW r \in Reqs, kind[r] = "video", Finish(r)
  PROVE  /\ Cardinality(Videos') = Cardinality(Videos) - 1
         /\ Cardinality(Videos) \in Int
<1>1. None # "video" /\ IsFiniteSet(Reqs)
  BY IntakeAssumption DEF IntakeAssumption, Kinds
<1>2. Videos' = Videos \ {r} /\ r \in Videos
  BY <1>1 DEF TypeOK, Finish, Videos
<1>3. IsFiniteSet(Videos)
  BY <1>1, FS_Subset DEF Videos
<1> QED
  BY <1>2, <1>3, FS_RemoveElement, FS_CardinalityType

(* One that ends another upload, or moves on, leaves them all.               *)
LEMMA OtherEnds ==
  ASSUME TypeOK, NEW r \in Reqs, kind[r] # "video", Finish(r)
  PROVE  Videos' = Videos
<1>1. None # "video"
  BY IntakeAssumption DEF IntakeAssumption, Kinds
<1> QED
  BY <1>1 DEF TypeOK, Finish, Videos

LEMMA TemporaryFilesStep ==
  TypeOK /\ UploadsHold /\ KindsOK /\ TemporaryFilesRemoved /\ [Next]_vars => TemporaryFilesRemoved'
<1> SUFFICES ASSUME TypeOK, UploadsHold, KindsOK, TemporaryFilesRemoved, [Next]_vars
             PROVE  TemporaryFilesRemoved'
  OBVIOUS
<1>1. /\ temporary = Cardinality(Videos) + spilled
      /\ temporary \in Int /\ spilled \in Int
      /\ kind \in [Reqs -> Kinds \cup {None}]
  BY DEF TemporaryFilesRemoved, Videos, TypeOK
<1>2. None # "video" /\ None # "proof" /\ IsFiniteSet(Reqs)
  BY IntakeAssumption DEF IntakeAssumption, Kinds
<1> SUFFICES temporary' = Cardinality(Videos') + spilled'
  BY DEF TemporaryFilesRemoved, Videos
<1>3. ASSUME Videos' = Videos, UNCHANGED disk
      PROVE  temporary' = Cardinality(Videos') + spilled'
  BY <1>1, <1>3 DEF disk
<1>4. CASE Restart
  <2>1. Videos' = {}
    BY <1>2, <1>4 DEF Restart, Videos
  <2>2. Cardinality(Videos') = 0
    BY <2>1, FS_EmptySet
  <2> QED
    BY <1>1, <1>4, <2>2 DEF Restart
<1>5. CASE UNCHANGED <<kind, disk>>
  BY <1>3, <1>5 DEF Videos
<1>6. ASSUME NEW r \in Reqs, VideoTooLarge(r)
      PROVE  temporary' = Cardinality(Videos') + spilled'
  <2>1. kind[r] = "video" /\ Finish(r) /\ temporary' = temporary - 1 /\ spilled' = spilled
    BY <1>6 DEF VideoTooLarge, KindsOK
  <2> QED
    BY <1>1, <2>1, VideoEnds
<1>7. ASSUME NEW r \in Reqs, Clean(r) PROVE temporary' = Cardinality(Videos') + spilled'
  <2>1. Finish(r)
    BY <1>7 DEF Clean
  <2>2. CASE kind[r] = "video"
    <3>1. \/ temporary' = temporary - 1 /\ spilled' = spilled
          \/ spilled' = spilled + 1 /\ temporary' = temporary
      BY <1>7, <2>2 DEF Clean
    <3> QED
      BY <1>1, <2>1, <2>2, <3>1, VideoEnds
  <2>3. CASE kind[r] # "video"
    <3>1. UNCHANGED disk
      BY <1>7, <2>3 DEF Clean
    <3> QED
      BY <1>3, <2>1, <2>3, <3>1, OtherEnds
  <2> QED
    BY <2>2, <2>3
<1>8. ASSUME NEW r \in Reqs,
             \/ AnswerRegistrationImage(r) \/ AnswerPaymentProof(r) \/ Attach(r)
             \/ StoreProof(r) \/ StoreFails(r)
      PROVE  temporary' = Cardinality(Videos') + spilled'
  <2>1. kind[r] # "video"
    BY <1>8 DEF AnswerRegistrationImage, AnswerPaymentProof, Attach, StoreProof, StoreFails,
               UploadsHold
  <2>2. UNCHANGED disk /\ (UNCHANGED kind \/ Finish(r))
    BY <1>8 DEF AnswerRegistrationImage, AnswerPaymentProof, Attach, StoreProof, StoreFails, regs
  <2>3. UNCHANGED kind => Videos' = Videos
    BY DEF Videos
  <2> QED
    BY <1>3, <2>1, <2>2, <2>3, OtherEnds
<1>9. ASSUME NEW r \in Reqs, NEW f \in Files, NEW role \in Roles, UploadVideo(r, role, f)
      PROVE  temporary' = Cardinality(Videos') + spilled'
  <2>1. /\ pc[r] = "idle" /\ kind' = [kind EXCEPT ![r] = "video"]
        /\ temporary' = temporary + 1 /\ spilled' = spilled
    BY <1>9 DEF UploadVideo, Receive
  <2>2. kind[r] = None
    BY <2>1 DEF KindsOK
  <2>3. Videos' = Videos \cup {r} /\ r \notin Videos
    BY <1>1, <1>2, <2>1, <2>2 DEF Videos
  <2>4. IsFiniteSet(Videos)
    BY <1>2, FS_Subset DEF Videos
  <2>5. Cardinality(Videos') = Cardinality(Videos) + 1 /\ Cardinality(Videos) \in Nat
    BY <2>3, <2>4, FS_AddElement, FS_CardinalityType
  <2> QED
    BY <1>1, <2>1, <2>5
<1>10. ASSUME NEW r \in Reqs, NEW k \in {"image", "registration", "proof"}, pc[r] = "idle",
              kind' = [kind EXCEPT ![r] = k], UNCHANGED disk
       PROVE  temporary' = Cardinality(Videos') + spilled'
  <2>1. kind[r] = None
    BY <1>10 DEF KindsOK
  <2>2. Videos' = Videos
    BY <1>1, <1>2, <1>10, <2>1 DEF Videos
  <2> QED
    BY <1>3, <1>10, <2>2
<1>11. ASSUME NEW r \in Reqs, NEW f \in Files,
              \/ UploadImage(r, f) \/ UploadRegistrationImage(r, f)
              \/ \E p \in Payments : UploadPaymentProof(r, f, p)
       PROVE  temporary' = Cardinality(Videos') + spilled'
  BY <1>10, <1>11
  DEF UploadImage, UploadRegistrationImage, UploadPaymentProof, Receive, disk
<1>12. ASSUME NEW r \in Reqs, ReceiveVideo(r) \/ Validate(r) PROVE UNCHANGED <<kind, disk>>
  BY <1>12 DEF ReceiveVideo, Validate, regs
<1>13. ASSUME NEW r \in Reqs, NEW a \in Assets, StreamStored(r, a) \/ StreamFailed(r, a)
       PROVE  UNCHANGED <<kind, disk>>
  BY <1>13 DEF StreamStored, StreamFailed, regs
<1>14. Tick \/ (\E s \in Senders : Admit(s[1], s[2])) \/ (\E p \in Payments : CloseIntent(p)) \/ UNCHANGED vars
         => UNCHANGED <<kind, disk>>
  BY DEF Tick, Admit, CloseIntent, vars, regs
<1> QED
  BY <1>4, <1>5, <1>6, <1>7, <1>8, <1>9, <1>10, <1>11, <1>12, <1>13, <1>14 DEF Next

(***************************************************************************)
(* Where the proofs are.                                                   *)
(***************************************************************************)
LEMMA InitPlaced == Init => ProofsPlaced
<1> SUFFICES ASSUME Init, NEW a \in Assets PROVE OnePlace(a)
  BY DEF ProofsPlaced
<1>1. None \notin Assets
  BY IntakeAssumption DEF IntakeAssumption
<1>2. /\ \A p \in Payments : proof[p] # a
      /\ \A r \in Reqs : ~ HoldsProof(r, a)
      /\ a \notin wasted /\ ~ StoredAsProof(a)
  BY <1>1 DEF Init, HoldsProof, StoredAsProof
<1> QED
  BY <1>2 DEF OnePlace

(* A step that moves no proof leaves each where it is.                       *)
LEMMA Unmoved ==
  ASSUME NEW a \in Assets, OnePlace(a),
         \A p \in Payments : proof'[p] = a <=> proof[p] = a,
         \A r \in Reqs : HoldsProof(r, a)' <=> HoldsProof(r, a),
         a \in wasted' <=> a \in wasted,
         StoredAsProof(a)' <=> StoredAsProof(a)
  PROVE  OnePlace(a)'
BY DEF OnePlace

(* The end of an upload lets go of what it held, of nothing else.            *)
LEMMA FinishLetsGo ==
  ASSUME TypeOK, NEW r \in Reqs, Finish(r)
  PROVE  \A a \in Assets : \A q \in Reqs : HoldsProof(q, a)' <=> q # r /\ HoldsProof(q, a)
<1>1. None # "proof"
  BY IntakeAssumption DEF IntakeAssumption, Kinds
<1>2. kind' = [kind EXCEPT ![r] = None] /\ got' = [got EXCEPT ![r] = None]
  BY DEF Finish
<1>3. kind \in [Reqs -> Kinds \cup {None}] /\ got \in [Reqs -> Assets \cup {None}]
  BY DEF TypeOK
<1> QED
  BY <1>1, <1>2, <1>3 DEF HoldsProof

(* An upload that ends without its proof becoming one leaves it unused.      *)
LEMMA GivenUp ==
  ASSUME TypeOK, ProofsPlaced, NEW r \in Reqs, kind[r] = "proof", got[r] \in Assets, Finish(r),
         UNCHANGED <<proof, stored>>, wasted' = wasted \cup {got[r]}
  PROVE  ProofsPlaced'
<1> SUFFICES ASSUME NEW a \in Assets PROVE OnePlace(a)'
  BY DEF ProofsPlaced
<1>1. OnePlace(a)
  BY DEF ProofsPlaced
<1>2. \A q \in Reqs : HoldsProof(q, a)' <=> q # r /\ HoldsProof(q, a)
  BY FinishLetsGo
<1>3. StoredAsProof(a)' <=> StoredAsProof(a)
  BY DEF StoredAsProof
<1>4. CASE a = got[r]
  <2>1. HoldsProof(r, a)
    BY <1>4 DEF HoldsProof
  <2>2. /\ \A p \in Payments : proof'[p] # a
        /\ \A q \in Reqs : ~ HoldsProof(q, a)'
        /\ a \in wasted' /\ StoredAsProof(a)'
    BY <1>1, <1>2, <1>3, <1>4, <2>1 DEF OnePlace
  <2> QED
    BY <2>2 DEF OnePlace
<1>5. CASE a # got[r]
  <2>1. ~ HoldsProof(r, a) /\ (a \in wasted' <=> a \in wasted)
    BY <1>5 DEF HoldsProof
  <2> QED
    BY <1>1, <1>2, <1>3, <2>1, Unmoved
<1> QED
  BY <1>4, <1>5

(* The write of attachProof: the new proof takes the place of the old one.   *)
LEMMA StoreProofPlaces ==
  ASSUME TypeOK, UploadsHold, ProofsPlaced, NEW r \in Reqs, StoreProof(r)
  PROVE  ProofsPlaced'
<1> SUFFICES ASSUME NEW a \in Assets PROVE OnePlace(a)'
  BY DEF ProofsPlaced
<1> DEFINE b == got[r]
           x == pay[r]
           old == proof[x]
<1>1. kind[r] = "proof" /\ b \in Assets /\ x \in Payments /\ HoldsProof(r, b)
  BY DEF StoreProof, UploadsHold, TypeOK, HoldsProof
<1>2. /\ proof' = [proof EXCEPT ![x] = b]
      /\ wasted' = IF old = None THEN wasted ELSE wasted \cup {old}
      /\ Finish(r) /\ stored' = stored
  BY DEF StoreProof
<1>3. proof \in [Payments -> Assets \cup {None}] /\ None \notin Assets
  BY IntakeAssumption DEF TypeOK, IntakeAssumption
<1>4. OnePlace(a) /\ OnePlace(b)
  BY <1>1 DEF ProofsPlaced
<1>5. \A q \in Reqs : HoldsProof(q, a)' <=> q # r /\ HoldsProof(q, a)
  BY <1>2, FinishLetsGo
<1>6. StoredAsProof(a)' <=> StoredAsProof(a)
  BY <1>2 DEF StoredAsProof
<1>7. old # b
  BY <1>1, <1>4 DEF OnePlace
<1>8. HoldsProof(r, a) => a = b
  BY DEF HoldsProof
<1> HIDE DEF b, x, old
<1>9. \A p \in Payments : proof'[p] = IF p = x THEN b ELSE proof[p]
  BY <1>1, <1>2, <1>3
<1>10. CASE a = b
  <2>1. /\ proof'[x] = a /\ \A p \in Payments : proof'[p] = a => p = x
        /\ \A q \in Reqs : ~ HoldsProof(q, a)'
        /\ a \notin wasted' /\ StoredAsProof(a)'
    <3>1. /\ \A p \in Payments : proof[p] # a
          /\ \A q \in Reqs : HoldsProof(q, a) => q = r
          /\ a \notin wasted /\ StoredAsProof(a)
      BY <1>1, <1>4, <1>10 DEF OnePlace
    <3> QED
      BY <1>1, <1>2, <1>5, <1>6, <1>7, <1>9, <1>10, <3>1
  <2> QED
    BY <1>1, <2>1 DEF OnePlace
<1>11. CASE a # b /\ a = old
  <2>1. proof[x] = a
    BY <1>11 DEF old
  <2>2. /\ \A p \in Payments : proof[p] = a => p = x
        /\ \A q \in Reqs : ~ HoldsProof(q, a)
        /\ StoredAsProof(a)
    BY <1>1, <1>4, <2>1 DEF OnePlace
  <2>3. /\ \A p \in Payments : proof'[p] # a
        /\ \A q \in Reqs : ~ HoldsProof(q, a)'
        /\ StoredAsProof(a)'
    BY <1>5, <1>6, <1>9, <1>11, <2>2
  <2>4. a \in wasted'
    BY <1>2, <1>3, <1>11
  <2> QED
    BY <2>3, <2>4 DEF OnePlace
<1>12. CASE a # b /\ a # old
  <2>1. \A p \in Payments : proof'[p] = a <=> proof[p] = a
    BY <1>9, <1>12 DEF old
  <2>2. a \in wasted' <=> a \in wasted
    BY <1>2, <1>12
  <2>3. \A q \in Reqs : HoldsProof(q, a)' <=> HoldsProof(q, a)
    BY <1>5, <1>8, <1>12
  <2> QED
    BY <1>4, <1>6, <2>1, <2>2, <2>3, Unmoved
<1> QED
  BY <1>10, <1>11, <1>12

(* What Cloudinary stores is new: nobody had it.                             *)
LEMMA StreamPlaces ==
  ASSUME TypeOK, UploadsHold, ProofsPlaced, NEW r \in Reqs, NEW b \in Assets,
         StreamStored(r, b) \/ StreamFailed(r, b)
  PROVE  ProofsPlaced'
<1> SUFFICES ASSUME NEW a \in Assets PROVE OnePlace(a)'
  BY DEF ProofsPlaced
<1>1. /\ stored \in [Assets -> [of: Kinds, type: Types] \cup {None}]
      /\ got \in [Reqs -> Assets \cup {None}]
      /\ wasted \subseteq Assets
  BY DEF TypeOK
<1>2. OnePlace(a) /\ OnePlace(b)
  BY DEF ProofsPlaced
<1>3. /\ pc[r] = "stream" /\ stored[b] = None
      /\ UNCHANGED <<proof, kind>>
  BY DEF StreamStored, StreamFailed, regs
<1>4. None \notin Assets /\ None \notin [of: Kinds, type: Types] /\ got[r] = None
  BY <1>3, IntakeAssumption DEF IntakeAssumption, UploadsHold
<1>5. /\ \A p \in Payments : proof[p] # b
      /\ \A q \in Reqs : ~ HoldsProof(q, b)
      /\ b \notin wasted
  BY <1>2, <1>3 DEF OnePlace, StoredAsProof
<1> DEFINE s == [of |-> kind[r], type |-> file[r].type]
<1>6. s # None /\ s.of = kind[r]
  <2>1. kind[r] \in Kinds /\ file[r] \in Files
    BY <1>3 DEF UploadsHold, TypeOK
  <2>2. file[r].type \in Types
    BY <2>1, IntakeAssumption DEF IntakeAssumption
  <2> QED
    BY <1>4, <2>1, <2>2
<1>7. /\ \/ stored' = stored
         \/ stored' = [stored EXCEPT ![b] = s]
      /\ \/ wasted' = wasted
         \/ wasted' = wasted \cup {b}
      /\ \/ got' = got
         \/ got' = [got EXCEPT ![r] = b]
  BY DEF StreamStored, StreamFailed, regs
<1>8. \/ UNCHANGED <<stored, wasted, got>>
      \/ /\ stored' = [stored EXCEPT ![b] = s]
         /\ got' = [got EXCEPT ![r] = b] /\ wasted' = wasted
      \/ /\ stored' = [stored EXCEPT ![b] = s]
         /\ wasted' = IF kind[r] = "proof" THEN wasted \cup {b} ELSE wasted
         /\ got' = got
  BY DEF StreamStored, StreamFailed, regs
<1> HIDE DEF s
<1>9. CASE a # b
  <2>1. \A q \in Reqs : HoldsProof(q, a)' <=> HoldsProof(q, a)
    BY <1>1, <1>3, <1>4, <1>7, <1>9 DEF HoldsProof
  <2>2. StoredAsProof(a)' <=> StoredAsProof(a)
    BY <1>1, <1>7, <1>9 DEF StoredAsProof
  <2>3. a \in wasted' <=> a \in wasted
    BY <1>7, <1>9
  <2> QED
    BY <1>2, <1>3, <2>1, <2>2, <2>3, Unmoved
<1>10. CASE a = b
  <2>1. CASE UNCHANGED <<stored, wasted, got>>
    <3>1. \A q \in Reqs : HoldsProof(q, a)' <=> HoldsProof(q, a)
      BY <1>3, <2>1 DEF HoldsProof
    <3>2. StoredAsProof(a)' <=> StoredAsProof(a)
      BY <2>1 DEF StoredAsProof
    <3> QED
      BY <1>2, <1>3, <2>1, <3>1, <3>2, Unmoved
  <2>2. ASSUME stored' = [stored EXCEPT ![b] = s] PROVE StoredAsProof(a)' <=> kind[r] = "proof"
    BY <1>1, <1>6, <1>10, <2>2 DEF StoredAsProof
  <2>3. CASE /\ stored' = [stored EXCEPT ![b] = s]
             /\ got' = [got EXCEPT ![r] = b] /\ wasted' = wasted
    <3>1. \A q \in Reqs : HoldsProof(q, a)' <=> q = r /\ kind[r] = "proof"
      BY <1>1, <1>3, <1>5, <1>10, <2>3 DEF HoldsProof
    <3> QED
      BY <1>3, <1>5, <1>10, <2>2, <2>3, <3>1 DEF OnePlace
  <2>4. CASE /\ stored' = [stored EXCEPT ![b] = s]
             /\ wasted' = IF kind[r] = "proof" THEN wasted \cup {b} ELSE wasted
             /\ got' = got
    <3>1. \A q \in Reqs : ~ HoldsProof(q, a)'
      BY <1>3, <1>5, <1>10, <2>4 DEF HoldsProof
    <3>2. a \in wasted' <=> kind[r] = "proof"
      BY <1>5, <1>10, <2>4
    <3> QED
      BY <1>3, <1>5, <1>10, <2>2, <2>4, <3>1, <3>2 DEF OnePlace
  <2> QED
    BY <1>8, <2>1, <2>3, <2>4
<1> QED
  BY <1>9, <1>10

(* A restart gives up every upload in flight.                                *)
LEMMA RestartPlaces ==
  ASSUME TypeOK, ProofsPlaced, Restart
  PROVE  ProofsPlaced'
<1> SUFFICES ASSUME NEW a \in Assets PROVE OnePlace(a)'
  BY DEF ProofsPlaced
<1>1. OnePlace(a)
  BY DEF ProofsPlaced
<1>2. None # "proof"
  BY IntakeAssumption DEF IntakeAssumption, Kinds
<1>3. /\ \A q \in Reqs : ~ HoldsProof(q, a)'
      /\ a \in wasted' <=> a \in wasted \/ \E q \in Reqs : HoldsProof(q, a)
      /\ proof' = proof
  BY <1>2 DEF Restart, HoldsProof
<1>4. StoredAsProof(a)' <=> StoredAsProof(a)
  BY DEF Restart, StoredAsProof
<1>5. CASE \E q \in Reqs : HoldsProof(q, a)
  BY <1>1, <1>3, <1>4, <1>5 DEF OnePlace
<1>6. CASE ~ \E q \in Reqs : HoldsProof(q, a)
  BY <1>1, <1>3, <1>4, <1>6 DEF OnePlace
<1> QED
  BY <1>5, <1>6

LEMMA ProofsPlacedStep ==
  TypeOK /\ UploadsHold /\ KindsOK /\ ProofsPlaced /\ [Next]_vars => ProofsPlaced'
<1> SUFFICES ASSUME TypeOK, UploadsHold, KindsOK, ProofsPlaced, [Next]_vars PROVE ProofsPlaced'
  OBVIOUS
<1>1. ASSUME UNCHANGED <<proof, stored, wasted>>,
             \A a \in Assets : \A q \in Reqs : HoldsProof(q, a)' <=> HoldsProof(q, a)
      PROVE  ProofsPlaced'
  BY <1>1, Unmoved DEF ProofsPlaced, StoredAsProof
<1>2. ASSUME UNCHANGED <<proof, stored, wasted, kind, got>> PROVE ProofsPlaced'
  BY <1>1, <1>2 DEF HoldsProof
<1>3. ASSUME NEW r \in Reqs, Finish(r), UNCHANGED <<proof, stored, wasted>>,
             kind[r] = "proof" => got[r] = None
      PROVE  ProofsPlaced'
  <2>1. None \notin Assets
    BY IntakeAssumption DEF IntakeAssumption
  <2>2. \A a \in Assets : ~ HoldsProof(r, a)
    BY <1>3, <2>1 DEF HoldsProof
  <2> QED
    BY <1>1, <1>3, <2>2, FinishLetsGo
<1>4. ASSUME NEW r \in Reqs, NEW k, NEW f, NEW loc, Receive(r, k, f, loc) PROVE ProofsPlaced'
  <2>1. /\ pc[r] = "idle" /\ kind' = [kind EXCEPT ![r] = k]
        /\ UNCHANGED <<proof, stored, wasted, got>>
    BY <1>4 DEF Receive, cloud
  <2>2. got[r] = None /\ None \notin Assets /\ kind \in [Reqs -> Kinds \cup {None}]
    BY <2>1, IntakeAssumption DEF IntakeAssumption, UploadsHold, TypeOK
  <2> QED
    BY <1>1, <2>1, <2>2 DEF HoldsProof
<1>5. ASSUME NEW r \in Reqs, ReceiveVideo(r) \/ Validate(r) PROVE ProofsPlaced'
  BY <1>2, <1>5 DEF ReceiveVideo, Validate, regs, cloud
<1>6. ASSUME NEW r \in Reqs, VideoTooLarge(r) \/ Clean(r) \/ AnswerRegistrationImage(r)
      PROVE  ProofsPlaced'
  <2>1. Finish(r) /\ UNCHANGED <<proof, stored, wasted>> /\ kind[r] # "proof"
    BY <1>6 DEF VideoTooLarge, Clean, AnswerRegistrationImage, cloud, KindsOK
  <2> QED
    BY <1>3, <2>1
<1>7. ASSUME NEW r \in Reqs, AnswerPaymentProof(r) PROVE ProofsPlaced'
  BY <1>2, <1>3, <1>7 DEF AnswerPaymentProof, regs, cloud
<1>8. ASSUME NEW r \in Reqs, Attach(r) \/ StoreFails(r) PROVE ProofsPlaced'
  <2>1. kind[r] = "proof" /\ got[r] \in Assets
    BY <1>8 DEF Attach, StoreFails, UploadsHold, TypeOK
  <2>2. \/ UNCHANGED <<proof, stored, wasted, kind, got>>
        \/ Finish(r) /\ UNCHANGED <<proof, stored>> /\ wasted' = wasted \cup {got[r]}
    BY <1>8 DEF Attach, StoreFails, regs
  <2> QED
    BY <1>2, <2>1, <2>2, GivenUp
<1>9. ASSUME NEW r \in Reqs, NEW f \in Files, NEW role \in Roles, UploadVideo(r, role, f)
      PROVE  ProofsPlaced'
  BY <1>4, <1>9 DEF UploadVideo
<1>10. ASSUME NEW r \in Reqs, NEW f \in Files,
              \/ UploadImage(r, f) \/ UploadRegistrationImage(r, f)
              \/ \E p \in Payments : UploadPaymentProof(r, f, p)
       PROVE  ProofsPlaced'
  BY <1>4, <1>10 DEF UploadImage, UploadRegistrationImage, UploadPaymentProof
<1>11. CASE Tick \/ (\E s \in Senders : Admit(s[1], s[2])) \/ (\E p \in Payments : CloseIntent(p))
            \/ UNCHANGED vars
  BY <1>2, <1>11 DEF Tick, Admit, CloseIntent, vars, regs, cloud
<1> QED
  BY <1>5, <1>6, <1>7, <1>8, <1>9, <1>10, <1>11, StoreProofPlaces, StreamPlaces, RestartPlaces
  DEF Next

(* An element, or none, in sets with one element at most.                    *)
LEMMA AtMostOne ==
  ASSUME NEW S, \A x, y \in S : x = y
  PROVE  Cardinality(S) = IF S = {} THEN 0 ELSE 1
<1>1. CASE S = {}
  BY <1>1, FS_EmptySet
<1>2. CASE S # {}
  <2>1. PICK x \in S : TRUE
    BY <1>2
  <2>2. S = {x}
    BY <2>1
  <2> QED
    BY <1>2, <2>2, FS_Singleton
<1> QED
  BY <1>1, <1>2

LEMMA PlacedIsAccounted == ProofsPlaced => ProofsAccounted
<1> SUFFICES ASSUME ProofsPlaced, NEW a \in Assets
             PROVE  LET payments == {p \in Payments : proof[p] = a}
                        uploads == {r \in Reqs : kind[r] = "proof" /\ got[r] = a}
                        places == Cardinality(payments) + Cardinality(uploads)
                                    + (IF a \in wasted THEN 1 ELSE 0)
                    IN places = IF stored[a] # None /\ stored[a].of = "proof" THEN 1 ELSE 0
  BY DEF ProofsAccounted
<1> DEFINE payments == {p \in Payments : proof[p] = a}
           uploads == {r \in Reqs : kind[r] = "proof" /\ got[r] = a}
<1>1. OnePlace(a)
  BY DEF ProofsPlaced
<1>2. Cardinality(payments) = IF payments = {} THEN 0 ELSE 1
  BY <1>1, AtMostOne DEF OnePlace
<1>3. Cardinality(uploads) = IF uploads = {} THEN 0 ELSE 1
  BY <1>1, AtMostOne DEF OnePlace, HoldsProof
<1>4. /\ payments # {} => uploads = {} /\ a \notin wasted
      /\ uploads # {} => a \notin wasted
      /\ StoredAsProof(a) <=> payments # {} \/ uploads # {} \/ a \in wasted
  BY <1>1 DEF OnePlace, HoldsProof
<1> QED
  BY <1>2, <1>3, <1>4 DEF StoredAsProof

(***************************************************************************)
(* Theorems.                                                               *)
(***************************************************************************)

(* What the registers, the limiter and the assets may hold.                  *)
THEOREM IntakeTypeCorrect == Spec => []TypeOK
<1>1. Init => TypeOK /\ UploadsHold
  BY InitTypeOK, InitProofs
<1>2. TypeOK /\ UploadsHold /\ [Next]_vars => (TypeOK /\ UploadsHold)'
  BY TypeOKStep, UploadsHoldStep
<1> QED
  BY <1>1, <1>2, PTL DEF Spec

(* No Window lets more than Limit requests through under one key, nor more   *)
(* from one address than Limit for each key its requests had (the address is *)
(* the key when it names no other, x-forwarded-for), while the process lives.*)
THEOREM RateIsBounded == Spec => []RateBounded
<1> DEFINE IndInv == TypeOK /\ UploadsHold /\ RecentComplete /\ RecentPassed /\ KeysBounded
<1>1. Init => IndInv
  BY InitTypeOK, InitProofs, InitLimiter
<1>2. IndInv /\ [Next]_vars => IndInv'
  BY TypeOKStep, UploadsHoldStep, RecentCompleteStep, RecentPassedStep, KeysBoundedStep
<1>3. IndInv => RateBounded
  BY AddressesBounded
<1> QED
  BY <1>1, <1>2, <1>3, PTL DEF Spec

(* A client that was told its upload is the proof of its payment was told    *)
(* the truth, and a proof on a payment is a picture that was uploaded as one. *)
THEOREM ProofsAreAsTold == Spec => []ProofsAsTold
<1> DEFINE IndInv == TypeOK /\ UploadsHold /\ ProofsAsTold
<1>1. Init => IndInv
  BY InitTypeOK, InitProofs
<1>2. IndInv /\ [Next]_vars => IndInv'
  BY TypeOKStep, UploadsHoldStep, ProofsAsToldStep
<1> QED
  BY <1>1, <1>2, PTL DEF Spec

(* Every temporary file belongs to a video upload in flight, or was left by  *)
(* a restart or an unlink that failed, whatever is refused, misconfigured or *)
(* failing (the finally block of UploadsService.upload, multer's clean-up).  *)
THEOREM NoFilesForgotten == Spec => []TemporaryFilesRemoved
<1> DEFINE IndInv == TypeOK /\ UploadsHold /\ KindsOK /\ TemporaryFilesRemoved
<1>1. Init => IndInv
  BY InitTypeOK, InitProofs, InitFiles
<1>2. IndInv /\ [Next]_vars => IndInv'
  BY TypeOKStep, UploadsHoldStep, KindsOKStep, TemporaryFilesStep
<1> QED
  BY <1>1, <1>2, PTL DEF Spec

(* An image stored as a proof is the proof of one payment, in the hands of   *)
(* one upload, or known to be unused: never two of these, and never lost     *)
(* track of, whatever uploads of one payment overlap, fail or are cut off by *)
(* a restart (uploadPaymentProof, attachProof).                              *)
THEOREM ProofsAreAccounted == Spec => []ProofsAccounted
<1> DEFINE IndInv == TypeOK /\ UploadsHold /\ KindsOK /\ ProofsPlaced
<1>1. Init => IndInv
  BY InitTypeOK, InitProofs, InitFiles, InitPlaced
<1>2. IndInv /\ [Next]_vars => IndInv'
  BY TypeOKStep, UploadsHoldStep, KindsOKStep, ProofsPlacedStep
<1>3. IndInv => ProofsAccounted
  BY PlacedIsAccounted
<1> QED
  BY <1>1, <1>2, <1>3, PTL DEF Spec
=============================================================================
