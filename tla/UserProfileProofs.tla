-------------------------- MODULE UserProfileProofs -------------------------
(***************************************************************************)
(* What UserProfile shows for any number of concurrent requests, any cap   *)
(* on the gallery, any age of majority and any birth dates.  A request     *)
(* carries what it has read and checked (RequestOK), and rows, objects and *)
(* the clock only move in the direction that keeps it true (StillOK).      *)
(***************************************************************************)
EXTENDS UserProfile, SequenceTheorems, TLAPS

----------------------------------------------------------------------------
\* Dates, galleries, and what a request carries at each of its steps

Time == [year : Nat, day : Nat]

Adult(d, now) ==
    LET adult == d.year + AdultAge IN
    now.year > adult \/ (now.year = adult /\ now.day >= Birthday(d, adult))

Born(d, now) == d # None => Adult(d, now)

\* A list that may stand in a row while the bucket holds photos 1 .. n.
GalleryOK(list, n) ==
    /\ list \in Photos /\ Len(list) <= MAX_USER_PHOTOS
    /\ \A i \in 1 .. Len(list) : list[i] \in 1 .. n \cup {Foreign}

GallerySteps == {"uploadPhoto", "writeAdd", "writeRemove"}

DtoOK(a, n) ==
    /\ a.avatarData \in BOOLEAN /\ a.dateOfBirth \in Dates \cup {None}
    /\ a.preferences \in {"keep", "set", "clear"}
    /\ a.photos # None => GalleryOK(a.photos, n)

RequestOK(p, a, s, av, n, now, acc, met) ==
    /\ p \in GallerySteps => GalleryOK(s, n)
    /\ p \in {"uploadPhoto", "writeAdd"} => Len(s) < MAX_USER_PHOTOS
    /\ p = "writeAdd" => a \in 1 .. n
    /\ p = "writeRemove" => a \in 1 .. Len(s)
    /\ p \notin GallerySteps => s = None
    /\ p \in {"uploadAvatar", "writeUpdate"} => DtoOK(a, n)
    /\ p = "writeUpdate" => Born(a.dateOfBirth, now) /\ (a.avatarData => av)
    /\ p \in {"upsertUser", "upsertMetrics", "upsertProfile"} =>
          /\ a.dateOfBirth \in Dates \cup {None} /\ Born(a.dateOfBirth, now)
          /\ a.onboardingComplete \in BOOLEAN
    /\ p = "upsertMetrics" => acc
    /\ p = "upsertProfile" => acc /\ met

Here(r) == RequestOK(pc[r], arg[r], seen[r], avatar, uploads, today, account, metrics)

----------------------------------------------------------------------------
\* The inductive invariant

GlobalOK ==
    /\ account \in BOOLEAN /\ metrics \in BOOLEAN /\ avatar \in BOOLEAN /\ cleared \in BOOLEAN
    /\ uploads \in 0 .. MaxUploads /\ today \in Time
    /\ metrics => account

RowOK ==
    profile # None =>
        /\ profile \in Profile /\ GalleryOK(profile.photos, uploads)
        /\ profile.avatarUrl => avatar
        /\ Born(profile.dateOfBirth, today)
        /\ account
        /\ profile.onboardingComplete =>
              metrics /\ ((profile.gender /\ profile.seekingGenders) \/ cleared)

LocalsOK ==
    /\ pc \in [Requests -> Steps] /\ DOMAIN arg = Requests /\ DOMAIN seen = Requests
    /\ \A r \in Requests : Here(r)

\* The row a request has read stays, and who is not overtaken has read its
\* gallery as it stands.
Current ==
    /\ overtaken \subseteq {r \in Requests : pc[r] \in GallerySteps}
    /\ \A r \in Requests :
          pc[r] \in GallerySteps =>
              profile # None /\ (r \notin overtaken => seen[r] = profile.photos)

ProfileInv == GlobalOK /\ RowOK /\ LocalsOK /\ Current

----------------------------------------------------------------------------
\* Lemmas about dates and lists

LEMMA AgeMeansAdult ==
  ASSUME NEW d \in Dates, today \in Time, Age(d, today) >= AdultAge
  PROVE  Adult(d, today)
  <1>1. d.year \in Nat /\ AdultAge \in Nat /\ today.year \in Nat /\ today.day \in Nat
    BY ProfileAssumption DEF Time
  <1>2. \A y : Birthday(d, y) \in Nat
    BY ProfileAssumption DEF Birthday
  <1>3. CASE today.day < Birthday(d, today.year)
    <2>1. today.year - d.year - 1 >= AdultAge
      BY <1>3 DEF Age
    <2> QED  BY <1>1, <2>1 DEF Adult
  <1>4. CASE ~(today.day < Birthday(d, today.year))
    <2>1. today.year - d.year - 0 >= AdultAge
      BY <1>4 DEF Age
    <2>2. today.day >= Birthday(d, today.year)
      BY <1>1, <1>2, <1>4
    <2>3. CASE today.year = d.year + AdultAge
      BY <2>2, <2>3 DEF Adult
    <2>4. CASE today.year # d.year + AdultAge
      BY <1>1, <2>1, <2>4 DEF Adult
    <2> QED  BY <2>3, <2>4
  <1> QED  BY <1>3, <1>4

LEMMA OfAgeMeansBorn ==
  ASSUME NEW d \in Dates \cup {None}, today \in Time, OfAge(d)
  PROVE  Born(d, today)
  BY AgeMeansAdult DEF OfAge, Born

\* A birthday that is past stays past.
LEMMA TickKeepsAdults ==
  ASSUME NEW d \in Dates \cup {None}, today \in Time, Tick, Born(d, today)
  PROVE  today' \in Time /\ Born(d, today')
  <1>1. today.year \in Nat /\ today.day \in Nat
    BY DEF Time
  <1>2. /\ today' \in Time
        /\ \/ today'.year > today.year
           \/ today'.year = today.year /\ today'.day >= today.day
    BY <1>1 DEF Tick, Time
  <1>3. CASE d = None
    BY <1>2, <1>3 DEF Born
  <1>4. CASE d # None
    <2>1. d.year + AdultAge \in Nat /\ Birthday(d, d.year + AdultAge) \in Nat
      BY <1>4, ProfileAssumption DEF Birthday
    <2>2. Adult(d, today)
      BY <1>4 DEF Born
    <2>3. today'.year \in Nat /\ today'.day \in Nat
      BY <1>2 DEF Time
    <2> QED  BY <1>1, <1>2, <2>1, <2>2, <2>3 DEF Born, Adult
  <1> QED  BY <1>3, <1>4

LEMMA GalleryGrows ==
  ASSUME NEW list, NEW n \in Nat, NEW k \in Nat, n <= k, GalleryOK(list, n)
  PROVE  GalleryOK(list, k)
  BY DEF GalleryOK

LEMMA EmptyGallery ==
  ASSUME NEW n \in Nat
  PROVE  GalleryOK(<<>>, n)
  BY EmptySeq, ProfileAssumption DEF GalleryOK, Photos

LEMMA ForeignGallery ==
  ASSUME NEW n \in Nat
  PROVE  GalleryOK(<<Foreign>>, n)
  <1>1. <<Foreign>> \in [1 .. 1 -> Nat \cup {Foreign}]
    OBVIOUS
  <1>2. <<Foreign>> \in Photos /\ Len(<<Foreign>>) = 1 /\ <<Foreign>>[1] = Foreign
    BY <1>1 DEF Photos
  <1> QED  BY <1>2, ProfileAssumption DEF GalleryOK

LEMMA ReversedGallery ==
  ASSUME NEW n \in Nat, NEW list, GalleryOK(list, n)
  PROVE  GalleryOK(Reverse(list), n)
  <1>1. Len(list) \in Nat /\ \A i \in 1 .. Len(list) : list[i] \in Nat \cup {Foreign}
    BY LenProperties, ElementOfSeq DEF GalleryOK, Photos
  <1>2. \A i \in 1 .. Len(list) : (Len(list) - i) + 1 \in 1 .. Len(list)
    BY <1>1
  <1>3. /\ Reverse(list) \in [1 .. Len(list) -> Nat \cup {Foreign}]
        /\ \A i \in 1 .. Len(list) : Reverse(list)[i] = list[(Len(list) - i) + 1]
    BY <1>1, <1>2 DEF Reverse
  <1>4. Reverse(list) \in Photos
    BY <1>1, <1>3 DEF Photos
  <1>5. Len(Reverse(list)) = Len(list)
    BY <1>1, <1>3, <1>4, LenProperties DEF Photos
  <1> QED  BY <1>1, <1>2, <1>3, <1>4, <1>5 DEF GalleryOK

LEMMA LongerGallery ==
  ASSUME NEW n \in Nat, NEW list, GalleryOK(list, n), Len(list) < MAX_USER_PHOTOS, NEW a \in 1 .. n
  PROVE  GalleryOK(Append(list, a), n)
  <1>1. list \in Seq(Nat \cup {Foreign}) /\ a \in Nat \cup {Foreign} /\ Len(list) \in Nat
    BY LenProperties DEF GalleryOK, Photos
  <1>2. /\ Append(list, a) \in Photos /\ Len(Append(list, a)) = Len(list) + 1
        /\ \A i \in 1 .. Len(list) : Append(list, a)[i] = list[i]
        /\ Append(list, a)[Len(list) + 1] = a
    BY <1>1, AppendProperties DEF Photos
  <1> QED  BY <1>1, <1>2, ProfileAssumption DEF GalleryOK

LEMMA ShorterGallery ==
  ASSUME NEW n \in Nat, NEW list, GalleryOK(list, n), NEW i \in 1 .. Len(list)
  PROVE  GalleryOK(RemoveAt(list, i), n)
  <1> DEFINE S == 1 .. n \cup {Foreign}
             front == SubSeq(list, 1, i - 1)
             back == SubSeq(list, i + 1, Len(list))
  <1>1. Len(list) \in Nat /\ i \in Nat /\ \A k \in 1 .. Len(list) : list[k] \in S
    BY LenProperties DEF GalleryOK, Photos
  <1>2. front \in Seq(S) /\ Len(front) = i - 1
    <2>1. \A k \in 1 .. i - 1 : list[k] \in S
      BY <1>1
    <2> QED  BY <1>1, <2>1, SubSeqProperties
  <1>3. back \in Seq(S) /\ Len(back) = Len(list) - i
    <2>1. \A k \in i + 1 .. Len(list) : list[k] \in S
      BY <1>1
    <2> QED  BY <1>1, <2>1, SubSeqProperties
  <1>4. front \o back \in Seq(S) /\ Len(front \o back) = Len(list) - 1
    <2> HIDE DEF front, back, S
    <2>1. front \o back \in Seq(S) /\ Len(front \o back) = Len(front) + Len(back)
      BY <1>2, <1>3, ConcatProperties
    <2> QED  BY <1>1, <1>2, <1>3, <2>1
  <1>5. front \o back \in Photos
    <2>1. S \subseteq Nat \cup {Foreign}
      OBVIOUS
    <2> QED  BY <1>4, <2>1, SeqMonotonic DEF Photos
  <1>6. \A k \in 1 .. Len(front \o back) : (front \o back)[k] \in S
    BY <1>4, ElementOfSeq
  <1>7. RemoveAt(list, i) = front \o back
    BY DEF RemoveAt
  <1>8. Len(list) - 1 <= MAX_USER_PHOTOS
    BY <1>1, ProfileAssumption DEF GalleryOK
  <1> HIDE DEF front, back
  <1> QED  BY <1>4, <1>5, <1>6, <1>7, <1>8 DEF GalleryOK

LEMMA StillOK ==
  ASSUME NEW p, NEW a, NEW s, NEW av, NEW av2, NEW n \in Nat, NEW n2 \in Nat, NEW now, NEW now2,
         NEW acc, NEW acc2, NEW met, NEW met2, RequestOK(p, a, s, av, n, now, acc, met),
         av => av2, n <= n2, \A d \in Dates \cup {None} : Born(d, now) => Born(d, now2),
         acc => acc2, met => met2
  PROVE  RequestOK(p, a, s, av2, n2, now2, acc2, met2)
  <1>1. \A list : GalleryOK(list, n) => GalleryOK(list, n2)
    BY GalleryGrows
  <1> QED  BY <1>1 DEF RequestOK, DtoOK

----------------------------------------------------------------------------
\* Steps of one request

\* Rows, objects and the clock move in one direction only.
Forward ==
    /\ avatar => avatar'
    /\ account => account'
    /\ metrics => metrics'
    /\ uploads \in Nat /\ uploads' \in Nat /\ uploads <= uploads'
    /\ \A d \in Dates \cup {None} : Born(d, today) => Born(d, today')

OthersKept(r) ==
    \A q \in Requests \ {r} : pc'[q] = pc[q] /\ arg'[q] = arg[q] /\ seen'[q] = seen[q]

LEMMA LocalsStep ==
  ASSUME LocalsOK, Forward, NEW r \in Requests, OthersKept(r), pc' \in [Requests -> Steps],
         DOMAIN arg' = Requests, DOMAIN seen' = Requests,
         RequestOK(pc'[r], arg'[r], seen'[r], avatar', uploads', today', account', metrics')
  PROVE  LocalsOK'
  <1> SUFFICES ASSUME NEW q \in Requests
               PROVE  RequestOK(pc'[q], arg'[q], seen'[q], avatar', uploads', today', account', metrics')
    BY DEF LocalsOK, Here
  <1>1. CASE q = r
    BY <1>1
  <1>2. CASE q # r
    <2>1. RequestOK(pc[q], arg[q], seen[q], avatar, uploads, today, account, metrics)
      BY DEF LocalsOK, Here
    <2>2. RequestOK(pc[q], arg[q], seen[q], avatar', uploads', today', account', metrics')
      BY <2>1, StillOK DEF Forward
    <2> QED  BY <1>2, <2>2 DEF OthersKept
  <1> QED  BY <1>1, <1>2

\* A step that neither writes a gallery nor begins to read one.
LEMMA CurrentKept ==
  ASSUME Current, NEW r \in Requests, OthersKept(r),
         pc[r] \in GallerySteps => (r \notin overtaken' /\ pc'[r] \notin GallerySteps)
                                   \/ (pc'[r] \in GallerySteps /\ seen'[r] = seen[r]),
         pc[r] \notin GallerySteps => pc'[r] \notin GallerySteps,
         overtaken' = overtaken \/ overtaken' = overtaken \ {r},
         overtaken' = overtaken \/ pc'[r] \notin GallerySteps,
         profile # None => profile' # None /\ profile'.photos = profile.photos
  PROVE  Current'
  BY DEF Current, OthersKept

\* A step that writes the gallery: every other reader is overtaken.
LEMMA CurrentOvertaken ==
  ASSUME LocalsOK, Current, NEW r \in Requests, OthersKept(r), Overtake(r),
         pc'[r] \notin GallerySteps, profile # None => profile' # None
  PROVE  Current'
  <1>1. \A q \in Requests : pc[q] \in GallerySteps => seen[q] # None
    BY ProfileAssumption DEF LocalsOK, Here, RequestOK, GalleryOK
  <1>2. \A q \in Requests : pc[q] \notin GallerySteps => seen[q] = None
    BY DEF LocalsOK, Here, RequestOK
  <1> QED  BY <1>1, <1>2 DEF Current, Overtake, OthersKept

LEMMA BornDates ==
  ASSUME GlobalOK
  PROVE  uploads \in Nat /\ today \in Time
  BY ProfileAssumption DEF GlobalOK

LEMMA BeginStep ==
  ASSUME LocalsOK, NEW r \in Requests, NEW p \in Steps, NEW a, Begin(r, p, a)
  PROVE  /\ pc[r] = "idle" /\ pc' \in [Requests -> Steps] /\ DOMAIN arg' = Requests
         /\ pc'[r] = p /\ arg'[r] = a
         /\ \A q \in Requests \ {r} : pc'[q] = pc[q] /\ arg'[q] = arg[q]
  BY DEF LocalsOK, Begin

LEMMA FinishStep ==
  ASSUME LocalsOK, NEW r \in Requests, Finish(r)
  PROVE  /\ OthersKept(r) /\ pc' \in [Requests -> Steps] /\ DOMAIN arg' = Requests
         /\ DOMAIN seen' = Requests /\ pc'[r] = "idle" /\ arg'[r] = None /\ seen'[r] = None
  BY DEF LocalsOK, Finish, OthersKept, Steps

LEMMA GotoStep ==
  ASSUME LocalsOK, NEW r \in Requests, NEW p \in Steps, Goto(r, p)
  PROVE  /\ OthersKept(r) /\ pc' \in [Requests -> Steps] /\ DOMAIN arg' = Requests
         /\ DOMAIN seen' = Requests /\ pc'[r] = p /\ arg'[r] = arg[r] /\ seen'[r] = seen[r]
  BY DEF LocalsOK, Goto, OthersKept

LEMMA IdleOK ==
  ASSUME NEW a, NEW av, NEW n, NEW now, NEW acc, NEW met
  PROVE  RequestOK("idle", a, None, av, n, now, acc, met)
  BY DEF RequestOK, GallerySteps

----------------------------------------------------------------------------
\* The gallery

\* A request reads the photos it will write over.
LEMMA ReadGalleryInv ==
  ASSUME ProfileInv, NEW r \in Requests, NEW p \in {"uploadPhoto", "writeRemove"}, NEW a,
         profile # None, Begin(r, p, a), seen' = [seen EXCEPT ![r] = profile.photos],
         UNCHANGED <<rows, bucket, today, history>>,
         p = "uploadPhoto" => Len(profile.photos) < MAX_USER_PHOTOS,
         p = "writeRemove" => a \in 1 .. Len(profile.photos)
  PROVE  ProfileInv'
  <1> USE DEF ProfileInv, rows, bucket, history
  <1>1. /\ pc[r] = "idle" /\ pc' \in [Requests -> Steps] /\ DOMAIN arg' = Requests
        /\ pc'[r] = p /\ arg'[r] = a
        /\ \A q \in Requests \ {r} : pc'[q] = pc[q] /\ arg'[q] = arg[q]
    BY BeginStep DEF Steps
  <1>2. DOMAIN seen' = Requests /\ seen'[r] = profile.photos /\ OthersKept(r)
    BY <1>1 DEF LocalsOK, OthersKept
  <1>3. GlobalOK' /\ RowOK' /\ Forward
    BY BornDates DEF GlobalOK, RowOK, Forward
  <1>4. RequestOK(p, a, profile.photos, avatar, uploads, today, account, metrics)
    BY DEF RowOK, RequestOK, GallerySteps
  <1>5. LocalsOK'
    BY <1>1, <1>2, <1>3, <1>4, LocalsStep
  <1>6. Current'
    BY <1>1, <1>2 DEF Current, OthersKept, GallerySteps
  <1> QED  BY <1>3, <1>5, <1>6

LEMMA AddPhotoInv ==
  ASSUME ProfileInv, NEW r \in Requests, AddPhoto(r)
  PROVE  ProfileInv'
  BY ReadGalleryInv DEF AddPhoto

LEMMA RemovePhotoInv ==
  ASSUME ProfileInv, NEW r \in Requests, NEW i \in 1 .. MAX_USER_PHOTOS, RemovePhoto(r, i)
  PROVE  ProfileInv'
  <1>1. DOMAIN profile.photos = 1 .. Len(profile.photos)
    BY LenProperties DEF RemovePhoto, ProfileInv, RowOK, GalleryOK, Photos
  <1> QED  BY <1>1, ReadGalleryInv DEF RemovePhoto

LEMMA UploadPhotoInv ==
  ASSUME ProfileInv, NEW r \in Requests, UploadPhoto(r)
  PROVE  ProfileInv'
  <1> USE DEF ProfileInv, UploadPhoto, rows, history
  <1>1. /\ pc' \in [Requests -> Steps] /\ DOMAIN arg' = Requests /\ DOMAIN seen' = Requests
        /\ pc'[r] = "writeAdd" /\ arg'[r] = uploads + 1 /\ seen'[r] = seen[r] /\ OthersKept(r)
    BY DEF LocalsOK, Steps, OthersKept
  <1>2. uploads \in Nat /\ uploads' = uploads + 1
    BY BornDates
  <1>3. Forward
    BY <1>2 DEF Forward
  <1>4. GlobalOK'
    BY <1>2, ProfileAssumption DEF GlobalOK
  <1>5. RowOK'
    <2>1. \A list : GalleryOK(list, uploads) => GalleryOK(list, uploads')
      BY <1>2, GalleryGrows
    <2> QED  BY <2>1 DEF RowOK
  <1>6. GalleryOK(seen[r], uploads') /\ Len(seen[r]) < MAX_USER_PHOTOS
    <2>1. GalleryOK(seen[r], uploads) /\ Len(seen[r]) < MAX_USER_PHOTOS
      BY DEF LocalsOK, Here, RequestOK, GallerySteps
    <2> QED  BY <1>2, <2>1, GalleryGrows
  <1>7. RequestOK("writeAdd", uploads + 1, seen[r], avatar, uploads', today, account, metrics)
    BY <1>2, <1>6 DEF RequestOK, GallerySteps
  <1>8. LocalsOK'
    BY <1>1, <1>3, <1>7, LocalsStep
  <1>9. Current'
    BY <1>1, CurrentKept DEF GallerySteps
  <1> QED  BY <1>4, <1>5, <1>8, <1>9

LEMMA WriteGalleryInv ==
  ASSUME ProfileInv, NEW r \in Requests, pc[r] \in GallerySteps, NEW list, GalleryOK(list, uploads),
         WriteGallery(r, list)
  PROVE  ProfileInv'
  <1> USE DEF ProfileInv, WriteGallery, bucket
  <1>1. /\ OthersKept(r) /\ pc' \in [Requests -> Steps] /\ DOMAIN arg' = Requests
        /\ DOMAIN seen' = Requests /\ pc'[r] = "idle" /\ arg'[r] = None /\ seen'[r] = None
    BY FinishStep
  <1>2. GlobalOK' /\ Forward
    BY BornDates DEF GlobalOK, Forward
  <1>3. profile # None /\ profile \in Profile
    BY DEF Current, RowOK
  <1>4. /\ profile' \in Profile /\ profile'.photos = list
        /\ profile'.avatarUrl = profile.avatarUrl
        /\ profile'.dateOfBirth = profile.dateOfBirth
        /\ profile'.gender = profile.gender /\ profile'.seekingGenders = profile.seekingGenders
        /\ profile'.onboardingComplete = profile.onboardingComplete
    BY <1>3 DEF Profile, GalleryOK
  <1>5. profile' # None
    BY <1>4, ProfileAssumption
  <1>6. RowOK'
    BY <1>3, <1>4 DEF RowOK
  <1>7. LocalsOK'
    BY <1>1, <1>2, LocalsStep, IdleOK
  <1>8. Current'
    BY <1>1, <1>5, CurrentOvertaken DEF GallerySteps
  <1> QED  BY <1>2, <1>6, <1>7, <1>8

LEMMA WriteAddInv ==
  ASSUME ProfileInv, NEW r \in Requests, WriteAdd(r)
  PROVE  ProfileInv'
  <1>1. GalleryOK(seen[r], uploads) /\ Len(seen[r]) < MAX_USER_PHOTOS /\ arg[r] \in 1 .. uploads
    BY DEF ProfileInv, LocalsOK, Here, RequestOK, GallerySteps, WriteAdd
  <1>2. GalleryOK(Append(seen[r], arg[r]), uploads)
    BY <1>1, BornDates, LongerGallery DEF ProfileInv
  <1> QED  BY <1>2, WriteGalleryInv DEF WriteAdd, GallerySteps

LEMMA WriteRemoveInv ==
  ASSUME ProfileInv, NEW r \in Requests, WriteRemove(r)
  PROVE  ProfileInv'
  <1>1. GalleryOK(seen[r], uploads) /\ arg[r] \in 1 .. Len(seen[r])
    BY DEF ProfileInv, LocalsOK, Here, RequestOK, GallerySteps, WriteRemove
  <1>2. GalleryOK(RemoveAt(seen[r], arg[r]), uploads)
    BY <1>1, BornDates, ShorterGallery DEF ProfileInv
  <1> QED  BY <1>2, WriteGalleryInv DEF WriteRemove, GallerySteps

----------------------------------------------------------------------------
\* The profile

\* What a PATCH may carry is bounded when it arrives.
LEMMA DtoFacts ==
  ASSUME GlobalOK, RowOK, NEW dto \in UpdateProfileDto
  PROVE  DtoOK(dto, uploads)
  <1>1. \A list \in Lists : GalleryOK(list, uploads)
    <2>1. GalleryOK(<<>>, uploads) /\ GalleryOK(<<Foreign>>, uploads)
      BY BornDates, EmptyGallery, ForeignGallery
    <2>2. profile # None => GalleryOK(Reverse(profile.photos), uploads)
      BY BornDates, ReversedGallery DEF RowOK
    <2> QED  BY <2>1, <2>2 DEF Lists
  <1>2. \A list \in Lists : DtoOK(SendPhotos(list), uploads)
    BY <1>1 DEF DtoOK, NoField, SendPhotos
  <1>3. \A a \in BOOLEAN, d \in Dates : DtoOK(SendAvatar(a, d), uploads)
    BY DEF DtoOK, NoField, SendAvatar
  <1>4. \A p \in {"set", "clear"} : DtoOK(SendPreferences(p), uploads)
    BY DEF DtoOK, NoField, SendPreferences
  <1>5. \/ \E list \in Lists : dto = SendPhotos(list)
        \/ \E a \in BOOLEAN, d \in Dates : dto = SendAvatar(a, d)
        \/ \E p \in {"set", "clear"} : dto = SendPreferences(p)
    BY DEF UpdateProfileDto
  <1> QED  BY <1>2, <1>3, <1>4, <1>5

\* A request that reads no gallery begins.
LEMMA BeginInv ==
  ASSUME ProfileInv, NEW r \in Requests, NEW p \in Steps \ GallerySteps, NEW a, Begin(r, p, a),
         UNCHANGED <<rows, bucket, today, seen, history>>,
         RequestOK(p, a, None, avatar, uploads, today, account, metrics)
  PROVE  ProfileInv'
  <1> USE DEF ProfileInv, rows, bucket, history
  <1>1. /\ pc[r] = "idle" /\ pc' \in [Requests -> Steps] /\ DOMAIN arg' = Requests
        /\ pc'[r] = p /\ arg'[r] = a
        /\ \A q \in Requests \ {r} : pc'[q] = pc[q] /\ arg'[q] = arg[q]
    BY BeginStep
  <1>2. DOMAIN seen' = Requests /\ OthersKept(r)
    BY <1>1 DEF LocalsOK, OthersKept
  <1>3. seen[r] = None
    BY <1>1 DEF LocalsOK, Here, RequestOK, GallerySteps
  <1>4. GlobalOK' /\ RowOK' /\ Forward
    BY BornDates DEF GlobalOK, RowOK, Forward
  <1>5. LocalsOK'
    BY <1>1, <1>2, <1>3, <1>4, LocalsStep
  <1>6. Current'
    BY <1>1, <1>2, CurrentKept DEF GallerySteps
  <1> QED  BY <1>4, <1>5, <1>6

LEMMA UpdateProfileInv ==
  ASSUME ProfileInv, NEW r \in Requests, NEW dto \in UpdateProfileDto, UpdateProfile(r, dto)
  PROVE  ProfileInv'
  <1>1. DtoOK(dto, uploads)
    BY DtoFacts DEF ProfileInv
  <1>2. RequestOK("uploadAvatar", dto, None, avatar, uploads, today, account, metrics)
    BY <1>1 DEF RequestOK, GallerySteps
  <1>3. CASE dto.avatarData /\ Begin(r, "uploadAvatar", dto)
    BY <1>2, <1>3, BeginInv DEF UpdateProfile, Steps, GallerySteps
  <1>4. CASE ~dto.avatarData /\ OfAge(dto.dateOfBirth) /\ Begin(r, "writeUpdate", dto)
    <2>1. Born(dto.dateOfBirth, today)
      BY <1>1, <1>4, OfAgeMeansBorn DEF DtoOK, ProfileInv, GlobalOK
    <2>2. RequestOK("writeUpdate", dto, None, avatar, uploads, today, account, metrics)
      BY <1>1, <1>4, <2>1 DEF RequestOK, GallerySteps
    <2> QED  BY <1>4, <2>2, BeginInv DEF UpdateProfile, Steps, GallerySteps
  <1> QED  BY <1>3, <1>4 DEF UpdateProfile

LEMMA CompleteOnboardingInv ==
  ASSUME ProfileInv, NEW r \in Requests, NEW dob \in Dates \cup {None}, NEW complete \in BOOLEAN,
         CompleteOnboarding(r, dob, complete)
  PROVE  ProfileInv'
  <1> DEFINE a == [dateOfBirth |-> dob, onboardingComplete |-> complete]
  <1>1. Born(dob, today)
    BY OfAgeMeansBorn DEF CompleteOnboarding, ProfileInv, GlobalOK
  <1>2. RequestOK("upsertUser", a, None, avatar, uploads, today, account, metrics)
    BY <1>1 DEF RequestOK, GallerySteps
  <1> QED  BY <1>2, BeginInv DEF CompleteOnboarding, Steps, GallerySteps

LEMMA BootstrapInv ==
  ASSUME ProfileInv, NEW r \in Requests, Bootstrap(r)
  PROVE  ProfileInv'
  <1>1. RequestOK("bootProfile", None, None, avatar, uploads, today, account, metrics)
    BY DEF RequestOK, GallerySteps
  <1> QED  BY <1>1, BeginInv DEF Bootstrap, Steps, GallerySteps

\* A step outside the gallery that ends the request or takes it to its next one.
LEMMA MoveInv ==
  ASSUME ProfileInv, NEW r \in Requests, pc[r] \notin GallerySteps, NEW p \in Steps \ GallerySteps,
         \/ Goto(r, p) /\ RequestOK(p, arg[r], None, avatar', uploads', today', account', metrics')
         \/ Finish(r),
         overtaken' = overtaken, Forward, GlobalOK', RowOK',
         profile # None => profile' # None /\ profile'.photos = profile.photos
  PROVE  ProfileInv'
  <1> USE DEF ProfileInv
  <1>1. seen[r] = None
    BY DEF LocalsOK, Here, RequestOK, GallerySteps
  <1>2. CASE Goto(r, p) /\ RequestOK(p, arg[r], None, avatar', uploads', today', account', metrics')
    <2>1. /\ OthersKept(r) /\ pc' \in [Requests -> Steps] /\ DOMAIN arg' = Requests
          /\ DOMAIN seen' = Requests /\ pc'[r] = p /\ arg'[r] = arg[r] /\ seen'[r] = seen[r]
      BY <1>2, GotoStep
    <2> QED  BY <1>1, <1>2, <2>1, LocalsStep, CurrentKept
  <1>3. CASE Finish(r)
    <2>1. /\ OthersKept(r) /\ pc' \in [Requests -> Steps] /\ DOMAIN arg' = Requests
          /\ DOMAIN seen' = Requests /\ pc'[r] = "idle" /\ arg'[r] = None /\ seen'[r] = None
      BY <1>3, FinishStep
    <2>2. "idle" \notin GallerySteps
      BY DEF GallerySteps
    <2> QED  BY <2>1, <2>2, LocalsStep, IdleOK, CurrentKept
  <1> QED  BY <1>2, <1>3

LEMMA UploadAvatarInv ==
  ASSUME ProfileInv, NEW r \in Requests, UploadAvatar(r)
  PROVE  ProfileInv'
  <1> USE DEF ProfileInv, UploadAvatar, rows, history
  <1>1. GlobalOK' /\ RowOK' /\ Forward
    BY BornDates DEF GlobalOK, RowOK, Forward
  <1>2. DtoOK(arg[r], uploads)
    BY DEF LocalsOK, Here, RequestOK
  <1>3. OfAge(arg[r].dateOfBirth) =>
           RequestOK("writeUpdate", arg[r], None, avatar', uploads', today', account', metrics')
    <2>1. OfAge(arg[r].dateOfBirth) => Born(arg[r].dateOfBirth, today)
      BY <1>2, OfAgeMeansBorn DEF DtoOK, GlobalOK
    <2> QED  BY <1>2, <2>1 DEF RequestOK, GallerySteps
  <1>4. pc[r] \notin GallerySteps /\ "writeUpdate" \in Steps \ GallerySteps
    BY DEF GallerySteps, Steps
  <1> QED  BY <1>1, <1>3, <1>4, MoveInv

LEMMA WriteUpdateInv ==
  ASSUME ProfileInv, NEW r \in Requests, WriteUpdate(r)
  PROVE  ProfileInv'
  <1> USE DEF ProfileInv, WriteUpdate, bucket
  <1>1. pc[r] \notin GallerySteps /\ "idle" \in Steps \ GallerySteps
    BY DEF GallerySteps, Steps
  <1>2. Forward /\ GlobalOK'
    <2>1. cleared' = cleared \/ cleared' = (cleared \/ arg[r].preferences = "clear")
      BY DEF history
    <2>2. cleared' \in BOOLEAN
      BY <2>1 DEF GlobalOK
    <2> QED  BY <2>2, BornDates DEF Forward, GlobalOK
  <1>3. CASE profile = None
    <2>1. RowOK'
      BY <1>3 DEF RowOK
    <2> QED  BY <1>1, <1>2, <1>3, <2>1, MoveInv DEF history
  <1>4. CASE profile # None
    <2> DEFINE a == arg[r]
    <2>1. DtoOK(a, uploads) /\ Born(a.dateOfBirth, today) /\ (a.avatarData => avatar)
      BY DEF LocalsOK, Here, RequestOK
    <2>2. profile \in Profile /\ profile' = Updated(profile, a)
      BY <1>4 DEF RowOK
    <2>3. /\ profile' \in Profile
          /\ profile'.avatarUrl <=> profile.avatarUrl \/ a.avatarData
          /\ profile'.photos = IF a.photos = None THEN profile.photos ELSE a.photos
          /\ profile'.dateOfBirth = IF a.dateOfBirth = None THEN profile.dateOfBirth ELSE a.dateOfBirth
          /\ profile.gender /\ a.preferences # "clear" => profile'.gender
          /\ profile.seekingGenders /\ a.preferences # "clear" => profile'.seekingGenders
          /\ profile'.onboardingComplete = profile.onboardingComplete
      <3>1. /\ profile'.avatarUrl = (profile.avatarUrl \/ a.avatarData)
            /\ profile'.gender = ((profile.gender \/ a.preferences = "set") /\ a.preferences # "clear")
            /\ profile'.seekingGenders
                  = ((profile.seekingGenders \/ a.preferences = "set") /\ a.preferences # "clear")
        BY <2>2 DEF Updated, Profile
      <3>2. /\ profile'.photos = IF a.photos = None THEN profile.photos ELSE a.photos
            /\ profile'.dateOfBirth
                  = IF a.dateOfBirth = None THEN profile.dateOfBirth ELSE a.dateOfBirth
            /\ profile'.onboardingComplete = profile.onboardingComplete
        BY <2>2 DEF Updated, Profile
      <3>3. profile' \in Profile
        <4> DEFINE row == [photos |-> profile'.photos, avatarUrl |-> profile'.avatarUrl,
                           dateOfBirth |-> profile'.dateOfBirth, gender |-> profile'.gender,
                           seekingGenders |-> profile'.seekingGenders,
                           onboardingComplete |-> profile'.onboardingComplete]
        <4>1. profile' = row
          BY <2>2 DEF Updated, Profile
        <4>2. /\ row.avatarUrl \in BOOLEAN /\ row.gender \in BOOLEAN /\ row.seekingGenders \in BOOLEAN
              /\ row.onboardingComplete \in BOOLEAN
          BY <2>2, <3>1, <3>2 DEF Profile
        <4>3. row.photos \in Photos /\ row.dateOfBirth \in Dates \cup {None}
          BY <2>1, <2>2, <3>2 DEF Profile, DtoOK, GalleryOK
        <4> QED  BY <4>1, <4>2, <4>3 DEF Profile
      <3> QED  BY <3>1, <3>2, <3>3
    <2>4. profile' # None
      BY <2>3, ProfileAssumption
    <2>5. RowOK'
      BY <1>4, <2>1, <2>3 DEF RowOK, DtoOK
    <2>6. CASE a.photos = None
      BY <1>1, <1>2, <1>4, <2>3, <2>4, <2>5, <2>6, MoveInv
    <2>7. CASE a.photos # None
      <3>1. /\ OthersKept(r) /\ pc' \in [Requests -> Steps] /\ DOMAIN arg' = Requests
            /\ DOMAIN seen' = Requests /\ pc'[r] = "idle" /\ arg'[r] = None /\ seen'[r] = None
        BY FinishStep
      <3>2. LocalsOK'
        BY <1>2, <3>1, LocalsStep, IdleOK
      <3>3. Current'
        BY <1>1, <1>4, <2>4, <2>7, <3>1, CurrentOvertaken
      <3> QED  BY <1>2, <2>5, <3>2, <3>3
    <2> QED  BY <2>6, <2>7
  <1> QED  BY <1>3, <1>4

----------------------------------------------------------------------------
\* Onboarding

LEMMA UpsertUserInv ==
  ASSUME ProfileInv, NEW r \in Requests, UpsertUser(r)
  PROVE  ProfileInv'
  <1> USE DEF ProfileInv, UpsertUser, bucket, history
  <1>1. GlobalOK' /\ RowOK' /\ Forward
    BY BornDates DEF GlobalOK, RowOK, Forward
  <1>2. RequestOK("upsertMetrics", arg[r], None, avatar', uploads', today', account', metrics')
    BY DEF LocalsOK, Here, RequestOK, GallerySteps
  <1>3. pc[r] \notin GallerySteps /\ "upsertMetrics" \in Steps \ GallerySteps
    BY DEF GallerySteps, Steps
  <1> QED  BY <1>1, <1>2, <1>3, MoveInv

LEMMA UpsertMetricsInv ==
  ASSUME ProfileInv, NEW r \in Requests, UpsertMetrics(r)
  PROVE  ProfileInv'
  <1> USE DEF ProfileInv, UpsertMetrics, bucket, history
  <1>1. account
    BY DEF LocalsOK, Here, RequestOK
  <1>2. GlobalOK' /\ RowOK' /\ Forward
    BY <1>1, BornDates DEF GlobalOK, RowOK, Forward
  <1>3. RequestOK("upsertProfile", arg[r], None, avatar', uploads', today', account', metrics')
    BY <1>1 DEF LocalsOK, Here, RequestOK, GallerySteps
  <1>4. pc[r] \notin GallerySteps /\ "upsertProfile" \in Steps \ GallerySteps
    BY DEF GallerySteps, Steps
  <1> QED  BY <1>2, <1>3, <1>4, MoveInv

LEMMA EmptyProfileFacts == EmptyProfile \in Profile /\ EmptyProfile # None
  <1>1. EmptyProfile \in Profile
    BY EmptySeq DEF EmptyProfile, Profile, Photos
  <1> QED  BY <1>1, ProfileAssumption

LEMMA UpsertProfileInv ==
  ASSUME ProfileInv, NEW r \in Requests, UpsertProfile(r)
  PROVE  ProfileInv'
  <1> USE DEF ProfileInv, UpsertProfile, bucket, history
  <1> DEFINE a == arg[r]
             row == IF profile # None THEN profile ELSE EmptyProfile
  <1>1. /\ account /\ metrics /\ a.dateOfBirth \in Dates \cup {None}
        /\ Born(a.dateOfBirth, today) /\ a.onboardingComplete \in BOOLEAN
    BY DEF LocalsOK, Here, RequestOK
  <1>2. profile' = Onboarded(row, a)
    BY <1>1
  <1>3. /\ row \in Profile /\ GalleryOK(row.photos, uploads) /\ (row.avatarUrl => avatar)
        /\ Born(row.dateOfBirth, today)
    <2>1. CASE profile # None
      BY <2>1 DEF RowOK
    <2>2. CASE profile = None
      BY <2>2, EmptyProfileFacts, BornDates, EmptyGallery DEF EmptyProfile, Born
    <2> QED  BY <2>1, <2>2
  <1>4. /\ profile' \in Profile /\ profile'.photos = row.photos
        /\ profile'.avatarUrl = row.avatarUrl
        /\ profile'.dateOfBirth = IF a.dateOfBirth = None THEN row.dateOfBirth ELSE a.dateOfBirth
        /\ profile'.gender /\ profile'.seekingGenders
    <2> HIDE DEF row
    <2> QED  BY <1>1, <1>2, <1>3 DEF Onboarded, Profile
  <1>5. profile' # None
    BY <1>4, ProfileAssumption
  <1>6. GlobalOK' /\ Forward
    BY BornDates DEF GlobalOK, Forward
  <1>7. RowOK'
    <2> HIDE DEF row
    <2> QED  BY <1>1, <1>3, <1>4 DEF RowOK
  <1>8. pc[r] \notin GallerySteps /\ "idle" \in Steps \ GallerySteps
    BY DEF GallerySteps, Steps
  <1> QED  BY <1>4, <1>5, <1>6, <1>7, <1>8, MoveInv

LEMMA BootProfileInv ==
  ASSUME ProfileInv, NEW r \in Requests, BootProfile(r)
  PROVE  ProfileInv'
  <1> USE DEF ProfileInv, BootProfile, bucket, history
  <1>1. GlobalOK' /\ Forward
    BY BornDates DEF GlobalOK, Forward
  <1>2. RowOK'
    <2>1. CASE profile' = profile
      BY <2>1 DEF RowOK
    <2>2. CASE profile' = EmptyProfile /\ account
      <3>1. GalleryOK(EmptyProfile.photos, uploads)
        BY BornDates, EmptyGallery DEF EmptyProfile
      <3> QED  BY <2>2, <3>1, EmptyProfileFacts DEF RowOK, EmptyProfile, Born
    <2> QED  BY <2>1, <2>2
  <1>3. RequestOK("bootMetrics", arg[r], None, avatar', uploads', today', account', metrics')
    BY DEF RequestOK, GallerySteps
  <1>4. pc[r] \notin GallerySteps /\ "bootMetrics" \in Steps \ GallerySteps
    BY DEF GallerySteps, Steps
  <1> QED  BY <1>1, <1>2, <1>3, <1>4, MoveInv

LEMMA BootMetricsInv ==
  ASSUME ProfileInv, NEW r \in Requests, BootMetrics(r)
  PROVE  ProfileInv'
  <1> USE DEF ProfileInv, BootMetrics, bucket, history
  <1>1. GlobalOK' /\ Forward /\ RowOK'
    BY BornDates DEF GlobalOK, Forward, RowOK
  <1>2. pc[r] \notin GallerySteps /\ "idle" \in Steps \ GallerySteps
    BY DEF GallerySteps, Steps
  <1> QED  BY <1>1, <1>2, MoveInv

----------------------------------------------------------------------------
\* Failures, the clock, and the specification

LEMMA RequestFailsInv ==
  ASSUME ProfileInv, NEW r \in Requests, RequestFails(r)
  PROVE  ProfileInv'
  <1> USE DEF ProfileInv, RequestFails, rows, bucket
  <1>1. /\ OthersKept(r) /\ pc' \in [Requests -> Steps] /\ DOMAIN arg' = Requests
        /\ DOMAIN seen' = Requests /\ pc'[r] = "idle" /\ arg'[r] = None /\ seen'[r] = None
    BY FinishStep
  <1>2. GlobalOK' /\ Forward /\ RowOK'
    BY BornDates DEF GlobalOK, Forward, RowOK
  <1>3. LocalsOK'
    BY <1>1, <1>2, LocalsStep, IdleOK
  <1>4. Current'
    BY <1>1 DEF Current, OthersKept, GallerySteps
  <1> QED  BY <1>2, <1>3, <1>4

LEMMA TickInv ==
  ASSUME ProfileInv, Tick
  PROVE  ProfileInv'
  <1> USE DEF ProfileInv, rows, bucket, locals, history
  <1>1. UNCHANGED <<account, metrics, profile, avatar, uploads, pc, arg, seen, overtaken, cleared>>
    BY DEF Tick
  <1>2. \A d \in Dates \cup {None} : Born(d, today) => Born(d, today')
    BY BornDates, TickKeepsAdults
  <1>3. today' \in Time
    BY BornDates DEF Tick, Time
  <1>4. GlobalOK' /\ Current'
    BY <1>1, <1>3 DEF GlobalOK, Current
  <1>5. RowOK'
    BY <1>1, <1>2 DEF RowOK, Profile
  <1>6. LocalsOK'
    <2>1. \A r \in Requests :
             RequestOK(pc[r], arg[r], seen[r], avatar, uploads, today', account, metrics)
      BY <1>2, BornDates, StillOK DEF LocalsOK, Here
    <2> QED  BY <1>1, <2>1 DEF LocalsOK, Here
  <1> QED  BY <1>4, <1>5, <1>6

LEMMA ProfileStutterInv ==
  ASSUME ProfileInv, UNCHANGED profileVars
  PROVE  ProfileInv'
  BY DEF ProfileInv, profileVars, rows, bucket, locals, history, GlobalOK, RowOK, LocalsOK, Here, Current

LEMMA ProfileInitInv == ProfileInit => ProfileInv
  <1> SUFFICES ASSUME ProfileInit PROVE ProfileInv
    OBVIOUS
  <1> USE DEF ProfileInit
  <1>1. GlobalOK
    <2>1. today \in Time
      BY DEF Time
    <2>2. uploads \in 0 .. MaxUploads
      BY ProfileAssumption
    <2>3. metrics \in BOOLEAN /\ (metrics => account) /\ avatar \in BOOLEAN /\ cleared \in BOOLEAN
      OBVIOUS
    <2> QED  BY <2>1, <2>2, <2>3 DEF GlobalOK
  <1>2. RowOK
    <2>1. GalleryOK(EmptyProfile.photos, 0)
      BY EmptyGallery DEF EmptyProfile
    <2> QED  BY <2>1, EmptyProfileFacts DEF RowOK, EmptyProfile, Born
  <1>3. LocalsOK
    BY IdleOK DEF LocalsOK, Here, Steps
  <1>4. Current
    BY DEF Current, GallerySteps
  <1> QED  BY <1>1, <1>2, <1>3, <1>4 DEF ProfileInv

LEMMA ProfileStepInv == ProfileInv /\ [ProfileNext]_profileVars => ProfileInv'
  <1> SUFFICES ASSUME ProfileInv, [ProfileNext]_profileVars PROVE ProfileInv'
    OBVIOUS
  <1>1. CASE Tick
    BY <1>1, TickInv
  <1>2. CASE \E r \in Requests : Gallery(r)
    BY <1>2, AddPhotoInv, UploadPhotoInv, WriteAddInv, WriteRemoveInv, RemovePhotoInv DEF Gallery
  <1>3. CASE \E r \in Requests : Update(r)
    BY <1>3, UploadAvatarInv, WriteUpdateInv, UpdateProfileInv DEF Update
  <1>4. CASE \E r \in Requests : Onboard(r)
    BY <1>4, CompleteOnboardingInv, UpsertUserInv, UpsertMetricsInv, UpsertProfileInv, BootstrapInv,
       BootProfileInv, BootMetricsInv DEF Onboard
  <1>5. CASE \E r \in Requests : RequestFails(r)
    BY <1>5, RequestFailsInv
  <1>6. CASE UNCHANGED profileVars
    BY <1>6, ProfileStutterInv
  <1> QED  BY <1>1, <1>2, <1>3, <1>4, <1>5, <1>6 DEF ProfileNext

LEMMA ProfileInvariant == ProfileSpec => []ProfileInv
  BY ProfileInitInv, ProfileStepInv, PTL DEF ProfileSpec

----------------------------------------------------------------------------
\* What follows

(* Types; a request holds a list of photos exactly between its read and    *)
(* its write.                                                              *)
THEOREM ProfileTypeCorrect == ProfileSpec => []ProfileTypeOK
  <1>1. ProfileInv => ProfileTypeOK
    <2> SUFFICES ASSUME ProfileInv PROVE ProfileTypeOK
      OBVIOUS
    <2> USE DEF ProfileInv
    <2>1. \A r \in Requests : seen[r] # None <=> pc[r] \in GallerySteps
      BY ProfileAssumption DEF LocalsOK, Here, RequestOK, GalleryOK
    <2>2. overtaken \subseteq {r \in Requests : seen[r] # None}
      BY <2>1 DEF Current
    <2>3. ASSUME profile # None PROVE profile.photos \in Seq(Urls)
      <3>1. /\ profile.photos \in Seq(Nat \cup {Foreign})
            /\ \A i \in 1 .. Len(profile.photos) : profile.photos[i] \in Urls
        BY <2>3 DEF RowOK, GalleryOK, Photos, Urls
      <3>2. /\ Len(profile.photos) \in Nat
            /\ profile.photos \in [1 .. Len(profile.photos) -> Nat \cup {Foreign}]
        BY <3>1, LenProperties
      <3>3. profile.photos \in [1 .. Len(profile.photos) -> Urls]
        BY <3>1, <3>2
      <3> QED  BY <3>2, <3>3
    <2>4. profile # None => /\ profile.dateOfBirth \in Dates \cup {None}
                            /\ profile.gender \in BOOLEAN /\ profile.seekingGenders \in BOOLEAN
                            /\ profile.avatarUrl \in BOOLEAN /\ profile.onboardingComplete \in BOOLEAN
                            /\ account
      BY DEF RowOK, Profile
    <2>5. /\ account \in BOOLEAN /\ metrics \in BOOLEAN /\ avatar \in BOOLEAN /\ cleared \in BOOLEAN
          /\ uploads \in 0 .. MaxUploads /\ (metrics => account) /\ pc \in [Requests -> Steps]
      BY DEF GlobalOK, LocalsOK
    <2> QED  BY <2>1, <2>2, <2>3, <2>4, <2>5 DEF ProfileTypeOK, GallerySteps
  <1> QED  BY <1>1, ProfileInvariant, PTL

(* The gallery never exceeds its cap and names objects that exist, for any *)
(* number of requests that counted it before they wrote.                   *)
THEOREM GalleryIsSound == ProfileSpec => []GallerySound
  <1>1. ProfileInv => GallerySound
    <2> SUFFICES ASSUME ProfileInv, profile # None
                 PROVE  /\ Len(profile.photos) <= MAX_USER_PHOTOS
                        /\ \A i \in DOMAIN profile.photos : profile.photos[i] \in Urls
                        /\ profile.avatarUrl => avatar
      BY DEF GallerySound
    <2>1. GalleryOK(profile.photos, uploads) /\ (profile.avatarUrl => avatar)
      BY DEF ProfileInv, RowOK
    <2>2. DOMAIN profile.photos = 1 .. Len(profile.photos)
      BY <2>1, LenProperties DEF GalleryOK, Photos
    <2> QED  BY <2>1, <2>2 DEF GalleryOK, Urls
  <1> QED  BY <1>1, ProfileInvariant, PTL

(* No stored birth date is ever a minor's, for any age of majority, any    *)
(* dates and however long ago the request was checked.                     *)
THEOREM OnlyAdults == ProfileSpec => []AdultsOnly
  <1>1. ProfileInv => AdultsOnly
    BY DEF ProfileInv, RowOK, AdultsOnly, Born, Adult
  <1> QED  BY <1>1, ProfileInvariant, PTL

(* Onboarding is complete only with all rows of the user.                  *)
THEOREM OnboardedIsComplete == ProfileSpec => []OnboardedComplete
  <1>1. ProfileInv => OnboardedComplete
    BY DEF ProfileInv, RowOK, OnboardedComplete
  <1> QED  BY <1>1, ProfileInvariant, PTL

(* A gallery write is exact unless another one fell between its read and   *)
(* itself, for any number of requests and photos.                          *)
THEOREM GalleryWritesExact == ProfileSpec => GalleryWrites
  <1> DEFINE Exact(r) ==
        \/ r \in overtaken
        \/ pc[r] = "writeAdd" /\ profile'.photos = profile.photos \o <<arg[r]>>
        \/ /\ pc[r] = "writeRemove"
           /\ profile'.photos = SubSeq(profile.photos, 1, arg[r] - 1)
                                \o SubSeq(profile.photos, arg[r] + 1, Len(profile.photos))
             A == \A r \in Requests :
                    (pc[r] \in {"writeAdd", "writeRemove"} /\ profile' # profile /\ pc'[r] = "idle")
                        => Exact(r)
  <1>1. ProfileInv /\ [ProfileNext]_profileVars => [A]_profileVars
    <2> SUFFICES ASSUME ProfileInv, ProfileNext, NEW r \in Requests, r \notin overtaken,
                        pc[r] \in {"writeAdd", "writeRemove"}, profile' # profile, pc'[r] = "idle"
                 PROVE  Exact(r)
      OBVIOUS
    <2> USE DEF ProfileInv
    <2>1. profile # None /\ profile \in Profile /\ seen[r] = profile.photos
      BY DEF Current, RowOK, GallerySteps
    <2>2. WriteAdd(r) \/ WriteRemove(r)
      <3>1. ASSUME NEW q \in Requests, q # r, NEW p, pc' = [pc EXCEPT ![q] = p]
            PROVE  FALSE
        BY <3>1 DEF LocalsOK
      <3>2. ~Tick
        BY DEF Tick, rows
      <3>3. ASSUME NEW q \in Requests, Gallery(q) \/ Update(q) \/ Onboard(q) \/ RequestFails(q)
            PROVE  q = r
        BY <3>1, <3>3 DEF Gallery, Update, Onboard, RequestFails, AddPhoto, UploadPhoto, WriteAdd,
           WriteRemove, RemovePhoto, UploadAvatar, WriteUpdate, UpdateProfile, CompleteOnboarding,
           UpsertUser, UpsertMetrics, UpsertProfile, Bootstrap, BootProfile, BootMetrics, Begin,
           Goto, Finish, WriteGallery
      <3>4. Gallery(r) \/ Update(r) \/ Onboard(r) \/ RequestFails(r)
        BY <3>2, <3>3 DEF ProfileNext
      <3> QED  BY <3>4 DEF Gallery, Update, Onboard, RequestFails, AddPhoto, UploadPhoto, RemovePhoto,
                  UploadAvatar, WriteUpdate, UpdateProfile, CompleteOnboarding, UpsertUser,
                  UpsertMetrics, UpsertProfile, Bootstrap, BootProfile, BootMetrics, Begin, rows
    <2>3. CASE WriteAdd(r)
      <3>1. profile'.photos = Append(profile.photos, arg[r])
        BY <2>1, <2>3 DEF WriteAdd, WriteGallery, Profile
      <3>2. arg[r] \in Nat \cup {Foreign} /\ profile.photos \in Seq(Nat \cup {Foreign})
        BY <2>1, <2>3, BornDates DEF WriteAdd, LocalsOK, Here, RequestOK, Profile, Photos
      <3> QED  BY <2>3, <3>1, <3>2, AppendIsConcat DEF WriteAdd
    <2>4. CASE WriteRemove(r)
      BY <2>1, <2>4 DEF WriteRemove, WriteGallery, Profile, RemoveAt
    <2> QED  BY <2>2, <2>3, <2>4
  <1> QED  BY <1>1, ProfileInvariant, PTL DEF ProfileSpec, GalleryWrites
=============================================================================
