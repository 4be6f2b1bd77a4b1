----------------------------- MODULE UserProfile ----------------------------
(***************************************************************************)
(* user-service: the profile of one user, its photo gallery and its        *)
(* onboarding, as concurrent requests over the user's rows of users,       *)
(* user_metrics and user_profiles and over its objects in the storage      *)
(* bucket.  Requests of other users touch other rows and other objects.    *)
(*                                                                         *)
(* Each await is a step.  A request refused before its first write changes *)
(* nothing and is left out; the text fields are left out too.              *)
(***************************************************************************)
EXTENDS Naturals, SequencesExt

CONSTANTS Requests,        \* concurrent requests to user-service
          MAX_USER_PHOTOS, \* 5 in the code
          AdultAge,        \* 18 in the code
          Dates,           \* birth dates a client sends
          LastYear,        \* bound: the clock
          MaxUploads,      \* bound: photos uploaded
          Foreign,         \* a URL that names no object of this bucket
          None             \* null, or a field the client leaves out

\* The rows of user_profiles; a list of photos names them by number or is Foreign.
Photos == Seq(Nat \cup {Foreign})
Profile == [photos : Photos, avatarUrl : BOOLEAN, dateOfBirth : Dates \cup {None},
            gender : BOOLEAN, seekingGenders : BOOLEAN, onboardingComplete : BOOLEAN]

ASSUME ProfileAssumption ==
    /\ MAX_USER_PHOTOS \in Nat \ {0} /\ AdultAge \in Nat /\ LastYear \in Nat /\ MaxUploads \in Nat
    /\ \A d \in Dates : d.year \in Nat /\ d.day \in Nat
    /\ Foreign \notin Nat /\ None \notin Dates \cup Photos \cup Profile

VARIABLES
    account,   \* whether the user's row of users exists
    metrics,   \* whether its row of user_metrics exists
    profile,   \* its row of user_profiles, or None
    avatar,    \* whether the bucket holds <userId>.jpg
    uploads,   \* photos in the bucket, 1 .. uploads by their random names
    today,     \* the clock
    pc, arg,   \* where each request is, and what it was given
    seen,      \* the photos it has read
    overtaken, \* history: requests whose photos were written over since they read them
    cleared    \* history: a PATCH took gender or seekingGenders away

rows == <<account, metrics, profile>>
bucket == <<avatar, uploads>>
locals == <<pc, arg, seen>>
history == <<overtaken, cleared>>
profileVars == <<rows, bucket, today, locals, history>>

Steps == {"idle", "uploadAvatar", "writeUpdate", "uploadPhoto", "writeAdd", "writeRemove",
          "upsertUser", "upsertMetrics", "upsertProfile", "bootProfile", "bootMetrics"}

EmptyProfile == [photos |-> <<>>, avatarUrl |-> FALSE, dateOfBirth |-> None,
                 gender |-> FALSE, seekingGenders |-> FALSE, onboardingComplete |-> FALSE]

Begin(r, step, a) == /\ pc[r] = "idle"
                     /\ pc' = [pc EXCEPT ![r] = step]
                     /\ arg' = [arg EXCEPT ![r] = a]

\* Every other request that holds a list it has read is behind from here on.
Overtake(r) == overtaken' = {q \in Requests \ {r} : q \in overtaken \/ seen[q] # None}

Goto(r, step) == pc' = [pc EXCEPT ![r] = step] /\ UNCHANGED <<arg, seen>>

Finish(r) == /\ pc' = [pc EXCEPT ![r] = "idle"]
             /\ arg' = [arg EXCEPT ![r] = None]
             /\ seen' = [seen EXCEPT ![r] = None]

----------------------------------------------------------------------------
\* Ages.  Day 2 of a year is its leap day; Date() takes it to day 3 elsewhere.

Leap(y) == y % 4 = 0
Birthday(dob, y) == IF dob.day = 2 /\ ~Leap(y) THEN 3 ELSE dob.day

AgeOfYear(dob, now) == now.year - dob.year         \* mutant: no birthday correction
Age(dob, now) == now.year - dob.year - IF now.day < Birthday(dob, now.year) THEN 1 ELSE 0

\* The date a client sends is absent, or one of an adult; the rest is refused.
OfAge(dob) == dob # None => Age(dob, today) >= AdultAge

----------------------------------------------------------------------------
\* updateProfile

\* UpdateProfileDto: absent fields, a list of at most MAX_USER_PHOTOS URLs, and
\* null or empty preferences, which the decorators let through.  Bound: one
\* group of fields at a time.
NoField == [avatarData |-> FALSE, photos |-> None, dateOfBirth |-> None, preferences |-> "keep"]
Lists == {<<>>, <<Foreign>>} \cup IF profile = None THEN {} ELSE {Reverse(profile.photos)}

SendPhotos(list) == [NoField EXCEPT !.photos = list]
SendAvatar(a, d) == [NoField EXCEPT !.avatarData = a, !.dateOfBirth = d]
SendPreferences(p) == [NoField EXCEPT !.preferences = p]

UpdateProfileDto == {SendPhotos(list) : list \in Lists}
                    \cup {SendAvatar(a, d) : a \in BOOLEAN, d \in Dates}
                    \cup {SendPreferences(p) : p \in {"set", "clear"}}

UpdateProfile(r, dto) ==
    /\ \/ dto.avatarData /\ Begin(r, "uploadAvatar", dto)
       \/ ~dto.avatarData /\ OfAge(dto.dateOfBirth) /\ Begin(r, "writeUpdate", dto)
    /\ UNCHANGED <<rows, bucket, today, seen, history>>

\* uploadAvatar overwrites the object; the checks come after it.
UploadAvatar(r) ==
    /\ pc[r] = "uploadAvatar"
    /\ avatar' = TRUE
    /\ IF OfAge(arg[r].dateOfBirth) THEN Goto(r, "writeUpdate") ELSE Finish(r)
    /\ UNCHANGED <<rows, uploads, today, history>>

Updated(row, dto) ==
    [row EXCEPT !.avatarUrl = @ \/ dto.avatarData,
                !.photos = IF dto.photos = None THEN @ ELSE dto.photos,
                !.dateOfBirth = IF dto.dateOfBirth = None THEN @ ELSE dto.dateOfBirth,
                !.gender = (@ \/ dto.preferences = "set") /\ dto.preferences # "clear",
                !.seekingGenders = (@ \/ dto.preferences = "set") /\ dto.preferences # "clear"]

\* userProfile.update, which rejects when there is no row.
WriteUpdate(r) ==
    /\ pc[r] = "writeUpdate"
    /\ IF profile = None
       THEN UNCHANGED <<profile, history>>
       ELSE /\ profile' = Updated(profile, arg[r])
            /\ IF arg[r].photos = None THEN UNCHANGED overtaken ELSE Overtake(r)
            /\ cleared' = (cleared \/ arg[r].preferences = "clear")
    /\ Finish(r)
    /\ UNCHANGED <<account, metrics, bucket, today>>

----------------------------------------------------------------------------
\* addPhoto, removePhoto

AddPhotoLoose(r) ==                     \* mutant: > for >=
    /\ profile # None /\ Len(profile.photos) <= MAX_USER_PHOTOS
    /\ Begin(r, "uploadPhoto", None)
    /\ seen' = [seen EXCEPT ![r] = profile.photos]
    /\ UNCHANGED <<rows, bucket, today, history>>

AddPhoto(r) ==
    /\ profile # None /\ Len(profile.photos) < MAX_USER_PHOTOS
    /\ Begin(r, "uploadPhoto", None)
    /\ seen' = [seen EXCEPT ![r] = profile.photos]
    /\ UNCHANGED <<rows, bucket, today, history>>

\* uploadPhoto: an object of its own, under a random name.
UploadPhoto(r) ==
    /\ pc[r] = "uploadPhoto" /\ uploads < MaxUploads
    /\ uploads' = uploads + 1
    /\ pc' = [pc EXCEPT ![r] = "writeAdd"]
    /\ arg' = [arg EXCEPT ![r] = uploads + 1]
    /\ UNCHANGED <<rows, avatar, today, seen, history>>

\* userProfile.update with a whole list made from the one that was read.
WriteGallery(r, list) ==
    /\ profile' = [profile EXCEPT !.photos = list]
    /\ Overtake(r)
    /\ Finish(r)
    /\ UNCHANGED <<account, metrics, bucket, today, cleared>>

WriteAddFirst(r) ==                     \* mutant: the photo goes to the front
    /\ pc[r] = "writeAdd"
    /\ WriteGallery(r, <<arg[r]>> \o seen[r])

WriteAdd(r) ==
    /\ pc[r] = "writeAdd"
    /\ WriteGallery(r, Append(seen[r], arg[r]))

RemovePhoto(r, i) ==
    /\ profile # None /\ i \in DOMAIN profile.photos
    /\ Begin(r, "writeRemove", i)
    /\ seen' = [seen EXCEPT ![r] = profile.photos]
    /\ UNCHANGED <<rows, bucket, today, history>>

WriteRemove(r) ==
    /\ pc[r] = "writeRemove"
    /\ WriteGallery(r, RemoveAt(seen[r], arg[r]))

----------------------------------------------------------------------------
\* completeOnboarding, bootstrap

CompleteOnboarding(r, dob, complete) ==
    /\ OfAge(dob)
    /\ Begin(r, "upsertUser", [dateOfBirth |-> dob, onboardingComplete |-> complete])
    /\ UNCHANGED <<rows, bucket, today, seen, history>>

UpsertUserOnly(r) ==                    \* mutant: no user_metrics row
    /\ pc[r] = "upsertUser"
    /\ account' = TRUE
    /\ Goto(r, "upsertProfile")
    /\ UNCHANGED <<metrics, profile, bucket, today, history>>

UpsertUser(r) ==
    /\ pc[r] = "upsertUser"
    /\ account' = TRUE
    /\ Goto(r, "upsertMetrics")
    /\ UNCHANGED <<metrics, profile, bucket, today, history>>

\* A row is created only for a user that exists: the foreign keys on user_id.
UpsertMetrics(r) ==
    /\ pc[r] = "upsertMetrics"
    /\ metrics' = (metrics \/ account)
    /\ IF metrics \/ account THEN Goto(r, "upsertProfile") ELSE Finish(r)
    /\ UNCHANGED <<account, profile, bucket, today, history>>

Onboarded(row, dto) ==
    [row EXCEPT !.dateOfBirth = IF dto.dateOfBirth = None THEN @ ELSE dto.dateOfBirth,
                !.gender = TRUE, !.seekingGenders = TRUE,
                !.onboardingComplete = dto.onboardingComplete]

UpsertProfile(r) ==
    /\ pc[r] = "upsertProfile"
    /\ profile' = IF profile # None THEN Onboarded(profile, arg[r])
                  ELSE IF account THEN Onboarded(EmptyProfile, arg[r]) ELSE None
    /\ Finish(r)
    /\ UNCHANGED <<account, metrics, bucket, today, history>>

Bootstrap(r) ==
    /\ Begin(r, "bootProfile", None)
    /\ UNCHANGED <<rows, bucket, today, seen, history>>

BootProfile(r) ==
    /\ pc[r] = "bootProfile"
    /\ profile' = IF profile = None /\ account THEN EmptyProfile ELSE profile
    /\ IF profile' # None THEN Goto(r, "bootMetrics") ELSE Finish(r)
    /\ UNCHANGED <<account, metrics, bucket, today, history>>

BootMetrics(r) ==
    /\ pc[r] = "bootMetrics"
    /\ metrics' = (metrics \/ account)
    /\ Finish(r)
    /\ UNCHANGED <<account, profile, bucket, today, history>>

----------------------------------------------------------------------------
\* An upload or a database call rejects, or the process dies.
RequestFails(r) ==
    /\ pc[r] # "idle"
    /\ Finish(r)
    /\ overtaken' = overtaken \ {r}
    /\ UNCHANGED <<rows, bucket, today, cleared>>

\* A year of three days: one before the leap day, the leap day, one after it.
Tick ==
    /\ today.year <= LastYear
    /\ today' = IF today.day = 3 THEN [year |-> today.year + 1, day |-> 1]
                ELSE IF today.day = 1 /\ ~Leap(today.year) THEN [today EXCEPT !.day = 3]
                ELSE [today EXCEPT !.day = @ + 1]
    /\ UNCHANGED <<rows, bucket, locals, history>>

----------------------------------------------------------------------------
\* All rows exist (AuthTokens), or none: a token of an earlier database.
ProfileInit ==
    /\ account \in BOOLEAN
    /\ metrics = account /\ profile = IF account THEN EmptyProfile ELSE None
    /\ avatar = FALSE /\ uploads = 0
    /\ today = [year |-> 1, day |-> 1]
    /\ pc = [r \in Requests |-> "idle"]
    /\ arg = [r \in Requests |-> None]
    /\ seen = [r \in Requests |-> None]
    /\ overtaken = {} /\ cleared = FALSE

Gallery(r) == AddPhoto(r) \/ UploadPhoto(r) \/ WriteAdd(r) \/ WriteRemove(r)
              \/ \E i \in 1 .. MAX_USER_PHOTOS : RemovePhoto(r, i)

Update(r) == UploadAvatar(r) \/ WriteUpdate(r) \/ \E dto \in UpdateProfileDto : UpdateProfile(r, dto)

Onboard(r) ==
    \/ \E dob \in Dates \cup {None}, complete \in BOOLEAN : CompleteOnboarding(r, dob, complete)
    \/ UpsertUser(r) \/ UpsertMetrics(r) \/ UpsertProfile(r)
    \/ Bootstrap(r) \/ BootProfile(r) \/ BootMetrics(r)

ProfileNext == Tick \/ \E r \in Requests : Gallery(r) \/ Update(r) \/ Onboard(r) \/ RequestFails(r)

ProfileSpec == ProfileInit /\ [][ProfileNext]_profileVars

----------------------------------------------------------------------------
Urls == 1 .. uploads \cup {Foreign}

(* Types; a profile and a metrics row belong to a user that exists, and a  *)
(* request holds a list of photos exactly between its read and its write.  *)
ProfileTypeOK ==
    /\ account \in BOOLEAN /\ metrics \in BOOLEAN /\ avatar \in BOOLEAN /\ cleared \in BOOLEAN
    /\ metrics \/ profile # None => account
    /\ uploads \in 0 .. MaxUploads
    /\ profile # None =>
          /\ profile.photos \in Seq(Urls)
          /\ profile.dateOfBirth \in Dates \cup {None}
          /\ profile.gender \in BOOLEAN /\ profile.seekingGenders \in BOOLEAN
          /\ profile.avatarUrl \in BOOLEAN /\ profile.onboardingComplete \in BOOLEAN
    /\ pc \in [Requests -> Steps]
    /\ \A r \in Requests : seen[r] # None <=> pc[r] \in {"uploadPhoto", "writeAdd", "writeRemove"}
    /\ overtaken \subseteq {r \in Requests : seen[r] # None}

(* addPhoto and removePhoto act on the gallery as it stands, the photo at  *)
(* the end, the index removed, unless another gallery write fell between   *)
(* their read and their write: only an overlap loses or revives a photo.   *)
GalleryWrites ==
    [][\A r \in Requests :
          (pc[r] \in {"writeAdd", "writeRemove"} /\ profile' # profile /\ pc'[r] = "idle")
              => \/ r \in overtaken
                 \/ pc[r] = "writeAdd" /\ profile'.photos = profile.photos \o <<arg[r]>>
                 \/ /\ pc[r] = "writeRemove"
                    /\ profile'.photos = SubSeq(profile.photos, 1, arg[r] - 1)
                                         \o SubSeq(profile.photos, arg[r] + 1, Len(profile.photos))
      ]_profileVars

(* The gallery never exceeds MAX_USER_PHOTOS, however many requests        *)
(* counted it before they wrote, and a link is written after its object:   *)
(* avatar_url and every photo that is not the client's own URL name one of *)
(* the bucket (addPhoto's cap, uploadAvatar, uploadPhoto).                 *)
GallerySound ==
    profile # None =>
        /\ Len(profile.photos) <= MAX_USER_PHOTOS
        /\ \A i \in DOMAIN profile.photos : profile.photos[i] \in Urls
        /\ profile.avatarUrl => avatar

(* No stored birth date is a minor's: its AdultAge-th birthday is past,    *)
(* leap days included, on the day it is stored and every later day         *)
(* (updateProfile, completeOnboarding).                                    *)
AdultsOnly ==
    (profile # None /\ profile.dateOfBirth # None) =>
        LET dob == profile.dateOfBirth  adult == dob.year + AdultAge IN
        today.year > adult \/ (today.year = adult /\ today.day >= Birthday(dob, adult))

(* Whoever completed onboarding has all rows, also with a token of an      *)
(* earlier database, and preferences unless a PATCH took them away         *)
(* ("so FK constraints are always satisfied", users.service.ts:81).        *)
OnboardedComplete ==
    (profile # None /\ profile.onboardingComplete) =>
        /\ account /\ metrics
        /\ (profile.gender /\ profile.seekingGenders) \/ cleared
=============================================================================
