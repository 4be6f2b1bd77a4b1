------------------------------ MODULE Discovery -----------------------------
(***************************************************************************)
(* MatchingService.discovery: one GET /discovery of the user Me, query by  *)
(* query, while profiles are edited, metrics recalculated and matches made *)
(* (UserProfile, Scoring and MatchLifecycle are the modules of those).     *)
(*                                                                         *)
(* Ratios are hundredths, rounded down.  Names, pictures and ages of the   *)
(* answer are left out.                                                    *)
(***************************************************************************)
EXTENDS Integers, Sequences, FiniteSets

CONSTANTS Me, Others,
          Profiles,    \* rows of user_profiles this instance tells apart
          MetricRows,  \* rows of user_metrics
          None,        \* no row, no gender
          PageSize,    \* 100 in the code
          Limits,      \* limits a caller may give, 20 if it gives none
          MaxChanges   \* bound: changes around the request

Zones == {"GHOST_TOWN", "CHILL", "STEADY", "PULSE", "SPARK", "UNMAPPED"}

ASSUME DiscoveryAssumption ==
    /\ Me \notin Others /\ None \notin Profiles \cup MetricRows
    /\ \A p \in Profiles : IsFiniteSet(p.tags) /\ None \notin p.seekingGenders
    /\ \A r \in MetricRows : r.zone \in Zones /\ r.gi \in 0 .. 100 /\ r.rts \in 0 .. 100
    /\ PageSize \in Nat \ {0} /\ Limits \subseteq Nat /\ MaxChanges \in Nat

VARIABLES
    profile, metrics,  \* the rows of each user
    matched,           \* the users a row of matches, ended ones too, joins to Me
    step,                \* the next query of the request
    limit,             \* how many rows its caller wants
    me, myMetrics,     \* the rows of Me it read
    todo,              \* candidates it has not scored |-> the tags it read
    excluded, scored,
    answer,
    changes,           \* changes so far
    touched,           \* history: which data of whom changed since it began
    cut                \* history: the page left out users who fit

database == <<profile, metrics, matched>>
request == <<step, limit, me, myMetrics, todo, excluded, scored, answer, cut>>
discoveryVars == <<database, request, changes, touched>>

Everyone == Others \cup {Me}
Nobody == [u \in {} |-> {}]

----------------------------------------------------------------------------
\* ZoneCompatibilityMatrix

toDisplayZone(z) == IF z = "UNMAPPED" THEN "STEADY" ELSE z

GhostRow == [GHOST_TOWN |-> 100, CHILL |-> 70, STEADY |-> 40, PULSE |-> 10, SPARK |-> 0]
ChillRow == [GHOST_TOWN |-> 70, CHILL |-> 100, STEADY |-> 80, PULSE |-> 40, SPARK |-> 20]
SteadyRow == [GHOST_TOWN |-> 40, CHILL |-> 80, STEADY |-> 100, PULSE |-> 70, SPARK |-> 50]
PulseRow == [GHOST_TOWN |-> 10, CHILL |-> 40, STEADY |-> 70, PULSE |-> 100, SPARK |-> 80]
SparkRow == [GHOST_TOWN |-> 0, CHILL |-> 20, STEADY |-> 50, PULSE |-> 80, SPARK |-> 100]

MATRIX == [GHOST_TOWN |-> GhostRow, CHILL |-> ChillRow, STEADY |-> SteadyRow,
           PULSE |-> PulseRow, SPARK |-> SparkRow]

getScore(a, b) == MATRIX[toDisplayZone(a)][toDisplayZone(b)]

----------------------------------------------------------------------------
\* The defaults of a missing row, and the gates and the score of the loop.

Defaults == [zone |-> "STEADY", gi |-> 0, rts |-> 50]
OrDefaults(row) == IF row = None THEN Defaults ELSE row

Distance(x, y) == IF x < y THEN y - x ELSE x - y
Larger(x, y) == IF x < y THEN y ELSE x

MIN_ALIGNMENT == 50

ghostGap(a, b) == Distance(a.gi, b.gi)
Admitted(a, b) == getScore(a.zone, b.zone) >= MIN_ALIGNMENT /\ ghostGap(a, b) <= 50

jaccard(s, t) == IF s \cup t = {} THEN 50
                 ELSE (Cardinality(s \cap t) * 100) \div Cardinality(s \cup t)

Score(a, b, tagsA, tagsB) ==
    jaccard(tagsA, tagsB) + getScore(a.zone, b.zone) + 100 - Distance(a.rts, b.rts)
        - (Larger(a.gi, b.gi) * 40) \div 100 - ghostGap(a, b)

----------------------------------------------------------------------------
\* The request

ReadMe ==
    /\ step = "start"
    /\ limit' \in Limits
    /\ me' = profile[Me]
    /\ step' = "metrics"
    /\ touched' = {}
    /\ UNCHANGED <<database, myMetrics, todo, excluded, scored, answer, cut, changes>>

\* Without a gender or a preference of one's own there is nothing to offer.
ReadMyMetrics ==
    /\ step = "metrics"
    /\ myMetrics' = OrDefaults(metrics[Me])
    /\ step' = IF me = None \/ me.gender = None \/ me.seekingGenders = {} THEN "done" ELSE "page"
    /\ UNCHANGED <<database, me, todo, excluded, scored, answer, cut, limit, changes, touched>>

Suits(p, q) == q.gender \in p.seekingGenders /\ p.gender \in q.seekingGenders

WhereWithoutMutual(u) ==                \* mutant: one direction of the preference
    u # Me /\ profile[u] # None /\ profile[u].onboardingComplete
           /\ profile[u].gender \in me.seekingGenders

\* The where clause of the page.
Where(u) == u # Me /\ profile[u] # None /\ profile[u].onboardingComplete /\ Suits(me, profile[u])

Fewer(n, cap) == IF n < cap THEN n ELSE cap

\* findMany, take: PageSize rows of those that fit, in no order.
ReadPage ==
    LET fitting == {u \in Everyone : Where(u)} IN
    /\ step = "page"
    /\ \E rows \in SUBSET fitting :
          /\ Cardinality(rows) = Fewer(Cardinality(fitting), PageSize)
          /\ todo' = [u \in rows |-> profile[u].tags]
          /\ cut' = (rows # fitting)
    /\ step' = "matches"
    /\ UNCHANGED <<database, me, myMetrics, excluded, scored, answer, limit, changes, touched>>

ReadMatches ==
    /\ step = "matches"
    /\ excluded' = matched \cup {Me}
    /\ step' = "score"
    /\ UNCHANGED <<database, me, myMetrics, todo, scored, answer, cut, limit, changes, touched>>

\* One turn of the loop: an excluded candidate is skipped without a query.
ScoreCandidate ==
    /\ step = "score"
    /\ \E u \in DOMAIN todo :
          LET theirs == OrDefaults(metrics[u]) IN
          /\ scored' = IF u \in excluded \/ ~Admitted(myMetrics, theirs) THEN scored
                       ELSE Append(scored, [user |-> u,
                                            score |-> Score(myMetrics, theirs, me.tags, todo[u])])
          /\ todo' = [v \in DOMAIN todo \ {u} |-> todo[v]]
    /\ UNCHANGED <<database, step, me, myMetrics, excluded, answer, cut, limit, changes, touched>>

Arrangements(S) == {f \in [S -> S] : \A x \in S : \E i \in S : f[i] = x}

SortAscending(s) ==                     \* mutant: a.score - b.score
    {f \in Arrangements(DOMAIN s) : \A i, j \in DOMAIN s : i < j =>
        s[f[i]].score < s[f[j]].score \/ (s[f[i]].score = s[f[j]].score /\ f[i] < f[j])}

\* sort((a, b) => b.score - a.score), which is stable: the order it leaves.
Sort(s) ==
    {f \in Arrangements(DOMAIN s) : \A i, j \in DOMAIN s : i < j =>
        s[f[i]].score > s[f[j]].score \/ (s[f[i]].score = s[f[j]].score /\ f[i] < f[j])}

AnswerSliceFirst ==                     \* mutant: slice before sort
    LET slice == SubSeq(scored, 1, Fewer(Len(scored), limit)) IN
    /\ step = "score" /\ DOMAIN todo = {}
    /\ \E order \in Sort(slice) : answer' = [i \in DOMAIN slice |-> slice[order[i]]]
    /\ step' = "done"
    /\ UNCHANGED <<database, me, myMetrics, todo, excluded, scored, cut, limit, changes, touched>>

Answer ==
    /\ step = "score" /\ DOMAIN todo = {}
    /\ \E order \in Sort(scored) :
          answer' = [i \in 1 .. Fewer(Len(scored), limit) |-> scored[order[i]]]
    /\ step' = "done"
    /\ UNCHANGED <<database, me, myMetrics, todo, excluded, scored, cut, limit, changes, touched>>

----------------------------------------------------------------------------
\* What else writes the rows meanwhile.

Data == {"profile", "metrics", "match"}

Change(u, what) == /\ changes < MaxChanges /\ step # "done"
                   /\ changes' = changes + 1
                   /\ touched' = touched \cup {<<u, what>>}
                   /\ UNCHANGED request

EditProfile(u, p) ==
    /\ Change(u, "profile")
    /\ profile' = [profile EXCEPT ![u] = p]
    /\ UNCHANGED <<metrics, matched>>

Recalculated(u, row) ==
    /\ Change(u, "metrics")
    /\ metrics' = [metrics EXCEPT ![u] = row]
    /\ UNCHANGED <<profile, matched>>

MatchMade(u) ==
    /\ u \notin matched
    /\ Change(u, "match")
    /\ matched' = matched \cup {u}
    /\ UNCHANGED <<profile, metrics>>

----------------------------------------------------------------------------
DiscoveryInit ==
    /\ profile \in [Everyone -> Profiles \cup {None}]
    /\ metrics \in [Everyone -> MetricRows \cup {None}]
    /\ \A u \in Everyone : profile[u] = None => metrics[u] = None
    /\ matched \in SUBSET Others
    /\ step = "start" /\ me = None /\ myMetrics = Defaults /\ todo = Nobody /\ excluded = {}
    /\ scored = <<>> /\ answer = <<>> /\ limit = 0 /\ cut = FALSE
    /\ changes = 0 /\ touched = {}

DiscoveryNext ==
    \/ ReadMe \/ ReadMyMetrics \/ ReadPage \/ ReadMatches \/ ScoreCandidate \/ Answer
    \/ \E u \in Everyone : \/ \E p \in Profiles : EditProfile(u, p)
                        \/ \E r \in MetricRows : Recalculated(u, r)
    \/ \E u \in Others : MatchMade(u)

DiscoverySpec == DiscoveryInit /\ [][DiscoveryNext]_discoveryVars

----------------------------------------------------------------------------
\* What filter, gates and score say of two users, from the rows as they are.
HasPreference(u) == profile[u] # None /\ profile[u].gender # None /\ profile[u].seekingGenders # {}

Fitting(u, v) == /\ HasPreference(u) /\ HasPreference(v) /\ profile[v].onboardingComplete
                 /\ Suits(profile[v], profile[u])

Close(u, v) == Admitted(OrDefaults(metrics[v]), OrDefaults(metrics[u]))

ScoreNow(v) == Score(OrDefaults(metrics[v]), OrDefaults(metrics[Me]), profile[v].tags, profile[Me].tags)

\* Neither the caller's nor v's datum of this kind changed.
Steady(v, what) == <<Me, what>> \notin touched /\ <<v, what>> \notin touched

(* Types.                                                                  *)
DiscoveryTypeOK ==
    /\ profile \in [Everyone -> Profiles \cup {None}] /\ metrics \in [Everyone -> MetricRows \cup {None}]
    /\ matched \subseteq Others /\ changes \in 0 .. MaxChanges /\ touched \subseteq Everyone \X Data
    /\ me \in Profiles \cup {None} /\ myMetrics \in MetricRows \cup {Defaults}
    /\ excluded \subseteq Everyone /\ cut \in BOOLEAN /\ limit \in Limits \cup {0}

(* Whom the answer shows, the caller would be shown in turn, with the same *)
(* score, once it is onboarded: filter, gates and score are symmetric.     *)
(* Each says so of the rows as they are now unless a row it read changed   *)
(* while the request ran; a match made before the request began excludes   *)
(* its user whatever changed (discovery).                                  *)
SuggestionsMutual ==
    \A i \in DOMAIN answer :
        LET v == answer[i].user IN
        /\ v # Me /\ (v \in matched => <<v, "match">> \in touched)
        /\ Steady(v, "profile") => /\ Fitting(Me, v)
                                   /\ profile[Me].onboardingComplete => Fitting(v, Me)
        /\ Steady(v, "metrics") => Close(Me, v) /\ Close(v, Me)
        /\ (Steady(v, "profile") /\ Steady(v, "metrics")) => answer[i].score = ScoreNow(v)

(* Nobody is missed: a user who passes every filter and gate, and whose    *)
(* rows did not change while the request ran, is in the answer, unless     *)
(* the answer is full of users who score at least as high or the page was  *)
(* cut before it, which the limit of 100 rows does in no order.            *)
NobodyMissed ==
    step = "done" =>
        \A v \in Others \ matched :
            (Steady(v, "profile") /\ Steady(v, "metrics") /\ Fitting(Me, v) /\ Close(Me, v)) =>
                \/ cut
                \/ \E i \in DOMAIN answer : answer[i].user = v
                \/ Len(answer) = limit /\ \A i \in DOMAIN answer : answer[i].score >= ScoreNow(v)

(* The answer has every user once, best first, at most as many as the      *)
(* caller wants, whatever changes while the request runs.                  *)
Ranked ==
    /\ Len(answer) <= limit
    /\ \A i, j \in DOMAIN answer :
          i < j => answer[i].score >= answer[j].score /\ answer[i].user # answer[j].user
=============================================================================
