---------------------------- MODULE EvidenceBudget ----------------------------
(***************************************************************************)
(* The limits of a search for candidates: ExplorationBudget and its        *)
(* tracker.  A sighting is what the browse agent claims to have seen: a    *)
(* user, and the video or comment that shows the user.                     *)
(***************************************************************************)
EXTENDS Naturals, FiniteSets

CONSTANTS
    NumKeywords,       \* the keywords of the plan, in its order
    User, Video, Comment,
    None,              \* no video, no comment
    MaxKeywords, MaxVideos, MaxComments, MaxProfiles, MaxAuthorVideos,
    MaxObservations    \* the fields of ExplorationBudget

ASSUME BudgetAssumption ==
    /\ NumKeywords \in 1..MaxKeywords
    /\ {MaxKeywords, MaxVideos, MaxComments, MaxProfiles, MaxAuthorVideos,
        MaxObservations} \subseteq Nat \ {0}
    /\ None \notin User \cup Video \cup Comment
    /\ IsFiniteSet(User)

Keyword == 1..NumKeywords

Source == {"comment_author", "video_author", "direct_user", "profile"}

\* page: the video whose page the comment's address names.
Sighting ==
    {s \in [user : User, source : Source, video : Video \cup {None},
            page : Video \cup {None}, comment : Comment \cup {None}] :
        s.source = "comment_author" => s.comment # None}

DirectUser(u) == [user |-> u, source |-> "direct_user", video |-> None,
                  page |-> None, comment |-> None]

\* The limits, in the order in which consume_observation looks at them; the
\* last one is told last when it is reached.
LimitOrder == <<"max_keywords", "max_videos_per_keyword",
                "max_comments_per_video", "max_profiles",
                "max_author_videos", "max_total_observations">>

LimitName == {LimitOrder[i] : i \in 1..6}

First(S) ==
    LimitOrder[CHOOSE i \in 1..6 :
                   /\ LimitOrder[i] \in S
                   /\ \A j \in 1..(i - 1) : LimitOrder[j] \notin S]

\* reasons: the limits that the last call has met.
Tracker == [keywords : SUBSET Keyword, videos : [Keyword -> SUBSET Video],
            comments : [Video \cup {None} -> SUBSET Comment],
            profiles : SUBSET User, authored : [User -> SUBSET Video],
            total : 0..MaxObservations, reasons : SUBSET LimitName]

NewTracker ==
    [keywords |-> {}, videos |-> [k \in Keyword |-> {}],
     comments |-> [v \in Video \cup {None} |-> {}], profiles |-> {},
     authored |-> [u \in User |-> {}], total |-> 0, reasons |-> {}]

Exhausted(t) == t.total >= MaxObservations

-----------------------------------------------------------------------------
(* A sighting counts once towards each limit                               *)

Limit == [max_keywords |-> MaxKeywords,
          max_videos_per_keyword |-> MaxVideos,
          max_comments_per_video |-> MaxComments,
          max_profiles |-> MaxProfiles,
          max_author_videos |-> MaxAuthorVideos]

Scope(s) == IF s.video # None THEN s.video ELSE s.page

\* What counts towards each limit so far, and what the sighting adds.
Counted(t, s, k) ==
    [max_keywords |-> t.keywords,
     max_videos_per_keyword |-> t.videos[k],
     max_comments_per_video |-> t.comments[Scope(s)],
     max_profiles |-> t.profiles,
     max_author_videos |-> t.authored[s.user]]

Added(s, k) ==
    [max_keywords |-> {k},
     max_videos_per_keyword |-> {s.video} \ {None},
     max_comments_per_video |-> {s.comment} \ {None},
     max_profiles |-> {s.user},
     max_author_videos |-> IF s.source = "profile" THEN {s.video} \ {None}
                           ELSE {}]

New(t, s, k) ==
    {l \in DOMAIN Limit : ~(Added(s, k)[l] \subseteq Counted(t, s, k)[l])}

AtLimit(t, s, k) ==
    {l \in DOMAIN Limit : Cardinality(Counted(t, s, k)[l]) >= Limit[l]}

Take(t, s, k) ==
    [t EXCEPT !.keywords = @ \cup Added(s, k).max_keywords,
              !.videos[k] = @ \cup Added(s, k).max_videos_per_keyword,
              !.comments[Scope(s)] =
                  @ \cup Added(s, k).max_comments_per_video,
              !.profiles = @ \cup Added(s, k).max_profiles,
              !.authored[s.user] = @ \cup Added(s, k).max_author_videos,
              !.total = @ + 1]

Total(t) == IF Exhausted(t) THEN {"max_total_observations"} ELSE {}

\* consume_observation: reason is why a sighting is refused, reached are the
\* limits that an accepted one fills.
Consume(t, s, k) ==
    LET met == New(t, s, k) \cap AtLimit(t, s, k)
        reason == IF Exhausted(t) THEN "max_total_observations" ELSE First(met)
        next == Take(t, s, k)
        reached == (New(t, s, k) \cap AtLimit(next, s, k)) \cup Total(next)
    IN  IF Exhausted(t) \/ met # {}
        THEN [accepted |-> FALSE, reason |-> reason,
              stop |-> reason \notin {"max_comments_per_video",
                                     "max_author_videos"},
              reached |-> {}, tracker |-> [t EXCEPT !.reasons = {reason}]]
        ELSE [accepted |-> TRUE, reason |-> "none", stop |-> Exhausted(next),
              reached |-> reached,
              tracker |-> [next EXCEPT !.reasons = reached]]

\* allow_keyword, of a keyword the tracker does not know.
KeywordAllowed(t) == Cardinality(t.keywords) < MaxKeywords

AllowKeyword(t, k) ==
    IF KeywordAllowed(t)
    THEN [t EXCEPT !.keywords = @ \cup {k},
                   !.reasons = IF Cardinality(t.keywords) + 1 >= MaxKeywords
                               THEN {"max_keywords"} ELSE {}]
    ELSE [t EXCEPT !.reasons = {"max_keywords"}]
=============================================================================
