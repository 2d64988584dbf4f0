---------------------------- MODULE StrategyReview ----------------------------
(***************************************************************************)
(* One outreach strategy: the strategies row of a candidate, the upsert of *)
(* the strategy stage and the compare-and-swap mutations of the people who *)
(* review it.  CanX is the WHERE clause of an UPDATE, X the row it writes. *)
(* The module is constant-level.                                           *)
(*                                                                         *)
(* A voice is a persona and a strategy type.  The project owns one neutral *)
(* text for each voice and channel, written here as the voice itself.  All *)
(* texts are ones that StrategyResult accepts, and so is every strategy    *)
(* that the service or the stage can write.                                *)
(***************************************************************************)
EXTENDS Naturals

CONSTANTS
    Voice,    \* personas and strategy types, and the neutral texts for them
    Prose,    \* texts that people write
    Blank     \* the empty text

ASSUME TextAssumption == Blank \notin Voice \cup Prose

Channel == {"comment", "dm"}

Text == Voice \cup Prose \cup {Blank}

ReviewStatus == {"draft", "approved", "rejected"}

\* id 0: the candidate has no strategy.
Strategy == [id : Nat, status : ReviewStatus, version : Nat,
             voice : Voice \cup {Blank}, text : [Channel -> Text]]

NoStrategy == [id |-> 0, status |-> "draft", version |-> 0,
               voice |-> Blank, text |-> [c \in Channel |-> Blank]]

\* render_safe_campaign_strategy keeps the voice and replaces the texts.
Neutral(v) == [c \in Channel |-> v]

\* The edits StrategyResult accepts: one template at least is not empty.
Edit == {e \in [voice : Voice, text : [Channel -> Text]] :
            \E c \in Channel : e.text[c] # Blank}

-----------------------------------------------------------------------------
\* Seeded fault: a strategy that is written again keeps its review.
KeepReview(s, id, v) ==
    IF s.id = 0
    THEN [id |-> id, status |-> "draft", version |-> 0,
          voice |-> v, text |-> Neutral(v)]
    ELSE [s EXCEPT !.voice = v, !.text = Neutral(v), !.version = @ + 1]

\* add_strategy: one strategy per candidate, and a new text is a new draft.
AddStrategy(s, id, v) ==
    IF s.id = 0
    THEN [id |-> id, status |-> "draft", version |-> 0,
          voice |-> v, text |-> Neutral(v)]
    ELSE [s EXCEPT !.voice = v, !.text = Neutral(v),
                   !.status = "draft", !.version = @ + 1]

CanEdit(s, version) == s.id # 0 /\ s.version = version

\* Seeded fault: an edit does not count as a new version.
EditInPlace(s, e) ==
    [s EXCEPT !.voice = e.voice, !.text = e.text, !.status = "draft"]

EditStrategy(s, e) ==
    [s EXCEPT !.voice = e.voice, !.text = e.text,
              !.status = "draft", !.version = @ + 1]

\* Seeded fault: whatever the reviewer saw, the draft there is now counts.
CanReviewUnseen(s, version) == s.id # 0 /\ s.status = "draft"

CanReview(s, version) ==
    s.id # 0 /\ s.version = version /\ s.status = "draft"

ReviewStrategy(s, target) ==
    [s EXCEPT !.status = target, !.version = @ + 1]
=============================================================================
