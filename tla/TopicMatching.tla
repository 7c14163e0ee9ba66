--------------------------- MODULE TopicMatching ---------------------------
(***************************************************************************)
(* topic.rs: does a topic name match a topic filter?  The code compares    *)
(* byte by byte and takes wildcards as it meets them; MQTT defines the     *)
(* answer level by level.  Indexes start at 0, as the code's do.           *)
(***************************************************************************)
EXTENDS Integers, Sequences, FiniteSets, SequencesExt

Slash == 47
Plus  == 43
Hash  == 35
Dollar == 36

\* The byte at an index, or -1 past the end.
At(s, i) == IF i \in 0..(Len(s) - 1) THEN s[i + 1] ELSE -1

\* Slip: only a trailing "/#" is looked for.
Slip_MatchEndWildcards(filter, at) ==
  At(filter, at + 1) = Slash /\ At(filter, at + 2) = Hash /\ at = Len(filter) - 3

\* match_end_wildcards: the name has ended at `at`.
MatchEndWildcards(filter, at) ==
  \/ at = Len(filter) - 3 /\ At(filter, at + 1) = Slash /\ At(filter, at + 2) = Hash
  \/ at = Len(filter) - 2 /\ At(filter, at) = Slash /\ At(filter, at + 1) \in {Plus, Hash}

Step(stop, matched, name, at) ==
  [stop |-> stop, matched |-> matched, name |-> name, at |-> at]

\* match_wildcards
MatchWildcards(topic, filter, name, at) ==
  LET validHere == at = 0 \/ At(filter, at - 1) = Slash
      slashes   == {i \in name..(Len(topic) - 1) : At(topic, i) = Slash}
  IN  IF At(filter, at) = Plus /\ validHere
      THEN CASE slashes = {} -> Step(FALSE, FALSE, Len(topic) - 1, at)
             [] At(filter, at + 1) = Slash -> Step(FALSE, FALSE, Min(slashes), at + 1)
             [] OTHER -> Step(TRUE, FALSE, Min(slashes), at)
      ELSE Step(TRUE, At(filter, at) = Hash /\ at = Len(filter) - 1 /\ validHere, name, at)

\* The loop's body.
MatchStep(topic, filter, s) ==
  IF At(topic, s.name) # At(filter, s.at) THEN MatchWildcards(topic, filter, s.name, s.at)
  ELSE [s EXCEPT !.matched = s.name = Len(topic) - 1 /\ MatchEndWildcards(filter, s.at)]

\* match_filter: the filter index grows with every turn, so Len(filter) turns
\* are enough.
MatchFilter(topic, filter) ==
  LET Ended(s) == s.matched \/ s.stop \/ s.name >= Len(topic) \/ s.at >= Len(filter)
      Turn[k \in 0..Len(filter)] ==
        IF k = 0 THEN Step(FALSE, FALSE, 0, 0)
        ELSE LET s == Turn[k - 1]
             IN  IF Ended(s) THEN s
                 ELSE LET next == MatchStep(topic, filter, s)
                      IN  IF next.matched \/ next.stop THEN next
                          ELSE [next EXCEPT !.name = @ + 1, !.at = @ + 1]
      last == Turn[Len(filter)]
  IN  last.matched \/ (last.name = Len(topic) /\ last.at = Len(filter))

\* matches
Matches(topic, filter) ==
  IF topic = <<>> \/ filter = <<>> THEN "BadParameter"
  ELSE IF topic = filter THEN "Match"
  ELSE IF At(topic, 0) = Dollar /\ At(filter, 0) \in {Plus, Hash} THEN "NoMatch"
  ELSE IF MatchFilter(topic, filter) THEN "Match" ELSE "NoMatch"

---------------------------------------------------------------------------
(* The definition. *)

\* The levels of a name or a filter: what lies between its slashes.
Levels(s) ==
  LET cuts == SetToSortSeq({i \in DOMAIN s : s[i] = Slash} \cup {0, Len(s) + 1}, <)
  IN  [n \in 1..(Len(cuts) - 1) |-> SubSeq(s, cuts[n] + 1, cuts[n + 1] - 1)]

\* A wildcard fills its level, and '#' is the last one.
WellFormedFilter(filter) ==
  LET levels == Levels(filter)
  IN  /\ filter # <<>>
      /\ \A n \in DOMAIN levels :
           /\ Plus \in Range(levels[n]) => levels[n] = <<Plus>>
           /\ Hash \in Range(levels[n]) => levels[n] = <<Hash>> /\ n = Len(levels)

\* '#' stands for any number of levels, none included.
MatchesByLevels(topic, filter) ==
  LET names   == Levels(topic)
      levels  == Levels(filter)
      open    == levels[Len(levels)] = <<Hash>>
      fixed   == IF open THEN Len(levels) - 1 ELSE Len(levels)
  IN  /\ IF open THEN Len(names) >= fixed ELSE Len(names) = fixed
      /\ \A n \in 1..fixed : levels[n] \in {<<Plus>>, names[n]}
      /\ ~(At(topic, 0) = Dollar /\ At(filter, 0) \in {Plus, Hash})
=============================================================================
