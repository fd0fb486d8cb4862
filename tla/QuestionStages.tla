--------------------------- MODULE QuestionStages ---------------------------
(***************************************************************************)
(* What becomes of the words of a question between the request and the     *)
(* prompt (agent/pipeline.py): the follow-up stage S2 rewrites it from the *)
(* conversation (agent/followup.py), the key resolver S5 finds the         *)
(* telemetry keys it names (agent/key_resolver.py), the assume-first stage *)
(* S3 states what it leaves open (agent/assume_first.py).  Each reads the  *)
(* knowledge of the tenant, S2 and S5 by a load of their own, so that it   *)
(* may change between them; the history keeps the question as it was       *)
(* asked, not as it was rewritten.                                         *)
(*                                                                         *)
(* Questions and aliases are sequences of lower-case words, and a match of *)
(* a phrase is a run of whole words; how many characters a phrase has is   *)
(* given by Length.  A pattern of words is the set of words it matches, a  *)
(* glob the set of keys.  S2 and S3 are taken to be switched on.           *)
(***************************************************************************)
EXTENDS Naturals, Sequences, FiniteSets, SequencesExt, FiniteSetsExt

CONSTANTS
    Questions,     \* what users ask
    Complaints,    \* what they say when S1 takes it for a correction
    Knowledges,    \* the knowledge a tenant may have
    Entities, Pronouns, TimeWords, AggWords,   \* the patterns of S2 and S3
    Length,        \* the number of characters of each alias
    Defaults,      \* agent.aggregation_defaults, in the order of the file
    MaxTurns       \* bound: turns of the session

None == "none"

\* knowledge: the rows of sql_agent_aliases, and the aggregation column of
\* each row of sql_agent_telemetry_registry (None: the column is null).
Phrases(k) == {row.alias : row \in ToSet(k.aliases)}
Overlapping(p) == \E n \in 1..Len(p) - 1 : SubSeq(p, 1, n) = SubSeq(p, Len(p) - n + 1, Len(p))

ASSUME StagesAssumption ==
    /\ MaxTurns \in Nat
    /\ Questions \cup Complaints \subseteq Seq(STRING)
    /\ Entities \subseteq STRING
    /\ Length \in [DOMAIN Length -> Nat]
    /\ \A k \in Knowledges :
          /\ k.aliases \in Seq([alias : Seq(STRING), key : STRING])
          /\ \A p \in Phrases(k) : p # <<>> /\ p \in DOMAIN Length /\ ~Overlapping(p)

VARIABLES
    history,     \* the questions of the recorded turns, oldest first
    knowledge,   \* the knowledge the next load returns
    stage,       \* where the current question is
    asked        \* the current question: as asked, as rewritten, what became of it

vars == <<history, knowledge, stage, asked>>

\* probe and used are what the loads of S2 and S5 returned.
NotLoaded == [aliases |-> <<>>, aggregation |-> <<>>]
NotAsked == [question |-> <<>>, text |-> <<>>, probe |-> NotLoaded, used |-> NotLoaded,
             hits |-> <<>>, keys |-> <<>>, assumed |-> None]

Init ==
    /\ history = <<>>
    /\ knowledge \in Knowledges
    /\ stage = "idle"
    /\ asked = NotAsked

-----------------------------------------------------------------------------
(* Words *)

Span(p, i) == i..(i + Len(p) - 1)

\* Where a phrase occurs in a text.
Occurrences(text, p) ==
    {i \in 1..Len(text) : /\ i + Len(p) - 1 <= Len(text)
                          /\ SubSeq(text, i, i + Len(p) - 1) = p}

Mentions(text, k) == \E p \in Phrases(k) : Occurrences(text, p) # {}

Has(text, words) == \E i \in 1..Len(text) : text[i] \in words
FirstIn(text, words) == Min({i \in 1..Len(text) : text[i] \in words})

FirstRow(k, p) == Min({i \in 1..Len(k.aliases) : k.aliases[i].alias = p})
LastRow(k, p) == Max({i \in 1..Len(k.aliases) : k.aliases[i].alias = p})

\* Mutant: shorter phrases come first.
ShorterFirst(k, p, q) ==
    \/ Length[p] < Length[q]
    \/ Length[p] = Length[q] /\ FirstRow(k, p) < FirstRow(k, q)

\* sorted(..., key=len, reverse=True), which is stable.
LongerFirst(k, p, q) ==
    \/ Length[p] > Length[q]
    \/ Length[p] = Length[q] /\ FirstRow(k, p) < FirstRow(k, q)

ByLength(k, phrases) ==
    [n \in 1..Cardinality(phrases) |->
        CHOOSE p \in phrases : Cardinality({q \in phrases : LongerFirst(k, q, p)}) = n - 1]

-----------------------------------------------------------------------------
(* S2: resolve_followup *)

TurnsWith(words) == {i \in 1..Len(history) : Has(history[i], words)}
LastEntity ==
    IF TurnsWith(Entities) = {} THEN None
    ELSE LET turn == history[Max(TurnsWith(Entities))] IN turn[FirstIn(turn, Entities)]

\* The longest alias in the newest turn that mentions one.
LastMetric(k) ==
    LET turns == {i \in 1..Len(history) : Mentions(history[i], k)} IN
    IF turns = {} THEN <<>>
    ELSE LET turn == history[Max(turns)] IN
         Head(ByLength(k, {p \in Phrases(k) : Occurrences(turn, p) # {}}))

WithMetric(text, metric) == text \o <<"(metric:">> \o metric

\* Mutant: a question completed with an entity is not completed with a metric.
RewrittenForgetful(text, k) ==
    IF history = <<>> THEN text
    ELSE IF Has(text, Pronouns) /\ ~Has(text, Entities) /\ LastEntity # None
    THEN ReplaceAt(text, FirstIn(text, Pronouns), LastEntity)
    ELSE IF Has(text, Entities) /\ LastMetric(k) # <<>> /\ ~Mentions(text, k)
    THEN WithMetric(text, LastMetric(k))
    ELSE text

\* A pronoun becomes the entity last discussed when the question has none of
\* its own; a question with an entity, its own or that one, and no metric
\* gets the metric last discussed.
Rewritten(text, k) ==
    LET metric == LastMetric(k)
        Complete(words) ==
            IF metric # <<>> /\ ~Mentions(words, k) THEN WithMetric(words, metric) ELSE words
    IN
    IF history = <<>> THEN text
    ELSE IF Has(text, Pronouns) /\ ~Has(text, Entities) /\ LastEntity # None
    THEN Complete(ReplaceAt(text, FirstIn(text, Pronouns), LastEntity))
    ELSE IF Has(text, Entities) THEN Complete(text)
    ELSE text

-----------------------------------------------------------------------------
(* S5: KeyResolver.resolve *)

KeyOf(k, p) == k.aliases[LastRow(k, p)].key
Registered(k, p) == KeyOf(k, p) \in DOMAIN k.aggregation

Claimed(hits) == UNION {Span(h.phrase, h.at) : h \in ToSet(hits)}

\* Mutant: a claimed span does not keep shorter aliases out.
ClaimAnywhere(k, text, hits, p) ==
    LET free == Occurrences(text, p) IN
    IF free = {} \/ ~Registered(k, p) THEN hits
    ELSE Append(hits, [phrase |-> p, at |-> Min(free), key |-> KeyOf(k, p)])

\* A phrase takes the first of its matches that no longer phrase claims, once.
Claim(k, text, hits, p) ==
    LET free == {i \in Occurrences(text, p) : Span(p, i) \cap Claimed(hits) = {}} IN
    IF free = {} \/ ~Registered(k, p) THEN hits
    ELSE Append(hits, [phrase |-> p, at |-> Min(free), key |-> KeyOf(k, p)])

\* taken[n]: the hits once the n longest phrases have had their turn.
AliasHits(k, text) ==
    LET order == ByLength(k, Phrases(k))
        taken[n \in 0..Len(order)] ==
            IF n = 0 THEN <<>> ELSE Claim(k, text, taken[n - 1], order[n])
    IN taken[Len(order)]

\* One entry per key, in the order of the hits.
Deduplicated(hits) ==
    LET kept[n \in 0..Len(hits)] ==
            IF n = 0 THEN <<>>
            ELSE IF Contains(kept[n - 1], hits[n].key) THEN kept[n - 1]
            ELSE Append(kept[n - 1], hits[n].key)
    IN kept[Len(hits)]

-----------------------------------------------------------------------------
(* S3: assume_first *)

\* What _cold_load makes of the aggregation column.
Loaded(k, key) == IF k.aggregation[key] = None THEN "average" ELSE k.aggregation[key]

\* The configured defaults in the order they are tried: sorted by whether
\* the pattern differs from "*", which puts "*" first.
Tried == SelectSeq(Defaults, LAMBDA d : d.star) \o SelectSeq(Defaults, LAMBDA d : ~d.star)

Configured(key) ==
    LET covering == SelectSeq(Tried, LAMBDA d : key \in d.covers) IN
    IF covering = <<>> THEN "average" ELSE Head(covering).aggregation

DefaultAggregation(k, key) == IF Loaded(k, key) # "" THEN Loaded(k, key) ELSE Configured(key)

\* The dimensions S3 adds to the question; None where it has its own.
Assumed(k, text, keys) ==
    [aggregation |-> IF Has(text, AggWords) \/ keys = <<>> THEN None
                     ELSE DefaultAggregation(k, Head(keys)),
     window |-> ~Has(text, TimeWords),
     fleet |-> ~Has(text, Entities)]

-----------------------------------------------------------------------------
(* The pipeline *)

Ask(q) ==
    /\ stage = "idle"
    /\ stage' = "followup"
    /\ asked' = [NotAsked EXCEPT !.question = q, !.text = q]
    /\ UNCHANGED <<history, knowledge>>

\* S1 takes a complaint about the last turn for a correction, and the LLM
\* words the question that was meant; it skips S2.
Correct(complaint, meant) ==
    /\ stage = "idle" /\ history # <<>>
    /\ stage' = "resolve"
    /\ asked' = [NotAsked EXCEPT !.question = complaint, !.text = meant]
    /\ UNCHANGED <<history, knowledge>>

FollowUp ==
    /\ stage = "followup"
    /\ stage' = "resolve"
    /\ asked' = [asked EXCEPT !.text = Rewritten(@, knowledge), !.probe = knowledge]
    /\ UNCHANGED <<history, knowledge>>

Resolve ==
    /\ stage = "resolve"
    /\ stage' = "resolved"
    /\ LET hits == AliasHits(knowledge, asked.text)
           keys == Deduplicated(hits)
       IN asked' = [asked EXCEPT !.used = knowledge, !.hits = hits, !.keys = keys,
                                 !.assumed = Assumed(knowledge, asked.text, keys)]
    /\ UNCHANGED <<history, knowledge>>

\* The rest of the pipeline: an answer is recorded under the question asked.
Finish ==
    /\ stage = "resolved"
    /\ \/ /\ Len(history) < MaxTurns
          /\ history' = Append(history, asked.question)
       \/ UNCHANGED history
    /\ stage' = "idle"
    /\ asked' = NotAsked
    /\ UNCHANGED knowledge

\* A write path teaches the tenant something else, or takes it away.
Relearn ==
    /\ knowledge' \in Knowledges
    /\ UNCHANGED <<history, stage, asked>>

Next ==
    \/ \E q \in Questions : Ask(q)
    \/ \E complaint \in Complaints, meant \in Questions : Correct(complaint, meant)
    \/ FollowUp \/ Resolve \/ Finish \/ Relearn

Spec == Init /\ [][Next]_vars

-----------------------------------------------------------------------------
(* Properties *)

Resolved == stage = "resolved"

\* Every alias of a registered key that the text mentions is either taken or
\* covered, wherever it occurs, by aliases at least as long: no mention of a
\* metric is overlooked, and no key is left out of the prompt.
NoMentionOverlooked ==
    Resolved =>
        \A p \in Phrases(asked.used) :
            Registered(asked.used, p) /\ Occurrences(asked.text, p) # {} =>
                \/ Contains(asked.keys, KeyOf(asked.used, p))
                \/ \A i \in Occurrences(asked.text, p) :
                      \E h \in ToSet(asked.hits) :
                          /\ Span(p, i) \cap Span(h.phrase, h.at) # {}
                          /\ Length[h.phrase] >= Length[p]

\* "longest first": a hit is a mention of a registered alias, no two hits
\* share a word, and where a longer alias also matches, the shorter one is
\* only taken because the longer one has taken another mention or has itself
\* given way there.
LongestFirst ==
    Resolved =>
        \A h \in ToSet(asked.hits) :
            LET Others == ToSet(asked.hits) \ {h} IN
            /\ h.at \in Occurrences(asked.text, h.phrase)
            /\ h.key \in DOMAIN asked.used.aggregation
            /\ \A g \in Others : Span(g.phrase, g.at) \cap Span(h.phrase, h.at) = {}
            /\ \A p \in Phrases(asked.used) : \A i \in Occurrences(asked.text, p) :
                  /\ Registered(asked.used, p) /\ Length[p] > Length[h.phrase]
                  /\ Span(p, i) \cap Span(h.phrase, h.at) # {}
                  => \E g \in Others :
                        \/ g.phrase = p
                        \/ /\ Span(p, i) \cap Span(g.phrase, g.at) # {}
                           /\ Length[g.phrase] >= Length[p]

\* A follow-up about an entity, named or meant by a pronoun, that comes after
\* a mention of a metric leads to a key, unless the tenant's knowledge
\* changed between the two loads or holds an alias without a key.
FollowUpFindsMetric ==
    Resolved /\ asked.probe = asked.used /\ LastMetric(asked.used) # <<>>
    /\ (\A p \in Phrases(asked.used) : Registered(asked.used, p))
    /\ (Has(asked.question, Entities) \/ (Has(asked.question, Pronouns) /\ LastEntity # None))
    => asked.keys # <<>>

\* "fills missing aggregation (per-key registry + agent.aggregation_defaults
\* glob patterns)": for a key without an aggregation of its own, a glob
\* configured for it decides.
ConfiguredDefaultApplies ==
    Resolved /\ asked.assumed.aggregation # None =>
        LET key == Head(asked.keys)
            globs == {d \in ToSet(Defaults) : ~d.star /\ key \in d.covers}
        IN asked.used.aggregation[key] = None /\ globs # {} =>
               asked.assumed.aggregation \in {d.aggregation : d \in globs}
=============================================================================
