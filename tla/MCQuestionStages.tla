-------------------------- MODULE MCQuestionStages --------------------------
(* A small instance of QuestionStages for TLC. *)
EXTENDS QuestionStages, TLC

MCQuestions == {
    <<"oil", "temp", "of", "truck-1", "today">>,
    <<"its", "oil", "pressure">>,
    <<"average", "engine", "oil", "temp", "of", "truck-2", "last", "week">>,
    <<"and", "this", "week">>,
    <<"cabin", "temp", "or", "oil", "temp", "or", "outer", "oil", "temp">>,
    <<"what", "about", "truck-2">>,
    <<"battery", "of", "truck-1">>,
    <<"fuel", "level", "now">>,
    <<"how", "are", "you">>}

MCComplaints == {<<"no", "i", "meant", "the", "oil">>}

Row(phrase, canonical) == [alias |-> phrase, key |-> canonical]

Rows == <<
    Row(<<"temp">>, "cabin.temperature"),
    Row(<<"oil">>, "oil.quality"),
    Row(<<"oil", "temp">>, "oil.temperature"),
    Row(<<"engine", "oil">>, "oil.quality"),
    Row(<<"oil", "pressure">>, "oil.pressure"),
    Row(<<"battery">>, "battery.voltage")>>

Registry == [key \in {"cabin.temperature", "oil.quality", "oil.temperature",
                      "oil.pressure", "battery.voltage"} |->
                IF key = "oil.pressure" THEN "max" ELSE None]

\* All of it; with an alias of a key that is not registered; a tenant that
\* has only begun, and whose one alias was taught twice.
MCKnowledges == {
    [aliases |-> Rows, aggregation |-> Registry],
    [aliases |-> Append(Rows, Row(<<"fuel", "level">>, "fuel.level")),
     aggregation |-> [key \in DOMAIN Registry \ {"oil.temperature"} |-> Registry[key]]],
    [aliases |-> <<Row(<<"temp">>, "cabin.temperature"), Row(<<"temp">>, "oil.temperature")>>,
     aggregation |-> ("oil.temperature" :> "max")]}

MCLength == [phrase \in {row.alias : row \in ToSet(Rows)} \cup {<<"fuel", "level">>} |->
    CASE phrase = <<"oil">> -> 3
      [] phrase = <<"temp">> -> 4
      [] phrase = <<"battery">> -> 7
      [] phrase = <<"oil", "temp">> -> 8
      [] phrase = <<"engine", "oil">> -> 10
      [] phrase = <<"fuel", "level">> -> 10
      [] phrase = <<"oil", "pressure">> -> 12]

\* The first two entries of config/defaults.yaml.
MCDefaults == <<
    [star |-> TRUE, covers |-> DOMAIN Registry, aggregation |-> "average"],
    [star |-> FALSE, covers |-> {"battery.voltage"}, aggregation |-> "latest"]>>
=============================================================================
