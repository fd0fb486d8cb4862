CONSTANTS
    Questions <- MCQuestions
    Complaints <- MCComplaints
    Knowledges <- MCKnowledges
    Entities = {"truck-1", "truck-2"}
    Pronouns = {"it", "its", "that", "this", "them"}
    TimeWords = {"today", "last", "this", "week", "now"}
    AggWords = {"average", "max", "latest", "last"}
    Length <- MCLength
    Defaults <- MCDefaults
    MaxTurns = 2
SPECIFICATION Spec
INVARIANT ConfiguredDefaultApplies
