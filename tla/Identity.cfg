CONSTANTS
    m1 = m1
    m2 = m2
    m3 = m3
    m4 = m4
    acme = acme
    acmes = acmes
    ames = ames
    acne = acne
    n1 = n1
    n2 = n2
    gb = gb
    us = us
    Mentions = {m1, m2, m3, m4}
    Says <- Neighbours
    FromRegister = {m2}
    Names = {acme, acmes, ames, acne}
    Placeholders = {}
    Likeness <- Alike
    Numbers = {n1, n2}
    Countries = {gb, us}
    Home = gb
    People = {p}
    p = p
    Unknown = Unknown
    Cap = 2
    MaxCompanies = 3
    MaxReads = 3
    MaxMerges = 2
    MaxFacts = 2
SPECIFICATION Spec
INVARIANTS OneRowPerCompany NewestDecisionSurvives ErasedStaysErased
PROPERTIES ImplementsPartition UndoIsExact
CHECK_DEADLOCK FALSE
