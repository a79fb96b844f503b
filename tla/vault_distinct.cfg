SPECIFICATION Spec
CONSTANTS
    k1 = k1
    k2 = k2
    person = person
    city = city
    ann = ann
    bob = bob
    s1 = s1
    s2 = s2
    s3 = s3
    s4 = s4
    r1 = r1
    r2 = r2
    Scopes = {k1, k2}
    Types = {person}
    Values = {ann, bob}
    Surrogates = {s1, s2}
    Generate <- Distinct
    TTL = 2
    MaxTime = 3
    Requests = {r1, r2}
    NoEntry = NoEntry
SYMMETRY Symmetry
PROPERTIES
    RoundTrip
    TableSpec
