SPECIFICATION FairSpec
CONSTANTS
    Groups = {1, 2}
    OptedIn = {1}
    GroupOf <- MCGroupOf
    Digests = {d1, d2}
    Calendars = {c1, c2}
    TranscriptMax = 10
    FallbackMax = 10
    MaxToggles = 1
    MaxFaults = 1
INVARIANT TypeOK
PROPERTIES NothingLost EventuallyMailed
