SPECIFICATION Spec
CONSTANTS
    Groups = {1}
    OptedIn = {1}
    GroupOf <- MCBusyGroup
    Digests = {d1}
    Calendars = {c1}
    TranscriptMax = 10
    FallbackMax = 1
    MaxToggles = 0
    MaxFaults = 0
PROPERTIES NothingLostFromView
