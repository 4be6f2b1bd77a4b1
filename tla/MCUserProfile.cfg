SPECIFICATION ProfileSpec
CONSTANTS
    Requests = {r1, r2}
    MAX_USER_PHOTOS = 2
    AdultAge = 1
    Dates <- MCDates
    LastYear = 1
    MaxUploads = 2
    Foreign = Foreign
    None = None
INVARIANTS
    GallerySound
    AdultsOnly
    OnboardedComplete
PROPERTIES
    GalleryWrites
