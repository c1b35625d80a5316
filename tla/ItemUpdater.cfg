CONSTANTS
    Devices = {"d0", "d1"}
    Images = {"img"}
    NeedVerify = TRUE
    UpdateTogether = FALSE
    Filters = {"UpdateAll", "UpdateNone"}
    BusResults = {TRUE, FALSE}
    MaxMessages = 2
    MaxDeletes = 1
    MayRestart = TRUE
SPECIFICATION FairSpec
PROPERTIES CountedDevicesAreUpdated ActivationEnds
