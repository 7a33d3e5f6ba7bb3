SPECIFICATION Spec
CONSTANTS
    place = place auto = auto expand = expand available = available latest = latest
    files = files notification = notification about = about
    blank = blank tmp = tmp folder = folder slashed = slashed
    zero = zero one = one version = version
    Keys = {place, auto, expand, available, latest}
    Values = {blank, tmp, folder, slashed, zero, one, version}
    Groups = {files, notification, about}
    Allowed <- AllowedOf
    GroupOf <- GroupOfKey
    Default <- BuiltIn
    Notification = notification
    Texts = {place, latest} Blank = blank
    Place = place Tmp = tmp Slash <- SlashOf
    Available = available Yes = one No = zero Latest = latest
    AutoDownload = auto AutoExpand = expand
    Heard <- HeardFirst
    Older <- OlderFiles Absent = Absent
    MaxSets = 2 MaxExits = 1 MaxWrites = 2
    Missing = Missing Empty = Empty Torn = Torn
INVARIANTS Kept Healthy Resumes
CHECK_DEADLOCK FALSE
CONSTRAINT Explored
