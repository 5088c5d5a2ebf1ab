SPECIFICATION Spec
CONSTANTS
    User = User
    Album = Album
    Asset = Asset
    Clip = Clip
    Video = Video
    Image = Image
    Reply = Reply
    u1 = u1
    a1 = a1
    v1 = v1
    i1 = i1
    r1 = r1
    deleter = deleter
    creator = creator
    NoModel = NoModel
    NoId = NoId
    NoRow = NoRow
    Clean = Clean
    NoReq = NoReq
    Models <- MCModels
    Base <- MCBase
    Owner <- MCOwner
    OnDelete <- MCOnDelete
    UpdatedAt <- MCUpdatedAt
    Ids <- MCIds
    Kind <- MCKind
    Clients = {deleter, creator}
    Menu <- MCMenu
    Isolations = {"Serializable", "ReadCommitted"}
INVARIANTS
    ReadsAgree
    OwnDeletesDoNotCollide
PROPERTIES
    DeletesAreComplete
    ImplementsContract
