\* Two threads and two numbers of posts.
SPECIFICATION PostsSpec
CONSTANTS
    a = a  nl = nl  hole = hole  tag = tag  ref = ref
    w1 = w1  w2 = w2  i1 = i1  i2 = i2
    Workers = {w1, w2}
    MaxInt = 2
    Names <- MCNames
    Posts = {1}
    Texts <- MCTexts
    Garbage = {0, 1}
    PostIdHole = hole
    EndTag = tag
    Reference = ref
    Referred = a
    Inodes = {i1, i2}
    Byte = {a, nl, hole, tag, ref}
    NL = nl
    NoFile = NoFile
    NoName = NoName
    Faults = {"open", "mkdir"}
SYMMETRY MCSymmetry
INVARIANTS
    PostsTypeOK
    SavedTextKept
    PageShowsOwnText
    DeletedNotListed
    CreateSparesSaved
    EditSaveIdentity
