\* Any four of seven edits of a list of three items, with two keys and the portal.
SPECIFICATION Spec
CONSTANTS
    add = add  preset = preset  delete1 = delete1  delete2 = delete2
    reorder = reorder  patch = patch  replace = replace  keyA = keyA  keyB = keyB
    Items = {1, 2, 3, 4, 5, 6, 7}
    First <- Created
    Jobs = {add, preset, delete1, delete2, reorder, patch, replace}
    Kind <- Does
    Names <- Item
    Brings <- New
    KeyOf <- UsedKey
    MaxRequests = 4
    None = None
INVARIANTS
    TypeOK
    DenseUnlessOverlapped
PROPERTY
    RepackRepairs
\* Every request may be over.
CHECK_DEADLOCK FALSE
