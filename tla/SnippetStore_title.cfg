\* The documentation promises TitleAsProvided; the code does not keep it.
SPECIFICATION Spec
CONSTANTS
    Requests = {r1, r2, r3}
    Users = {u1}
    Snippets = {s1}
    ShortIds = {i1}
    Titles = {t1, t2}
    Contents = {c1, c2}
    NULL = NULL
PROPERTY
    TitleAsProvided
