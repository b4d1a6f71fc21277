\* Three updates of two fields, two mints of one or two tokens, perhaps the same.
SPECIFICATION Spec
CONSTANTS
    Row = {m1, m2}
    TokenId = {t1, t2}
    Field = {f1, f2}
    Update = {u1, u2, u3}
    None = None
SYMMETRY Symmetry
INVARIANTS MetadataTypeOK LastUpdatesKept UpdatesAreServed
