\* A duplicate that overlaps its original.
SPECIFICATION Spec
CONSTANTS
    Timeline = {t1}
    Details = {d1}
    Call = {c1, c2}
    Key = {k1, k2}
    None = None
PROPERTY
    DuplicateIsReplayed
