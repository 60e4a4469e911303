----------------------------- MODULE MCRetrieval -----------------------------
\* Values for Retrieval: the exposure begins at 4, and three directories, one of
\* them without a time in its name, may have files from before it.
EXTENDS Retrieval

File(dir, at, named) == [dir |-> dir, at |-> at, named |-> named, raw |-> TRUE]

MCOldFiles ==
    SUBSET {File(0, 0, FALSE), File(1, 1, TRUE), File(1, 3, FALSE), File(2, 2, TRUE)}
=============================================================================
