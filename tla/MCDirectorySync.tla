-------------------------- MODULE MCDirectorySync --------------------------
EXTENDS DirectorySync, TLC
CONSTANTS p, q
ListsQFirst == <<q, p>>
=============================================================================
