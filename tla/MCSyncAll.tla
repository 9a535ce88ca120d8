------------------------------ MODULE MCSyncAll ------------------------------
EXTENDS SyncAll

\* A small and a large book.
MCFileSize == <<1, 2>>

MCLimits == {-2, 2}

=============================================================================
