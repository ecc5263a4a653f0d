--------------------------------- MODULE Rows ---------------------------------
\* Rows of tables whose ids are never reused (cuid), so that a row that was deleted
\* differs from one not created yet.
NoRow   == [row |-> "absent"]
Deleted == [row |-> "deleted"]
Exists(row) == row \notin {NoRow, Deleted}

=============================================================================
