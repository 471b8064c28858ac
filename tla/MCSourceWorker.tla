--------------------------- MODULE MCSourceWorker ---------------------------
\* Small sources for TLC: three rows, of which two share a time and two are
\* versions of one record.
EXTENDS SourceWorker

IntervalSet == {<<1, 3>>}
RowSet == 1..3
RowTimes == <<1, 1, 2>>
RecordSet == {"x", "y"}
RecordOfRow == <<"x", "y", "x">>
=============================================================================
