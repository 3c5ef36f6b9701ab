----------------------------- MODULE MCSsTable -----------------------------
EXTENDS SsTable

\* Three keys, two of them with an older version; pages of one or two records.
MCRecords == {[key |-> 1, seq |-> 1, size |-> 2], [key |-> 1, seq |-> 4, size |-> 1],
              [key |-> 2, seq |-> 2, size |-> 2], [key |-> 2, seq |-> 5, size |-> 1],
              [key |-> 3, seq |-> 3, size |-> 1]}

\* A key, an open range, an empty one past the end, and everything up to a key.
MCRanges == {[lower |-> 2, upper |-> 2], [lower |-> 2, upper |-> 0],
             [lower |-> 4, upper |-> 0], [lower |-> 0, upper |-> 2]}
=============================================================================
