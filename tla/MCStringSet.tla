--------------------------- MODULE MCStringSet ---------------------------
EXTENDS StringSet

\* Three strings: "ab" < "abc" < "abd", so join meets two widths.
MCStrs == {1, 2, 3}
MCWidth(x) == IF x = 1 THEN 2 ELSE 3
\* writeSortedMap's index order, here the reverse of the string order.
MCRank(x) == 10 - x

\* The map of updateLater is read by no property.
MCView == <<arr, n, sorted, frozen, panicked, last>>
=============================================================================
