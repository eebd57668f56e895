--------------------------- MODULE MCHousekeeping ---------------------------
\* The house keeping with a clock of six instants, passes of one or two of
\* them, and a blob of two pages.
EXTENDS Housekeeping

CONSTANTS plain, chosen

MCValues == {plain, chosen}
=============================================================================
