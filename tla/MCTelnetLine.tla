--------------------------- MODULE MCTelnetLine ---------------------------
EXTENDS TelnetLine

Keys == {"A", Space}
AllNewlines == {<<LF>>, <<CR>>, <<CR, LF>>, <<CR, NUL>>}
=============================================================================
