---------------------------- MODULE MCSelfUpdate ----------------------------
EXTENDS SelfUpdate
\* The last of five migrations fails; the second, third and fourth run outside a
\* transaction, and the third cannot run over its own effect.
MCShips == <<1, 3, 5>>
=============================================================================
