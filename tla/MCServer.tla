------------------------------ MODULE MCServer ------------------------------
EXTENDS Server

CONSTANTS c, l, r1, h, j

MCShutOrder == <<c, l>>

\* Chromium is started eagerly or lazily, LibreOffice lazily.
MCLazySets == {{l}, {c, l}}

\* /health looks at both engines; the job is an office conversion.
MCVisits == [t \in Callers |-> CASE t = h -> <<c, l>> [] t = j -> <<l>> [] OTHER -> <<c>>]
=============================================================================
